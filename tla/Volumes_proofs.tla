--------------------------- MODULE Volumes_proofs ---------------------------
(***************************************************************************)
(* The layouts and the reads of VirtualRaid for every set of members, the  *)
(* index of DedupIndex for every list of records and threshold, and of     *)
(* DiskImages the replay of a VHDX log, for any log and map, and the       *)
(* images in a folder, for any of them.                                    *)
(***************************************************************************)
EXTENDS VirtualRaid, DedupIndex, DiskImages, NaturalRecursion, FiniteSetTheorems, TLAPS

----------------------------------------------------------------------------
(* RAID 5                                                                  *)

LEMMA Raid5Parity ==
    ASSUME NEW n \in Nat \ {0}, NEW stripe \in Nat, NEW algorithm \in Algorithms
    PROVE  /\ raid5ParityDisk(stripe, n, algorithm) \in 0..(n - 1)
           /\ raid5ParityDisk(stripe, n, algorithm) =
                IF algorithm \in {"rightAsymmetric", "rightSymmetric"}
                THEN stripe % n ELSE n - 1 - (stripe % n)
  <1>1. stripe % n \in 0..(n - 1)  BY Remainder
  <1> QED  BY <1>1 DEF raid5ParityDisk

\* Where raid5DataDisk finds the blocks of a row, as an offset from the parity
\* disk without the remainder.
LEMMA Raid5Data ==
    ASSUME NEW n \in Nat, n >= 3, NEW stripe \in Nat, NEW b \in 0..(n - 2),
           NEW algorithm \in Algorithms, NEW p, p = raid5ParityDisk(stripe, n, algorithm)
    PROVE  raid5DataDisk(stripe, b, n, algorithm) =
             CASE algorithm = "leftSymmetric" ->
                    IF p + 1 + b < n THEN p + 1 + b ELSE p + 1 + b - n
               [] algorithm = "rightSymmetric" ->
                    IF (p + n - 1) - b < n THEN (p + n - 1) - b ELSE (p - 1) - b
               [] OTHER -> IF b >= p THEN b + 1 ELSE b
  <1>1. p \in 0..(n - 1)  BY Raid5Parity
  <1>2. CASE algorithm = "leftSymmetric"
    <2>1. p + 1 + b \in Nat /\ p + 1 + b < 2 * n  BY <1>1
    <2> DEFINE x == p + 1 + b
    <2>2. x % n = IF x < n THEN x ELSE x - n
      <3>1. x \in Nat /\ x < 2 * n /\ n \in Nat \ {0}  BY <2>1 DEF x
      <3> HIDE DEF x
      <3> QED  BY <3>1, Remainder
    <2> QED  BY <1>1, <1>2, <2>2 DEF raid5DataDisk
  <1>3. CASE algorithm = "rightSymmetric"
    <2> DEFINE x == (p + n - 1) - b
    <2>1. x \in Nat /\ x < 2 * n /\ n \in Nat \ {0}  BY <1>1
    <2>2. x % n = IF x < n THEN x ELSE x - n
      <3> HIDE DEF x
      <3> QED  BY <2>1, Remainder
    <2> QED  BY <1>1, <1>3, <2>2 DEF raid5DataDisk
  <1>4. CASE algorithm \notin {"leftSymmetric", "rightSymmetric"}
    <2> DEFINE x == IF b >= p THEN b + 1 ELSE b
    <2>1. x \in Nat /\ x < n /\ n \in Nat \ {0}  BY <1>1
    <2>2. x % n = x
      <3> HIDE DEF x
      <3> QED  BY <2>1, Remainder
    <2> QED  BY <1>1, <1>4, <2>2 DEF raid5DataDisk
  <1> QED  BY <1>2, <1>3, <1>4

\* For every number of members, every row and every order, a data block is
\* read from a member of the set that does not hold the row's parity, and that
\* member is the one the reference layout gives the block: no read of the row
\* lands on the parity or on another block of it.
THEOREM Raid5Located ==
    ASSUME NEW n \in Nat, n >= 3, NEW stripe \in Nat, NEW b \in 0..(n - 2),
           NEW algorithm \in Algorithms
    PROVE  LET d == raid5DataDisk(stripe, b, n, algorithm)
           IN  /\ d \in 0..(n - 1) /\ d # raid5ParityDisk(stripe, n, algorithm)
               /\ Role5(d, stripe, n, algorithm) = b
  <1> DEFINE p == raid5ParityDisk(stripe, n, algorithm)
             d == raid5DataDisk(stripe, b, n, algorithm)
  <1>1. p \in 0..(n - 1)
        /\ p = IF algorithm \in {"rightAsymmetric", "rightSymmetric"}
               THEN stripe % n ELSE n - 1 - (stripe % n)
    BY Raid5Parity
  <1>2. d = CASE algorithm = "leftSymmetric" ->
                   IF p + 1 + b < n THEN p + 1 + b ELSE p + 1 + b - n
              [] algorithm = "rightSymmetric" ->
                   IF (p + n - 1) - b < n THEN (p + n - 1) - b ELSE (p - 1) - b
              [] OTHER -> IF b >= p THEN b + 1 ELSE b
    BY Raid5Data
  <1> HIDE DEF p, d
  <1>3. d \in 0..(n - 1) /\ d # p
    <2>1. CASE algorithm = "leftSymmetric"  BY <1>1, <1>2, <2>1
    <2>2. CASE algorithm = "rightSymmetric"  BY <1>1, <1>2, <2>2
    <2>3. CASE algorithm \notin {"leftSymmetric", "rightSymmetric"}  BY <1>1, <1>2, <2>3
    <2> QED  BY <2>1, <2>2, <2>3
  <1>4. Role5(d, stripe, n, algorithm) =
          CASE algorithm = "leftSymmetric"  -> (d + n - p - 1) % n
            [] algorithm = "rightSymmetric" -> (p + n - d - 1) % n
            [] OTHER -> IF d < p THEN d ELSE d - 1
    BY <1>1, <1>3 DEF Role5
  <1>5. Role5(d, stripe, n, algorithm) = b
    <2>1. CASE algorithm = "leftSymmetric"
      <3> DEFINE x == d + n - p - 1
      <3>1. x \in Nat /\ x < 2 * n /\ (x = b \/ x = b + n)  BY <1>1, <1>2, <1>3, <2>1
      <3>2. x % n = b
        <4> HIDE DEF x
        <4> QED  BY <3>1, Remainder
      <3> QED  BY <1>4, <2>1, <3>2
    <2>2. CASE algorithm = "rightSymmetric"
      <3> DEFINE x == p + n - d - 1
      <3>1. x \in Nat /\ x < 2 * n /\ (x = b \/ x = b + n)  BY <1>1, <1>2, <1>3, <2>2
      <3>2. x % n = b
        <4> HIDE DEF x
        <4> QED  BY <3>1, Remainder
      <3> QED  BY <1>4, <2>2, <3>2
    <2>3. CASE algorithm \notin {"leftSymmetric", "rightSymmetric"}
      BY <1>1, <1>2, <1>3, <1>4, <2>3
    <2> QED  BY <2>1, <2>2, <2>3
  <1> QED  BY <1>3, <1>5 DEF p, d

----------------------------------------------------------------------------
(* RAID 6, RAID 10 and RAID 1E                                             *)

\* For every number of members and every row, P and Q are two members, the
\* ones the reference layout has them on.
THEOREM Raid6ParityApart ==
    ASSUME NEW n \in Nat, n >= 4, NEW stripe \in Nat
    PROVE  LET p == raid6PDisk(stripe, n)  q == raid6QDisk(stripe, n)
           IN  /\ p \in 0..(n - 1) /\ q \in 0..(n - 1) /\ p # q
               /\ Role6(p, stripe, n) = ParityP /\ Role6(q, stripe, n) = ParityQ
  <1> DEFINE p == raid6PDisk(stripe, n)
             q == raid6QDisk(stripe, n)
             x == p + n - 1
  <1>1. p \in 0..(n - 1) /\ p = n - 1 - (stripe % n)
    <2>1. stripe % n \in 0..(n - 1)  BY Remainder
    <2> QED  BY <2>1 DEF raid6PDisk
  <1>2. q = (IF p = 0 THEN n - 1 ELSE p - 1)  BY DEF raid6QDisk
  <1> HIDE DEF p, q
  <1>3. q \in 0..(n - 1) /\ p # q  BY <1>1, <1>2
  <1>4. x % n = q
    <2>1. x \in Nat /\ x < 2 * n /\ (x = q \/ x = q + n) /\ n \in Nat \ {0}  BY <1>1, <1>2
    <2> HIDE DEF x
    <2>2. x % n = IF x < n THEN x ELSE x - n  BY <2>1, Remainder
    <2> QED  BY <1>3, <2>1, <2>2
  <1>5. Role6(p, stripe, n) = ParityP  BY <1>1 DEF Role6
  <1>6. Role6(q, stripe, n) = ParityQ  BY <1>1, <1>3, <1>4 DEF Role6
  <1> QED  BY <1>1, <1>3, <1>5, <1>6 DEF p, q

\* For every number of members, the two copies of a block of a mirrored level
\* are on two members of the set: losing one member never loses a block.
THEOREM CopiesApart ==
    ASSUME NEW n \in Nat, NEW block \in Nat
    PROVE  /\ n >= 2 /\ n % 2 = 0 =>
                /\ raid10MemberA(block, n) \in 0..(n - 1)
                /\ raid10MemberB(block, n) \in 0..(n - 1)
                /\ raid10MemberA(block, n) # raid10MemberB(block, n)
           /\ n >= 3 =>
                /\ raid1eDisk(block, 0, n) \in 0..(n - 1)
                /\ raid1eDisk(block, 1, n) \in 0..(n - 1)
                /\ raid1eDisk(block, 0, n) # raid1eDisk(block, 1, n)
  <1>1. ASSUME n >= 2, n % 2 = 0
        PROVE  /\ raid10MemberA(block, n) \in 0..(n - 1)
               /\ raid10MemberB(block, n) \in 0..(n - 1)
               /\ raid10MemberA(block, n) # raid10MemberB(block, n)
    <2> DEFINE pairs == n \div 2
    <2>1. pairs \in Nat \ {0} /\ n = 2 * pairs  BY <1>1
    <2>2. block % pairs \in 0..(pairs - 1)
      <3> HIDE DEF pairs
      <3> QED  BY <2>1, Remainder
    <2> HIDE DEF pairs
    <2>3. raid10MemberA(block, n) = (block % pairs) * 2
          /\ raid10MemberB(block, n) = (block % pairs) * 2 + 1
      BY DEF raid10MemberA, raid10MemberB, pairs
    <2> QED  BY <2>1, <2>2, <2>3
  <1>2. ASSUME n >= 3
        PROVE  /\ raid1eDisk(block, 0, n) \in 0..(n - 1)
               /\ raid1eDisk(block, 1, n) \in 0..(n - 1)
               /\ raid1eDisk(block, 0, n) # raid1eDisk(block, 1, n)
    <2> DEFINE x == block * 2
    <2>1. x \in Nat  OBVIOUS
    <2>2. raid1eDisk(block, 0, n) = x % n /\ raid1eDisk(block, 1, n) = (x + 1) % n
      BY DEF raid1eDisk
    <2> HIDE DEF x
    <2>3. x % n \in 0..(n - 1) /\ (x + 1) % n \in 0..(n - 1)
      BY <1>2, <2>1, Remainder
    <2>4. x % n # (x + 1) % n
      <3>1. x = n * (x \div n) + (x % n) /\ x \div n \in Int  BY <1>2, <2>1, SMT
      <3>2. x + 1 = n * ((x + 1) \div n) + ((x + 1) % n) /\ (x + 1) \div n \in Int
        BY <1>2, <2>1, SMT
      <3>3. SUFFICES ASSUME x % n = (x + 1) % n  PROVE FALSE  OBVIOUS
      <3> DEFINE k == ((x + 1) \div n) - (x \div n)
      <3>4. k \in Int /\ n * k = 1  BY <1>2, <2>1, <2>3, <3>1, <3>2, <3>3, SMT
      <3> HIDE DEF k
      <3>5. k >= 1 => n * k >= n  BY <1>2, <3>4, SMT
      <3>6. k <= 0 => n * k <= 0  BY <1>2, <3>4, SMT
      <3> QED  BY <1>2, <3>4, <3>5, <3>6
    <2> QED  BY <2>2, <2>3, <2>4
  <1> QED  BY <1>1, <1>2

----------------------------------------------------------------------------
(* Blocks, and vectors of weighed sectors over GF(4)                       *)

\* A value as a function: the coefficient of every sector of the array
Field == 0..3
Vectors == [Nat -> Field]
Vec(c) == {<<l, c[l]>> : l \in {m \in Nat : c[m] # 0}}
Unit(x, k) == [l \in Nat |-> IF l = x THEN k ELSE 0]

\* The coefficient of a sector in a vector is the one the vector was made with.
LEMMA CoefOf ==
    ASSUME NEW c \in Vectors, NEW l \in Nat
    PROVE  Coef(Vec(c), l) = c[l]
  <1>1. \A x \in Vec(c) : x[1] \in Nat /\ x[2] = c[x[1]] /\ c[x[1]] # 0
    BY DEF Vec
  <1>2. c[l] # 0 => <<l, c[l]>> \in Vec(c)
    BY DEF Vec
  <1> HIDE DEF Vec
  <1>3. CASE c[l] # 0
    <2>1. \E x \in Vec(c) : x[1] = l
      BY <1>2, <1>3
    <2>2. (CHOOSE x \in Vec(c) : x[1] = l) \in Vec(c) /\ (CHOOSE x \in Vec(c) : x[1] = l)[1] = l
      BY <2>1
    <2> QED
      BY <1>1, <2>1, <2>2 DEF Coef
  <1>4. CASE c[l] = 0
    <2>1. ~ \E x \in Vec(c) : x[1] = l
      BY <1>1, <1>4
    <2> QED
      BY <1>4, <2>1 DEF Coef
  <1> QED
    BY <1>3, <1>4

\* Vectors with the same coefficients are equal.
LEMMA VecEqual ==
    ASSUME NEW c \in Vectors, NEW d \in Vectors, \A l \in Nat : c[l] = d[l]
    PROVE  Vec(c) = Vec(d)
  BY DEF Vec

\* A single weighed sector, as a vector.
LEMMA UnitOf ==
    ASSUME NEW x \in Nat, NEW k \in 1..3
    PROVE  /\ Unit(x, k) \in Vectors /\ Vec(Unit(x, k)) = {<<x, k>>}
           /\ \A l \in Nat : Unit(x, k)[l] = IF l = x THEN k ELSE 0
  <1>1. Unit(x, k) \in Vectors /\ \A l \in Nat : Unit(x, k)[l] = IF l = x THEN k ELSE 0
    BY DEF Unit, Vectors, Field
  <1>2. {m \in Nat : Unit(x, k)[m] # 0} = {x}
    BY <1>1
  <1>3. Vec(Unit(x, k)) = {<<x, k>>}
    BY <1>1, <1>2 DEF Vec
  <1> QED
    BY <1>1, <1>3

\* How many of the members of S have the bit of sector l set
Odds(c, S, l, bit) == {d \in S : (c[d][l] \div bit) % 2 = 1}

\* The exclusive or of what disks give, coefficient by coefficient and bit by bit:
\* if x has the parities for its bits, it is x.
LEMMA XorOf ==
    ASSUME NEW S, NEW f, NEW c \in [S -> Vectors], \A d \in S : f[d] = Vec(c[d]),
           NEW x \in Vectors,
           \A l \in Nat : x[l] = (Cardinality(Odds(c, S, l, 1)) % 2) + 2 * (Cardinality(Odds(c, S, l, 2)) % 2)
    PROVE  Xor(f, S) = Vec(x)
  <1> DEFINE odd(l, bit) == Cardinality({d \in S : (Coef(f[d], l) \div bit) % 2 = 1}) % 2
             t(l) == odd(l, 1) + 2 * odd(l, 2)
             M == UNION {{y[1] : y \in f[d]} : d \in S}
  <1>1. ASSUME NEW l \in Nat, NEW bit \in {1, 2}
        PROVE  {d \in S : (Coef(f[d], l) \div bit) % 2 = 1} = Odds(c, S, l, bit)
    <2>1. \A d \in S : Coef(f[d], l) = c[d][l]
      BY CoefOf
    <2> QED
      BY <2>1 DEF Odds
  <1>2. \A l \in Nat : t(l) = x[l]
    <2> SUFFICES ASSUME NEW l \in Nat PROVE t(l) = x[l]
      OBVIOUS
    <2>1. /\ {d \in S : (Coef(f[d], l) \div 1) % 2 = 1} = Odds(c, S, l, 1)
          /\ {d \in S : (Coef(f[d], l) \div 2) % 2 = 1} = Odds(c, S, l, 2)
      BY <1>1
    <2> QED
      BY <2>1
  <1>3. M \subseteq Nat
    BY DEF Vec
  <1>4. ASSUME NEW l \in Nat, x[l] # 0 PROVE l \in M
    <2>1. Odds(c, S, l, 1) # {} \/ Odds(c, S, l, 2) # {}
      <3> SUFFICES ASSUME Odds(c, S, l, 1) = {}, Odds(c, S, l, 2) = {} PROVE FALSE
        OBVIOUS
      <3>1. Cardinality(Odds(c, S, l, 1)) = 0 /\ Cardinality(Odds(c, S, l, 2)) = 0
        BY FS_EmptySet
      <3>2. x[l] = (0 % 2) + 2 * (0 % 2)
        BY <3>1
      <3> QED
        BY <1>4, <3>2
    <2>2. PICK d \in S, bit \in {1, 2} : (c[d][l] \div bit) % 2 = 1
      BY <2>1 DEF Odds
    <2>3. c[d][l] # 0
      <3>1. c[d][l] = 0 => (c[d][l] \div bit) % 2 = 0
        OBVIOUS
      <3> QED
        BY <2>2, <3>1
    <2>4. <<l, c[d][l]>> \in f[d]
      BY <2>3 DEF Vec
    <2> QED
      BY <2>4
  <1> HIDE DEF M, t
  <1>5. {m \in M : t(m) # 0} = {m \in Nat : x[m] # 0}
    BY <1>2, <1>3, <1>4
  <1>6. {<<l, t(l)>> : l \in {m \in M : t(m) # 0}} = Vec(x)
    BY <1>2, <1>5 DEF Vec
  <1> QED
    BY <1>6, Zenon DEF Xor, M, t

\* The arithmetic of GF(4) that the parity uses, each fact by its cases.
LEMMA FieldFacts ==
    /\ \A a \in Field : gfXor(a, 0) = a /\ gfXor(0, a) = a /\ gfXor(a, a) = 0
    /\ \A a, b \in Field : gfXor(a, b) \in Field /\ gfXor(a, b) = gfXor(b, a) /\ (gfXor(a, b) = 0 <=> a = b)
    /\ \A a \in 1..3 : gfMul(1, a) = a /\ gfMul(0, a) = 0 /\ gfDiv(a, a) = 1 /\ gfDiv(0, a) = 0
    /\ \A a, b \in 1..3 : gfMul(a, b) \in 1..3 /\ gfDiv(a, b) \in 1..3
    /\ \A e \in 0..2 : gfPow(e) = e + 1
  <1>1. /\ DOMAIN gfExp = 0..2 /\ gfExp[0] = 1 /\ gfExp[1] = 2 /\ gfExp[2] = 3
    BY DEF gfExp, Order
  <1>2. \A a \in 1..3 : gfLog(a) \in 0..2 /\ gfExp[gfLog(a)] = a
    <2> SUFFICES ASSUME NEW a \in 1..3 PROVE gfLog(a) \in 0..2 /\ gfExp[gfLog(a)] = a
      OBVIOUS
    <2>1. \E e \in DOMAIN gfExp : gfExp[e] = a
      BY <1>1
    <2> QED
      BY <1>1, <2>1 DEF gfLog
  <1>3. gfLog(1) = 0 /\ gfLog(2) = 1 /\ gfLog(3) = 2
    BY <1>1, <1>2
  <1>4. \A a \in Field : gfXor(a, 0) = a /\ gfXor(0, a) = a /\ gfXor(a, a) = 0
    BY DEF Field, gfXor
  <1>5. \A a, b \in Field : gfXor(a, b) \in Field /\ gfXor(a, b) = gfXor(b, a) /\ (gfXor(a, b) = 0 <=> a = b)
    BY DEF Field, gfXor
  <1>6. \A k \in 0..2 : gfExp[k] \in 1..3
    BY <1>1
  <1>7. \A i, j \in 0..2 : (i + j) % 3 \in 0..2 /\ (i + (3 - j)) % 3 \in 0..2
    OBVIOUS
  <1>8. \A a, b \in 1..3 : gfMul(a, b) \in 1..3 /\ gfDiv(a, b) \in 1..3
    <2> SUFFICES ASSUME NEW a \in 1..3, NEW b \in 1..3 PROVE gfMul(a, b) \in 1..3 /\ gfDiv(a, b) \in 1..3
      OBVIOUS
    <2>1. gfMul(a, b) = gfExp[(gfLog(a) + gfLog(b)) % 3]
      BY DEF gfMul, Order
    <2>2. gfDiv(a, b) = gfExp[(gfLog(a) + (3 - gfLog(b))) % 3]
      BY DEF gfDiv, Order
    <2>3. gfLog(a) \in 0..2 /\ gfLog(b) \in 0..2
      BY <1>2
    <2> QED
      BY <1>6, <1>7, <2>1, <2>2, <2>3
  <1>9. \A a \in 1..3 : gfMul(1, a) = a /\ gfMul(0, a) = 0 /\ gfDiv(a, a) = 1 /\ gfDiv(0, a) = 0
    <2> SUFFICES ASSUME NEW a \in 1..3
                 PROVE  gfMul(1, a) = a /\ gfMul(0, a) = 0 /\ gfDiv(a, a) = 1 /\ gfDiv(0, a) = 0
      OBVIOUS
    <2>1. gfLog(a) \in 0..2 /\ gfExp[gfLog(a)] = a
      BY <1>2
    <2>2. (0 + gfLog(a)) % 3 = gfLog(a) /\ (gfLog(a) + (3 - gfLog(a))) % 3 = 0
      BY <2>1
    <2>3. gfMul(1, a) = gfExp[(gfLog(1) + gfLog(a)) % 3] /\ gfMul(0, a) = 0 /\ gfDiv(0, a) = 0
      BY DEF gfMul, gfDiv, Order
    <2>4. gfDiv(a, a) = gfExp[(gfLog(a) + (3 - gfLog(a))) % 3]
      BY DEF gfDiv, Order
    <2> QED
      BY <1>1, <1>3, <2>1, <2>2, <2>3, <2>4
  <1>10. \A e \in 0..2 : gfPow(e) = e + 1
    BY <1>1 DEF gfPow, Order
  <1> QED
    BY <1>4, <1>5, <1>8, <1>9, <1>10

\* Multiplying and dividing a vector by a weight, coefficient by coefficient
LEMMA ScaleOf ==
    ASSUME NEW u \in Vectors, NEW k \in 1..3
    PROVE  /\ [l \in Nat |-> gfMul(u[l], k)] \in Vectors
           /\ Scale(Vec(u), k) = Vec([l \in Nat |-> gfMul(u[l], k)])
           /\ [l \in Nat |-> gfDiv(u[l], k)] \in Vectors
           /\ Divide(Vec(u), k) = Vec([l \in Nat |-> gfDiv(u[l], k)])
  <1> DEFINE s == [l \in Nat |-> gfMul(u[l], k)]
             t == [l \in Nat |-> gfDiv(u[l], k)]
  <1>1. \A l \in Nat : u[l] = 0 \/ u[l] \in 1..3
    BY DEF Vectors, Field
  <1>2. \A l \in Nat : /\ s[l] \in Field /\ t[l] \in Field
                       /\ (s[l] = 0 <=> u[l] = 0) /\ (t[l] = 0 <=> u[l] = 0)
    BY <1>1, FieldFacts DEF Field
  <1>3. s \in Vectors /\ t \in Vectors
    BY <1>2 DEF Vectors
  <1>4. \A l \in Nat : s[l] = gfMul(u[l], k) /\ t[l] = gfDiv(u[l], k)
    OBVIOUS
  <1> HIDE DEF s, t
  <1>5. /\ {m \in Nat : s[m] # 0} = {m \in Nat : u[m] # 0}
        /\ {m \in Nat : t[m] # 0} = {m \in Nat : u[m] # 0}
    BY <1>2
  <1> DEFINE N == {m \in Nat : u[m] # 0}
  <1>6. /\ \A v \in Vec(u) : v[1] \in N /\ v[2] = u[v[1]]
        /\ \A l \in N : <<l, u[l]>> \in Vec(u) /\ <<l, u[l]>>[1] = l /\ <<l, u[l]>>[2] = u[l]
    BY DEF Vec
  <1> HIDE DEF N
  <1>7. Scale(Vec(u), k) = {<<l, gfMul(u[l], k)>> : l \in N}
    BY <1>6, ZenonT(30) DEF Scale
  <1>8. Divide(Vec(u), k) = {<<l, gfDiv(u[l], k)>> : l \in N}
    BY <1>6, ZenonT(30) DEF Divide
  <1>9. Scale(Vec(u), k) = Vec(s) /\ Divide(Vec(u), k) = Vec(t)
    BY <1>4, <1>5, <1>7, <1>8 DEF Vec, N
  <1> QED
    BY <1>3, <1>9 DEF s, t

\* How many of none, of one and of two there are
LEMMA CountedParity ==
    /\ Cardinality({}) % 2 = 0
    /\ \A x : Cardinality({x}) % 2 = 1
    /\ \A x, y : x # y => Cardinality({x, y}) % 2 = 0
  <1>1. Cardinality({}) = 0 /\ \A x : IsFiniteSet({x}) /\ Cardinality({x}) = 1
    BY FS_Singleton, FS_EmptySet
  <1>2. ASSUME NEW x, NEW y, x # y PROVE Cardinality({x, y}) = 2
    <2>0. IsFiniteSet({x}) /\ Cardinality({x}) = 1 /\ y \notin {x}
      BY <1>1, <1>2
    <2>1. Cardinality({x} \cup {y}) = 2
      BY <2>0, FS_AddElement
    <2>2. {x} \cup {y} = {x, y}
      OBVIOUS
    <2> QED
      BY <2>1, <2>2
  <1>3. 0 % 2 = 0 /\ 1 % 2 = 1 /\ 2 % 2 = 0
    OBVIOUS
  <1> QED
    BY <1>1, <1>2, <1>3, Zenon

\* Adding two vectors, coefficient by coefficient
LEMMA PlusOf ==
    ASSUME NEW u \in Vectors, NEW v \in Vectors
    PROVE  /\ [l \in Nat |-> gfXor(u[l], v[l])] \in Vectors
           /\ Plus(Vec(u), Vec(v)) = Vec([l \in Nat |-> gfXor(u[l], v[l])])
  <1> DEFINE x == [l \in Nat |-> gfXor(u[l], v[l])]
             c == [d \in {1, 2} |-> IF d = 1 THEN u ELSE v]
             f == <<Vec(u), Vec(v)>>
  <1>1. c \in [{1, 2} -> Vectors] /\ c[1] = u /\ c[2] = v
    OBVIOUS
  <1>2. \A d \in {1, 2} : f[d] = Vec(c[d])
    OBVIOUS
  <1>3. \A l \in Nat : u[l] \in Field /\ v[l] \in Field
    BY DEF Vectors
  <1>4. x \in Vectors /\ \A l \in Nat : x[l] = gfXor(u[l], v[l])
    BY <1>3, FieldFacts DEF Vectors
  <1> HIDE DEF x, c, f
  <1>5. ASSUME NEW l \in Nat, NEW bit \in {1, 2}
        PROVE  Cardinality(Odds(c, {1, 2}, l, bit)) % 2 = ((u[l] \div bit) + (v[l] \div bit)) % 2
    <2> DEFINE a == (u[l] \div bit) % 2
               b == (v[l] \div bit) % 2
               O == Odds(c, {1, 2}, l, bit)
    <2>1. a \in {0, 1} /\ b \in {0, 1} /\ ((u[l] \div bit) + (v[l] \div bit)) % 2 = (a + b) % 2
      BY <1>3 DEF Field
    <2>2. O = {d \in {1, 2} : (d = 1 /\ a = 1) \/ (d = 2 /\ b = 1)}
      BY <1>1 DEF Odds
    <2> HIDE DEF a, b, O
    <2>3. (a = 0 /\ b = 0 => O = {}) /\ (a = 1 /\ b = 0 => O = {1}) /\ (a = 0 /\ b = 1 => O = {2})
          /\ (a = 1 /\ b = 1 => O = {1, 2})
      BY <2>2
    <2>4. Cardinality({}) % 2 = 0 /\ Cardinality({1}) % 2 = 1 /\ Cardinality({2}) % 2 = 1 /\ Cardinality({1, 2}) % 2 = 0
      <3>1. 1 # 2
        OBVIOUS
      <3> QED
        BY <3>1, CountedParity, Zenon
    <2>5. Cardinality(O) % 2 = (a + b) % 2
      <3>1. /\ a = 0 /\ b = 0 => Cardinality(O) % 2 = 0
            /\ a = 1 /\ b = 0 => Cardinality(O) % 2 = 1
            /\ a = 0 /\ b = 1 => Cardinality(O) % 2 = 1
            /\ a = 1 /\ b = 1 => Cardinality(O) % 2 = 0
        BY <2>3, <2>4, Zenon
      <3> QED
        BY <2>1, <3>1
    <2> QED
      BY <2>1, <2>5 DEF O
  <1>6. ASSUME NEW l \in Nat
        PROVE  x[l] = (Cardinality(Odds(c, {1, 2}, l, 1)) % 2) + 2 * (Cardinality(Odds(c, {1, 2}, l, 2)) % 2)
    <2>1. x[l] = ((u[l] + v[l]) % 2) + 2 * (((u[l] \div 2) + (v[l] \div 2)) % 2)
      BY <1>4 DEF gfXor
    <2>2. Cardinality(Odds(c, {1, 2}, l, 1)) % 2 = ((u[l] \div 1) + (v[l] \div 1)) % 2
      BY <1>5
    <2>3. Cardinality(Odds(c, {1, 2}, l, 2)) % 2 = ((u[l] \div 2) + (v[l] \div 2)) % 2
      BY <1>5
    <2>4. u[l] \div 1 = u[l] /\ v[l] \div 1 = v[l]
      BY <1>3 DEF Field
    <2> QED
      BY <2>1, <2>2, <2>3, <2>4
  <1>7. Xor(f, {1, 2}) = Vec(x)
    BY <1>1, <1>2, <1>4, <1>6, XorOf
  <1> QED
    BY <1>4, <1>7 DEF Plus, x, f

\* Sectors of a row by their slots, and the vector that has weights on some of them
Places(at, m) ==
    /\ at \in [0..(m - 1) -> Nat]
    /\ \A i, j \in 0..(m - 1) : at[i] = at[j] => i = j
Weighted(at, K, w) ==
    [l \in Nat |-> IF \E k \in K : at[k] = l THEN w[CHOOSE k \in K : at[k] = l] ELSE 0]
Ones(m) == [k \in 0..(m - 1) |-> 1]

Weights(m) == [0..(m - 1) -> 1..3]
WeighedBy(v, at, K, w) ==
    /\ v \in Vectors
    /\ \A k \in K : v[at[k]] = w[k]
    /\ \A l \in Nat : (\A k \in K : at[k] # l) => v[l] = 0
    /\ Vec(v) = {<<at[k], w[k]>> : k \in K}

\* Weights on different sectors make the vector of exactly these pairs.
LEMMA WeightedOf ==
    ASSUME NEW m \in Nat, NEW at, Places(at, m), NEW K, K \subseteq 0..(m - 1),
           NEW w \in Weights(m)
    PROVE  WeighedBy(Weighted(at, K, w), at, K, w)
  <1> DEFINE v == Weighted(at, K, w)
  <1>1. /\ \A k \in K : k \in 0..(m - 1) /\ at[k] \in Nat /\ w[k] \in 1..3
        /\ \A i, j \in K : at[i] = at[j] => i = j
    BY DEF Places, Weights
  <1>2. \A k \in K : (CHOOSE j \in K : at[j] = at[k]) = k
    BY <1>1
  <1>3. \A k \in K : v[at[k]] = w[k]
    BY <1>1, <1>2 DEF Weighted
  <1>4. \A l \in Nat : (\A k \in K : at[k] # l) => v[l] = 0
    BY DEF Weighted
  <1>5. v \in Vectors
    <2>1. v = [l \in Nat |-> v[l]]
      BY DEF Weighted
    <2>2. \A l \in Nat : v[l] \in Field
      BY <1>1, <1>3, <1>4 DEF Field
    <2> HIDE DEF v
    <2> QED
      BY <2>1, <2>2 DEF Vectors
  <1> HIDE DEF v
  <1>6. \A l \in Nat : v[l] # 0 => \E k \in K : at[k] = l /\ v[l] = w[k]
    BY <1>1, <1>3, <1>4
  <1>7. \A k \in K : at[k] \in {l \in Nat : v[l] # 0} /\ v[at[k]] = w[k]
    BY <1>1, <1>3
  <1>8. Vec(v) = {<<at[k], w[k]>> : k \in K}
    <2>1. ASSUME NEW y \in Vec(v) PROVE y \in {<<at[k], w[k]>> : k \in K}
      BY <1>6 DEF Vec
    <2>2. ASSUME NEW k \in K PROVE <<at[k], w[k]>> \in Vec(v)
      BY <1>7 DEF Vec
    <2> QED
      BY <2>1, <2>2
  <1> QED
    BY <1>3, <1>4, <1>5, <1>8 DEF v, WeighedBy

\* Members with slots of their own, the slots they leave and those they take,
\* and what a row keeps in its parity and in its slots
Slotted(T, role, m) == role \in [T -> 0..(m - 1)] /\ \A c, d \in T : role[c] = role[d] => c = d
SlotsLeft(K, T, role, m) == K \subseteq 0..(m - 1) /\ \A k \in 0..(m - 1) : k \in K <=> \A d \in T : role[d] # k
SlotsTaken(K, T, role, m) == K \subseteq 0..(m - 1) /\ \A k \in 0..(m - 1) : k \in K <=> \E d \in T : role[d] = k
RowParity(at, m) == {<<at[k], 1>> : k \in 0..(m - 1)}
InSlots(f, T, at, role) == \A d \in T : f[d] = Pure(at[role[d]])
ScaledSlots(f, T, at, role, w) == \A d \in T : f[d] = {<<at[role[d]], w[role[d]]>>}

\* The exclusive or of the parity of a row and of some of its blocks is that of
\* the blocks that are left.
LEMMA ParityLeaves ==
    ASSUME NEW m \in Nat, NEW at, Places(at, m), NEW T, NEW p, p \notin T,
           NEW role, Slotted(T, role, m),
           NEW f, f[p] = RowParity(at, m), InSlots(f, T, at, role),
           NEW K, SlotsLeft(K, T, role, m)
    PROVE  Xor(f, T \cup {p}) = Vec(Weighted(at, K, Ones(m)))
  <1> USE DEF Slotted, InSlots, SlotsLeft, RowParity
  <1> DEFINE S == T \cup {p}
             all == Weighted(at, 0..(m - 1), Ones(m))
             x == Weighted(at, K, Ones(m))
             c == [d \in S |-> IF d = p THEN all ELSE Unit(at[role[d]], 1)]
  <1>1. Ones(m) \in Weights(m) /\ \A k \in 0..(m - 1) : Ones(m)[k] = 1
    BY DEF Ones, Weights
  <1>2. /\ all \in Vectors /\ \A k \in 0..(m - 1) : all[at[k]] = 1
        /\ \A l \in Nat : (\A k \in 0..(m - 1) : at[k] # l) => all[l] = 0
        /\ Vec(all) = f[p]
    <2>1. WeighedBy(all, at, 0..(m - 1), Ones(m))
      BY <1>1, WeightedOf
    <2> HIDE DEF all
    <2>2. /\ all \in Vectors /\ \A k \in 0..(m - 1) : all[at[k]] = Ones(m)[k]
          /\ \A l \in Nat : (\A k \in 0..(m - 1) : at[k] # l) => all[l] = 0
          /\ Vec(all) = {<<at[k], Ones(m)[k]>> : k \in 0..(m - 1)}
      BY <2>1 DEF WeighedBy
    <2>3. {<<at[k], Ones(m)[k]>> : k \in 0..(m - 1)} = f[p]
      BY <1>1
    <2> QED
      BY <1>1, <2>2, <2>3
  <1>3. /\ x \in Vectors /\ \A k \in K : x[at[k]] = 1
        /\ \A l \in Nat : (\A k \in K : at[k] # l) => x[l] = 0
    <2>1. WeighedBy(x, at, K, Ones(m))
      BY <1>1, WeightedOf
    <2> HIDE DEF x
    <2>2. /\ x \in Vectors /\ \A k \in K : x[at[k]] = Ones(m)[k]
          /\ \A l \in Nat : (\A k \in K : at[k] # l) => x[l] = 0
      BY <2>1 DEF WeighedBy
    <2> QED
      BY <1>1, <2>1, <2>2
  <1> HIDE DEF all, x
  <1>4. \A k \in 0..(m - 1) : at[k] \in Nat
    BY DEF Places
  <1>5. \A d \in T : /\ Unit(at[role[d]], 1) \in Vectors /\ Vec(Unit(at[role[d]], 1)) = f[d]
                     /\ \A l \in Nat : Unit(at[role[d]], 1)[l] = IF l = at[role[d]] THEN 1 ELSE 0
    <2> TAKE d \in T
    <2> DEFINE y == at[role[d]]
    <2>1. y \in Nat /\ 1 \in 1..3 /\ f[d] = {<<y, 1>>}
      BY <1>4 DEF Pure
    <2> HIDE DEF y
    <2>2. /\ Unit(y, 1) \in Vectors /\ Vec(Unit(y, 1)) = f[d]
          /\ \A l \in Nat : Unit(y, 1)[l] = IF l = y THEN 1 ELSE 0
      BY <2>1, UnitOf
    <2> QED
      BY <2>2 DEF y
  <1>6. c \in [S -> Vectors] /\ c[p] = all /\ \A d \in T : c[d] = Unit(at[role[d]], 1)
    BY <1>2, <1>5
  <1> HIDE DEF c, S
  <1>0. S = T \cup {p} /\ K \subseteq 0..(m - 1)
    BY DEF S
  <1>7. \A d \in S : f[d] = Vec(c[d])
    BY <1>0, <1>2, <1>5, <1>6
  <1>8. \A l \in Nat, d \in S : c[d][l] \in {0, 1}
    <2> SUFFICES ASSUME NEW l \in Nat, NEW d \in S PROVE c[d][l] \in {0, 1}
      OBVIOUS
    <2>1. all[l] \in {0, 1}
      BY <1>2
    <2>2. CASE d = p
      BY <1>6, <2>1, <2>2
    <2>3. CASE d \in T
      BY <1>5, <1>6, <2>3
    <2> QED
      BY <1>0, <2>2, <2>3
  <1>9. ASSUME NEW l \in Nat
        PROVE  Odds(c, S, l, 1) = {d \in S : c[d][l] = 1} /\ Odds(c, S, l, 2) = {}
    BY <1>8 DEF Odds
  <1>10. ASSUME NEW l \in Nat
         PROVE  x[l] = (Cardinality(Odds(c, S, l, 1)) % 2) + 2 * (Cardinality(Odds(c, S, l, 2)) % 2)
    <2>1. Cardinality(Odds(c, S, l, 2)) % 2 = 0
      BY <1>9, CountedParity
    <2>2. Odds(c, S, l, 1) = {d \in S : c[d][l] = 1}
      BY <1>9
    <2>3. Cardinality(Odds(c, S, l, 1)) % 2 = x[l] /\ x[l] \in {0, 1}
      <3>1. CASE \A k \in 0..(m - 1) : at[k] # l
        <4>1. \A d \in S : c[d][l] = 0
          BY <1>0, <1>2, <1>5, <1>6, <3>1
        <4>2. Odds(c, S, l, 1) = {}
          BY <2>2, <4>1
        <4>3. x[l] = 0
          BY <1>0, <1>3, <3>1
        <4> QED
          BY <4>2, <4>3, CountedParity
      <3>2. ASSUME NEW k \in K, at[k] = l PROVE Cardinality(Odds(c, S, l, 1)) % 2 = x[l] /\ x[l] \in {0, 1}
        <4>1. \A d \in T : at[role[d]] # l
          BY <3>2 DEF Places
        <4>2. c[p][l] = 1 /\ \A d \in T : c[d][l] = 0
          BY <1>2, <1>5, <1>6, <3>2, <4>1
        <4>3. \A d \in S : c[d][l] = 1 <=> d = p
          BY <1>0, <4>2
        <4>4. Odds(c, S, l, 1) = {p}
          BY <1>0, <2>2, <4>3
        <4>5. x[l] = 1
          BY <1>3, <3>2
        <4> QED
          BY <4>4, <4>5, CountedParity
      <3>3. ASSUME NEW k \in (0..(m - 1)) \ K, at[k] = l PROVE Cardinality(Odds(c, S, l, 1)) % 2 = x[l] /\ x[l] \in {0, 1}
        <4>1. PICK e \in T : role[e] = k
          OBVIOUS
        <4>2. \A d \in T : at[role[d]] = l <=> d = e
          BY <3>3, <4>1 DEF Places
        <4>3. c[p][l] = 1 /\ \A d \in T : c[d][l] = IF d = e THEN 1 ELSE 0
          BY <1>2, <1>5, <1>6, <3>3, <4>1, <4>2
        <4>7. \A d \in S : c[d][l] = 1 <=> d \in {p, e}
          BY <1>0, <4>3
        <4>4. Odds(c, S, l, 1) = {p, e} /\ p # e
          <5>1. p # e /\ {p, e} \subseteq S
            BY <1>0, <4>1
          <5>2. \A d \in S : d \in Odds(c, S, l, 1) <=> d \in {p, e}
            BY <2>2, <4>7
          <5>3. Odds(c, S, l, 1) \subseteq S
            BY <2>2
          <5>4. PICK odds : odds = Odds(c, S, l, 1)
            OBVIOUS
          <5>5. \A d : d \in odds <=> d \in {p, e}
            BY <5>1, <5>2, <5>3, <5>4, Zenon
          <5>6. odds = {p, e}
            BY <5>5, Zenon
          <5> QED
            BY <5>1, <5>4, <5>6
        <4>5. x[l] = 0
          <5>1. \A j \in K : at[j] # l
            BY <1>0, <3>3 DEF Places
          <5> QED
            BY <1>3, <5>1
        <4>6. Cardinality({p, e}) % 2 = 0
          BY <4>4, CountedParity, Zenon
        <4> QED
          BY <4>6, <4>4, <4>5, CountedParity, Zenon
      <3> QED
        BY <3>1, <3>2, <3>3
    <2> QED
      BY <2>1, <2>3
  <1>11. Xor(f, S) = Vec(x)
    BY <1>3, <1>6, <1>7, <1>10, XorOf
  <1> QED
    BY <1>11 DEF x, S

\* The exclusive or of different sectors, each with its weight, is all of them.
LEMMA WeightsAdd ==
    ASSUME NEW m \in Nat, NEW at, Places(at, m), NEW w \in Weights(m), NEW T,
           NEW role, Slotted(T, role, m), NEW f, ScaledSlots(f, T, at, role, w),
           NEW K, SlotsTaken(K, T, role, m)
    PROVE  Xor(f, T) = Vec(Weighted(at, K, w))
  <1> USE DEF Slotted, ScaledSlots, SlotsTaken
  <1> DEFINE x == Weighted(at, K, w)
             c == [d \in T |-> Unit(at[role[d]], w[role[d]])]
  <1>1. /\ x \in Vectors /\ \A k \in K : x[at[k]] = w[k]
        /\ \A l \in Nat : (\A k \in K : at[k] # l) => x[l] = 0
    <2>1. WeighedBy(x, at, K, w)
      BY WeightedOf
    <2> HIDE DEF x
    <2> QED
      BY <2>1 DEF WeighedBy
  <1> HIDE DEF x
  <1>2. \A d \in T : at[role[d]] \in Nat /\ w[role[d]] \in 1..3
    BY DEF Places, Weights
  <1>3. \A d \in T : /\ Unit(at[role[d]], w[role[d]]) \in Vectors
                     /\ Vec(Unit(at[role[d]], w[role[d]])) = f[d]
                     /\ \A l \in Nat : Unit(at[role[d]], w[role[d]])[l] = IF l = at[role[d]] THEN w[role[d]] ELSE 0
    <2> TAKE d \in T
    <2> DEFINE y == at[role[d]]
               k == w[role[d]]
    <2>1. y \in Nat /\ k \in 1..3 /\ f[d] = {<<y, k>>}
      BY <1>2
    <2> HIDE DEF y, k
    <2>2. /\ Unit(y, k) \in Vectors /\ Vec(Unit(y, k)) = f[d]
          /\ \A l \in Nat : Unit(y, k)[l] = IF l = y THEN k ELSE 0
      BY <2>1, UnitOf
    <2> QED
      BY <2>2 DEF y, k
  <1>4. /\ c \in [T -> Vectors] /\ \A d \in T : f[d] = Vec(c[d])
        /\ \A d \in T, l \in Nat : c[d][l] = IF l = at[role[d]] THEN w[role[d]] ELSE 0
    BY <1>3
  <1> HIDE DEF c
  <1>5. ASSUME NEW l \in Nat
        PROVE  x[l] = (Cardinality(Odds(c, T, l, 1)) % 2) + 2 * (Cardinality(Odds(c, T, l, 2)) % 2)
    <2>1. CASE \A k \in K : at[k] # l
      <3>1. \A d \in T : c[d][l] = 0
        BY <1>4, <2>1
      <3>2. Odds(c, T, l, 1) = {} /\ Odds(c, T, l, 2) = {}
        BY <3>1 DEF Odds
      <3>3. Cardinality(Odds(c, T, l, 1)) % 2 = 0 /\ Cardinality(Odds(c, T, l, 2)) % 2 = 0
        BY <3>2, CountedParity
      <3> QED
        BY <1>1, <2>1, <3>3
    <2>2. ASSUME NEW e \in T, at[role[e]] = l
          PROVE  x[l] = (Cardinality(Odds(c, T, l, 1)) % 2) + 2 * (Cardinality(Odds(c, T, l, 2)) % 2)
      <3>1. \A d \in T : at[role[d]] = l <=> d = e
        BY <2>2 DEF Places
      <3>2. \A d \in T : c[d][l] = IF d = e THEN w[role[e]] ELSE 0
        BY <1>4, <2>2, <3>1
      <3> DEFINE k == w[role[e]]
      <3>3. k \in 1..3 /\ x[l] = k
        BY <1>1, <1>2, <2>2
      <3> HIDE DEF k
      <3>4. \A bit \in {1, 2} : Odds(c, T, l, bit) = IF (k \div bit) % 2 = 1 THEN {e} ELSE {}
        <4>1. \A bit \in {1, 2} : (0 \div bit) % 2 = 0
          OBVIOUS
        <4> QED
          BY <3>2, <4>1 DEF Odds, k
      <3>5. Cardinality({e}) % 2 = 1 /\ Cardinality({}) % 2 = 0
        BY CountedParity
      <3>6. /\ Odds(c, T, l, 1) = IF (k \div 1) % 2 = 1 THEN {e} ELSE {}
            /\ Odds(c, T, l, 2) = IF (k \div 2) % 2 = 1 THEN {e} ELSE {}
        BY <3>4
      <3>7. /\ Cardinality(Odds(c, T, l, 1)) % 2 = IF (k \div 1) % 2 = 1 THEN 1 ELSE 0
            /\ Cardinality(Odds(c, T, l, 2)) % 2 = IF (k \div 2) % 2 = 1 THEN 1 ELSE 0
        BY <3>5, <3>6, Zenon
      <3> QED
        BY <3>3, <3>7
    <2> QED
      BY <2>1, <2>2
  <1>6. Xor(f, T) = Vec(x)
    BY <1>1, <1>4, <1>5, XorOf
  <1> QED
    BY <1>6 DEF x

TwoOf(a, j, b, k) == [l \in Nat |-> IF l = a THEN j ELSE IF l = b THEN k ELSE 0]

\* p has two sectors, with these weights.
IsPair(p, a, j, b, k) == p = {<<a, j>>, <<b, k>>}

\* Two weighed sectors, as a vector
LEMMA TwoFacts ==
    ASSUME NEW a \in Nat, NEW b \in Nat, a # b, NEW j \in 1..3, NEW k \in 1..3
    PROVE  /\ TwoOf(a, j, b, k) \in Vectors
           /\ {<<a, j>>, <<b, k>>} = Vec(TwoOf(a, j, b, k))
           /\ \A l \in Nat : TwoOf(a, j, b, k)[l] = IF l = a THEN j ELSE IF l = b THEN k ELSE 0
  <1> DEFINE v == TwoOf(a, j, b, k)
  <1>1. v \in Vectors /\ \A l \in Nat : v[l] = IF l = a THEN j ELSE IF l = b THEN k ELSE 0
    BY DEF TwoOf, Vectors, Field
  <1> HIDE DEF v
  <1>2. {m \in Nat : v[m] # 0} = {a, b}
    BY <1>1
  <1>3. Vec(v) = {<<a, j>>, <<b, k>>}
    BY <1>1, <1>2 DEF Vec
  <1> QED
    BY <1>1, <1>3 DEF v

\* P and Q of a row without two of its blocks give each of the two.
LEMMA TwoSolved ==
    ASSUME NEW a \in Nat, NEW b \in Nat, a # b, NEW j \in 1..3, NEW k \in 1..3, j # k,
           NEW p, IsPair(p, a, 1, b, 1), NEW q, IsPair(q, a, j, b, k)
    PROVE  /\ Divide(Plus(Scale(p, k), q), gfXor(j, k)) = Pure(a)
           /\ Plus(p, Pure(a)) = Pure(b)
  <1> DEFINE u == TwoOf(a, 1, b, 1)
             v == TwoOf(a, j, b, k)
  <1>1. /\ u \in Vectors /\ p = Vec(u) /\ \A l \in Nat : u[l] = IF l = a THEN 1 ELSE IF l = b THEN 1 ELSE 0
        /\ v \in Vectors /\ q = Vec(v) /\ \A l \in Nat : v[l] = IF l = a THEN j ELSE IF l = b THEN k ELSE 0
    <2>1. 1 \in 1..3
      OBVIOUS
    <2> QED
      BY <2>1, TwoFacts, SMTT(30) DEF IsPair
  <1> HIDE DEF u, v
  <1> DEFINE s == [l \in Nat |-> gfMul(u[l], k)]
  <1>2. s \in Vectors /\ Scale(p, k) = Vec(s) /\ \A l \in Nat : s[l] = gfMul(u[l], k)
    BY <1>1, ScaleOf
  <1> HIDE DEF s
  <1> DEFINE t == [l \in Nat |-> gfXor(s[l], v[l])]
  <1>3. t \in Vectors /\ Plus(Scale(p, k), q) = Vec(t) /\ \A l \in Nat : t[l] = gfXor(s[l], v[l])
    BY <1>1, <1>2, PlusOf
  <1> HIDE DEF t
  <1> DEFINE z == gfXor(j, k)
  <1>4. z \in 1..3
    BY FieldFacts DEF Field
  <1> DEFINE r == [l \in Nat |-> gfDiv(t[l], z)]
  <1>5. r \in Vectors /\ Divide(Plus(Scale(p, k), q), z) = Vec(r) /\ \A l \in Nat : r[l] = gfDiv(t[l], z)
    <2> HIDE DEF z
    <2> QED
      BY <1>3, <1>4, ScaleOf
  <1> HIDE DEF r
  <1>6. /\ Unit(a, 1) \in Vectors /\ Vec(Unit(a, 1)) = Pure(a)
        /\ \A l \in Nat : Unit(a, 1)[l] = IF l = a THEN 1 ELSE 0
        /\ Unit(b, 1) \in Vectors /\ Vec(Unit(b, 1)) = Pure(b)
        /\ \A l \in Nat : Unit(b, 1)[l] = IF l = b THEN 1 ELSE 0
    <2>1. 1 \in 1..3
      OBVIOUS
    <2> QED
      BY <2>1, UnitOf DEF Pure
  <1>7. ASSUME NEW l \in Nat PROVE r[l] = Unit(a, 1)[l]
    <2>1. j \in Field /\ k \in Field
      BY DEF Field
    <2>2. CASE l = a
      <3>1. s[l] = k
        BY <1>1, <1>2, <2>2, FieldFacts
      <3>2. t[l] = z
        BY <1>1, <1>3, <2>1, <2>2, <3>1, FieldFacts
      <3>3. r[l] = 1
        BY <1>4, <1>5, <3>2, FieldFacts
      <3> QED
        BY <1>6, <2>2, <3>3
    <2>3. CASE l = b
      <3>1. s[l] = k
        BY <1>1, <1>2, <2>3, FieldFacts
      <3>2. t[l] = 0
        BY <1>1, <1>3, <2>1, <2>3, <3>1, FieldFacts
      <3>3. r[l] = 0
        BY <1>4, <1>5, <3>2, FieldFacts
      <3> QED
        BY <1>6, <2>3, <3>3
    <2>4. CASE l # a /\ l # b
      <3>1. s[l] = 0
        BY <1>1, <1>2, <2>4, FieldFacts
      <3>2. t[l] = 0
        <4>1. 0 \in Field
          BY DEF Field
        <4> QED
          BY <1>1, <1>3, <2>4, <3>1, <4>1, FieldFacts
      <3>3. r[l] = 0
        BY <1>4, <1>5, <3>2, FieldFacts
      <3> QED
        BY <1>6, <2>4, <3>3
    <2> QED
      BY <2>2, <2>3, <2>4
  <1>8. Vec(r) = Pure(a)
    BY <1>5, <1>6, <1>7, VecEqual
  <1> DEFINE y == [l \in Nat |-> gfXor(u[l], Unit(a, 1)[l])]
  <1>9. y \in Vectors /\ Plus(p, Pure(a)) = Vec(y) /\ \A l \in Nat : y[l] = gfXor(u[l], Unit(a, 1)[l])
    BY <1>1, <1>6, PlusOf
  <1> HIDE DEF y
  <1>10. ASSUME NEW l \in Nat PROVE y[l] = Unit(b, 1)[l]
    <2>1. 0 \in Field /\ 1 \in Field
      BY DEF Field
    <2>2. gfXor(0, 0) = 0 /\ gfXor(1, 1) = 0 /\ gfXor(1, 0) = 1
      BY <2>1, FieldFacts
    <2> QED
      BY <1>1, <1>6, <1>9, <2>2
  <1>11. Vec(y) = Pure(b)
    BY <1>6, <1>9, <1>10, VecEqual
  <1> QED
    BY <1>5, <1>8, <1>9, <1>11

\* The lost block of a row, with P or with Q
LEMMA OneGiven ==
    ASSUME NEW data, NEW l \in Nat, NEW weight, DOMAIN weight = {data}, weight[data] \in 1..3,
           NEW p, p = {<<l, 1>>}, NEW q, q = {<<l, weight[data]>>}, NEW pOk \in BOOLEAN
    PROVE  Solved(data, weight, p, q, pOk) = Pure(l)
  <1>1. Cardinality(DOMAIN weight) = 1
    BY FS_Singleton
  <1>2. Divide(q, weight[data]) = Pure(l)
    <2>1. Divide(q, weight[data]) = {<<l, gfDiv(weight[data], weight[data])>>}
      BY DEF Divide
    <2>2. gfDiv(weight[data], weight[data]) = 1
      BY FieldFacts
    <2> QED
      BY <2>1, <2>2 DEF Pure
  <1> DEFINE result == Solved(data, weight, p, q, pOk)
  <1>3. pOk => result = p
    BY <1>1 DEF Solved
  <1>4. ~pOk => result = Divide(q, weight[data])
    BY <1>1 DEF Solved
  <1> QED
    BY <1>2, <1>3, <1>4 DEF Pure

\* Two disks with different weights
Weighs(weight, c, d) ==
    DOMAIN weight = {c, d} /\ weight[c] \in 1..3 /\ weight[d] \in 1..3 /\ weight[c] # weight[d]

\* The first of two lost blocks, out of P and Q without them (read_raid6), when P
\* and Q hold one pair of weighed sectors each
LEMMA TwoGiven ==
    ASSUME NEW c \in Int, NEW d \in Int, c # d, NEW a \in Nat, NEW b \in Nat, a # b,
           NEW weight, Weighs(weight, c, d),
           NEW p, IsPair(p, a, 1, b, 1), NEW q, IsPair(q, a, weight[c], b, weight[d]), NEW pOk
    PROVE  Solved(c, weight, p, q, pOk) = Pure(a)
  <1> USE DEF Weighs
  <1> DEFINE failed == DOMAIN weight
             first == CHOOSE e \in failed : \A f \in failed : e <= f
             second == CHOOSE e \in failed : \A f \in failed : f <= e
             xFirst == Divide(Plus(Scale(p, weight[second]), q), gfXor(weight[first], weight[second]))
             result == Solved(c, weight, p, q, pOk)
  <1>1. Cardinality(failed) = 2
    <2>0. d \notin {c}
      OBVIOUS
    <2>1. IsFiniteSet({c}) /\ Cardinality({c}) = 1
      BY FS_Singleton, Zenon
    <2>2. Cardinality({c} \cup {d}) = 2
      BY <2>0, <2>1, FS_AddElement
    <2>3. {c} \cup {d} = failed
      OBVIOUS
    <2> QED
      BY <2>2, <2>3
  <1>2. result = IF c = first THEN xFirst ELSE Plus(p, xFirst)
    BY <1>1 DEF Solved
  <1>3. CASE c < d
    <2>1. first = c /\ second = d
      BY <1>3
    <2>2. xFirst = Pure(a)
      BY <2>1, TwoSolved
    <2> QED
      BY <1>2, <2>1, <2>2
  <1>4. CASE d < c
    <2>1. first = d /\ second = c
      BY <1>4
    <2>2. IsPair(p, b, 1, a, 1) /\ IsPair(q, b, weight[d], a, weight[c])
      BY DEF IsPair
    <2>3. xFirst = Pure(b) /\ Plus(p, Pure(b)) = Pure(a)
      <3> DEFINE j == weight[d]
                 k == weight[c]
      <3>1. j \in 1..3 /\ k \in 1..3 /\ j # k /\ b # a /\ IsPair(q, b, j, a, k)
        BY <2>2
      <3>2. Divide(Plus(Scale(p, k), q), gfXor(j, k)) = Pure(b) /\ Plus(p, Pure(b)) = Pure(a)
        <4> HIDE DEF j, k
        <4> QED
          BY <2>2, <3>1, TwoSolved
      <3> QED
        BY <2>1, <3>2
    <2> QED
      BY <1>2, <1>4, <2>1, <2>3
  <1> QED
    BY <1>3, <1>4

----------------------------------------------------------------------------
(* What a piece of a block gives, level by level                           *)

\* The rows of whole blocks, and the blocks the array has of them
Rows(a) == payload(a) \div a.block
Striping == {"RAID0", "RAID5", "RAID6", "RAID10", "RAID1E"}
PerRow(a) ==
    CASE a.level = "RAID0"  -> a.n
      [] a.level = "RAID5"  -> a.n - 1
      [] a.level = "RAID6"  -> a.n - 2
      [] a.level = "RAID10" -> a.n \div 2
BlockCount(a) == IF a.level = "RAID1E" THEN (Rows(a) * a.n) \div 2 ELSE Rows(a) * PerRow(a)

\* What RaidAssumption says of one set: the numbers it is made of
LEMMA ArrayFacts ==
    ASSUME NEW a \in Arrays
    PROVE  /\ a.level \in Levels /\ a.algorithm \in Algorithms /\ a.n \in Nat /\ a.n >= 2 /\ a.block \in Nat \ {0}
           /\ a.level \in {"RAID5", "RAID1E"} => a.n >= 3
           /\ a.level = "RAID6" => a.n >= 4
           /\ a.level = "RAID10" => a.n % 2 = 0
           /\ \A d \in 0..(a.n - 1) : a.base[d] \in Nat /\ a.size[d] \in Nat /\ memberPayload(a, d) \in Nat
                                      /\ memberExtent(a, d) \in Nat /\ payload(a) <= memberPayload(a, d)
           /\ payload(a) \in Nat /\ Rows(a) \in Nat
  <1>0. Array(a)
    BY RaidAssumption
  <1>1. /\ a.level \in Levels /\ a.algorithm \in Algorithms /\ a.n \in Nat /\ a.n >= 2 /\ a.block \in Nat \ {0}
        /\ a.level \in {"RAID5", "RAID1E"} => a.n >= 3
        /\ a.level = "RAID6" => a.n >= 4
        /\ a.level = "RAID10" => a.n % 2 = 0
    BY <1>0 DEF Array
  <1>2. /\ a.size \in [0..(a.n - 1) -> Nat] /\ a.base \in [0..(a.n - 1) -> Nat] /\ a.extent \in [0..(a.n - 1) -> Nat]
        /\ \A d \in 0..(a.n - 1) : a.base[d] < a.size[d] /\ a.base[d] + a.extent[d] <= a.size[d]
    BY <1>0 DEF Array
  <1>3. \A d \in 0..(a.n - 1) : /\ a.base[d] \in Nat /\ a.size[d] \in Nat /\ memberPayload(a, d) \in Nat
                                /\ memberExtent(a, d) \in Nat
    BY <1>1, <1>2 DEF memberPayload, memberExtent
  <1> DEFINE P == {memberPayload(a, d) : d \in 0..(a.n - 1)}
  <1>4. P \subseteq Nat /\ P # {}
    <2>1. 0 \in 0..(a.n - 1)
      BY <1>1
    <2> QED
      BY <1>3, <2>1
  <1>5. PICK p \in P : \A q \in P : p <= q
    <2> HIDE DEF P
    <2> QED
      BY <1>4, LeastNatural
  <1>6. \E q \in P : \A d \in 0..(a.n - 1) : q <= memberPayload(a, d)
    BY <1>5
  <1>7. payload(a) \in P /\ \A d \in 0..(a.n - 1) : payload(a) <= memberPayload(a, d)
    BY <1>6 DEF payload
  <1>8. payload(a) \in Nat
    BY <1>4, <1>7
  <1>9. Rows(a) \in Nat
    BY <1>1, <1>8, Blocks DEF Rows
  <1> QED
    BY <1>1, <1>3, <1>7, <1>8, <1>9

\* What is stored in a row of whole blocks, by level
LEMMA StoredInRow ==
    ASSUME NEW a \in Arrays, a.level \in Striping, NEW d \in 0..(a.n - 1), NEW row \in Nat, row < Rows(a),
           NEW off \in 0..(a.block - 1)
    PROVE  /\ row * a.block + off \in Nat
           /\ a.level = "RAID0" => Stored(a, d, row * a.block + off) = Pure((row * a.n + d) * a.block + off)
           /\ a.level = "RAID10" =>
                Stored(a, d, row * a.block + off) = Pure((row * (a.n \div 2) + (d \div 2)) * a.block + off)
           /\ a.level = "RAID1E" =>
                Stored(a, d, row * a.block + off) = Pure((((row * a.n) + d) \div 2) * a.block + off)
  <1> DEFINE s == row * a.block + off
  <1>1. a.block \in Nat \ {0} /\ Rows(a) \in Nat
    BY ArrayFacts
  <1>2. s \in Nat /\ s \div a.block = row /\ s % a.block = off
    BY <1>1, PlaceIn
  <1> HIDE DEF s
  <1>3. ~(row >= payload(a) \div a.block)
    BY <1>1 DEF Rows
  <1>4. a.level # "JBOD" /\ a.level # "RAID1"
    BY DEF Striping
  <1>5. a.level = "RAID0" => Stored(a, d, s) = Pure((row * a.n + d) * a.block + off)
    BY <1>2, <1>3, <1>4 DEF Stored
  <1>6. a.level = "RAID10" => Stored(a, d, s) = Pure((row * (a.n \div 2) + (d \div 2)) * a.block + off)
    BY <1>2, <1>3, <1>4 DEF Stored
  <1>7. a.level = "RAID1E" => Stored(a, d, s) = Pure((((row * a.n) + d) \div 2) * a.block + off)
    BY <1>2, <1>3, <1>4 DEF Stored
  <1> QED
    BY <1>2, <1>5, <1>6, <1>7 DEF s

\* A piece of a read within a block of the array, and what makes it true
InBlock(block, from, len) ==
    /\ array \in Arrays /\ array.level \in Striping
    /\ block \in Nat /\ from \in Nat /\ len \in Nat \ {0}
    /\ from + len <= array.block /\ block < BlockCount(array)
IsTrue(r, block, from, len) ==
    r.ok => \A i \in 0..(len - 1) : r.data[i] = Pure(block * array.block + (from + i))

\* What is read directly is true if it is stored there.
LEMMA DirectIsTrue ==
    ASSUME NEW d, NEW block \in Nat, NEW row \in Nat, NEW from, NEW len, InBlock(block, from, len),
           \A off \in 0..(array.block - 1) :
             Stored(array, d, row * array.block + off) = Pure(block * array.block + off)
    PROVE  IsTrue(Direct(d, row * array.block + from, len), block, from, len)
  <1> DEFINE o == row * array.block + from
  <1>1. array.block \in Nat /\ from \in Nat /\ len \in Nat /\ from + len <= array.block
    BY ArrayFacts DEF InBlock
  <1>2. row * array.block \in Nat
    BY <1>1
  <1>3. ASSUME NEW i \in 0..(len - 1) PROVE Direct(d, o, len).data[i] = Pure(block * array.block + (from + i))
    <2>1. Direct(d, o, len).data[i] = Stored(array, d, o + i)
      BY DEF Direct, Given, Member
    <2>2. from + i \in 0..(array.block - 1)
      BY <1>1
    <2>3. o + i = row * array.block + (from + i)
      BY <1>1, <1>2
    <2> QED
      BY <2>1, <2>2, <2>3
  <1> QED
    BY <1>3 DEF IsTrue

\* What is not read is not wrong.
LEMMA UnreadIsTrue ==
    ASSUME NEW block, NEW from, NEW len
    PROVE  IsTrue(Unread, block, from, len)
  BY DEF IsTrue, Unread

\* A piece of a striped set is the array's.
LEMMA Raid0IsTrue ==
    ASSUME NEW block, NEW from, NEW len, NEW now, InBlock(block, from, len), array.level = "RAID0"
    PROVE  IsTrue(Raid0Piece(block, from, len, now), block, from, len)
  <1> DEFINE n == array.n
             d == block % n
             row == block \div n
  <1>1. n \in Nat \ {0} /\ Rows(array) \in Nat /\ block \in Nat /\ array.level \in Striping /\ array \in Arrays
    BY ArrayFacts DEF InBlock
  <1>2. block < Rows(array) * n
    BY DEF InBlock, BlockCount, PerRow
  <1>3. row \in Nat /\ d \in 0..(n - 1) /\ block = row * n + d /\ row < Rows(array)
    <2> HIDE DEF n
    <2> QED
      BY <1>1, <1>2, Blocks
  <1> HIDE DEF d, row
  <1>4. \A off \in 0..(array.block - 1) : Stored(array, d, row * array.block + off) = Pure(block * array.block + off)
    BY <1>1, <1>3, StoredInRow
  <1>5. IsTrue(Direct(d, row * array.block + from, len), block, from, len)
    BY <1>1, <1>3, <1>4, DirectIsTrue
  <1> QED
    BY <1>5, UnreadIsTrue DEF Raid0Piece, d, row

\* Of two copies that are each the array's, either will do.
LEMMA EitherIsTrue ==
    ASSUME NEW active, NEW c, NEW d, NEW o, NEW p, NEW block, NEW from, NEW len,
           IsTrue(Direct(c, o, len), block, from, len), IsTrue(Direct(d, p, len), block, from, len)
    PROVE  IsTrue(Either(active, c, o, d, p, len), block, from, len)
  BY UnreadIsTrue DEF Either

\* A piece of mirrored pairs is the array's, from either disk of the pair.
LEMMA Raid10IsTrue ==
    ASSUME NEW block, NEW from, NEW len, NEW now, InBlock(block, from, len), array.level = "RAID10"
    PROVE  IsTrue(Raid10Piece(block, from, len, now), block, from, len)
  <1> DEFINE n == array.n
             h == n \div 2
             k == block % h
             row == block \div h
  <1>1. n \in Nat /\ n >= 2 /\ n % 2 = 0 /\ Rows(array) \in Nat /\ block \in Nat
        /\ array.level \in Striping /\ array \in Arrays
    BY ArrayFacts DEF InBlock
  <1>2. h \in Nat \ {0} /\ n = 2 * h
    BY <1>1
  <1>3. block < Rows(array) * h
    BY DEF InBlock, BlockCount, PerRow
  <1>4. row \in Nat /\ k \in 0..(h - 1) /\ block = row * h + k /\ row < Rows(array)
    <2> HIDE DEF h
    <2> QED
      BY <1>1, <1>2, <1>3, Blocks
  <1> HIDE DEF k, row
  <1>5. ASSUME NEW d \in {k * 2, k * 2 + 1} PROVE IsTrue(Direct(d, row * array.block + from, len), block, from, len)
    <2>1. d \in 0..(n - 1) /\ d \div 2 = k
      <3> HIDE DEF n, h
      <3> QED
        BY <1>2, <1>4
    <2>2. \A off \in 0..(array.block - 1) : Stored(array, d, row * array.block + off) = Pure(block * array.block + off)
      BY <1>1, <1>4, <2>1, StoredInRow
    <2> QED
      BY <1>1, <1>4, <2>2, DirectIsTrue
  <1>6. IsTrue(Either(now, k * 2, row * array.block + from, k * 2 + 1, row * array.block + from, len), block, from, len)
    BY <1>5, EitherIsTrue
  <1> QED
    BY <1>6 DEF Raid10Piece, raid10MemberA, raid10MemberB, k, row

\* A piece of an interleaved mirror is the array's, from either copy.
LEMMA Raid1eIsTrue ==
    ASSUME NEW block, NEW from, NEW len, NEW now, InBlock(block, from, len), array.level = "RAID1E"
    PROVE  IsTrue(Raid1ePiece(block, from, len, now), block, from, len)
  <1> DEFINE n == array.n
             d(c) == raid1eDisk(block, c, n)
             row(c) == raid1eRow(block, c, n)
             o(c) == row(c) * array.block + from
  <1>1. n \in Nat \ {0} /\ Rows(array) \in Nat /\ block \in Nat /\ array.level \in Striping /\ array \in Arrays
    BY ArrayFacts DEF InBlock
  <1>2. block * 2 + 1 < Rows(array) * n
    <2> DEFINE x == Rows(array) * n
    <2>1. x \in Nat
      BY <1>1
    <2>2. block < x \div 2
      BY DEF InBlock, BlockCount
    <2> HIDE DEF x
    <2>3. block * 2 + 1 < x
      BY <1>1, <2>1, <2>2
    <2> QED
      BY <2>3 DEF x
  <1>3. ASSUME NEW c \in {0, 1} PROVE IsTrue(Direct(d(c), o(c), len), block, from, len)
    <2> DEFINE x == block * 2 + c
               e == x % n
               r == x \div n
    <2>1. x \in Nat /\ x < Rows(array) * n /\ x \div 2 = block
      <3>1. Rows(array) * n \in Nat
        BY <1>1
      <3> QED
        BY <1>1, <1>2, <3>1
    <2>2. r \in Nat /\ e \in 0..(n - 1) /\ x = r * n + e /\ r < Rows(array)
      <3> HIDE DEF x, n
      <3> QED
        BY <1>1, <2>1, Blocks
    <2>3. d(c) = e /\ row(c) = r
      BY DEF raid1eDisk, raid1eRow
    <2> HIDE DEF e, r
    <2>4. \A off \in 0..(array.block - 1) : Stored(array, e, r * array.block + off) = Pure(block * array.block + off)
      <3> TAKE off \in 0..(array.block - 1)
      <3>1. Stored(array, e, r * array.block + off) = Pure((((r * array.n) + e) \div 2) * array.block + off)
        BY <1>1, <2>2, StoredInRow
      <3>2. ((r * array.n) + e) \div 2 = block
        BY <2>1, <2>2
      <3> QED
        BY <3>1, <3>2
    <2>5. IsTrue(Direct(e, r * array.block + from, len), block, from, len)
      BY <1>1, <2>2, <2>4, DirectIsTrue
    <2> QED
      BY <2>3, <2>5
  <1>4. IsTrue(Direct(d(0), o(0), len), block, from, len) /\ IsTrue(Direct(d(1), o(1), len), block, from, len)
    BY <1>3
  <1>5. IsTrue(Either(now, d(0), o(0), d(1), o(1), len), block, from, len)
    <2> HIDE DEF d, o
    <2> QED
      BY <1>4, EitherIsTrue
  <1> QED
    BY <1>5 DEF Raid1ePiece

\* The sectors of a row of m blocks, at one distance from the border of a block
AtRow(row, m, size, off) == [k \in 0..(m - 1) |-> (row * m + k) * size + off]

\* The sectors of a row's blocks differ from one another.
LEMMA AtRowPlaces ==
    ASSUME NEW row \in Nat, NEW m \in Nat, NEW size \in Nat \ {0}, NEW off \in 0..(size - 1)
    PROVE  Places(AtRow(row, m, size, off), m)
  <1> DEFINE at == AtRow(row, m, size, off)
             base == row * m
  <1>1. base \in Nat
    OBVIOUS
  <1>2. at = [k \in 0..(m - 1) |-> (base + k) * size + off]
    BY DEF AtRow
  <1> HIDE DEF at, base
  <1>3. ASSUME NEW k \in 0..(m - 1) PROVE at[k] \in Nat /\ at[k] \div size = base + k
    <2>1. base + k \in Nat
      BY <1>1
    <2>2. at[k] = (base + k) * size + off
      BY <1>2
    <2> DEFINE q == base + k
    <2> HIDE DEF q
    <2>3. q * size + off \in Nat /\ (q * size + off) \div size = q
      BY <2>1, PlaceIn DEF q
    <2> QED
      BY <2>2, <2>3 DEF q
  <1>4. at \in [0..(m - 1) -> Nat]
    <2>1. at = [k \in 0..(m - 1) |-> at[k]]
      BY <1>2
    <2> QED
      BY <1>3, <2>1
  <1>5. ASSUME NEW i \in 0..(m - 1), NEW j \in 0..(m - 1), at[i] = at[j] PROVE i = j
    <2>1. base + i = base + j
      BY <1>3, <1>5
    <2> QED
      BY <1>1, <2>1
  <1> QED
    BY <1>4, <1>5 DEF Places, at

\* In a row of RAID 5 one disk holds the parity and the others different blocks.
LEMMA Roles5 ==
    ASSUME NEW n \in Nat, n >= 3, NEW row \in Nat, NEW algorithm \in Algorithms,
           NEW p, p = raid5ParityDisk(row, n, algorithm)
    PROVE  /\ p \in 0..(n - 1) /\ Role5(p, row, n, algorithm) = ParityP
           /\ \A d \in (0..(n - 1)) \ {p} : Role5(d, row, n, algorithm) \in 0..(n - 2)
           /\ \A c, d \in (0..(n - 1)) \ {p} :
                Role5(c, row, n, algorithm) = Role5(d, row, n, algorithm) => c = d
  <1>1. p \in 0..(n - 1) /\ p = (IF algorithm \in {"rightAsymmetric", "rightSymmetric"}
                                  THEN row % n ELSE n - 1 - (row % n))
    BY Raid5Parity
  <1> DEFINE R(d) == Role5(d, row, n, algorithm)
  <1>2. R(p) = ParityP
    BY <1>1 DEF Role5
  <1>3. ASSUME NEW d \in (0..(n - 1)) \ {p}
        PROVE  R(d) = CASE algorithm = "leftSymmetric" -> IF d > p THEN d - p - 1 ELSE d + (n - p - 1)
                        [] algorithm = "rightSymmetric" -> IF d < p THEN p - d - 1 ELSE p + (n - d - 1)
                        [] OTHER -> IF d < p THEN d ELSE d - 1
    <2>1. R(d) = CASE algorithm = "leftSymmetric"  -> (d + n - p - 1) % n
                   [] algorithm = "rightSymmetric" -> (p + n - d - 1) % n
                   [] OTHER -> IF d < p THEN d ELSE d - 1
      BY <1>1 DEF Role5
    <2>2. CASE algorithm = "leftSymmetric"
      <3> DEFINE x == d + n - p - 1
      <3>1. x \in Nat /\ x < 2 * n /\ n \in Nat \ {0}
        BY <1>1
      <3>2. x % n = IF x < n THEN x ELSE x - n
        <4> HIDE DEF x
        <4> QED
          BY <3>1, Remainder
      <3> QED
        BY <1>1, <2>1, <2>2, <3>2
    <2>3. CASE algorithm = "rightSymmetric"
      <3> DEFINE x == p + n - d - 1
      <3>1. x \in Nat /\ x < 2 * n /\ n \in Nat \ {0}
        BY <1>1
      <3>2. x % n = IF x < n THEN x ELSE x - n
        <4> HIDE DEF x
        <4> QED
          BY <3>1, Remainder
      <3> QED
        BY <1>1, <2>1, <2>3, <3>2
    <2>4. CASE algorithm \notin {"leftSymmetric", "rightSymmetric"}
      BY <2>1, <2>4
    <2> QED
      BY <2>2, <2>3, <2>4
  <1> HIDE DEF R
  <1>0. p \in Int /\ 0 <= p /\ p < n /\ n \in Int
    BY <1>1
  <1>4. ASSUME NEW d \in (0..(n - 1)) \ {p} PROVE R(d) \in 0..(n - 2)
    <2>1. CASE algorithm = "leftSymmetric"
      <3>1. R(d) = IF d > p THEN d - p - 1 ELSE d + (n - p - 1)
        BY <1>3, <2>1
      <3> QED
        BY <1>0, <3>1
    <2>2. CASE algorithm = "rightSymmetric"
      <3>1. R(d) = IF d < p THEN p - d - 1 ELSE p + (n - d - 1)
        BY <1>3, <2>2
      <3> QED
        BY <1>1, <3>1
    <2>3. CASE algorithm \notin {"leftSymmetric", "rightSymmetric"}
      BY <1>1, <1>3, <2>3
    <2> QED
      BY <2>1, <2>2, <2>3
  <1>5. ASSUME NEW c \in (0..(n - 1)) \ {p}, NEW d \in (0..(n - 1)) \ {p}, R(c) = R(d) PROVE c = d
    <2>1. CASE algorithm = "leftSymmetric"
      <3>1. /\ c > p => R(c) = c - p - 1
            /\ c < p => R(c) = c + (n - p - 1)
            /\ d > p => R(d) = d - p - 1
            /\ d < p => R(d) = d + (n - p - 1)
        BY <1>0, <1>3, <2>1
      <3>2. c \in Int /\ d \in Int /\ 0 <= c /\ c < n /\ c # p /\ 0 <= d /\ d < n /\ d # p
        BY <1>0
      <3> QED
        BY <1>0, <1>5, <3>1, <3>2
    <2>2. CASE algorithm = "rightSymmetric"
      BY <1>1, <1>3, <1>5, <2>2
    <2>3. CASE algorithm \notin {"leftSymmetric", "rightSymmetric"}
      BY <1>1, <1>3, <1>5, <2>3
    <2> QED
      BY <2>1, <2>2, <2>3
  <1> QED
    BY <1>1, <1>2, <1>4, <1>5 DEF R

\* What member d stores in a row whose sectors are at
RowStored5(a, d, row, off, at) ==
    /\ d = raid5ParityDisk(row, a.n, a.algorithm) =>
         Stored(a, d, row * a.block + off) = RowParity(at, a.n - 1)
    /\ d # raid5ParityDisk(row, a.n, a.algorithm) =>
         Stored(a, d, row * a.block + off) = Pure(at[Role5(d, row, a.n, a.algorithm)])

\* What a disk of RAID 5 stores in a row: its own block, or the parity of the row
LEMMA StoredInRow5 ==
    ASSUME NEW a \in Arrays, a.level = "RAID5", NEW d \in 0..(a.n - 1), NEW row \in Nat, row < Rows(a),
           NEW off \in 0..(a.block - 1)
    PROVE  RowStored5(a, d, row, off, AtRow(row, a.n - 1, a.block, off))
  <1> DEFINE s == row * a.block + off
             m == a.n - 1
             role == Role5(d, row, a.n, a.algorithm)
             at == AtRow(row, a.n - 1, a.block, off)
             p == raid5ParityDisk(row, a.n, a.algorithm)
  <1>1. a.block \in Nat \ {0} /\ Rows(a) \in Nat /\ a.n \in Nat /\ a.n >= 3 /\ a.algorithm \in Algorithms
    BY ArrayFacts
  <1>2. s \in Nat /\ s \div a.block = row /\ s % a.block = off
    BY <1>1, PlaceIn
  <1> HIDE DEF s
  <1>3. ~(row >= payload(a) \div a.block)
    BY <1>1 DEF Rows
  <1>4. m - 1 = a.n - 2 /\ \A k \in 0..(m - 1) : at[k] = (row * m + k) * a.block + off
    BY <1>1 DEF AtRow
  <1>5. /\ role = ParityP => Stored(a, d, s) = {<<(row * m + k) * a.block + off, 1>> : k \in 0..(m - 1)}
        /\ role # ParityP /\ role # ParityQ => Stored(a, d, s) = Pure((row * m + role) * a.block + off)
    BY <1>2, <1>3 DEF Stored, ParityP, ParityQ
  <1>6. /\ d = p => role = ParityP
        /\ d # p => role \in 0..(m - 1)
    BY <1>1, <1>4, Roles5
  <1> HIDE DEF role, at, p
  <1>7. d = p => Stored(a, d, s) = RowParity(at, m)
    BY <1>4, <1>5, <1>6 DEF RowParity
  <1>8. d # p => Stored(a, d, s) = Pure(at[role])
    BY <1>4, <1>5, <1>6 DEF ParityP, ParityQ
  <1> QED
    BY <1>7, <1>8 DEF s, role, at, p, RowStored5

\* The other members' blocks rebuild the block of a lost one.
LEMMA RebuiltIsTrue ==
    ASSUME NEW block, NEW from, NEW len, InBlock(block, from, len), array.level = "RAID5",
           NEW stripe, stripe = block \div (array.n - 1),
           NEW data, data = raid5DataDisk(stripe, block % (array.n - 1), array.n, array.algorithm)
    PROVE  /\ stripe \in Nat /\ data \in Disks
           /\ \A off \in 0..(array.block - 1) :
                Stored(array, data, stripe * array.block + off) = Pure(block * array.block + off)
           /\ IsTrue(Rebuilt(Disks \ {data}, stripe * array.block, from, len), block, from, len)
  <1> DEFINE n == array.n
             m == n - 1
             b == block % m
             p == raid5ParityDisk(stripe, n, array.algorithm)
             role(d) == Role5(d, stripe, n, array.algorithm)
             T == Disks \ {data, p}
  <1>1. /\ n \in Nat /\ n >= 3 /\ Rows(array) \in Nat /\ block \in Nat /\ array \in Arrays
        /\ array.algorithm \in Algorithms /\ array.block \in Nat \ {0}
        /\ from \in Nat /\ len \in Nat /\ from + len <= array.block
    BY ArrayFacts DEF InBlock
  <1>2. m \in Nat \ {0} /\ block < Rows(array) * m
    BY <1>1 DEF InBlock, BlockCount, PerRow
  <1>3. stripe \in Nat /\ b \in 0..(m - 1) /\ block = stripe * m + b /\ stripe < Rows(array)
    <2>1. stripe = block \div m
      OBVIOUS
    <2> HIDE DEF m
    <2>2. block \div m \in Nat /\ block % m \in 0..(m - 1) /\ block = (block \div m) * m + (block % m)
          /\ block \div m < Rows(array)
      BY <1>1, <1>2, Blocks
    <2> QED
      BY <2>1, <2>2
  <1>4. m - 1 = n - 2 /\ Disks = 0..(n - 1)
    BY <1>1 DEF Disks
  <1>5. \A k \in 0..(m - 1) : LET d == raid5DataDisk(stripe, k, n, array.algorithm)
                              IN  d \in Disks /\ d # p /\ role(d) = k
    <2> TAKE k \in 0..(m - 1)
    <2>1. k \in 0..(n - 2)
      BY <1>4
    <2> HIDE DEF m, n
    <2>2. LET d == raid5DataDisk(stripe, k, n, array.algorithm)
          IN  d \in 0..(n - 1) /\ d # p /\ role(d) = k
      BY <1>1, <1>3, <2>1, Raid5Located
    <2> QED
      BY <1>4, <2>2
  <1>6. data \in Disks /\ data # p /\ role(data) = b
    BY <1>3, <1>5
  <1>7. /\ p \in Disks /\ \A d \in Disks \ {p} : role(d) \in 0..(m - 1)
        /\ \A c, d \in Disks \ {p} : role(c) = role(d) => c = d
    <2> HIDE DEF m, n, p
    <2>1. p = raid5ParityDisk(stripe, n, array.algorithm)
      BY DEF p
    <2>2. /\ p \in 0..(n - 1) /\ \A d \in (0..(n - 1)) \ {p} : role(d) \in 0..(n - 2)
          /\ \A c, d \in (0..(n - 1)) \ {p} : role(c) = role(d) => c = d
      BY <1>1, <1>3, <2>1, Roles5
    <2> QED
      BY <1>4, <2>2
  <1> HIDE DEF b, p, role, m, n
  <1>8. ASSUME NEW off \in 0..(array.block - 1), NEW at, at = AtRow(stripe, m, array.block, off)
        PROVE  /\ Stored(array, p, stripe * array.block + off) = RowParity(at, m)
               /\ \A d \in Disks \ {p} : Stored(array, d, stripe * array.block + off) = Pure(at[role(d)])
               /\ at[b] = block * array.block + off
    <2>1. at = AtRow(stripe, array.n - 1, array.block, off) /\ p = raid5ParityDisk(stripe, array.n, array.algorithm)
      BY <1>8 DEF m, n, p
    <2>2. \A d \in Disks : RowStored5(array, d, stripe, off, at)
      <3> TAKE d \in Disks
      <3>1. d \in 0..(array.n - 1)
        BY DEF Disks
      <3> QED
        BY <1>1, <1>3, <2>1, <3>1, StoredInRow5
    <2>3. array.n - 1 = m
      BY DEF m, n
    <2>4. at[b] = block * array.block + off
      BY <1>3, <1>8 DEF AtRow
    <2> QED
      BY <1>7, <2>1, <2>2, <2>3, <2>4 DEF role, n, RowStored5
  <1>9. \A off \in 0..(array.block - 1) :
           Stored(array, data, stripe * array.block + off) = Pure(block * array.block + off)
    BY <1>6, <1>8
  <1>10. ASSUME NEW i \in 0..(len - 1)
         PROVE  Rebuilt(Disks \ {data}, stripe * array.block, from, len).data[i]
                  = Pure(block * array.block + (from + i))
    <2> DEFINE off == from + i
               at == AtRow(stripe, m, array.block, off)
               S == Disks \ {data}
               f == [d \in S |-> Member(d, stripe * array.block + from + i)]
               roles == [d \in T |-> role(d)]
    <2>1. off \in 0..(array.block - 1)
      BY <1>1
    <2>2. stripe * array.block + from + i = stripe * array.block + off
      <3>1. stripe * array.block \in Nat
        BY <1>1, <1>3
      <3> QED
        BY <1>1, <3>1
    <2>3. Rebuilt(S, stripe * array.block, from, len).data[i] = Xor(f, S)
      BY DEF Rebuilt, Given
    <2>4. S = T \cup {p} /\ p \notin T
      BY <1>6, <1>7
    <2>5. Places(at, m)
      BY <1>1, <1>2, <1>3, <2>1, AtRowPlaces
    <2>6. at \in [0..(m - 1) -> Nat]
      BY <2>5 DEF Places
    <2> HIDE DEF off, at
    <2>7. /\ Stored(array, p, stripe * array.block + off) = RowParity(at, m)
          /\ \A d \in Disks \ {p} : Stored(array, d, stripe * array.block + off) = Pure(at[role(d)])
          /\ at[b] = block * array.block + off
      BY <1>8, <2>1 DEF at
    <2>8. f[p] = RowParity(at, m) /\ InSlots(f, T, at, roles)
      BY <2>2, <2>4, <2>7 DEF Member, InSlots
    <2>9. Slotted(T, roles, m)
      BY <1>7 DEF Slotted
    <2>10. SlotsLeft({b}, T, roles, m)
      <3>1. ASSUME NEW k \in 0..(m - 1), k # b PROVE \E d \in T : roles[d] = k
        <4>1. PICK d \in Disks : d # p /\ role(d) = k
          BY <1>5
        <4>2. d \in T
          BY <1>6, <3>1, <4>1
        <4> QED
          BY <4>1, <4>2
      <3>2. \A d \in T : roles[d] # b
        BY <1>6, <1>7
      <3> QED
        BY <1>3, <3>1, <3>2 DEF SlotsLeft
    <2> HIDE DEF S, T, f, roles
    <2>11. Xor(f, T \cup {p}) = Vec(Weighted(at, {b}, Ones(m)))
      BY <1>2, <2>4, <2>5, <2>8, <2>9, <2>10, ParityLeaves
    <2>12. Vec(Weighted(at, {b}, Ones(m))) = {<<at[b], 1>>}
      <3>1. Ones(m) \in Weights(m) /\ Ones(m)[b] = 1
        BY <1>3 DEF Ones, Weights
      <3>2. WeighedBy(Weighted(at, {b}, Ones(m)), at, {b}, Ones(m))
        <4>1. {b} \subseteq 0..(m - 1)
          BY <1>3
        <4> QED
          BY <1>2, <2>5, <3>1, <4>1, WeightedOf
      <3> QED
        BY <3>1, <3>2 DEF WeighedBy
    <2>13. Rebuilt(S, stripe * array.block, from, len).data[i] = Pure(block * array.block + off)
      BY <2>3, <2>4, <2>7, <2>11, <2>12 DEF Pure
    <2> QED
      BY <2>13 DEF S, off
  <1> QED
    BY <1>3, <1>6, <1>9, <1>10 DEF IsTrue

\* A piece of RAID 5 is the array's, read or rebuilt from the others.
LEMMA Raid5IsTrue ==
    ASSUME NEW block, NEW from, NEW len, NEW now, NEW later, InBlock(block, from, len), array.level = "RAID5"
    PROVE  IsTrue(Raid5Piece(block, from, len, now, later), block, from, len)
  <1> DEFINE stripe == block \div (array.n - 1)
             data == raid5DataDisk(stripe, block % (array.n - 1), array.n, array.algorithm)
  <1>1. /\ stripe \in Nat
        /\ \A off \in 0..(array.block - 1) :
             Stored(array, data, stripe * array.block + off) = Pure(block * array.block + off)
        /\ IsTrue(Rebuilt(Disks \ {data}, stripe * array.block, from, len), block, from, len)
    BY RebuiltIsTrue
  <1>2. Raid5Piece(block, from, len, now, later) \in
          {Direct(data, stripe * array.block + from, len), Rebuilt(Disks \ {data}, stripe * array.block, from, len), Unread}
    BY DEF Raid5Piece
  <1> HIDE DEF stripe, data
  <1>3. block \in Nat
    BY DEF InBlock
  <1>4. IsTrue(Direct(data, stripe * array.block + from, len), block, from, len)
    BY <1>1, <1>3, DirectIsTrue
  <1> QED
    BY <1>1, <1>2, <1>4, UnreadIsTrue

\* The slot of a data disk of a row whose P is on p
SlotBy(d, p) == IF p = 0 THEN d - 1 ELSE IF d < p THEN d ELSE d - 2

\* How many of an interval from 0 are left without two of its numbers
LEMMA CountedWithout ==
    ASSUME NEW p \in Nat, NEW q \in Nat, p # q, NEW d \in Nat
    PROVE  /\ Cardinality({c \in {p, q} : c < d}) = (IF p < d THEN 1 ELSE 0) + (IF q < d THEN 1 ELSE 0)
           /\ Cardinality((0..(d - 1)) \ {p, q}) = (d - (IF p < d THEN 1 ELSE 0)) - (IF q < d THEN 1 ELSE 0)
  <1> DEFINE A == 0..(d - 1)
  <1>1. IsFiniteSet(A) /\ Cardinality(A) = d /\ d \in Int
    <2>1. 0 \in Int /\ d - 1 \in Int
      OBVIOUS
    <2>2. IsFiniteSet(0..(d - 1)) /\ Cardinality(0..(d - 1)) = IF 0 > d - 1 THEN 0 ELSE (d - 1) - 0 + 1
      BY <2>1, FS_Interval
    <2> QED
      BY <2>2
  <1>2. (p \in A <=> p < d) /\ (q \in A \ {p} <=> q < d)
    OBVIOUS
  <1> HIDE DEF A
  <1>3. IsFiniteSet(A \ {p}) /\ Cardinality(A \ {p}) = IF p \in A THEN d - 1 ELSE d
    BY <1>1, FS_RemoveElement
  <1>4. Cardinality((A \ {p}) \ {q}) = IF q \in A \ {p} THEN Cardinality(A \ {p}) - 1 ELSE Cardinality(A \ {p})
    BY <1>3, FS_RemoveElement
  <1>5. (A \ {p}) \ {q} = A \ {p, q}
    OBVIOUS
  <1>6. Cardinality(A \ {p, q}) = (d - (IF p < d THEN 1 ELSE 0)) - (IF q < d THEN 1 ELSE 0)
    BY <1>1, <1>2, <1>3, <1>4, <1>5
  <1> DEFINE B == {c \in {p, q} : c < d}
  <1>7. /\ p < d /\ q < d => B = {p} \cup {q}
        /\ p < d /\ ~(q < d) => B = {p}
        /\ ~(p < d) /\ q < d => B = {q}
        /\ ~(p < d) /\ ~(q < d) => B = {}
    OBVIOUS
  <1>8. /\ IsFiniteSet({p}) /\ Cardinality({p}) = 1 /\ Cardinality({q}) = 1
        /\ Cardinality({p} \cup {q}) = 2 /\ Cardinality({}) = 0
    <2>1. IsFiniteSet({p}) /\ Cardinality({p}) = 1 /\ Cardinality({q}) = 1 /\ Cardinality({}) = 0
      BY FS_Singleton, FS_EmptySet
    <2>2. Cardinality({p} \cup {q}) = IF q \in {p} THEN Cardinality({p}) ELSE Cardinality({p}) + 1
      BY <2>1, FS_AddElement
    <2> QED
      BY <2>1, <2>2
  <1> HIDE DEF B
  <1>9. Cardinality(B) = (IF p < d THEN 1 ELSE 0) + (IF q < d THEN 1 ELSE 0)
    BY <1>7, <1>8
  <1> QED
    BY <1>6, <1>9 DEF A, B

\* In a row of RAID 6 the disks other than P and Q hold the blocks 0, 1, ... in
\* order, and raid6DataDisk finds the holder of each.
LEMMA Slots6 ==
    ASSUME NEW n \in Nat, n >= 4, NEW row \in Nat
    PROVE  LET p == raid6PDisk(row, n)
               q == raid6QDisk(row, n)
           IN  /\ p \in 0..(n - 1) /\ q \in 0..(n - 1) /\ p # q
               /\ raid6DataDisks(row, n) = (0..(n - 1)) \ {p, q}
               /\ \A d \in raid6DataDisks(row, n) :
                    /\ slotOf(d, row, n) = SlotBy(d, p) /\ slotOf(d, row, n) \in 0..(n - 3)
                    /\ Role6(d, row, n) = slotOf(d, row, n)
               /\ \A b \in 0..(n - 3) : /\ raid6DataDisk(row, b, n) \in raid6DataDisks(row, n)
                                        /\ slotOf(raid6DataDisk(row, b, n), row, n) = b
  <1> DEFINE p == raid6PDisk(row, n)
             q == raid6QDisk(row, n)
             D == raid6DataDisks(row, n)
             slot(d) == slotOf(d, row, n)
  <1>1. p \in 0..(n - 1) /\ q \in 0..(n - 1) /\ p # q
    BY Raid6ParityApart
  <1>2. D = (0..(n - 1)) \ {p, q}
    BY DEF raid6DataDisks
  <1>3. p = n - 1 - (row % n) /\ q = IF p = 0 THEN n - 1 ELSE p - 1
    BY DEF raid6PDisk, raid6QDisk
  <1> DEFINE x == p + n - 1
  <1>4. x % n = q
    <2>1. x \in Nat /\ x < 2 * n /\ (x = q \/ x = q + n) /\ n \in Nat \ {0}
      <3> HIDE DEF p, q
      <3> QED
        BY <1>1, <1>3
    <2> HIDE DEF x
    <2>2. x % n = IF x < n THEN x ELSE x - n
      BY <2>1, Remainder
    <2> HIDE DEF p, q
    <2> QED
      BY <1>1, <2>1, <2>2
  <1>5. \A d : slot(d) = Cardinality({c \in D : c < d})
    BY DEF slotOf
  <1>6. \A d \in D : Role6(d, row, n) = d - Cardinality({c \in {p, q} : c < d})
    <2> TAKE d \in D
    <2>1. d # p /\ d # q
      BY <1>2
    <2> HIDE DEF p, q
    <2>2. p = n - 1 - (row % n) /\ q = (p + n - 1) % n
      BY <1>3, <1>4
    <2> QED
      BY <2>1, <2>2 DEF Role6
  <1> HIDE DEF D, slot, p, q
  <1>7. \A d \in D : /\ slot(d) = SlotBy(d, p) /\ slot(d) \in 0..(n - 3)
                     /\ Role6(d, row, n) = slot(d)
    <2> TAKE d \in D
    <2>1. d \in 0..(n - 1) /\ d # p /\ d # q
      BY <1>2
    <2>2. {c \in D : c < d} = (0..(d - 1)) \ {p, q}
      BY <1>2, <2>1
    <2>3. /\ Cardinality({c \in {p, q} : c < d}) = (IF p < d THEN 1 ELSE 0) + (IF q < d THEN 1 ELSE 0)
          /\ Cardinality((0..(d - 1)) \ {p, q}) = (d - (IF p < d THEN 1 ELSE 0)) - (IF q < d THEN 1 ELSE 0)
      <3>1. p \in Nat /\ q \in Nat /\ p # q /\ d \in Nat
        BY <1>1, <2>1
      <3> QED
        BY <3>1, CountedWithout, ZenonT(30)
    <2>4. /\ slot(d) = (d - (IF p < d THEN 1 ELSE 0)) - (IF q < d THEN 1 ELSE 0)
          /\ Role6(d, row, n) = d - ((IF p < d THEN 1 ELSE 0) + (IF q < d THEN 1 ELSE 0))
      BY <1>5, <1>6, <2>2, <2>3
    <2> QED
      BY <1>1, <1>3, <2>1, <2>4 DEF SlotBy
  <1>8. ASSUME NEW b \in 0..(n - 3)
        PROVE  raid6DataDisk(row, b, n) \in D /\ slot(raid6DataDisk(row, b, n)) = b
    <2>1. \E d \in D : slot(d) = b
      <3> DEFINE e == IF p = 0 THEN b + 1 ELSE IF b < q THEN b ELSE b + 2
      <3>1. e \in D /\ SlotBy(e, p) = b
        BY <1>1, <1>2, <1>3 DEF SlotBy
      <3> QED
        BY <1>7, <3>1
    <2>2. raid6DataDisk(row, b, n) = CHOOSE d \in D : slot(d) = b
      BY DEF raid6DataDisk, D, slot
    <2> QED
      BY <2>1, <2>2
  <1> QED
    BY <1>1, <1>2, <1>7, <1>8 DEF p, q, D, slot

\* What the members of a RAID 6 store in a row whose sectors are at
Weights6(n) == [k \in 0..(n - 3) |-> k + 1]
RowStored6(a, row, off, at) ==
    /\ Stored(a, raid6PDisk(row, a.n), row * a.block + off) = RowParity(at, a.n - 2)
    /\ Stored(a, raid6QDisk(row, a.n), row * a.block + off) = {<<at[k], Weights6(a.n)[k]>> : k \in 0..(a.n - 3)}
    /\ \A d \in raid6DataDisks(row, a.n) :
         Stored(a, d, row * a.block + off) = Pure(at[slotOf(d, row, a.n)])

\* What the disks of RAID 6 store in a row: their own blocks, P their sum, Q their
\* weighed sum
LEMMA StoredInRow6 ==
    ASSUME NEW a \in Arrays, a.level = "RAID6", a.n - 2 <= Order, NEW row \in Nat, row < Rows(a),
           NEW off \in 0..(a.block - 1)
    PROVE  RowStored6(a, row, off, AtRow(row, a.n - 2, a.block, off))
  <1> DEFINE s == row * a.block + off
             m == a.n - 2
             at == AtRow(row, m, a.block, off)
             p == raid6PDisk(row, a.n)
             q == raid6QDisk(row, a.n)
             D == raid6DataDisks(row, a.n)
  <1>1. a.block \in Nat \ {0} /\ Rows(a) \in Nat /\ a.n \in Nat /\ a.n >= 4
    BY ArrayFacts
  <1>2. s \in Nat /\ s \div a.block = row /\ s % a.block = off
    BY <1>1, PlaceIn
  <1> HIDE DEF s
  <1>3. ~(row >= payload(a) \div a.block)
    BY <1>1 DEF Rows
  <1>4. m - 1 = a.n - 3 /\ \A k \in 0..(m - 1) : at[k] = (row * m + k) * a.block + off
    BY <1>1 DEF AtRow
  <1>5. ASSUME NEW d
        PROVE  /\ Role6(d, row, a.n) = ParityP => Stored(a, d, s) = {<<(row * m + k) * a.block + off, 1>> : k \in 0..(m - 1)}
               /\ Role6(d, row, a.n) = ParityQ => Stored(a, d, s) = {<<(row * m + k) * a.block + off, gfPow(k)>> : k \in 0..(m - 1)}
               /\ Role6(d, row, a.n) # ParityP /\ Role6(d, row, a.n) # ParityQ =>
                    Stored(a, d, s) = Pure((row * m + Role6(d, row, a.n)) * a.block + off)
    BY <1>2, <1>3 DEF Stored, ParityP, ParityQ
  <1>6. Role6(p, row, a.n) = ParityP /\ Role6(q, row, a.n) = ParityQ
    BY <1>1, Raid6ParityApart
  <1>7. \A d \in D : Role6(d, row, a.n) = slotOf(d, row, a.n) /\ slotOf(d, row, a.n) \in 0..(m - 1)
    BY <1>1, <1>4, Slots6
  <1>8. \A k \in 0..(m - 1) : gfPow(k) = Weights6(a.n)[k]
    <2> TAKE k \in 0..(m - 1)
    <2>1. k \in 0..2 /\ k \in 0..(a.n - 3)
      BY <1>1, <1>4 DEF Order
    <2> QED
      BY <2>1, FieldFacts DEF Weights6
  <1> HIDE DEF at, p, q, D, m
  <1>9. Stored(a, p, s) = RowParity(at, m)
    BY <1>4, <1>5, <1>6 DEF RowParity
  <1>10. Stored(a, q, s) = {<<at[k], Weights6(a.n)[k]>> : k \in 0..(m - 1)}
    <2>1. Stored(a, q, s) = {<<(row * m + k) * a.block + off, gfPow(k)>> : k \in 0..(m - 1)}
      BY <1>5, <1>6
    <2> QED
      BY <1>4, <1>8, <2>1
  <1>11. \A d \in D : Stored(a, d, s) = Pure(at[slotOf(d, row, a.n)])
    BY <1>4, <1>5, <1>7 DEF ParityP, ParityQ
  <1> QED
    BY <1>4, <1>9, <1>10, <1>11 DEF s, at, p, q, D, m, RowStored6

\* Q of a row and some of its blocks, each with its weight, leave the others.
IsScaledRow(v, at, w, m) == v = {<<at[k], w[k]>> : k \in 0..(m - 1)}

\* The weighed sum of a row, with the weighed blocks of some disks taken out,
\* leaves the weighed blocks of the others.
LEMMA ScaledParityLeaves ==
    ASSUME NEW m \in Nat, NEW at, Places(at, m), NEW w \in Weights(m), NEW T,
           NEW role, Slotted(T, role, m), NEW f, ScaledSlots(f, T, at, role, w),
           NEW K, SlotsLeft(K, T, role, m), NEW v, IsScaledRow(v, at, w, m)
    PROVE  Plus(v, Xor(f, T)) = Vec(Weighted(at, K, w))
  <1> DEFINE L == (0..(m - 1)) \ K
             all == Weighted(at, 0..(m - 1), w)
             some == Weighted(at, L, w)
             left == Weighted(at, K, w)
             sum == [l \in Nat |-> gfXor(all[l], some[l])]
  <1>1. K \subseteq 0..(m - 1) /\ L \subseteq 0..(m - 1)
    BY DEF SlotsLeft
  <1>2. SlotsTaken(L, T, role, m)
    BY DEF SlotsLeft, SlotsTaken
  <1> HIDE DEF L
  <1>3. Xor(f, T) = Vec(some)
    BY <1>2, WeightsAdd
  <1>4. WeighedBy(all, at, 0..(m - 1), w) /\ WeighedBy(some, at, L, w) /\ WeighedBy(left, at, K, w)
    BY <1>1, WeightedOf
  <1> HIDE DEF all, some, left
  <1>5. all \in Vectors /\ some \in Vectors /\ left \in Vectors /\ v = Vec(all)
    BY <1>4 DEF WeighedBy, IsScaledRow
  <1>6. Plus(v, Xor(f, T)) = Vec(sum) /\ sum \in Vectors
    BY <1>3, <1>5, PlusOf
  <1>7. ASSUME NEW l \in Nat PROVE sum[l] = left[l]
    <2>1. sum[l] = gfXor(all[l], some[l])
      OBVIOUS
    <2>2. CASE \A k \in 0..(m - 1) : at[k] # l
      <3>1. all[l] = 0 /\ some[l] = 0 /\ left[l] = 0
        BY <1>1, <1>4, <2>2 DEF WeighedBy
      <3> QED
        BY <2>1, <3>1, FieldFacts DEF Field
    <2>3. ASSUME NEW k \in 0..(m - 1), at[k] = l PROVE sum[l] = left[l]
      <3>1. all[l] = w[k] /\ w[k] \in Field
        BY <1>4, <2>3 DEF WeighedBy, Weights, Field
      <3>2. CASE k \in K
        <4>1. \A j \in L : at[j] # l
          BY <1>1, <2>3, <3>2 DEF Places, L
        <4>2. some[l] = 0 /\ left[l] = w[k]
          BY <1>4, <2>3, <3>2, <4>1 DEF WeighedBy
        <4> QED
          BY <2>1, <3>1, <4>2, FieldFacts
      <3>3. CASE k \notin K
        <4>1. \A j \in K : at[j] # l
          BY <1>1, <2>3, <3>3 DEF Places
        <4>2. k \in L
          BY <3>3 DEF L
        <4>3. some[l] = w[k] /\ left[l] = 0
          BY <1>4, <2>3, <4>1, <4>2 DEF WeighedBy
        <4> QED
          BY <2>1, <3>1, <4>3, FieldFacts
      <3> QED
        BY <3>2, <3>3
    <2> QED
      BY <2>2, <2>3
  <1> HIDE DEF sum
  <1>8. Vec(sum) = Vec(left)
    BY <1>5, <1>6, <1>7, VecEqual
  <1> QED
    BY <1>6, <1>8 DEF left

\* One or two weighted sectors, as pairs
LEMMA LeftOver ==
    ASSUME NEW m \in Nat, NEW at, Places(at, m), NEW w \in Weights(m),
           NEW b \in 0..(m - 1), NEW e \in 0..(m - 1)
    PROVE  /\ Vec(Weighted(at, {b}, w)) = {<<at[b], w[b]>>}
           /\ IsPair(Vec(Weighted(at, {b, e}, w)), at[b], w[b], at[e], w[e])
  <1>1. {b} \subseteq 0..(m - 1) /\ {b, e} \subseteq 0..(m - 1)
    OBVIOUS
  <1>2. WeighedBy(Weighted(at, {b}, w), at, {b}, w) /\ WeighedBy(Weighted(at, {b, e}, w), at, {b, e}, w)
    BY <1>1, WeightedOf
  <1>3. {<<at[k], w[k]>> : k \in {b, e}} = {<<at[b], w[b]>>, <<at[e], w[e]>>}
    OBVIOUS
  <1>4. {<<at[k], w[k]>> : k \in {b}} = {<<at[b], w[b]>>}
    OBVIOUS
  <1> QED
    BY <1>2, <1>3, <1>4 DEF WeighedBy, IsPair

\* What can be read whole can be read in part.
LEMMA PartOk ==
    ASSUME NEW d, NEW row \in Nat, NEW from, NEW len, array \in Arrays, d \in Disks,
           from \in Nat, len \in Nat, from + len <= array.block, MemberOk(d, row * array.block, array.block)
    PROVE  MemberOk(d, row * array.block + from, len)
  <1> DEFINE o == row * array.block
             b == array.base[d]
  <1>1. array.block \in Nat /\ b \in Nat /\ array.size[d] \in Nat
    BY ArrayFacts DEF Disks
  <1>2. o \in Nat
    BY <1>1
  <1>3. /\ (b + o) + array.block <= array.size[d]
        /\ \A s \in (b + o)..(((b + o) + array.block) - 1) : <<d, s>> \notin bad
    BY <1>1, <1>2 DEF MemberOk
  <1> HIDE DEF o, b
  <1>4. /\ (b + (o + from)) + len <= array.size[d]
        /\ \A s \in (b + (o + from))..(b + (o + from) + len - 1) : <<d, s>> \notin bad
    <2> DEFINE size == array.size[d]
               block == array.block
    <2>1. size \in Nat /\ block \in Nat /\ from + len <= block
      BY <1>1
    <2>2. (b + o) + block <= size /\ \A s \in (b + o)..(((b + o) + block) - 1) : <<d, s>> \notin bad
      BY <1>3
    <2> HIDE DEF size, block
    <2>3. \A s \in (b + (o + from))..(((b + (o + from)) + len) - 1) : s \in (b + o)..(((b + o) + block) - 1)
      BY <1>1, <1>2, <2>1
    <2>4. (b + (o + from)) + len <= size
      BY <1>1, <1>2, <2>1, <2>2
    <2>5. \A s \in (b + (o + from))..(((b + (o + from)) + len) - 1) : <<d, s>> \notin bad
      <3> DEFINE wide == (b + o)..(((b + o) + block) - 1)
                 part == (b + (o + from))..(((b + (o + from)) + len) - 1)
      <3>1. (\A s \in wide : <<d, s>> \notin bad) /\ (\A s \in part : s \in wide)
        BY <2>2, <2>3
      <3> HIDE DEF wide, part
      <3>2. \A s \in part : <<d, s>> \notin bad
        BY <3>1
      <3> QED
        BY <3>2 DEF part
    <2>6. (b + (o + from)) + len - 1 = ((b + (o + from)) + len) - 1
      BY <1>1, <1>2
    <2> QED
      BY <2>4, <2>5, <2>6 DEF size
  <1> QED
    BY <1>4 DEF MemberOk, o, b

\* What is left of P and of Q of a row without the blocks of the disks in T
PLeft(T, row, off) ==
    LET all == T \cup {raid6PDisk(row, array.n)}
    IN  Xor([d \in all |-> Stored(array, d, row * array.block + off)], all)
QLeft(T, row, off) ==
    Plus(Stored(array, raid6QDisk(row, array.n), row * array.block + off),
         Xor([d \in T |-> Scale(Stored(array, d, row * array.block + off), gfPow(slotOf(d, row, array.n)))], T))
SlotsOf(F, row) == {slotOf(d, row, array.n) : d \in F}

\* P and Q of a row, with the blocks that can be read taken out, leave those that
\* cannot.
LEMMA SumsOfRow ==
    ASSUME array \in Arrays, array.level = "RAID6", array.n - 2 <= Order,
           NEW row \in Nat, row < Rows(array), NEW off \in 0..(array.block - 1),
           NEW F \in SUBSET raid6DataDisks(row, array.n),
           NEW at, at = AtRow(row, array.n - 2, array.block, off)
    PROVE  /\ PLeft(raid6DataDisks(row, array.n) \ F, row, off) =
                Vec(Weighted(at, SlotsOf(F, row), Ones(array.n - 2)))
           /\ QLeft(raid6DataDisks(row, array.n) \ F, row, off) =
                Vec(Weighted(at, SlotsOf(F, row), Weights6(array.n)))
           /\ Places(at, array.n - 2) /\ Weights6(array.n) \in Weights(array.n - 2)
  <1> DEFINE n == array.n
             m == n - 2
             D == raid6DataDisks(row, n)
             T == D \ F
             p == raid6PDisk(row, n)
             q == raid6QDisk(row, n)
             slot(d) == slotOf(d, row, n)
             val(d) == Stored(array, d, row * array.block + off)
             w == Weights6(n)
             role == [d \in T |-> slot(d)]
             K == SlotsOf(F, row)
             f == [d \in T \cup {p} |-> val(d)]
             g == [d \in T |-> Scale(val(d), gfPow(slot(d)))]
  <1>1. n \in Nat /\ n >= 4 /\ n <= 5 /\ array.block \in Nat \ {0} /\ m \in Nat
    BY ArrayFacts DEF Order
  <1>2. /\ p \notin D /\ D \subseteq 0..(n - 1)
        /\ \A d \in D : slot(d) \in 0..(m - 1) /\ slot(d) = SlotBy(d, p) /\ d # p /\ d # q
        /\ \A b \in 0..(m - 1) : raid6DataDisk(row, b, n) \in D /\ slot(raid6DataDisk(row, b, n)) = b
        /\ p \in 0..(n - 1) /\ q = IF p = 0 THEN n - 1 ELSE p - 1
    <2>1. m - 1 = n - 3
      BY <1>1
    <2>2. /\ p \in 0..(n - 1) /\ q \in 0..(n - 1) /\ p # q /\ D = (0..(n - 1)) \ {p, q}
          /\ \A d \in D : slot(d) = SlotBy(d, p) /\ slot(d) \in 0..(n - 3)
          /\ \A b \in 0..(n - 3) : raid6DataDisk(row, b, n) \in D /\ slot(raid6DataDisk(row, b, n)) = b
      BY <1>1, Slots6
    <2> QED
      BY <2>1, <2>2 DEF raid6QDisk
  <1>3. \A c, d \in D : slot(c) = slot(d) => c = d
    <2> SUFFICES ASSUME NEW c \in D, NEW d \in D, slot(c) = slot(d) PROVE c = d
      OBVIOUS
    <2>1. SlotBy(c, p) = SlotBy(d, p) /\ c \in 0..(n - 1) /\ d \in 0..(n - 1)
          /\ c # p /\ d # p /\ c # q /\ d # q
      BY <1>2
    <2> HIDE DEF p, q
    <2> QED
      BY <1>1, <1>2, <2>1 DEF SlotBy
  <1>4. RowStored6(array, row, off, at)
    BY StoredInRow6
  <1>5. val(p) = RowParity(at, m) /\ IsScaledRow(val(q), at, w, m) /\ \A d \in D : val(d) = Pure(at[slot(d)])
    <2>1. array.n - 3 = m - 1
      BY <1>1
    <2> QED
      BY <1>4, <2>1 DEF RowStored6, IsScaledRow
  <1>6. w \in Weights(m) /\ \A k \in 0..(m - 1) : gfPow(k) = w[k] /\ w[k] \in 1..3
    <2>1. m - 1 = n - 3 /\ m - 1 <= 2
      BY <1>1
    <2>2. \A k \in 0..(m - 1) : k \in 0..2 /\ w[k] = k + 1 /\ k + 1 \in 1..3
      <3> TAKE k \in 0..(m - 1)
      <3>1. k \in 0..2 /\ k \in 0..(n - 3)
        BY <1>1, <2>1
      <3>2. w[k] = k + 1
        BY <3>1 DEF Weights6
      <3> QED
        BY <3>1, <3>2
    <2>3. w = [k \in 0..(m - 1) |-> w[k]]
      BY <2>1 DEF Weights6
    <2> HIDE DEF w, m
    <2> QED
      BY <2>2, <2>3, FieldFacts DEF Weights
  <1>7. Places(at, m)
    <2>1. at = AtRow(row, m, array.block, off)
      OBVIOUS
    <2> HIDE DEF m
    <2> QED
      BY <1>1, <2>1, AtRowPlaces
  <1>8. K = {slot(d) : d \in F}
    BY DEF SlotsOf
  <1>0. F \subseteq D
    OBVIOUS
  <1> HIDE DEF m, D, p, q, slot, val, w, K
  <1>9. Slotted(T, role, m)
    BY <1>2, <1>3 DEF Slotted
  <1>10. SlotsLeft(K, T, role, m)
    <2>1. K \subseteq 0..(m - 1)
      BY <1>0, <1>2, <1>8
    <2>2. ASSUME NEW k \in K PROVE \A d \in T : role[d] # k
      <3>1. PICK e \in F : slot(e) = k
        BY <1>8
      <3> QED
        BY <1>0, <1>3, <3>1
    <2>3. ASSUME NEW k \in 0..(m - 1), k \notin K PROVE \E d \in T : role[d] = k
      <3>1. PICK e \in D : slot(e) = k
        BY <1>2
      <3>2. e \notin F
        BY <1>8, <2>3, <3>1
      <3> QED
        BY <3>1, <3>2
    <2> QED
      BY <2>1, <2>2, <2>3 DEF SlotsLeft
  <1>11. f[p] = RowParity(at, m) /\ InSlots(f, T, at, role) /\ p \notin T
    BY <1>2, <1>5 DEF InSlots
  <1>12. ScaledSlots(g, T, at, role, w)
    <2> SUFFICES ASSUME NEW d \in T PROVE g[d] = {<<at[role[d]], w[role[d]]>>}
      BY DEF ScaledSlots
    <2>1. g[d] = Scale(val(d), gfPow(slot(d))) /\ role[d] = slot(d) /\ slot(d) \in 0..(m - 1)
      BY <1>2
    <2>2. val(d) = Pure(at[slot(d)]) /\ gfPow(slot(d)) = w[slot(d)] /\ gfMul(1, w[slot(d)]) = w[slot(d)]
      BY <1>5, <1>6, <2>1, FieldFacts
    <2>3. Scale(Pure(at[slot(d)]), w[slot(d)]) = {<<at[slot(d)], gfMul(1, w[slot(d)])>>}
      BY DEF Scale, Pure
    <2> QED
      BY <2>1, <2>2, <2>3
  <1> HIDE DEF T, role, f, g
  <1>13. Xor(f, T \cup {p}) = Vec(Weighted(at, K, Ones(m)))
    BY <1>1, <1>7, <1>9, <1>10, <1>11, ParityLeaves
  <1>14. Plus(val(q), Xor(g, T)) = Vec(Weighted(at, K, w))
    BY <1>1, <1>5, <1>6, <1>7, <1>9, <1>10, <1>12, ScaledParityLeaves
  <1>15. PLeft(T, row, off) = Xor(f, T \cup {p})
    BY DEF PLeft, f, p, val, n
  <1>16. QLeft(T, row, off) = Plus(val(q), Xor(g, T))
    BY DEF QLeft, g, q, val, slot, n
  <1> QED
    BY <1>6, <1>7, <1>13, <1>14, <1>15, <1>16 DEF T, D, K, m, w, n

\* One or two lost blocks of a row are solved for from what is left.
SolvedRight(data, e, row, off, pOk) ==
    Solved(data, [d \in {data, e} |-> gfPow(slotOf(d, row, array.n))],
           PLeft(raid6DataDisks(row, array.n) \ {data, e}, row, off),
           QLeft(raid6DataDisks(row, array.n) \ {data, e}, row, off), pOk)
      = Pure(AtRow(row, array.n - 2, array.block, off)[slotOf(data, row, array.n)])

\* Solving a row of RAID 6 for one or two lost blocks gives the lost block.
LEMMA SolvedOfRow ==
    ASSUME array \in Arrays, array.level = "RAID6", array.n - 2 <= Order,
           NEW row \in Nat, row < Rows(array), NEW off \in 0..(array.block - 1),
           NEW data \in raid6DataDisks(row, array.n), NEW e \in raid6DataDisks(row, array.n),
           NEW pOk \in BOOLEAN
    PROVE  SolvedRight(data, e, row, off, pOk)
  <1> DEFINE n == array.n
             m == n - 2
             D == raid6DataDisks(row, n)
             slot(d) == slotOf(d, row, n)
             F == {data, e}
             w == Weights6(n)
             ones == Ones(m)
             at == AtRow(row, m, array.block, off)
             weight == [d \in F |-> gfPow(slot(d))]
             pLeft == PLeft(D \ F, row, off)
             qLeft == QLeft(D \ F, row, off)
             K == SlotsOf(F, row)
  <1>1. n \in Nat /\ n >= 4 /\ n <= 5 /\ m \in Nat
    BY ArrayFacts DEF Order
  <1>2. /\ pLeft = Vec(Weighted(at, K, ones)) /\ qLeft = Vec(Weighted(at, K, w))
        /\ Places(at, m) /\ w \in Weights(m)
    BY SumsOfRow
  <1>3. K = {slot(data), slot(e)}
    BY DEF SlotsOf
  <1>4. m - 1 = n - 3
    BY <1>1
  <1>5. /\ \A d \in D : slot(d) \in 0..(m - 1) /\ slot(d) = SlotBy(d, raid6PDisk(row, n))
        /\ D = (0..(n - 1)) \ {raid6PDisk(row, n), raid6QDisk(row, n)}
        /\ raid6PDisk(row, n) \in 0..(n - 1)
    BY <1>1, <1>4, Slots6
  <1>6. data \in Int /\ e \in Int /\ (data # e => slot(data) # slot(e))
    <2> DEFINE p == raid6PDisk(row, n)
    <2>1. /\ data \in 0..(n - 1) /\ e \in 0..(n - 1) /\ p \in 0..(n - 1)
          /\ slot(data) = SlotBy(data, p) /\ slot(e) = SlotBy(e, p)
          /\ data # p /\ e # p
          /\ (p = 0 \/ (data # p - 1 /\ e # p - 1))
      BY <1>5 DEF raid6QDisk
    <2> HIDE DEF p, slot
    <2> QED
      BY <1>1, <2>1 DEF SlotBy
  <1>7. ones \in Weights(m) /\ \A k \in 0..(m - 1) : ones[k] = 1
    BY DEF Ones, Weights
  <1>8. \A k \in 0..(m - 1) : gfPow(k) = w[k] /\ w[k] = k + 1 /\ w[k] \in 1..3
    <2> TAKE k \in 0..(m - 1)
    <2>1. k \in 0..2 /\ k \in 0..(n - 3)
      BY <1>1, <1>4
    <2>2. w[k] = k + 1
      BY <2>1 DEF Weights6
    <2> QED
      BY <2>1, <2>2, FieldFacts
  <1>9. DOMAIN weight = F /\ \A d \in F : weight[d] = gfPow(slot(d))
    OBVIOUS
  <1>0. data \in D /\ e \in D
    OBVIOUS
  <1> HIDE DEF n, m, D, slot, w, ones, at, weight, pLeft, qLeft, K
  <1> DEFINE b == slot(data)
             c == slot(e)
  <1>10. b \in 0..(m - 1) /\ c \in 0..(m - 1) /\ (data # e => b # c)
    BY <1>0, <1>5, <1>6
  <1>11. /\ weight[data] = w[b] /\ weight[e] = w[c] /\ w[b] \in 1..3 /\ w[c] \in 1..3
         /\ (data # e => w[b] # w[c]) /\ ones[b] = 1 /\ ones[c] = 1
    BY <1>7, <1>8, <1>9, <1>10
  <1>12. at[b] \in Nat /\ at[c] \in Nat /\ (data # e => at[b] # at[c])
    BY <1>2, <1>10 DEF Places
  <1> HIDE DEF b, c
  <1>13. CASE data = e
    <2>1. K = {b} /\ DOMAIN weight = {data}
      BY <1>3, <1>9, <1>13 DEF b, c
    <2>2. pLeft = {<<at[b], ones[b]>>} /\ qLeft = {<<at[b], w[b]>>}
      BY <1>1, <1>2, <1>7, <1>10, <2>1, LeftOver
    <2>3. pLeft = {<<at[b], 1>>} /\ qLeft = {<<at[b], weight[data]>>} /\ weight[data] \in 1..3
      BY <1>11, <2>2
    <2>4. Solved(data, weight, pLeft, qLeft, pOk) = Pure(at[b])
      BY <1>12, <2>1, <2>3, OneGiven
    <2> QED
      BY <2>4 DEF n, m, D, F, slot, w, ones, at, weight, pLeft, qLeft, K, b, SolvedRight
  <1>14. CASE data # e
    <2>1. K = {b, c} /\ DOMAIN weight = {data, e}
      BY <1>3, <1>9 DEF b, c
    <2>2. IsPair(pLeft, at[b], ones[b], at[c], ones[c]) /\ IsPair(qLeft, at[b], w[b], at[c], w[c])
      BY <1>1, <1>2, <1>7, <1>10, <2>1, LeftOver
    <2>3. IsPair(pLeft, at[b], 1, at[c], 1) /\ IsPair(qLeft, at[b], weight[data], at[c], weight[e])
          /\ weight[data] \in 1..3 /\ weight[e] \in 1..3 /\ weight[data] # weight[e]
      BY <1>11, <1>14, <2>2
    <2>5. Weighs(weight, data, e)
      BY <2>1, <2>3 DEF Weighs
    <2>4. Solved(data, weight, pLeft, qLeft, pOk) = Pure(at[b])
      BY <1>6, <1>12, <1>14, <2>3, <2>5, TwoGiven
    <2> QED
      BY <2>4 DEF n, m, D, F, slot, w, ones, at, weight, pLeft, qLeft, K, b, SolvedRight
  <1> QED
    BY <1>13, <1>14

\* A set of one or two that has data in it
LEMMA OneOrTwo ==
    ASSUME NEW S, IsFiniteSet(S), NEW data \in S, Cardinality(S) \in {1, 2}
    PROVE  \E e \in S : S = {data, e} /\ (Cardinality(S) = 1 <=> e = data)
  <1>1. IsFiniteSet(S \ {data}) /\ Cardinality(S \ {data}) = Cardinality(S) - 1
    BY FS_RemoveElement
  <1>2. CASE Cardinality(S) = 1
    <2>1. S \ {data} = {}
      <3>1. Cardinality(S \ {data}) = 0
        BY <1>1, <1>2
      <3> QED
        BY <1>1, <3>1, FS_EmptySet
    <2> QED
      BY <1>2, <2>1
  <1>3. CASE Cardinality(S) = 2
    <2>1. Cardinality(S \ {data}) = 1
      BY <1>1, <1>3
    <2>2. PICK e : S \ {data} = {e}
      BY <1>1, <2>1, FS_Singleton
    <2>3. e \in S /\ e # data /\ S = {data, e}
      BY <2>2
    <2> QED
      BY <1>3, <2>3
  <1> QED
    BY <1>2, <1>3

\* The rebuilt block of a lost data disk, when no disk is marked on the way
LEMMA Raid6RebuiltIsTrue ==
    ASSUME NEW block, NEW from, NEW len, NEW now, InBlock(block, from, len),
           array.level = "RAID6", array.n - 2 <= Order,
           NEW stripe, stripe = block \div (array.n - 2), stripe \in Nat, stripe < Rows(array),
           NEW data, data = raid6DataDisk(stripe, block % (array.n - 2), array.n),
           data \in raid6DataDisks(stripe, array.n),
           slotOf(data, stripe, array.n) = block % (array.n - 2),
           ~Usable(now, data, stripe * array.block + from, len)
    PROVE  IsTrue(Raid6Rebuilt(block, from, len, now, now), block, from, len)
  <1> DEFINE n == array.n
             o == stripe * array.block
             D == raid6DataDisks(stripe, n)
             p == raid6PDisk(stripe, n)
             q == raid6QDisk(stripe, n)
             g(d) == gfPow(slotOf(d, stripe, n))
             failed == {d \in D : d \notin now \/ d = data}
             rest == (D \cap now) \ (IF Cardinality(failed) = 1 THEN failed ELSE {})
             restOk == \A d \in rest : MemberOk(d, o, array.block)
             value(d, i) == Member(d, o + from + i)
             pSum(i) == Xor([d \in rest \cup {p} |-> value(d, i)], rest \cup {p})
             qSum(i) == Plus(value(q, i), Xor([d \in rest |-> Scale(value(d, i), g(d))], rest))
             pOk == Usable(now, p, o, array.block)
             qOk == Usable(now, q, o, array.block)
             weight == [d \in failed |-> g(d)]
             r == Raid6Rebuilt(block, from, len, now, now)
  <1>1. r = IF restOk /\ (\/ Cardinality(failed) = 1 /\ (pOk \/ qOk)
                          \/ Cardinality(failed) = 2 /\ pOk /\ qOk)
            THEN Given([i \in 0..(len - 1) |-> Solved(data, weight, pSum(i), qSum(i), pOk)])
            ELSE Unread
    BY DEF Raid6Rebuilt
  <1>2. /\ array \in Arrays /\ n \in Nat /\ n >= 4 /\ n <= 5 /\ array.block \in Nat \ {0} /\ block \in Nat
        /\ from \in Nat /\ len \in Nat /\ from + len <= array.block
    BY ArrayFacts DEF InBlock, Order
  <1>3. D \subseteq Disks /\ Disks = 0..(n - 1) /\ IsFiniteSet(failed) /\ data \in failed
    <2>1. D \subseteq 0..(n - 1)
      BY DEF raid6DataDisks
    <2>2. IsFiniteSet(0..(n - 1))
      <3>1. 0 \in Int /\ n - 1 \in Int
        BY <1>2
      <3> QED
        BY <3>1, FS_Interval, Zenon
    <2>3. failed \in SUBSET (0..(n - 1))
      BY <2>1
    <2> HIDE DEF failed
    <2>4. IsFiniteSet(failed)
      BY <2>2, <2>3, FS_Subset
    <2> QED
      BY <2>1, <2>4 DEF Disks, failed
  <1> HIDE DEF r
  <1> SUFFICES ASSUME r.ok, NEW i \in 0..(len - 1) PROVE r.data[i] = Pure(block * array.block + (from + i))
    BY DEF IsTrue, r
  <1>4. /\ restOk /\ Cardinality(failed) \in {1, 2}
        /\ r.data[i] = Solved(data, weight, pSum(i), qSum(i), pOk)
    <2> HIDE DEF restOk, failed, pOk, qOk, weight, pSum, qSum
    <2> QED
      BY <1>1 DEF Unread, Given
  <1>5. PICK e \in failed : failed = {data, e} /\ (Cardinality(failed) = 1 <=> e = data)
    <2> HIDE DEF failed
    <2> QED
      BY <1>3, <1>4, OneOrTwo
  <1>6. rest = D \ failed
    <2>1. CASE Cardinality(failed) = 1
      <3>1. \A d \in D : d \in now \/ d \in failed
        OBVIOUS
      <3> QED
        BY <2>1, <3>1
    <2>2. CASE Cardinality(failed) # 1
      <3>1. rest = D \cap now
        BY <2>2
      <3>2. data \notin now
        <4> SUFFICES ASSUME data \in now PROVE FALSE
          OBVIOUS
        <4>1. MemberOk(data, o, array.block)
          BY <1>4, <3>1
        <4>2. MemberOk(data, o + from, len)
          BY <1>2, <1>3, <4>1, PartOk
        <4> QED
          BY <4>2 DEF Usable
      <3>3. \A d \in D : d \in failed <=> d \notin now
        BY <3>2
      <3> HIDE DEF rest, failed
      <3> QED
        BY <3>1, <3>3
    <2> QED
      BY <2>1, <2>2
  <1> DEFINE off == from + i
             at == AtRow(stripe, n - 2, array.block, off)
  <1>7. off \in 0..(array.block - 1) /\ o \in Nat /\ o + from + i = o + off
    <2>1. o \in Nat
      BY <1>2
    <2> HIDE DEF o
    <2> QED
      BY <1>2, <2>1
  <1>8. pSum(i) = PLeft(D \ failed, stripe, off) /\ qSum(i) = QLeft(D \ failed, stripe, off)
    <2>1. \A d : value(d, i) = Stored(array, d, stripe * array.block + off)
      BY <1>7 DEF Member
    <2> HIDE DEF value, rest, failed, off, D
    <2>2. pSum(i) = PLeft(D \ failed, stripe, off)
      BY <1>6, <2>1 DEF PLeft
    <2>3. qSum(i) = QLeft(D \ failed, stripe, off)
      BY <1>6, <2>1 DEF QLeft
    <2> QED
      BY <2>2, <2>3
  <1>9. pOk \in BOOLEAN
    BY DEF Usable, MemberOk
  <1>10. e \in D /\ data \in D
    BY <1>5
  <1>11. Solved(data, weight, PLeft(D \ failed, stripe, off), QLeft(D \ failed, stripe, off), pOk)
           = Pure(at[slotOf(data, stripe, n)])
    <2>1. Solved(data, [d \in {data, e} |-> g(d)], PLeft(D \ {data, e}, stripe, off),
                 QLeft(D \ {data, e}, stripe, off), pOk) = Pure(at[slotOf(data, stripe, n)])
      <3> HIDE DEF failed, pOk, off
      <3>1. SolvedRight(data, e, stripe, off, pOk)
        BY <1>2, <1>7, <1>9, <1>10, SolvedOfRow
      <3> QED
        BY <3>1 DEF SolvedRight
    <2> HIDE DEF failed, pOk, off, at, g
    <2> QED
      BY <1>5, <2>1
  <1>12. at[slotOf(data, stripe, n)] = block * array.block + off
    <2> DEFINE m == n - 2
               b == block % m
    <2>1. m \in Nat \ {0}
      BY <1>2
    <2>2. stripe = block \div m /\ slotOf(data, stripe, n) = b
      OBVIOUS
    <2> HIDE DEF m
    <2>3. b \in 0..(m - 1) /\ block = (block \div m) * m + b
      BY <1>2, <2>1, Blocks
    <2>4. at[b] = (stripe * m + b) * array.block + off
      BY <2>3 DEF AtRow, m
    <2> QED
      BY <2>2, <2>3, <2>4
  <1> QED
    BY <1>4, <1>8, <1>11, <1>12

\* A piece of RAID 6 is the array's, read or rebuilt, when the same disks are active
\* from its start to its end.
LEMMA Raid6IsTrue ==
    ASSUME NEW block, NEW from, NEW len, NEW now, InBlock(block, from, len),
           array.level = "RAID6", array.n - 2 <= Order
    PROVE  IsTrue(Raid6Piece(block, from, len, now, now), block, from, len)
  <1> DEFINE n == array.n
             m == n - 2
             stripe == block \div m
             b == block % m
             data == raid6DataDisk(stripe, b, n)
             D == raid6DataDisks(stripe, n)
  <1>1. /\ n \in Nat /\ n >= 4 /\ Rows(array) \in Nat /\ block \in Nat /\ array \in Arrays
        /\ array.block \in Nat \ {0} /\ m \in Nat \ {0}
    BY ArrayFacts DEF InBlock
  <1>2. block < Rows(array) * m
    BY <1>1 DEF InBlock, BlockCount, PerRow
  <1>3. stripe \in Nat /\ b \in 0..(m - 1) /\ block = stripe * m + b /\ stripe < Rows(array)
    <2> HIDE DEF m
    <2> QED
      BY <1>1, <1>2, Blocks
  <1>4. b \in 0..(n - 3)
    BY <1>1, <1>3
  <1>5. data \in D /\ slotOf(data, stripe, n) = b
    <2> HIDE DEF stripe, b
    <2>1. \A k \in 0..(n - 3) : /\ raid6DataDisk(stripe, k, n) \in raid6DataDisks(stripe, n)
                               /\ slotOf(raid6DataDisk(stripe, k, n), stripe, n) = k
      BY <1>1, <1>3, Slots6
    <2> QED
      BY <1>4, <2>1
  <1>6. ASSUME NEW off \in 0..(array.block - 1)
        PROVE  Stored(array, data, stripe * array.block + off) = Pure(block * array.block + off)
    <2> DEFINE at == AtRow(stripe, m, array.block, off)
    <2>1. RowStored6(array, stripe, off, at)
      <3> HIDE DEF stripe
      <3> QED
        BY <1>1, <1>3, StoredInRow6
    <2>2. Stored(array, data, stripe * array.block + off) = Pure(at[b])
      <3> HIDE DEF data, stripe, b, at
      <3> QED
        BY <1>5, <2>1 DEF RowStored6
    <2>3. at[b] = (stripe * m + b) * array.block + off
      BY <1>3 DEF AtRow
    <2> QED
      BY <1>3, <2>2, <2>3
  <1> HIDE DEF stripe, b, data, D
  <1>7. IsTrue(Direct(data, stripe * array.block + from, len), block, from, len)
    BY <1>1, <1>3, <1>6, DirectIsTrue
  <1>8. ~Usable(now, data, stripe * array.block + from, len) =>
          IsTrue(Raid6Rebuilt(block, from, len, now, now), block, from, len)
    BY <1>3, <1>5, Raid6RebuiltIsTrue DEF stripe, b, data, D
  <1> QED
    BY <1>7, <1>8 DEF Raid6Piece, stripe, b, data

\* What the levels can be held to here: as many data disks as the field tells
\* apart, and no half block at the end of a RAID 1E.
Sound(a) ==
    /\ a.level = "RAID6" => a.n - 2 <= Order
    /\ a.level = "RAID1E" => (Rows(a) * a.n) % 2 = 0

\* A piece of a block is the array's, at every level that stripes.
LEMMA PieceIsTrue ==
    ASSUME NEW block, NEW from, NEW len, NEW now, NEW later, InBlock(block, from, len), Sound(array),
           array.level = "RAID6" => later = now
    PROVE  IsTrue(Piece(block, from, len, now, later), block, from, len)
  <1>1. array.level \in Striping
    BY DEF InBlock
  <1>2. CASE array.level = "RAID0"
    <2>1. IsTrue(Raid0Piece(block, from, len, now), block, from, len)
      BY <1>2, Raid0IsTrue
    <2> QED
      BY <1>2, <2>1 DEF Piece
  <1>3. CASE array.level = "RAID5"
    <2>1. IsTrue(Raid5Piece(block, from, len, now, later), block, from, len)
      BY <1>3, Raid5IsTrue
    <2> QED
      BY <1>3, <2>1 DEF Piece
  <1>4. CASE array.level = "RAID6"
    <2>1. IsTrue(Raid6Piece(block, from, len, now, later), block, from, len)
      BY <1>4, Raid6IsTrue DEF Sound
    <2> QED
      BY <1>4, <2>1 DEF Piece
  <1>5. CASE array.level = "RAID10"
    <2>1. IsTrue(Raid10Piece(block, from, len, now), block, from, len)
      BY <1>5, Raid10IsTrue
    <2> QED
      BY <1>5, <2>1 DEF Piece
  <1>6. CASE array.level = "RAID1E"
    <2>1. IsTrue(Raid1ePiece(block, from, len, now), block, from, len)
      BY <1>6, Raid1eIsTrue
    <2> QED
      BY <1>6, <2>1 DEF Piece
  <1> QED
    BY <1>1, <1>2, <1>3, <1>4, <1>5, <1>6 DEF Striping

\* The array ends with its last block.
LEMMA CapacityIsBlocks ==
    ASSUME NEW a \in Arrays, a.level \in Striping, Sound(a)
    PROVE  BlockCount(a) \in Nat /\ capacity(a) = BlockCount(a) * a.block
  <1> DEFINE r == Rows(a)
             n == a.n
             s == a.block
  <1>1. r \in Nat /\ n \in Nat /\ n >= 2 /\ s \in Nat
        /\ (a.level = "RAID5" => n >= 3) /\ (a.level = "RAID6" => n >= 4)
        /\ (a.level = "RAID10" => n % 2 = 0)
    BY ArrayFacts
  <1>2. /\ a.level = "RAID0"  => capacity(a) = (r * s) * n
        /\ a.level = "RAID5"  => capacity(a) = (r * s) * (n - 1)
        /\ a.level = "RAID6"  => capacity(a) = (r * s) * (n - 2)
        /\ a.level = "RAID10" => capacity(a) = (r * s) * (n \div 2)
        /\ a.level = "RAID1E" => capacity(a) = ((r * s) * n) \div 2
    BY DEF capacity, Rows
  <1>3. /\ a.level = "RAID0"  => BlockCount(a) = r * n
        /\ a.level = "RAID5"  => BlockCount(a) = r * (n - 1)
        /\ a.level = "RAID6"  => BlockCount(a) = r * (n - 2)
        /\ a.level = "RAID10" => BlockCount(a) = r * (n \div 2)
        /\ a.level = "RAID1E" => BlockCount(a) = (r * n) \div 2 /\ (r * n) % 2 = 0
    BY DEF BlockCount, PerRow, Sound
  <1> HIDE DEF r, n, s
  <1>4. \A k \in Nat : r * k \in Nat /\ (r * s) * k = (r * k) * s
    BY <1>1
  <1>5. CASE a.level = "RAID1E"
    <2> DEFINE h == (r * n) \div 2
    <2>1. h \in Nat /\ r * n = 2 * h
      <3>1. r * n \in Nat
        BY <1>1
      <3> QED
        BY <1>3, <1>5, <3>1
    <2> HIDE DEF h
    <2>2. (r * s) * n = 2 * (h * s) /\ h * s \in Nat
      <3>1. (r * s) * n = (r * n) * s
        BY <1>1
      <3>2. (2 * h) * s = 2 * (h * s) /\ h * s \in Nat
        BY <1>1, <2>1
      <3> QED
        BY <2>1, <3>1, <3>2
    <2> DEFINE x == h * s
    <2>3. x \in Nat
      BY <2>2
    <2> HIDE DEF x
    <2>4. (2 * x) \div 2 = x
      BY <2>3
    <2>5. ((r * s) * n) \div 2 = h * s
      BY <2>2, <2>4 DEF x
    <2> QED
      BY <1>2, <1>3, <1>5, <2>1, <2>5 DEF h, s
  <1>6. CASE a.level = "RAID10"
    <2>1. n \div 2 \in Nat
      BY <1>1
    <2> QED
      BY <1>2, <1>3, <1>4, <1>6, <2>1 DEF s
  <1>7. CASE a.level = "RAID0"
    BY <1>1, <1>2, <1>3, <1>4, <1>7 DEF s
  <1>8. CASE a.level = "RAID5"
    <2>1. n - 1 \in Nat
      BY <1>1, <1>8
    <2> QED
      BY <1>2, <1>3, <1>4, <1>8, <2>1 DEF s
  <1>9. CASE a.level = "RAID6"
    <2>1. n - 2 \in Nat
      BY <1>1, <1>9
    <2> QED
      BY <1>2, <1>3, <1>4, <1>9, <2>1 DEF s
  <1> QED
    BY <1>5, <1>6, <1>7, <1>8, <1>9 DEF Striping

----------------------------------------------------------------------------
(* What a read gives                                                       *)

\* What a read gives is the array's.
RangeTrue(r, offset) == r.ok => \A i \in DOMAIN r.data : r.data[i] = Pure(offset + i)

\* The part of block b that a read from offset on takes
FirstOf(offset) == offset \div array.block
LastOf(offset, length) == (offset + length - 1) \div array.block
FromOf(b, offset) == IF b = FirstOf(offset) THEN offset % array.block ELSE 0
ToOf(b, offset, length) ==
    IF b = LastOf(offset, length) THEN ((offset + length) - 1) % array.block ELSE array.block - 1
LenOf(b, offset, length) == (ToOf(b, offset, length) - FromOf(b, offset)) + 1

\* The blocks a read touches, and the part it takes of each: all of it, but for what
\* lies before the first sector and after the last
LEMMA PiecesFit ==
    ASSUME array.block \in Nat \ {0}, NEW offset \in Nat, NEW length \in Nat \ {0}
    PROVE  /\ FirstOf(offset) \in Nat /\ LastOf(offset, length) \in Nat /\ FirstOf(offset) <= LastOf(offset, length)
           /\ FirstOf(offset) = offset \div array.block
           /\ LastOf(offset, length) = ((offset + length) - 1) \div array.block
           /\ offset % array.block \in 0..(array.block - 1)
           /\ ((offset + length) - 1) % array.block \in 0..(array.block - 1)
           /\ \A b \in FirstOf(offset)..LastOf(offset, length) :
                /\ b \in Nat /\ FromOf(b, offset) \in Nat /\ LenOf(b, offset, length) \in Nat \ {0}
                /\ FromOf(b, offset) + LenOf(b, offset, length) <= array.block
                /\ b # FirstOf(offset) => FromOf(b, offset) = 0
                /\ b = FirstOf(offset) => FromOf(b, offset) = offset % array.block
                /\ b # LastOf(offset, length) => FromOf(b, offset) + LenOf(b, offset, length) = array.block
                /\ b = LastOf(offset, length) =>
                     FromOf(b, offset) + LenOf(b, offset, length) = (((offset + length) - 1) % array.block) + 1
  <1> DEFINE s == array.block
             end == (offset + length) - 1
             first == FirstOf(offset)
             last == LastOf(offset, length)
             x == offset % s
             y == end % s
  <1>1. end \in Nat /\ offset <= end /\ s \in Nat \ {0}
    OBVIOUS
  <1>2. first = offset \div s /\ last = end \div s
    <2>1. offset + length - 1 = end
      OBVIOUS
    <2> QED
      BY <2>1 DEF FirstOf, LastOf
  <1>3. /\ first \in Nat /\ last \in Nat /\ first <= last
        /\ x \in 0..(s - 1) /\ y \in 0..(s - 1) /\ (first = last => x <= y)
    <2> HIDE DEF s, end, first, last
    <2> QED
      BY <1>1, <1>2, Blocks, BlocksInOrder
  <1>4. ASSUME NEW b \in first..last
        PROVE  /\ b \in Nat /\ FromOf(b, offset) \in Nat /\ LenOf(b, offset, length) \in Nat \ {0}
               /\ FromOf(b, offset) + LenOf(b, offset, length) <= s
               /\ b # first => FromOf(b, offset) = 0
               /\ b = first => FromOf(b, offset) = x
               /\ b # last => FromOf(b, offset) + LenOf(b, offset, length) = s
               /\ b = last => FromOf(b, offset) + LenOf(b, offset, length) = y + 1
    <2> DEFINE f == FromOf(b, offset)
               t == ToOf(b, offset, length)
               k == LenOf(b, offset, length)
    <2>1. /\ (b = first => f = x) /\ (b # first => f = 0)
          /\ (b = last => t = y) /\ (b # last => t = s - 1) /\ k = (t - f) + 1
      BY DEF FromOf, ToOf, LenOf
    <2> HIDE DEF first, last, x, y, f, t, k, s
    <2>2. f \in 0..(s - 1) /\ t \in 0..(s - 1) /\ f <= t
      BY <1>1, <1>3, <2>1
    <2>3. f \in Nat /\ k \in Nat \ {0} /\ f + k = t + 1 /\ f + k <= s
      BY <1>1, <2>1, <2>2
    <2>4. b \in Nat
      BY <1>3
    <2> QED
      BY <1>1, <2>1, <2>3, <2>4 DEF f, t, k
  <1> QED
    BY <1>2, <1>3, <1>4

\* A read over several blocks puts their pieces together to the array's sectors.
LEMMA StripedIsTrue ==
    ASSUME array \in Arrays, array.level \in Striping, Sound(array),
           NEW offset \in Nat, NEW length \in Nat \ {0}, offset + length <= capacity(array),
           NEW marked, array.level = "RAID6" => marked = {}, NEW at
    PROVE  RangeTrue(Striped(offset, length, marked, at), offset)
  <1> DEFINE s == array.block
             end == (offset + length) - 1
             first == FirstOf(offset)
             last == LastOf(offset, length)
             from(b) == FromOf(b, offset)
             len(b) == LenOf(b, offset, length)
             now(b) == IF b > at THEN diskActive \ marked ELSE diskActive
             later(b) == IF b >= at THEN diskActive \ marked ELSE diskActive
             pieces == [b \in first..last |-> Piece(b, from(b), len(b), now(b), later(b))]
  <1>1. s \in Nat \ {0} /\ BlockCount(array) \in Nat /\ capacity(array) = BlockCount(array) * s
    BY ArrayFacts, CapacityIsBlocks
  <1>2. end \in Nat /\ offset <= end /\ end < BlockCount(array) * s
    <2> DEFINE c == BlockCount(array) * s
    <2>1. c \in Nat /\ offset + length <= c
      BY <1>1
    <2> HIDE DEF c
    <2>2. end \in Nat /\ offset <= end /\ end < c
      BY <2>1
    <2> QED
      BY <2>2 DEF c
  <1>3. /\ first = offset \div s /\ last = end \div s /\ first \in Nat /\ last \in Nat /\ first <= last
        /\ last < BlockCount(array)
        /\ offset % s \in 0..(s - 1) /\ end % s \in 0..(s - 1)
    <2>1. first = offset \div s /\ last = end \div s
      BY <1>1, PiecesFit
    <2>2. /\ first \in Nat /\ last \in Nat /\ first <= last
          /\ offset % s \in 0..(s - 1) /\ end % s \in 0..(s - 1)
      BY <1>1, PiecesFit
    <2> HIDE DEF s, end, first, last
    <2>3. last < BlockCount(array)
      BY <1>1, <1>2, <2>1, Blocks
    <2> QED
      BY <2>1, <2>2, <2>3
  <1>4. ASSUME NEW b \in first..last
        PROVE  /\ from(b) \in Nat /\ len(b) \in Nat \ {0} /\ from(b) + len(b) <= s
               /\ b \in Nat /\ b < BlockCount(array)
               /\ (b # first => from(b) = 0) /\ (b # last => from(b) + len(b) = s)
               /\ (b = first => from(b) = offset % s) /\ (b = last => from(b) + len(b) = (end % s) + 1)
    <2>1. /\ from(b) \in Nat /\ len(b) \in Nat \ {0} /\ from(b) + len(b) <= s /\ b \in Nat
          /\ (b # first => from(b) = 0) /\ (b # last => from(b) + len(b) = s)
          /\ (b = first => from(b) = offset % s) /\ (b = last => from(b) + len(b) = (end % s) + 1)
      BY <1>1, PiecesFit
    <2> HIDE DEF first, last, from, len, s, end
    <2>2. b < BlockCount(array)
      BY <1>1, <1>3, <2>1
    <2> QED
      BY <2>1, <2>2
  <1>5. ASSUME NEW b \in first..last PROVE IsTrue(pieces[b], b, from(b), len(b))
    <2>1. InBlock(b, from(b), len(b))
      <3> HIDE DEF first, last, from, len
      <3> QED
        BY <1>4 DEF InBlock
    <2>2. array.level = "RAID6" => later(b) = now(b)
      OBVIOUS
    <2> HIDE DEF from, len, now, later, first, last
    <2>3. IsTrue(Piece(b, from(b), len(b), now(b), later(b)), b, from(b), len(b))
      BY <2>1, <2>2, PieceIsTrue
    <2> QED
      BY <2>3
  <1> DEFINE data == [i \in 0..(length - 1) |->
                        pieces[(offset + i) \div s].data[((offset + i) % s) - from((offset + i) \div s)]]
             r == Striped(offset, length, marked, at)
  <1>6. r = IF \A b \in first..last : pieces[b].ok THEN Given(data) ELSE Unread
    <2>1. (offset + length) - 1 = offset + length - 1
      OBVIOUS
    <2>2. DOMAIN pieces = first..last
      OBVIOUS
    <2>3. r = Joined(pieces, offset, length)
      BY <2>1 DEF Striped, FirstOf, LastOf, FromOf, ToOf, LenOf
    <2>4. Joined(pieces, offset, length) = IF \A b \in DOMAIN pieces : pieces[b].ok THEN Given(data) ELSE Unread
      <3> HIDE DEF pieces
      <3> QED
        BY DEF Joined, FirstOf, FromOf
    <2> HIDE DEF pieces, data, r, first, last
    <2> QED
      BY <2>2, <2>3, <2>4
  <1>7. ASSUME \A b \in first..last : pieces[b].ok, NEW i \in 0..(length - 1)
        PROVE  data[i] = Pure(offset + i)
    <2> DEFINE l == offset + i
               b == l \div s
               y == l % s
    <2>1. l \in Nat /\ offset <= l /\ l <= end
      OBVIOUS
    <2>2. /\ b \in first..last /\ y \in 0..(s - 1) /\ l = b * s + y
          /\ (b = first => offset % s <= y) /\ (b = last => y <= end % s)
      <3>1. b \in Nat /\ y \in 0..(s - 1) /\ l = b * s + y
        <4> HIDE DEF l, s
        <4> QED
          BY <1>1, <2>1, Blocks
      <3>2. first <= b /\ (first = b => offset % s <= y)
        <4> HIDE DEF l, s
        <4> QED
          BY <1>1, <1>3, <2>1, BlocksInOrder
      <3>3. b <= last /\ (b = last => y <= end % s)
        <4> HIDE DEF l, s, end
        <4> QED
          BY <1>1, <1>2, <1>3, <2>1, BlocksInOrder
      <3> HIDE DEF b, y, first, last, s, l, end
      <3> QED
        BY <1>3, <3>1, <3>2, <3>3
    <2> DEFINE f == from(b)
               k == len(b)
    <2>3. data[i] = pieces[b].data[y - f]
      OBVIOUS
    <2>4. /\ f \in Nat /\ k \in Nat /\ f + k <= s
          /\ (b # first => f = 0) /\ (b # last => f + k = s)
          /\ (b = first => f = offset % s) /\ (b = last => f + k = (end % s) + 1)
      <3> HIDE DEF b, from, len, first, last, end
      <3> QED
        BY <1>4, <2>2
    <2>5. IsTrue(pieces[b], b, f, k) /\ pieces[b].ok
      <3> HIDE DEF pieces, from, len, b, first, last
      <3> QED
        BY <1>5, <1>7, <2>2
    <2> HIDE DEF pieces, data, f, k, b, y, first, last, s, end, l
    <2>6. y - f \in 0..(k - 1) /\ f + (y - f) = y
      BY <1>1, <1>3, <2>2, <2>4
    <2>7. pieces[b].data[y - f] = Pure(b * array.block + (f + (y - f)))
      BY <2>5, <2>6 DEF IsTrue
    <2>8. data[i] = Pure(l)
      BY <2>2, <2>3, <2>6, <2>7 DEF s
    <2> QED
      BY <2>8 DEF l
  <1>8. DOMAIN data = 0..(length - 1)
    OBVIOUS
  <1> HIDE DEF data, pieces, r, first, last
  <1> QED
    BY <1>6, <1>7, <1>8 DEF RangeTrue, Given, Unread, r

\* A read of a mirror is the array's, from whichever disk gives it.
LEMMA MirroredIsTrue ==
    ASSUME array \in Arrays, array.level = "RAID1", NEW offset \in Nat, NEW length \in Nat \ {0},
           offset + length <= capacity(array)
    PROVE  RangeTrue(Mirrored(offset, length), offset)
  <1>1. capacity(array) = payload(array)
    BY DEF capacity
  <1>2. payload(array) \in Nat
    BY ArrayFacts
  <1>3. ASSUME NEW d
        PROVE  RangeTrue(Direct(d, offset, length), offset)
    <2>1. DOMAIN Direct(d, offset, length).data = 0..(length - 1)
      BY DEF Direct, Given
    <2>2. \A i \in 0..(length - 1) : Direct(d, offset, length).data[i] = Stored(array, d, offset + i)
      BY DEF Direct, Given, Member
    <2>3. ASSUME NEW i \in 0..(length - 1) PROVE Stored(array, d, offset + i) = Pure(offset + i)
      <3>1. offset + i < payload(array)
        BY <1>1, <1>2
      <3> QED
        BY <3>1 DEF Stored
    <2> QED
      BY <2>1, <2>2, <2>3 DEF RangeTrue
  <1>4. RangeTrue(Unread, offset)
    BY DEF RangeTrue, Unread
  <1> QED
    BY <1>3, <1>4 DEF Mirrored

\* The members' extents add up one after the other.
LEMMA ExtentsAreNumbers ==
    ASSUME NEW a \in Arrays
    PROVE  /\ extentsBefore(a) \in [0..a.n -> Nat] /\ extentsBefore(a)[0] = 0
           /\ \A d \in 0..(a.n - 1) : extentsBefore(a)[d + 1] = extentsBefore(a)[d] + memberExtent(a, d)
  <1> DEFINE n == a.n
             extent == [d \in 0..(n - 1) |-> memberExtent(a, d)]
             step == [x \in (1..n) \X Nat |-> x[2] + extent[x[1] - 1]]
             before == extentsBefore(a)
  <1>1. n \in Nat /\ extent \in [0..(n - 1) -> Nat] /\ \A d \in 0..(n - 1) : extent[d] = memberExtent(a, d)
    BY ArrayFacts
  <1> HIDE DEF n, extent
  <1>2. \A k \in 1..n : k - 1 \in 0..(n - 1) /\ extent[k - 1] \in Nat
    BY <1>1
  <1>3. step \in [(1..n) \X Nat -> Nat] /\ \A k \in 1..n, m \in Nat : step[<<k, m>>] = m + extent[k - 1]
    BY <1>2
  <1> HIDE DEF step
  <1>4. PICK f \in [0..n -> Nat] : f[0] = 0 /\ \A k \in 1..n : f[k] = step[<<k, f[k - 1]>>]
    <2>1. StepOn(n, Nat, 0, step)
      BY <1>1, <1>3 DEF StepOn
    <2>2. PICK f : Recursive(f, n, Nat, 0, step)
      BY <1>1, <2>1, Recursion
    <2> QED
      BY <2>2 DEF Recursive
  <1>5. f = [k \in 0..n |-> IF k = 0 THEN 0 ELSE f[k - 1] + memberExtent(a, k - 1)]
    <2>1. ASSUME NEW k \in 0..n, k # 0 PROVE f[k] = f[k - 1] + memberExtent(a, k - 1)
      <3>1. k \in 1..n /\ k - 1 \in 0..n
        BY <1>1, <2>1
      <3> QED
        BY <1>1, <1>2, <1>3, <1>4, <3>1
    <2> QED
      BY <1>4, <2>1
  <1>6. before = [k \in 0..n |-> IF k = 0 THEN 0 ELSE before[k - 1] + memberExtent(a, k - 1)]
    BY <1>5 DEF extentsBefore, n
  <1> HIDE DEF before
  <1>7. before[0] = 0 /\ \A k \in 1..n : before[k] = before[k - 1] + extent[k - 1]
    BY <1>1, <1>2, <1>6
  <1>8. \A k \in 0..n : before[k] \in Nat
    <2> DEFINE S == {k \in 0..n : before[k] \in Nat}
    <2>1. 0 \in S
      BY <1>1, <1>7
    <2>2. \A k \in 1..n : k - 1 \in S => k \in S
      BY <1>1, <1>2, <1>7
    <2> HIDE DEF S
    <2>3. 0..n \subseteq S
      BY <1>1, <2>1, <2>2, AllUpTo
    <2> QED
      BY <2>3 DEF S
  <1>9. before = [k \in 0..n |-> before[k]]
    BY <1>6
  <1>10. \A d \in 0..(n - 1) : before[d + 1] = before[d] + memberExtent(a, d)
    <2> TAKE d \in 0..(n - 1)
    <2>1. d + 1 \in 1..n /\ (d + 1) - 1 = d
      BY <1>1
    <2>2. before[d + 1] = before[(d + 1) - 1] + extent[(d + 1) - 1]
      BY <1>7, <2>1
    <2> QED
      BY <1>1, <2>1, <2>2
  <1> QED
    BY <1>7, <1>8, <1>9, <1>10 DEF n, before

\* A read of a concatenation is the array's, over the members' borders too.
LEMMA ConcatenatedIsTrue ==
    ASSUME array \in Arrays, array.level = "JBOD", diskActive \subseteq Disks,
           NEW offset \in Nat, NEW length \in Nat \ {0}
    PROVE  RangeTrue(Concatenated(offset, length), offset)
  <1> DEFINE before == extentsBefore(array)
             holder(l) == CHOOSE d \in Disks : before[d] <= l /\ l < before[d + 1]
             sector(l) == Member(holder(l), l - before[holder(l)])
             ok == \A l \in offset..(offset + length - 1) :
                     Usable(diskActive, holder(l), l - before[holder(l)], 1)
             data == [i \in 0..(length - 1) |-> sector(offset + i)]
             r == Concatenated(offset, length)
  <1>1. r = IF ok THEN Given(data) ELSE Unread
    BY DEF Concatenated
  <1>2. before \in [0..array.n -> Nat] /\ array.n \in Nat
    BY ExtentsAreNumbers, ArrayFacts
  <1>3. offset + length - 1 = (offset + length) - 1
    OBVIOUS
  <1>4. ASSUME ok, NEW i \in 0..(length - 1) PROVE data[i] = Pure(offset + i)
    <2> DEFINE l == offset + i
               d == holder(l)
    <2>1. l \in Nat /\ l \in offset..(offset + length - 1)
      BY <1>3
    <2>2. d \in Disks
      <3>1. Usable(diskActive, d, l - before[d], 1)
        BY <1>4, <2>1
      <3> QED
        BY <3>1 DEF Usable
    <2>3. data[i] = Stored(array, d, l - before[d])
      BY DEF Member
    <2> HIDE DEF d, l, before
    <2>4. before[d] \in Nat
      BY <1>2, <2>2 DEF Disks
    <2>5. before[d] + (l - before[d]) = l
      BY <2>1, <2>4
    <2>6. Stored(array, d, l - before[d]) = Pure(before[d] + (l - before[d]))
      BY DEF Stored, before
    <2> QED
      BY <2>3, <2>5, <2>6 DEF l
  <1>5. DOMAIN data = 0..(length - 1)
    OBVIOUS
  <1> HIDE DEF ok, data, r
  <1> QED
    BY <1>1, <1>4, <1>5 DEF RangeTrue, Given, Unread, r

\* What a read tells is true.
OutcomeTrue(o) == o.kind = "data" => \A i \in DOMAIN o.data : o.data[i] = Pure(o.offset + i)

\* Whatever is read, and whenever a disk is marked failed meanwhile, data given is
\* the array's.
LEMMA OutcomeIsTrue ==
    ASSUME array \in Arrays, Sound(array), diskActive \subseteq Disks,
           NEW offset \in Nat, NEW length \in Nat \ {0},
           NEW marked, array.level = "RAID6" => marked = {}, NEW at
    PROVE  OutcomeTrue(Outcome(offset, length, marked, at))
  <1> DEFINE r == Contents(offset, length, marked, at)
             o == Outcome(offset, length, marked, at)
  <1>1. CASE offset + length > capacity(array)
    <2>1. o.kind = "outOfRange"
      BY <1>1 DEF Outcome
    <2> QED
      BY <2>1 DEF OutcomeTrue
  <1>2. CASE ~(offset + length > capacity(array))
    <2>1. o.offset = offset /\ o.data = r.data /\ (o.kind = "data" => r.ok)
      BY <1>2 DEF Outcome
    <2>2. array.level \in Levels
      BY ArrayFacts
    <2>0. array.level # "JBOD" => offset + length <= capacity(array)
      <3>1. CASE array.level \in Striping
        <4>1. capacity(array) = BlockCount(array) * array.block /\ BlockCount(array) \in Nat /\ array.block \in Nat
          BY <3>1, CapacityIsBlocks, ArrayFacts
        <4>2. capacity(array) \in Nat
          BY <4>1
        <4> QED
          BY <1>2, <4>2
      <3>2. CASE array.level = "RAID1"
        <4>1. capacity(array) = payload(array) /\ payload(array) \in Nat
          BY <3>2, ArrayFacts DEF capacity
        <4> QED
          BY <1>2, <4>1
      <3> QED
        BY <2>2, <3>1, <3>2 DEF Levels, Striping
    <2>3. RangeTrue(r, offset)
      <3>1. CASE array.level = "JBOD"
        <4>1. r = Concatenated(offset, length)
          BY <3>1 DEF Contents
        <4> QED
          BY <3>1, <4>1, ConcatenatedIsTrue
      <3>2. CASE array.level = "RAID1"
        <4>1. r = Mirrored(offset, length)
          BY <3>2 DEF Contents
        <4> QED
          BY <2>0, <3>2, <4>1, MirroredIsTrue
      <3>3. CASE array.level \in Striping
        <4>1. r = Striped(offset, length, marked, at)
          BY <3>3 DEF Contents, Striping
        <4> QED
          BY <2>0, <3>3, <4>1, StripedIsTrue DEF Striping
      <3> QED
        BY <2>2, <3>1, <3>2, <3>3 DEF Levels, Striping
    <2> HIDE DEF r, o
    <2> QED
      BY <2>1, <2>3 DEF OutcomeTrue, RangeTrue, o
  <1> QED
    BY <1>1, <1>2

\* The set is one of those considered, and nothing was made of its disks.
RaidInvariant == array \in Arrays /\ diskActive \subseteq Disks /\ ReadsAreTrue

\* Whatever has failed, a read that gives data gives the array's: no other block,
\* no stale parity, no zeros.  Not for a disk of a RAID 6 set that is marked failed
\* during a read (virtual_raid.cpp:468: its block is then missing from the sum), nor
\* for a RAID 1E whose blocks are odd in number (:230: half a block of nothing at its
\* end).
THEOREM RaidReadsAreTrue ==
    ASSUME "RAID6" \notin MarkedDuring, \A a \in Arrays : Sound(a)
    PROVE  RaidSpec => []ReadsAreTrue
  <1>1. RaidInit => RaidInvariant
    BY DEF RaidInit, RaidInvariant, ReadsAreTrue, NoAnswer
  <1>2. RaidInvariant /\ [RaidNext]_raidVars => RaidInvariant'
    <2> SUFFICES ASSUME RaidInvariant, [RaidNext]_raidVars PROVE RaidInvariant'
      OBVIOUS
    <2>1. array \in Arrays /\ diskActive \subseteq Disks /\ Sound(array)
      BY DEF RaidInvariant
    <2>2. \A x \in Nat, y \in 1..MaxRead : \A at : OutcomeTrue(Outcome(x, y, {}, at))
      <3> SUFFICES ASSUME NEW x \in Nat, NEW y \in 1..MaxRead, NEW at PROVE OutcomeTrue(Outcome(x, y, {}, at))
        OBVIOUS
      <3>1. y \in Nat \ {0}
        BY RaidAssumption
      <3> QED
        BY <2>1, <3>1, OutcomeIsTrue
    <2>3. OutcomeTrue(answer') => ReadsAreTrue'
      BY DEF OutcomeTrue, ReadsAreTrue
    <2>4. array' = array /\ diskActive' \subseteq diskActive => array' \in Arrays /\ diskActive' \subseteq Disks'
      BY <2>1 DEF Disks
    <2>5. CASE Read
      <3>1. OutcomeTrue(answer')
        BY <2>2, <2>5 DEF Read
      <3> QED
        BY <2>3, <2>4, <2>5, <3>1 DEF Read, RaidInvariant
    <2>6. CASE ReadWhileMarked
      <3>1. PICK x \in 0..(capacity(array) - 1), y \in 1..MaxRead, d \in diskActive :
               diskActive' = diskActive \ {d} /\ \E at : answer' = Outcome(x, y, {d}, at)
        BY <2>6 DEF ReadWhileMarked
      <3>4. PICK at : answer' = Outcome(x, y, {d}, at)
        BY <3>1
      <3>2. x \in Nat /\ y \in Nat \ {0} /\ array.level # "RAID6"
        BY <2>6, RaidAssumption DEF ReadWhileMarked
      <3>3. OutcomeTrue(Outcome(x, y, {d}, at))
        BY <2>1, <3>2, OutcomeIsTrue
      <3> QED
        BY <2>3, <2>4, <2>6, <3>1, <3>3, <3>4 DEF ReadWhileMarked, RaidInvariant
    <2>7. CASE FailDisk
      <3>1. diskActive' \subseteq diskActive /\ array' = array /\ answer' = answer
        BY <2>7 DEF FailDisk
      <3> QED
        BY <2>4, <3>1 DEF RaidInvariant, ReadsAreTrue
    <2>8. CASE GoesBad
      <3>1. diskActive' = diskActive /\ array' = array /\ answer' = answer
        BY <2>8 DEF GoesBad
      <3> QED
        BY <2>4, <3>1 DEF RaidInvariant, ReadsAreTrue
    <2>9. CASE Answered
      <3>1. diskActive' = diskActive /\ array' = array /\ answer' = NoAnswer
        BY <2>9 DEF Answered
      <3> QED
        BY <2>4, <3>1 DEF RaidInvariant, ReadsAreTrue, NoAnswer
    <2>10. CASE UNCHANGED raidVars
      <3>1. diskActive' = diskActive /\ array' = array /\ answer' = answer
        BY <2>10 DEF raidVars
      <3> QED
        BY <2>4, <3>1 DEF RaidInvariant, ReadsAreTrue
    <2> QED
      BY <2>5, <2>6, <2>7, <2>8, <2>9, <2>10 DEF RaidNext
  <1>3. RaidInvariant => ReadsAreTrue
    BY DEF RaidInvariant
  <1> QED
    BY <1>1, <1>2, <1>3, PTL DEF RaidSpec

----------------------------------------------------------------------------
(* What a refused read has lost                                            *)

\* What is lost of a row when only active members are, and what a level
\* survives then: GoneInRow and Survivable, of these members
LostInRow(active, row) == {d \in Disks : ~Usable(active, d, row * array.block, array.block)}
Survived(active, block) ==
    LET n == array.n
    IN  CASE array.level = "RAID0" -> LostInRow(active, block \div n) = {}
          [] array.level = "RAID5" -> Cardinality(LostInRow(active, block \div (n - 1))) <= 1
          [] array.level = "RAID6" ->
               LET lost == LostInRow(active, block \div (n - 2))
               IN  Cardinality(lost) <= 1 \/ (lost = Disks \ active /\ Cardinality(lost) <= 2)
          [] array.level = "RAID10" ->
               LET pair == block % (n \div 2)
               IN  ~({2 * pair, 2 * pair + 1} \subseteq LostInRow(active, block \div (n \div 2)))
          [] array.level = "RAID1E" ->
               \E c \in {0, 1} : raid1eDisk(block, c, n) \notin LostInRow(active, raid1eRow(block, c, n))

\* A piece of a block, and the active members it sees as it goes
InPart(block, from, len) ==
    /\ array \in Arrays /\ array.level \in Striping
    /\ block \in Nat /\ from \in Nat /\ len \in Nat \ {0} /\ from + len <= array.block
Sees(active, now) == active \subseteq now /\ now \subseteq Disks

\* A member that does not give a part of its block has lost the block.
LEMMA PartLost ==
    ASSUME NEW block, NEW from, NEW len, InPart(block, from, len), NEW d \in Disks, NEW row \in Nat,
           NEW active, NEW now, Sees(active, now), ~Usable(now, d, row * array.block + from, len)
    PROVE  d \in LostInRow(active, row)
  <1>1. array \in Arrays /\ from \in Nat /\ len \in Nat /\ from + len <= array.block
    BY DEF InPart
  <1>2. MemberOk(d, row * array.block, array.block) => MemberOk(d, row * array.block + from, len)
    BY <1>1, PartOk
  <1> QED
    BY <1>2 DEF Usable, LostInRow, Sees

\* A member that does not give its block has lost it.
LEMMA WholeLost ==
    ASSUME NEW d \in Disks, NEW row, NEW active, NEW now, Sees(active, now),
           ~Usable(now, d, row * array.block, array.block)
    PROVE  d \in LostInRow(active, row)
  BY DEF Usable, LostInRow, Sees

\* Those who lost a row are members of the set, so a finite set of them.
LEMMA LostAreFew ==
    ASSUME array \in Arrays, NEW active, NEW row
    PROVE  IsFiniteSet(LostInRow(active, row)) /\ LostInRow(active, row) \subseteq Disks
  <1>1. array.n \in Nat
    BY ArrayFacts
  <1>2. IsFiniteSet(0..(array.n - 1))
    <2>1. 0 \in Int /\ array.n - 1 \in Int
      BY <1>1
    <2> QED
      BY <2>1, FS_Interval, Zenon
  <1>3. LostInRow(active, row) \in SUBSET (0..(array.n - 1))
    BY DEF LostInRow, Disks
  <1> QED
    BY <1>2, <1>3, FS_Subset DEF Disks

\* Two different members of a set make it larger than one.
LEMMA MoreThanOne ==
    ASSUME NEW S, IsFiniteSet(S), NEW c \in S, NEW d \in S, c # d
    PROVE  ~(Cardinality(S) <= 1)
  <1>1. Cardinality(S \ {c}) = Cardinality(S) - 1 /\ IsFiniteSet(S \ {c}) /\ Cardinality(S) \in Nat
    BY FS_RemoveElement, FS_CardinalityType
  <1>2. Cardinality(S \ {c}) # 0 /\ Cardinality(S \ {c}) \in Nat
    <2>1. S \ {c} # {}
      OBVIOUS
    <2> QED
      BY <1>1, <2>1, FS_EmptySet, FS_CardinalityType
  <1> QED
    BY <1>1, <1>2

\* A piece of a striped set fails only when a member has lost the row.
LEMMA Raid0Fails ==
    ASSUME NEW block, NEW from, NEW len, InPart(block, from, len), array.level = "RAID0",
           NEW active, NEW now, Sees(active, now), ~Raid0Piece(block, from, len, now).ok
    PROVE  ~Survived(active, block)
  <1> DEFINE d == block % array.n
             row == block \div array.n
  <1>1. array.n \in Nat \ {0} /\ block \in Nat
    BY ArrayFacts DEF InPart
  <1>2. d \in Disks /\ row \in Nat
    BY <1>1, Blocks DEF Disks
  <1>3. ~Usable(now, d, row * array.block + from, len)
    BY DEF Raid0Piece, Direct, Given
  <1> HIDE DEF d, row
  <1>4. d \in LostInRow(active, row)
    BY <1>2, <1>3, PartLost
  <1> QED
    BY <1>4 DEF Survived, row

\* A piece of RAID 5 fails only when two members have lost the row.
LEMMA Raid5Fails ==
    ASSUME NEW block, NEW from, NEW len, InPart(block, from, len), array.level = "RAID5",
           NEW active, NEW now, NEW later, Sees(active, now), Sees(active, later),
           ~Raid5Piece(block, from, len, now, later).ok
    PROVE  ~Survived(active, block)
  <1> DEFINE n == array.n
             m == n - 1
             stripe == block \div m
             b == block % m
             data == raid5DataDisk(stripe, b, n, array.algorithm)
             lost == LostInRow(active, stripe)
  <1>1. n \in Nat /\ n >= 3 /\ m \in Nat \ {0} /\ block \in Nat /\ array \in Arrays /\ array.algorithm \in Algorithms
    BY ArrayFacts DEF InPart
  <1>2. stripe \in Nat /\ b \in 0..(m - 1)
    <2> HIDE DEF m
    <2> QED
      BY <1>1, Blocks
  <1>3. data \in Disks
    <2>1. b \in 0..(n - 2)
      BY <1>1, <1>2
    <2> HIDE DEF stripe, b
    <2>2. LET d == raid5DataDisk(stripe, b, n, array.algorithm) IN d \in 0..(n - 1)
      BY <1>1, <1>2, <2>1, Raid5Located
    <2> QED
      BY <2>2 DEF Disks
  <1>4. ~Usable(now, data, stripe * array.block + from, len)
        /\ \E d \in Disks \ {data} : ~Usable(later, d, stripe * array.block, array.block)
    BY DEF Raid5Piece, Direct, Given, Rebuilt
  <1> HIDE DEF stripe, data, lost
  <1>5. data \in lost
    BY <1>2, <1>3, <1>4, PartLost DEF lost
  <1>6. PICK d \in lost : d # data
    BY <1>4, WholeLost DEF lost
  <1>7. ~(Cardinality(lost) <= 1)
    BY <1>1, <1>5, <1>6, LostAreFew, MoreThanOne DEF lost
  <1> QED
    BY <1>7 DEF Survived, lost, stripe

\* A piece of mirrored pairs fails only when both disks of the pair have lost it.
LEMMA Raid10Fails ==
    ASSUME NEW block, NEW from, NEW len, InPart(block, from, len), array.level = "RAID10",
           NEW active, NEW now, Sees(active, now), ~Raid10Piece(block, from, len, now).ok
    PROVE  ~Survived(active, block)
  <1> DEFINE n == array.n
             h == n \div 2
             row == block \div h
             c == raid10MemberA(block, n)
             d == raid10MemberB(block, n)
  <1>1. n \in Nat /\ n >= 2 /\ n % 2 = 0 /\ block \in Nat
    BY ArrayFacts DEF InPart
  <1>2. h \in Nat \ {0}
    BY <1>1
  <1>3. row \in Nat
    <2> HIDE DEF h
    <2> QED
      BY <1>1, <1>2, Blocks
  <1>4. c \in Disks /\ d \in Disks
    BY <1>1, CopiesApart DEF Disks
  <1>7. c = 2 * (block % h) /\ d = 2 * (block % h) + 1
    <2>1. block % h \in Nat
      <3> HIDE DEF h
      <3> QED
        BY <1>1, <1>2, Blocks
    <2>2. c = (block % h) * 2 /\ d = (block % h) * 2 + 1
      BY DEF raid10MemberA, raid10MemberB
    <2> QED
      BY <2>1, <2>2
  <1>5. ~Usable(now, c, row * array.block + from, len) /\ ~Usable(now, d, row * array.block + from, len)
    BY DEF Raid10Piece, Either, Direct, Given
  <1> HIDE DEF row, c, d
  <1>6. c \in LostInRow(active, row) /\ d \in LostInRow(active, row)
    BY <1>3, <1>4, <1>5, PartLost
  <1> QED
    BY <1>6, <1>7 DEF Survived, row

\* A piece of an interleaved mirror fails only when both copies are lost.
LEMMA Raid1eFails ==
    ASSUME NEW block, NEW from, NEW len, InPart(block, from, len), array.level = "RAID1E",
           NEW active, NEW now, Sees(active, now), ~Raid1ePiece(block, from, len, now).ok
    PROVE  ~Survived(active, block)
  <1> DEFINE n == array.n
             d(c) == raid1eDisk(block, c, n)
             row(c) == raid1eRow(block, c, n)
  <1>1. n \in Nat \ {0} /\ block \in Nat
    BY ArrayFacts DEF InPart
  <1>2. ASSUME NEW c \in {0, 1} PROVE d(c) \in Disks /\ row(c) \in Nat
    <2> DEFINE x == block * 2 + c
    <2>1. x \in Nat
      BY <1>1
    <2>2. d(c) = x % n /\ row(c) = x \div n
      BY DEF raid1eDisk, raid1eRow
    <2> HIDE DEF x, d, row
    <2> QED
      BY <1>1, <2>1, <2>2, Blocks DEF Disks
  <1>3. \A c \in {0, 1} : ~Usable(now, d(c), row(c) * array.block + from, len)
    <2>1. ~Usable(now, d(0), row(0) * array.block + from, len) /\ ~Usable(now, d(1), row(1) * array.block + from, len)
      BY DEF Raid1ePiece, Either, Direct, Given
    <2> QED
      BY <2>1
  <1> HIDE DEF d, row
  <1>4. \A c \in {0, 1} : d(c) \in LostInRow(active, row(c))
    BY <1>2, <1>3, PartLost
  <1> QED
    BY <1>4 DEF Survived, d, row

\* A piece of RAID 6 fails only when more is lost than P and Q give back.
LEMMA Raid6Fails ==
    ASSUME NEW block, NEW from, NEW len, InPart(block, from, len), array.level = "RAID6",
           NEW active, active \subseteq Disks, ~Raid6Piece(block, from, len, active, active).ok
    PROVE  ~Survived(active, block)
  <1> DEFINE n == array.n
             m == n - 2
             stripe == block \div m
             b == block % m
             data == raid6DataDisk(stripe, b, n)
             D == raid6DataDisks(stripe, n)
             p == raid6PDisk(stripe, n)
             q == raid6QDisk(stripe, n)
             o == stripe * array.block
             lost == LostInRow(active, stripe)
             failed == {d \in D : d \notin active \/ d = data}
             rest == (D \cap active) \ (IF Cardinality(failed) = 1 THEN failed ELSE {})
             restOk == \A d \in rest : MemberOk(d, o, array.block)
             pOk == Usable(active, p, o, array.block)
             qOk == Usable(active, q, o, array.block)
  <1>1. n \in Nat /\ n >= 4 /\ m \in Nat \ {0} /\ block \in Nat /\ array \in Arrays
    BY ArrayFacts DEF InPart
  <1>2. stripe \in Nat /\ b \in 0..(m - 1)
    <2> HIDE DEF m
    <2> QED
      BY <1>1, Blocks
  <1>3. data \in D /\ p \in Disks /\ q \in Disks /\ p # q /\ D = Disks \ {p, q}
    <2>1. b \in 0..(n - 3)
      BY <1>1, <1>2
    <2> HIDE DEF stripe, b
    <2>2. /\ p \in 0..(n - 1) /\ q \in 0..(n - 1) /\ p # q /\ D = (0..(n - 1)) \ {p, q}
          /\ \A k \in 0..(n - 3) : raid6DataDisk(stripe, k, n) \in D
      BY <1>1, <1>2, Slots6
    <2> QED
      BY <2>1, <2>2 DEF Disks
  <1>4. ~Usable(active, data, stripe * array.block + from, len) /\ ~Raid6Rebuilt(block, from, len, active, active).ok
    BY DEF Raid6Piece, Direct, Given
  <1>5. ~(restOk /\ \/ Cardinality(failed) = 1 /\ (pOk \/ qOk)
                    \/ Cardinality(failed) = 2 /\ pOk /\ qOk)
    BY <1>4 DEF Raid6Rebuilt, Given
  <1> HIDE DEF stripe, data, D, p, q, o, lost
  <1>6. data \in Disks /\ data # p /\ data # q /\ D \subseteq Disks /\ p \notin D /\ q \notin D
    BY <1>3
  <1>7. data \in lost
    <2>1. Sees(active, active)
      BY DEF Sees
    <2> QED
      BY <1>2, <1>4, <1>6, <2>1, PartLost DEF lost
  <1>8. \A d \in Disks \ lost : d \in active /\ MemberOk(d, o, array.block) /\ Usable(active, d, o, array.block)
    BY DEF lost, LostInRow, Usable, o
  <1>9. \A d \in Disks : d \notin active => d \in lost
    BY <1>8
  <1>10. IsFiniteSet(lost) /\ lost \subseteq Disks
    BY <1>1, LostAreFew DEF lost
  <1>11. ASSUME lost = {data} PROVE FALSE
    <2>1. failed = {data}
      BY <1>3, <1>6, <1>9, <1>11
    <2>2. Cardinality(failed) = 1
      BY <2>1, FS_Singleton
    <2>3. restOk
      <3> SUFFICES ASSUME NEW d \in rest PROVE MemberOk(d, o, array.block)
        OBVIOUS
      <3>1. d \in Disks /\ d # data
        BY <1>6, <2>1, <2>2
      <3> QED
        BY <1>8, <1>11, <3>1
    <2>4. pOk
      BY <1>3, <1>6, <1>8, <1>11
    <2> HIDE DEF failed, restOk, pOk, qOk
    <2> QED
      BY <1>5, <2>2, <2>3, <2>4
  <1>12. ASSUME lost = Disks \ active, NEW e, e # data, lost = {data, e} PROVE FALSE
    <2>1. restOk
      <3> SUFFICES ASSUME NEW d \in rest PROVE MemberOk(d, o, array.block)
        OBVIOUS
      <3>1. d \in Disks /\ d \in active
        BY <1>6
      <3> HIDE DEF rest
      <3> QED
        BY <1>8, <1>12, <3>1
    <2>2. \A d \in D : d \in failed <=> d \in {data, e}
      BY <1>6, <1>12
    <2>3. e \in Disks
      BY <1>10, <1>12
    <2>4. CASE e \in D
      <3>1. failed = {data} \cup {e}
        BY <1>3, <2>2, <2>4
      <3>2. Cardinality(failed) = 2
        <4>1. e \notin {data}
          BY <1>12
        <4>2. IsFiniteSet({data}) /\ Cardinality({data}) = 1
          BY FS_Singleton, Zenon
        <4>3. Cardinality({data} \cup {e}) = 2
          BY <4>1, <4>2, FS_AddElement
        <4> QED
          BY <3>1, <4>3
      <3>3. pOk /\ qOk
        BY <1>3, <1>6, <1>8, <1>12, <2>4
      <3> HIDE DEF failed, restOk, pOk, qOk
      <3> QED
        BY <1>5, <2>1, <3>2, <3>3
    <2>5. CASE e \notin D
      <3>1. failed = {data}
        BY <1>3, <2>2, <2>5
      <3>2. Cardinality(failed) = 1
        BY <3>1, FS_Singleton
      <3>3. pOk \/ qOk
        BY <1>3, <1>6, <1>8, <1>12
      <3> HIDE DEF failed, restOk, pOk, qOk
      <3> QED
        BY <1>5, <2>1, <3>2, <3>3
    <2> QED
      BY <2>4, <2>5
  <1>13. Cardinality(lost) \in Nat /\ Cardinality(lost) # 0
    BY <1>7, <1>10, FS_CardinalityType, FS_EmptySet
  <1>14. ASSUME Cardinality(lost) <= 1 PROVE FALSE
    <2>1. Cardinality(lost) \in {1, 2} /\ Cardinality(lost) = 1
      BY <1>13, <1>14
    <2>2. PICK e \in lost : lost = {data, e} /\ (Cardinality(lost) = 1 <=> e = data)
      BY <1>7, <1>10, <2>1, OneOrTwo
    <2> QED
      BY <1>11, <2>1, <2>2
  <1>15. ASSUME lost = Disks \ active, Cardinality(lost) <= 2 PROVE FALSE
    <2>1. Cardinality(lost) \in {1, 2}
      BY <1>13, <1>15
    <2>2. PICK e \in lost : lost = {data, e} /\ (Cardinality(lost) = 1 <=> e = data)
      BY <1>7, <1>10, <2>1, OneOrTwo
    <2> QED
      BY <1>11, <1>12, <1>15, <2>2
  <1> QED
    BY <1>14, <1>15 DEF Survived, lost, stripe

\* A piece fails only when its block is not survived.
LEMMA PieceFails ==
    ASSUME NEW block, NEW from, NEW len, InPart(block, from, len), NEW active, NEW now, NEW later,
           Sees(active, now), Sees(active, later), array.level = "RAID6" => now = active /\ later = active,
           ~Piece(block, from, len, now, later).ok
    PROVE  ~Survived(active, block)
  <1>1. array.level \in Striping /\ active \subseteq Disks
    BY DEF InPart, Sees
  <1>2. CASE array.level = "RAID0"
    <2>1. ~Raid0Piece(block, from, len, now).ok
      BY <1>2 DEF Piece
    <2> QED
      BY <1>2, <2>1, Raid0Fails
  <1>3. CASE array.level = "RAID5"
    <2>1. ~Raid5Piece(block, from, len, now, later).ok
      BY <1>3 DEF Piece
    <2> QED
      BY <1>3, <2>1, Raid5Fails
  <1>4. CASE array.level = "RAID6"
    <2>1. ~Raid6Piece(block, from, len, active, active).ok
      BY <1>4 DEF Piece
    <2> QED
      BY <1>1, <1>4, <2>1, Raid6Fails
  <1>5. CASE array.level = "RAID10"
    <2>1. ~Raid10Piece(block, from, len, now).ok
      BY <1>5 DEF Piece
    <2> QED
      BY <1>5, <2>1, Raid10Fails
  <1>6. CASE array.level = "RAID1E"
    <2>1. ~Raid1ePiece(block, from, len, now).ok
      BY <1>6 DEF Piece
    <2> QED
      BY <1>6, <2>1, Raid1eFails
  <1> QED
    BY <1>1, <1>2, <1>3, <1>4, <1>5, <1>6 DEF Striping

\* RedundancyHonoured, of an answer that was given with these members active
Honoured(active, o) ==
    o.kind = "unreadable" =>
      CASE array.level = "JBOD"  -> active # Disks \/ bad # {}
        [] array.level = "RAID1" -> \A d \in Disks : ~Usable(active, d, o.offset, o.length)
        [] OTHER -> \E b \in FirstOf(o.offset)..LastOf(o.offset, o.length) : ~Survived(active, b)

\* A read over several blocks fails only when one of them is not survived.
LEMMA StripedFails ==
    ASSUME array \in Arrays, array.level \in Striping, diskActive \subseteq Disks,
           NEW offset \in Nat, NEW length \in Nat \ {0},
           NEW marked, array.level = "RAID6" => marked = {}, NEW at,
           ~Striped(offset, length, marked, at).ok
    PROVE  \E b \in FirstOf(offset)..LastOf(offset, length) : ~Survived(diskActive \ marked, b)
  <1> DEFINE first == FirstOf(offset)
             last == LastOf(offset, length)
             active == diskActive \ marked
             now(b) == IF b > at THEN diskActive \ marked ELSE diskActive
             later(b) == IF b >= at THEN diskActive \ marked ELSE diskActive
             pieces == [b \in first..last |->
                          Piece(b, FromOf(b, offset), LenOf(b, offset, length), now(b), later(b))]
  <1>1. array.block \in Nat \ {0}
    BY ArrayFacts
  <1>2. PICK b \in first..last : ~pieces[b].ok
    <2>1. (offset + length) - 1 = offset + length - 1 /\ DOMAIN pieces = first..last
      OBVIOUS
    <2>2. Striped(offset, length, marked, at) = Joined(pieces, offset, length)
      BY <2>1 DEF Striped, FirstOf, LastOf, FromOf, ToOf, LenOf
    <2>3. (\A b \in DOMAIN pieces : pieces[b].ok) => Joined(pieces, offset, length).ok
      <3> HIDE DEF pieces
      <3> QED
        BY DEF Joined, Given
    <2> HIDE DEF pieces
    <2> QED
      BY <2>1, <2>2, <2>3
  <1> DEFINE from == FromOf(b, offset)
             len == LenOf(b, offset, length)
  <1>3. InPart(b, from, len)
    <2>1. b \in Nat /\ from \in Nat /\ len \in Nat \ {0} /\ from + len <= array.block
      BY <1>1, PiecesFit
    <2> HIDE DEF from, len
    <2> QED
      BY <2>1 DEF InPart
  <1>4. Sees(active, now(b)) /\ Sees(active, later(b))
    BY DEF Sees
  <1>5. array.level = "RAID6" => now(b) = active /\ later(b) = active
    OBVIOUS
  <1>6. ~Piece(b, from, len, now(b), later(b)).ok
    BY <1>2
  <1> HIDE DEF from, len, now, later, active, first, last
  <1>7. ~Survived(active, b)
    BY <1>3, <1>4, <1>5, <1>6, PieceFails
  <1> QED
    BY <1>7 DEF active, first, last

\* Every sector of a concatenation is on a member.
LEMMA HolderOf ==
    ASSUME NEW a \in Arrays, NEW l \in Nat, l < extentsBefore(a)[a.n]
    PROVE  \E d \in 0..(a.n - 1) : extentsBefore(a)[d] <= l /\ l < extentsBefore(a)[d + 1]
  <1> DEFINE before == extentsBefore(a)
             n == a.n
             S == {k \in 0..n : l < before[k]}
  <1>1. n \in Nat /\ before \in [0..n -> Nat] /\ before[0] = 0
    BY ExtentsAreNumbers, ArrayFacts
  <1> HIDE DEF before, n
  <1>2. n \in S /\ S \subseteq Nat
    BY <1>1 DEF before, n
  <1>3. PICK k \in S : \A j \in S : k <= j
    <2> HIDE DEF S
    <2> QED
      BY <1>2, LeastNatural
  <1>4. k \in 1..n /\ k - 1 \in 0..n
    BY <1>1
  <1>5. ~(k - 1 \in S)
    BY <1>3, <1>4
  <1>6. before[k - 1] <= l
    BY <1>1, <1>4, <1>5
  <1>7. k - 1 \in 0..(n - 1) /\ (k - 1) + 1 = k /\ l < before[k]
    BY <1>1, <1>4
  <1> QED
    BY <1>6, <1>7 DEF before, n

\* A concatenation gives every sector as long as nothing has failed.
LEMMA ConcatenatedReads ==
    ASSUME array \in Arrays, array.level = "JBOD", diskActive = Disks, bad = {},
           NEW offset \in Nat, NEW length \in Nat \ {0}, offset + length <= capacity(array)
    PROVE  Concatenated(offset, length).ok
  <1> DEFINE before == extentsBefore(array)
             n == array.n
             holder(l) == CHOOSE d \in Disks : before[d] <= l /\ l < before[d + 1]
  <1>1. /\ n \in Nat /\ before \in [0..n -> Nat] /\ capacity(array) = before[n] /\ Disks = 0..(n - 1)
        /\ \A d \in 0..(n - 1) : before[d + 1] = before[d] + memberExtent(array, d)
    BY ExtentsAreNumbers, ArrayFacts DEF capacity, Disks
  <1>2. \A d \in 0..(n - 1) : /\ array.base[d] \in Nat /\ array.size[d] \in Nat /\ memberExtent(array, d) \in Nat
                              /\ array.base[d] + memberExtent(array, d) <= array.size[d]
    <2> TAKE d \in 0..(n - 1)
    <2>1. array.base[d] \in Nat /\ array.size[d] \in Nat /\ memberExtent(array, d) \in Nat
      BY ArrayFacts
    <2>2. /\ array.extent[d] \in Nat /\ array.base[d] + array.extent[d] <= array.size[d]
      BY RaidAssumption DEF Array
    <2>3. memberExtent(array, d) = IF array.extent[d] > 0 THEN array.extent[d] ELSE array.size[d] - array.base[d]
      BY DEF memberExtent, memberPayload
    <2> QED
      BY <2>1, <2>2, <2>3
  <1>3. ASSUME NEW l \in offset..(offset + length - 1)
        PROVE  Usable(diskActive, holder(l), l - before[holder(l)], 1)
    <2>1. l \in Nat /\ l < before[n]
      <3>1. before[n] \in Nat /\ offset + length <= before[n]
        BY <1>1
      <3> HIDE DEF before
      <3> QED
        BY <3>1
    <2>2. \E d \in Disks : before[d] <= l /\ l < before[d + 1]
      BY <1>1, <2>1, HolderOf
    <2> DEFINE d == holder(l)
               base == array.base[d]
               size == array.size[d]
               extent == memberExtent(array, d)
               o == l - before[d]
    <2>3. d \in Disks /\ before[d] <= l /\ l < before[d + 1]
      BY <2>2
    <2> HIDE DEF before, d
    <2>4. before[d] \in Nat /\ before[d + 1] = before[d] + extent
      BY <1>1, <2>3
    <2>5. base \in Nat /\ size \in Nat /\ extent \in Nat /\ base + extent <= size
      BY <1>1, <1>2, <2>3
    <2> HIDE DEF base, size, extent
    <2>6. (base + o) + 1 <= size
      BY <2>1, <2>3, <2>4, <2>5
    <2>7. MemberOk(d, o, 1)
      BY <2>6 DEF MemberOk, base, size
    <2> QED
      BY <2>3, <2>7 DEF Usable, d
  <1> HIDE DEF before, n
  <1> QED
    BY <1>3 DEF Concatenated, Given, before

\* Whatever is read, and whenever a disk is marked failed meanwhile, a refusal is
\* warranted by the members that are left.
LEMMA OutcomeIsHonoured ==
    ASSUME array \in Arrays, diskActive \subseteq Disks,
           NEW offset \in Nat, NEW length \in Nat \ {0},
           NEW marked, array.level = "RAID6" => marked = {}, array.level = "RAID1" => marked = {}, NEW at
    PROVE  Honoured(diskActive \ marked, Outcome(offset, length, marked, at))
  <1> DEFINE r == Contents(offset, length, marked, at)
             o == Outcome(offset, length, marked, at)
             active == diskActive \ marked
  <1>1. /\ o.offset = offset /\ o.length = length
        /\ o.kind = "unreadable" => ~(offset + length > capacity(array)) /\ ~r.ok
    BY DEF Outcome
  <1> SUFFICES ASSUME o.kind = "unreadable" PROVE Honoured(active, o)
    BY DEF Honoured
  <1>2. array.level \in Levels
    BY ArrayFacts
  <1>3. CASE array.level = "JBOD"
    <2>1. r = Concatenated(offset, length)
      BY <1>3 DEF Contents
    <2> SUFFICES ASSUME active = Disks, bad = {} PROVE FALSE
      BY <1>3 DEF Honoured
    <2>2. diskActive = Disks
      OBVIOUS
    <2>3. capacity(array) \in Nat
      <3>1. capacity(array) = extentsBefore(array)[array.n] /\ array.n \in Nat
        BY <1>3, ArrayFacts DEF capacity
      <3>2. extentsBefore(array) \in [0..array.n -> Nat]
        BY ExtentsAreNumbers
      <3> QED
        BY <3>1, <3>2
    <2>4. offset + length <= capacity(array)
      BY <1>1, <2>3
    <2> QED
      BY <1>1, <1>3, <2>1, <2>2, <2>4, ConcatenatedReads
  <1>4. CASE array.level = "RAID1"
    <2>1. r = Mirrored(offset, length)
      BY <1>4 DEF Contents
    <2>2. {d \in Disks : Usable(diskActive, d, offset, length)} = {}
      BY <1>1, <2>1 DEF Mirrored, Direct, Given
    <2>3. active = diskActive
      BY <1>4
    <2> HIDE DEF o, active
    <2> QED
      BY <1>1, <1>4, <2>2, <2>3 DEF Honoured
  <1>5. CASE array.level \in Striping
    <2>1. r = Striped(offset, length, marked, at)
      BY <1>5 DEF Contents, Striping
    <2>2. \E b \in FirstOf(offset)..LastOf(offset, length) : ~Survived(active, b)
      BY <1>1, <1>5, <2>1, StripedFails
    <2> HIDE DEF o, active
    <2> QED
      BY <1>1, <1>5, <2>2 DEF Honoured, Striping
  <1> QED
    BY <1>2, <1>3, <1>4, <1>5 DEF Levels, Striping

\* Survived, of the members active now, is what the property asks.
LEMMA SurvivableIs ==
    ASSUME array \in Arrays, array.level \in Striping, NEW block
    PROVE  Survivable(block) <=> Survived(diskActive, block)
  <1>1. \A row : GoneInRow(row) = LostInRow(diskActive, row)
    BY DEF GoneInRow, Gone, LostInRow
  <1>3. CASE array.level = "RAID0"
    <2>1. \A row : (\A d \in Disks : ~Gone(d, row * array.block, array.block)) <=> GoneInRow(row) = {}
      BY DEF GoneInRow
    <2> QED
      BY <1>1, <1>3, <2>1 DEF Survivable, Survived
  <1>4. CASE array.level = "RAID5"
    BY <1>1, <1>4 DEF Survivable, Survived
  <1>5. CASE array.level = "RAID6"
    BY <1>1, <1>5 DEF Survivable, Survived
  <1>6. CASE array.level = "RAID10"
    BY <1>1, <1>6 DEF Survivable, Survived
  <1>7. CASE array.level = "RAID1E"
    BY <1>1, <1>7 DEF Survivable, Survived
  <1> QED
    BY <1>3, <1>4, <1>5, <1>6, <1>7 DEF Striping

\* Honoured, of the members active now, is the property.
LEMMA HonouredIs ==
    ASSUME array \in Arrays, Honoured(diskActive, answer)
    PROVE  RedundancyHonoured
  <1> SUFFICES ASSUME answer.kind = "unreadable"
               PROVE  CASE array.level = "JBOD"  -> diskActive # Disks \/ bad # {}
                        [] array.level = "RAID1" -> \A d \in Disks : Gone(d, answer.offset, answer.length)
                        [] OTHER -> \E b \in Touched : ~Survivable(b)
    BY DEF RedundancyHonoured
  <1>1. array.level \in Levels
    BY ArrayFacts
  <1>2. CASE array.level = "JBOD"
    BY <1>2 DEF Honoured
  <1>3. CASE array.level = "RAID1"
    BY <1>3 DEF Honoured, Gone
  <1>4. CASE array.level \in Striping
    <2>2. PICK b \in FirstOf(answer.offset)..LastOf(answer.offset, answer.length) : ~Survived(diskActive, b)
      BY <1>4 DEF Honoured, Striping
    <2>3. b \in Touched
      BY <2>2 DEF Touched, FirstOf, LastOf
    <2>4. ~Survivable(b)
      BY <1>4, <2>2, SurvivableIs
    <2> QED
      BY <1>4, <2>3, <2>4 DEF Striping
  <1> QED
    BY <1>1, <1>2, <1>3, <1>4 DEF Levels, Striping

RedundancyInvariant == array \in Arrays /\ diskActive \subseteq Disks /\ Honoured(diskActive, answer)

\* What is active, and the answer, as a step leaves them
LEMMA HonouredAfter ==
    ASSUME array \in Arrays, array' = array, bad' = bad, Honoured(diskActive', answer')
    PROVE  Honoured(diskActive, answer)'
  <1>1. Disks' = Disks
    BY DEF Disks
  <1>2. \A d, o, len : Usable(diskActive, d, o, len)' <=> Usable(diskActive', d, o, len)
    BY DEF Usable, MemberOk
  <1>3. \A row : LostInRow(diskActive, row)' = LostInRow(diskActive', row)
    BY <1>1, <1>2 DEF LostInRow
  <1>4. \A b : array.level \in Striping => (Survived(diskActive, b)' <=> Survived(diskActive', b))
    <2> SUFFICES ASSUME NEW b, array.level \in Striping PROVE Survived(diskActive, b)' <=> Survived(diskActive', b)
      OBVIOUS
    <2>1. CASE array.level = "RAID0"
      BY <1>3, <2>1 DEF Survived
    <2>2. CASE array.level = "RAID5"
      BY <1>3, <2>2 DEF Survived
    <2>3. CASE array.level = "RAID6"
      BY <1>1, <1>3, <2>3 DEF Survived
    <2>4. CASE array.level = "RAID10"
      BY <1>3, <2>4 DEF Survived
    <2>5. CASE array.level = "RAID1E"
      <3>1. array'.level = "RAID1E" /\ array'.n = array.n
        BY <2>5
      <3>2. \A c : LostInRow(diskActive, raid1eRow(b, c, array.n))' = LostInRow(diskActive', raid1eRow(b, c, array.n))
        BY <1>3, <3>1 DEF raid1eRow
      <3>3. Survived(diskActive, b)' <=>
               \E c \in {0, 1} : raid1eDisk(b, c, array.n) \notin LostInRow(diskActive, raid1eRow(b, c, array.n))'
        BY <3>1 DEF Survived, raid1eDisk
      <3>4. Survived(diskActive', b) <=>
               \E c \in {0, 1} : raid1eDisk(b, c, array.n) \notin LostInRow(diskActive', raid1eRow(b, c, array.n))
        BY <2>5 DEF Survived
      <3> QED
        BY <3>1, <3>2, <3>3, <3>4
    <2> QED
      BY <2>1, <2>2, <2>3, <2>4, <2>5 DEF Striping
  <1>5. array.level \in {"JBOD", "RAID1"} \cup Striping
    BY ArrayFacts DEF Levels, Striping
  <1> QED
    BY <1>1, <1>2, <1>4, <1>5 DEF Honoured, FirstOf, LastOf

\* A read is refused only when more has failed than the level survives: of the
\* members that count when the read ends, too few give what it touches.  Not
\* for a disk of a RAID 6 set that is marked failed during a read.
THEOREM RaidRedundancyHonoured ==
    ASSUME "RAID6" \notin MarkedDuring
    PROVE  RaidSpec => []RedundancyHonoured
  <1>1. RaidInit => RedundancyInvariant
    BY DEF RaidInit, RedundancyInvariant, Honoured, NoAnswer
  <1>2. RedundancyInvariant /\ [RaidNext]_raidVars => RedundancyInvariant'
    <2> SUFFICES ASSUME RedundancyInvariant, [RaidNext]_raidVars PROVE RedundancyInvariant'
      OBVIOUS
    <2>1. array \in Arrays /\ diskActive \subseteq Disks /\ Honoured(diskActive, answer)
      BY DEF RedundancyInvariant
    <2>2. array' = array /\ diskActive' \subseteq diskActive => array' \in Arrays /\ diskActive' \subseteq Disks'
      BY <2>1 DEF Disks
    <2>3. ASSUME NEW o, o.kind # "unreadable" PROVE Honoured(diskActive, o)'
      BY <2>3 DEF Honoured
    <2>4. \A x \in Nat, y \in 1..MaxRead, d \in SUBSET diskActive : \A at :
             (d # {} => array.level \in MarkedDuring) => Honoured(diskActive \ d, Outcome(x, y, d, at))
      <3> SUFFICES ASSUME NEW x \in Nat, NEW y \in 1..MaxRead, NEW d \in SUBSET diskActive, NEW at,
                          d # {} => array.level \in MarkedDuring
                   PROVE  Honoured(diskActive \ d, Outcome(x, y, d, at))
        OBVIOUS
      <3>1. y \in Nat \ {0}
        BY RaidAssumption
      <3>2. (array.level = "RAID6" => d = {}) /\ (array.level = "RAID1" => d = {})
        BY RaidAssumption
      <3> QED
        BY <2>1, <3>1, <3>2, OutcomeIsHonoured
    <2>5. CASE Read
      <3>1. PICK x \in 0..capacity(array), y \in 1..MaxRead : answer' = Outcome(x, y, {}, 0)
        BY <2>5 DEF Read
      <3>2. array' = array /\ bad' = bad /\ diskActive' = diskActive /\ diskActive' = diskActive \ {}
        BY <2>5 DEF Read
      <3>3. x \in Nat
        OBVIOUS
      <3>4. Honoured(diskActive', answer')
        BY <2>4, <3>1, <3>2, <3>3
      <3> QED
        BY <2>1, <2>2, <3>2, <3>4, HonouredAfter DEF RedundancyInvariant
    <2>6. CASE ReadWhileMarked
      <3>1. PICK x \in 0..(capacity(array) - 1), y \in 1..MaxRead, d \in diskActive :
               diskActive' = diskActive \ {d} /\ \E at : answer' = Outcome(x, y, {d}, at)
        BY <2>6 DEF ReadWhileMarked
      <3>2. PICK at : answer' = Outcome(x, y, {d}, at)
        BY <3>1
      <3>3. array' = array /\ bad' = bad /\ array.level \in MarkedDuring /\ diskActive' \subseteq diskActive
        BY <2>6, <3>1 DEF ReadWhileMarked
      <3>4. x \in Nat /\ {d} \in SUBSET diskActive
        OBVIOUS
      <3>5. Honoured(diskActive \ {d}, Outcome(x, y, {d}, at))
        BY <2>4, <3>3, <3>4
      <3>6. Honoured(diskActive', answer')
        BY <3>1, <3>2, <3>5
      <3> QED
        BY <2>1, <2>2, <3>3, <3>6, HonouredAfter DEF RedundancyInvariant
    <2>7. CASE FailDisk
      <3>1. diskActive' \subseteq diskActive /\ array' = array /\ answer' = NoAnswer
        BY <2>7 DEF FailDisk
      <3>2. Honoured(diskActive, answer)'
        BY <3>1 DEF Honoured, NoAnswer
      <3> QED
        BY <2>2, <3>1, <3>2 DEF RedundancyInvariant
    <2>8. CASE GoesBad
      <3>1. diskActive' = diskActive /\ array' = array /\ answer' = NoAnswer
        BY <2>8 DEF GoesBad
      <3>2. Honoured(diskActive, answer)'
        BY <3>1 DEF Honoured, NoAnswer
      <3> QED
        BY <2>2, <3>1, <3>2 DEF RedundancyInvariant
    <2>9. CASE Answered
      <3>1. diskActive' = diskActive /\ array' = array /\ answer' = NoAnswer
        BY <2>9 DEF Answered
      <3>2. Honoured(diskActive, answer)'
        BY <3>1 DEF Honoured, NoAnswer
      <3> QED
        BY <2>2, <3>1, <3>2 DEF RedundancyInvariant
    <2>10. CASE UNCHANGED raidVars
      <3>1. diskActive' = diskActive /\ array' = array /\ bad' = bad /\ answer' = answer
        BY <2>10 DEF raidVars
      <3>2. Honoured(diskActive', answer')
        BY <2>1, <3>1
      <3> QED
        BY <2>1, <2>2, <3>1, <3>2, HonouredAfter DEF RedundancyInvariant
    <2> QED
      BY <2>5, <2>6, <2>7, <2>8, <2>9, <2>10 DEF RaidNext
  <1>3. RedundancyInvariant => RedundancyHonoured
    BY HonouredIs DEF RedundancyInvariant
  <1> QED
    BY <1>1, <1>2, <1>3, PTL DEF RaidSpec

----------------------------------------------------------------------------
(* Dedup index: entries and sorted bases                                   *)

Entries == [start : Nat, end : Nat]
Elements(s) == {s[i] : i \in 1..Len(s)}
Sorted(s) == \A i, j \in 1..Len(s) : i <= j => s[i].start <= s[j].start

LEMMA EntryFields ==
    ASSUME NEW s \in Seq(Entries)
    PROVE  \A i \in 1..Len(s) : s[i] \in Entries /\ s[i].start \in Nat /\ s[i].end \in Nat
<1>1. \A i \in 1..Len(s) : s[i] \in Entries
  OBVIOUS
<1>2. \A e \in Entries : e.start \in Nat /\ e.end \in Nat
  BY DEF Entries
<1> QED
  BY <1>1, <1>2

\* An entry has a start and an end, whichever way the end of its record is stored.
LEMMA EntryFacts ==
    ASSUME NEW r \in Records
    PROVE  /\ Entry(r) \in Entries /\ r.kind \in {"metadata", "carve"} /\ r.size \in Nat
<1>1. Record(r)
  BY DedupAssumption
<1>2. r.start \in Nat /\ r.end \in Nat
  BY <1>1 DEF Record
<1>3. (IF r.end > 0 THEN r.end ELSE r.start) \in Nat
  BY <1>2
<1> QED
  BY <1>1, <1>2, <1>3 DEF Record, Entry, Entries

\* What appending an entry to a sequence of entries does
LEMMA AppendFacts ==
    ASSUME NEW s \in Seq(Entries), NEW e \in Entries
    PROVE  /\ Append(s, e) \in Seq(Entries) /\ Len(Append(s, e)) = Len(s) + 1
           /\ Elements(Append(s, e)) = Elements(s) \cup {e}
           /\ \A i \in 1..Len(s) : Append(s, e)[i] = s[i]
           /\ Append(s, e)[Len(s) + 1] = e
<1> DEFINE t == Append(s, e)
<1>1. /\ t \in Seq(Entries) /\ Len(t) = Len(s) + 1 /\ Len(s) \in Nat
      /\ \A i \in 1..Len(s) : t[i] = s[i]
      /\ t[Len(s) + 1] = e
  OBVIOUS
<1> HIDE DEF t
<1>2. 1..Len(t) = (1..Len(s)) \cup {Len(s) + 1}
  BY <1>1
<1>3. Elements(t) = Elements(s) \cup {e}
  BY <1>1, <1>2 DEF Elements
<1> QED
  BY <1>1, <1>3 DEF t

----------------------------------------------------------------------------
(* Merging                                                                 *)

\* What a merge has done that took i entries of a and j of b
MergeMet(a, b, i, j, acc) ==
    /\ acc = [taken |-> acc.taken, out |-> acc.out] /\ acc.taken = i
    /\ acc.out \in Seq(Entries) /\ Len(acc.out) = i + j
    /\ Elements(acc.out) = {a[x] : x \in 1..i} \cup {b[x] : x \in 1..j}
    /\ Sorted(a) /\ Sorted(b) =>
         /\ Sorted(acc.out)
         /\ i < Len(a) => \A m \in 1..(i + j) : acc.out[m].start <= a[i + 1].start
         /\ j < Len(b) => \A m \in 1..(i + j) : acc.out[m].start <= b[j + 1].start

Taken(a, b) == [taken : Nat, out : Seq({a[i] : i \in Int} \cup {b[i] : i \in Int})]

\* The steps of a merge follow each other by MergeStep.
LEMMA MergeUnfolds ==
    ASSUME NEW a \in Seq(Entries), NEW b \in Seq(Entries)
    PROVE  LET steps == MergeSteps(a, b)
           IN  /\ steps[0] = [taken |-> 0, out |-> <<>>]
               /\ \A k \in 1..(Len(a) + Len(b)) : steps[k] = MergeStep(a, b, steps[k - 1], k - steps[k - 1].taken)
<1> DEFINE n == Len(a) + Len(b)
           T == Taken(a, b)
           first == [taken |-> 0, out |-> <<>>]
           step == [x \in (1..n) \X T |-> MergeStep(a, b, x[2], x[1] - x[2].taken)]
           steps == MergeSteps(a, b)
<1>1. n \in Nat /\ first \in T
  BY DEF Taken
<1>2. ASSUME NEW k \in 1..n, NEW acc \in T PROVE MergeStep(a, b, acc, k - acc.taken) \in T
  <2>1. acc.taken \in Nat /\ acc.out \in Seq({a[i] : i \in Int} \cup {b[i] : i \in Int})
        /\ acc = [taken |-> acc.taken, out |-> acc.out]
    BY DEF Taken
  <2> DEFINE U == {a[i] : i \in Int} \cup {b[i] : i \in Int}
  <2>2. k - acc.taken \in Int /\ acc.taken + 1 \in Nat /\ acc.taken + 1 \in Int
    BY <1>1, <2>1
  <2>3. b[k - acc.taken] \in U /\ a[acc.taken + 1] \in U
    BY <2>2
  <2> HIDE DEF U
  <2>4. Append(acc.out, b[k - acc.taken]) \in Seq(U) /\ Append(acc.out, a[acc.taken + 1]) \in Seq(U)
    BY <2>1, <2>3 DEF U
  <2>5. \/ MergeStep(a, b, acc, k - acc.taken) = [taken |-> acc.taken, out |-> Append(acc.out, b[k - acc.taken])]
        \/ MergeStep(a, b, acc, k - acc.taken) = [taken |-> acc.taken + 1, out |-> Append(acc.out, a[acc.taken + 1])]
    BY <2>1 DEF MergeStep
  <2>6. \A t \in Nat, o \in Seq(U) : [taken |-> t, out |-> o] \in T
    BY DEF Taken, U
  <2> QED
    BY <2>1, <2>2, <2>4, <2>5, <2>6
<1>3. step \in [(1..n) \X T -> T]
  BY <1>2
<1>4. \A k \in 1..n, acc \in T : step[<<k, acc>>] = MergeStep(a, b, acc, k - acc.taken)
  OBVIOUS
<1> HIDE DEF n, T, step, first
<1>5. PICK f : Recursive(f, n, T, first, step)
  BY <1>1, <1>3, Recursion DEF StepOn
<1>6. /\ f \in [0..n -> T] /\ f[0] = first
      /\ \A k \in 1..n : f[k] = MergeStep(a, b, f[k - 1], k - f[k - 1].taken)
  <2>1. ASSUME NEW k \in 1..n PROVE f[k] = MergeStep(a, b, f[k - 1], k - f[k - 1].taken)
    <3>1. k - 1 \in 0..n
      BY <1>1
    <3> QED
      BY <1>4, <1>5, <3>1 DEF Recursive
  <2> QED
    BY <1>5, <2>1 DEF Recursive
<1>7. \A g, k : (CHOOSE next \in {MergeStep(a, b, acc, k - acc.taken) : acc \in {g[k - 1]}} : TRUE)
                 = MergeStep(a, b, g[k - 1], k - g[k - 1].taken)
  OBVIOUS
<1>8. f = [k \in 0..n |-> IF k = 0 THEN first
             ELSE CHOOSE next \in {MergeStep(a, b, acc, k - acc.taken) : acc \in {f[k - 1]}} : TRUE]
  <2>1. ASSUME NEW k \in 0..n, k # 0 PROVE f[k] = MergeStep(a, b, f[k - 1], k - f[k - 1].taken)
    BY <1>1, <1>6, <2>1
  <2> QED
    BY <1>6, <1>7, <2>1
<1>9. steps = [k \in 0..n |-> IF k = 0 THEN first
             ELSE CHOOSE next \in {MergeStep(a, b, acc, k - acc.taken) : acc \in {steps[k - 1]}} : TRUE]
  BY <1>8 DEF MergeSteps, n, first
<1> HIDE DEF steps
<1>10. 0 \in 0..n /\ \A k \in 1..n : k \in 0..n /\ k # 0
  BY <1>1
<1>11. steps[0] = first /\ \A k \in 1..n : steps[k] = MergeStep(a, b, steps[k - 1], k - steps[k - 1].taken)
  BY <1>7, <1>9, <1>10
<1> QED
  BY <1>11 DEF steps, n, first

\* A merge that took nothing has nothing.
LEMMA MergeStarts ==
    ASSUME NEW a \in Seq(Entries), NEW b \in Seq(Entries)
    PROVE  MergeMet(a, b, 0, 0, [taken |-> 0, out |-> <<>>])
<1> DEFINE acc == [taken |-> 0, out |-> <<>>]
<1>1. /\ acc = [taken |-> acc.taken, out |-> acc.out]
      /\ acc.taken = 0 /\ acc.out = <<>> /\ Len(acc.out) = 0 /\ acc.out \in Seq(Entries)
  OBVIOUS
<1> HIDE DEF acc
<1>2. Elements(acc.out) = {a[i] : i \in 1..0} \cup {b[j] : j \in 1..0} /\ Sorted(acc.out)
  BY <1>1 DEF Elements, Sorted
<1>3. MergeMet(a, b, 0, 0, acc)
  BY <1>1, <1>2 DEF MergeMet
<1> QED
  BY <1>3 DEF acc

\* Appending what is no less than all before it keeps a sequence sorted.
LEMMA AppendSorted ==
    ASSUME NEW s \in Seq(Entries), NEW e \in Entries, Sorted(s),
           \A m \in 1..Len(s) : s[m].start <= e.start
    PROVE  Sorted(Append(s, e))
<1> DEFINE t == Append(s, e)
<1>1. /\ Len(t) = Len(s) + 1 /\ Len(s) \in Nat
      /\ \A i \in 1..Len(s) : t[i] = s[i]
      /\ t[Len(s) + 1] = e
  BY AppendFacts
<1>2. e.start \in Nat
  BY DEF Entries
<1> HIDE DEF t
<1>3. ASSUME NEW i \in 1..Len(t), NEW j \in 1..Len(t), i <= j PROVE t[i].start <= t[j].start
  <2>1. CASE j \in 1..Len(s)
    <3>1. i \in 1..Len(s)
      BY <1>1, <1>3, <2>1
    <3> QED
      BY <1>1, <1>3, <2>1, <3>1 DEF Sorted
  <2>2. CASE j = Len(s) + 1
    <3>1. i \in 1..Len(s) \/ i = Len(s) + 1
      BY <1>1
    <3> QED
      BY <1>1, <1>2, <2>2, <3>1
  <2> QED
    BY <1>1, <2>1, <2>2
<1> QED
  BY <1>3 DEF Sorted, t

\* One step takes one entry more, of a or of b.
LEMMA MergeKeeps ==
    ASSUME NEW a \in Seq(Entries), NEW b \in Seq(Entries), NEW acc,
           NEW i \in 0..Len(a), NEW j \in 0..Len(b), i < Len(a) \/ j < Len(b),
           MergeMet(a, b, i, j, acc), NEW next, next = MergeStep(a, b, acc, j + 1)
    PROVE  \/ i < Len(a) /\ MergeMet(a, b, i + 1, j, next)
           \/ j < Len(b) /\ MergeMet(a, b, i, j + 1, next)
<1> DEFINE fromB == j + 1 <= Len(b) /\ (i + 1 <= Len(a) => b[j + 1].start < a[i + 1].start)
<1>1. /\ Len(a) \in Nat /\ Len(b) \in Nat /\ i \in Nat /\ j \in Nat /\ i + j \in Nat
      /\ acc.out \in Seq(Entries) /\ Len(acc.out) = i + j
      /\ Elements(acc.out) = {a[x] : x \in 1..i} \cup {b[x] : x \in 1..j}
  BY DEF MergeMet
<1>3. /\ \A x \in 1..Len(a) : a[x] \in Entries /\ a[x].start \in Nat
      /\ \A x \in 1..Len(b) : b[x] \in Entries /\ b[x].start \in Nat
  BY EntryFields
<1>4. ASSUME Sorted(a), Sorted(b)
      PROVE  /\ Sorted(acc.out)
             /\ i < Len(a) => \A m \in 1..(i + j) : acc.out[m].start <= a[i + 1].start
             /\ j < Len(b) => \A m \in 1..(i + j) : acc.out[m].start <= b[j + 1].start
  BY <1>4 DEF MergeMet
<1>5. acc.taken = i
  BY DEF MergeMet
<1>6. fromB => next = [taken |-> i, out |-> Append(acc.out, b[j + 1])]
  BY <1>5 DEF MergeStep
<1>7. ~fromB => next = [taken |-> i + 1, out |-> Append(acc.out, a[i + 1])]
  BY <1>5 DEF MergeStep
<1>8. /\ fromB => j + 1 <= Len(b) /\ (i < Len(a) => b[j + 1].start <= a[i + 1].start)
      /\ ~fromB => i + 1 <= Len(a) /\ (j < Len(b) => a[i + 1].start <= b[j + 1].start)
  <2>1. /\ i < Len(a) => i + 1 <= Len(a) /\ i + 1 \in 1..Len(a)
        /\ j < Len(b) => j + 1 <= Len(b) /\ j + 1 \in 1..Len(b)
        /\ i + 1 <= Len(a) => i < Len(a) /\ i + 1 \in 1..Len(a)
        /\ j + 1 <= Len(b) => j < Len(b) /\ j + 1 \in 1..Len(b)
    BY <1>1
  <2> QED
    BY <1>3, <2>1
<1> HIDE DEF fromB
<1>9. CASE fromB
  <2> DEFINE e == b[j + 1]
             out == Append(acc.out, e)
  <2>1. j + 1 \in 1..Len(b) /\ j < Len(b) /\ e \in Entries /\ e.start \in Nat
    <3>1. j + 1 \in 1..Len(b) /\ j < Len(b)
      BY <1>1, <1>8, <1>9
    <3> QED
      BY <1>3, <3>1
  <2>2. i < Len(a) => i + 1 \in 1..Len(a) /\ a[i + 1].start \in Nat /\ e.start <= a[i + 1].start
    BY <1>1, <1>3, <1>8, <1>9, <2>1
  <2>3. j + 1 < Len(b) /\ Sorted(b) =>
          j + 2 \in 1..Len(b) /\ b[j + 2].start \in Nat /\ e.start <= b[j + 2].start
    <3>1. j + 1 < Len(b) => j + 2 \in 1..Len(b) /\ j + 1 <= j + 2
      BY <1>1, <2>1
    <3> QED
      BY <1>3, <2>1, <3>1 DEF Sorted
  <2> HIDE DEF e
  <2>4. /\ out \in Seq(Entries) /\ Len(out) = i + j + 1
        /\ Elements(out) = Elements(acc.out) \cup {e}
        /\ \A m \in 1..(i + j) : out[m] = acc.out[m]
        /\ out[i + j + 1] = e
    <3>1. /\ out \in Seq(Entries) /\ Len(out) = Len(acc.out) + 1
          /\ Elements(out) = Elements(acc.out) \cup {e}
          /\ \A m \in 1..Len(acc.out) : out[m] = acc.out[m]
          /\ out[Len(acc.out) + 1] = e
      BY <1>1, <2>1, AppendFacts
    <3> HIDE DEF out
    <3> QED
      BY <1>1, <3>1
  <2>5. Sorted(a) /\ Sorted(b) => Sorted(out)
    <3>1. ASSUME Sorted(a), Sorted(b) PROVE \A m \in 1..Len(acc.out) : acc.out[m].start <= e.start
      BY <1>1, <1>4, <2>1, <3>1 DEF e
    <3> QED
      BY <1>1, <1>4, <2>1, <3>1, AppendSorted
  <2> HIDE DEF out
  <2>6. next.taken = i /\ next.out = out /\ next = [taken |-> next.taken, out |-> next.out]
    BY <1>6, <1>9 DEF out, e
  <2>7. Elements(out) = {a[x] : x \in 1..i} \cup {b[x] : x \in 1..(j + 1)}
    <3>1. 1..(j + 1) = 1..j \cup {j + 1}
      BY <1>1
    <3>2. {b[y] : y \in 1..(j + 1)} = {b[y] : y \in 1..j} \cup {e}
      BY <3>1 DEF e
    <3> QED
      BY <1>1, <2>4, <3>2
  <2>8. ASSUME Sorted(a), Sorted(b), NEW m \in 1..(i + j + 1)
        PROVE  /\ i < Len(a) => out[m].start <= a[i + 1].start
               /\ j + 1 < Len(b) => out[m].start <= b[j + 2].start
    <3>1. m \in 1..(i + j) \/ m = i + j + 1
      BY <1>1
    <3>2. out[m] \in Entries
      BY <2>4, <2>8
    <3>3. m \in 1..(i + j) => out[m].start <= e.start
      BY <1>4, <2>1, <2>4, <2>8 DEF e
    <3>4. m = i + j + 1 => out[m].start <= e.start
      BY <2>1, <2>4
    <3>5. out[m].start <= e.start /\ out[m].start \in Nat
      BY <3>1, <3>2, <3>3, <3>4 DEF Entries
    <3> QED
      BY <2>1, <2>2, <2>3, <2>8, <3>5, SMTT(30)
  <2>9. MergeMet(a, b, i, j + 1, next)
    <3>1. i \in Int /\ j \in Int
      BY <1>1
    <3>2. i + 1 + j = i + j + 1 /\ i + (j + 1) = i + j + 1 /\ j + 1 + 1 = j + 2
      BY <3>1
    <3> QED
      BY <2>4, <2>5, <2>6, <2>7, <2>8, <3>2 DEF MergeMet
  <2> QED
    BY <2>1, <2>9
<1>10. CASE ~fromB
  <2> DEFINE e == a[i + 1]
             out == Append(acc.out, e)
  <2>1. i + 1 \in 1..Len(a) /\ i < Len(a) /\ e \in Entries /\ e.start \in Nat
    <3>1. i + 1 \in 1..Len(a) /\ i < Len(a)
      BY <1>1, <1>8, <1>10
    <3> QED
      BY <1>3, <3>1
  <2>2. j < Len(b) => j + 1 \in 1..Len(b) /\ b[j + 1].start \in Nat /\ e.start <= b[j + 1].start
    BY <1>1, <1>3, <1>8, <1>10, <2>1
  <2>3. i + 1 < Len(a) /\ Sorted(a) =>
          i + 2 \in 1..Len(a) /\ a[i + 2].start \in Nat /\ e.start <= a[i + 2].start
    <3>1. i + 1 < Len(a) => i + 2 \in 1..Len(a) /\ i + 1 <= i + 2
      BY <1>1, <2>1
    <3> QED
      BY <1>3, <2>1, <3>1 DEF Sorted
  <2> HIDE DEF e
  <2>4. /\ out \in Seq(Entries) /\ Len(out) = i + j + 1
        /\ Elements(out) = Elements(acc.out) \cup {e}
        /\ \A m \in 1..(i + j) : out[m] = acc.out[m]
        /\ out[i + j + 1] = e
    <3>1. /\ out \in Seq(Entries) /\ Len(out) = Len(acc.out) + 1
          /\ Elements(out) = Elements(acc.out) \cup {e}
          /\ \A m \in 1..Len(acc.out) : out[m] = acc.out[m]
          /\ out[Len(acc.out) + 1] = e
      BY <1>1, <2>1, AppendFacts
    <3> HIDE DEF out
    <3> QED
      BY <1>1, <3>1
  <2>5. Sorted(a) /\ Sorted(b) => Sorted(out)
    <3>1. ASSUME Sorted(a), Sorted(b) PROVE \A m \in 1..Len(acc.out) : acc.out[m].start <= e.start
      BY <1>1, <1>4, <2>1, <3>1 DEF e
    <3> QED
      BY <1>1, <1>4, <2>1, <3>1, AppendSorted
  <2> HIDE DEF out
  <2>6. next.taken = i + 1 /\ next.out = out /\ next = [taken |-> next.taken, out |-> next.out]
    BY <1>7, <1>10 DEF out, e
  <2>7. Elements(out) = {a[x] : x \in 1..(i + 1)} \cup {b[x] : x \in 1..j}
    <3>1. 1..(i + 1) = 1..i \cup {i + 1}
      BY <1>1
    <3>2. {a[y] : y \in 1..(i + 1)} = {a[y] : y \in 1..i} \cup {e}
      BY <3>1 DEF e
    <3> QED
      BY <1>1, <2>4, <3>2
  <2>8. ASSUME Sorted(a), Sorted(b), NEW m \in 1..(i + j + 1)
        PROVE  /\ j < Len(b) => out[m].start <= b[j + 1].start
               /\ i + 1 < Len(a) => out[m].start <= a[i + 2].start
    <3>1. m \in 1..(i + j) \/ m = i + j + 1
      BY <1>1
    <3>2. out[m] \in Entries
      BY <2>4, <2>8
    <3>3. m \in 1..(i + j) => out[m].start <= e.start
      BY <1>4, <2>1, <2>4, <2>8 DEF e
    <3>4. m = i + j + 1 => out[m].start <= e.start
      BY <2>1, <2>4
    <3>5. out[m].start <= e.start /\ out[m].start \in Nat
      BY <3>1, <3>2, <3>3, <3>4 DEF Entries
    <3> QED
      BY <2>1, <2>2, <2>3, <2>8, <3>5
  <2>9. MergeMet(a, b, i + 1, j, next)
    <3>1. i \in Int /\ j \in Int
      BY <1>1
    <3>2. i + 1 + j = i + j + 1 /\ i + (j + 1) = i + j + 1 /\ i + 1 + 1 = i + 2
      BY <3>1
    <3> QED
      BY <2>4, <2>5, <2>6, <2>7, <2>8, <3>2 DEF MergeMet
  <2> QED
    BY <2>1, <2>9
<1> QED
  BY <1>9, <1>10

\* A merge keeps the entries, and of two sorted sequences makes a sorted one.
LEMMA MergeFacts ==
    ASSUME NEW a \in Seq(Entries), NEW b \in Seq(Entries)
    PROVE  /\ Merge(a, b) \in Seq(Entries) /\ Len(Merge(a, b)) = Len(a) + Len(b)
           /\ Elements(Merge(a, b)) = Elements(a) \cup Elements(b)
           /\ Sorted(a) /\ Sorted(b) => Sorted(Merge(a, b))
<1> DEFINE n == Len(a) + Len(b)
           steps == MergeSteps(a, b)
           Stands(k, acc) == \E i \in 0..Len(a), j \in 0..Len(b) :
                               i + j = k /\ MergeMet(a, b, i, j, acc)
           Met == {x \in (0..n) \X {steps[k] : k \in 0..n} : Stands(x[1], x[2])}
<1>1. n \in Nat /\ Len(a) \in Nat /\ Len(b) \in Nat
  OBVIOUS
<1>2. steps[0] = [taken |-> 0, out |-> <<>>] /\ \A k \in 1..n : steps[k] = MergeStep(a, b, steps[k - 1], k - steps[k - 1].taken)
  BY MergeUnfolds
<1> HIDE DEF steps
<1>3. Stands(0, steps[0])
  <2>1. 0 \in 0..Len(a) /\ 0 \in 0..Len(b) /\ 0 + 0 = 0
    BY <1>1
  <2> QED
    BY <1>2, <2>1, MergeStarts
<1>4. ASSUME NEW k \in 1..n, Stands(k - 1, steps[k - 1]) PROVE Stands(k, steps[k])
  <2>1. PICK i \in 0..Len(a), j \in 0..Len(b) : i + j = k - 1 /\ MergeMet(a, b, i, j, steps[k - 1])
    BY <1>4
  <2>2. i + j + 1 = k /\ (i < Len(a) \/ j < Len(b)) /\ i + 1 + j = k /\ i + (j + 1) = k
    BY <1>1, <2>1
  <2>3. steps[k] = MergeStep(a, b, steps[k - 1], j + 1)
    <3>1. steps[k - 1].taken = i
      BY <2>1 DEF MergeMet
    <3>2. k - i = j + 1
      BY <1>1, <2>1
    <3> QED
      BY <1>2, <3>1, <3>2
  <2>4. \/ i < Len(a) /\ MergeMet(a, b, i + 1, j, steps[k])
        \/ j < Len(b) /\ MergeMet(a, b, i, j + 1, steps[k])
    BY <2>1, <2>2, <2>3, MergeKeeps
  <2>5. /\ i < Len(a) => i + 1 \in 0..Len(a)
        /\ j < Len(b) => j + 1 \in 0..Len(b)
    BY <1>1
  <2> QED
    BY <2>2, <2>4, <2>5
<1> HIDE DEF Stands
<1>5. <<0, steps[0]>> \in Met
  BY <1>1, <1>3
<1>6. ASSUME NEW k \in 1..n, <<k - 1, steps[k - 1]>> \in Met PROVE <<k, steps[k]>> \in Met
  <2>1. k \in 0..n
    BY <1>1
  <2> QED
    BY <1>4, <1>6, <2>1
<1> HIDE DEF Met
<1>7. <<n, steps[n]>> \in Met
  <2>1. n \in 0..n
    BY <1>1
  <2> HIDE DEF n
  <2> QED
    BY <1>1, <1>5, <1>6, <2>1, AllAlong
<1>8. Stands(n, steps[n])
  BY <1>7 DEF Met
<1>9. PICK i \in 0..Len(a), j \in 0..Len(b) : i + j = n /\ MergeMet(a, b, i, j, steps[n])
  BY <1>8 DEF Stands
<1>10. i = Len(a) /\ j = Len(b)
  BY <1>1, <1>9
<1>11. MergeMet(a, b, Len(a), Len(b), steps[n])
  BY <1>9, <1>10
<1>12. Merge(a, b) = steps[n].out
  BY DEF Merge, steps
<1> HIDE DEF n
<1> QED
  BY <1>11, <1>12 DEF Elements, MergeMet

\* The steps of a sort insert one entry each.
LEMMA SortUnfolds ==
    ASSUME NEW s \in Seq(Entries)
    PROVE  LET steps == SortSteps(s)
           IN  /\ steps[0] = <<>>
               /\ \A k \in 1..Len(s) : steps[k] = Merge(steps[k - 1], <<s[k]>>)
<1> DEFINE n == Len(s)
           T == Seq(Entries)
           step == [x \in (1..n) \X T |-> Merge(x[2], <<s[x[1]]>>)]
           steps == SortSteps(s)
<1>1. n \in Nat /\ <<>> \in T /\ \A k \in 1..n : <<s[k]>> \in T
  OBVIOUS
<1>2. ASSUME NEW k \in 1..n, NEW t \in T PROVE Merge(t, <<s[k]>>) \in T
  BY <1>1, MergeFacts
<1>3. step \in [(1..n) \X T -> T]
  BY <1>2
<1>4. \A k \in 1..n, t \in T : step[<<k, t>>] = Merge(t, <<s[k]>>)
  OBVIOUS
<1> HIDE DEF n, T, step
<1>5. PICK f : Recursive(f, n, T, <<>>, step)
  BY <1>1, <1>3, Recursion DEF StepOn
<1>6. /\ f \in [0..n -> T] /\ f[0] = <<>>
      /\ \A k \in 1..n : f[k] = Merge(f[k - 1], <<s[k]>>)
  <2>1. ASSUME NEW k \in 1..n PROVE f[k] = Merge(f[k - 1], <<s[k]>>)
    <3>1. k - 1 \in 0..n
      BY <1>1
    <3> QED
      BY <1>4, <1>5, <3>1 DEF Recursive
  <2> QED
    BY <1>5, <2>1 DEF Recursive
<1>7. \A g, k : (CHOOSE next \in {Merge(t, <<s[k]>>) : t \in {g[k - 1]}} : TRUE) = Merge(g[k - 1], <<s[k]>>)
  OBVIOUS
<1>8. f = [k \in 0..n |-> IF k = 0 THEN <<>>
             ELSE CHOOSE next \in {Merge(t, <<s[k]>>) : t \in {f[k - 1]}} : TRUE]
  <2>1. ASSUME NEW k \in 0..n, k # 0 PROVE f[k] = Merge(f[k - 1], <<s[k]>>)
    BY <1>1, <1>6, <2>1
  <2> QED
    BY <1>6, <1>7, <2>1
<1>9. steps = [k \in 0..n |-> IF k = 0 THEN <<>>
             ELSE CHOOSE next \in {Merge(t, <<s[k]>>) : t \in {steps[k - 1]}} : TRUE]
  BY <1>8 DEF SortSteps, n
<1> HIDE DEF steps
<1>10. 0 \in 0..n /\ \A k \in 1..n : k \in 0..n /\ k # 0
  BY <1>1
<1>11. steps[0] = <<>> /\ \A k \in 1..n : steps[k] = Merge(steps[k - 1], <<s[k]>>)
  BY <1>7, <1>9, <1>10
<1> QED
  BY <1>11 DEF steps, n

\* Sorting by insertions keeps the entries and sorts them.
LEMMA SortFacts ==
    ASSUME NEW s \in Seq(Entries)
    PROVE  LET t == SortSteps(s)[Len(s)]
           IN  t \in Seq(Entries) /\ Sorted(t) /\ Elements(t) = Elements(s)
<1> DEFINE n == Len(s)
           steps == SortSteps(s)
           Good(k, t) == /\ t \in Seq(Entries) /\ Sorted(t)
                         /\ Elements(t) = {s[i] : i \in 1..k}
           Met == {x \in (0..n) \X Seq(Entries) : Good(x[1], x[2])}
<1>1. n \in Nat /\ n \in 0..n /\ \A k \in 1..n : s[k] \in Entries /\ k \in 0..n
  OBVIOUS
<1>2. steps[0] = <<>> /\ \A k \in 1..n : steps[k] = Merge(steps[k - 1], <<s[k]>>)
  BY SortUnfolds
<1> HIDE DEF steps
<1>3. Good(0, steps[0])
  BY <1>2 DEF Sorted, Elements
<1>4. ASSUME NEW k \in 1..n, Good(k - 1, steps[k - 1]) PROVE Good(k, steps[k])
  <2> DEFINE one == <<s[k]>>
  <2>1. one \in Seq(Entries) /\ Len(one) = 1 /\ one[1] = s[k] /\ s[k].start \in Nat
    BY <1>1 DEF Entries
  <2> HIDE DEF one
  <2>2. Sorted(one) /\ Elements(one) = {s[k]}
    BY <2>1 DEF Sorted, Elements
  <2>3. /\ Merge(steps[k - 1], one) \in Seq(Entries) /\ Sorted(Merge(steps[k - 1], one))
        /\ Elements(Merge(steps[k - 1], one)) = Elements(steps[k - 1]) \cup Elements(one)
    BY <1>4, <2>1, <2>2, MergeFacts
  <2>4. {s[i] : i \in 1..k} = {s[i] : i \in 1..(k - 1)} \cup {s[k]}
    <3>1. 1..k = 1..(k - 1) \cup {k}
      BY <1>1
    <3> QED
      BY <3>1
  <2>5. steps[k] = Merge(steps[k - 1], one)
    BY <1>2 DEF one
  <2> QED
    BY <1>4, <2>2, <2>3, <2>4, <2>5
<1> HIDE DEF n
<1>5. <<0, steps[0]>> \in Met
  BY <1>1, <1>3
<1>6. ASSUME NEW k \in 1..n, <<k - 1, steps[k - 1]>> \in Met PROVE <<k, steps[k]>> \in Met
  BY <1>1, <1>4, <1>6
<1> HIDE DEF Met
<1>7. <<n, steps[n]>> \in Met
  BY <1>1, <1>5, <1>6, AllAlong
<1> QED
  BY <1>7 DEF Met, Elements, n, steps

----------------------------------------------------------------------------
(* Searching by halves                                                     *)

Monotone(n, passes) == \A i, j \in 1..n : i <= j /\ passes[j] => passes[i]

HalfMet(n, passes, k, acc) ==
    /\ acc = [first |-> acc.first, len |-> acc.len]
    /\ acc.first \in Nat /\ acc.len \in Nat
    /\ acc.first + acc.len <= n /\ acc.len <= n - k
    /\ Monotone(n, passes) =>
         /\ \A i \in 1..n : i <= acc.first => passes[i]
         /\ \A i \in 1..n : i > acc.first + acc.len => ~passes[i]

\* A half less to search, and what lies outside is decided.
LEMMA HalfKeeps ==
    ASSUME NEW n \in Nat, NEW passes, NEW k \in 1..n, NEW acc, HalfMet(n, passes, k - 1, acc)
    PROVE  HalfMet(n, passes, k, HalfStep(passes, acc))
<1> DEFINE half == acc.len \div 2
           next == HalfStep(passes, acc)
<1>1. /\ acc = [first |-> acc.first, len |-> acc.len]
      /\ acc.first \in Nat /\ acc.len \in Nat
      /\ acc.first + acc.len <= n /\ acc.len <= n - (k - 1)
  BY DEF HalfMet
<1>2. /\ Monotone(n, passes) =>
         /\ \A i \in 1..n : i <= acc.first => passes[i]
         /\ \A i \in 1..n : i > acc.first + acc.len => ~passes[i]
  BY DEF HalfMet
<1>3. CASE acc.len = 0
  <2>1. next = acc
    BY <1>3 DEF HalfStep
  <2>2. acc.len <= n - k
    BY <1>1, <1>3
  <2> QED
    BY <1>1, <1>2, <2>1, <2>2 DEF HalfMet
<1>4. CASE acc.len # 0
  <2>1. half \in Nat /\ half < acc.len
    BY <1>1, <1>4
  <2> DEFINE mid == acc.first + half + 1
  <2>2. mid \in 1..n /\ acc.len - half - 1 \in Nat /\ mid \in Nat
    BY <1>1, <2>1
  <2>3. CASE passes[mid]
    <3>1. next = [first |-> mid, len |-> acc.len - half - 1]
      BY <1>4, <2>3 DEF HalfStep
    <3>2. /\ next.first = mid /\ next.len = acc.len - half - 1
          /\ next = [first |-> next.first, len |-> next.len]
      BY <3>1
    <3>3. mid + (acc.len - half - 1) = acc.first + acc.len
      BY <1>1, <2>1
    <3>6. Monotone(n, passes) => \A i \in 1..n : i > acc.first + acc.len => ~passes[i]
      BY <1>2
    <3>4. acc.len - half - 1 <= n - k
      BY <1>1, <2>1
    <3>5. Monotone(n, passes) => \A i \in 1..n : i <= mid => passes[i]
      BY <2>2, <2>3 DEF Monotone
    <3> HIDE DEF half, mid
    <3> QED
      BY <1>1, <2>2, <3>2, <3>3, <3>4, <3>5, <3>6 DEF HalfMet
  <2>4. CASE ~passes[mid]
    <3>1. next = [first |-> acc.first, len |-> half]
      BY <1>1, <1>4, <2>4 DEF HalfStep
    <3>2. /\ next.first = acc.first /\ next.len = half
          /\ next = [first |-> next.first, len |-> next.len]
      BY <3>1
    <3>3. half <= n - k /\ acc.first + half <= n
      BY <1>1, <2>1
    <3>4. Monotone(n, passes) => \A i \in 1..n : i > acc.first + half => ~passes[i]
      <4>1. \A i \in 1..n : i > acc.first + half => mid <= i
        BY <1>1, <2>1
      <4> HIDE DEF mid
      <4> QED
        BY <2>2, <2>4, <4>1 DEF Monotone
    <3> HIDE DEF half, mid
    <3> QED
      BY <1>1, <1>2, <2>1, <3>2, <3>3, <3>4 DEF HalfMet
  <2> QED
    BY <2>3, <2>4
<1> QED
  BY <1>3, <1>4

\* The steps of a search by halves follow each other by HalfStep.
LEMMA HalfUnfolds ==
    ASSUME NEW n \in Nat, NEW passes
    PROVE  LET steps == HalfSteps(n, passes)
           IN  /\ steps[0] = [first |-> 0, len |-> n]
               /\ \A k \in 1..n : steps[k] = HalfStep(passes, steps[k - 1])
<1> DEFINE T == [first : Nat, len : Nat]
           first == [first |-> 0, len |-> n]
           step == [x \in (1..n) \X T |-> HalfStep(passes, x[2])]
           steps == HalfSteps(n, passes)
<1>1. first \in T
  OBVIOUS
<1>2. ASSUME NEW acc \in T PROVE HalfStep(passes, acc) \in T
  <2>1. acc.first \in Nat /\ acc.len \in Nat /\ acc = [first |-> acc.first, len |-> acc.len]
    OBVIOUS
  <2> DEFINE half == acc.len \div 2
  <2>2. half \in Nat /\ (acc.len # 0 => acc.len - half - 1 \in Nat) /\ acc.first + half + 1 \in Nat
    BY <2>1
  <2>3. \/ HalfStep(passes, acc) = acc
        \/ acc.len # 0 /\ HalfStep(passes, acc) = [first |-> acc.first + half + 1, len |-> acc.len - half - 1]
        \/ HalfStep(passes, acc) = [first |-> acc.first, len |-> half]
    BY <2>1 DEF HalfStep
  <2> HIDE DEF half
  <2> QED
    BY <2>1, <2>2, <2>3
<1>3. step \in [(1..n) \X T -> T]
  BY <1>2
<1>4. \A k \in 1..n, acc \in T : step[<<k, acc>>] = HalfStep(passes, acc)
  OBVIOUS
<1> HIDE DEF T, step, first
<1>5. PICK f : Recursive(f, n, T, first, step)
  BY <1>1, <1>3, Recursion DEF StepOn
<1>6. /\ f \in [0..n -> T] /\ f[0] = first
      /\ \A k \in 1..n : f[k] = HalfStep(passes, f[k - 1])
  <2>1. ASSUME NEW k \in 1..n PROVE f[k] = HalfStep(passes, f[k - 1])
    <3>1. k - 1 \in 0..n
      OBVIOUS
    <3> QED
      BY <1>4, <1>5, <3>1 DEF Recursive
  <2> QED
    BY <1>5, <2>1 DEF Recursive
<1>7. \A g, k : (CHOOSE next \in {HalfStep(passes, acc) : acc \in {g[k - 1]}} : TRUE) = HalfStep(passes, g[k - 1])
  OBVIOUS
<1>8. f = [k \in 0..n |-> IF k = 0 THEN first
             ELSE CHOOSE next \in {HalfStep(passes, acc) : acc \in {f[k - 1]}} : TRUE]
  <2>1. ASSUME NEW k \in 0..n, k # 0 PROVE f[k] = HalfStep(passes, f[k - 1])
    BY <1>6, <2>1
  <2> QED
    BY <1>6, <1>7, <2>1
<1>9. steps = [k \in 0..n |-> IF k = 0 THEN first
             ELSE CHOOSE next \in {HalfStep(passes, acc) : acc \in {steps[k - 1]}} : TRUE]
  BY <1>8 DEF HalfSteps, first
<1> HIDE DEF steps
<1>10. 0 \in 0..n /\ \A k \in 1..n : k \in 0..n /\ k # 0
  OBVIOUS
<1>11. steps[0] = first /\ \A k \in 1..n : steps[k] = HalfStep(passes, steps[k - 1])
  BY <1>7, <1>9, <1>10
<1> QED
  BY <1>11 DEF steps, first

\* The search by halves counts, of a test that only the first ones pass, those.
LEMMA PartitionFacts ==
    ASSUME NEW n \in Nat, NEW passes, NEW p, p = PartitionPoint(n, passes)
    PROVE  /\ p \in 0..n
           /\ Monotone(n, passes) => \A i \in 1..n : (i <= p <=> passes[i])
<1> DEFINE steps == HalfSteps(n, passes)
           Met == {x \in (0..n) \X {steps[k] : k \in 0..n} : HalfMet(n, passes, x[1], x[2])}
<1>1. steps[0] = [first |-> 0, len |-> n] /\ \A k \in 1..n : steps[k] = HalfStep(passes, steps[k - 1])
  BY HalfUnfolds
<1> HIDE DEF steps
<1>2. 0 \in 0..n /\ n \in 0..n /\ \A k \in 1..n : k \in 0..n
  OBVIOUS
<1>3. HalfMet(n, passes, 0, steps[0])
  <2>1. /\ steps[0] = [first |-> steps[0].first, len |-> steps[0].len]
        /\ steps[0].first = 0 /\ steps[0].len = n
    BY <1>1
  <2> QED
    BY <2>1 DEF HalfMet
<1>4. <<0, steps[0]>> \in Met
  BY <1>2, <1>3
<1>5. ASSUME NEW k \in 1..n, <<k - 1, steps[k - 1]>> \in Met PROVE <<k, steps[k]>> \in Met
  <2>1. HalfMet(n, passes, k, steps[k])
    BY <1>1, <1>5, HalfKeeps
  <2> QED
    BY <1>2, <2>1
<1> HIDE DEF Met
<1>6. <<n, steps[n]>> \in Met
  BY <1>2, <1>4, <1>5, AllAlong
<1>7. HalfMet(n, passes, n, steps[n])
  BY <1>6 DEF Met
<1>8. p = steps[n].first
  BY DEF PartitionPoint, steps
<1>9. p \in Nat /\ steps[n].len = 0 /\ p + 0 <= n
  <2>1. /\ steps[n].first \in Nat /\ steps[n].len \in Nat
        /\ steps[n].first + steps[n].len <= n /\ steps[n].len <= n - n
    BY <1>7 DEF HalfMet
  <2> QED
    BY <1>8, <2>1
<1>10. Monotone(n, passes) => /\ \A i \in 1..n : i <= p => passes[i]
                             /\ \A i \in 1..n : i > p => ~passes[i]
  <2>1. p + steps[n].len = p
    BY <1>9
  <2> QED
    BY <1>7, <1>8, <2>1 DEF HalfMet
<1> QED
  BY <1>9, <1>10

----------------------------------------------------------------------------
(* The index                                                               *)

\* What the index holds, and that its base can be searched
Holds(ix, es) ==
    /\ ix = [base |-> ix.base, maxEnd |-> ix.maxEnd, pending |-> ix.pending]
    /\ ix.base \in Seq(Entries) /\ ix.maxEnd \in Seq(Nat) /\ ix.pending \in Seq(Entries)
    /\ Elements(ix.base) \cup Elements(ix.pending) = es
Searchable(ix) ==
    /\ Sorted(ix.base) /\ Len(ix.maxEnd) = Len(ix.base)
    /\ \A i, j \in 1..Len(ix.base) : j <= i => ix.base[j].end <= ix.maxEnd[i] /\ ix.maxEnd[j] <= ix.maxEnd[i]

\* The running maximum exists.
LEMMA LargestEnd ==
    ASSUME NEW base \in Seq(Entries), NEW i \in 1..Len(base)
    PROVE  \E m \in 1..i : \A j \in 1..i : base[j].end <= base[m].end
<1> DEFINE n == Len(base)
           Reached == {k \in 0..n : k = 0 \/ \E m \in 1..k : \A j \in 1..k : base[j].end <= base[m].end}
<1>1. n \in Nat /\ \A j \in 1..n : base[j].end \in Nat
  BY EntryFields
<1>2. 0 \in Reached
  BY <1>1
<1>3. ASSUME NEW k \in 1..n, k - 1 \in Reached PROVE k \in Reached
  <2>1. k \in 0..n /\ k \in 1..k /\ 1..k = 1..(k - 1) \cup {k} /\ 1..k \subseteq 1..n
    BY <1>1
  <2>2. CASE k - 1 = 0
    <3>1. 1..k = {k} /\ base[k].end \in Nat
      BY <1>1, <2>2
    <3>2. k \in 1..k /\ \A j \in 1..k : base[j].end <= base[k].end
      BY <3>1
    <3> QED
      BY <2>1, <3>2
  <2>3. CASE k - 1 # 0
    <3>1. PICK m \in 1..(k - 1) : \A j \in 1..(k - 1) : base[j].end <= base[m].end
      BY <1>3, <2>3
    <3>2. m \in 1..k /\ base[m].end \in Nat /\ base[k].end \in Nat
      BY <1>1, <2>1
    <3>3. CASE base[k].end <= base[m].end
      <4>1. \A j \in 1..k : base[j].end <= base[m].end
        BY <2>1, <3>1, <3>3
      <4> QED
        BY <2>1, <3>2, <4>1
    <3>4. CASE base[m].end <= base[k].end
      <4>1. \A j \in 1..k : base[j].end <= base[k].end
        <5>1. ASSUME NEW j \in 1..(k - 1) PROVE base[j].end <= base[k].end
          <6>1. base[j].end \in Nat /\ base[j].end <= base[m].end
            BY <1>1, <2>1, <3>1
          <6> QED
            BY <3>2, <3>4, <6>1
        <5> QED
          BY <2>1, <3>2, <5>1
      <4> QED
        BY <2>1, <4>1
    <3>5. base[k].end <= base[m].end \/ base[m].end <= base[k].end
      BY <3>2
    <3> QED
      BY <3>3, <3>4, <3>5
  <2> QED
    BY <2>2, <2>3
<1> HIDE DEF Reached
<1>4. 0..n \subseteq Reached
  BY <1>1, <1>2, <1>3, AllUpTo
<1>5. i \in 0..n /\ i # 0
  BY <1>1
<1> QED
  BY <1>4, <1>5 DEF Reached

\* The running maximum bounds the ends before it, and never falls.
LEMMA MaxEndFacts ==
    ASSUME NEW base \in Seq(Entries)
    PROVE  /\ prefixMaxEnd(base) \in Seq(Nat) /\ Len(prefixMaxEnd(base)) = Len(base)
           /\ \A i, j \in 1..Len(base) : j <= i =>
                /\ base[j].end <= prefixMaxEnd(base)[i]
                /\ prefixMaxEnd(base)[j] <= prefixMaxEnd(base)[i]
<1> DEFINE n == Len(base)
           top == prefixMaxEnd(base)
<1>1. n \in Nat /\ DOMAIN base = 1..n /\ \A j \in 1..n : base[j].end \in Nat
  BY EntryFields
<1>2. ASSUME NEW i \in 1..n
      PROVE  /\ top[i] \in {base[j].end : j \in 1..i}
             /\ \A j \in 1..i : base[j].end <= top[i]
  <2>1. PICK m \in 1..i : \A j \in 1..i : base[j].end <= base[m].end
    BY LargestEnd
  <2>2. \E e \in {base[j].end : j \in 1..i} : \A j \in 1..i : base[j].end <= e
    BY <2>1
  <2>3. top[i] = CHOOSE e \in {base[j].end : j \in 1..i} : \A j \in 1..i : base[j].end <= e
    BY <1>1 DEF prefixMaxEnd
  <2> QED
    BY <2>2, <2>3
<1>3. top = [i \in 1..n |-> top[i]]
  <2> DEFINE largest(i) == CHOOSE e \in {base[j].end : j \in 1..i} : \A j \in 1..i : base[j].end <= e
  <2>1. top = [i \in 1..n |-> largest(i)]
    BY <1>1 DEF prefixMaxEnd
  <2> HIDE DEF top, largest
  <2>2. \A i \in 1..n : top[i] = largest(i)
    BY <2>1
  <2>3. [i \in 1..n |-> largest(i)] = [i \in 1..n |-> top[i]]
    BY <2>2
  <2> QED
    BY <2>1, <2>3
<1> HIDE DEF top
<1>4. \A i \in 1..n : top[i] \in Nat
  <2>1. ASSUME NEW i \in 1..n PROVE top[i] \in Nat
    <3>1. 1..i \subseteq 1..n
      BY <1>1
    <3> QED
      BY <1>1, <1>2, <3>1
  <2> QED
    BY <2>1
<1>5. top \in Seq(Nat) /\ Len(top) = n
  <2>1. top \in [1..n -> Nat]
    BY <1>3, <1>4
  <2> QED
    BY <1>1, <2>1
<1>6. ASSUME NEW i \in 1..n, NEW j \in 1..n, j <= i
      PROVE  base[j].end <= top[i] /\ top[j] <= top[i]
  <2>1. j \in 1..i /\ 1..j \subseteq 1..i
    BY <1>1, <1>6
  <2>2. base[j].end <= top[i]
    BY <1>2, <2>1
  <2>3. PICK m \in 1..j : top[j] = base[m].end
    BY <1>2
  <2>4. base[m].end <= top[i]
    BY <1>2, <2>1
  <2> QED
    BY <2>2, <2>3, <2>4
<1> QED
  BY <1>5, <1>6 DEF top, n

\* Merging the tail keeps what the index holds, and keeps it searchable.
LEMMA MergedFacts ==
    ASSUME NEW ix, NEW es, Holds(ix, es)
    PROVE  /\ Holds(mergeSorted(ix), es)
           /\ Searchable(ix) => Searchable(mergeSorted(ix))
<1>1. /\ ix.base \in Seq(Entries) /\ ix.pending \in Seq(Entries)
      /\ Elements(ix.base) \cup Elements(ix.pending) = es
  BY DEF Holds
<1>2. CASE ix.pending = <<>>
  <2>1. mergeSorted(ix) = ix
    BY <1>2 DEF mergeSorted
  <2> QED
    BY <2>1
<1>3. CASE ix.pending # <<>>
  <2> DEFINE tail == SortSteps(ix.pending)[Len(ix.pending)]
             base == Merge(ix.base, tail)
             merged == mergeSorted(ix)
  <2>1. tail \in Seq(Entries) /\ Sorted(tail) /\ Elements(tail) = Elements(ix.pending)
    BY <1>1, SortFacts
  <2>2. merged = [base |-> base, maxEnd |-> prefixMaxEnd(base), pending |-> <<>>]
    BY <1>3 DEF mergeSorted
  <2> HIDE DEF tail
  <2>3. /\ base \in Seq(Entries) /\ Elements(base) = Elements(ix.base) \cup Elements(tail)
        /\ Sorted(ix.base) => Sorted(base)
    BY <1>1, <2>1, MergeFacts
  <2> HIDE DEF base, merged
  <2>4. /\ prefixMaxEnd(base) \in Seq(Nat) /\ Len(prefixMaxEnd(base)) = Len(base)
        /\ \A i, j \in 1..Len(base) : j <= i =>
             /\ base[j].end <= prefixMaxEnd(base)[i]
             /\ prefixMaxEnd(base)[j] <= prefixMaxEnd(base)[i]
    BY <2>3, MaxEndFacts
  <2>5. /\ merged = [base |-> merged.base, maxEnd |-> merged.maxEnd, pending |-> merged.pending]
        /\ merged.base = base /\ merged.maxEnd = prefixMaxEnd(base) /\ merged.pending = <<>>
    BY <2>2
  <2>6. merged.pending \in Seq(Entries) /\ Elements(merged.pending) = {}
    BY <2>5 DEF Elements
  <2>7. Holds(merged, es)
    BY <1>1, <2>1, <2>3, <2>4, <2>5, <2>6 DEF Holds
  <2>8. Searchable(ix) => Searchable(merged)
    BY <2>3, <2>4, <2>5 DEF Searchable
  <2> QED
    BY <2>7, <2>8 DEF merged
<1> QED
  BY <1>2, <1>3

\* Adding an entry adds just that one.
LEMMA AddedFacts ==
    ASSUME NEW ix, NEW es, Holds(ix, es), NEW e \in Entries
    PROVE  /\ Holds(Added(ix, e), es \cup {e})
           /\ Searchable(ix) => Searchable(Added(ix, e))
<1> DEFINE tail == [ix EXCEPT !.pending = Append(@, e)]
<1>1. /\ ix = [base |-> ix.base, maxEnd |-> ix.maxEnd, pending |-> ix.pending]
      /\ ix.base \in Seq(Entries) /\ ix.maxEnd \in Seq(Nat) /\ ix.pending \in Seq(Entries)
      /\ Elements(ix.base) \cup Elements(ix.pending) = es
  BY DEF Holds
<1>2. tail = [base |-> ix.base, maxEnd |-> ix.maxEnd, pending |-> Append(ix.pending, e)]
  <2>1. PICK b, m, t : ix = [base |-> b, maxEnd |-> m, pending |-> t]
    BY <1>1
  <2> QED
    BY <2>1
<1>3. /\ Append(ix.pending, e) \in Seq(Entries)
      /\ Elements(Append(ix.pending, e)) = Elements(ix.pending) \cup {e}
  BY <1>1, AppendFacts
<1>4. Added(ix, e) = tail \/ Added(ix, e) = mergeSorted(tail)
  BY DEF Added
<1> HIDE DEF tail
<1>5. /\ tail = [base |-> tail.base, maxEnd |-> tail.maxEnd, pending |-> tail.pending]
      /\ tail.base = ix.base /\ tail.maxEnd = ix.maxEnd /\ tail.pending = Append(ix.pending, e)
  BY <1>2
<1>6. Holds(tail, es \cup {e})
  BY <1>1, <1>3, <1>5 DEF Holds
<1>7. Searchable(ix) => Searchable(tail)
  BY <1>5 DEF Searchable
<1> QED
  BY <1>4, <1>6, <1>7, MergedFacts

\* An empty index holds nothing.
LEMMA EmptyFacts == Holds(Empty, {}) /\ Searchable(Empty)
<1>1. /\ Empty = [base |-> Empty.base, maxEnd |-> Empty.maxEnd, pending |-> Empty.pending]
      /\ Empty.base = <<>> /\ Empty.maxEnd = <<>> /\ Empty.pending = <<>>
      /\ Len(Empty.base) = 0 /\ Len(Empty.maxEnd) = 0
      /\ Empty.base \in Seq(Entries) /\ Empty.maxEnd \in Seq(Nat)
  BY DEF Empty
<1>2. Elements(Empty.base) = {} /\ Elements(Empty.pending) = {}
  BY <1>1 DEF Elements
<1> QED
  BY <1>1, <1>2 DEF Holds, Searchable, Sorted

----------------------------------------------------------------------------
(* Spans that meet                                                         *)

\* Two spans are the same only if they share a sector, whichever comes first.
LEMMA SameFacts ==
    ASSUME NEW a \in Entries, NEW b \in Entries, Same(a, b)
    PROVE  Same(b, a) /\ a.start <= b.end /\ b.start <= a.end
<1>1. /\ a.start \in Nat /\ a.end \in Nat
      /\ b.start \in Nat /\ b.end \in Nat
  BY DEF Entries
<1>2. /\ Lesser(Span(a), Span(b)) = Lesser(Span(b), Span(a))
      /\ Lesser(a.end, b.end) = Lesser(b.end, a.end)
      /\ Greater(a.start, b.start) = Greater(b.start, a.start)
  BY <1>1 DEF Lesser, Greater, Span
<1>3. overlapSectorCount(a, b) = overlapSectorCount(b, a)
  BY <1>2 DEF overlapSectorCount
<1>4. Lesser(Span(a), Span(b)) >= 1
  BY <1>1 DEF Lesser, Span
<1>5. Lesser(a.end, b.end) - Greater(a.start, b.start) + 1 > 0
  <2> DEFINE n == Lesser(a.end, b.end) - Greater(a.start, b.start) + 1
  <2>1. n \in Int /\ Lesser(Span(a), Span(b)) \in Int
    BY <1>1 DEF Lesser, Greater, Span
  <2>2. (IF n > 0 THEN n ELSE 0) * 2 >= Lesser(Span(a), Span(b))
    BY DEF Same, overlapSectorCount
  <2> HIDE DEF n
  <2>3. n > 0
    BY <1>4, <2>1, <2>2
  <2> QED
    BY <2>3 DEF n
<1>6. a.start <= b.end /\ b.start <= a.end
  BY <1>1, <1>5 DEF Lesser, Greater
<1>7. Same(b, a)
  BY <1>2, <1>3 DEF Same
<1> QED
  BY <1>6, <1>7

----------------------------------------------------------------------------
(* What a search looks at                                                  *)

Starts(ix, q) == [i \in DOMAIN ix.base |-> ix.base[i].start <= q.end]
Short(ix, q, hi) == [i \in 1..hi |-> ix.maxEnd[i] < q.start]

\* A search looks only at entries of the index, and at all that meet the query
\* when the base is sorted and no longer than the window.
LEMMA ExaminedFacts ==
    ASSUME NEW ix, NEW es, Holds(ix, es), NEW q \in Entries
    PROVE  /\ Examined(ix, q) \subseteq es
           /\ Searchable(ix) /\ Len(ix.base) <= MaxWindowScan + 1 =>
                \A e \in es : e.start <= q.end /\ q.start <= e.end => e \in Examined(ix, q)
<1> DEFINE n == Len(ix.base)
           hi == PartitionPoint(n, Starts(ix, q))
           p == PartitionPoint(hi, Short(ix, q, hi))
           window == ((p + 1)..Lesser(hi, p + 1 + EdgeProbe - 1))
                     \cup (Greater(p + 1, hi - MaxWindowScan)..hi)
<1>1. /\ ix.base \in Seq(Entries) /\ ix.maxEnd \in Seq(Nat) /\ ix.pending \in Seq(Entries)
      /\ Elements(ix.base) \cup Elements(ix.pending) = es
      /\ n \in Nat /\ DOMAIN ix.base = 1..n /\ DOMAIN ix.pending = 1..Len(ix.pending)
      /\ q.start \in Nat /\ q.end \in Nat
      /\ MaxWindowScan \in Nat /\ EdgeProbe \in Nat
  BY DedupAssumption DEF Holds, Entries
<1>2. hi \in 0..n /\ (Monotone(n, Starts(ix, q)) => \A i \in 1..n : (i <= hi <=> Starts(ix, q)[i]))
  BY <1>1, PartitionFacts
<1>3. Examined(ix, q) = Elements(ix.pending)
        \cup (IF ix.base = <<>> \/ Len(ix.maxEnd) # n THEN {} ELSE {ix.base[i] : i \in window})
  BY <1>1 DEF Examined, Elements, Starts, Short
<1> HIDE DEF hi
<1>4. p \in 0..hi /\ (Monotone(hi, Short(ix, q, hi)) => \A i \in 1..hi : (i <= p <=> Short(ix, q, hi)[i]))
  <2>1. hi \in Nat
    BY <1>1, <1>2
  <2> QED
    BY <2>1, PartitionFacts
<1> HIDE DEF p
<1>5. window \subseteq 1..hi /\ window \subseteq 1..n
  BY <1>1, <1>2, <1>4 DEF Lesser, Greater
<1>6. Examined(ix, q) \subseteq es
  <2>1. {ix.base[i] : i \in window} \subseteq Elements(ix.base)
    BY <1>5 DEF Elements
  <2> HIDE DEF window
  <2> QED
    BY <1>1, <1>3, <2>1
<1>7. ASSUME Searchable(ix), n <= MaxWindowScan + 1, NEW i \in 1..n,
             ix.base[i].start <= q.end, q.start <= ix.base[i].end
      PROVE  ix.base[i] \in Examined(ix, q)
  <2>1. /\ Len(ix.maxEnd) = n /\ Sorted(ix.base)
        /\ \A x, y \in 1..n : y <= x => ix.base[y].end <= ix.maxEnd[x] /\ ix.maxEnd[y] <= ix.maxEnd[x]
    BY <1>7 DEF Searchable
  <2>2. \A x \in 1..n : ix.base[x].start \in Nat /\ ix.base[x].end \in Nat /\ ix.maxEnd[x] \in Nat
    <3>1. \A x \in 1..n : ix.maxEnd[x] \in Nat
      BY <1>1, <2>1
    <3>2. \A x \in 1..n : ix.base[x].start \in Nat /\ ix.base[x].end \in Nat
      BY <1>1, EntryFields
    <3> QED
      BY <3>1, <3>2
  <2>3. Monotone(n, Starts(ix, q))
    <3>1. ASSUME NEW x \in 1..n, NEW y \in 1..n, x <= y, Starts(ix, q)[y] PROVE Starts(ix, q)[x]
      <4>1. ix.base[y].start <= q.end /\ ix.base[x].start <= ix.base[y].start
        BY <1>1, <2>1, <3>1 DEF Starts, Sorted
      <4>2. ix.base[x].start <= q.end
        BY <1>1, <2>2, <4>1
      <4> QED
        BY <1>1, <4>2 DEF Starts
    <3> QED
      BY <3>1 DEF Monotone
  <2>4. i <= hi
    BY <1>1, <1>2, <1>7, <2>3 DEF Starts
  <2>5. Monotone(hi, Short(ix, q, hi))
    <3>1. ASSUME NEW x \in 1..hi, NEW y \in 1..hi, x <= y, Short(ix, q, hi)[y] PROVE Short(ix, q, hi)[x]
      <4>1. x \in 1..n /\ y \in 1..n
        BY <1>1, <1>2
      <4>2. ix.maxEnd[y] < q.start /\ ix.maxEnd[x] <= ix.maxEnd[y]
        BY <2>1, <3>1, <4>1 DEF Short
      <4>3. ix.maxEnd[x] < q.start
        BY <1>1, <2>2, <4>1, <4>2, SMTT(30)
      <4> QED
        BY <4>3 DEF Short
    <3> QED
      BY <3>1 DEF Monotone
  <2>6. ~(i <= p)
    <3>1. i \in 1..hi /\ i <= i
      BY <1>1, <1>2, <2>4
    <3>2. q.start <= ix.maxEnd[i] /\ ix.maxEnd[i] \in Nat
      <4>1. ix.base[i].end <= ix.maxEnd[i] /\ ix.base[i].end \in Nat /\ ix.maxEnd[i] \in Nat
        BY <2>1, <2>2, <3>1
      <4> QED
        BY <1>1, <1>7, <4>1, SMTT(30)
    <3>3. ~(ix.maxEnd[i] < q.start)
      BY <1>1, <3>2
    <3>4. ~Short(ix, q, hi)[i]
      BY <3>1, <3>3 DEF Short
    <3> QED
      BY <1>4, <2>5, <3>1, <3>4
  <2>7. i \in window /\ ix.base # <<>>
    BY <1>1, <1>2, <1>4, <1>7, <2>4, <2>6 DEF Greater
  <2> HIDE DEF window
  <2> QED
    BY <1>3, <2>1, <2>7
<1>8. ASSUME Searchable(ix), n <= MaxWindowScan + 1, NEW e \in es, e.start <= q.end, q.start <= e.end
      PROVE  e \in Examined(ix, q)
  <2>1. CASE e \in Elements(ix.pending)
    BY <1>3, <2>1
  <2>2. CASE e \in Elements(ix.base)
    <3>1. PICK i \in 1..n : e = ix.base[i]
      BY <2>2 DEF Elements
    <3> QED
      BY <1>7, <1>8, <3>1
  <2> QED
    BY <1>1, <2>1, <2>2
<1> QED
  BY <1>6, <1>8

\* What a search finds is one of the entries; in a base it can search, that is
\* not longer than the window, it finds every entry that is the same.
LEMMA FindFacts ==
    ASSUME NEW ix, NEW es, Holds(ix, es), NEW q \in Entries
    PROVE  /\ findOverlap(ix, q) => \E e \in es : Same(e, q)
           /\ Searchable(ix) /\ Len(ix.base) <= MaxWindowScan + 1 /\ ~findOverlap(ix, q) =>
                \A e \in es : ~Same(q, e)
<1>1. es \subseteq Entries
  <2>1. /\ ix.base \in Seq(Entries) /\ ix.pending \in Seq(Entries)
        /\ Elements(ix.base) \cup Elements(ix.pending) = es
    BY DEF Holds
  <2>2. Elements(ix.base) \subseteq Entries /\ Elements(ix.pending) \subseteq Entries
    BY <2>1 DEF Elements
  <2> QED
    BY <2>1, <2>2
<1>2. ASSUME Searchable(ix), Len(ix.base) <= MaxWindowScan + 1, NEW e \in es, Same(q, e)
      PROVE  findOverlap(ix, q)
  <2>1. Same(e, q) /\ q.start <= e.end /\ e.start <= q.end
    BY <1>1, <1>2, SameFacts
  <2>2. e \in Examined(ix, q)
    BY <1>2, <2>1, ExaminedFacts
  <2> QED
    BY <2>1, <2>2 DEF findOverlap
<1>3. findOverlap(ix, q) => \E e \in es : Same(e, q)
  BY ExaminedFacts DEF findOverlap
<1> QED
  BY <1>2, <1>3

----------------------------------------------------------------------------
(* Hashes                                                                  *)

\* Every hash of the table is that of a carve, with its size.
Tables == UNION {[d -> Nat] : d \in SUBSET {r.hash : r \in Records}}
Linked(table, rs) ==
    /\ table \in Tables
    /\ \A h \in DOMAIN table :
         /\ h # NoHash
         /\ \E r \in rs : r.kind = "carve" /\ r.hash = h /\ r.size = table[h]

\* A carve more in the table: the hash it had stays, a new one is that of the carve.
LEMMA HashedFacts ==
    ASSUME NEW table \in Tables, NEW r \in Records
    PROVE  /\ Hashed(table, r) \in Tables
           /\ \A rs : Linked(table, rs) /\ r.kind = "carve" => Linked(Hashed(table, r), rs \cup {r})
<1> DEFINE H == {x.hash : x \in Records}
<1>1. PICK d \in SUBSET H : table \in [d -> Nat]
  BY DEF Tables
<1>2. r.hash \in H /\ r.size \in Nat
  BY EntryFacts
<1> HIDE DEF H
<1>3. CASE r.hash = NoHash \/ r.hash \in DOMAIN table
  <2>1. Hashed(table, r) = table
    BY <1>3 DEF Hashed
  <2> QED
    BY <2>1 DEF Linked
<1>4. CASE r.hash # NoHash /\ r.hash \notin DOMAIN table
  <2> DEFINE more == [h \in d \cup {r.hash} |-> IF h = r.hash THEN r.size ELSE table[h]]
  <2>1. Hashed(table, r) = more
    BY <1>1, <1>4 DEF Hashed
  <2>2. /\ DOMAIN more = d \cup {r.hash} /\ more[r.hash] = r.size
        /\ \A h \in d : h # r.hash /\ more[h] = table[h]
    BY <1>1, <1>4
  <2>3. more \in [d \cup {r.hash} -> Nat] /\ d \cup {r.hash} \in SUBSET H
    BY <1>1, <1>2
  <2> HIDE DEF more
  <2>4. more \in Tables
    BY <2>3 DEF Tables, H
  <2>5. ASSUME NEW rs, Linked(table, rs), r.kind = "carve" PROVE Linked(more, rs \cup {r})
    <3>1. DOMAIN table = d
      BY <1>1
    <3>2. ASSUME NEW h \in d
          PROVE h # NoHash /\ \E x \in rs \cup {r} : x.kind = "carve" /\ x.hash = h /\ x.size = more[h]
      BY <2>2, <2>5, <3>1, <3>2 DEF Linked
    <3> QED
      BY <1>4, <2>2, <2>4, <2>5, <3>2 DEF Linked
  <2> QED
    BY <2>1, <2>4, <2>5
<1> QED
  BY <1>3, <1>4

----------------------------------------------------------------------------
(* Loading                                                                 *)

SpansOf(rs, kind) == {Entry(r) : r \in {x \in rs : x.kind = kind}}
Hits(rs) == {x \in rs : x.kind = "metadata" /\ Placed(x)}
Part(s, k) == {s[i] : i \in 1..k}

\* What has been read of the first k records
LoadMet(s, k, acc) ==
    /\ Holds(acc.hits, SpansOf(Hits(Part(s, k)), "metadata")) /\ Searchable(acc.hits)
    /\ acc.carves \in Seq(Entries) /\ Elements(acc.carves) = SpansOf(Part(s, k), "carve")
    /\ Linked(acc.hashes, Part(s, k))

Indexes == [base : Seq(Entries), maxEnd : Seq(Nat), pending : Seq(Entries)]
Loading == [hits : Indexes, carves : Seq(Entries), hashes : Tables]

\* One record of a resume, without updates in place
LEMMA LoadOneIs ==
    ASSUME NEW acc \in Loading, NEW r
    PROVE  LoadOne(acc, r) =
             IF r.kind = "carve"
             THEN [hits |-> acc.hits, carves |-> Append(acc.carves, Entry(r)), hashes |-> Hashed(acc.hashes, r)]
             ELSE IF Placed(r)
             THEN [hits |-> Added(acc.hits, Entry(r)), carves |-> acc.carves, hashes |-> acc.hashes]
             ELSE acc
<1>1. PICK h, c, t : acc = [hits |-> h, carves |-> c, hashes |-> t]
  BY DEF Loading
<1>2. acc.hits = h /\ acc.carves = c /\ acc.hashes = t
  BY <1>1
<1>3. \A x : [acc EXCEPT !.hits = x] = [hits |-> x, carves |-> c, hashes |-> t]
  BY <1>1
<1> DEFINE z == Added(acc.hits, Entry(r))
<1>4. LoadOne(acc, r) =
        IF r.kind = "carve"
        THEN [hits |-> acc.hits, carves |-> Append(acc.carves, Entry(r)), hashes |-> Hashed(acc.hashes, r)]
        ELSE IF Placed(r) THEN [acc EXCEPT !.hits = z] ELSE acc
  BY DEF LoadOne
<1>5. [acc EXCEPT !.hits = z] = [hits |-> z, carves |-> acc.carves, hashes |-> acc.hashes]
  <2> HIDE DEF z
  <2> QED
    BY <1>2, <1>3
<1> QED
  BY <1>4, <1>5

\* The steps of a resume follow each other by LoadOne.
LEMMA LoadUnfolds ==
    ASSUME NEW s \in Seq(Records), contentHashes \in Tables
    PROVE  LET steps == LoadSteps(s)
           IN  /\ steps \in [0..Len(s) -> Loading]
               /\ steps[0] = [hits |-> Empty, carves |-> <<>>, hashes |-> contentHashes]
               /\ \A k \in 1..Len(s) : steps[k] = LoadOne(steps[k - 1], s[k])
<1> DEFINE n == Len(s)
           T == Loading
           first == [hits |-> Empty, carves |-> <<>>, hashes |-> contentHashes]
           step == [x \in (1..n) \X T |-> LoadOne(x[2], s[x[1]])]
           steps == LoadSteps(s)
<1>0. n \in Nat /\ \A k \in 1..n : s[k] \in Records
  OBVIOUS
<1>1. first \in T
  BY DEF Loading, Indexes, Empty
<1>2. ASSUME NEW k \in 1..n, NEW acc \in T PROVE LoadOne(acc, s[k]) \in T
  <2>1. acc.hits \in Indexes /\ acc.carves \in Seq(Entries) /\ acc.hashes \in Tables
    BY DEF Loading
  <2>2. s[k] \in Records /\ Entry(s[k]) \in Entries
    BY <1>0, EntryFacts
  <2>3. Hashed(acc.hashes, s[k]) \in Tables
    BY <2>1, <2>2, HashedFacts
  <2>4. Append(acc.carves, Entry(s[k])) \in Seq(Entries)
    BY <2>1, <2>2
  <2>5. Added(acc.hits, Entry(s[k])) \in Indexes
    <3>1. Holds(acc.hits, Elements(acc.hits.base) \cup Elements(acc.hits.pending))
      BY <2>1 DEF Holds, Indexes
    <3>2. \E es : Holds(Added(acc.hits, Entry(s[k])), es)
      BY <2>2, <3>1, AddedFacts
    <3> QED
      BY <3>2 DEF Holds, Indexes
  <2> DEFINE x == Append(acc.carves, Entry(s[k]))
             y == Hashed(acc.hashes, s[k])
             z == Added(acc.hits, Entry(s[k]))
  <2>6. \/ LoadOne(acc, s[k]) = [hits |-> acc.hits, carves |-> x, hashes |-> y]
        \/ LoadOne(acc, s[k]) = [hits |-> z, carves |-> acc.carves, hashes |-> acc.hashes]
        \/ LoadOne(acc, s[k]) = acc
    BY LoadOneIs
  <2>7. x \in Seq(Entries) /\ y \in Tables /\ z \in Indexes
    BY <2>3, <2>4, <2>5
  <2> HIDE DEF x, y, z
  <2> QED
    BY <2>1, <2>6, <2>7 DEF Loading
<1>3. step \in [(1..n) \X T -> T]
  BY <1>2
<1>4. \A k \in 1..n, acc \in T : step[<<k, acc>>] = LoadOne(acc, s[k])
  OBVIOUS
<1> HIDE DEF n, T, step, first
<1>5. PICK f : Recursive(f, n, T, first, step)
  BY <1>0, <1>1, <1>3, Recursion DEF StepOn
<1>6. /\ f \in [0..n -> T] /\ f[0] = first
      /\ \A k \in 1..n : f[k] = LoadOne(f[k - 1], s[k])
  <2>1. ASSUME NEW k \in 1..n PROVE f[k] = LoadOne(f[k - 1], s[k])
    <3>1. k - 1 \in 0..n
      BY <1>0
    <3> QED
      BY <1>4, <1>5, <3>1 DEF Recursive
  <2> QED
    BY <1>5, <2>1 DEF Recursive
<1>7. \A g, k : (CHOOSE next \in {LoadOne(acc, s[k]) : acc \in {g[k - 1]}} : TRUE) = LoadOne(g[k - 1], s[k])
  OBVIOUS
<1>8. f = [k \in 0..n |-> IF k = 0 THEN first
             ELSE CHOOSE next \in {LoadOne(acc, s[k]) : acc \in {f[k - 1]}} : TRUE]
  <2>1. ASSUME NEW k \in 0..n, k # 0 PROVE f[k] = LoadOne(f[k - 1], s[k])
    BY <1>0, <1>6, <2>1
  <2> QED
    BY <1>6, <1>7, <2>1
<1>9. steps = [k \in 0..n |-> IF k = 0 THEN first
             ELSE CHOOSE next \in {LoadOne(acc, s[k]) : acc \in {steps[k - 1]}} : TRUE]
  BY <1>8 DEF LoadSteps, n, first
<1> HIDE DEF steps
<1>10. 0 \in 0..n /\ \A k \in 1..n : k \in 0..n /\ k # 0
  BY <1>0
<1>11. steps[0] = first /\ \A k \in 1..n : steps[k] = LoadOne(steps[k - 1], s[k])
  BY <1>7, <1>9, <1>10
<1>12. \A k \in 0..n : steps[k] \in T
  <2>1. 0..n \subseteq {k \in 0..n : steps[k] \in T}
    <3> DEFINE S == {k \in 0..n : steps[k] \in T}
    <3>1. 0 \in S
      BY <1>1, <1>10, <1>11
    <3>2. \A k \in 1..n : k - 1 \in S => k \in S
      <4>1. ASSUME NEW k \in 1..n, steps[k - 1] \in T PROVE steps[k] \in T
        BY <1>2, <1>11, <4>1
      <4> QED
        BY <1>10, <4>1
    <3> HIDE DEF S
    <3> QED
      BY <1>0, <3>1, <3>2, AllUpTo DEF S
  <2> QED
    BY <2>1
<1>13. steps = [k \in 0..n |-> steps[k]]
  BY <1>9
<1> QED
  BY <1>11, <1>12, <1>13 DEF steps, n, first, T

\* A resume has read all of its records.
LEMMA LoadFacts ==
    ASSUME NEW s \in Seq(Records), contentHashes \in Tables, DOMAIN contentHashes = {}
    PROVE  LoadMet(s, Len(s), LoadSteps(s)[Len(s)])
<1> DEFINE n == Len(s)
           steps == LoadSteps(s)
           Met == {x \in (0..n) \X Loading : LoadMet(s, x[1], x[2])}
<1>1. n \in Nat /\ n \in 0..n /\ 0 \in 0..n /\ \A k \in 1..n : k \in 0..n /\ k - 1 \in 0..n /\ s[k] \in Records
  OBVIOUS
<1>2. /\ steps \in [0..n -> Loading]
      /\ steps[0] = [hits |-> Empty, carves |-> <<>>, hashes |-> contentHashes]
      /\ \A k \in 1..n : steps[k] = LoadOne(steps[k - 1], s[k])
  BY LoadUnfolds
<1> HIDE DEF steps
<1>3. LoadMet(s, 0, steps[0])
  <2>1. steps[0].hits = Empty /\ steps[0].carves = <<>> /\ steps[0].hashes = contentHashes
    BY <1>2
  <2>2. Part(s, 0) = {}
    BY DEF Part
  <2>3. SpansOf(Hits(Part(s, 0)), "metadata") = {} /\ SpansOf(Part(s, 0), "carve") = {}
    BY <2>2 DEF SpansOf, Hits
  <2>4. <<>> \in Seq(Entries) /\ Elements(<<>>) = {}
    BY DEF Elements
  <2> QED
    BY <2>1, <2>3, <2>4, EmptyFacts DEF LoadMet, Linked
<1>4. ASSUME NEW k \in 1..n, LoadMet(s, k - 1, steps[k - 1]) PROVE LoadMet(s, k, steps[k])
  <2> DEFINE acc == steps[k - 1]
             r == s[k]
             old == Part(s, k - 1)
  <2>1. /\ acc \in Loading /\ r \in Records /\ Entry(r) \in Entries /\ r.kind \in {"metadata", "carve"}
        /\ steps[k] = LoadOne(acc, r)
    BY <1>1, <1>2, EntryFacts
  <2>2. Part(s, k) = old \cup {r}
    <3>1. 1..k = 1..(k - 1) \cup {k}
      BY <1>1
    <3> QED
      BY <3>1 DEF Part
  <2>3. /\ Holds(acc.hits, SpansOf(Hits(old), "metadata")) /\ Searchable(acc.hits)
        /\ acc.carves \in Seq(Entries) /\ Elements(acc.carves) = SpansOf(old, "carve")
        /\ Linked(acc.hashes, old)
    BY <1>4 DEF LoadMet
  <2> HIDE DEF acc, r, old
  <2>4. CASE r.kind = "carve"
    <3>1. steps[k] = [hits |-> acc.hits, carves |-> Append(acc.carves, Entry(r)), hashes |-> Hashed(acc.hashes, r)]
      BY <2>1, <2>4, LoadOneIs
    <3>2. Hits(old \cup {r}) = Hits(old)
      BY <2>4 DEF Hits
    <3>3. SpansOf(old \cup {r}, "carve") = SpansOf(old, "carve") \cup {Entry(r)}
      BY <2>4 DEF SpansOf
    <3>4. /\ Append(acc.carves, Entry(r)) \in Seq(Entries)
          /\ Elements(Append(acc.carves, Entry(r))) = Elements(acc.carves) \cup {Entry(r)}
      BY <2>1, <2>3, AppendFacts
    <3>5. Linked(Hashed(acc.hashes, r), old \cup {r})
      <4>1. acc.hashes \in Tables
        BY <2>3 DEF Linked
      <4> QED
        BY <2>1, <2>3, <2>4, <4>1, HashedFacts
    <3>6. /\ steps[k].hits = acc.hits /\ steps[k].carves = Append(acc.carves, Entry(r))
          /\ steps[k].hashes = Hashed(acc.hashes, r)
      BY <3>1
    <3> QED
      BY <2>2, <2>3, <3>2, <3>3, <3>4, <3>5, <3>6 DEF LoadMet
  <2>5. CASE r.kind = "metadata"
    <3>1. SpansOf(old \cup {r}, "carve") = SpansOf(old, "carve")
      BY <2>5 DEF SpansOf
    <3>2. \A t : Linked(t, old) => Linked(t, old \cup {r})
      BY DEF Linked
    <3>3. CASE Placed(r)
      <4>1. steps[k] = [hits |-> Added(acc.hits, Entry(r)), carves |-> acc.carves, hashes |-> acc.hashes]
        BY <2>1, <2>5, <3>3, LoadOneIs
      <4>2. SpansOf(Hits(old \cup {r}), "metadata") = SpansOf(Hits(old), "metadata") \cup {Entry(r)}
        BY <2>5, <3>3 DEF SpansOf, Hits
      <4>3. /\ steps[k].hits = Added(acc.hits, Entry(r)) /\ steps[k].carves = acc.carves
            /\ steps[k].hashes = acc.hashes
        BY <4>1
      <4>4. /\ Holds(Added(acc.hits, Entry(r)), SpansOf(Hits(old), "metadata") \cup {Entry(r)})
            /\ Searchable(Added(acc.hits, Entry(r)))
        BY <2>1, <2>3, AddedFacts
      <4> QED
        BY <2>2, <2>3, <3>1, <3>2, <4>2, <4>3, <4>4 DEF LoadMet
    <3>4. CASE ~Placed(r)
      <4>1. steps[k] = acc
        BY <2>1, <2>5, <3>4, LoadOneIs
      <4>2. Hits(old \cup {r}) = Hits(old)
        BY <3>4 DEF Hits
      <4> QED
        BY <2>2, <2>3, <3>1, <3>2, <4>1, <4>2 DEF LoadMet
    <3> QED
      BY <3>3, <3>4
  <2> QED
    BY <2>1, <2>4, <2>5
<1> HIDE DEF n
<1>5. <<0, steps[0]>> \in Met
  BY <1>1, <1>2, <1>3
<1>6. ASSUME NEW k \in 1..n, <<k - 1, steps[k - 1]>> \in Met PROVE <<k, steps[k]>> \in Met
  BY <1>1, <1>2, <1>4, <1>6
<1> HIDE DEF Met
<1>7. <<n, steps[n]>> \in Met
  BY <1>1, <1>5, <1>6, AllAlong
<1> QED
  BY <1>7 DEF Met, n, steps

----------------------------------------------------------------------------
(* The index mirrors the records that count                                *)

\* The two indexes hold the spans of the records that count; their bases can be
\* searched, that of the carves unless a resume loaded it; and every hash of the
\* table is that of a carve that was kept.
DedupInv ==
    /\ known \subseteq Records /\ emitted \in Nat /\ (emitted = 0 => known = {})
    /\ Holds(meta, SpansOf(known, "metadata")) /\ Searchable(meta)
    /\ Holds(carve, SpansOf(known, "carve")) /\ (restored = {} => Searchable(carve))
    /\ Linked(contentHashes, known)

\* The table is empty at first.
LEMMA NoHashes == <<>> \in Tables /\ DOMAIN <<>> = {}
<1>1. <<>> \in [{} -> Nat] /\ {} \in SUBSET {r.hash : r \in Records}
  OBVIOUS
<1> QED
  BY <1>1 DEF Tables

\* An empty index mirrors that nothing has been seen.
LEMMA InitKeeps == DedupInit => DedupInv /\ DedupIsExact
<1> SUFFICES ASSUME DedupInit PROVE DedupInv /\ DedupIsExact
  OBVIOUS
<1>1. /\ meta = Empty /\ carve = Empty /\ contentHashes = <<>>
      /\ known = {} /\ restored = {} /\ verdict = NoVerdict /\ emitted = 0
  BY DEF DedupInit
<1>2. \A kind : SpansOf({}, kind) = {}
  BY DEF SpansOf
<1>3. Linked(<<>>, {})
  BY NoHashes DEF Linked
<1>4. DedupInv
  BY <1>1, <1>2, <1>3, EmptyFacts DEF DedupInv
<1>5. DedupIsExact
  BY <1>1 DEF DedupIsExact, NeverLost, NoneMissed, Judged
<1> QED
  BY <1>4, <1>5

\* clear and loadFromRecords: the index mirrors the records it loaded.
LEMMA LoadKeeps ==
    ASSUME DedupInv, NEW s \in Saved, Load(s)
    PROVE  DedupInv' /\ DedupIsExact'
<1> DEFINE loaded == LoadSteps(s)[Len(s)]
           carves == {r \in ToSet(s) : r.kind = "carve"}
           base == [Empty EXCEPT !.base = loaded.carves]
<1>1. /\ emitted = 0 /\ meta' = mergeSorted(loaded.hits) /\ carve' = mergeSorted(base)
      /\ contentHashes' = loaded.hashes
      /\ known' = {r \in ToSet(s) : r.kind = "metadata" /\ Placed(r)} \cup carves
      /\ restored' = carves /\ verdict' = NoVerdict /\ emitted' = Len(s)
  BY DEF Load
<1>2. s \in Seq(Records) /\ Len(s) \in Nat
  BY DedupAssumption
<1>3. ToSet(s) = Part(s, Len(s)) /\ ToSet(s) \subseteq Records
  BY <1>2 DEF ToSet, Part
<1>4. contentHashes \in Tables /\ DOMAIN contentHashes = {}
  BY <1>1 DEF DedupInv, Linked
<1>5. LoadMet(s, Len(s), loaded)
  BY <1>2, <1>4, LoadFacts
<1>6. base = [base |-> loaded.carves, maxEnd |-> <<>>, pending |-> <<>>]
  BY DEF Empty
<1> HIDE DEF loaded, base, carves
<1>7. /\ Holds(loaded.hits, SpansOf(Hits(ToSet(s)), "metadata")) /\ Searchable(loaded.hits)
      /\ loaded.carves \in Seq(Entries) /\ Elements(loaded.carves) = SpansOf(ToSet(s), "carve")
      /\ Linked(loaded.hashes, ToSet(s))
  BY <1>3, <1>5 DEF LoadMet
<1>8. /\ SpansOf(known', "metadata") = SpansOf(Hits(ToSet(s)), "metadata")
      /\ SpansOf(known', "carve") = SpansOf(ToSet(s), "carve")
  BY <1>1 DEF SpansOf, Hits, carves
<1>9. known' \subseteq Records /\ (emitted' = 0 => known' = {})
  <2>1. emitted' = 0 => Part(s, Len(s)) = {}
    BY <1>1 DEF Part
  <2> QED
    BY <1>1, <1>3, <2>1 DEF carves
<1>10. Holds(meta', SpansOf(known', "metadata")) /\ Searchable(meta')
  BY <1>1, <1>7, <1>8, MergedFacts
<1>11. /\ base = [base |-> base.base, maxEnd |-> base.maxEnd, pending |-> base.pending]
       /\ base.base = loaded.carves /\ base.maxEnd = <<>> /\ base.pending = <<>>
       /\ Elements(<<>>) = {} /\ base.maxEnd \in Seq(Nat) /\ base.pending \in Seq(Entries)
  BY <1>6 DEF Elements
<1>12. carve' = base
  BY <1>1, <1>11 DEF mergeSorted
<1>13. Holds(carve', SpansOf(known', "carve"))
  <2>1. Holds(base, SpansOf(ToSet(s), "carve"))
    BY <1>7, <1>11 DEF Holds
  <2> QED
    BY <1>8, <1>12, <2>1
<1>14. ASSUME restored' = {} PROVE Searchable(carve')
  <2>1. SpansOf(ToSet(s), "carve") = {}
    BY <1>1, <1>14 DEF SpansOf, carves
  <2>2. Len(loaded.carves) = 0
    <3>1. ASSUME Len(loaded.carves) # 0 PROVE FALSE
      <4>1. 1 \in 1..Len(loaded.carves)
        BY <1>7, <3>1
      <4>2. loaded.carves[1] \in Elements(loaded.carves)
        BY <4>1 DEF Elements
      <4> QED
        BY <1>7, <2>1, <4>2
    <3> QED
      BY <3>1
  <2>3. Len(base.base) = 0 /\ Len(base.maxEnd) = 0
    BY <1>11, <2>2
  <2> QED
    BY <1>12, <2>3 DEF Searchable, Sorted
<1>15. Linked(contentHashes', known')
  BY <1>1, <1>7 DEF Linked, carves
<1>16. DedupInv'
  BY <1>1, <1>2, <1>9, <1>10, <1>13, <1>14, <1>15 DEF DedupInv
<1>17. DedupIsExact'
  BY <1>1 DEF DedupIsExact, NeverLost, NoneMissed, Judged
<1> QED
  BY <1>16, <1>17

\* observe: a hit more in the index and among the records
LEMMA ObserveKeeps ==
    ASSUME DedupInv, NEW r \in Records, Observe(r)
    PROVE  DedupInv' /\ DedupIsExact'
<1>1. /\ r.kind = "metadata" /\ verdict' = NoVerdict /\ emitted' = emitted + 1
      /\ carve' = carve /\ contentHashes' = contentHashes /\ restored' = restored
      /\ IF Placed(r) THEN meta' = Added(meta, Entry(r)) /\ known' = known \cup {r}
                      ELSE meta' = meta /\ known' = known
  BY DEF Observe
<1>2. /\ known \subseteq Records /\ emitted \in Nat
      /\ Holds(meta, SpansOf(known, "metadata")) /\ Searchable(meta)
      /\ Holds(carve, SpansOf(known, "carve")) /\ (restored = {} => Searchable(carve))
      /\ Linked(contentHashes, known)
  BY DEF DedupInv
<1>3. Entry(r) \in Entries
  BY EntryFacts
<1>4. emitted' \in Nat /\ emitted' # 0
  BY <1>1, <1>2
<1>5. DedupIsExact'
  BY <1>1 DEF DedupIsExact, NeverLost, NoneMissed, Judged
<1>6. CASE Placed(r)
  <2>1. /\ SpansOf(known \cup {r}, "metadata") = SpansOf(known, "metadata") \cup {Entry(r)}
        /\ SpansOf(known \cup {r}, "carve") = SpansOf(known, "carve")
    BY <1>1 DEF SpansOf
  <2>2. /\ Holds(Added(meta, Entry(r)), SpansOf(known, "metadata") \cup {Entry(r)})
        /\ Searchable(Added(meta, Entry(r)))
    BY <1>2, <1>3, AddedFacts
  <2>3. Linked(contentHashes, known \cup {r})
    BY <1>2 DEF Linked
  <2>4. DedupInv'
    BY <1>1, <1>2, <1>4, <1>6, <2>1, <2>2, <2>3 DEF DedupInv
  <2> QED
    BY <1>5, <2>4
<1>7. CASE ~Placed(r)
  <2>1. DedupInv'
    BY <1>1, <1>2, <1>4, <1>7 DEF DedupInv
  <2> QED
    BY <1>5, <2>1
<1> QED
  BY <1>6, <1>7

\* What each answer of markDuplicate rests on
LEMMA AnswerFacts ==
    ASSUME NEW r
    PROVE  /\ Answer(r) # "kept" => \/ contentKnown(r)
                                    \/ findOverlap(carve, Entry(r))
                                    \/ findOverlap(meta, Entry(r))
           /\ Answer(r) = "kept" => ~findOverlap(carve, Entry(r)) /\ ~findOverlap(meta, Entry(r))
<1> DEFINE content == contentKnown(r)
           other == findOverlap(carve, Entry(r))
           hit == findOverlap(meta, Entry(r))
<1>1. Answer(r) = CASE content -> "content" [] ~content /\ other -> "carve"
                    [] ~content /\ ~other /\ hit -> "metadata" [] OTHER -> "kept"
  BY DEF Answer
<1> HIDE DEF content, other, hit
<1>2. /\ Answer(r) # "kept" => content \/ other \/ hit
      /\ Answer(r) = "kept" => ~other /\ ~hit
  BY <1>1
<1> QED
  BY <1>2 DEF content, other, hit

\* markDuplicate: its answer is right, and a carve that is kept is in the index.
LEMMA MarkKeeps ==
    ASSUME DedupInv, NEW r \in Records, markDuplicate(r)
    PROVE  DedupInv' /\ DedupIsExact'
<1>1. /\ r.kind = "carve" /\ emitted' = emitted + 1 /\ meta' = meta /\ restored' = restored
      /\ verdict' = [kind |-> Answer(r), record |-> r, before |-> known,
                     hits |-> Len(meta.base), carves |-> Len(carve.base)]
      /\ IF Answer(r) = "kept"
         THEN /\ carve' = Added(carve, Entry(r)) /\ known' = known \cup {r}
              /\ contentHashes' = Hashed(contentHashes, r)
         ELSE carve' = carve /\ known' = known /\ contentHashes' = contentHashes
  BY DEF markDuplicate
<1>2. /\ known \subseteq Records /\ emitted \in Nat
      /\ Holds(meta, SpansOf(known, "metadata")) /\ Searchable(meta)
      /\ Holds(carve, SpansOf(known, "carve")) /\ (restored = {} => Searchable(carve))
      /\ Linked(contentHashes, known)
  BY DEF DedupInv
<1>3. Entry(r) \in Entries /\ \A k \in known : Entry(k) \in Entries
  BY <1>2, EntryFacts
<1>4. emitted' \in Nat /\ emitted' # 0
  BY <1>1, <1>2
<1>5. DedupInv'
  <2>1. CASE Answer(r) = "kept"
    <3>1. /\ SpansOf(known \cup {r}, "carve") = SpansOf(known, "carve") \cup {Entry(r)}
          /\ SpansOf(known \cup {r}, "metadata") = SpansOf(known, "metadata")
      BY <1>1 DEF SpansOf
    <3>2. /\ Holds(Added(carve, Entry(r)), SpansOf(known, "carve") \cup {Entry(r)})
          /\ Searchable(carve) => Searchable(Added(carve, Entry(r)))
      BY <1>2, <1>3, AddedFacts
    <3>3. Linked(Hashed(contentHashes, r), known \cup {r})
      <4>1. contentHashes \in Tables
        BY <1>2 DEF Linked
      <4> QED
        BY <1>1, <1>2, <4>1, HashedFacts
    <3> QED
      BY <1>1, <1>2, <1>4, <2>1, <3>1, <3>2, <3>3 DEF DedupInv
  <2>2. CASE Answer(r) # "kept"
    BY <1>1, <1>2, <1>4, <2>2 DEF DedupInv
  <2> QED
    BY <2>1, <2>2
<1>6. /\ verdict'.kind = Answer(r) /\ verdict'.record = r /\ verdict'.before = known
      /\ verdict'.hits = Len(meta.base) /\ verdict'.carves = Len(carve.base)
  BY <1>1
<1>7. ASSUME Answer(r) # "kept" PROVE \E k \in known : Repeats(r, k)
  <2>1. ASSUME NEW k \in known, Same(Entry(k), Entry(r)) PROVE Repeats(r, k)
    BY <1>3, <2>1, SameFacts DEF Repeats
  <2>2. CASE contentKnown(r)
    BY <1>2, <2>2 DEF contentKnown, Linked, Repeats
  <2>3. CASE findOverlap(carve, Entry(r))
    <3>1. PICK e \in SpansOf(known, "carve") : Same(e, Entry(r))
      BY <1>2, <1>3, <2>3, FindFacts
    <3> QED
      BY <2>1, <3>1 DEF SpansOf
  <2>4. CASE findOverlap(meta, Entry(r))
    <3>1. PICK e \in SpansOf(known, "metadata") : Same(e, Entry(r))
      BY <1>2, <1>3, <2>4, FindFacts
    <3> QED
      BY <2>1, <3>1 DEF SpansOf
  <2> QED
    BY <1>7, <2>2, <2>3, <2>4, AnswerFacts
<1>8. ASSUME Answer(r) = "kept"
      PROVE  /\ Len(meta.base) <= MaxWindowScan + 1 =>
                  \A k \in known : k.kind = "metadata" => ~Same(Entry(r), Entry(k))
             /\ Len(carve.base) <= MaxWindowScan + 1 /\ restored = {} =>
                  \A k \in known : k.kind = "carve" => ~Same(Entry(r), Entry(k))
  <2>1. ~findOverlap(carve, Entry(r)) /\ ~findOverlap(meta, Entry(r))
    BY <1>8, AnswerFacts
  <2>2. Len(meta.base) <= MaxWindowScan + 1 =>
          \A e \in SpansOf(known, "metadata") : ~Same(Entry(r), e)
    BY <1>2, <1>3, <2>1, FindFacts
  <2>3. Len(carve.base) <= MaxWindowScan + 1 /\ restored = {} =>
          \A e \in SpansOf(known, "carve") : ~Same(Entry(r), e)
    BY <1>2, <1>3, <2>1, FindFacts
  <2>4. \A k \in known : Entry(k) \in SpansOf(known, k.kind)
    BY DEF SpansOf
  <2> QED
    BY <2>2, <2>3, <2>4
<1>9. NeverLost'
  BY <1>6, <1>7 DEF NeverLost
<1>10. NoneMissed'
  BY <1>1, <1>6, <1>8 DEF NoneMissed, Misses, Known
<1> QED
  BY <1>5, <1>9, <1>10 DEF DedupIsExact

\* A carve is demoted only for a record that is kept and repeats it, and, as long
\* as the base is no longer than the window, none is kept that repeats one, for
\* every list of records and every threshold of the index.
THEOREM DuplicatesAreExact == DedupSpec => []DedupIsExact
<1>1. DedupInit => DedupInv /\ DedupIsExact
  BY InitKeeps
<1>2. DedupInv /\ DedupIsExact /\ [DedupNext]_dedupVars => (DedupInv /\ DedupIsExact)'
  <2> SUFFICES ASSUME DedupInv, DedupIsExact, [DedupNext]_dedupVars
               PROVE  DedupInv' /\ DedupIsExact'
    OBVIOUS
  <2>1. ASSUME NEW s \in Saved, Load(s) PROVE DedupInv' /\ DedupIsExact'
    BY <2>1, LoadKeeps
  <2>2. ASSUME NEW r \in Records, Observe(r) PROVE DedupInv' /\ DedupIsExact'
    BY <2>2, ObserveKeeps
  <2>3. ASSUME NEW r \in Records, markDuplicate(r) PROVE DedupInv' /\ DedupIsExact'
    BY <2>3, MarkKeeps
  <2>4. CASE UNCHANGED dedupVars
    <3>1. /\ meta' = meta /\ carve' = carve /\ contentHashes' = contentHashes /\ known' = known
          /\ restored' = restored /\ verdict' = verdict /\ emitted' = emitted
      BY <2>4 DEF dedupVars
    <3>2. DedupInv'
      BY <3>1 DEF DedupInv
    <3>3. DedupIsExact'
      BY <3>1 DEF DedupIsExact, NeverLost, NoneMissed, Judged, Misses, Known
    <3> QED
      BY <3>2, <3>3
  <2> QED
    BY <2>1, <2>2, <2>3, <2>4 DEF DedupNext
<1> QED
  BY <1>1, <1>2, PTL DEF DedupSpec

----------------------------------------------------------------------------
(* The log of a VHDX                                                       *)

\* What entry n is of, as long as the log has its first sector
LogTargets(n) == log[LogSlot(starts[n])].targets

\* Entry n is in the log, from its first sector to its last.
LogLies(n) ==
    /\ log[LogSlot(starts[n])] = [seq |-> n, whole |-> TRUE, part |-> 0, targets |-> LogTargets(n)]
    /\ LogTargets(n) \subseteq 1..LogBlocks /\ starts[n + 1] = starts[n] + EntryLength(LogTargets(n))
    /\ \A i \in 1..Cardinality(LogTargets(n)) :
          log[LogSlot(starts[n] + i)] = [seq |-> n, whole |-> TRUE, part |-> i, targets |-> LogTargets(n)]

\* Nothing was written over entry n: reach is where the writing has come to, torn
\* entries included.
LogKept(n, reach) == n \in 1..seq /\ starts[n] + LogSlots >= reach

VhdxType ==
    /\ seq \in 0..LogUpdates /\ flushed \in 0..seq /\ DOMAIN log = 1..LogSlots
    /\ bat \in [1..LogBlocks -> 0..seq] /\ committed \in [1..LogBlocks -> 0..seq]
    /\ starts \in Seq(Nat) /\ Len(starts) = seq + 1
    /\ \A n, m \in 1..(seq + 1) : n < m => starts[n] < starts[m]
\* The writing has not come round to an entry that is not in the map.
LogRecent(reach) == LogHead <= reach /\ reach <= LogTail + LogSlots
LogLasts(reach) == \A n \in 1..seq : LogKept(n, reach) => LogLies(n)
\* A sector with the head of an entry has that of one nothing was written over.
LogTold(reach) ==
    \A k \in 1..LogSlots : EntryBegins(k) => LogKept(log[k].seq, reach) /\ k = LogSlot(starts[log[k].seq])
CommittedLogged(reach) ==
    /\ \A n \in 1..seq : LogKept(n, reach) => \A e \in LogTargets(n) : committed[e] >= n
    /\ \A e \in 1..LogBlocks : LogKept(committed[e], reach) => e \in LogTargets(committed[e])
FlushedMapped == \A e \in 1..LogBlocks : committed[e] <= flushed => bat[e] = committed[e]

VhdxAt(reach) ==
    VhdxType /\ LogRecent(reach) /\ LogLasts(reach) /\ LogTold(reach) /\ CommittedLogged(reach) /\ FlushedMapped

VhdxInv == \E reach \in Nat : VhdxAt(reach)

\* Places share a sector only if the log has gone round between them.
LEMMA LogSlotsApart ==
    ASSUME NEW n \in Nat, NEW m \in Nat, n < m
    PROVE  /\ LogSlot(n) \in 1..LogSlots
           /\ m - n < LogSlots => LogSlot(n) # LogSlot(m)
           /\ m - n = LogSlots => LogSlot(n) = LogSlot(m)
  <1>1. PICK L \in Nat \ {0} : L = LogSlots
    BY ImagesAssumption
  <1>2. PICK x \in Nat : x = n
    OBVIOUS
  <1>3. PICK y \in Nat : y = m /\ x < y /\ y - x = m - n
    BY <1>2
  <1>4. PICK a \in Nat, r \in 0..(L - 1) : x = a * L + r /\ x % L = r
    <2>1. x \div L \in Nat /\ x % L \in 0..(L - 1) /\ x = (x \div L) * L + (x % L)
      BY Blocks
    <2> QED
      BY <2>1
  <1>5. PICK b \in Nat, t \in 0..(L - 1) : y = b * L + t /\ y % L = t
    <2>1. y \div L \in Nat /\ y % L \in 0..(L - 1) /\ y = (y \div L) * L + (y % L)
      BY Blocks
    <2> QED
      BY <2>1
  <1>6. LogSlot(n) = r + 1 /\ LogSlot(m) = t + 1
    BY <1>1, <1>2, <1>3, <1>4, <1>5 DEF LogSlot
  <1>7. ASSUME r = t PROVE L <= y - x
    <2>1. PICK p \in Nat : p = a * L
      BY <1>1
    <2>2. PICK q \in Nat : q = b * L
      BY <1>1
    <2>3. p < q
      BY <1>3, <1>4, <1>5, <1>7, <2>1, <2>2
    <2>4. a < b
      <3>1. SUFFICES ASSUME b <= a PROVE FALSE
        OBVIOUS
      <3>2. PICK d \in Nat : a = b + d
        <4>1. a - b \in Nat /\ a = b + (a - b)
          BY <3>1
        <4> QED
          BY <4>1
      <3>3. a * L = b * L + d * L
        BY <3>2, SMT
      <3>4. d * L \in Nat
        BY SMT
      <3> QED
        BY <2>1, <2>2, <2>3, <3>3, <3>4
    <2>5. PICK d \in Nat : b = a + 1 + d
      <3>1. b - a - 1 \in Nat /\ b = a + 1 + (b - a - 1)
        BY <2>4
      <3> QED
        BY <3>1
    <2>6. b * L = a * L + L + d * L /\ d * L \in Nat
      BY <2>5, SMT
    <2> QED
      BY <1>3, <1>4, <1>5, <1>7, <2>1, <2>2, <2>6
  <1>8. ASSUME y - x = L PROVE t = r
    <2>1. y = (a + 1) * L + r
      <3>1. (a + 1) * L = a * L + L /\ a * L \in Nat
        BY SMT
      <3> QED
        BY <1>4, <1>8, <3>1
    <2>2. ((a + 1) * L + r) % L = r
      BY PlaceIn
    <2> QED
      BY <1>5, <2>1, <2>2
  <1>9. r + 1 \in 1..L
    OBVIOUS
  <1>10. ASSUME m - n < L PROVE r # t
    BY <1>3, <1>7, <1>10
  <1> QED
    BY <1>1, <1>3, <1>6, <1>8, <1>9, <1>10

LEMMA LogSlotIn ==
    ASSUME NEW n \in Nat
    PROVE  LogSlot(n) \in 1..LogSlots
  <1>1. n + 1 \in Nat /\ n < n + 1
    OBVIOUS
  <1> QED
    BY <1>1, LogSlotsApart

\* Up to the end of the ring the sectors lie one behind the other.
LEMMA LogSlotsFollow ==
    ASSUME NEW n \in Nat, NEW i \in Nat, LogSlot(n) + i <= LogSlots
    PROVE  LogSlot(n + i) = LogSlot(n) + i
  <1>1. PICK L \in Nat \ {0} : L = LogSlots
    BY ImagesAssumption
  <1>2. PICK a \in Nat, r \in 0..(L - 1) : n = a * L + r /\ n % L = r
    <2>1. n \div L \in Nat /\ n % L \in 0..(L - 1) /\ n = (n \div L) * L + (n % L)
      BY Blocks
    <2> QED
      BY <2>1
  <1>3. LogSlot(n) = r + 1
    BY <1>1, <1>2 DEF LogSlot
  <1>4. r + i \in 0..(L - 1)
    BY <1>1, <1>3
  <1>5. (a * L + (r + i)) % L = r + i
    BY <1>4, PlaceIn
  <1>6. a * L \in Nat
    BY SMT
  <1>7. n + i = a * L + (r + i)
    BY <1>2, <1>6
  <1> QED
    BY <1>1, <1>3, <1>5, <1>7 DEF LogSlot

LEMMA EntryLengths ==
    ASSUME NEW targets, targets \subseteq 1..LogBlocks
    PROVE  Cardinality(targets) \in Nat /\ EntryLength(targets) = 1 + Cardinality(targets)
  <1>1. IsFiniteSet(1..LogBlocks)
    BY ImagesAssumption, FS_Interval
  <1>2. IsFiniteSet(targets)
    BY <1>1, FS_Subset
  <1> QED
    BY <1>2, FS_CardinalityType DEF EntryLength

LEMMA VhdxInit ==
    ASSUME ImagesInit
    PROVE  VhdxInv
  <1>1. LogUpdates \in Nat /\ LogSlots \in Nat \ {0} /\ LogBlocks \in Nat
    BY ImagesAssumption
  <1>2. seq = 0 /\ flushed = 0 /\ starts = <<0>>
    BY DEF ImagesInit
  <1>3. starts \in Seq(Nat) /\ Len(starts) = 1 /\ starts[1] = 0
    BY <1>2
  <1>4. VhdxType
    <2>1. \A n, m \in 1..(seq + 1) : n < m => starts[n] < starts[m]
      BY <1>2
    <2>2. bat \in [1..LogBlocks -> 0..seq] /\ committed \in [1..LogBlocks -> 0..seq] /\ DOMAIN log = 1..LogSlots
      BY <1>1, <1>2 DEF ImagesInit
    <2> QED
      BY <1>1, <1>2, <1>3, <2>1, <2>2 DEF VhdxType
  <1>5. LogRecent(0)
    BY <1>1, <1>2, <1>3 DEF LogRecent, LogHead, LogTail
  <1>6. \A n : ~LogKept(n, 0)
    BY <1>2 DEF LogKept
  <1>7. LogLasts(0) /\ CommittedLogged(0)
    BY <1>6 DEF LogLasts, CommittedLogged
  <1>8. LogTold(0)
    BY DEF ImagesInit, LogTold, EntryBegins, Unused
  <1>9. FlushedMapped
    BY DEF FlushedMapped, ImagesInit
  <1>10. VhdxAt(0)
    BY <1>4, <1>5, <1>7, <1>8, <1>9 DEF VhdxAt
  <1> QED
    BY <1>10 DEF VhdxInv

\* Where the writing has come to with n more sectors
LogReaches(far, reach, n) == far >= reach /\ far >= LogHead + n /\ (far = reach \/ far = LogHead + n)

\* The sectors that are new, and those of entries that nothing was written over
SectorsWent(new, targets, n, whole, reach, far) ==
    /\ LogHead \in Nat /\ far >= reach /\ far >= LogHead + n /\ far <= LogTail + LogSlots
    /\ LogTail <= LogHead /\ LogTail \in Nat /\ DOMAIN new = 1..LogSlots
    /\ \A i \in 0..(n - 1) : new[LogSlot(LogHead + i)] =
                               [seq |-> seq + 1, whole |-> whole, part |-> i, targets |-> targets]
    /\ \A k \in 1..LogSlots : new[k] = log[k] \/ \E i \in 0..(n - 1) : k = LogSlot(LogHead + i)
    /\ \A p \in Nat : p < LogHead /\ p + LogSlots >= far => new[LogSlot(p)] = log[LogSlot(p)]
    /\ \A p \in Nat : p < LogHead /\ p + LogSlots >= reach /\ p + LogSlots < far =>
         \E i \in 0..(n - 1) : LogSlot(p) = LogSlot(LogHead + i)

\* The first n sectors of the next entry go over sectors of entries that are in the
\* map, the oldest first.
LEMMA SectorsGo ==
    ASSUME NEW reach \in Nat, VhdxAt(reach), NEW targets \in NextEntry, NEW n \in Nat \ {0},
           n <= EntryLength(targets), NEW whole, NEW new, new = Logged(targets, n, whole),
           NEW far \in Nat, LogReaches(far, reach, n)
    PROVE  SectorsWent(new, targets, n, whole, reach, far)
  <1>1. PICK L \in Nat \ {0} : L = LogSlots
    BY ImagesAssumption
  <1>2. PICK len \in Nat : len = EntryLength(targets) /\ n <= len /\ n \in Nat /\ n >= 1
    <2>1. EntryLength(targets) \in Nat
      <3>1. targets \subseteq 1..LogBlocks
        BY DEF NextEntry
      <3>2. Cardinality(targets) \in Nat /\ EntryLength(targets) = 1 + Cardinality(targets)
        BY <3>1, EntryLengths
      <3> QED
        BY <3>2
    <2> QED
      BY <2>1
  <1>3. /\ seq \in Nat /\ flushed \in 0..seq /\ starts \in Seq(Nat) /\ Len(starts) = seq + 1
        /\ \A a, b \in 1..(seq + 1) : a < b => starts[a] < starts[b]
    BY ImagesAssumption DEF VhdxAt, VhdxType
  <1>4. PICK head \in Nat : head = LogHead
    BY <1>3 DEF LogHead
  <1>5. PICK tail \in Nat : tail = LogTail /\ tail <= head
    <2>1. flushed + 1 \in 1..(seq + 1) /\ seq + 1 \in 1..(seq + 1)
      BY <1>3
    <2>2. starts[flushed + 1] \in Nat /\ (flushed + 1 = seq + 1 \/ starts[flushed + 1] < starts[seq + 1])
      BY <1>3, <2>1
    <2> QED
      BY <1>4, <2>2 DEF LogTail, LogHead
  <1>6. head + len <= tail + L /\ head <= reach /\ reach <= tail + L
    BY <1>1, <1>2, <1>4, <1>5 DEF NextEntry, VhdxAt, LogRecent
  <1>7. n <= L /\ far >= reach /\ far >= head + n /\ far <= tail + L /\ (far = reach \/ far = head + n)
    BY <1>2, <1>4, <1>5, <1>6 DEF LogReaches
  <1>8. ASSUME NEW k \in 1..L
        PROVE  LET here == {i \in 0..(n - 1) : LogSlot(head + i) = k}
               IN  new[k] = IF here = {} THEN log[k]
                            ELSE [seq |-> seq + 1, whole |-> whole, part |-> CHOOSE i \in here : TRUE, targets |-> targets]
    BY <1>1, <1>4 DEF Logged
  <1>9. DOMAIN new = 1..LogSlots
    BY DEF Logged
  <1>10. ASSUME NEW i \in 0..(n - 1)
         PROVE  new[LogSlot(head + i)] = [seq |-> seq + 1, whole |-> whole, part |-> i, targets |-> targets]
    <2>1. PICK k \in 1..L : k = LogSlot(head + i)
      BY <1>1, <1>2, LogSlotIn
    <2>2. PICK here : here = {j \in 0..(n - 1) : LogSlot(head + j) = k}
      OBVIOUS
    <2>3. ASSUME NEW j \in 0..(n - 1), j # i PROVE LogSlot(head + j) # LogSlot(head + i)
      <3>1. CASE j < i
        <4>1. head + j \in Nat /\ head + i \in Nat /\ head + j < head + i /\ (head + i) - (head + j) < LogSlots
          BY <1>1, <1>2, <1>7, <3>1
        <4> QED
          BY <4>1, LogSlotsApart
      <3>2. CASE i < j
        <4>1. head + j \in Nat /\ head + i \in Nat /\ head + i < head + j /\ (head + j) - (head + i) < LogSlots
          BY <1>1, <1>2, <1>7, <3>2
        <4> QED
          BY <4>1, LogSlotsApart
      <3> QED
        BY <1>2, <2>3, <3>1, <3>2
    <2>4. here = {i}
      BY <2>1, <2>2, <2>3
    <2>5. (CHOOSE j \in here : TRUE) = i /\ here # {}
      BY <2>4
    <2>6. new[k] = IF here = {} THEN log[k]
                   ELSE [seq |-> seq + 1, whole |-> whole, part |-> CHOOSE j \in here : TRUE, targets |-> targets]
      BY <1>8, <2>2
    <2>7. new[k] = [seq |-> seq + 1, whole |-> whole, part |-> CHOOSE j \in here : TRUE, targets |-> targets]
      BY <2>5, <2>6, Zenon
    <2> QED
      BY <2>1, <2>5, <2>7, Zenon
  <1>11. ASSUME NEW k \in 1..L PROVE new[k] = log[k] \/ \E i \in 0..(n - 1) : k = LogSlot(head + i)
    <2>1. PICK here : here = {j \in 0..(n - 1) : LogSlot(head + j) = k}
      OBVIOUS
    <2>2. new[k] = IF here = {} THEN log[k]
                   ELSE [seq |-> seq + 1, whole |-> whole, part |-> CHOOSE j \in here : TRUE, targets |-> targets]
      BY <1>8, <2>1
    <2>3. CASE here = {}
      BY <2>2, <2>3, Zenon
    <2>4. CASE here # {}
      BY <2>1, <2>4
    <2> QED
      BY <2>3, <2>4
  <1>12. ASSUME NEW p \in Nat, p < head, p + L >= far PROVE new[LogSlot(p)] = log[LogSlot(p)]
    <2>1. LogSlot(p) \in 1..L
      BY <1>1, LogSlotIn
    <2>2. ASSUME NEW i \in 0..(n - 1) PROVE LogSlot(p) # LogSlot(head + i)
      <3>1. head + i \in Nat /\ p < head + i /\ (head + i) - p < LogSlots
        BY <1>1, <1>2, <1>7, <1>12
      <3> QED
        BY <3>1, LogSlotsApart
    <2> QED
      BY <1>11, <2>1, <2>2
  <1>13. ASSUME NEW p \in Nat, p < head, p + L >= reach, p + L < far
         PROVE  \E i \in 0..(n - 1) : LogSlot(p) = LogSlot(head + i)
    <2>1. PICK i \in 0..(n - 1) : p + L = head + i
      <3>1. (p + L) - head \in 0..(n - 1) /\ p + L = head + ((p + L) - head)
        BY <1>2, <1>6, <1>7, <1>13
      <3> QED
        BY <3>1
    <2>2. head + i \in Nat /\ p < head + i /\ (head + i) - p = LogSlots
      BY <1>1, <1>2, <2>1
    <2> QED
      BY <2>2, LogSlotsApart
  <1> QED
    <2>1. /\ head >= 0 /\ far >= reach /\ far >= head + n /\ far <= tail + L /\ tail <= head
      BY <1>5, <1>7
    <2> QED
      BY <1>1, <1>4, <1>5, <1>9, <1>10, <1>11, <1>12, <1>13, <2>1 DEF SectorsWent

LEMMA HeadIn ==
    ASSUME NEW reach \in Nat, VhdxAt(reach)
    PROVE  LogHead \in Nat
  <1>1. seq \in Nat /\ starts \in Seq(Nat) /\ Len(starts) = seq + 1
    BY DEF VhdxAt, VhdxType
  <1> QED
    BY <1>1 DEF LogHead

LEMMA FarIs ==
    ASSUME NEW reach \in Nat, VhdxAt(reach), NEW n \in Nat
    PROVE  \E far \in Nat : LogReaches(far, reach, n)
  <1>1. PICK head \in Nat : head = LogHead
    BY HeadIn
  <1>2. CASE reach >= head + n
    BY <1>1, <1>2 DEF LogReaches
  <1>3. CASE ~(reach >= head + n)
    <2>1. head + n \in Nat /\ head + n >= reach
      BY <1>3
    <2>2. LogReaches(head + n, reach, n)
      BY <1>1, <2>1 DEF LogReaches
    <2> QED
      BY <2>1, <2>2
  <1> QED
    BY <1>2, <1>3

\* What nothing is written over stays as it was.
OldStay(n, reach, far) ==
    /\ \A m \in 1..seq : starts[m] + LogSlots >= far =>
          LogKept(m, reach) /\ (LogLies(m))' /\ (LogTargets(m))' = LogTargets(m)
    /\ \A k \in 1..LogSlots : (EntryBegins(k))' =>
          \/ \E i \in 0..(n - 1) : k = LogSlot(LogHead + i)
          \/ /\ log'[k] = log[k] /\ log[k].seq \in 1..seq /\ k = LogSlot(starts[log[k].seq])
             /\ starts[log[k].seq] + LogSlots >= far

LEMMA OldEntriesStay ==
    ASSUME NEW reach \in Nat, VhdxAt(reach), NEW targets \in NextEntry, NEW n \in Nat \ {0},
           n <= EntryLength(targets), NEW whole, log' = Logged(targets, n, whole),
           \A m \in 1..(seq + 1) : starts'[m] = starts[m], NEW far \in Nat, LogReaches(far, reach, n)
    PROVE  OldStay(n, reach, far)
  <1>1. PICK head \in Nat : head = LogHead
    BY HeadIn
  <1>2. PICK new : new = log' /\ new = Logged(targets, n, whole)
    OBVIOUS
  <1>3. /\ far >= reach
        /\ \A k \in 1..LogSlots : new[k] = log[k] \/ \E i \in 0..(n - 1) : k = LogSlot(head + i)
        /\ \A p \in Nat : p < head /\ p + LogSlots >= far => new[LogSlot(p)] = log[LogSlot(p)]
        /\ \A p \in Nat : p < head /\ p + LogSlots >= reach /\ p + LogSlots < far =>
              \E i \in 0..(n - 1) : LogSlot(p) = LogSlot(head + i)
    <2>1. SectorsWent(new, targets, n, whole, reach, far)
      BY <1>2, SectorsGo
    <2> QED
      BY <1>1, <2>1 DEF SectorsWent
  <1>4. /\ seq \in Nat /\ starts \in Seq(Nat) /\ Len(starts) = seq + 1 /\ LogSlots \in Nat \ {0}
        /\ \A a, b \in 1..(seq + 1) : a < b => starts[a] < starts[b]
    BY ImagesAssumption DEF VhdxAt, VhdxType
  <1>5. ASSUME NEW m \in 1..seq
        PROVE  starts[m] \in Nat /\ starts[m] < head /\ starts[m + 1] \in Nat /\ starts[m + 1] <= head /\ starts'[m] = starts[m] /\ starts'[m + 1] = starts[m + 1]
    <2>1. m \in 1..(seq + 1) /\ m + 1 \in 1..(seq + 1) /\ seq + 1 \in 1..(seq + 1) /\ m < seq + 1
      BY <1>4
    <2>2. head = starts[seq + 1]
      BY <1>1 DEF LogHead
    <2>3. m + 1 = seq + 1 \/ m + 1 < seq + 1
      BY <1>4
    <2> QED
      BY <1>4, <2>1, <2>2, <2>3
  <1>6. ASSUME NEW m \in 1..seq, starts[m] + LogSlots >= far
        PROVE  LogKept(m, reach) /\ (LogLies(m))' /\ (LogTargets(m))' = LogTargets(m)
    <2>1. PICK at \in Nat : at = starts[m] /\ at < head /\ starts'[m] = at
      BY <1>5
    <2>2. LogKept(m, reach)
      BY <1>3, <1>4, <1>6, <2>1 DEF LogKept
    <2>3. LogLies(m)
      BY <2>2 DEF VhdxAt, LogLasts
    <2>4. PICK goal : goal = LogTargets(m)
      OBVIOUS
    <2>5. PICK size \in Nat : size = Cardinality(goal) /\ EntryLength(goal) = 1 + size
      BY <2>3, <2>4, EntryLengths DEF LogLies
    <2>6. at + size < head
      BY <1>4, <1>5, <2>1, <2>3, <2>4, <2>5 DEF LogLies
    <2>7. ASSUME NEW i \in 0..size PROVE log'[LogSlot(at + i)] = log[LogSlot(at + i)]
      <3>1. PICK slots \in Nat : slots = LogSlots /\ at + slots >= far
        BY <1>4, <1>6, <2>1
      <3>2. at + i \in Nat /\ at + i < head /\ (at + i) + slots >= far
        BY <2>6, <3>1
      <3> QED
        BY <1>2, <1>3, <3>1, <3>2
    <2>8. log'[LogSlot(at)] = log[LogSlot(at)]
      <3>1. at + 0 = at /\ 0 \in 0..size
        OBVIOUS
      <3> QED
        BY <2>7, <3>1
    <2>9. (LogTargets(m))' = goal
      BY <2>1, <2>4, <2>8 DEF LogTargets, LogSlot
    <2>10. /\ log[LogSlot(at)] = [seq |-> m, whole |-> TRUE, part |-> 0, targets |-> goal]
           /\ goal \subseteq 1..LogBlocks /\ starts[m + 1] = at + EntryLength(goal)
           /\ \A i \in 1..size : log[LogSlot(at + i)] = [seq |-> m, whole |-> TRUE, part |-> i, targets |-> goal]
      BY <2>1, <2>3, <2>4, <2>5 DEF LogLies
    <2>11. ASSUME NEW i \in 1..size
           PROVE  log'[LogSlot(at + i)] = [seq |-> m, whole |-> TRUE, part |-> i, targets |-> goal]
      <3>1. i \in 0..size
        OBVIOUS
      <3> QED
        BY <2>7, <2>10, <3>1
    <2>12. starts'[m + 1] = at + EntryLength(goal)
      BY <1>5, <2>10
    <2>13. (LogLies(m))'
      BY <2>1, <2>5, <2>8, <2>9, <2>10, <2>11, <2>12 DEF LogLies, LogSlot, EntryLength
    <2> QED
      BY <2>2, <2>4, <2>9, <2>13
  <1>7. ASSUME NEW k \in 1..LogSlots, (EntryBegins(k))', ~\E i \in 0..(n - 1) : k = LogSlot(LogHead + i)
        PROVE  /\ log'[k] = log[k] /\ log[k].seq \in 1..seq /\ k = LogSlot(starts[log[k].seq])
               /\ starts[log[k].seq] + LogSlots >= far
    <2>1. log'[k] = log[k]
      BY <1>1, <1>2, <1>3, <1>7
    <2>2. EntryBegins(k)
      BY <1>7, <2>1 DEF EntryBegins
    <2>3. PICK m \in 1..seq : m = log[k].seq /\ starts[m] + LogSlots >= reach /\ k = LogSlot(starts[m])
      BY <2>2 DEF VhdxAt, LogTold, LogKept
    <2>4. PICK at \in Nat : at = starts[m] /\ at < head
      BY <1>5
    <2>5. ~(at + LogSlots < far)
      <3>1. SUFFICES ASSUME at + LogSlots < far PROVE FALSE
        OBVIOUS
      <3>2. at + LogSlots >= reach
        BY <2>3, <2>4
      <3>3. \E i \in 0..(n - 1) : LogSlot(at) = LogSlot(head + i)
        BY <1>3, <2>4, <3>1, <3>2
      <3>4. k = LogSlot(at)
        BY <2>3, <2>4
      <3> QED
        BY <1>1, <1>7, <3>3, <3>4
    <2>6. at + LogSlots >= far
      <3>1. PICK slots \in Nat : slots = LogSlots
        BY <1>4
      <3>2. ~(at + slots < far)
        BY <2>5, <3>1
      <3>3. at + slots >= far
        BY <3>2
      <3> QED
        BY <3>1, <3>3
    <2>7. starts[log[k].seq] + LogSlots >= far
      BY <2>3, <2>4, <2>6
    <2> QED
      BY <2>1, <2>3, <2>7
  <1> QED
    BY <1>6, <1>7 DEF OldStay

LEMMA LogUpdateKeeps ==
    ASSUME VhdxInv, LogUpdate
    PROVE  VhdxInv'
  <1>1. PICK reach \in Nat : VhdxAt(reach)
    BY DEF VhdxInv
  <1>2. PICK targets \in NextEntry :
            /\ log' = Logged(targets, EntryLength(targets), TRUE)
            /\ starts' = Append(starts, LogHead + EntryLength(targets))
            /\ committed' = [e \in 1..LogBlocks |-> IF e \in targets THEN seq + 1 ELSE committed[e]]
    BY DEF LogUpdate
  <1>3. seq < LogUpdates /\ seq' = seq + 1 /\ bat' = bat /\ flushed' = flushed
    BY DEF LogUpdate
  <1>4. targets \subseteq 1..LogBlocks
    BY DEF NextEntry
  <1>5. PICK len \in Nat \ {0} : len = EntryLength(targets) /\ len = 1 + Cardinality(targets) /\ Cardinality(targets) \in Nat
    <2>1. Cardinality(targets) \in Nat /\ EntryLength(targets) = 1 + Cardinality(targets)
      BY <1>4, EntryLengths
    <2> QED
      BY <2>1
  <1>6. PICK n \in Nat \ {0} : n = len /\ n <= EntryLength(targets)
    BY <1>5
  <1>7. PICK head \in Nat : head = LogHead
    BY <1>1, HeadIn
  <1>8. PICK far \in Nat : LogReaches(far, reach, n)
    BY <1>6, <1>1, FarIs
  <1>9. log' = Logged(targets, n, TRUE)
    BY <1>2, <1>5, <1>6
  <1>10. /\ far >= reach /\ far >= head + len /\ far <= LogTail + LogSlots /\ LogTail \in Nat /\ DOMAIN log' = 1..LogSlots
         /\ \A i \in 0..(len - 1) : log'[LogSlot(head + i)] =
                                      [seq |-> seq + 1, whole |-> TRUE, part |-> i, targets |-> targets]
    <2>1. SectorsWent(log', targets, n, TRUE, reach, far)
      BY <1>1, <1>6, <1>8, <1>9, SectorsGo
    <2> QED
      BY <1>6, <1>7, <2>1 DEF SectorsWent
  <1>11. /\ seq \in Nat /\ starts \in Seq(Nat) /\ Len(starts) = seq + 1 /\ LogSlots \in Nat \ {0}
         /\ flushed \in 0..seq /\ LogUpdates \in Nat
         /\ bat \in [1..LogBlocks -> 0..seq] /\ committed \in [1..LogBlocks -> 0..seq]
         /\ \A a, b \in 1..(seq + 1) : a < b => starts[a] < starts[b]
    BY <1>1, ImagesAssumption DEF VhdxAt, VhdxType
  <1>12. PICK new \in Nat \ {0} : new = seq + 1
    BY <1>11
  <1>13. /\ starts' \in Seq(Nat) /\ Len(starts') = new + 1 /\ starts'[new + 1] = head + len
         /\ \A m \in 1..new : starts'[m] = starts[m]
    BY <1>2, <1>5, <1>7, <1>11, <1>12
  <1>14. starts[new] = head /\ starts'[new] = head
    BY <1>7, <1>12, <1>13 DEF LogHead
  <1>15. /\ \A m \in 1..seq : starts[m] + LogSlots >= far =>
                LogKept(m, reach) /\ (LogLies(m))' /\ (LogTargets(m))' = LogTargets(m)
         /\ \A k \in 1..LogSlots : (EntryBegins(k))' =>
                \/ \E i \in 0..(len - 1) : k = LogSlot(head + i)
                \/ /\ log'[k] = log[k] /\ log[k].seq \in 1..seq /\ k = LogSlot(starts[log[k].seq])
                   /\ starts[log[k].seq] + LogSlots >= far
    <2>1. \A m \in 1..(seq + 1) : starts'[m] = starts[m]
      BY <1>12, <1>13
    <2>2. OldStay(n, reach, far)
      BY <1>1, <1>6, <1>8, <1>9, <2>1, OldEntriesStay
    <2> QED
      BY <1>6, <1>7, <2>2 DEF OldStay
  <1>16. LogTail' = LogTail /\ LogHead' = head + len /\ LogTail <= head
    <2>1. flushed + 1 \in 1..new
      BY <1>11, <1>12
    <2>2. LogTail <= head
      <3>1. SectorsWent(log', targets, n, TRUE, reach, far)
        BY <1>1, <1>6, <1>8, <1>9, SectorsGo
      <3> QED
        BY <1>7, <3>1 DEF SectorsWent
    <2> QED
      BY <1>3, <1>12, <1>13, <2>1, <2>2 DEF LogTail, LogHead
  <1>17. VhdxType'
    <2>1. committed' \in [1..LogBlocks -> 0..new] /\ bat' \in [1..LogBlocks -> 0..new]
      <3>1. 0..seq \subseteq 0..new /\ new \in 0..new
        BY <1>11, <1>12
      <3>2. committed \in [1..LogBlocks -> 0..new] /\ bat \in [1..LogBlocks -> 0..new]
        BY <1>11, <3>1
      <3> QED
        BY <1>2, <1>3, <1>12, <3>1, <3>2
    <2>2. new \in 0..LogUpdates /\ flushed \in 0..new
      BY <1>3, <1>11, <1>12
    <2>3. ASSUME NEW a \in 1..(new + 1), NEW b \in 1..(new + 1), a < b PROVE starts'[a] < starts'[b]
      <3>1. CASE b \in 1..new
        BY <1>11, <1>12, <1>13, <2>3, <3>1
      <3>2. CASE b = new + 1
        <4>1. a \in 1..new /\ starts'[b] = head + len /\ starts'[a] = starts[a]
          BY <1>12, <1>13, <2>3, <3>2
        <4>2. a \in 1..(seq + 1) /\ new \in 1..(seq + 1) /\ starts[a] \in Nat
          BY <1>11, <1>12, <4>1
        <4>3. starts[a] <= head
          BY <1>11, <1>14, <4>1, <4>2
        <4> QED
          BY <4>1, <4>2, <4>3
      <3> QED
        BY <1>12, <3>1, <3>2
    <2> QED
      BY <1>3, <1>10, <1>12, <1>13, <2>1, <2>2, <2>3 DEF VhdxType
  <1>18. LogRecent(far)'
    BY <1>10, <1>16 DEF LogRecent
  <1>19. (LogTargets(new))' = targets /\ (LogLies(new))'
    <2>1. head + 0 = head /\ 0 \in 0..(len - 1) /\ LogSlot(head + 0) = LogSlot(head)
      OBVIOUS
    <2>2. log'[LogSlot(head)] = [seq |-> new, whole |-> TRUE, part |-> 0, targets |-> targets]
      BY <1>10, <1>12, <2>1
    <2>3. (LogTargets(new))' = targets
      BY <1>14, <2>2 DEF LogTargets, LogSlot
    <2>4. ASSUME NEW i \in 1..Cardinality(targets)
          PROVE  log'[LogSlot(head + i)] = [seq |-> new, whole |-> TRUE, part |-> i, targets |-> targets]
      <3>1. i \in 0..(len - 1)
        BY <1>5
      <3> QED
        BY <1>10, <1>12, <3>1
    <2>5. starts'[new + 1] = head + EntryLength(targets)
      BY <1>5, <1>13
    <2>6. (LogLies(new))'
      BY <1>4, <1>14, <2>2, <2>3, <2>4, <2>5 DEF LogLies, LogSlot, EntryLength
    <2> QED
      BY <2>3, <2>6
  <1>20. \A m \in 1..new : m = new \/ m \in 1..seq
    BY <1>11, <1>12
  <1>21. \A m : (LogKept(m, far))' <=> m \in 1..new /\ starts'[m] + LogSlots >= far
    BY <1>3, <1>12 DEF LogKept
  <1>22. ASSUME NEW m \in 1..seq, (LogKept(m, far))'
         PROVE  LogKept(m, reach) /\ (LogLies(m))' /\ (LogTargets(m))' = LogTargets(m)
    <2>1. starts[m] + LogSlots >= far
      <3>1. m \in 1..new
        BY <1>11, <1>12
      <3> QED
        BY <1>13, <1>21, <1>22, <3>1
    <2> QED
      BY <1>15, <2>1
  <1>23. LogLasts(far)'
    <2>1. ASSUME NEW m \in 1..new, (LogKept(m, far))' PROVE (LogLies(m))'
      BY <1>19, <1>20, <1>22, <2>1
    <2> QED
      BY <1>3, <1>12, <2>1 DEF LogLasts
  <1>24. LogTold(far)'
    <2>1. ASSUME NEW k \in 1..LogSlots, (EntryBegins(k))'
          PROVE  log'[k].seq \in 1..new /\ starts'[log'[k].seq] + LogSlots >= far /\ k = LogSlot(starts'[log'[k].seq])
      <3>1. CASE \E i \in 0..(len - 1) : k = LogSlot(head + i)
        <4>1. PICK i \in 0..(len - 1) : k = LogSlot(head + i)
          BY <3>1
        <4>2. log'[k] = [seq |-> seq + 1, whole |-> TRUE, part |-> i, targets |-> targets]
          BY <1>10, <4>1
        <4>3. i = 0 /\ log'[k].seq = new
          BY <1>12, <2>1, <4>2 DEF EntryBegins
        <4>4. k = LogSlot(head)
          <5>1. head + 0 = head
            OBVIOUS
          <5> QED
            BY <4>1, <4>3, <5>1
        <4>5. head + LogSlots >= far
          BY <1>7, <1>10, <1>11, <1>16
        <4> QED
          BY <1>12, <1>14, <4>3, <4>4, <4>5
      <3>2. CASE /\ log'[k] = log[k] /\ log[k].seq \in 1..seq /\ k = LogSlot(starts[log[k].seq])
                 /\ starts[log[k].seq] + LogSlots >= far
        <4>1. PICK m \in 1..seq : m = log[k].seq /\ m = log'[k].seq
          BY <3>2
        <4>2. m \in 1..new /\ starts'[m] = starts[m]
          BY <1>11, <1>12, <1>13
        <4> QED
          BY <3>2, <4>1, <4>2
      <3> QED
        BY <1>15, <2>1, <3>1, <3>2
    <2>2. \A k \in 1..LogSlots : (EntryBegins(k))' => (LogKept(log[k].seq, far))'
      BY <1>3, <1>12, <2>1 DEF LogKept
    <2> QED
      BY <2>1, <2>2 DEF LogTold, LogSlot
  <1>25. DOMAIN committed' = 1..LogBlocks /\ \A e \in 1..LogBlocks : committed'[e] = IF e \in targets THEN new ELSE committed[e]
    BY <1>2, <1>12
  <1>26. CommittedLogged(far)'
    <2>1. ASSUME NEW m \in 1..new, (LogKept(m, far))', NEW e \in (LogTargets(m))' PROVE committed'[e] >= m
      <3>1. CASE m = new
        <4>1. e \in targets
          BY <1>19, <2>1, <3>1
        <4>2. committed'[e] = new
          BY <1>4, <1>25, <4>1
        <4> QED
          BY <3>1, <4>2
      <3>2. CASE m \in 1..seq
        <4>1. LogKept(m, reach) /\ e \in LogTargets(m)
          BY <1>22, <2>1, <3>2
        <4>2. committed[e] >= m
          BY <1>1, <3>2, <4>1 DEF VhdxAt, CommittedLogged
        <4>3. LogLies(m)
          BY <1>1, <3>2, <4>1 DEF VhdxAt, LogLasts
        <4>4. e \in 1..LogBlocks
          BY <4>1, <4>3 DEF LogLies
        <4>5. CASE e \in targets
          BY <1>11, <1>12, <1>25, <3>2, <4>4, <4>5
        <4>6. CASE e \notin targets
          BY <1>25, <4>2, <4>4, <4>6
        <4> QED
          BY <4>5, <4>6
      <3> QED
        BY <1>20, <3>1, <3>2
    <2>2. ASSUME NEW e \in 1..LogBlocks, (LogKept(committed[e], far))' PROVE e \in (LogTargets(committed[e]))'
      <3>1. PICK m : m = committed'[e]
        OBVIOUS
      <3>2. m \in 1..new /\ (LogKept(m, far))'
        BY <1>21, <2>2, <3>1 DEF LogKept
      <3>3. CASE e \in targets
        <4>1. m = new
          BY <1>25, <3>1, <3>3
        <4>2. e \in (LogTargets(new))'
          BY <1>19, <3>3
        <4> QED
          BY <3>1, <4>1, <4>2 DEF LogTargets
      <3>4. CASE e \notin targets
        <4>1. m = committed[e] /\ m \in 1..seq
          <5>1. m = committed[e]
            BY <1>25, <3>1, <3>4
          <5>2. m \in 0..seq
            BY <1>11, <5>1
          <5> QED
            BY <1>11, <3>2, <5>1, <5>2
        <4>2. LogKept(m, reach) /\ (LogTargets(m))' = LogTargets(m)
          BY <1>22, <3>2, <4>1
        <4>3. e \in LogTargets(m)
          BY <1>1, <4>1, <4>2 DEF VhdxAt, CommittedLogged
        <4>4. e \in (LogTargets(m))'
          BY <4>2, <4>3
        <4> QED
          BY <3>1, <4>4 DEF LogTargets
      <3> QED
        BY <3>3, <3>4
    <2> QED
      BY <1>3, <1>12, <2>1, <2>2 DEF CommittedLogged
  <1>27. FlushedMapped'
    <2>1. ASSUME NEW e \in 1..LogBlocks, committed'[e] <= flushed PROVE bat[e] = committed'[e]
      <3>1. CASE e \in targets
        BY <1>11, <1>12, <1>25, <2>1, <3>1
      <3>2. CASE e \notin targets
        BY <1>1, <1>25, <2>1, <3>2 DEF VhdxAt, FlushedMapped
      <3> QED
        BY <3>1, <3>2
    <2> QED
      BY <1>3, <2>1 DEF FlushedMapped
  <1>28. VhdxAt(far)'
    BY <1>17, <1>18, <1>23, <1>24, <1>26, <1>27 DEF VhdxAt
  <1> QED
    BY <1>28 DEF VhdxInv

LEMMA TornUpdateKeeps ==
    ASSUME VhdxInv, TornUpdate
    PROVE  VhdxInv'
  <1>1. PICK reach \in Nat : VhdxAt(reach)
    BY DEF VhdxInv
  <1>2. PICK targets \in NextEntry : \E n \in 1..EntryLength(targets) : log' = Logged(targets, n, FALSE)
    BY DEF TornUpdate
  <1>3. PICK n \in Nat \ {0} : n <= EntryLength(targets) /\ log' = Logged(targets, n, FALSE)
    <2>1. PICK n \in 1..EntryLength(targets) : log' = Logged(targets, n, FALSE)
      BY <1>2
    <2>2. EntryLength(targets) \in Nat
      <3>1. targets \subseteq 1..LogBlocks
        BY DEF NextEntry
      <3>2. Cardinality(targets) \in Nat /\ EntryLength(targets) = 1 + Cardinality(targets)
        BY <3>1, EntryLengths
      <3> QED
        BY <3>2
    <2>3. n \in Nat \ {0} /\ n <= EntryLength(targets)
      BY <2>2
    <2> QED
      BY <2>1, <2>3
  <1>4. seq' = seq /\ bat' = bat /\ flushed' = flushed /\ committed' = committed /\ starts' = starts
    BY DEF TornUpdate
  <1>5. LogHead \in Nat
    BY <1>1, HeadIn
  <1>6. PICK far \in Nat : LogReaches(far, reach, n)
    BY <1>1, FarIs
  <1>7. /\ far >= reach /\ far >= LogHead + n /\ far <= LogTail + LogSlots /\ DOMAIN log' = 1..LogSlots
        /\ \A i \in 0..(n - 1) : log'[LogSlot(LogHead + i)] =
                                   [seq |-> seq + 1, whole |-> FALSE, part |-> i, targets |-> targets]
    <2>1. SectorsWent(log', targets, n, FALSE, reach, far)
      BY <1>1, <1>3, <1>6, SectorsGo
    <2> QED
      BY <2>1 DEF SectorsWent
  <1>8. /\ \A m \in 1..seq : starts[m] + LogSlots >= far =>
              LogKept(m, reach) /\ (LogLies(m))' /\ (LogTargets(m))' = LogTargets(m)
        /\ \A k \in 1..LogSlots : (EntryBegins(k))' =>
              \/ \E i \in 0..(n - 1) : k = LogSlot(LogHead + i)
              \/ /\ log'[k] = log[k] /\ log[k].seq \in 1..seq /\ k = LogSlot(starts[log[k].seq])
                 /\ starts[log[k].seq] + LogSlots >= far
    <2>1. OldStay(n, reach, far)
      BY <1>1, <1>3, <1>4, <1>6, OldEntriesStay
    <2> QED
      BY <2>1 DEF OldStay
  <1>9. VhdxType'
    BY <1>1, <1>4, <1>7 DEF VhdxAt, VhdxType
  <1>10. LogRecent(far)'
    <2>1. LogHead' = LogHead /\ LogTail' = LogTail
      BY <1>4 DEF LogHead, LogTail
    <2>2. LogHead <= far
      BY <1>5, <1>7
    <2> QED
      BY <1>7, <2>1, <2>2 DEF LogRecent
  <1>11. \A m : (LogKept(m, far))' <=> m \in 1..seq /\ starts[m] + LogSlots >= far
    BY <1>4 DEF LogKept
  <1>12. LogLasts(far)'
    BY <1>4, <1>8, <1>11 DEF LogLasts
  <1>13. LogTold(far)'
    <2>1. ASSUME NEW k \in 1..LogSlots, (EntryBegins(k))'
          PROVE  (LogKept(log[k].seq, far))' /\ k = LogSlot(starts'[log'[k].seq])
      <3>1. ~\E i \in 0..(n - 1) : k = LogSlot(LogHead + i)
        <4>1. SUFFICES ASSUME NEW i \in 0..(n - 1), k = LogSlot(LogHead + i) PROVE FALSE
          OBVIOUS
        <4>2. log'[LogSlot(LogHead + i)] = [seq |-> seq + 1, whole |-> FALSE, part |-> i, targets |-> targets]
          BY <1>7
        <4>3. log'[k].whole = FALSE
          BY <4>1, <4>2
        <4> QED
          BY <2>1, <4>3 DEF EntryBegins
      <3> QED
        BY <1>4, <1>8, <2>1, <3>1 DEF LogKept
    <2> QED
      BY <2>1 DEF LogTold, LogSlot
  <1>14. CommittedLogged(far)'
    <2>1. ASSUME NEW m \in 1..seq, (LogKept(m, far))' PROVE LogKept(m, reach) /\ (LogTargets(m))' = LogTargets(m)
      BY <1>8, <1>11, <2>1
    <2>2. ASSUME NEW m \in 1..seq, (LogKept(m, far))' PROVE \A e \in (LogTargets(m))' : committed[e] >= m
      BY <1>1, <2>1, <2>2 DEF VhdxAt, CommittedLogged
    <2>3. ASSUME NEW e \in 1..LogBlocks, (LogKept(committed[e], far))' PROVE e \in (LogTargets(committed[e]))'
      <3>1. PICK m : m = committed[e]
        OBVIOUS
      <3>2. m \in 1..seq /\ (LogKept(m, far))'
        BY <1>4, <1>11, <2>3, <3>1 DEF LogKept
      <3>3. LogKept(m, reach) /\ (LogTargets(m))' = LogTargets(m)
        BY <2>1, <3>2
      <3>4. e \in LogTargets(m)
        BY <1>1, <3>1, <3>3 DEF VhdxAt, CommittedLogged
      <3>5. e \in (LogTargets(m))'
        BY <3>3, <3>4
      <3> QED
        BY <1>4, <3>1, <3>5 DEF LogTargets
    <2> QED
      BY <1>4, <2>2, <2>3 DEF CommittedLogged
  <1>15. FlushedMapped'
    BY <1>1, <1>4 DEF VhdxAt, FlushedMapped
  <1>16. VhdxAt(far)'
    BY <1>9, <1>10, <1>12, <1>13, <1>14, <1>15 DEF VhdxAt
  <1> QED
    BY <1>16 DEF VhdxInv

LEMMA FlushKeepsLog ==
    ASSUME VhdxInv, Flush
    PROVE  VhdxInv'
  <1>1. PICK reach \in Nat : VhdxAt(reach)
    BY DEF VhdxInv
  <1>2. /\ flushed < seq /\ flushed' = flushed + 1 /\ log' = log /\ seq' = seq /\ committed' = committed /\ starts' = starts
        /\ bat' = [e \in 1..LogBlocks |->
                    IF e \in log[LogSlot(LogTail)].targets THEN log[LogSlot(LogTail)].seq ELSE bat[e]]
    BY DEF Flush
  <1>3. /\ seq \in Nat /\ flushed \in Nat /\ LogSlots \in Nat \ {0} /\ starts \in Seq(Nat) /\ Len(starts) = seq + 1
        /\ bat \in [1..LogBlocks -> 0..seq] /\ committed \in [1..LogBlocks -> 0..seq]
        /\ \A a, b \in 1..(seq + 1) : a < b => starts[a] < starts[b]
    BY <1>1, ImagesAssumption DEF VhdxAt, VhdxType
  <1>4. PICK n \in 1..seq : n = flushed + 1
    BY <1>2, <1>3
  <1>5. PICK at \in Nat : at = starts[n] /\ at = LogTail /\ starts[n + 1] \in Nat /\ at < starts[n + 1]
    BY <1>3, <1>4 DEF LogTail
  <1>6. LogKept(n, reach)
    BY <1>1, <1>3, <1>5 DEF VhdxAt, LogRecent, LogKept
  <1>7. LogLies(n)
    BY <1>1, <1>6 DEF VhdxAt, LogLasts
  <1>8. log[LogSlot(LogTail)].targets = LogTargets(n) /\ log[LogSlot(LogTail)].seq = n /\ LogTargets(n) \subseteq 1..LogBlocks
    BY <1>5, <1>7 DEF LogLies, LogTargets
  <1>9. PICK goal : goal = LogTargets(n)
    OBVIOUS
  <1>10. bat' = [e \in 1..LogBlocks |-> IF e \in goal THEN n ELSE bat[e]]
    BY <1>2, <1>8, <1>9
  <1>11. VhdxType'
    <2>1. bat' \in [1..LogBlocks -> 0..seq] /\ n \in 0..seq
      BY <1>3, <1>10
    <2> QED
      BY <1>1, <1>2, <1>4, <2>1 DEF VhdxAt, VhdxType
  <1>12. LogRecent(reach)'
    <2>1. LogHead' = LogHead /\ LogTail' = starts[n + 1]
      BY <1>2, <1>4 DEF LogHead, LogTail
    <2>2. LogHead <= reach /\ reach <= at + LogSlots
      BY <1>1, <1>5 DEF VhdxAt, LogRecent
    <2> QED
      BY <1>3, <1>5, <2>1, <2>2 DEF LogRecent
  <1>13. LogLasts(reach)' /\ LogTold(reach)' /\ CommittedLogged(reach)'
    BY <1>1, <1>2 DEF VhdxAt, LogLasts, LogTold, CommittedLogged, LogKept, LogLies, LogTargets, LogSlot, EntryBegins
  <1>14. FlushedMapped'
    <2>1. ASSUME NEW e \in 1..LogBlocks, committed[e] <= n PROVE bat'[e] = committed[e]
      <3>1. CASE e \in goal
        <4>1. committed[e] >= n
          BY <1>1, <1>6, <1>9, <3>1 DEF VhdxAt, CommittedLogged
        <4>2. committed[e] \in 0..seq /\ bat'[e] = n
          BY <1>3, <1>10, <3>1
        <4> QED
          BY <1>3, <2>1, <4>1, <4>2
      <3>2. CASE e \notin goal
        <4>1. committed[e] # n
          BY <1>1, <1>6, <1>9, <3>2 DEF VhdxAt, CommittedLogged
        <4>2. committed[e] \in 0..seq /\ bat'[e] = bat[e]
          BY <1>3, <1>10, <3>2
        <4>3. committed[e] <= flushed
          BY <1>3, <1>4, <2>1, <4>1, <4>2
        <4> QED
          BY <1>1, <4>2, <4>3 DEF VhdxAt, FlushedMapped
      <3> QED
        BY <3>1, <3>2
    <2> QED
      BY <1>2, <1>4, <2>1 DEF FlushedMapped
  <1>15. VhdxAt(reach)'
    BY <1>11, <1>12, <1>13, <1>14 DEF VhdxAt
  <1> QED
    BY <1>15 DEF VhdxInv

\* At every moment the writer of a VHDX may die, its log and its map together have
\* all it committed.
THEOREM VhdxInvariant == ImagesSpec => []VhdxInv
  <1>1. ImagesInit => VhdxInv
    BY VhdxInit
  <1>2. VhdxInv /\ [ImagesNext]_imagesVars => VhdxInv'
    <2> SUFFICES ASSUME VhdxInv, [ImagesNext]_imagesVars PROVE VhdxInv'
      OBVIOUS
    <2>1. CASE LogUpdate
      BY <2>1, LogUpdateKeeps
    <2>2. CASE TornUpdate
      BY <2>2, TornUpdateKeeps
    <2>3. CASE Flush
      BY <2>3, FlushKeepsLog
    <2>4. CASE UNCHANGED <<bat, log, seq, flushed, starts, committed>>
      <3>1. PICK reach \in Nat : VhdxAt(reach)
        BY DEF VhdxInv
      <3>2. VhdxType' /\ LogRecent(reach)' /\ FlushedMapped'
        BY <2>4, <3>1 DEF VhdxAt, VhdxType, LogRecent, FlushedMapped, LogHead, LogTail
      <3>3. LogLasts(reach)' /\ LogTold(reach)' /\ CommittedLogged(reach)'
        BY <2>4, <3>1 DEF VhdxAt, LogLasts, LogTold, CommittedLogged, LogKept, LogLies, LogTargets, LogSlot, EntryBegins
      <3>4. VhdxAt(reach)'
        BY <3>2, <3>3 DEF VhdxAt
      <3> QED
        BY <3>4 DEF VhdxInv
    <2>5. CASE AttachVhdx \/ Attach \/ Save \/ UNCHANGED imagesVars
      BY <2>4, <2>5 DEF AttachVhdx, Attach, Save, imagesVars
    <2> QED
      BY <2>1, <2>2, <2>3, <2>5 DEF ImagesNext, FilesNext, LogNext
  <1> QED
    BY <1>1, <1>2, PTL DEF ImagesSpec

\* replayVhdxLog finds entry n: it is there, and before the end of the ring.
LogSeen(n, reach) == LogKept(n, reach) /\ ~Overruns(LogSlot(starts[n]))

\* The entries whose turn is n are entry n, if it is seen.
LEMMA HitsAre ==
    ASSUME NEW reach \in Nat, VhdxAt(reach), NEW n \in Nat \ {0}
    PROVE  HitsAt(n) = IF LogSeen(n, reach) THEN {LogSlot(starts[n])} ELSE {}
  <1>1. DOMAIN log = 1..LogSlots /\ seq \in Nat /\ starts \in Seq(Nat) /\ Len(starts) = seq + 1
    BY ImagesAssumption DEF VhdxAt, VhdxType
  <1>2. ASSUME NEW k \in HitsAt(n) PROVE LogSeen(n, reach) /\ k = LogSlot(starts[n])
    <2>1. k \in 1..LogSlots /\ EntryBegins(k) /\ ~Overruns(k) /\ log[k].seq = n
      BY <1>1 DEF HitsAt, LogHits, OrderOfHits
    <2>2. LogKept(n, reach) /\ k = LogSlot(starts[n])
      BY <2>1 DEF VhdxAt, LogTold
    <2> QED
      BY <2>1, <2>2 DEF LogSeen
  <1>3. ASSUME LogSeen(n, reach) PROVE LogSlot(starts[n]) \in HitsAt(n)
    <2>1. LogLies(n) /\ n \in 1..seq
      BY <1>3 DEF VhdxAt, LogLasts, LogSeen, LogKept
    <2>2. PICK at \in Nat : at = starts[n]
      BY <1>1, <2>1
    <2>3. PICK k \in 1..LogSlots : k = LogSlot(at)
      BY LogSlotIn
    <2>4. PICK goal : goal = LogTargets(n)
      OBVIOUS
    <2>5. PICK size \in Nat : size = Cardinality(goal) /\ EntryLength(goal) = 1 + size
      BY <2>1, <2>4, EntryLengths DEF LogLies
    <2>6. log[k] = [seq |-> n, whole |-> TRUE, part |-> 0, targets |-> goal]
      BY <2>1, <2>2, <2>3, <2>4 DEF LogLies
    <2>7. log[k].seq = n /\ log[k].whole /\ log[k].part = 0 /\ log[k].targets = goal
      BY <2>6
    <2>8. EntryBegins(k)
      BY <2>7 DEF EntryBegins
    <2>9. ~Overruns(k) /\ k + size <= LogSlots
      <3>1. ~Overruns(k)
        BY <1>3, <2>2, <2>3 DEF LogSeen
      <3>2. ~(k + (1 + size) - 1 > LogSlots)
        BY <2>5, <2>7, <3>1 DEF Overruns
      <3> QED
        BY <3>1, <3>2, ImagesAssumption
    <2>10. Unharmed(k)
      <3>1. ASSUME NEW i \in 1..size
            PROVE  log[k + i] = [seq |-> log[k].seq, whole |-> TRUE, part |-> i, targets |-> log[k].targets]
        <4>1. LogSlot(at) + i <= LogSlots /\ i \in Nat
          BY <2>3, <2>9, ImagesAssumption
        <4>2. LogSlot(at + i) = k + i
          BY <2>3, <4>1, LogSlotsFollow
        <4>3. log[LogSlot(at + i)] = [seq |-> n, whole |-> TRUE, part |-> i, targets |-> goal]
          BY <2>1, <2>2, <2>4, <2>5 DEF LogLies
        <4>4. log[k + i] = [seq |-> n, whole |-> TRUE, part |-> i, targets |-> goal]
          BY <4>2, <4>3
        <4> QED
          BY <2>7, <4>4
      <3> QED
        BY <2>5, <2>7, <3>1 DEF Unharmed
    <2> QED
      BY <1>1, <2>2, <2>3, <2>7, <2>8, <2>9, <2>10 DEF HitsAt, LogHits, OrderOfHits
  <1>4. CASE LogSeen(n, reach)
    <2>1. HitsAt(n) = {LogSlot(starts[n])}
      BY <1>2, <1>3, <1>4
    <2> QED
      BY <1>4, <2>1
  <1>5. CASE ~LogSeen(n, reach)
    <2>1. HitsAt(n) = {}
      BY <1>2, <1>5
    <2> QED
      BY <1>5, <2>1
  <1> QED
    BY <1>4, <1>5

\* What a sector of the map is after n turns: as the latest of the entries seen that
\* are of it has it, or as it was
LogLatest(map, e, n, reach) ==
    \/ map[e] = bat[e] /\ \A m \in 1..n : LogSeen(m, reach) => e \notin LogTargets(m)
    \/ /\ map[e] \in 1..n /\ LogSeen(map[e], reach) /\ e \in LogTargets(map[e])
       /\ \A m \in 1..n : m > map[e] /\ LogSeen(m, reach) => e \notin LogTargets(m)

LEMMA TurnIs ==
    ASSUME NEW reach \in Nat, VhdxAt(reach), NEW n \in Nat \ {0}, NEW map, DOMAIN map = 1..LogBlocks,
           \A e \in 1..LogBlocks : LogLatest(map, e, n - 1, reach)
    PROVE  /\ DOMAIN Applied(map, HitsAt(n)) = 1..LogBlocks
           /\ \A e \in 1..LogBlocks : LogLatest(Applied(map, HitsAt(n)), e, n, reach)
  <1>1. PICK new : new = Applied(map, HitsAt(n))
    OBVIOUS
  <1>2. \A m \in 1..n : m \in 1..(n - 1) \/ m = n
    OBVIOUS
  <1>3. 1..(n - 1) \subseteq 1..n /\ n \in 1..n /\ \A m \in 1..n : ~(m > n)
    OBVIOUS
  <1>4. CASE ~LogSeen(n, reach)
    <2>1. new = map
      BY <1>1, <1>4, HitsAre DEF Applied
    <2>2. ASSUME NEW e \in 1..LogBlocks PROVE LogLatest(map, e, n, reach)
      <3>1. LogLatest(map, e, n - 1, reach)
        OBVIOUS
      <3>2. \A m \in 1..n : LogSeen(m, reach) => m \in 1..(n - 1)
        BY <1>2, <1>4
      <3> QED
        BY <1>3, <3>1, <3>2 DEF LogLatest
    <2> QED
      BY <1>1, <2>1, <2>2
  <1>5. CASE LogSeen(n, reach)
    <2>1. HitsAt(n) = {LogSlot(starts[n])}
      BY <1>5, HitsAre
    <2>2. PICK slot : slot = LogSlot(starts[n])
      OBVIOUS
    <2>3. (CHOOSE k \in HitsAt(n) : TRUE) = slot /\ HitsAt(n) # {}
      BY <2>1, <2>2
    <2>4. LogLies(n)
      BY <1>5 DEF VhdxAt, LogLasts, LogSeen, LogKept
    <2>5. PICK goal : goal = LogTargets(n)
      OBVIOUS
    <2>6. log[slot].seq = n /\ log[slot].targets = goal
      BY <2>2, <2>4, <2>5 DEF LogLies
    <2>7. new = [e \in 1..LogBlocks |-> IF e \in goal THEN n ELSE map[e]]
      BY <1>1, <2>3, <2>6 DEF Applied
    <2>8. DOMAIN new = 1..LogBlocks
      BY <2>7
    <2>9. ASSUME NEW e \in 1..LogBlocks PROVE LogLatest(new, e, n, reach)
      <3>1. CASE e \in goal
        <4>1. new[e] = n
          BY <2>7, <3>1
        <4> QED
          BY <1>3, <1>5, <2>5, <3>1, <4>1 DEF LogLatest
      <3>2. CASE e \notin goal
        <4>1. LogLatest(map, e, n - 1, reach) /\ new[e] = map[e]
          BY <2>7, <3>2
        <4>2. \A m \in 1..n : e \in LogTargets(m) => m \in 1..(n - 1)
          BY <1>2, <2>5, <3>2
        <4> QED
          BY <1>3, <4>1, <4>2 DEF LogLatest
      <3> QED
        BY <3>1, <3>2
    <2> QED
      BY <1>1, <2>8, <2>9
  <1> QED
    BY <1>4, <1>5

\* An entry that nothing was written over has nothing but such entries behind it.
LEMMA LaterKept ==
    ASSUME NEW reach \in Nat, VhdxAt(reach), NEW n \in 1..seq, NEW m \in 1..seq, n <= m, LogKept(n, reach)
    PROVE  LogKept(m, reach)
  <1>1. /\ seq \in Nat /\ starts \in Seq(Nat) /\ Len(starts) = seq + 1 /\ LogSlots \in Nat \ {0}
        /\ \A a, b \in 1..(seq + 1) : a < b => starts[a] < starts[b]
    BY ImagesAssumption DEF VhdxAt, VhdxType
  <1>2. n \in 1..(seq + 1) /\ m \in 1..(seq + 1) /\ starts[n] \in Nat /\ starts[m] \in Nat
    BY <1>1
  <1>3. starts[n] <= starts[m]
    BY <1>1, <1>2
  <1> QED
    BY <1>1, <1>2, <1>3 DEF LogKept

\* So has an entry that is not in the map.
LEMMA UnflushedKept ==
    ASSUME NEW reach \in Nat, VhdxAt(reach), NEW n \in 1..seq, n > flushed
    PROVE  LogKept(n, reach)
  <1>1. /\ seq \in Nat /\ flushed \in 0..seq /\ starts \in Seq(Nat) /\ Len(starts) = seq + 1
        /\ LogSlots \in Nat \ {0}
    BY ImagesAssumption DEF VhdxAt, VhdxType
  <1>2. PICK m \in 1..seq : m = flushed + 1 /\ m <= n
    BY <1>1
  <1>3. starts[m] \in Nat /\ reach <= starts[m] + LogSlots
    BY <1>1, <1>2 DEF VhdxAt, LogRecent, LogTail
  <1>4. LogKept(m, reach)
    BY <1>1, <1>2, <1>3 DEF LogKept
  <1> QED
    BY <1>2, <1>4, LaterKept

\* The writer's map, from the log and the map in the file, but for an entry over the
\* end of the ring
LEMMA LatestIsCommitted ==
    ASSUME NEW reach \in Nat, VhdxAt(reach), NEW map, NEW e \in 1..LogBlocks,
           LogLatest(map, e, LogUpdates, reach), ~LostAtTheEnd(e)
    PROVE  map[e] = committed[e]
  <1>1. /\ seq \in Nat /\ flushed \in Nat /\ seq <= LogUpdates /\ LogUpdates \in Nat
        /\ committed[e] \in 0..seq /\ DOMAIN log = 1..LogSlots
        /\ starts \in Seq(Nat) /\ Len(starts) = seq + 1
    BY ImagesAssumption DEF VhdxAt, VhdxType
  <1>2. PICK c \in 0..seq : c = committed[e]
    BY <1>1
  <1>3. ASSUME LogKept(c, reach) PROVE LogSeen(c, reach) /\ e \in LogTargets(c) /\ c \in 1..LogUpdates
    <2>1. LogLies(c) /\ c \in 1..seq
      BY <1>3 DEF VhdxAt, LogLasts, LogKept
    <2>2. starts[c] \in Nat
      BY <1>1, <2>1
    <2>3. PICK k \in 1..LogSlots : k = LogSlot(starts[c])
      BY <2>2, LogSlotIn
    <2>4. log[k].seq = c /\ EntryBegins(k)
      BY <2>1, <2>3 DEF LogLies, EntryBegins
    <2>5. ~Overruns(k)
      BY <1>1, <1>2, <2>4 DEF LostAtTheEnd
    <2>6. e \in LogTargets(c)
      BY <1>2, <1>3 DEF VhdxAt, CommittedLogged
    <2> QED
      BY <1>1, <1>3, <2>1, <2>3, <2>5, <2>6 DEF LogSeen
  <1>4. CASE map[e] = bat[e] /\ \A m \in 1..LogUpdates : LogSeen(m, reach) => e \notin LogTargets(m)
    <2>1. ~(c > flushed)
      <3>1. SUFFICES ASSUME c > flushed PROVE FALSE
        OBVIOUS
      <3>2. c \in 1..seq
        BY <1>1, <3>1
      <3>3. LogKept(c, reach)
        BY <3>1, <3>2, UnflushedKept
      <3> QED
        BY <1>3, <1>4, <3>3
    <2>2. c <= flushed
      BY <1>1, <2>1
    <2> QED
      BY <1>2, <1>4, <2>2 DEF VhdxAt, FlushedMapped
  <1>5. CASE /\ map[e] \in 1..LogUpdates /\ LogSeen(map[e], reach) /\ e \in LogTargets(map[e])
             /\ \A m \in 1..LogUpdates : m > map[e] /\ LogSeen(m, reach) => e \notin LogTargets(m)
    <2>1. PICK r \in 1..seq : r = map[e] /\ LogKept(r, reach) /\ e \in LogTargets(r)
      BY <1>5 DEF LogSeen, LogKept
    <2>2. c >= r
      BY <1>2, <2>1 DEF VhdxAt, CommittedLogged
    <2>3. c \in 1..seq /\ r <= c
      BY <1>1, <2>2
    <2>4. LogKept(c, reach)
      BY <2>1, <2>3, LaterKept
    <2>5. ~(c > r)
      BY <1>3, <1>5, <2>1, <2>4
    <2> QED
      BY <1>1, <1>2, <2>1, <2>2, <2>5
  <1> QED
    BY <1>4, <1>5 DEF LogLatest

LEMMA ReplayIs ==
    ASSUME NEW reach \in Nat, VhdxAt(reach)
    PROVE  \A e \in 1..LogBlocks : LogLatest(Replay, e, LogUpdates, reach)
  <1>1. PICK n \in Nat : n = LogUpdates
    BY ImagesAssumption
  <1> DEFINE Values == {bat[e] : e \in 1..LogBlocks} \cup {log[k].seq : k \in 1..LogSlots}
             T == [1..LogBlocks -> Values]
  <1>2. bat \in T
    BY DEF VhdxAt, VhdxType
  <1>3. ASSUME NEW k \in 1..n, NEW map \in T PROVE Applied(map, HitsAt(k)) \in T
    <2>1. CASE HitsAt(k) = {}
      BY <2>1 DEF Applied
    <2>2. CASE HitsAt(k) # {}
      <3>1. PICK slot \in HitsAt(k) : slot = (CHOOSE s \in HitsAt(k) : TRUE)
        BY <2>2
      <3>2. slot \in 1..LogSlots
        BY <3>1 DEF HitsAt, LogHits, VhdxAt, VhdxType
      <3>3. log[slot].seq \in Values
        BY <3>2
      <3> HIDE DEF Values
      <3>4. [e \in 1..LogBlocks |-> IF e \in log[slot].targets THEN log[slot].seq ELSE map[e]] \in T
        BY <3>3
      <3> QED
        BY <2>2, <3>1, <3>4 DEF Applied
    <2> QED
      BY <2>1, <2>2
  <1> HIDE DEF T
  <1> DEFINE step == [p \in (1..n) \X T |-> Applied(p[2], HitsAt(p[1]))]
  <1>4. StepOn(n, T, bat, step)
    <2>1. ASSUME NEW p \in (1..n) \X T PROVE Applied(p[2], HitsAt(p[1])) \in T
      <3>1. p[1] \in 1..n /\ p[2] \in T
        OBVIOUS
      <3> QED
        BY <1>3, <3>1
    <2>2. step \in [(1..n) \X T -> T]
      BY <2>1
    <2> QED
      BY <1>2, <2>2 DEF StepOn
  <1>5. PICK f : Recursive(f, n, T, bat, step)
    <2> HIDE DEF step
    <2> QED
      BY <1>4, Recursion
  <1>6. f \in [0..n -> T] /\ f[0] = bat /\ \A k \in 1..n : f[k] = Applied(f[k - 1], HitsAt(k))
    <2>1. f \in [0..n -> T] /\ f[0] = bat /\ \A k \in 1..n : f[k] = step[<<k, f[k - 1]>>]
      BY <1>5 DEF Recursive
    <2>2. ASSUME NEW k \in 1..n PROVE f[k] = Applied(f[k - 1], HitsAt(k))
      <3>1. k - 1 \in 0..n
        OBVIOUS
      <3>2. <<k, f[k - 1]>> \in (1..n) \X T
        BY <2>1, <3>1
      <3> QED
        BY <2>1, <3>2
    <2> QED
      BY <2>1, <2>2
  <1> DEFINE Turns(g) == g = [k \in 0..LogUpdates |-> IF k = 0 THEN bat ELSE Applied(g[k - 1], HitsAt(k))]
             maps == CHOOSE g : Turns(g)
  <1>7. Turns(maps)
    <2>1. \A k \in 0..n : k # 0 => k \in 1..n
      OBVIOUS
    <2>2. Turns(f)
      BY <1>1, <1>6, <2>1
    <2> HIDE DEF Turns
    <2> QED
      BY <2>2
  <1>8. maps[0] = bat /\ \A k \in 1..n : maps[k] = Applied(maps[k - 1], HitsAt(k))
    <2> HIDE DEF maps
    <2>1. 0 \in 0..n /\ \A k \in 1..n : k \in 0..n /\ k # 0
      OBVIOUS
    <2> QED
      BY <1>1, <1>7, <2>1
  <1>9. Replay = maps[n]
    BY <1>1 DEF Replay
  <1> HIDE DEF maps
  <1> DEFINE S == {k \in 0..n : /\ maps[k] \in T /\ DOMAIN maps[k] = 1..LogBlocks
                                /\ \A e \in 1..LogBlocks : LogLatest(maps[k], e, k, reach)}
  <1>10. 0 \in S
    <2>1. DOMAIN bat = 1..LogBlocks
      BY DEF VhdxAt, VhdxType
    <2>2. \A e \in 1..LogBlocks : LogLatest(bat, e, 0, reach)
      BY DEF LogLatest
    <2>3. \A e \in 1..LogBlocks : LogLatest(maps[0], e, 0, reach)
      BY <1>8, <2>2
    <2> QED
      BY <1>2, <1>8, <2>1, <2>3
  <1>11. ASSUME NEW k \in 1..n, k - 1 \in S PROVE k \in S
    <2>1. /\ k \in Nat \ {0} /\ maps[k - 1] \in T /\ DOMAIN maps[k - 1] = 1..LogBlocks
          /\ \A e \in 1..LogBlocks : LogLatest(maps[k - 1], e, k - 1, reach)
      BY <1>11
    <2> HIDE DEF S
    <2>2. PICK before : before = maps[k - 1]
      OBVIOUS
    <2>3. /\ DOMAIN Applied(before, HitsAt(k)) = 1..LogBlocks
          /\ \A e \in 1..LogBlocks : LogLatest(Applied(before, HitsAt(k)), e, k, reach)
      BY <2>1, <2>2, TurnIs
    <2>4. maps[k] = Applied(before, HitsAt(k))
      BY <1>8, <2>2
    <2>5. Applied(before, HitsAt(k)) \in T
      BY <1>3, <2>1, <2>2
    <2> QED
      BY <2>3, <2>4, <2>5 DEF S
  <1> HIDE DEF S
  <1>12. n \in S
    <2>1. 0..n \subseteq S
      BY <1>10, <1>11, AllUpTo
    <2> QED
      BY <2>1
  <1>13. Replay \in T /\ \A e \in 1..LogBlocks : LogLatest(Replay, e, LogUpdates, reach)
    BY <1>1, <1>9, <1>12 DEF S
  <1> QED
    BY <1>13 DEF T

\* replayVhdxLog, after any death of the writer and however often its log has gone
\* round: each sector of the map is seen as the writer had committed it, unless its
\* last entry lies over the end of the log.
THEOREM ReplaysRestore == ImagesSpec => ReplayRestores
  <1>1. ASSUME VhdxInv, NEW e \in 1..LogBlocks, ~LostAtTheEnd(e) PROVE Replay[e] = committed[e]
    <2>1. PICK reach \in Nat : VhdxAt(reach)
      BY <1>1 DEF VhdxInv
    <2>2. LogLatest(Replay, e, LogUpdates, reach)
      BY <2>1, ReplayIs
    <2> QED
      BY <1>1, <2>1, <2>2, LatestIsCommitted
  <1>2. VhdxInv /\ [ImagesNext]_imagesVars =>
            [AttachVhdx /\ replayed' # Failed =>
                \A e \in 1..LogBlocks : ~LostAtTheEnd(e) => replayed'[e] = committed[e]]_imagesVars
    <2>1. ASSUME VhdxInv, AttachVhdx, replayed' # Failed, NEW e \in 1..LogBlocks, ~LostAtTheEnd(e)
          PROVE  replayed'[e] = committed[e]
      <3>1. replayed' = Replay
        BY <2>1 DEF AttachVhdx
      <3> QED
        BY <1>1, <2>1, <3>1
    <2> QED
      BY <2>1
  <1> QED
    BY <1>2, VhdxInvariant, PTL DEF ImagesSpec, ReplayRestores

----------------------------------------------------------------------------
(* What the writers of images lay down                                     *)

\* A file that grows by blobs: what it has after each
Grows(blobs, n, T) ==
    /\ Grown(blobs) \in [0..n -> Seq(T)]
    /\ \A k \in 1..n : Grown(blobs)[k] = Grown(blobs)[k - 1] \o blobs[k]

\* Every file grows so.
LEMMA GrownUnfolds ==
    ASSUME NEW T, NEW n \in Nat, NEW blobs, blobs \in Seq(Seq(T)), Len(blobs) = n
    PROVE  Grows(blobs, n, T)
<1> DEFINE S == Seq(T)
           step == [x \in (1..n) \X S |-> x[2] \o blobs[x[1]]]
<1>2. <<>> \in S /\ \A k \in 1..n : blobs[k] \in S
  OBVIOUS
<1>3. \A k \in 1..n, t \in S : t \o blobs[k] \in S
  BY <1>2
<1>4. step \in [(1..n) \X S -> S]
  BY <1>3
<1>5. \A k \in 1..n, t \in S : step[<<k, t>>] = t \o blobs[k]
  OBVIOUS
<1> HIDE DEF S, step
<1>6. PICK f : Recursive(f, n, S, <<>>, step)
  BY <1>2, <1>4, Recursion DEF StepOn
<1>7. f \in [0..n -> S] /\ f[0] = <<>> /\ \A k \in 1..n : f[k] = f[k - 1] \o blobs[k]
  <2>1. f \in [0..n -> S] /\ f[0] = <<>> /\ \A k \in 1..n : f[k] = step[<<k, f[k - 1]>>]
    BY <1>6 DEF Recursive
  <2>2. ASSUME NEW k \in 1..n PROVE f[k] = f[k - 1] \o blobs[k]
    <3>1. k - 1 \in 0..n
      OBVIOUS
    <3> QED
      BY <1>5, <2>1, <3>1
  <2> QED
    BY <2>1, <2>2
<1> DEFINE Turns(g) == g = [k \in 0..Len(blobs) |-> IF k = 0 THEN <<>> ELSE g[k - 1] \o blobs[k]]
           after == CHOOSE g : Turns(g)
<1>8. Turns(after)
  <2>1. \A k \in 0..n : k # 0 => k \in 1..n
    OBVIOUS
  <2>2. Turns(f)
    BY <1>7, <2>1
  <2> HIDE DEF Turns
  <2> QED
    BY <2>2
<1>9. Grown(blobs) = after
  BY DEF Grown
<1> HIDE DEF after
<1>10. /\ 0 \in 0..n /\ \A k \in 1..n : k \in 0..n /\ k # 0
       /\ \A k \in 0..n : k # 0 => k \in 1..n
  OBVIOUS
<1>11. after[0] = <<>> /\ \A k \in 1..n : after[k] = after[k - 1] \o blobs[k]
  BY <1>8, <1>10
<1> DEFINE Good == {x \in (0..n) \X S : x[2] = after[x[1]]}
<1>12. \A k \in 0..n : <<k, after[k]>> \in Good
  <2>1. <<0, after[0]>> \in Good
    BY <1>2, <1>10, <1>11
  <2>2. ASSUME NEW k \in 1..n, <<k - 1, after[k - 1]>> \in Good PROVE <<k, after[k]>> \in Good
    BY <1>3, <1>10, <1>11, <2>2
  <2> HIDE DEF Good
  <2> QED
    BY <2>1, <2>2, AllAlong
<1>13. after \in [0..n -> S]
  BY <1>8, <1>12
<1> QED
  BY <1>9, <1>11, <1>13 DEF S, Grows

\* Sequence b begins with a.
Begins(a, b) == Len(a) =< Len(b) /\ \A k \in 1..Len(a) : b[k] = a[k]

\* What was laid down stays where it is.
LEMMA GrownStays ==
    ASSUME NEW T, NEW n \in Nat, NEW blobs, blobs \in Seq(Seq(T)), Len(blobs) = n, NEW i \in 0..n
    PROVE  \A j \in i..n : Begins(Grown(blobs)[i], Grown(blobs)[j])
<1> DEFINE file == Grown(blobs)
           S == Seq(T)
<1>0. Grows(blobs, n, T)
  BY GrownUnfolds, Zenon
<1>a. \A k \in 1..n : blobs[k] \in S
  OBVIOUS
<1> HIDE DEF S
<1>b. file \in [0..n -> S] /\ \A k \in 1..n : file[k] = file[k - 1] \o blobs[k]
  BY <1>0, Zenon DEF S, Grows
<1> HIDE DEF file
<1>1. /\ file \in [0..n -> S] /\ \A k \in 1..n : file[k] = file[k - 1] \o blobs[k]
      /\ \A k \in 1..n : blobs[k] \in S
  BY <1>a, <1>b
<1> USE DEF S
<1> DEFINE Good == {x \in (0..n) \X S : i <= x[1] => Begins(file[i], x[2])}
<1>2. \A k \in 0..n : <<k, file[k]>> \in Good
  <2>1. <<0, file[0]>> \in Good
    <3>1. file[0] \in S /\ file[i] \in S
      BY <1>1
    <3>2. i <= 0 => file[i] = file[0]
      OBVIOUS
    <3> QED
      BY <3>1, <3>2 DEF Begins
  <2>2. ASSUME NEW k \in 1..n, <<k - 1, file[k - 1]>> \in Good PROVE <<k, file[k]>> \in Good
    <3>1. file[k - 1] \in S /\ blobs[k] \in S /\ file[i] \in S /\ file[k] \in S
      BY <1>1
    <3>2. i <= k - 1 => Begins(file[i], file[k - 1])
      BY <2>2
    <3>3. CASE i <= k - 1
      <4>1. PICK a, b, c : a = file[i] /\ b = file[k - 1] /\ c = blobs[k]
        OBVIOUS
      <4>2. a \in S /\ b \in S /\ c \in S /\ Begins(a, b) /\ file[k] = b \o c
        BY <1>1, <3>1, <3>2, <3>3, <4>1
      <4>3. Begins(a, b \o c)
        <5>1. PICK x \in Nat, y \in Nat, z \in Nat : x = Len(a) /\ y = Len(b) /\ z = Len(c)
          BY <4>2
        <5>2. x =< y /\ \A m \in 1..x : b[m] = a[m]
          BY <4>2, <5>1 DEF Begins
        <5>3. Len(b \o c) = y + z /\ \A m \in 1..y : (b \o c)[m] = b[m]
          BY <4>2, <5>1
        <5>4. x =< y + z /\ \A m \in 1..x : m \in 1..y
          BY <5>1, <5>2
        <5>5. \A m \in 1..x : (b \o c)[m] = a[m]
          BY <5>2, <5>3, <5>4
        <5>6. Len(a) =< Len(b \o c) /\ \A m \in 1..Len(a) : (b \o c)[m] = a[m]
          BY <5>1, <5>3, <5>4, <5>5
        <5> QED
          BY <5>6 DEF Begins
      <4>4. Begins(file[i], file[k])
        BY <4>1, <4>2, <4>3, Zenon
      <4>5. k \in 0..n
        OBVIOUS
      <4> QED
        BY <3>1, <4>4, <4>5
    <3>4. CASE i = k
      BY <3>1, <3>4 DEF Begins
    <3>5. CASE i > k
      BY <3>1, <3>5
    <3> QED
      BY <3>3, <3>4, <3>5
  <2> HIDE DEF Good
  <2> QED
    BY <2>1, <2>2, AllAlong
<1>3. ASSUME NEW j \in i..n PROVE Begins(file[i], file[j])
  <2>1. j \in 0..n
    OBVIOUS
  <2>2. <<j, file[j]>> \in Good
    BY <1>2, <2>1
  <2> QED
    BY <2>1, <2>2
<1> QED
  BY <1>3 DEF file

\* What a file has that grows by n blobs
GrowsBy(blobs, n, T) ==
    /\ Grown(blobs) \in [0..n -> Seq(T)]
    /\ \A i \in 1..n :
          /\ Len(Grown(blobs)[i - 1]) \in Nat
          /\ Len(Grown(blobs)[i - 1]) + Len(blobs[i]) =< Len(Grown(blobs)[n])
          /\ \A m \in 1..Len(blobs[i]) : Grown(blobs)[n][Len(Grown(blobs)[i - 1]) + m] = blobs[i][m]

\* Blob i lies behind what the file had before it.
LEMMA BlobsLie ==
    ASSUME NEW T, NEW n \in Nat, NEW blobs, blobs \in Seq(Seq(T)), Len(blobs) = n
    PROVE  GrowsBy(blobs, n, T)
<1>0. Grows(blobs, n, T)
  BY GrownUnfolds, Zenon
<1>1. Grown(blobs) \in [0..n -> Seq(T)]
  BY <1>0 DEF Grows
<1>2. ASSUME NEW i \in 1..n
      PROVE  /\ Len(Grown(blobs)[i - 1]) \in Nat
             /\ Len(Grown(blobs)[i - 1]) + Len(blobs[i]) =< Len(Grown(blobs)[n])
             /\ \A m \in 1..Len(blobs[i]) : Grown(blobs)[n][Len(Grown(blobs)[i - 1]) + m] = blobs[i][m]
  <2> DEFINE file == Grown(blobs)
  <2>a. blobs[i] \in Seq(T)
    OBVIOUS
  <2>1. /\ file \in [0..n -> Seq(T)] /\ file[i] = file[i - 1] \o blobs[i] /\ blobs[i] \in Seq(T)
    BY <1>0, <2>a, Zenon DEF Grows
  <2>2. Begins(file[i], file[n])
    <3>1. i \in 0..n /\ n \in i..n
      OBVIOUS
    <3> QED
      BY <3>1, GrownStays
  <2> HIDE DEF file
  <2>3. PICK a \in Seq(T), b \in Seq(T), c \in Seq(T) : a = file[i - 1] /\ b = blobs[i] /\ c = file[n]
    <3>1. i - 1 \in 0..n /\ n \in 0..n
      OBVIOUS
    <3> QED
      BY <2>1, <3>1
  <2>4. Begins(a \o b, c)
    BY <2>1, <2>2, <2>3
  <2>5. /\ Len(a) \in Nat /\ Len(a) + Len(b) =< Len(c)
        /\ \A m \in 1..Len(b) : c[Len(a) + m] = b[m]
    <3>1. Len(a \o b) = Len(a) + Len(b) /\ \A m \in 1..Len(b) : (a \o b)[Len(a) + m] = b[m]
      OBVIOUS
    <3>2. \A k \in 1..Len(a \o b) : c[k] = (a \o b)[k]
      BY <2>4 DEF Begins
    <3>3. Len(a \o b) =< Len(c)
      BY <2>4 DEF Begins
    <3>4. PICK x \in Nat, y \in Nat : x = Len(a) /\ y = Len(b)
      OBVIOUS
    <3>5. ASSUME NEW m \in 1..y PROVE c[x + m] = b[m]
      <4>1. x + m \in 1..(x + y)
        BY <3>4
      <4> QED
        BY <3>1, <3>2, <3>4, <4>1
    <3> QED
      BY <3>1, <3>3, <3>4, <3>5
  <2> QED
    BY <2>1, <2>3, <2>5 DEF file
<1> QED
  BY <1>1, <1>2, Zenon DEF GrowsBy

----------------------------------------------------------------------------
(* What one file of a line gives                                           *)

\* What extracting a file may give
DiskData == Seq(Nat) \cup {Failed}

\* A failure is no disk.
LEMMA FailedApart == Failed \notin Seq(Nat)
<1>1. Failed[1] = -1 /\ Len(Failed) = 1
  BY DEF Failed
<1> SUFFICES ASSUME NEW d \in Seq(Nat), d = Failed PROVE FALSE
  OBVIOUS
<1>2. 1 \in DOMAIN d
  BY <1>1
<1>3. d[1] \in Nat
  BY <1>2
<1>4. d[1] = -1
  BY <1>1
<1> QED
  BY <1>3, <1>4

\* Numbers in a row are a disk.
LEMMA DiskOf ==
    ASSUME NEW n \in Nat, NEW d, d \in [1..n -> Nat]
    PROVE  d \in Seq(Nat) /\ d \in DiskData /\ Len(d) = n /\ d # Failed
<1>1. d \in Seq(Nat) /\ Len(d) = n
  OBVIOUS
<1> QED
  BY <1>1, FailedApart DEF DiskData

\* The disk below a file without a parent
LEMMA ZerosAre ==
    ASSUME NEW n \in Nat
    PROVE  Zeros(n) \in [1..n -> Nat] /\ \A k \in 1..n : Zeros(n)[k] = 0
BY DEF Zeros

\* Sector s of a disk lies in one place of one block.
LEMMA SectorPlace ==
    ASSUME NEW b \in Nat \ {0}, NEW s \in Nat \ {0}
    PROVE  LET i == (s - 1) \div b + 1
               r == (s - 1) % b
           IN  /\ i \in Nat \ {0} /\ r \in 0..(b - 1)
               /\ s = (i - 1) * b + r + 1 /\ (i - 1) * b \in Nat
               /\ \A m \in Nat : s <= m * b => i <= m
<1>1. PICK x \in Nat : x = s - 1
  OBVIOUS
<1>2. /\ x \div b \in Nat /\ x % b \in 0..(b - 1) /\ x = (x \div b) * b + (x % b)
      /\ \A m \in Nat : x < m * b => x \div b < m
  BY Blocks
<1>3. PICK q \in Nat, r \in 0..(b - 1) : q = x \div b /\ r = x % b
  BY <1>2
<1>4. PICK y \in Nat : y = q * b
  OBVIOUS
<1>5. x = y + r
  BY <1>2, <1>3, <1>4
<1>6. (q + 1) - 1 = q
  OBVIOUS
<1>7. ASSUME NEW m \in Nat, s <= m * b PROVE q + 1 <= m
  <2>1. PICK z \in Nat : z = m * b
    OBVIOUS
  <2>2. x < z
    BY <1>1, <1>7, <2>1
  <2>3. q < m
    BY <1>2, <1>3, <2>1, <2>2
  <2> QED
    BY <2>3
<1>8. s = y + r + 1
  BY <1>1, <1>5
<1> QED
  BY <1>1, <1>3, <1>4, <1>6, <1>7, <1>8

\* What a block that is copied gives for a sector of it
LEMMA CopyTyped ==
    ASSUME NEW image, ImageIsSound(image), image.kind # "dmg",
           NEW i \in DOMAIN image.map, InRange(image, i), Copies(image, i),
           NEW r \in 0..(image.block - 1), (i - 1) * image.block + r < image.size
    PROVE  CopiedSector(image, i, r) \in Nat
<1>1. /\ image.block \in Nat \ {0} /\ image.size \in Nat /\ Len(image.data) \in Nat
      /\ i \in 1..Len(image.map) /\ Len(image.map) \in Nat /\ EntryIsSound(image, i)
  BY DEF ImageIsSound
<1>a. PICK b \in Nat \ {0}, size \in Nat, len \in Nat : b = image.block /\ size = image.size /\ len = Len(image.data)
  BY <1>1
<1>b. PICK e, data : e = image.map[i] /\ data = image.data
  OBVIOUS
<1>c. PICK start \in Nat : start = (i - 1) * image.block
  <2>1. PICK j \in Nat : j = i - 1
    BY <1>1
  <2>2. j * b \in Nat
    BY <2>1
  <2> QED
    BY <1>a, <2>1, <2>2
<1>2. /\ b = image.block /\ size = image.size /\ len = Len(image.data) /\ e = image.map[i]
      /\ data = image.data /\ start = (i - 1) * image.block
  BY <1>a, <1>b, <1>c
<1>3. PICK chunk \in Nat : chunk = Chunk(image, i) /\ chunk <= b /\ r < chunk
  <2>1. Chunk(image, i) = Smaller(b, size - start)
    BY <1>2, Zenon DEF Chunk, BlockLength
  <2>2. start + r < size /\ r \in 0..(b - 1)
    BY <1>2
  <2>3. \E chunk \in Nat : chunk = Smaller(b, size - start) /\ chunk <= b /\ r < chunk
    BY <2>2 DEF Smaller
  <2> QED
    BY <2>1, <2>3, Zenon
<1>4. CASE e.how = "data"
  <2>1. e.at \in Nat \ {0} /\ e.at + chunk - 1 <= len
    BY <1>1, <1>2, <1>3, <1>4 DEF EntryIsSound, InRange
  <2>2. \A k \in e.at..(e.at + b - 1) : k <= len => data[k] \in Nat
    BY <1>1, <1>2, <1>4 DEF EntryIsSound
  <2>3. e.at + r \in e.at..(e.at + b - 1) /\ e.at + r <= len
    <3>1. PICK at \in Nat : at = e.at
      BY <2>1
    <3>2. r \in Nat /\ r < chunk /\ chunk <= b /\ at + chunk - 1 <= len
      BY <1>3, <2>1, <3>1
    <3>3. at + r \in at..(at + b - 1) /\ at + r <= len
      BY <3>2
    <3> QED
      BY <3>1, <3>3
  <2>4. CopiedSector(image, i, r) = data[e.at + r]
    BY <1>2, <1>4 DEF CopiedSector
  <2> QED
    BY <2>2, <2>3, <2>4
<1>5. CASE e.how = "packed"
  <2>1. e.at \in Nat \ {0} /\ e.at <= len /\ data[e.at] # <<>>
    BY <1>1, <1>2, <1>5 DEF EntryIsSound, InRange
  <2>2. PICK content \in Seq(Nat) : content = data[e.at] /\ Len(content) = b
    <3>1. PICK content : content = data[e.at]
      OBVIOUS
    <3>2. content \in Seq(Nat) /\ Len(content) \in {0, b}
      BY <1>1, <1>2, <1>5, <2>1, <3>1 DEF EntryIsSound
    <3>3. Len(content) # 0
      BY <2>1, <3>1, <3>2
    <3> QED
      BY <3>1, <3>2, <3>3
  <2>3. CopiedSector(image, i, r) = content[r + 1]
    BY <1>2, <1>5, <2>2 DEF CopiedSector
  <2>4. r + 1 \in 1..b
    BY <1>2
  <2> QED
    BY <2>2, <2>3, <2>4
<1>6. CASE e.how \notin {"data", "packed"}
  BY <1>2, <1>6 DEF CopiedSector
<1> QED
  BY <1>4, <1>5, <1>6

\* A file expanded over a disk is a disk.
LEMMA ExpandIs ==
    ASSUME NEW image, ImageIsSound(image), image.kind # "dmg", NEW base \in DiskData,
           Expand(image, base) # Failed
    PROVE  /\ base \in Seq(Nat) /\ Len(base) = image.size /\ image.size \in Nat /\ image.block \in Nat \ {0}
           /\ \A i \in BlocksInDisk(image) : InRange(image, i)
           /\ Expand(image, base) \in [1..image.size -> Nat]
           /\ \A s \in 1..image.size :
                 LET i == (s - 1) \div image.block + 1
                 IN  Expand(image, base)[s] =
                       IF i \in BlocksInDisk(image) /\ Copies(image, i)
                       THEN CopiedSector(image, i, (s - 1) % image.block) ELSE base[s]
<1>1. /\ image.block \in Nat \ {0} /\ image.size \in Nat
      /\ Len(image.map) \in Nat /\ DOMAIN image.map = 1..Len(image.map)
  BY DEF ImageIsSound
<1>2. base # Failed /\ Len(base) = image.size /\ \A i \in BlocksInDisk(image) : InRange(image, i)
  BY DEF Expand
<1>3. base \in Seq(Nat)
  BY <1>2 DEF DiskData
<1> DEFINE i(s) == (s - 1) \div image.block + 1
           r(s) == (s - 1) % image.block
           at(s) == IF i(s) \in BlocksInDisk(image) /\ Copies(image, i(s))
                    THEN CopiedSector(image, i(s), r(s)) ELSE base[s]
<1>4. Expand(image, base) = [s \in 1..image.size |-> at(s)]
  BY <1>2 DEF Expand
<1>5. ASSUME NEW s \in 1..image.size PROVE at(s) \in Nat
  <2>1. base[s] \in Nat
    BY <1>1, <1>2, <1>3
  <2>2. ASSUME i(s) \in BlocksInDisk(image), Copies(image, i(s)) PROVE CopiedSector(image, i(s), r(s)) \in Nat
    <3>1. s \in Nat \ {0}
      BY <1>1
    <3>2. /\ i(s) \in Nat \ {0} /\ r(s) \in 0..(image.block - 1)
          /\ s = (i(s) - 1) * image.block + r(s) + 1 /\ (i(s) - 1) * image.block \in Nat
      BY <1>1, <3>1, SectorPlace
    <3> HIDE DEF i, r
    <3>3. PICK y \in Nat : y = (i(s) - 1) * image.block
      BY <3>2
    <3>4. y + r(s) < image.size
      BY <1>1, <3>2, <3>3
    <3>5. i(s) \in DOMAIN image.map /\ InRange(image, i(s))
      BY <1>2, <2>2 DEF BlocksInDisk
    <3> QED
      BY <2>2, <3>2, <3>3, <3>4, <3>5, CopyTyped
  <2> HIDE DEF i, r
  <2> QED
    BY <2>1, <2>2
<1> HIDE DEF at
<1>6. Expand(image, base) \in [1..image.size -> Nat] /\ \A s \in 1..image.size : Expand(image, base)[s] = at(s)
  BY <1>4, <1>5
<1> QED
  BY <1>1, <1>2, <1>3, <1>6 DEF at

\* Max of some numbers is the greatest of them.
LEMMA MaxOf ==
    ASSUME NEW n \in Nat, NEW S, S \subseteq 0..n, S # {}
    PROVE  Max(S) \in S /\ \A k \in S : k <= Max(S)
<1> DEFINE R == {n - k : k \in S}
<1>1. R \subseteq Nat /\ R # {}
  <2>1. \A k \in S : n - k \in Nat
    OBVIOUS
  <2> QED
    BY <2>1
<1>2. PICK m \in R : \A j \in R : m <= j
  BY <1>1, LeastNatural
<1>3. PICK k \in S : m = n - k
  BY <1>2
<1>4. ASSUME NEW j \in S PROVE k >= j
  <2>1. m <= n - j
    BY <1>2
  <2> QED
    BY <1>3, <2>1
<1>5. Max(S) \in S /\ \A j \in S : Max(S) >= j
  BY <1>3, <1>4 DEF Max
<1> QED
  BY <1>5

\* Min of some numbers is the least of them.
LEMMA MinOf ==
    ASSUME NEW S, S \subseteq Nat, NEW m \in S, \A k \in S : m <= k
    PROVE  Min(S) = m
<1>1. PICK k \in S : k = Min(S) /\ \A j \in S : k <= j
  BY DEF Min
<1>2. k <= m /\ m <= k /\ k \in Nat /\ m \in Nat
  BY <1>1
<1>3. k = m
  BY <1>2
<1> QED
  BY <1>1, <1>3

\* A disk image of Apple gives a disk.
LEMMA RunTyped ==
    ASSUME NEW size \in Nat, NEW runs \in Seq([to : Nat, count : Nat, zero : BOOLEAN, data : Seq(Nat)]),
           ExpandDmg(size, runs) # Failed
    PROVE  ExpandDmg(size, runs) \in [1..size -> Nat]
<1>0. ASSUME NEW k \in DOMAIN runs PROVE runs[k] \in [to : Nat, count : Nat, zero : BOOLEAN, data : Seq(Nat)]
  <2>1. PICK R : R = [to : Nat, count : Nat, zero : BOOLEAN, data : Seq(Nat)]
    OBVIOUS
  <2>2. runs \in Seq(R)
    BY <2>1
  <2>3. runs[k] \in R
    BY <2>2
  <2> QED
    BY <2>1, <2>3
<1> DEFINE covers(r, s) == ~r.zero /\ s > r.to /\ s <= r.to + RunLength(r)
           last(s) == {k \in DOMAIN runs : covers(runs[k], s)}
           at(s) == IF last(s) = {} THEN 0 ELSE runs[Max(last(s))].data[s - runs[Max(last(s))].to]
<1>1. ExpandDmg(size, runs) = [s \in 1..size |-> at(s)]
  BY DEF ExpandDmg
<1>2. ASSUME NEW s \in 1..size PROVE at(s) \in Nat
  <2>1. CASE last(s) = {}
    BY <2>1
  <2>2. CASE last(s) # {}
    <3>1. last(s) \subseteq 0..Len(runs) /\ Len(runs) \in Nat
      <4>1. DOMAIN runs = 1..Len(runs) /\ Len(runs) \in Nat
        OBVIOUS
      <4> QED
        BY <4>1
    <3>2. Max(last(s)) \in last(s)
      BY <2>2, <3>1, MaxOf
    <3>3. PICK k : k = Max(last(s))
      OBVIOUS
    <3>4. k \in DOMAIN runs /\ covers(runs[k], s)
      BY <3>2, <3>3
    <3>5. PICK to \in Nat, count \in Nat, data \in Seq(Nat) :
             to = runs[k].to /\ count = runs[k].count /\ data = runs[k].data
      <4>1. PICK run \in [to : Nat, count : Nat, zero : BOOLEAN, data : Seq(Nat)] : run = runs[k]
        <5>1. k \in DOMAIN runs
          BY <3>4, Zenon
        <5> QED
          BY <1>0, <5>1, Zenon
      <4>2. run.to \in Nat /\ run.count \in Nat /\ run.data \in Seq(Nat)
        OBVIOUS
      <4> QED
        BY <4>1, <4>2
    <3>6. s - to \in 1..Len(data)
      <4>1. s > to /\ s <= to + Smaller(count, Len(data))
        BY <3>4, <3>5 DEF RunLength
      <4>2. PICK len \in Nat : len = Len(data)
        OBVIOUS
      <4>3. s - to \in 1..len
        BY <4>1, <4>2 DEF Smaller
      <4> QED
        BY <4>2, <4>3
    <3>7. data[s - to] \in Nat
      BY <3>6
    <3> QED
      BY <2>2, <3>3, <3>5, <3>7
  <2> QED
    BY <2>1, <2>2
<1> QED
  BY <1>1, <1>2

----------------------------------------------------------------------------
(* The files along a line                                                  *)

\* A folder as it is before and after an image is saved to it
FolderIsSane(files) ==
    /\ IsFiniteSet(DOMAIN files) /\ NoParent \notin DOMAIN files
    /\ \A p \in DOMAIN files :
          /\ ImageIsSound(files[p])
          /\ files[p].parent \in DOMAIN files => files[files[p].parent].kind # "dmg"

\* What a file gives over what the files below gave
Over(files, p, below) ==
    LET image == files[p]
    IN  IF image.kind = "dmg" THEN ExpandDmg(image.size, image.map)
        ELSE Expand(image, BaseOf(image, IF image.parent \in DOMAIN files THEN below[image.parent] ELSE Failed))

\* What a file is expanded over is a disk, or a failure,
LEMMA BaseTyped ==
    ASSUME NEW files, FolderIsSane(files), NEW below \in [DOMAIN files -> DiskData], NEW p \in DOMAIN files
    PROVE  BaseOf(files[p], IF files[p].parent \in DOMAIN files THEN below[files[p].parent] ELSE Failed) \in DiskData
<1>1. files[p].size \in Nat
  BY DEF FolderIsSane, ImageIsSound
<1>2. Zeros(files[p].size) \in DiskData
  BY <1>1, ZerosAre, DiskOf
<1>3. Failed \in DiskData
  BY DEF DiskData
<1> QED
  BY <1>2, <1>3 DEF BaseOf

\* and so is what it gives.
LEMMA OverTyped ==
    ASSUME NEW files, FolderIsSane(files), NEW below \in [DOMAIN files -> DiskData], NEW p \in DOMAIN files
    PROVE  Over(files, p, below) \in DiskData
<1>1. Failed \in DiskData
  BY DEF DiskData
<1>2. ImageIsSound(files[p])
  BY DEF FolderIsSane
<1>3. CASE files[p].kind = "dmg"
  <2>1. /\ files[p].size \in Nat
        /\ files[p].map \in Seq([to : Nat, count : Nat, zero : BOOLEAN, data : Seq(Nat)])
    BY <1>2, <1>3 DEF ImageIsSound
  <2>2. Over(files, p, below) = ExpandDmg(files[p].size, files[p].map)
    BY <1>3 DEF Over
  <2>3. ASSUME ExpandDmg(files[p].size, files[p].map) # Failed PROVE ExpandDmg(files[p].size, files[p].map) \in DiskData
    BY <2>1, <2>3, RunTyped, DiskOf
  <2> QED
    BY <1>1, <2>2, <2>3
<1>4. CASE files[p].kind # "dmg"
  <2>1. PICK base \in DiskData : base = BaseOf(files[p], IF files[p].parent \in DOMAIN files THEN below[files[p].parent] ELSE Failed)
    BY BaseTyped
  <2>2. Over(files, p, below) = Expand(files[p], base)
    BY <1>4, <2>1 DEF Over
  <2>3. ASSUME Expand(files[p], base) # Failed PROVE Expand(files[p], base) \in DiskData
    <3>1. Expand(files[p], base) \in [1..files[p].size -> Nat] /\ files[p].size \in Nat
      BY <1>2, <1>4, <2>3, ExpandIs
    <3> QED
      BY <3>1, DiskOf
  <2> QED
    BY <1>1, <2>2, <2>3
<1> QED
  BY <1>3, <1>4

\* Extracted along lines of n files, for each n
LEMMA ExtractedUnfolds ==
    ASSUME NEW files, FolderIsSane(files), NEW n \in Nat, n = Cardinality(DOMAIN files)
    PROVE  \E got \in [0..n -> [DOMAIN files -> DiskData]] :
              /\ \A p \in DOMAIN files : got[0][p] = Failed
              /\ \A k \in 1..n : \A p \in DOMAIN files : got[k][p] = Over(files, p, got[k - 1])
              /\ Extracted(files) = got[n]
<1> DEFINE paths == DOMAIN files
           T == [paths -> DiskData]
           first == [p \in paths |-> Failed]
           step == [x \in (1..n) \X T |-> [p \in paths |-> Over(files, p, x[2])]]
<1>1. first \in T
  BY DEF DiskData
<1>2. ASSUME NEW t \in T PROVE [p \in paths |-> Over(files, p, t)] \in T
  <2>1. ASSUME NEW p \in paths PROVE Over(files, p, t) \in DiskData
    BY OverTyped
  <2> QED
    BY <2>1
<1>3. \A k \in 1..n, t \in T : step[<<k, t>>] = [p \in paths |-> Over(files, p, t)]
  OBVIOUS
<1> HIDE DEF T
<1>4. step \in [(1..n) \X T -> T]
  BY <1>2
<1> HIDE DEF step
<1>5. PICK f : Recursive(f, n, T, first, step)
  BY <1>1, <1>4, Recursion DEF StepOn
<1>6. /\ f \in [0..n -> T] /\ f[0] = first
      /\ \A k \in 1..n : f[k] = [p \in paths |-> Over(files, p, f[k - 1])]
  <2>1. f \in [0..n -> T] /\ f[0] = first /\ \A k \in 1..n : f[k] = step[<<k, f[k - 1]>>]
    BY <1>5 DEF Recursive
  <2>2. ASSUME NEW k \in 1..n PROVE f[k] = [p \in paths |-> Over(files, p, f[k - 1])]
    <3>1. k - 1 \in 0..n
      OBVIOUS
    <3> QED
      BY <1>3, <2>1, <3>1
  <2> QED
    BY <2>1, <2>2
<1> DEFINE Body(g, k, p) ==
               LET image == files[p]
                   parent == IF image.parent \in paths THEN g[k - 1][image.parent] ELSE Failed
               IN  IF k = 0 THEN Failed
                   ELSE IF image.kind = "dmg" THEN ExpandDmg(image.size, image.map)
                   ELSE Expand(image, BaseOf(image, parent))
           Turns(g) == g = [k \in 0..Cardinality(paths) |-> [p \in paths |-> Body(g, k, p)]]
           got == CHOOSE g : Turns(g)
<1>7. Extracted(files) = got[Cardinality(paths)]
  BY Zenon DEF Extracted
<1>8. \A g, k, p : Body(g, k, p) = IF k = 0 THEN Failed ELSE Over(files, p, g[k - 1])
  BY DEF Over
<1> HIDE DEF Body
<1>9. \A k \in 0..n : k # 0 => k \in 1..n
  OBVIOUS
<1>10. Turns(f)
  <2>1. ASSUME NEW k \in 0..n PROVE f[k] = [p \in paths |-> Body(f, k, p)]
    <3>1. CASE k = 0
      <4>1. \A p \in paths : Body(f, k, p) = Failed
        BY <1>8, <3>1
      <4> QED
        BY <1>6, <3>1, <4>1
    <3>2. CASE k # 0
      <4>1. \A p \in paths : Body(f, k, p) = Over(files, p, f[k - 1])
        BY <1>8, <3>2
      <4>2. f[k] = [p \in paths |-> Over(files, p, f[k - 1])]
        BY <1>6, <1>9, <3>2
      <4> QED
        BY <4>1, <4>2
    <3> QED
      BY <3>1, <3>2
  <2> QED
    BY <1>6, <2>1
<1> HIDE DEF Turns
<1>11. Turns(got)
  BY <1>10
<1> HIDE DEF got
<1>12. /\ \A p \in paths : got[0][p] = Failed
       /\ \A k \in 1..n : got[k] = [p \in paths |-> Over(files, p, got[k - 1])]
  <2>1. 0 \in 0..n /\ \A k \in 1..n : k \in 0..n /\ k # 0
    OBVIOUS
  <2>2. got = [k \in 0..n |-> [p \in paths |-> Body(got, k, p)]]
    BY <1>11 DEF Turns
  <2>3. \A k \in 0..n : got[k] = [p \in paths |-> Body(got, k, p)]
    BY <2>2
  <2>4. \A k \in 1..n : got[k] = [p \in paths |-> Over(files, p, got[k - 1])]
    BY <1>8, <2>1, <2>3
  <2>5. \A p \in paths : Body(got, 0, p) = Failed
    BY <1>8
  <2>6. \A p \in paths : got[0][p] = Body(got, 0, p)
    BY <2>1, <2>3
  <2> QED
    BY <2>4, <2>5, <2>6
<1> DEFINE Good == {x \in (0..n) \X T : TRUE}
<1>13. \A k \in 0..n : <<k, got[k]>> \in Good
  <2>1. <<0, got[0]>> \in Good
    <3>1. got[0] = first
      <4>1. got[0] = [p \in paths |-> Body(got, 0, p)]
        BY <1>11 DEF Turns
      <4> QED
        BY <1>8, <4>1
    <3> QED
      BY <1>1, <3>1
  <2>2. ASSUME NEW k \in 1..n, <<k - 1, got[k - 1]>> \in Good PROVE <<k, got[k]>> \in Good
    <3>1. got[k - 1] \in T
      BY <2>2
    <3>2. got[k] \in T
      BY <1>2, <1>12, <3>1
    <3> QED
      BY <1>9, <3>2
  <2> HIDE DEF Good
  <2> QED
    BY <2>1, <2>2, AllAlong
<1>14. got \in [0..n -> T]
  <2>1. \A k \in 0..n : got[k] \in T
    BY <1>13
  <2>2. got = [k \in 0..n |-> [p \in paths |-> Body(got, k, p)]]
    BY <1>11 DEF Turns
  <2> QED
    BY <2>1, <2>2
<1>15. Extracted(files) = got[n]
  BY <1>7
<1>16. got \in [0..n -> [DOMAIN files -> DiskData]]
  BY <1>14 DEF T
<1>17. ASSUME NEW k \in 1..n, NEW p \in DOMAIN files PROVE got[k][p] = Over(files, p, got[k - 1])
  <2>1. got[k] = [q \in paths |-> Over(files, q, got[k - 1])]
    BY <1>12
  <2> QED
    BY <2>1
<1> QED
  BY <1>12, <1>15, <1>16, <1>17, Zenon

\* The file below a file
Below(files, p) == IF p \in DOMAIN files THEN files[p].parent ELSE NoParent

\* A line of files: each is the parent of the one before.
LEMMA LineUnfolds ==
    ASSUME NEW files, NEW path, NEW n \in Nat, n = Cardinality(DOMAIN files)
    PROVE  /\ DOMAIN Line(files, path) = 0..n /\ Line(files, path)[0] = path
           /\ \A k \in 1..n : Line(files, path)[k] = Below(files, Line(files, path)[k - 1])
<1> DEFINE T == {path, NoParent} \cup {files[p].parent : p \in DOMAIN files}
           step == [x \in (1..n) \X T |-> Below(files, x[2])]
<1>1. path \in T /\ \A t \in T : Below(files, t) \in T
  BY DEF Below
<1>2. \A k \in 1..n, t \in T : step[<<k, t>>] = Below(files, t)
  OBVIOUS
<1> HIDE DEF T
<1>3. step \in [(1..n) \X T -> T]
  BY <1>1
<1> HIDE DEF step
<1>4. PICK f : Recursive(f, n, T, path, step)
  BY <1>1, <1>3, Recursion DEF StepOn
<1>5. f \in [0..n -> T] /\ f[0] = path /\ \A k \in 1..n : f[k] = Below(files, f[k - 1])
  <2>1. f \in [0..n -> T] /\ f[0] = path /\ \A k \in 1..n : f[k] = step[<<k, f[k - 1]>>]
    BY <1>4 DEF Recursive
  <2>2. ASSUME NEW k \in 1..n PROVE f[k] = Below(files, f[k - 1])
    <3>1. k - 1 \in 0..n
      OBVIOUS
    <3> QED
      BY <1>2, <2>1, <3>1
  <2> QED
    BY <2>1, <2>2
<1> DEFINE Body(g, k) == IF k = 0 THEN path
                         ELSE IF g[k - 1] \in DOMAIN files THEN files[g[k - 1]].parent ELSE NoParent
           Turns(g) == g = [k \in 0..Cardinality(DOMAIN files) |-> Body(g, k)]
           line == CHOOSE g : Turns(g)
<1>6. Line(files, path) = line
  BY Zenon DEF Line
<1>7. \A g, k : Body(g, k) = IF k = 0 THEN path ELSE Below(files, g[k - 1])
  BY DEF Below
<1> HIDE DEF Body
<1>8. Turns(f)
  <2>1. \A k \in 0..n : k # 0 => k \in 1..n
    OBVIOUS
  <2>2. \A k \in 0..n : f[k] = Body(f, k)
    BY <1>5, <1>7, <2>1
  <2> QED
    BY <1>5, <2>2
<1> HIDE DEF Turns
<1>9. Turns(line)
  BY <1>8
<1> HIDE DEF line
<1>10. DOMAIN line = 0..n /\ \A k \in 0..n : line[k] = Body(line, k)
  BY <1>9 DEF Turns
<1>11. 0 \in 0..n /\ \A k \in 1..n : k \in 0..n /\ k # 0
  OBVIOUS
<1> QED
  BY <1>6, <1>7, <1>10, <1>11

\* The line of a parent is the rest of the line.
LEMMA LineShifts ==
    ASSUME NEW files, NEW p, NEW q, q = Below(files, p), NEW n \in Nat, n = Cardinality(DOMAIN files)
    PROVE  \A k \in 1..n : Line(files, p)[k] = Line(files, q)[k - 1]
<1> DEFINE a == Line(files, p)
           b == Line(files, q)
           S == {k \in 0..n : k # 0 => a[k] = b[k - 1]}
<1>1. a[0] = p /\ \A k \in 1..n : a[k] = Below(files, a[k - 1])
  BY LineUnfolds
<1>2. b[0] = q /\ \A k \in 1..n : b[k] = Below(files, b[k - 1])
  BY LineUnfolds
<1> HIDE DEF a, b
<1>3. 0 \in S
  OBVIOUS
<1>4. ASSUME NEW k \in 1..n, k - 1 \in S PROVE k \in S
  <2>1. CASE k = 1
    BY <1>1, <1>2, <2>1
  <2>2. CASE k # 1
    <3>1. k - 1 \in 1..n /\ k - 1 # 0
      BY <2>2
    <3>2. a[k - 1] = b[(k - 1) - 1]
      BY <1>4, <3>1
    <3>3. b[k - 1] = Below(files, b[(k - 1) - 1])
      BY <1>2, <3>1
    <3> QED
      BY <1>1, <3>2, <3>3
  <2> QED
    BY <2>1, <2>2
<1> HIDE DEF S
<1>5. 0..n \subseteq S
  BY <1>3, <1>4, AllUpTo
<1> QED
  BY <1>5 DEF S, a, b

\* A line that has left the folder does not come back.
LEMMA LineEnds ==
    ASSUME NEW files, NoParent \notin DOMAIN files, NEW p, NEW n \in Nat, n = Cardinality(DOMAIN files),
           NEW m \in 0..n, Line(files, p)[m] \notin DOMAIN files
    PROVE  \A k \in m..n : Line(files, p)[k] \notin DOMAIN files
<1> DEFINE a == Line(files, p)
           S == {k \in 0..n : m <= k => a[k] \notin DOMAIN files}
<1>1. \A k \in 1..n : a[k] = Below(files, a[k - 1])
  BY LineUnfolds
<1>0. a[m] \notin DOMAIN files
  OBVIOUS
<1> HIDE DEF a
<1>2. 0 \in S
  BY <1>0
<1>3. ASSUME NEW k \in 1..n, k - 1 \in S PROVE k \in S
  <2>1. CASE m <= k - 1
    BY <1>1, <1>3, <2>1 DEF Below
  <2>2. CASE m = k
    BY <1>0, <2>2
  <2>3. CASE m > k
    BY <2>3
  <2> QED
    BY <2>1, <2>2, <2>3
<1> HIDE DEF S
<1>4. 0..n \subseteq S
  BY <1>2, <1>3, AllUpTo
<1>5. \A k \in m..n : k \in 0..n /\ m <= k
  OBVIOUS
<1> QED
  BY <1>4, <1>5 DEF S, a

\* Sector s, from the block of an image that has it
CopyOf(image, s) == CopiedSector(image, (s - 1) \div image.block + 1, (s - 1) % image.block)

\* A file expanded over a disk has its own sectors and those of the disk between.
LEMMA OneLayer ==
    ASSUME NEW image, ImageIsSound(image), image.kind # "dmg", NEW base \in DiskData,
           Expand(image, base) # Failed, image.parent = NoParent => base = Zeros(image.size),
           NEW s \in 1..image.size
    PROVE  Expand(image, base)[s] = IF Present(image, s) THEN CopyOf(image, s) ELSE base[s]
<1>1. /\ image.block \in Nat \ {0} /\ image.size \in Nat
      /\ Len(image.map) \in Nat /\ DOMAIN image.map = 1..Len(image.map)
      /\ \A j \in DOMAIN image.map : EntryIsSound(image, j)
  BY DEF ImageIsSound
<1> DEFINE i == (s - 1) \div image.block + 1
           r == (s - 1) % image.block
<1>2. Expand(image, base)[s] =
        IF i \in BlocksInDisk(image) /\ Copies(image, i) THEN CopiedSector(image, i, r) ELSE base[s]
  BY ExpandIs
<1>3. CopyOf(image, s) = CopiedSector(image, i, r)
  BY DEF CopyOf
<1>4. Present(image, s) <=> /\ i \in DOMAIN image.map /\ image.map[i].how # "free"
                            /\ image.map[i].how \in {"data", "packed"} => r \in image.map[i].only
  BY DEF Present
<1>5. r \in 0..(image.block - 1) /\ (i - 1) * image.block < image.size
  <2>1. s \in Nat \ {0} /\ s <= image.size
    BY <1>1
  <2>2. /\ i \in Nat \ {0} /\ r \in 0..(image.block - 1)
        /\ s = (i - 1) * image.block + r + 1 /\ (i - 1) * image.block \in Nat
    BY <1>1, <2>1, SectorPlace
  <2> HIDE DEF i, r
  <2>3. PICK y \in Nat : y = (i - 1) * image.block
    BY <2>2
  <2>4. s = y + r + 1
    BY <2>2, <2>3
  <2>5. y < image.size
    BY <1>1, <2>1, <2>2, <2>4
  <2> QED
    BY <2>2, <2>3, <2>5
<1>6. base[s] = 0 \/ image.parent # NoParent
  BY <1>1, ZerosAre
<1> HIDE DEF i, r
<1>7. i \in DOMAIN image.map <=> i \in BlocksInDisk(image)
  BY <1>5 DEF BlocksInDisk
<1>8. CASE i \notin DOMAIN image.map
  BY <1>2, <1>4, <1>7, <1>8
<1>9. CASE i \in DOMAIN image.map
  <2>1. EntryIsSound(image, i)
    BY <1>1, <1>9
  <2>2. PICK e : e = image.map[i]
    OBVIOUS
  <2>3. CASE e.how \in {"data", "packed"}
    <3>1. e.only = 0..(image.block - 1)
      BY <2>1, <2>2, <2>3 DEF EntryIsSound
    <3>2. Present(image, s)
      BY <1>4, <1>5, <1>9, <2>2, <2>3, <3>1
    <3>3. Copies(image, i)
      BY <2>2, <2>3 DEF Copies
    <3> QED
      BY <1>2, <1>3, <1>7, <1>9, <3>2, <3>3
  <2>4. CASE e.how = "zero"
    <3>1. Present(image, s)
      BY <1>4, <1>9, <2>2, <2>4
    <3>2. CopiedSector(image, i, r) = 0
      BY <2>2, <2>4 DEF CopiedSector
    <3>3. Copies(image, i) \/ base[s] = 0
      BY <1>6, <2>1, <2>2, <2>4 DEF EntryIsSound, Copies
    <3> QED
      BY <1>2, <1>3, <1>7, <1>9, <3>1, <3>2, <3>3
  <2>5. CASE e.how = "free"
    <3>1. ~Present(image, s) /\ ~Copies(image, i)
      BY <1>4, <2>2, <2>5 DEF Copies
    <3> QED
      BY <1>2, <3>1
  <2>6. e.how \in {"free", "zero", "data", "packed"}
    BY <2>1, <2>2 DEF EntryIsSound
  <2> QED
    BY <2>3, <2>4, <2>5, <2>6
<1> QED
  BY <1>8, <1>9

\* What sector s is found to be after m files of a line that do not have it
Found(files, line, s, m, value) ==
    /\ \A j \in 0..(m - 1) : line[j] \in DOMAIN files /\ ~Present(files[line[j]], s)
    /\ \/ line[m] \in DOMAIN files /\ Present(files[line[m]], s) /\ value = CopyOf(files[line[m]], s)
       \/ line[m] \notin DOMAIN files /\ value = 0

\* A disk reads as the first k files of the line of p say.
ReadsAs(files, p, disk, k) ==
    /\ disk \in [1..files[p].size -> Nat]
    /\ \A s \in 1..files[p].size : \E m \in 0..k : Found(files, Line(files, p), s, m, disk[s])

\* One file over what its parent reads as
LEMMA OverReads ==
    ASSUME NEW files, FolderIsSane(files), NEW n \in Nat, n = Cardinality(DOMAIN files), NEW k \in 1..n,
           NEW p \in DOMAIN files, files[p].kind # "dmg", NEW below \in [DOMAIN files -> DiskData],
           \A q \in DOMAIN files : files[q].kind # "dmg" /\ below[q] # Failed => ReadsAs(files, q, below[q], k - 1),
           Over(files, p, below) # Failed
    PROVE  ReadsAs(files, p, Over(files, p, below), k)
<1> DEFINE image == files[p]
           q == image.parent
           parent == IF q \in DOMAIN files THEN below[q] ELSE Failed
           line == Line(files, p)
           rest == Line(files, q)
<1>1. ImageIsSound(image) /\ NoParent \notin DOMAIN files /\ (q \in DOMAIN files => files[q].kind # "dmg")
  BY DEF FolderIsSane
<1>2. PICK base \in DiskData : base = BaseOf(image, parent)
  BY BaseTyped
<1>3. Over(files, p, below) = Expand(image, base)
  BY <1>2 DEF Over
<1>4. Expand(image, base) # Failed
  BY <1>3
<1>5. /\ base \in Seq(Nat) /\ Len(base) = image.size /\ image.size \in Nat
      /\ Expand(image, base) \in [1..image.size -> Nat]
  BY <1>1, <1>4, ExpandIs
<1>6. q = NoParent => base = Zeros(image.size)
  BY <1>2 DEF BaseOf
<1>7. q # NoParent => q \in DOMAIN files /\ base = below[q] /\ base # Failed
  <2>1. base # Failed
    BY <1>5, FailedApart
  <2> QED
    BY <1>2, <2>1 DEF BaseOf
<1>8. line[0] = p /\ \A j \in 1..n : line[j] = rest[j - 1]
  <2>1. q = Below(files, p)
    BY DEF Below
  <2>2. \A j \in 1..n : line[j] = rest[j - 1]
    BY <2>1, LineShifts
  <2> QED
    BY <2>2, LineUnfolds
<1>9. rest[0] = q
  BY LineUnfolds
<1> HIDE DEF line, rest
<1>10. ASSUME NEW s \in 1..image.size
       PROVE  \E m \in 0..k : Found(files, line, s, m, Expand(image, base)[s])
  <2> DEFINE v == Expand(image, base)[s]
  <2>1. v = IF Present(image, s) THEN CopyOf(image, s) ELSE base[s]
    BY <1>1, <1>4, <1>6, OneLayer
  <2> HIDE DEF v
  <2>2. CASE Present(image, s)
    <3>1. Found(files, line, s, 0, v)
      BY <1>8, <2>1, <2>2 DEF Found
    <3>2. 0 \in 0..k
      OBVIOUS
    <3> QED
      BY <3>1, <3>2 DEF v
  <2>3. CASE ~Present(image, s) /\ q = NoParent
    <3>1. v = 0
      BY <1>5, <1>6, <2>1, <2>3, ZerosAre
    <3>2. line[1] = q /\ 1 \in 0..k
      BY <1>8, <1>9
    <3>3. Found(files, line, s, 1, v)
      BY <1>1, <1>8, <2>3, <3>1, <3>2 DEF Found
    <3> QED
      BY <3>2, <3>3 DEF v
  <2>4. CASE ~Present(image, s) /\ q # NoParent
    <3>1. q \in DOMAIN files /\ ReadsAs(files, q, base, k - 1) /\ v = base[s]
      BY <1>1, <1>7, <2>1, <2>4
    <3>2. s \in 1..files[q].size
      <4>1. base \in [1..files[q].size -> Nat]
        BY <3>1 DEF ReadsAs
      <4>2. DOMAIN base = 1..image.size
        BY <1>5
      <4>3. DOMAIN base = 1..files[q].size
        BY <4>1
      <4> QED
        BY <4>2, <4>3
    <3>3. PICK m \in 0..(k - 1) : Found(files, rest, s, m, v)
      BY <3>1, <3>2 DEF ReadsAs, rest
    <3>4. m + 1 \in 0..k /\ m + 1 \in 1..n /\ (m + 1) - 1 = m
      OBVIOUS
    <3>5. line[m + 1] = rest[m]
      BY <1>8, <3>4
    <3>6. ASSUME NEW j \in 0..((m + 1) - 1) PROVE line[j] \in DOMAIN files /\ ~Present(files[line[j]], s)
      <4>1. CASE j = 0
        BY <1>8, <2>4, <4>1
      <4>2. CASE j # 0
        <5>1. j \in 1..n /\ j - 1 \in 0..(m - 1)
          BY <4>2
        <5>2. line[j] = rest[j - 1]
          BY <1>8, <5>1
        <5>3. rest[j - 1] \in DOMAIN files /\ ~Present(files[rest[j - 1]], s)
          BY <3>3, <5>1 DEF Found
        <5> QED
          BY <5>2, <5>3
      <4> QED
        BY <4>1, <4>2
    <3>7. Found(files, line, s, m + 1, v)
      <4>1. \/ rest[m] \in DOMAIN files /\ Present(files[rest[m]], s) /\ v = CopyOf(files[rest[m]], s)
            \/ rest[m] \notin DOMAIN files /\ v = 0
        BY <3>3 DEF Found
      <4> QED
        BY <3>5, <3>6, <4>1 DEF Found
    <3> QED
      BY <3>4, <3>7 DEF v
  <2> QED
    BY <2>2, <2>3, <2>4
<1> QED
  BY <1>3, <1>5, <1>10 DEF ReadsAs, line

\* What extracting a file gives reads as its line of files says.
LEMMA ExtractedReads ==
    ASSUME NEW files, FolderIsSane(files), NEW n \in Nat, n = Cardinality(DOMAIN files),
           NEW p \in DOMAIN files, files[p].kind # "dmg", Extracted(files)[p] # Failed
    PROVE  ReadsAs(files, p, Extracted(files)[p], n)
<1>1. PICK got \in [0..n -> [DOMAIN files -> DiskData]] :
         /\ \A q \in DOMAIN files : got[0][q] = Failed
         /\ \A k \in 1..n : \A q \in DOMAIN files : got[k][q] = Over(files, q, got[k - 1])
         /\ Extracted(files) = got[n]
  BY ExtractedUnfolds
<1> DEFINE S == {k \in 0..n : \A q \in DOMAIN files :
                    files[q].kind # "dmg" /\ got[k][q] # Failed => ReadsAs(files, q, got[k][q], k)}
<1>2. 0 \in S
  BY <1>1
<1>3. ASSUME NEW k \in 1..n, k - 1 \in S PROVE k \in S
  <2>1. ASSUME NEW q \in DOMAIN files, files[q].kind # "dmg", got[k][q] # Failed
        PROVE  ReadsAs(files, q, got[k][q], k)
    <3>1. PICK below \in [DOMAIN files -> DiskData] : below = got[k - 1]
      <4>1. k - 1 \in 0..n
        OBVIOUS
      <4> QED
        BY <4>1
    <3>2. got[k][q] = Over(files, q, below)
      BY <1>1, <3>1
    <3>3. \A r \in DOMAIN files : files[r].kind # "dmg" /\ below[r] # Failed => ReadsAs(files, r, below[r], k - 1)
      BY <1>3, <3>1
    <3>4. Over(files, q, below) # Failed
      BY <2>1, <3>2
    <3>5. ReadsAs(files, q, Over(files, q, below), k)
      BY <2>1, <3>3, <3>4, OverReads
    <3> QED
      BY <3>2, <3>5
  <2>2. k \in 0..n
    OBVIOUS
  <2> QED
    BY <2>1, <2>2
<1> HIDE DEF S
<1>4. 0..n \subseteq S
  BY <1>2, <1>3, AllUpTo
<1>5. n \in S
  BY <1>4
<1> QED
  BY <1>1, <1>5 DEF S

\* A reading along the line is the overlay of the files.
LEMMA FoundIsOverlay ==
    ASSUME FolderIsSane(folder), NEW n \in Nat, n = Cardinality(DOMAIN folder),
           NEW p, NEW s, NEW v, NEW m \in 0..n, Found(folder, Line(folder, p), s, m, v)
    PROVE  v = Overlay(p, s)
<1> DEFINE line == Line(folder, p)
           has == {k \in DOMAIN line : line[k] \in DOMAIN folder /\ Present(folder[line[k]], s)}
           holder == folder[line[Min(has)]]
<1>1. Overlay(p, s) = IF has = {} THEN 0 ELSE CopyOf(holder, s)
  BY DEF Overlay, CopyOf
<1>2. DOMAIN line = 0..n
  BY LineUnfolds
<1>3. \A j \in 0..(m - 1) : j \notin has
  BY DEF Found
<1>4. CASE line[m] \in DOMAIN folder /\ Present(folder[line[m]], s)
  <2>1. m \in has /\ has \subseteq Nat
    BY <1>2, <1>4
  <2>2. \A k \in has : m <= k
    BY <1>3, <2>1
  <2> HIDE DEF has
  <2>3. Min(has) = m
    BY <2>1, <2>2, MinOf
  <2>4. v = CopyOf(folder[line[m]], s)
    BY <1>4 DEF Found
  <2> QED
    BY <1>1, <2>1, <2>3, <2>4
<1>5. CASE ~(line[m] \in DOMAIN folder /\ Present(folder[line[m]], s))
  <2>1. line[m] \notin DOMAIN folder /\ v = 0
    BY <1>5 DEF Found
  <2>2. \A k \in m..n : line[k] \notin DOMAIN folder
    <3>1. NoParent \notin DOMAIN folder
      BY DEF FolderIsSane
    <3> QED
      BY <2>1, <3>1, LineEnds
  <2>3. \A k \in 0..n : k \in 0..(m - 1) \/ k \in m..n
    OBVIOUS
  <2>4. has = {}
    BY <1>2, <1>3, <2>2, <2>3
  <2> QED
    BY <1>1, <2>1, <2>4
<1> QED
  BY <1>4, <1>5

----------------------------------------------------------------------------
(* Saved and read back                                                     *)

\* A block of a written is a block of numbers.
LEMMA BlockTyped ==
    ASSUME NEW written \in Seq(Nat), NEW b \in Nat \ {0}, NEW i \in Nat \ {0}
    PROVE  BlockOf(written, b, i) \in [1..b -> Nat] /\ BlockOf(written, b, i) \in Seq(Nat)
           /\ Len(BlockOf(written, b, i)) = b
<1>1. PICK start \in Nat : start = (i - 1) * b
  <2>1. PICK j \in Nat : j = i - 1
    OBVIOUS
  <2>2. j * b \in Nat
    BY <2>1
  <2> QED
    BY <2>1, <2>2
<1>2. BlockOf(written, b, i) = [m \in 1..b |-> IF start + m <= Len(written) THEN written[start + m] ELSE 0]
  BY <1>1 DEF BlockOf
<1>3. ASSUME NEW m \in 1..b PROVE (IF start + m <= Len(written) THEN written[start + m] ELSE 0) \in Nat
  <2>1. CASE start + m <= Len(written)
    <3>1. start + m \in 1..Len(written)
      BY <2>1
    <3>2. written[start + m] \in Nat
      BY <3>1
    <3> QED
      BY <2>1, <3>2
  <2>2. CASE ~(start + m <= Len(written))
    BY <2>2
  <2> QED
    BY <2>1, <2>2
<1>4. BlockOf(written, b, i) \in [1..b -> Nat]
  BY <1>2, <1>3
<1> QED
  BY <1>4, DiskOf

\* What an image has of each block of what was saved to it
LaidDown(image, written, i) ==
    LET content == BlockOf(written, image.block, i)
        entry == image.map[i]
    IN  \/ /\ entry.how = "data" /\ entry.at \in Nat \ {0} /\ entry.only = 0..(image.block - 1)
           /\ entry.at + image.block - 1 <= Len(image.data)
           /\ \A m \in 1..image.block : image.data[(entry.at - 1) + m] = content[m]
        \/ /\ entry.how = "packed" /\ entry.at \in Nat \ {0} /\ entry.only = 0..(image.block - 1)
           /\ entry.at <= Len(image.data) /\ image.data[entry.at] = content
        \/ /\ entry.how = "free" \/ (entry.how = "zero" /\ image.kind = "vhdx")
           /\ \A m \in 1..image.block : content[m] = 0

\* A writer lays down each block, or leaves it out if it is all zeros (wrapDynamicVhd,
\* wrapVhdx, wrapVmdk, wrapVdi, wrapQcow2).
LEMMA WrapLays ==
    ASSUME NEW written \in Seq(Nat), NEW b \in Nat \ {0}, NEW packed \in BOOLEAN, NEW kind,
           NEW n \in Nat, n = NumBlocks(written, b)
    PROVE  LET image == Wrap(kind, NoParent, written, b, packed)
           IN  /\ image.kind = kind /\ image.parent = NoParent /\ image.size = Len(written) /\ image.block = b
               /\ Len(image.data) \in Nat /\ DOMAIN image.data = 1..Len(image.data)
               /\ Len(image.map) = n /\ DOMAIN image.map = 1..n
               /\ \A i \in 1..n : LaidDown(image, written, i)
<1> DEFINE content(i) == BlockOf(written, b, i)
           stored(i) == Stores(kind, NoParent, content(i))
           blob(i) == IF ~stored(i) THEN <<>> ELSE IF packed THEN <<content(i)>> ELSE content(i)
           blobs == [i \in 1..n |-> blob(i)]
           file == Grown(blobs)
           absent == IF kind = "vhdx" /\ NoParent = NoParent THEN "zero" ELSE "free"
           at(i) == IF ~stored(i) THEN [how |-> absent, at |-> 0, only |-> {}]
                    ELSE [how |-> IF packed THEN "packed" ELSE "data",
                          at |-> Len(file[i - 1]) + 1, only |-> 0..(b - 1)]
           map == [i \in 1..n |-> at(i)]
           image == Wrap(kind, NoParent, written, b, packed)
<1>1. image = [kind |-> kind, parent |-> NoParent, size |-> Len(written), block |-> b, map |-> map, data |-> file[n]]
  BY DEF Wrap
<1>2. \A i \in 1..n : content(i) \in [1..b -> Nat] /\ content(i) \in Seq(Nat) /\ Len(content(i)) = b
  <2>1. \A i \in 1..n : i \in Nat \ {0}
    OBVIOUS
  <2> QED
    BY <2>1, BlockTyped
<1>3. ASSUME NEW i \in 1..n, ~stored(i) PROVE \A m \in 1..b : content(i)[m] = 0
  <2>1. DOMAIN content(i) = 1..b
    BY <1>2
  <2> HIDE DEF content
  <2> QED
    BY <1>3, <2>1 DEF Stores
<1> HIDE DEF content, stored
<1>4. PICK T : T = (IF packed THEN Seq(Nat) ELSE Nat)
  OBVIOUS
<1>5. \A i \in 1..n : blob(i) \in Seq(T)
  <2>1. ASSUME NEW i \in 1..n PROVE blob(i) \in Seq(T)
    <3>1. CASE ~stored(i)
      BY <3>1
    <3>2. CASE stored(i) /\ packed
      <4>1. T = Seq(Nat) /\ content(i) \in T /\ blob(i) = <<content(i)>>
        BY <1>2, <1>4, <3>2
      <4>2. <<content(i)>> \in Seq(T)
        BY <4>1
      <4> QED
        BY <4>1, <4>2
    <3>3. CASE stored(i) /\ ~packed
      BY <1>2, <1>4, <3>3
    <3> QED
      BY <3>1, <3>2, <3>3
  <2> QED
    BY <2>1
<1>6. PICK all : all = blobs
  OBVIOUS
<1>7. all \in Seq(Seq(T)) /\ Len(all) = n /\ \A i \in 1..n : all[i] = blob(i)
  <2>1. \A i \in 1..n : all[i] = blob(i)
    BY <1>6
  <2> HIDE DEF blob
  <2>2. all \in [1..n -> Seq(T)]
    BY <1>5, <1>6
  <2>3. all \in Seq(Seq(T)) /\ Len(all) = n
    BY <2>2
  <2> QED
    BY <2>1, <2>3
<1>8. GrowsBy(all, n, T)
  <2>1. all \in Seq(Seq(T)) /\ Len(all) = n
    BY <1>7
  <2> HIDE DEF blobs, file, map, image, at, absent, blob
  <2> QED
    BY <2>1, BlobsLie, Zenon
<1>9. PICK data \in Seq(T) : data = Grown(all)[n]
  <2>1. n \in 0..n
    OBVIOUS
  <2> QED
    BY <1>8, <2>1 DEF GrowsBy
<1>10. file[n] = data
  BY <1>6, <1>9
<1>11. \A i \in 1..n : /\ Len(Grown(all)[i - 1]) \in Nat
                       /\ Len(Grown(all)[i - 1]) + Len(all[i]) =< Len(data)
                       /\ \A m \in 1..Len(all[i]) : data[Len(Grown(all)[i - 1]) + m] = all[i][m]
  BY <1>8, <1>9, Zenon DEF GrowsBy
<1>12. image.map = map /\ image.data = data /\ image.block = b /\ image.kind = kind
  BY <1>1, <1>10
<1>13. Len(data) \in Nat /\ DOMAIN data = 1..Len(data) /\ DOMAIN map = 1..n /\ Len(map) = n
  BY <1>9
<1> HIDE DEF blob, image
<1>14. ASSUME NEW i \in 1..n PROVE LaidDown(image, written, i)
  <2>1. image.map[i] = at(i)
    BY <1>12
  <2>2. CASE ~stored(i)
    <3>1. image.map[i].how = absent
      <4>1. at(i) = [how |-> absent, at |-> 0, only |-> {}]
        BY <2>2
      <4>2. image.map[i] = [how |-> absent, at |-> 0, only |-> {}]
        BY <2>1, <4>1, Zenon
      <4>3. [how |-> absent, at |-> 0, only |-> {}].how = absent
        OBVIOUS
      <4> HIDE DEF at, absent
      <4> QED
        BY <4>2, <4>3, Zenon
    <3>2. image.map[i].how = "free" \/ (image.map[i].how = "zero" /\ image.kind = "vhdx")
      BY <1>12, <3>1
    <3>3. \A m \in 1..b : BlockOf(written, b, i)[m] = 0
      BY <1>3, <2>2 DEF content
    <3> QED
      BY <1>12, <3>2, <3>3 DEF LaidDown
  <2>3. CASE stored(i)
    <3>a. PICK x \in Nat : x = Len(Grown(all)[i - 1])
      BY <1>11
    <3>b. PICK c : c = content(i)
      OBVIOUS
    <3>1. x = Len(Grown(all)[i - 1]) /\ c = content(i)
      BY <3>a, <3>b
    <3>2. PICK e : e = image.map[i]
      OBVIOUS
    <3>3. e = [how |-> IF packed THEN "packed" ELSE "data", at |-> x + 1, only |-> 0..(b - 1)]
      BY <1>6, <2>1, <2>3, <3>1, <3>2
    <3>4. e.at = x + 1 /\ e.at \in Nat \ {0} /\ e.only = 0..(b - 1) /\ e.how = IF packed THEN "packed" ELSE "data"
      BY <3>3
    <3>5. CASE packed
      <4>1. all[i] = <<c>>
        BY <1>7, <2>3, <3>1, <3>5 DEF blob
      <4>2. x + 1 <= Len(data) /\ data[x + 1] = c
        <5>1. Len(<<c>>) = 1 /\ 1 \in 1..1 /\ <<c>>[1] = c
          OBVIOUS
        <5>2. x + Len(<<c>>) =< Len(data) /\ \A m \in 1..Len(<<c>>) : data[x + m] = <<c>>[m]
          BY <1>11, <3>1, <4>1
        <5> QED
          BY <5>1, <5>2
      <4> QED
        BY <1>12, <3>1, <3>2, <3>4, <3>5, <4>2 DEF LaidDown, content
    <3>6. CASE ~packed
      <4>1. all[i] = c /\ Len(c) = b
        BY <1>2, <1>7, <2>3, <3>1, <3>6 DEF blob
      <4>2. x + b =< Len(data) /\ \A m \in 1..b : data[x + m] = c[m]
        <5>1. x + Len(all[i]) =< Len(data) /\ \A m \in 1..Len(all[i]) : data[x + m] = all[i][m]
          BY <1>11, <3>1
        <5> QED
          BY <4>1, <5>1, Zenon
      <4>3. e.at + b - 1 <= Len(data) /\ \A m \in 1..b : data[(e.at - 1) + m] = c[m]
        <5>1. (x + 1) - 1 = x /\ (x + 1) + b - 1 = x + b
          OBVIOUS
        <5> QED
          BY <3>4, <4>2, <5>1
      <4> QED
        BY <1>12, <3>1, <3>2, <3>4, <3>6, <4>3 DEF LaidDown, content
    <3> QED
      BY <3>5, <3>6
  <2> QED
    BY <2>2, <2>3
<1>15. image.parent = NoParent /\ image.size = Len(written)
  BY <1>1 DEF image
<1>16. /\ image.kind = kind /\ image.parent = NoParent /\ image.size = Len(written) /\ image.block = b
       /\ Len(image.data) \in Nat /\ DOMAIN image.data = 1..Len(image.data)
       /\ Len(image.map) = n /\ DOMAIN image.map = 1..n
  BY <1>12, <1>13, <1>15, Zenon
<1> QED
  BY <1>14, <1>16, Zenon DEF image

\* An image of what was written
Wrapped(image, written) ==
    /\ image.kind # "dmg" /\ image.parent = NoParent
    /\ image.size = Len(written) /\ image.block \in Nat \ {0}
    /\ Len(image.data) \in Nat /\ DOMAIN image.data = 1..Len(image.data)
    /\ Len(image.map) = NumBlocks(written, image.block) /\ DOMAIN image.map = 1..Len(image.map)
    /\ \A i \in DOMAIN image.map : LaidDown(image, written, i)

\* What the writers make is an image of what they were given,
LEMMA WrapIs ==
    ASSUME NEW written \in Seq(Nat), NEW b \in Nat \ {0}, NEW packed \in BOOLEAN, NEW kind, kind # "dmg"
    PROVE  Wrapped(Wrap(kind, NoParent, written, b, packed), written)
<1>1. PICK n \in Nat : n = NumBlocks(written, b)
  <2>0. PICK size \in Nat : size = Len(written)
    OBVIOUS
  <2>1. PICK x \in Nat : x = Len(written) + b - 1
    <3>1. size + b - 1 \in Nat
      OBVIOUS
    <3> QED
      BY <2>0, <3>1
  <2>2. x \div b \in Nat
    BY Blocks
  <2> QED
    BY <2>1, <2>2 DEF NumBlocks
<1>2. PICK image : image = Wrap(kind, NoParent, written, b, packed)
  OBVIOUS
<1>3. /\ image.kind = kind /\ image.parent = NoParent /\ image.size = Len(written) /\ image.block = b
      /\ Len(image.data) \in Nat /\ DOMAIN image.data = 1..Len(image.data)
      /\ Len(image.map) = n /\ DOMAIN image.map = 1..n
      /\ \A i \in 1..n : LaidDown(image, written, i)
  BY <1>1, <1>2, WrapLays
<1> QED
  BY <1>1, <1>2, <1>3 DEF Wrapped

\* and a sound one.
LEMMA WrappedIsSound ==
    ASSUME NEW written \in Seq(Nat), NEW image, Wrapped(image, written)
    PROVE  ImageIsSound(image)
<1>1. PICK b \in Nat \ {0} : b = image.block
  BY DEF Wrapped
<1>2. ASSUME NEW i \in DOMAIN image.map PROVE EntryIsSound(image, i)
  <2>1. PICK e, data, content : e = image.map[i] /\ data = image.data /\ content = BlockOf(written, b, i)
    OBVIOUS
  <2>2. LaidDown(image, written, i)
    BY DEF Wrapped
  <2>3. i \in Nat \ {0}
    BY DEF Wrapped, NumBlocks
  <2>4. content \in [1..b -> Nat] /\ content \in Seq(Nat) /\ Len(content) = b
    BY <2>1, <2>3, BlockTyped
  <2>5. \/ /\ e.how = "data" /\ e.at \in Nat \ {0} /\ e.only = 0..(b - 1)
           /\ \A m \in 1..b : data[(e.at - 1) + m] = content[m]
        \/ /\ e.how = "packed" /\ e.at \in Nat \ {0} /\ e.only = 0..(b - 1) /\ data[e.at] = content
        \/ e.how \in {"free", "zero"}
    BY <1>1, <2>1, <2>2 DEF LaidDown
  <2>6. image.parent = NoParent
    BY DEF Wrapped
  <2>7. CASE e.how = "data"
    <3>1. PICK at \in Nat \ {0} : at = e.at
      BY <2>5, <2>7
    <3>2. ASSUME NEW k \in at..(at + b - 1) PROVE data[k] \in Nat
      <4>1. PICK m \in 1..b : k = (at - 1) + m
        <5>1. k - at + 1 \in 1..b /\ k = (at - 1) + (k - at + 1)
          OBVIOUS
        <5> QED
          BY <5>1
      <4>2. data[k] = content[m]
        BY <2>5, <2>7, <3>1, <4>1
      <4> QED
        BY <2>4, <4>2
    <3> QED
      BY <1>1, <2>1, <2>5, <2>7, <3>1, <3>2 DEF EntryIsSound
  <2>8. CASE e.how = "packed"
    BY <1>1, <2>1, <2>4, <2>5, <2>8 DEF EntryIsSound
  <2>9. CASE e.how \in {"free", "zero"}
    BY <2>1, <2>6, <2>9 DEF EntryIsSound
  <2> QED
    BY <2>5, <2>7, <2>8, <2>9
<1>3. Len(image.map) \in Nat
  <2>0. PICK size \in Nat : size = Len(written)
    OBVIOUS
  <2>1. PICK x \in Nat : x = Len(written) + b - 1
    <3>1. size + b - 1 \in Nat
      OBVIOUS
    <3> QED
      BY <2>0, <3>1
  <2>2. x \div b \in Nat
    BY Blocks
  <2> QED
    BY <1>1, <2>1, <2>2 DEF NumBlocks, Wrapped
<1>4. Len(written) \in Nat
  OBVIOUS
<1> QED
  BY <1>2, <1>3, <1>4 DEF ImageIsSound, Wrapped

\* What was saved is what is read.
LEMMA WrappedReadsBack ==
    ASSUME NEW written \in Seq(Nat), NEW image, Wrapped(image, written)
    PROVE  Expand(image, Zeros(image.size)) = written
<1>1. PICK size \in Nat, b \in Nat \ {0} : size = Len(written) /\ b = image.block
  BY DEF Wrapped
<1>2. PICK n \in Nat : n = NumBlocks(written, b) /\ size <= n * b
  <2>1. PICK x \in Nat : x = size + b - 1
    OBVIOUS
  <2>2. x \div b \in Nat /\ x % b \in 0..(b - 1) /\ x = (x \div b) * b + (x % b)
    BY Blocks
  <2>3. PICK q \in Nat, y \in Nat : q = x \div b /\ y = q * b
    BY <2>2
  <2>4. size <= y
    BY <2>1, <2>2, <2>3
  <2> QED
    BY <1>1, <2>1, <2>3, <2>4 DEF NumBlocks
<1>3. image.size = size /\ image.block = b /\ DOMAIN image.map = 1..n /\ Len(image.data) \in Nat
  BY <1>1, <1>2 DEF Wrapped
<1> DEFINE zeros == Zeros(size)
<1>4. zeros \in [1..size -> Nat] /\ \A k \in 1..size : zeros[k] = 0
  BY ZerosAre
<1>5. zeros # Failed /\ Len(zeros) = size
  BY <1>4, DiskOf
<1> HIDE DEF zeros
<1>6. ASSUME NEW i \in 1..n PROVE InRange(image, i)
  <2>1. PICK e : e = image.map[i]
    OBVIOUS
  <2>2. LaidDown(image, written, i)
    BY <1>3 DEF Wrapped
  <2>3. PICK content : content = BlockOf(written, b, i)
    OBVIOUS
  <2>4. Len(content) = b
    BY <2>3, BlockTyped
  <2>5. CASE e.how = "data"
    <3>1. e.at \in Nat \ {0} /\ e.at + b - 1 <= Len(image.data)
      BY <1>3, <2>1, <2>2, <2>5 DEF LaidDown
    <3>2. PICK start \in Nat : start = (i - 1) * b
      <4>1. PICK j \in Nat : j = i - 1
        OBVIOUS
      <4>2. j * b \in Nat
        OBVIOUS
      <4> QED
        BY <4>1, <4>2
    <3>3. Chunk(image, i) = Smaller(b, size - start)
      BY <1>3, <3>2 DEF Chunk, BlockLength
    <3>4. PICK chunk \in Int : chunk = Smaller(b, size - start) /\ chunk <= b
      <4>1. PICK left \in Int : left = size - start
        OBVIOUS
      <4>2. Smaller(b, left) \in Int /\ Smaller(b, left) <= b
        <5>1. CASE b < left
          BY <5>1 DEF Smaller
        <5>2. CASE ~(b < left)
          BY <5>2 DEF Smaller
        <5> QED
          BY <5>1, <5>2
      <4>3. Smaller(b, size - start) = Smaller(b, left)
        BY <4>1
      <4> QED
        BY <4>2, <4>3
    <3>5. e.at + chunk - 1 <= Len(image.data)
      <4>1. PICK at \in Nat, len \in Nat : at = e.at /\ len = Len(image.data)
        BY <1>3, <3>1
      <4> QED
        BY <3>1, <3>4, <4>1
    <3> QED
      BY <2>1, <2>5, <3>3, <3>4, <3>5 DEF InRange
  <2>6. CASE e.how = "packed"
    <3>1. e.at <= Len(image.data) /\ image.data[e.at] = content
      BY <1>3, <2>1, <2>2, <2>3, <2>6 DEF LaidDown
    <3>2. content # <<>>
      BY <2>4
    <3> QED
      BY <2>1, <2>6, <3>1, <3>2 DEF InRange
  <2>7. CASE e.how \notin {"data", "packed"}
    BY <2>1, <2>7 DEF InRange
  <2> QED
    BY <2>5, <2>6, <2>7
<1> DEFINE i(s) == (s - 1) \div image.block + 1
           at(s) == IF i(s) \in BlocksInDisk(image) /\ Copies(image, i(s))
                    THEN CopiedSector(image, i(s), (s - 1) % image.block) ELSE zeros[s]
<1>7. Expand(image, zeros) = [s \in 1..image.size |-> at(s)]
  <2>1. BlocksInDisk(image) \subseteq 1..n
    BY <1>3 DEF BlocksInDisk
  <2> QED
    BY <1>3, <1>5, <1>6, <2>1 DEF Expand
<1>8. ASSUME NEW s \in 1..size PROVE at(s) = written[s]
  <2>1. s \in Nat \ {0}
    OBVIOUS
  <2>2. LET k == (s - 1) \div b + 1
            r == (s - 1) % b
        IN  /\ k \in Nat \ {0} /\ r \in 0..(b - 1)
            /\ s = (k - 1) * b + r + 1 /\ (k - 1) * b \in Nat
            /\ \A m \in Nat : s <= m * b => k <= m
    BY <2>1, SectorPlace
  <2>3. PICK k, r : k = (s - 1) \div b + 1 /\ r = (s - 1) % b
    OBVIOUS
  <2>4. PICK start \in Nat : start = (k - 1) * b
    BY <2>2, <2>3
  <2>5. k \in Nat \ {0} /\ r \in 0..(b - 1) /\ s = start + r + 1
    BY <2>2, <2>3, <2>4
  <2>6. k \in 1..n
    <3>1. PICK z \in Nat : z = n * b /\ size <= z
      BY <1>2
    <3>2. s <= n * b
      BY <3>1
    <3>3. k <= n
      BY <2>2, <2>3, <3>2
    <3> QED
      BY <2>5, <3>3
  <2>7. at(s) = IF k \in BlocksInDisk(image) /\ Copies(image, k) THEN CopiedSector(image, k, r) ELSE zeros[s]
    BY <1>3, <2>3
  <2> HIDE DEF at
  <2>8. k \in BlocksInDisk(image)
    <3>1. start < size
      BY <2>5
    <3> QED
      BY <1>3, <2>4, <2>6, <3>1 DEF BlocksInDisk
  <2>9. PICK content : content = BlockOf(written, b, k)
    OBVIOUS
  <2>10. content[r + 1] = written[s] /\ r + 1 \in 1..b
    <3>1. start + (r + 1) = s /\ r + 1 \in 1..b
      BY <2>5
    <3>2. content = [m \in 1..b |-> IF start + m <= Len(written) THEN written[start + m] ELSE 0]
      BY <2>4, <2>9 DEF BlockOf
    <3> QED
      BY <1>1, <3>1, <3>2
  <2>11. LaidDown(image, written, k)
    BY <1>3, <2>6 DEF Wrapped
  <2>12. PICK e, data : e = image.map[k] /\ data = image.data
    OBVIOUS
  <2>13. CASE e.how = "data"
    <3>1. e.at \in Nat \ {0} /\ \A m \in 1..b : data[(e.at - 1) + m] = content[m]
      BY <1>3, <2>9, <2>11, <2>12, <2>13 DEF LaidDown
    <3>2. (e.at - 1) + (r + 1) = e.at + r
      <4>1. PICK x \in Nat, y \in Nat : x = e.at /\ y = r
        BY <2>5, <3>1
      <4>2. (x - 1) + (y + 1) = x + y
        OBVIOUS
      <4> QED
        BY <4>1, <4>2
    <3>3. data[e.at + r] = written[s]
      BY <2>10, <3>1, <3>2
    <3> QED
      BY <2>7, <2>8, <2>12, <2>13, <3>3 DEF Copies, CopiedSector
  <2>14. CASE e.how = "packed"
    <3>1. data[e.at] = content
      BY <1>3, <2>9, <2>11, <2>12, <2>14 DEF LaidDown
    <3> QED
      BY <2>7, <2>8, <2>10, <2>12, <2>14, <3>1 DEF Copies, CopiedSector
  <2>15. CASE e.how \in {"free", "zero"}
    <3>1. written[s] = 0
      <4>1. \A m \in 1..b : content[m] = 0
        BY <1>3, <2>9, <2>11, <2>12, <2>15 DEF LaidDown
      <4> QED
        BY <2>10, <4>1
    <3>2. CopiedSector(image, k, r) = 0
      BY <2>12, <2>15 DEF CopiedSector
    <3> QED
      BY <1>4, <2>7, <3>1, <3>2
  <2>16. e.how \in {"data", "packed", "free", "zero"}
    BY <2>11, <2>12 DEF LaidDown
  <2> QED
    BY <2>13, <2>14, <2>15, <2>16
<1> HIDE DEF at
<1>9. written = [s \in 1..size |-> written[s]]
  BY <1>1
<1>10. Expand(image, zeros) = written
  BY <1>3, <1>7, <1>8, <1>9
<1> QED
  BY <1>3, <1>10 DEF zeros

\* One run of it all gives it back (wrapDmg, extractDmgPayload).
LEMMA DmgReadsBack ==
    ASSUME NEW written \in Seq(Nat)
    PROVE  ExpandDmg(WrapDmg(written).size, WrapDmg(written).map) = written
<1>1. PICK size \in Nat : size = Len(written)
  OBVIOUS
<1>2. PICK run : run = [to |-> 0, count |-> size, zero |-> FALSE, data |-> written]
  OBVIOUS
<1>3. run.to = 0 /\ run.count = size /\ run.zero = FALSE /\ run.data = written
  BY <1>2
<1>4. PICK runs : runs = <<run>>
  OBVIOUS
<1>5. DOMAIN runs = {1} /\ runs[1] = run /\ Range(runs) = {run}
  BY <1>4 DEF Range
<1>6. WrapDmg(written).size = size /\ WrapDmg(written).map = runs
  BY <1>1, <1>2, <1>4 DEF WrapDmg
<1> DEFINE covers(r, s) == ~r.zero /\ s > r.to /\ s <= r.to + RunLength(r)
           last(s) == {k \in DOMAIN runs : covers(runs[k], s)}
           at(s) == IF last(s) = {} THEN 0 ELSE runs[Max(last(s))].data[s - runs[Max(last(s))].to]
<1>7. ExpandDmg(size, runs) = [s \in 1..size |-> at(s)]
  <2>1. ~(\E r \in Range(runs) : r.to + r.count > size) /\ ~(\A r \in Range(runs) : r.zero)
    BY <1>3, <1>5
  <2> QED
    BY <2>1 DEF ExpandDmg
<1>8. RunLength(run) = size
  BY <1>1, <1>3 DEF RunLength, Smaller
<1>9. ASSUME NEW s \in 1..size PROVE at(s) = written[s]
  <2>1. last(s) = {1}
    BY <1>3, <1>5, <1>8
  <2>2. Max({1}) = 1
    <3>1. {1} \subseteq 0..1 /\ {1} # {}
      OBVIOUS
    <3>2. Max({1}) \in {1}
      BY <3>1, MaxOf
    <3> QED
      BY <3>2
  <2>3. s - 0 = s
    OBVIOUS
  <2>4. at(s) = runs[1].data[s - runs[1].to]
    BY <2>1, <2>2
  <2> QED
    BY <1>3, <1>5, <2>3, <2>4
<1> HIDE DEF at
<1>10. written = [s \in 1..size |-> written[s]]
  BY <1>1
<1> QED
  BY <1>6, <1>7, <1>9, <1>10

----------------------------------------------------------------------------
(* Images come back as they are                                            *)

\* A file without a parent gives what it has itself.
LEMMA ExtractedAlone ==
    ASSUME NEW files, FolderIsSane(files), NEW p \in DOMAIN files, files[p].parent = NoParent
    PROVE  Extracted(files)[p] = IF files[p].kind = "dmg" THEN ExpandDmg(files[p].size, files[p].map)
                                 ELSE Expand(files[p], Zeros(files[p].size))
<1>1. PICK n \in Nat : n = Cardinality(DOMAIN files)
  BY FS_CardinalityType DEF FolderIsSane
<1>2. n # 0
  BY <1>1, FS_EmptySet DEF FolderIsSane
<1>3. PICK got \in [0..n -> [DOMAIN files -> DiskData]] :
         /\ \A k \in 1..n : \A q \in DOMAIN files : got[k][q] = Over(files, q, got[k - 1])
         /\ Extracted(files) = got[n]
  BY <1>1, ExtractedUnfolds
<1>4. n \in 1..n
  BY <1>2
<1>5. Extracted(files)[p] = Over(files, p, got[n - 1])
  BY <1>3, <1>4
<1>6. \A d : BaseOf(files[p], d) = Zeros(files[p].size)
  BY DEF BaseOf
<1>7. Over(files, p, got[n - 1]) = IF files[p].kind = "dmg" THEN ExpandDmg(files[p].size, files[p].map)
                                   ELSE Expand(files[p], Zeros(files[p].size))
  BY <1>6 DEF Over
<1> QED
  BY <1>5, <1>7

\* A disk reads the same after a file is added that is nobody's parent.
LEMMA ReadsStay ==
    ASSUME NEW f, NEW g, FolderIsSane(f), "saved" \notin DOMAIN f, DOMAIN g = DOMAIN f \cup {"saved"},
           \A q \in DOMAIN f : g[q] = f[q] /\ f[q].parent # "saved",
           NEW n \in Nat, n = Cardinality(DOMAIN f), NEW p \in DOMAIN f, NEW d, ReadsAs(f, p, d, n)
    PROVE  ReadsAs(g, p, d, Cardinality(DOMAIN g)) /\ Cardinality(DOMAIN g) = n + 1
<1>1. Cardinality(DOMAIN g) = n + 1
  <2>1. PICK S : S = DOMAIN f
    OBVIOUS
  <2>2. IsFiniteSet(S) /\ "saved" \notin S
    BY <2>1 DEF FolderIsSane
  <2>3. Cardinality(S \cup {"saved"}) = Cardinality(S) + 1
    BY <2>2, FS_AddElement
  <2>4. DOMAIN g = S \cup {"saved"}
    BY <2>1
  <2> QED
    BY <2>1, <2>3, <2>4
<1>2. PICK m \in Nat : m = n + 1
  OBVIOUS
<1>3. m = Cardinality(DOMAIN g)
  BY <1>1, <1>2
<1> DEFINE a == Line(f, p)
           b == Line(g, p)
           S == {k \in 0..n : b[k] = a[k] /\ a[k] # "saved"}
<1>4. a[0] = p /\ \A k \in 1..n : a[k] = Below(f, a[k - 1])
  BY LineUnfolds
<1>5. b[0] = p /\ \A k \in 1..m : b[k] = Below(g, b[k - 1])
  BY <1>3, LineUnfolds
<1>6. \A q : q # "saved" => Below(g, q) = Below(f, q) /\ Below(f, q) # "saved"
  BY DEF Below, NoParent
<1> HIDE DEF a, b
<1>7. 0 \in S
  BY <1>4, <1>5
<1>8. ASSUME NEW k \in 1..n, k - 1 \in S PROVE k \in S
  <2>1. k \in 1..m /\ k \in 0..n
    BY <1>2
  <2> QED
    BY <1>4, <1>5, <1>6, <1>8, <2>1
<1> HIDE DEF S
<1>9. 0..n \subseteq S
  BY <1>7, <1>8, AllUpTo
<1>10. \A k \in 0..n : b[k] = a[k] /\ (b[k] \in DOMAIN g <=> a[k] \in DOMAIN f)
                       /\ (a[k] \in DOMAIN f => g[b[k]] = f[a[k]])
  BY <1>9 DEF S
<1>11. ASSUME NEW s \in 1..g[p].size PROVE \E k \in 0..m : Found(g, b, s, k, d[s])
  <2>1. PICK k \in 0..n : Found(f, a, s, k, d[s])
    BY DEF ReadsAs, a
  <2>2. k \in 0..m /\ \A j \in 0..(k - 1) : j \in 0..n
    BY <1>2
  <2>3. Found(g, b, s, k, d[s])
    BY <1>10, <2>1, <2>2 DEF Found
  <2> QED
    BY <2>2, <2>3
<1>12. d \in [1..g[p].size -> Nat]
  BY DEF ReadsAs
<1>13. ReadsAs(g, p, d, m)
  BY <1>11, <1>12 DEF ReadsAs, b
<1> QED
  BY <1>1, <1>3, <1>13

\* The image "saved" has what was written to it.
HasSaved(image, written) == image = WrapDmg(written) \/ Wrapped(image, written)

\* The inductive invariant: whatever was attached reads along its line of files,
\* by a number of files, so that it still does when the folder grows.
ImagesInv ==
    /\ FolderIsSane(folder) /\ \A p \in DOMAIN folder : folder[p].parent # "saved"
    /\ DOMAIN attached \subseteq DOMAIN folder
    /\ \A p \in DOMAIN attached : attached[p] # Failed /\ folder[p].kind # "dmg" =>
          ReadsAs(folder, p, attached[p], Cardinality(DOMAIN folder))
    /\ "saved" \in DOMAIN folder => saved \in Seq(Nat) \ {<<>>} /\ HasSaved(folder["saved"], saved)
    /\ "saved" \in DOMAIN attached => attached["saved"] = saved

\* The image that was saved gives what was written to it.
LEMMA SavedIsRead ==
    ASSUME FolderIsSane(folder), "saved" \in DOMAIN folder, saved \in Seq(Nat), HasSaved(folder["saved"], saved)
    PROVE  Extracted(folder)["saved"] = saved
<1> DEFINE image == folder["saved"]
<1>1. CASE image = WrapDmg(saved)
  <2>1. image.parent = NoParent /\ image.kind = "dmg"
    BY <1>1 DEF WrapDmg
  <2>2. Extracted(folder)["saved"] = ExpandDmg(image.size, image.map)
    BY <2>1, ExtractedAlone
  <2> QED
    BY <1>1, <2>2, DmgReadsBack
<1>2. CASE Wrapped(image, saved)
  <2>1. image.parent = NoParent /\ image.kind # "dmg"
    BY <1>2 DEF Wrapped
  <2>2. Extracted(folder)["saved"] = Expand(image, Zeros(image.size))
    BY <2>1, ExtractedAlone
  <2> QED
    BY <1>2, <2>2, WrappedReadsBack
<1> QED
  BY <1>1, <1>2 DEF HasSaved

\* The invariant says what is to be shown.
LEMMA ImagesInvIsEnough == ASSUME ImagesInv PROVE ImagesAreTrue
<1>1. PICK n \in Nat : n = Cardinality(DOMAIN folder)
  BY FS_CardinalityType DEF ImagesInv, FolderIsSane
<1>2. ASSUME NEW p \in DOMAIN attached, attached[p] # Failed, folder[p].kind # "dmg"
      PROVE  attached[p] = [s \in 1..folder[p].size |-> Overlay(p, s)]
  <2>1. PICK d : d = attached[p]
    OBVIOUS
  <2>2. ReadsAs(folder, p, d, n)
    BY <1>1, <1>2, <2>1 DEF ImagesInv
  <2>3. ASSUME NEW s \in 1..folder[p].size PROVE d[s] = Overlay(p, s)
    <3>1. PICK m \in 0..n : Found(folder, Line(folder, p), s, m, d[s])
      BY <2>2 DEF ReadsAs
    <3>2. FolderIsSane(folder)
      BY DEF ImagesInv
    <3> QED
      BY <1>1, <3>1, <3>2, FoundIsOverlay
  <2>4. d \in [1..folder[p].size -> Nat]
    BY <2>2 DEF ReadsAs
  <2>5. d = [s \in 1..folder[p].size |-> Overlay(p, s)]
    BY <2>3, <2>4
  <2> QED
    BY <2>1, <2>5
<1>3. "saved" \in DOMAIN attached => attached["saved"] = saved
  BY DEF ImagesInv
<1> QED
  BY <1>2, <1>3 DEF ImagesAreTrue

\* It holds before any image is attached,
LEMMA ImagesInitHolds == ImagesInit => ImagesInv
<1> SUFFICES ASSUME ImagesInit PROVE ImagesInv
  OBVIOUS
<1>1. FolderIsSound(folder)
  BY WritersAssumption DEF ImagesInit
<1>2. FolderIsSane(folder) /\ (\A p \in DOMAIN folder : folder[p].parent # "saved") /\ "saved" \notin DOMAIN folder
  BY <1>1 DEF FolderIsSound, FolderIsSane
<1>3. DOMAIN attached = {}
  BY DEF ImagesInit
<1> QED
  BY <1>2, <1>3 DEF ImagesInv

\* after one more was,
LEMMA AttachKeeps == ImagesInv /\ Attach => ImagesInv'
<1> SUFFICES ASSUME ImagesInv, Attach PROVE ImagesInv'
  OBVIOUS
<1>1. PICK path \in DOMAIN folder \ DOMAIN attached :
         attached' = [p \in DOMAIN attached \cup {path} |-> IF p = path THEN Extract(path) ELSE attached[p]]
  BY DEF Attach
<1>2. folder' = folder /\ saved' = saved
  BY DEF Attach
<1>3. PICK n \in Nat : n = Cardinality(DOMAIN folder)
  BY FS_CardinalityType DEF ImagesInv, FolderIsSane
<1>4. /\ DOMAIN attached' = DOMAIN attached \cup {path} /\ attached'[path] = Extracted(folder)[path]
      /\ \A p \in DOMAIN attached : attached'[p] = attached[p]
  BY <1>1 DEF Extract
<1>5. FolderIsSane(folder)
  BY DEF ImagesInv
<1>6. ASSUME NEW p \in DOMAIN attached', attached'[p] # Failed, folder[p].kind # "dmg"
      PROVE  ReadsAs(folder, p, attached'[p], n)
  <2>1. CASE p = path
    <3>1. Extracted(folder)[path] # Failed /\ folder[path].kind # "dmg"
      BY <1>4, <1>6, <2>1
    <3>2. ReadsAs(folder, path, Extracted(folder)[path], n)
      BY <1>1, <1>3, <1>5, <3>1, ExtractedReads
    <3> QED
      BY <1>4, <2>1, <3>2
  <2>2. CASE p # path
    BY <1>3, <1>4, <1>6, <2>2 DEF ImagesInv
  <2> QED
    BY <2>1, <2>2
<1>7. ASSUME "saved" \in DOMAIN attached' PROVE attached'["saved"] = saved
  <2>1. CASE path = "saved"
    <3>1. saved \in Seq(Nat) /\ HasSaved(folder["saved"], saved) /\ "saved" \in DOMAIN folder
      BY <1>1, <2>1 DEF ImagesInv
    <3>2. Extracted(folder)["saved"] = saved
      BY <1>5, <3>1, SavedIsRead
    <3> QED
      BY <1>4, <2>1, <3>2
  <2>2. CASE path # "saved"
    BY <1>4, <1>7, <2>2 DEF ImagesInv
  <2> QED
    BY <2>1, <2>2
<1>8. DOMAIN attached' \subseteq DOMAIN folder
  BY <1>1, <1>4 DEF ImagesInv
<1> QED
  BY <1>2, <1>3, <1>6, <1>7, <1>8 DEF ImagesInv

\* A disk image of Apple is a sound file.
LEMMA DmgIsSound ==
    ASSUME NEW written \in Seq(Nat)
    PROVE  ImageIsSound(WrapDmg(written)) /\ WrapDmg(written).parent = NoParent
<1>1. PICK size \in Nat : size = Len(written)
  OBVIOUS
<1>2. [to |-> 0, count |-> size, zero |-> FALSE, data |-> written] \in [to : Nat, count : Nat, zero : BOOLEAN, data : Seq(Nat)]
  OBVIOUS
<1>3. <<[to |-> 0, count |-> size, zero |-> FALSE, data |-> written]>> \in Seq([to : Nat, count : Nat, zero : BOOLEAN, data : Seq(Nat)])
  BY <1>2
<1>4. /\ WrapDmg(written).map = <<[to |-> 0, count |-> size, zero |-> FALSE, data |-> written]>>
      /\ WrapDmg(written).size = size /\ WrapDmg(written).kind = "dmg" /\ WrapDmg(written).parent = NoParent
  BY <1>1 DEF WrapDmg
<1> QED
  BY <1>3, <1>4 DEF ImageIsSound

\* and after a new image was saved: what is attached still reads as its line does.
LEMMA SaveKeeps == ImagesInv /\ Save => ImagesInv'
<1> SUFFICES ASSUME ImagesInv, Save PROVE ImagesInv'
  OBVIOUS
<1>1. PICK written \in Payloads, w \in Wrapping :
         /\ saved' = written
         /\ folder' = [p \in DOMAIN folder \cup {"saved"} |->
                          IF p # "saved" THEN folder[p]
                          ELSE IF w.kind = "dmg" THEN WrapDmg(written)
                          ELSE Wrap(w.kind, NoParent, written, w.block, w.packed)]
  BY DEF Save
<1>2. attached' = attached /\ saved = <<>>
  BY DEF Save
<1>3. written \in Seq(Nat) \ {<<>>} /\ w.block \in Nat \ {0} /\ w.packed \in BOOLEAN
  BY WritersAssumption
<1>4. "saved" \notin DOMAIN folder /\ "saved" \notin DOMAIN attached
  BY <1>2 DEF ImagesInv
<1>5. PICK image : image = IF w.kind = "dmg" THEN WrapDmg(written)
                           ELSE Wrap(w.kind, NoParent, written, w.block, w.packed)
  OBVIOUS
<1>6. /\ DOMAIN folder' = DOMAIN folder \cup {"saved"} /\ folder'["saved"] = image
      /\ \A p \in DOMAIN folder : folder'[p] = folder[p]
  BY <1>1, <1>4, <1>5
<1>7. HasSaved(image, written) /\ ImageIsSound(image) /\ image.parent = NoParent
  <2>1. CASE w.kind = "dmg"
    <3>1. image = WrapDmg(written)
      BY <1>5, <2>1
    <3> QED
      BY <1>3, <3>1, DmgIsSound DEF HasSaved
  <2>2. CASE w.kind # "dmg"
    <3>1. Wrapped(image, written)
      <4>1. PICK kind, b, packed : kind = w.kind /\ b = w.block /\ packed = w.packed
        OBVIOUS
      <4>2. Wrapped(Wrap(kind, NoParent, written, b, packed), written)
        BY <1>3, <2>2, <4>1, WrapIs
      <4> QED
        BY <1>5, <2>2, <4>1, <4>2
    <3>2. ImageIsSound(image)
      BY <1>3, <3>1, WrappedIsSound
    <3> QED
      BY <3>1, <3>2 DEF HasSaved, Wrapped
  <2> QED
    BY <2>1, <2>2
<1>8. FolderIsSane(folder)
  BY DEF ImagesInv
<1>9. FolderIsSane(folder') /\ \A p \in DOMAIN folder' : folder'[p].parent # "saved"
  <2>1. IsFiniteSet(DOMAIN folder')
    BY <1>6, <1>8, FS_AddElement DEF FolderIsSane
  <2>2. NoParent \notin DOMAIN folder'
    BY <1>6, <1>8 DEF FolderIsSane, NoParent
  <2>3. ASSUME NEW p \in DOMAIN folder'
        PROVE  /\ ImageIsSound(folder'[p]) /\ folder'[p].parent # "saved"
               /\ folder'[p].parent \in DOMAIN folder' => folder'[folder'[p].parent].kind # "dmg"
    <3>1. CASE p = "saved"
      BY <1>6, <1>7, <2>2, <3>1 DEF NoParent
    <3>2. CASE p # "saved"
      <4>1. p \in DOMAIN folder /\ folder'[p] = folder[p] /\ folder[p].parent # "saved"
        BY <1>6, <3>2 DEF ImagesInv
      <4>2. folder[p].parent \in DOMAIN folder => folder[folder[p].parent].kind # "dmg"
        BY <1>8, <4>1 DEF FolderIsSane
      <4>3. ImageIsSound(folder[p])
        BY <1>8, <4>1 DEF FolderIsSane
      <4> QED
        BY <1>6, <4>1, <4>2, <4>3
    <3> QED
      BY <3>1, <3>2
  <2> QED
    BY <2>1, <2>2, <2>3 DEF FolderIsSane
<1>10. ASSUME NEW p \in DOMAIN attached, attached[p] # Failed, folder'[p].kind # "dmg"
       PROVE  ReadsAs(folder', p, attached[p], Cardinality(DOMAIN folder'))
  <2>1. p \in DOMAIN folder /\ folder[p].kind # "dmg"
    BY <1>6, <1>10 DEF ImagesInv
  <2>2. PICK n \in Nat : n = Cardinality(DOMAIN folder)
    BY <1>8, FS_CardinalityType DEF FolderIsSane
  <2>3. ReadsAs(folder, p, attached[p], n)
    BY <1>10, <2>1, <2>2 DEF ImagesInv
  <2>4. \A q \in DOMAIN folder : folder'[q] = folder[q] /\ folder[q].parent # "saved"
    BY <1>6 DEF ImagesInv
  <2> QED
    BY <1>4, <1>6, <1>8, <2>1, <2>2, <2>3, <2>4, ReadsStay
<1>11. DOMAIN attached \subseteq DOMAIN folder'
  BY <1>6 DEF ImagesInv
<1> QED
  BY <1>1, <1>2, <1>3, <1>4, <1>6, <1>7, <1>9, <1>10, <1>11 DEF ImagesInv

\* A disk that was attached reads as its line of files says, to the last sector, and
\* an image that was saved gives back what was written, for any folder of sound
\* images, any contents and any size of a block (extractVhdFile, and each extract and
\* wrap function of vhd_source.cpp and vhdx_source.cpp).
THEOREM ImagesReadTrue == ImagesSpec => []ImagesAreTrue
<1>1. ImagesInv /\ [ImagesNext]_imagesVars => ImagesInv'
  <2> SUFFICES ASSUME ImagesInv, [ImagesNext]_imagesVars PROVE ImagesInv'
    OBVIOUS
  <2>1. CASE Attach
    BY <2>1, AttachKeeps
  <2>2. CASE Save
    BY <2>2, SaveKeeps
  <2>3. CASE LogNext
    <3>1. folder' = folder /\ saved' = saved /\ attached' = attached
      BY <2>3 DEF LogNext, LogUpdate, TornUpdate, Flush, AttachVhdx
    <3> QED
      BY <3>1 DEF ImagesInv
  <2>4. CASE UNCHANGED imagesVars
    BY <2>4 DEF ImagesInv, imagesVars
  <2> QED
    BY <2>1, <2>2, <2>3, <2>4 DEF ImagesNext, FilesNext
<1> QED
  BY <1>1, ImagesInitHolds, ImagesInvIsEnough, PTL DEF ImagesSpec
=============================================================================
