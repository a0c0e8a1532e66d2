-------------------------- MODULE NaturalRecursion --------------------------
(***************************************************************************)
(* Induction and recursion over the natural numbers, stated of sets and    *)
(* functions, so that the provers can use them: a set that is not empty    *)
(* has a least number, and a first value and a step define a function.     *)
(* Division, which the provers do not know much about.                     *)
(***************************************************************************)
EXTENDS Integers, NaturalsInduction, WellFoundedInduction, TLAPS

\* A set of natural numbers that is not empty has a least element.
LEMMA LeastNatural ==
    ASSUME NEW S, S \subseteq Nat, S # {}
    PROVE  \E n \in S : \A m \in S : n <= m
<1> DEFINE R == OpToRel(<, Nat)
<1>1. IsWellFoundedOn(R, Nat)
  BY NatLessThanWellFounded, Zenon
<1>2. \A m, n \in Nat : m < n => <<m, n>> \in R
  BY Zenon DEF OpToRel
<1> HIDE DEF R
<1>3. PICK n \in S : \A m \in S : ~(<<m, n>> \in R)
  BY <1>1, WFMin, Zenon
<1>4. ASSUME NEW m \in S PROVE n <= m
  <2>1. m \in Nat /\ n \in Nat
    OBVIOUS
  <2>2. ~(m < n)
    BY <1>2, <1>3, <2>1, Zenon
  <2> QED
    BY <2>1, <2>2
<1> QED
  BY <1>4

\* A set that has 0 and with each number the next one has all up to n.
LEMMA AllUpTo ==
    ASSUME NEW n \in Nat, NEW S, 0 \in S, \A k \in 1..n : k - 1 \in S => k \in S
    PROVE  0..n \subseteq S
<1> DEFINE Others == {k \in 0..n : k \notin S}
<1> SUFFICES ASSUME Others # {} PROVE FALSE
  OBVIOUS
<1>0. Others \subseteq Nat
  OBVIOUS
<1>1. PICK k \in Others : \A m \in Others : k <= m
  BY <1>0, LeastNatural
<1>2. k \in 1..n /\ k - 1 \in 0..n /\ ~(k <= k - 1)
  BY <1>1
<1>3. k - 1 \in S
  BY <1>1, <1>2
<1> QED
  BY <1>1, <1>2, <1>3

\* A first value and a step define a function.
StepOn(n, T, first, step) == first \in T /\ step \in [(1..n) \X T -> T]
Recursive(f, n, T, first, step) ==
    /\ f \in [0..n -> T] /\ f[0] = first
    /\ \A k \in 1..n : f[k] = step[<<k, f[k - 1]>>]

LEMMA Recursion ==
    ASSUME NEW n \in Nat, NEW T, NEW first, NEW step, StepOn(n, T, first, step)
    PROVE  \E f : Recursive(f, n, T, first, step)
<1> USE DEF StepOn
<1> DEFINE Fits(f, m) == /\ f \in [0..m -> T] /\ f[0] = first
                         /\ \A k \in 1..m : f[k] = step[<<k, f[k - 1]>>]
           Defined == {m \in 0..n : \E f : Fits(f, m)}
<1>1. 0 \in Defined
  <2>1. Fits([k \in 0..0 |-> first], 0)
    OBVIOUS
  <2> HIDE DEF Fits
  <2> QED
    BY <2>1
<1>2. ASSUME NEW m \in 1..n, NEW f, Fits(f, m - 1) PROVE \E g : Fits(g, m)
  <2> DEFINE g == [k \in 0..m |-> IF k < m THEN f[k] ELSE step[<<m, f[m - 1]>>]]
  <2>1. m \in Nat /\ m - 1 \in 0..(m - 1) /\ f[m - 1] \in T /\ step[<<m, f[m - 1]>>] \in T
    BY <1>2
  <2>2. g \in [0..m -> T]
    <3>1. ASSUME NEW k \in 0..m PROVE g[k] \in T
      <4>1. k < m => k \in 0..(m - 1)
        BY <2>1
      <4> QED
        BY <1>2, <2>1, <4>1
    <3> QED
      BY <3>1
  <2>3. g[0] = first
    BY <1>2, <2>1
  <2>4. ASSUME NEW k \in 1..m PROVE g[k] = step[<<k, g[k - 1]>>]
    <3>1. CASE k < m
      <4>1. k \in 1..(m - 1) /\ g[k] = f[k] /\ g[k - 1] = f[k - 1]
        BY <2>1, <3>1
      <4> HIDE DEF g
      <4> QED
        BY <1>2, <4>1
    <3>2. CASE k = m
      <4>1. g[k] = step[<<m, f[m - 1]>>] /\ g[k - 1] = f[m - 1]
        BY <2>1, <3>2
      <4> HIDE DEF g
      <4> QED
        BY <3>2, <4>1
    <3> QED
      BY <2>1, <3>1, <3>2
  <2> HIDE DEF g
  <2> QED
    BY <2>2, <2>3, <2>4
<1> HIDE DEF Fits
<1>3. \A m \in 1..n : m - 1 \in Defined => m \in Defined
  BY <1>2
<1> HIDE DEF Defined
<1>4. n \in Defined
  BY <1>1, <1>3, AllUpTo
<1>5. PICK f : Fits(f, n)
  BY <1>4 DEF Defined
<1> QED
  BY <1>5 DEF Fits, Recursive

\* What holds of the first value, and of each value if of the one before, holds of all.
LEMMA AllAlong ==
    ASSUME NEW n \in Nat, NEW f, NEW S, <<0, f[0]>> \in S,
           \A k \in 1..n : <<k - 1, f[k - 1]>> \in S => <<k, f[k]>> \in S
    PROVE  \A k \in 0..n : <<k, f[k]>> \in S
<1> DEFINE Good == {k \in 0..n : <<k, f[k]>> \in S}
<1>1. 0 \in Good
  OBVIOUS
<1>2. \A k \in 1..n : k - 1 \in Good => k \in Good
  OBVIOUS
<1> HIDE DEF Good
<1>3. 0..n \subseteq Good
  BY <1>1, <1>2, AllUpTo
<1> QED
  BY <1>3 DEF Good

----------------------------------------------------------------------------
(* Division                                                                *)

\* A remainder lies below its divisor, and a number below twice the divisor
\* has itself or itself less the divisor for remainder.
LEMMA Remainder ==
    ASSUME NEW n \in Nat \ {0}, NEW x \in Nat
    PROVE  /\ x % n \in 0..(n - 1)
           /\ x < n => x % n = x
           /\ n <= x /\ x < 2 * n => x % n = x - n
           /\ x < 2 * n => x % n = IF x < n THEN x ELSE x - n
  <1>1. x % n \in 0..(n - 1)  BY SMT
  <1>2. ASSUME x < n  PROVE x % n = x  BY <1>2, SMT
  <1>3. ASSUME n <= x, x < 2 * n  PROVE x % n = x - n
    <2>1. x = n * 1 + (x - n) /\ x - n \in 0..(n - 1)  BY <1>3
    <2> QED  BY <1>3, <2>1, SMT
  <1> QED  BY <1>1, <1>2, <1>3

\* Numbers by blocks: every number has one block and one place in it.
LEMMA Blocks ==
    ASSUME NEW n \in Nat \ {0}, NEW x \in Nat
    PROVE  /\ x \div n \in Nat /\ x % n \in 0..(n - 1) /\ x = (x \div n) * n + (x % n)
           /\ \A m \in Nat : x < m * n => x \div n < m
  <1>0. n \in Int /\ n > 0 /\ x \in Int
    OBVIOUS
  <1>1. x \div n \in Int /\ x % n \in 0..(n - 1) /\ x = n * (x \div n) + (x % n)
    <2>1. x % n \in 0..(n - 1)
      BY Remainder
    <2>2. x \div n \in Int
      BY <1>0
    <2>3. x = n * (x \div n) + (x % n)
      BY <1>0, SMT
    <2> QED
      BY <2>1, <2>2, <2>3
  <1> DEFINE q == x \div n
             r == x % n
  <1>2. q \in Int /\ r \in 0..(n - 1) /\ x = n * q + r
    BY <1>1
  <1> HIDE DEF q, r
  <1>3. q \in Nat
    <2>1. q <= -1 => n * q <= -n
      BY <1>2
    <2> QED
      BY <1>2, <2>1
  <1>4. ASSUME NEW m \in Nat, x < m * n, q >= m PROVE FALSE
    <2>1. n * q >= n * m /\ n * m = m * n
      BY <1>3, <1>4
    <2> QED
      BY <1>2, <1>4, <2>1
  <1>5. n * q = q * n
    BY <1>3
  <1>6. x = q * n + r /\ \A m \in Nat : x < m * n => q < m
    BY <1>2, <1>3, <1>4, <1>5
  <1>7. q * n = n * q
    BY <1>3
  <1> QED
    BY <1>2, <1>3, <1>6, Zenon DEF q, r

\* A number written as a quotient and a remainder has them.
LEMMA PlaceIn ==
    ASSUME NEW n \in Nat \ {0}, NEW q \in Nat, NEW r \in 0..(n - 1)
    PROVE  /\ q * n + r \in Nat /\ (q * n + r) \div n = q /\ (q * n + r) % n = r
  <1> DEFINE x == q * n + r
  <1>1. x \in Nat
    <2>1. q * n \in Nat
      OBVIOUS
    <2> QED
      BY <2>1
  <1> DEFINE p == x \div n
             s == x % n
  <1>2. p \in Nat /\ s \in 0..(n - 1) /\ x = p * n + s
    <2> HIDE DEF x
    <2> QED
      BY <1>1, Blocks
  <1>3. (p - q) * n = r - s
    <2>1. p * n + s = q * n + r
      BY <1>2
    <2>2. (p - q) * n = p * n - q * n
      <3> HIDE DEF p
      <3> QED
        BY <1>2
    <2>3. p * n \in Nat /\ q * n \in Nat
      <3> HIDE DEF p
      <3> QED
        BY <1>2
    <2> HIDE DEF p, s, x
    <2> QED
      BY <1>2, <2>1, <2>2, <2>3
  <1> HIDE DEF p, s
  <1>4. p = q
    <2> DEFINE k == p - q
    <2>1. k \in Int /\ k * n = r - s
      BY <1>2, <1>3
    <2> HIDE DEF k
    <2>2. k >= 1 => k * n >= n
      BY <2>1
    <2>3. k <= -1 => k * n <= -n
      BY <2>1
    <2>4. r - s < n /\ r - s > -n
      BY <1>2
    <2>5. k = 0
      BY <2>1, <2>2, <2>3, <2>4
    <2> QED
      BY <1>2, <2>5 DEF k
  <1>5. r = s
    BY <1>2, <1>3, <1>4
  <1> QED
    BY <1>1, <1>4, <1>5 DEF p, s

\* Numbers keep their order by blocks.
LEMMA BlocksInOrder ==
    ASSUME NEW n \in Nat \ {0}, NEW x \in Nat, NEW y \in Nat, x <= y
    PROVE  /\ x \div n <= y \div n
           /\ x \div n = y \div n => x % n <= y % n
  <1> DEFINE p == x \div n
             q == y \div n
             r == x % n
             s == y % n
  <1>1. p \in Nat /\ q \in Nat /\ r \in 0..(n - 1) /\ s \in 0..(n - 1) /\ x = p * n + r /\ y = q * n + s
    BY Blocks
  <1> HIDE DEF p, q, r, s
  <1>2. p = q => r <= s
    <2> SUFFICES ASSUME p = q PROVE r <= s
      OBVIOUS
    <2> DEFINE z == p * n
    <2>1. z \in Nat /\ x = z + r /\ y = z + s
      BY <1>1
    <2> HIDE DEF z
    <2> QED
      BY <1>1, <2>1
  <1>3. p <= q
    <2> SUFFICES ASSUME p >= q + 1 PROVE FALSE
      BY <1>1
    <2>1. p * n >= (q + 1) * n
      BY <1>1
    <2>2. (q + 1) * n = q * n + n /\ q * n \in Nat /\ p * n \in Nat
      BY <1>1
    <2> DEFINE a == p * n
               b == q * n
    <2> HIDE DEF a, b
    <2>3. a \in Nat /\ b \in Nat /\ a >= b + n /\ x = a + r /\ y = b + s
      BY <1>1, <2>1, <2>2 DEF a, b
    <2> QED
      BY <1>1, <2>3
  <1> QED
    BY <1>2, <1>3 DEF p, q, r, s
=============================================================================
