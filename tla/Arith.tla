------------------------------- MODULE Arith --------------------------------
(***************************************************************************)
(* Facts about division, remainders and extrema of sets of naturals that   *)
(* the proofs about the allocator and the kernel rest on.  They hold for   *)
(* every divisor, so the theorems hold for every page and word size.       *)
(***************************************************************************)
EXTENDS Integers, TLAPS, NaturalsInduction, WellFoundedInduction

\* Quotient and remainder, as the code's / and % compute them.
LEMMA DivMod ==
    ASSUME NEW y \in Nat, NEW n \in Nat \ {0}
    PROVE  /\ y \div n \in Nat
           /\ y % n \in 0 .. (n - 1)
           /\ y = n * (y \div n) + (y % n)
  OBVIOUS

\* A positive multiple of n is at least n.
LEMMA MulPos ==
    ASSUME NEW q \in Nat, NEW n \in Nat \ {0}, q >= 1
    PROVE  n * q >= n
  OBVIOUS

\* Multiplication is monotone.
LEMMA MulMono ==
    ASSUME NEW x \in Nat, NEW y \in Nat, NEW n \in Nat, x <= y
    PROVE  n * x <= n * y /\ n * x \in Nat
<1>1. PICK k \in Nat : y = x + k
  OBVIOUS
<1>2. n * y = n * x + n * k
  BY <1>1
<1>3. n * k \in Nat /\ n * x \in Nat
  OBVIOUS
<1> QED BY <1>2, <1>3

\* The remainder is the only number below n that can stand there.
LEMMA ModUnique ==
    ASSUME NEW q \in Nat, NEW n \in Nat \ {0}, NEW r \in 0 .. (n - 1)
    PROVE  (n * q + r) % n = r
<1> DEFINE y == n * q + r
           d == y \div n
           e == y % n
<1>1. y \in Nat
  OBVIOUS
<1>2. y = n * d + e /\ d \in Nat /\ e \in 0 .. (n - 1)
  BY <1>1, DivMod
<1>3. y = n * q + r
  OBVIOUS
<1> HIDE DEF y, d, e
<1>4. n * d + e = n * q + r
  BY <1>2, <1>3
<1>5. CASE d = q
  BY <1>2, <1>4, <1>5 DEF e, y
<1>6. CASE d > q
  <2>1. PICK k \in Nat : d = q + k /\ k >= 1
    BY <1>2, <1>6
  <2>2. n * d = n * q + n * k
    BY <2>1
  <2>3. n * k >= n
    BY <2>1, MulPos
  <2> QED BY <1>2, <1>4, <2>2, <2>3
<1>7. CASE d < q
  <2>1. PICK k \in Nat : q = d + k /\ k >= 1
    BY <1>2, <1>7
  <2>2. n * q = n * d + n * k
    BY <1>2, <2>1
  <2>3. n * k >= n
    BY <2>1, MulPos
  <2> QED BY <1>2, <1>4, <2>2, <2>3
<1> QED BY <1>2, <1>5, <1>6, <1>7

\* A number that does not reach the modulus is not changed by it.
LEMMA ModSmall ==
    ASSUME NEW y \in Nat, NEW n \in Nat \ {0}, y < n
    PROVE  y % n = y
<1>1. n * 0 + y = y
  OBVIOUS
<1>2. y \in 0 .. (n - 1)
  OBVIOUS
<1> QED BY <1>1, <1>2, ModUnique

\* A remainder of zero means a multiple.
LEMMA ModMultiple ==
    ASSUME NEW y \in Nat, NEW n \in Nat \ {0}
    PROVE  y % n = 0 <=> \E k \in Nat : y = n * k
<1>1. ASSUME y % n = 0
      PROVE  \E k \in Nat : y = n * k
  <2>1. y \div n \in Nat /\ y = n * (y \div n)
    BY <1>1, DivMod
  <2> QED BY <2>1
<1>2. ASSUME NEW k \in Nat, y = n * k
      PROVE  y % n = 0
  <2>1. y = n * k + 0 /\ 0 \in 0 .. (n - 1)
    BY <1>2
  <2> QED BY <2>1, ModUnique
<1> QED BY <1>1, <1>2

\* The sum of two multiples is a multiple.
LEMMA ModSum ==
    ASSUME NEW x \in Nat, NEW y \in Nat, NEW n \in Nat \ {0},
           x % n = 0, y % n = 0
    PROVE  (x + y) % n = 0
<1>1. PICK j \in Nat : x = n * j
  BY ModMultiple
<1>2. PICK k \in Nat : y = n * k
  BY ModMultiple
<1>3. x + y = n * (j + k) /\ x + y \in Nat /\ j + k \in Nat
  BY <1>1, <1>2
<1> QED BY <1>3, ModMultiple

\* The difference of two multiples is a multiple.
LEMMA ModDiff ==
    ASSUME NEW x \in Nat, NEW y \in Nat, NEW n \in Nat \ {0},
           x % n = 0, y % n = 0, y <= x
    PROVE  (x - y) % n = 0
<1>1. PICK j \in Nat : x = n * j
  BY ModMultiple
<1>2. PICK k \in Nat : y = n * k
  BY ModMultiple
<1>3. j >= k
  <2> SUFFICES ASSUME j < k PROVE FALSE
    OBVIOUS
  <2>1. PICK i \in Nat : k = j + i /\ i >= 1
    OBVIOUS
  <2>2. n * k = n * j + n * i
    BY <2>1
  <2>3. n * i >= n
    BY <2>1, MulPos
  <2>4. n * j \in Nat
    OBVIOUS
  <2> QED BY <1>1, <1>2, <2>2, <2>3, <2>4
<1>4. x - y = n * (j - k) /\ x - y \in Nat /\ j - k \in Nat
  BY <1>1, <1>2, <1>3
<1> QED BY <1>4, ModMultiple

\* Rounding down gives a multiple, less than n below.
LEMMA RoundDown ==
    ASSUME NEW y \in Nat, NEW n \in Nat \ {0}
    PROVE  /\ y - (y % n) \in Nat
           /\ (y - (y % n)) % n = 0
           /\ y - (y % n) <= y
           /\ y < (y - (y % n)) + n
<1>1. y \div n \in Nat /\ y % n \in 0 .. (n - 1) /\ y = n * (y \div n) + (y % n)
  BY DivMod
<1>2. n * (y \div n) \in Nat
  BY <1>1
<1>3. y - (y % n) = n * (y \div n)
  BY <1>1, <1>2
<1>4. (y - (y % n)) % n = 0
  BY <1>1, <1>2, <1>3, ModMultiple
<1> QED BY <1>1, <1>2, <1>3, <1>4

\* A multiple of 4m is a multiple of whatever divides m.
LEMMA ModTrans ==
    ASSUME NEW x \in Nat, NEW m \in Nat \ {0}, NEW n \in Nat \ {0},
           x % (4 * m) = 0, m % n = 0
    PROVE  x % n = 0
<1>0. 4 * m \in Nat \ {0}
  OBVIOUS
<1>1. PICK j \in Nat : x = (4 * m) * j
  BY <1>0, ModMultiple
<1>2. PICK k \in Nat : m = n * k
  BY ModMultiple
<1>3. x = n * (4 * k * j) /\ 4 * k * j \in Nat
  BY <1>1, <1>2
<1> QED BY <1>3, ModMultiple

-----------------------------------------------------------------------------
\* A set of naturals that is not empty has a least element, and a greatest
\* one when it is bounded.
LEMMA LeastExists ==
    ASSUME NEW S \in SUBSET Nat, S # {}
    PROVE  \E x \in S : \A y \in S : x <= y
<1> DEFINE R == {ss \in Nat \X Nat : ss[1] < ss[2]}
<1>1. IsWellFoundedOn(R, Nat)
  BY NatLessThanWellFounded, Zenon DEF OpToRel
<1> HIDE DEF R
<1>2. PICK x \in S : \A y \in S : <<y, x>> \notin R
  BY <1>1, WFMin
<1>3. \A y \in S : x <= y
  <2> TAKE y \in S
  <2>1. x \in Nat /\ y \in Nat /\ <<y, x>> \in Nat \X Nat
    OBVIOUS
  <2>2. ~(<<y, x>>[1] < <<y, x>>[2])
    BY <1>2, <2>1 DEF R
  <2> QED BY <2>1, <2>2
<1> QED BY <1>3

\* A nonempty set of naturals with an upper bound has a greatest element.
LEMMA GreatestExists ==
    ASSUME NEW S \in SUBSET Nat, S # {}, NEW n \in Nat, \A x \in S : x <= n
    PROVE  \E x \in S : \A y \in S : y <= x
<1> DEFINE T == {n - x : x \in S}
<1>1. T \in SUBSET Nat /\ T # {}
  <2>1. \A x \in S : n - x \in Nat
    OBVIOUS
  <2> QED BY <2>1
<1>2. PICK t \in T : \A u \in T : t <= u
  BY <1>1, LeastExists
<1>3. PICK x \in S : t = n - x
  OBVIOUS
<1>4. \A y \in S : y <= x
  <2> TAKE y \in S
  <2>1. n - x <= n - y
    BY <1>2, <1>3
  <2> QED BY <2>1
<1> QED BY <1>4

=============================================================================
