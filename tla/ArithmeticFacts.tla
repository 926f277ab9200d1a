-------------------------- MODULE ArithmeticFacts --------------------------
(***************************************************************************)
(* Facts about the integers that the proofs about encodings rest on:       *)
(* induction, the existence of recursive functions, products and quotients,*)
(* and remainders.                                                         *)
(*                                                                         *)
(* The induction theorems of the library quantify over a predicate, which  *)
(* no prover here can instantiate.  Their starting point, that the order   *)
(* of the naturals is well-founded, does not: it gives every non-empty set *)
(* of naturals a least member, and induction for a set.                    *)
(***************************************************************************)
EXTENDS Integers, WellFoundedInduction, TLAPS

\* The order of the natural numbers as a relation, without infinite descent.
LEMMA LessIsWellFounded ==
    IsWellFoundedOn({pair \in Nat \X Nat : pair[1] < pair[2]}, Nat)
BY NatLessThanWellFounded DEF OpToRel

\* Every non-empty set of natural numbers has a least member.
LEMMA LeastNumber ==
    ASSUME NEW T \in SUBSET Nat, T # {}
    PROVE  \E x \in T : \A y \in T : x <= y
<1>. DEFINE Less == {pair \in Nat \X Nat : pair[1] < pair[2]}
<1>1. PICK x \in T : \A y \in T : <<y, x>> \notin Less
  BY LessIsWellFounded, WFMin
<1>2. ASSUME NEW y \in T PROVE x <= y
  <2>1. <<y, x>> \in Nat \X Nat
    OBVIOUS
  <2>2. ~(<<y, x>>[1] < <<y, x>>[2])
    BY <1>1, <2>1
  <2>3. ~(y < x)
    BY <2>2
  <2>. QED
    BY <2>3
<1>. QED
  BY <1>2

\* Induction, with a set in the place of a predicate: what is proved of every
\* natural number is membership in it.
LEMMA SetInduction ==
    ASSUME NEW T, 0 \in T, \A n \in Nat : n \in T => n + 1 \in T
    PROVE  \A n \in Nat : n \in T
<1>. SUFFICES ASSUME Nat \ T # {} PROVE FALSE
  OBVIOUS
<1>1. PICK x \in Nat \ T : \A y \in Nat \ T : x <= y
  BY LeastNumber, Nat \ T \in SUBSET Nat
<1>2. x - 1 \in Nat /\ x - 1 + 1 = x
  BY <1>1
<1>3. x - 1 \in T
  BY <1>1, <1>2
<1>. QED
  BY <1>1, <1>2, <1>3

\* A recursion over 1..n has a solution if each of its steps maps integers to
\* integers.
LEMMA RecursionExists ==
    ASSUME NEW a \in Int, NEW n \in Nat, NEW g,
           \A i \in 1..n : \A v \in Int : g[i][v] \in Int
    PROVE  \E f \in [0..n -> Int] : f[0] = a /\ \A i \in 1..n : f[i] = g[i][f[i - 1]]
<1>. DEFINE Computes(f, k) == f[0] = a /\ \A i \in 1..k : f[i] = g[i][f[i - 1]]
            T == {k \in Nat : k <= n => \E f \in [0..k -> Int] : Computes(f, k)}
<1>1. 0 \in T
  <2>1. [i \in 0..0 |-> a] \in [0..0 -> Int] /\ Computes([i \in 0..0 |-> a], 0)
    OBVIOUS
  <2>. QED
    BY <2>1
<1>2. ASSUME NEW k \in Nat, k \in T, k + 1 <= n
      PROVE  \E h \in [0..(k + 1) -> Int] : Computes(h, k + 1)
  <2>1. PICK f \in [0..k -> Int] : Computes(f, k)
    BY <1>2
  <2>. DEFINE next == g[k + 1][f[k]]
              h == [i \in 0..(k + 1) |-> IF i <= k THEN f[i] ELSE next]
  <2>2. next \in Int
    BY <1>2, k + 1 \in 1..n
  <2>3. \A i \in 0..k : h[i] = f[i]
    OBVIOUS
  <2>4. h[k + 1] = next
    OBVIOUS
  <2>5. h \in [0..(k + 1) -> Int]
    <3>. HIDE DEF next
    <3>. QED
      BY <2>2
  <2>. HIDE DEF h
  <2>6. ASSUME NEW i \in 1..(k + 1) PROVE h[i] = g[i][h[i - 1]]
    <3>1. i - 1 \in 0..k /\ h[i - 1] = f[i - 1]
      BY <2>3
    <3>2. CASE i \in 1..k
      BY <2>1, <2>3, <3>1, <3>2
    <3>3. CASE i = k + 1
      BY <2>4, <3>1, <3>3
    <3>. QED
      BY <3>2, <3>3
  <2>7. h[0] = a
    BY <2>1, <2>3
  <2>. QED
    BY <2>5, <2>6, <2>7
<1>. HIDE DEF Computes
<1>3. ASSUME NEW k \in Nat, k \in T PROVE k + 1 \in T
  BY <1>2, <1>3
<1>. HIDE DEF T
<1>4. n \in T
  BY <1>1, <1>3, SetInduction
<1>. QED
  BY <1>4 DEF T, Computes

\* The same for a typed step function, the form in which it is cited.
LEMMA IntegerRecursion ==
    ASSUME NEW a \in Int, NEW n \in Nat, NEW g \in [1..n -> [Int -> Int]]
    PROVE  \E f \in [0..n -> Int] : f[0] = a /\ \A i \in 1..n : f[i] = g[i][f[i - 1]]
<1>. DEFINE Total(h) == \A i \in 1..n : \A v \in Int : h[i][v] \in Int
            Runs(h) == \E f \in [0..n -> Int] : f[0] = a /\ \A i \in 1..n : f[i] = h[i][f[i - 1]]
<1>1. \A h : Total(h) => Runs(h)
  BY RecursionExists, Zenon
<1>2. Total(g)
  OBVIOUS
<1>. HIDE DEF Total, Runs
<1>3. Runs(g)
  BY <1>1, <1>2, Zenon
<1>. QED
  BY <1>3, Zenon DEF Runs

-----------------------------------------------------------------------------
(* Products and quotients.                                                 *)

\* Multiplication by a natural number preserves an order of integers.
LEMMA ScaleMonotone ==
    ASSUME NEW a \in Int, NEW b \in Int, NEW s \in Nat, a <= b
    PROVE  a * s <= b * s
<1>1. b - a \in Nat
  OBVIOUS
<1>2. (b - a) * s \in Nat
  BY <1>1
<1>3. b * s = a * s + (b - a) * s
  OBVIOUS
<1>. QED
  BY <1>2, <1>3

\* The comparison with a quotient is the comparison of the product: the test
\* of cmd/mcp-gateway/main.go:328 refuses exactly the sums beyond the width.
LEMMA QuotientTest ==
    ASSUME NEW whole \in Nat, NEW room \in Nat, NEW s \in Nat \ {0}
    PROVE  whole <= room \div s <=> whole * s <= room
<1>. DEFINE q == room \div s
            r == room % s
<1>1. /\ q \in Nat /\ r \in 0..(s - 1)
      /\ room = q * s + r
  OBVIOUS
<1>2. ASSUME whole <= q PROVE whole * s <= room
  <2>1. whole * s <= q * s
    BY <1>1, <1>2, ScaleMonotone
  <2>. QED
    BY <1>1, <2>1
<1>3. ASSUME ~(whole <= q) PROVE ~(whole * s <= room)
  <2>1. q + 1 <= whole
    BY <1>1, <1>3
  <2>2. (q + 1) * s <= whole * s
    BY <1>1, <2>1, ScaleMonotone
  <2>3. (q + 1) * s = q * s + s
    BY <1>1
  <2>. QED
    BY <1>1, <2>2, <2>3
<1>. QED
  BY <1>2, <1>3

-----------------------------------------------------------------------------
(* Remainders.                                                             *)

\* A remainder is the one number in 0..p-1 it can be.
LEMMA ModUnique ==
    ASSUME NEW p \in Nat \ {0}, NEW q \in Int, NEW r \in 0..(p - 1)
    PROVE  (q * p + r) % p = r
<1>. DEFINE a == q * p + r
            q2 == a \div p
            r2 == a % p
<1>1. a \in Int /\ q2 \in Int /\ r2 \in 0..(p - 1) /\ a = q2 * p + r2
  OBVIOUS
<1>2. (q - q2) * p = r2 - r
  <2>. HIDE DEF q2, r2
  <2>1. (q - q2) * p = q * p - q2 * p
    BY <1>1
  <2>. QED
    BY <1>1, <2>1
<1>3. q - q2 = 0
  <2>. DEFINE d == q - q2
  <2>1. d \in Int
    BY <1>1
  <2>2. d * p \in (1 - p)..(p - 1)
    BY <1>1, <1>2
  <2>. HIDE DEF d
  <2>3. d >= 1 => d * p >= p
    <3>1. SUFFICES ASSUME d >= 1 PROVE d * p >= p
      OBVIOUS
    <3>2. d - 1 \in Nat
      BY <2>1, <3>1
    <3>3. (d - 1) * p \in Nat
      BY <3>2
    <3>4. (d - 1) * p = d * p - p
      BY <2>1
    <3>. QED
      BY <3>3, <3>4, <2>1
  <2>4. d <= -1 => d * p <= -p
    <3>1. SUFFICES ASSUME d <= -1 PROVE d * p <= -p
      OBVIOUS
    <3>2. -1 - d \in Nat
      BY <2>1, <3>1
    <3>3. (-1 - d) * p \in Nat
      BY <3>2
    <3>4. (-1 - d) * p = -p - d * p
      BY <2>1
    <3>. QED
      BY <3>3, <3>4, <2>1
  <2>. QED
    BY <2>1, <2>2, <2>3, <2>4 DEF d
<1>4. r2 = r
  BY <1>2, <1>3, <1>1
<1>. QED
  BY <1>4

\* Two integers have the same remainder exactly if p divides their difference.
LEMMA Congruence ==
    ASSUME NEW p \in Nat \ {0}, NEW a \in Int, NEW b \in Int
    PROVE  a % p = b % p <=> \E k \in Int : a = b + k * p
<1>1. ASSUME a % p = b % p PROVE \E k \in Int : a = b + k * p
  <2>1. a = (a \div p) * p + (a % p) /\ b = (b \div p) * p + (b % p)
    OBVIOUS
  <2>2. a = b + ((a \div p) - (b \div p)) * p
    BY <2>1, <1>1
  <2>. QED
    BY <2>2
<1>2. ASSUME NEW k \in Int, a = b + k * p PROVE a % p = b % p
  <2>. DEFINE q == b \div p
              r == b % p
  <2>1. q \in Int /\ r \in 0..(p - 1) /\ b = q * p + r
    OBVIOUS
  <2>. HIDE DEF q, r
  <2>2. a = (q + k) * p + r
    BY <2>1, <1>2
  <2>3. a % p = r
    BY <2>2, <2>1, ModUnique
  <2>. QED
    BY <2>3 DEF r
<1>. QED
  BY <1>1, <1>2

\* Remainders are compatible with products, sums and differences.
LEMMA CongruentProducts ==
    ASSUME NEW p \in Nat \ {0}, NEW a \in Int, NEW b \in Int, NEW c \in Int,
           a % p = b % p
    PROVE  (a * c) % p = (b * c) % p /\ (c * a) % p = (c * b) % p
<1>1. PICK k \in Int : a = b + k * p
  BY Congruence
<1>. DEFINE x == a * c
            y == b * c
            m == k * c
<1>2. x \in Int /\ y \in Int /\ m \in Int /\ x = y + m * p
  BY <1>1
<1>3. c * a = x /\ c * b = y
  OBVIOUS
<1>. HIDE DEF x, y, m
<1>4. x % p = y % p
  <2>1. \E i \in Int : x = y + i * p
    BY <1>2
  <2>. QED
    BY <1>2, <2>1, Congruence
<1>. QED
  BY <1>3, <1>4 DEF x, y

\* Congruent numbers stay congruent when the same is added or subtracted.
LEMMA CongruentSums ==
    ASSUME NEW p \in Nat \ {0}, NEW a \in Int, NEW b \in Int, NEW c \in Int,
           a % p = b % p
    PROVE  /\ (a + c) % p = (b + c) % p /\ (c + a) % p = (c + b) % p
           /\ (a - c) % p = (b - c) % p /\ (c - a) % p = (c - b) % p
<1>1. PICK k \in Int : a = b + k * p
  BY Congruence
<1>2. (a + c) % p = (b + c) % p /\ (c + a) % p = (c + b) % p
  <2>. DEFINE x == a + c
              y == b + c
  <2>1. x \in Int /\ y \in Int /\ x = y + k * p
    BY <1>1
  <2>2. c + a = x /\ c + b = y
    OBVIOUS
  <2>. HIDE DEF x, y
  <2>3. x % p = y % p
    <3>1. \E m \in Int : x = y + m * p
      BY <2>1
    <3>. QED
      BY <2>1, <3>1, Congruence
  <2>. QED
    BY <2>2, <2>3 DEF x, y
<1>3. (a - c) % p = (b - c) % p
  <2>. DEFINE x == a - c
              y == b - c
  <2>1. x \in Int /\ y \in Int /\ x = y + k * p
    BY <1>1
  <2>. HIDE DEF x, y
  <2>2. x % p = y % p
    <3>1. \E m \in Int : x = y + m * p
      BY <2>1
    <3>. QED
      BY <2>1, <3>1, Congruence
  <2>. QED
    BY <2>2 DEF x, y
<1>4. (c - a) % p = (c - b) % p
  <2>. DEFINE x == c - b
              y == c - a
  <2>1. x \in Int /\ y \in Int /\ x = y + k * p
    BY <1>1
  <2>. HIDE DEF x, y
  <2>2. x % p = y % p
    <3>1. \E m \in Int : x = y + m * p
      BY <2>1
    <3>. QED
      BY <2>1, <3>1, Congruence
  <2>. QED
    BY <2>2 DEF x, y
<1>. QED
  BY <1>2, <1>3, <1>4

\* A remainder is its own remainder.
LEMMA ModOfMod ==
    ASSUME NEW p \in Nat \ {0}, NEW a \in Int
    PROVE  a % p \in 0..(p - 1) /\ (a % p) % p = a % p
<1>. DEFINE r == a % p
<1>1. r \in 0..(p-1)
  OBVIOUS
<1>. HIDE DEF r
<1>2. (0 * p + r) % p = r
  BY <1>1, ModUnique
<1>3. 0 * p + r = r
  BY <1>1
<1>. QED
  BY <1>1, <1>2, <1>3 DEF r

\* A remainder taken early changes no remainder taken late.
LEMMA ModInside ==
    ASSUME NEW p \in Nat \ {0}, NEW a \in Int, NEW b \in Int
    PROVE  /\ ((a % p) * b) % p = (a * b) % p
           /\ (a * (b % p)) % p = (a * b) % p
           /\ ((a % p) + b) % p = (a + b) % p
           /\ (a + (b % p)) % p = (a + b) % p
           /\ ((a % p) - b) % p = (a - b) % p
           /\ (a - (b % p)) % p = (a - b) % p
<1>1. ASSUME NEW r \in Int, r % p = a % p
      PROVE  (r * b) % p = (a * b) % p /\ (r + b) % p = (a + b) % p /\ (r - b) % p = (a - b) % p
  <2>1. (r * b) % p = (a * b) % p
    BY <1>1, CongruentProducts, Zenon
  <2>2. (r + b) % p = (a + b) % p
    BY <1>1, CongruentSums, Zenon
  <2>3. (r - b) % p = (a - b) % p
    BY <1>1, CongruentSums, Zenon
  <2>. QED
    BY <2>1, <2>2, <2>3
<1>2. ASSUME NEW t \in Int, t % p = b % p
      PROVE  (a * t) % p = (a * b) % p /\ (a + t) % p = (a + b) % p /\ (a - t) % p = (a - b) % p
  <2>1. (a * t) % p = (a * b) % p
    BY <1>2, CongruentProducts, Zenon
  <2>2. (a + t) % p = (a + b) % p
    BY <1>2, CongruentSums, Zenon
  <2>3. (a - t) % p = (a - b) % p
    BY <1>2, CongruentSums, Zenon
  <2>. QED
    BY <2>1, <2>2, <2>3
<1>3. /\ a % p \in Int /\ (a % p) % p = a % p
      /\ b % p \in Int /\ (b % p) % p = b % p
  <2>1. (a % p) % p = a % p /\ (b % p) % p = b % p
    BY ModOfMod, Zenon
  <2>. QED
    BY <2>1
<1>. QED
  BY <1>1, <1>2, <1>3, Zenon

\* A number below p is its own remainder.
LEMMA ModOfSmall ==
    ASSUME NEW p \in Nat \ {0}, NEW r \in 0..(p - 1)
    PROVE  r % p = r
<1>1. (0 * p + r) % p = r
  BY ModUnique
<1>. QED
  BY <1>1

\* Two integers have the same remainder exactly if that of their difference is
\* zero.
LEMMA CongruentDifference ==
    ASSUME NEW p \in Nat \ {0}, NEW a \in Int, NEW b \in Int
    PROVE  a % p = b % p <=> (a - b) % p = 0
<1>1. 0 % p = 0
  BY ModOfSmall
<1>2. a - b \in Int /\ b - b = 0 /\ (a - b) + b = a /\ 0 + b = b
  OBVIOUS
<1>3. ASSUME a % p = b % p PROVE (a - b) % p = 0
  <2>1. (a - b) % p = (b - b) % p
    BY <1>3, CongruentSums, Zenon
  <2>. QED
    BY <1>1, <1>2, <2>1
<1>4. ASSUME (a - b) % p = 0 PROVE a % p = b % p
  <2>. DEFINE d == a - b
              z == 0
  <2>1. d \in Int /\ z \in Int /\ d % p = z % p
    BY <1>1, <1>4
  <2>. HIDE DEF d, z
  <2>2. PICK k \in Int : d = z + k * p
    BY <2>1, Congruence
  <2>3. a = b + k * p
    BY <2>2 DEF d, z
  <2>4. \E m \in Int : a = b + m * p
    BY <2>3
  <2>. QED
    BY <2>4, Congruence
<1>. QED
  BY <1>3, <1>4

-----------------------------------------------------------------------------
(* Quotients.                                                              *)

\* A quotient is the one number it can be.
LEMMA DivUnique ==
    ASSUME NEW p \in Nat \ {0}, NEW q \in Int, NEW r \in 0..(p - 1)
    PROVE  (q * p + r) \div p = q
<1>. DEFINE a == q * p + r
            q2 == a \div p
            d == q - q2
<1>1. a \in Int /\ q2 \in Int /\ d \in Int /\ a = q2 * p + (a % p)
  OBVIOUS
<1>2. a % p = r
  BY ModUnique
<1>3. d * p = 0
  <2>. HIDE DEF q2
  <2>1. q * p = q2 * p
    BY <1>1, <1>2
  <2>2. d * p = q * p - q2 * p
    BY <1>1
  <2>. QED
    BY <1>1, <2>1, <2>2
<1>. HIDE DEF d
<1>4. d = 0
  <2>1. CASE d >= 1
    <3>1. 1 * p <= d * p
      BY <1>1, <2>1, ScaleMonotone
    <3>. QED
      BY <1>3, <3>1
  <2>2. CASE d <= -1
    <3>1. d * p <= -1 * p
      BY <1>1, <2>2, ScaleMonotone
    <3>. QED
      BY <1>3, <3>1
  <2>. QED
    BY <1>1, <2>1, <2>2
<1>. QED
  BY <1>1, <1>4 DEF d

\* Dividing twice is dividing by the product.
LEMMA DivOfDiv ==
    ASSUME NEW n \in Nat, NEW b \in Nat \ {0}, NEW c \in Nat \ {0}
    PROVE  b * c \in Nat \ {0} /\ n \div (b * c) = (n \div b) \div c
<1>. DEFINE q == n \div b
            r == n % b
            u == q \div c
            v == q % c
            p == b * c
            t == v * b + r
<1>1. q \in Nat /\ r \in 0..(b - 1) /\ n = q * b + r
  OBVIOUS
<1>. HIDE DEF q, r
<1>2. u \in Nat /\ v \in 0..(c - 1) /\ q = u * c + v
  BY <1>1
<1>. HIDE DEF u, v
<1>3. p \in Nat \ {0}
  <2>1. 1 * c <= b * c
    BY ScaleMonotone
  <2>. QED
    BY <2>1
<1>4. t \in 0..(p - 1)
  <2>1. v * b <= (c - 1) * b
    BY <1>2, ScaleMonotone
  <2>2. (c - 1) * b = p - b
    OBVIOUS
  <2>3. v * b \in Nat
    BY <1>2
  <2>. QED
    BY <1>1, <1>3, <2>1, <2>2, <2>3
<1>5. n = u * p + t
  BY <1>1, <1>2
<1>. HIDE DEF p, t
<1>6. n \div p = u
  BY <1>2, <1>3, <1>4, <1>5, DivUnique
<1>. QED
  BY <1>3, <1>6 DEF p, u, q

\* A quotient is zero exactly for the numbers below the divisor.
LEMMA DivOfSmall ==
    ASSUME NEW n \in Nat, NEW p \in Nat \ {0}
    PROVE  n \div p = 0 <=> n < p
<1>1. n < p => (0 * p + n) \div p = 0
  BY DivUnique
<1>2. 0 * p + n = n
  OBVIOUS
<1>3. n = (n \div p) * p + (n % p) /\ n % p < p
  OBVIOUS
<1>4. n \div p = 0 => n < p
  BY <1>3
<1>. QED
  BY <1>1, <1>2, <1>4

=============================================================================
