------------------------ MODULE ProgramAddressProofs ------------------------
(***************************************************************************)
(* The bump search of ProgramAddress, the curve test it rests on and the   *)
(* derivation of FromGate, for any hash, any number of bumps and any prime *)
(* for which the code's constants are what they are called.                *)
(***************************************************************************)
EXTENDS EscrowLink, ArithmeticFacts

-----------------------------------------------------------------------------
(* Powers modulo P.                                                        *)

\* The field has at least five elements.
LEMMA PrimeType == P \in Nat \ {0} /\ P >= 5
<1>1. P # 0 /\ P # 1 /\ P # 2 /\ P # 3 /\ P # 4
  BY AddressAssumption, CurveAssumption
<1>. QED
  BY <1>1, AddressAssumption

\* The recursive function inside Power exists, so it is computed as written.
LEMMA PowerTable ==
    ASSUME NEW b \in Int, NEW e \in Nat
    PROVE  \E f \in [0..e -> Int] :
              /\ f[0] = 1
              /\ \A n \in 1..e : f[n] = (f[n - 1] * b) % P
              /\ Power(b, e) = f[e]
<1>. DEFINE Step(f) == [n \in 0..e |-> IF n = 0 THEN 1 ELSE (f[n - 1] * b) % P]
            g == [n \in 1..e |-> [v \in Int |-> (v * b) % P]]
            one == 1
<1>1. PICK f \in [0..e -> Int] : f[0] = 1 /\ \A n \in 1..e : f[n] = g[n][f[n - 1]]
  <2>1. g \in [1..e -> [Int -> Int]] /\ one \in Int
    BY PrimeType
  <2>. HIDE DEF g, one
  <2>2. \E f \in [0..e -> Int] : f[0] = one /\ \A n \in 1..e : f[n] = g[n][f[n - 1]]
    BY IntegerRecursion, <2>1, Zenon
  <2>. QED
    BY <2>2 DEF one
<1>2. ASSUME NEW n \in 1..e PROVE f[n] = (f[n - 1] * b) % P
  <2>. DEFINE v == f[n - 1]
  <2>1. v \in Int
    OBVIOUS
  <2>. HIDE DEF v
  <2>2. g[n][v] = (v * b) % P
    BY <2>1
  <2>. QED
    BY <1>1, <2>2 DEF v
<1>3. f = Step(f)
  <2>1. ASSUME NEW n \in 0..e PROVE f[n] = Step(f)[n]
    <3>1. CASE n = 0
      BY <1>1, <3>1
    <3>2. CASE n \in 1..e
      BY <1>2, <3>2
    <3>. QED
      BY <3>1, <3>2
  <2>2. f = [n \in 0..e |-> f[n]] /\ Step(f) = [n \in 0..e |-> Step(f)[n]]
    OBVIOUS
  <2>. HIDE DEF Step
  <2>. QED
    BY <2>1, <2>2
<1>. DEFINE power == CHOOSE power : power = Step(power)
<1>4. power = Step(power)
  BY <1>3, Zenon
<1>5. Power(b, e) = power[e]
  BY Zenon DEF Power
<1>. HIDE DEF power
<1>6. power[0] = 1
  BY <1>4
<1>7. ASSUME NEW n \in 1..e PROVE power[n] = (power[n - 1] * b) % P
  <2>1. Step(power)[n] = (power[n - 1] * b) % P
    OBVIOUS
  <2>. HIDE DEF Step
  <2>. QED
    BY <1>4, <2>1
<1>. DEFINE T == {n \in Nat : n <= e => power[n] = f[n]}
<1>8. 0 \in T
  BY <1>1, <1>6
<1>9. ASSUME NEW n \in Nat, n \in T PROVE n + 1 \in T
  BY <1>2, <1>7, <1>9
<1>. HIDE DEF T
<1>10. e \in T
  BY <1>8, <1>9, SetInduction
<1>11. Power(b, e) = f[e]
  BY <1>5, <1>10 DEF T
<1>. QED
  BY <1>1, <1>2, <1>11, Zenon

\* An empty product.
LEMMA PowerZero == ASSUME NEW b \in Int PROVE Power(b, 0) = 1
BY PowerTable, 0 \in Nat

\* One more factor.
LEMMA PowerStep ==
    ASSUME NEW b \in Int, NEW e \in Nat
    PROVE  Power(b, e + 1) = (Power(b, e) * b) % P
<1>1. PICK f \in [0..e -> Int] :
          f[0] = 1 /\ (\A n \in 1..e : f[n] = (f[n - 1] * b) % P) /\ Power(b, e) = f[e]
  BY PowerTable, Zenon
<1>2. PICK h \in [0..(e + 1) -> Int] :
          h[0] = 1 /\ (\A n \in 1..(e + 1) : h[n] = (h[n - 1] * b) % P) /\ Power(b, e + 1) = h[e + 1]
  BY PowerTable, e + 1 \in Nat, Zenon
<1>. DEFINE T == {n \in Nat : n <= e => h[n] = f[n]}
<1>3. 0 \in T
  BY <1>1, <1>2
<1>4. ASSUME NEW n \in Nat, n \in T PROVE n + 1 \in T
  BY <1>1, <1>2, <1>4
<1>. HIDE DEF T
<1>5. e \in T
  BY <1>3, <1>4, SetInduction
<1>6. h[e] = f[e]
  BY <1>5 DEF T
<1>7. h[e + 1] = (h[e] * b) % P
  BY <1>2
<1>. QED
  BY <1>1, <1>2, <1>6, <1>7

\* Powers are reduced.
LEMMA PowerType ==
    ASSUME NEW b \in Int, NEW e \in Nat
    PROVE  Power(b, e) \in 0..(P - 1)
<1>. DEFINE T == {n \in Nat : Power(b, n) \in 0..(P - 1)}
<1>1. 0 \in T
  BY PowerZero, PrimeType
<1>2. ASSUME NEW n \in Nat, n \in T PROVE n + 1 \in T
  <2>. DEFINE c == Power(b, n) * b
  <2>1. c \in Int
    BY <1>2
  <2>2. Power(b, n + 1) = c % P
    BY PowerStep
  <2>. HIDE DEF c
  <2>3. c % P \in 0..(P - 1)
    BY <2>1, PrimeType
  <2>. QED
    BY <2>2, <2>3
<1>. HIDE DEF T
<1>3. e \in T
  BY <1>1, <1>2, SetInduction
<1>. QED
  BY <1>3 DEF T

\* The exponents of a product add up.
LEMMA PowerSum ==
    ASSUME NEW b \in Int, NEW d \in Nat, NEW e \in Nat
    PROVE  Power(b, d + e) = (Power(b, d) * Power(b, e)) % P
<1>. DEFINE T == {n \in Nat : Power(b, d + n) = (Power(b, d) * Power(b, n)) % P}
            a == Power(b, d)
<1>1. a \in 0..(P - 1) /\ a % P = a
  BY PowerType, PrimeType, ModOfSmall
<1>2. 0 \in T
  BY <1>1, PowerZero
<1>3. ASSUME NEW n \in Nat, n \in T PROVE n + 1 \in T
  <2>. DEFINE c == Power(b, n)
  <2>1. c \in Int /\ a \in Int /\ a * c \in Int /\ c * b \in Int
    <3>1. a \in Int /\ c \in Int
      BY PowerType, PrimeType
    <3>. HIDE DEF a, c
    <3>. QED
      BY <3>1
  <2>2. Power(b, d + (n + 1)) = (((a * c) % P) * b) % P
    <3>1. d + (n + 1) = (d + n) + 1 /\ d + n \in Nat
      OBVIOUS
    <3>. QED
      BY <1>3, <3>1, PowerStep
  <2>3. Power(b, n + 1) = (c * b) % P
    BY PowerStep
  <2>. HIDE DEF a, c
  <2>4. (((a * c) % P) * b) % P = (a * c * b) % P
    BY <2>1, PrimeType, ModInside
  <2>5. (a * ((c * b) % P)) % P = (a * (c * b)) % P
    BY <2>1, PrimeType, ModInside
  <2>6. a * c * b = a * (c * b)
    BY <2>1
  <2>. QED
    BY <2>2, <2>3, <2>4, <2>5, <2>6 DEF a
<1>. HIDE DEF T
<1>4. e \in T
  BY <1>2, <1>3, SetInduction
<1>. QED
  BY <1>4 DEF T

\* A power of a square is the square's root to twice the exponent.
LEMMA PowerOfSquare ==
    ASSUME NEW x \in Int, NEW e \in Nat
    PROVE  Power(Square(x), e) = Power(x, 2 * e)
<1>. DEFINE T == {n \in Nat : Power(Square(x), n) = Power(x, 2 * n)}
<1>1. Square(x) \in Int
  BY PrimeType DEF Square
<1>2. 0 \in T
  BY <1>1, PowerZero
<1>3. ASSUME NEW n \in Nat, n \in T PROVE n + 1 \in T
  <2>. DEFINE c == Power(x, 2 * n)
  <2>1. c \in Int /\ c * x \in Int /\ x * x \in Int
    BY PowerType, 2 * n \in Nat
  <2>2. Power(Square(x), n + 1) = (c * ((x * x) % P)) % P
    BY <1>1, <1>3, PowerStep DEF Square
  <2>3. Power(x, 2 * (n + 1)) = (((c * x) % P) * x) % P
    <3>1. 2 * (n + 1) = (2 * n + 1) + 1 /\ 2 * n \in Nat /\ 2 * n + 1 \in Nat
      OBVIOUS
    <3>2. Power(x, 2 * n + 1) = (c * x) % P
      BY <3>1, PowerStep
    <3>. QED
      BY <3>1, <3>2, PowerStep
  <2>. HIDE DEF c
  <2>4. (c * ((x * x) % P)) % P = (c * (x * x)) % P
    BY <2>1, PrimeType, ModInside
  <2>5. (((c * x) % P) * x) % P = (c * x * x) % P
    BY <2>1, PrimeType, ModInside
  <2>6. c * (x * x) = c * x * x
    BY <2>1
  <2>. QED
    BY <2>2, <2>3, <2>4, <2>5, <2>6
<1>. HIDE DEF T
<1>4. e \in T
  BY <1>2, <1>3, SetInduction
<1>. QED
  BY <1>4 DEF T

-----------------------------------------------------------------------------
(* The integers modulo P are a field.                                      *)

\* Every element but zero has an inverse: its power P - 2.
LEMMA Reciprocal ==
    ASSUME NEW a \in Int, a % P # 0
    PROVE  \E i \in 1..(P - 1) : (a * i) % P = 1
<1>. DEFINE r == a % P
            i == Power(r, P - 2)
<1>1. r \in 1..(P - 1)
  BY PrimeType
<1>. HIDE DEF r
<1>2. Power(r, P - 1) = 1
  BY <1>1, CurveAssumption
<1>3. Power(r, P - 1) = (i * r) % P
  BY <1>1, PowerStep, PrimeType, P - 2 \in Nat, (P - 2) + 1 = P - 1
<1>4. i \in 0..(P - 1)
  BY <1>1, PowerType, PrimeType, P - 2 \in Nat
<1>. HIDE DEF i
<1>5. i # 0
  <2>1. ASSUME i = 0 PROVE FALSE
    <3>1. i * r = 0
      BY <1>1, <2>1
    <3>2. 0 % P = 0
      BY PrimeType, ModOfSmall
    <3>. QED
      BY <1>2, <1>3, <3>1, <3>2
  <2>. QED
    BY <2>1
<1>6. (a * i) % P = (r * i) % P
  BY <1>4, PrimeType, ModInside, i \in Int DEF r
<1>7. r * i = i * r
  BY <1>1, <1>4
<1>. QED
  BY <1>2, <1>3, <1>4, <1>5, <1>6, <1>7

\* A product vanishes only with a factor.
LEMMA NoZeroDivisors ==
    ASSUME NEW a \in Int, NEW b \in Int, (a * b) % P = 0, a % P # 0
    PROVE  b % P = 0
<1>1. PICK i \in 1..(P - 1) : (a * i) % P = 1
  BY Reciprocal
<1>2. i \in Int /\ a * i \in Int /\ a * b \in Int /\ (a * i) * b = i * (a * b) /\ 1 * b = b /\ i * 0 = 0
  BY PrimeType
<1>3. ((a * i) * b) % P = b % P
  <2>1. (((a * i) % P) * b) % P = ((a * i) * b) % P
    BY <1>2, PrimeType, ModInside, Zenon
  <2>. QED
    BY <1>1, <1>2, <2>1
<1>4. (i * (a * b)) % P = 0
  <2>1. (i * ((a * b) % P)) % P = (i * (a * b)) % P
    BY <1>2, PrimeType, ModInside, Zenon
  <2>2. 0 % P = 0
    BY PrimeType, ModOfSmall
  <2>. QED
    BY <1>2, <2>1, <2>2
<1>. QED
  BY <1>2, <1>3, <1>4

\* A common factor that does not vanish can be dropped.
LEMMA Cancel ==
    ASSUME NEW a \in Int, NEW b \in Int, NEW c \in Int, c % P # 0, (a * c) % P = (b * c) % P
    PROVE  a % P = b % P
<1>. DEFINE d == a - b
<1>1. d \in Int /\ a * c \in Int /\ b * c \in Int /\ a * c - b * c = c * d
  OBVIOUS
<1>2. (a * c - b * c) % P = 0
  BY <1>1, PrimeType, CongruentDifference, Zenon
<1>. HIDE DEF d
<1>3. d % P = 0
  BY <1>1, <1>2, NoZeroDivisors
<1>. QED
  BY <1>3, PrimeType, CongruentDifference DEF d

\* One has no square roots but one and minus one.
LEMMA RootsOfOne ==
    ASSUME NEW t \in 0..(P - 1), (t * t) % P = 1
    PROVE  t = 1 \/ t = P - 1
<1>1. t \in Int /\ t - 1 \in Int /\ t + 1 \in Int /\ t * t \in Int /\ t * t - 1 = (t - 1) * (t + 1)
  BY PrimeType
<1>2. ((t - 1) * (t + 1)) % P = 0
  <2>1. 1 % P = 1
    BY PrimeType, ModOfSmall
  <2>2. (t * t - 1) % P = 0
    BY <1>1, <2>1, PrimeType, CongruentDifference, 1 \in Int
  <2>. QED
    BY <1>1, <2>2
<1>3. CASE (t - 1) % P = 0
  <2>1. t % P = 1 % P
    BY <1>1, <1>3, PrimeType, CongruentDifference, 1 \in Int
  <2>. QED
    BY <2>1, PrimeType, ModOfSmall, 1 \in 0..(P - 1)
<1>4. CASE (t - 1) % P # 0
  <2>1. (t + 1) % P = 0
    BY <1>1, <1>2, <1>4, NoZeroDivisors
  <2>2. ASSUME t # P - 1 PROVE FALSE
    <3>1. t + 1 \in 0..(P - 1)
      BY <2>2, PrimeType
    <3>2. (t + 1) % P = t + 1
      BY <3>1, PrimeType, ModOfSmall
    <3>. QED
      BY <1>1, <2>1, <3>2
  <2>. QED
    BY <2>2
<1>. QED
  BY <1>3, <1>4

-----------------------------------------------------------------------------
(* Square roots modulo P.                                                  *)

\* Squares are reduced and depend on the residue alone.
LEMMA SquareFacts ==
    ASSUME NEW n \in Int
    PROVE  Square(n) \in 0..(P - 1) /\ Square(n % P) = Square(n) /\ Square(n) % P = Square(n)
<1>. DEFINE r == n % P
            s == n * n
<1>1. s \in Int /\ r \in Int
  BY PrimeType
<1>2. s % P \in 0..(P - 1) /\ (s % P) % P = s % P
  <2>. HIDE DEF s
  <2>. QED
    BY <1>1, PrimeType, ModOfMod, Zenon
<1>3. (r * r) % P = (n * r) % P /\ (n * r) % P = s % P
  <2>1. (r * r) % P = (n * r) % P
    <3>1. ASSUME NEW c \in Int PROVE ((n % P) * c) % P = (n * c) % P
      BY <3>1, PrimeType, ModInside, Zenon
    <3>. QED
      BY <1>1, <3>1
  <2>2. (n * r) % P = s % P
    BY PrimeType, ModInside, Zenon
  <2>. QED
    BY <2>1, <2>2
<1>. QED
  BY <1>2, <1>3 DEF Square

\* Only zero squares to zero.
LEMMA SquareZero ==
    ASSUME NEW x \in 0..(P - 1)
    PROVE  Square(x) = 0 <=> x = 0
<1>1. 0 % P = 0 /\ x % P = x /\ x \in Int
  BY PrimeType, ModOfSmall
<1>2. x = 0 => Square(x) = 0
  BY <1>1 DEF Square
<1>3. ASSUME Square(x) = 0 PROVE x = 0
  BY <1>1, <1>3, NoZeroDivisors DEF Square
<1>. QED
  BY <1>2, <1>3

\* The two candidates of HasRoot find a root of every square: the first
\* squares to it or to its negative, and the second to the opposite.
LEMMA RootOfSquare ==
    ASSUME NEW x \in 1..(P - 1)
    PROVE  HasRoot(Square(x))
<1>. DEFINE s == Square(x)
            k == P \div 8
            root == Power(s, (P + 3) \div 8)
            t == Power(x, 4 * k + 2)
<1>1. k \in Nat /\ P = 8 * k + 5
  BY PrimeType, CurveAssumption
<1>2. (P + 3) \div 8 = k + 1 /\ k + 1 \in Nat
  BY <1>1
<1>3. x \in Int /\ s \in 0..(P - 1) /\ s % P = s /\ s \in Int
  BY SquareFacts
<1>4. root = Power(x, 2 * k + 2) /\ root \in 0..(P - 1)
  <2>1. Power(s, k + 1) = Power(x, 2 * (k + 1))
    BY <1>2, <1>3, PowerOfSquare
  <2>2. root = Power(s, k + 1) /\ 2 * (k + 1) = 2 * k + 2
    BY <1>1, <1>2
  <2>3. root \in 0..(P - 1)
    BY <1>2, <1>3, <2>2, PowerType
  <2>. QED
    BY <2>1, <2>2, <2>3
<1>5. t \in 0..(P - 1) /\ (t * t) % P = 1
  <2>1. 4 * k + 2 \in Nat /\ (4 * k + 2) + (4 * k + 2) = P - 1
    BY <1>1
  <2>2. t \in 0..(P - 1)
    BY <1>3, <2>1, PowerType
  <2>3. Power(x, (4 * k + 2) + (4 * k + 2)) = (t * t) % P
    BY <1>3, <2>1, PowerSum
  <2>. QED
    BY <2>1, <2>2, <2>3, CurveAssumption
<1>6. t = 1 \/ t = P - 1
  BY <1>5, RootsOfOne
<1>7. Square(root) = (t * s) % P
  <2>. DEFINE e == 2 * k + 2
  <2>1. e \in Nat /\ e + e = (4 * k + 2) + 2 /\ 4 * k + 2 \in Nat
    BY <1>1
  <2>2. Power(x, e + e) = Square(root)
    BY <1>3, <1>4, <2>1, PowerSum DEF Square
  <2>3. Power(x, (4 * k + 2) + 2) = (t * Power(x, 2)) % P
    BY <1>3, <2>1, PowerSum, 2 \in Nat
  <2>4. Power(x, 2) = s
    <3>1. Power(s, 1) = Power(x, 2)
      BY <1>3, PowerOfSquare, 1 \in Nat, 2 * 1 = 2
    <3>2. Power(s, 1) = (Power(s, 0) * s) % P
      BY <1>3, PowerStep, 0 \in Nat, 0 + 1 = 1
    <3>. QED
      BY <1>3, <3>1, <3>2, PowerZero
  <2>. QED
    BY <2>1, <2>2, <2>3, <2>4
<1>. HIDE DEF s, k, root, t
<1>8. CASE t = 1
  BY <1>2, <1>3, <1>7, <1>8 DEF HasRoot, s, root
<1>9. CASE t = P - 1
  <2>. DEFINE m == SqrtMinusOne
              r2 == root * root
              m2 == m * m
              minus == P - 1
  <2>1. m \in Int /\ root \in Int /\ r2 \in Int /\ m2 \in Int /\ (root * m) * (root * m) = r2 * m2
    <3>1. m \in Int
      <4>1. (P - 1) \div 4 \in Nat
        BY PrimeType
      <4>. QED
        BY <4>1, PowerType, 2 \in Int DEF SqrtMinusOne
    <3>2. root \in Int
      BY <1>4
    <3>. HIDE DEF m
    <3>. QED
      BY <3>1, <3>2
  <2>2. m2 % P = minus
    BY CurveAssumption DEF Square
  <2>3. r2 % P = (minus * s) % P
    BY <1>7, <1>9 DEF Square
  <2>4. minus \in Int /\ minus * s \in Int /\ (minus * s) * minus = s + (P * s - 2 * s) * P
    BY <1>3, PrimeType
  <2>. HIDE DEF m, r2, m2, minus
  <2>5. (r2 * m2) % P = (r2 * minus) % P
    BY <2>1, <2>2, PrimeType, ModInside, Zenon
  <2>6. (r2 * minus) % P = ((minus * s) * minus) % P
    <3>. DEFINE n == minus * s
    <3>1. n \in Int /\ r2 \in Int /\ minus \in Int /\ r2 % P = n % P
      BY <2>1, <2>3, <2>4
    <3>. HIDE DEF n
    <3>2. (r2 * minus) % P = (n * minus) % P
      BY <3>1, PrimeType, CongruentProducts
    <3>. QED
      BY <3>2 DEF n
  <2>7. ((minus * s) * minus) % P = s % P
    <3>. DEFINE q == (minus * s) * minus
                d == P * s - 2 * s
    <3>1. q \in Int /\ d \in Int /\ q = s + d * P
      BY <1>3, <2>4, PrimeType
    <3>. HIDE DEF q, d
    <3>2. \E i \in Int : q = s + i * P
      BY <3>1
    <3>. QED
      BY <1>3, <3>1, <3>2, PrimeType, Congruence DEF q
  <2>8. Square(root * m) = s
    BY <1>3, <2>1, <2>5, <2>6, <2>7 DEF Square
  <2>. QED
    BY <1>2, <2>8 DEF HasRoot, s, root, m
<1>. QED
  BY <1>6, <1>8, <1>9

\* HasRoot (escrow/pda.go:189) answers whether a number is a square.
LEMMA HasRootIsExact ==
    ASSUME NEW s \in 1..(P - 1)
    PROVE  HasRoot(s) <=> \E x \in 1..(P - 1) : Square(x) = s
<1>1. ASSUME NEW n \in Int, Square(n) = s PROVE \E x \in 1..(P - 1) : Square(x) = s
  <2>. DEFINE x == n % P
  <2>1. x \in 0..(P - 1) /\ Square(x) = s
    <3>1. Square(x) = s
      BY <1>1, SquareFacts
    <3>. QED
      BY <3>1, PrimeType
  <2>. HIDE DEF x
  <2>2. x # 0
    BY <2>1, SquareZero
  <2>. QED
    BY <2>1, <2>2
<1>2. ASSUME HasRoot(s) PROVE \E x \in 1..(P - 1) : Square(x) = s
  <2>. DEFINE root == Power(s, (P + 3) \div 8)
              m == SqrtMinusOne
  <2>1. root \in Int /\ m \in Int
    <3>1. (P + 3) \div 8 \in Nat /\ (P - 1) \div 4 \in Nat
      BY PrimeType
    <3>. QED
      BY <3>1, PowerType, 2 \in Int, s \in Int DEF SqrtMinusOne
  <2>2. Square(root) = s \/ Square(root * m) = s
    BY <1>2 DEF HasRoot
  <2>. HIDE DEF root, m
  <2>3. root * m \in Int
    BY <2>1
  <2>. QED
    BY <1>1, <2>1, <2>2, <2>3
<1>3. ASSUME NEW x \in 1..(P - 1), Square(x) = s PROVE HasRoot(s)
  BY <1>3, RootOfSquare
<1>. QED
  BY <1>2, <1>3

-----------------------------------------------------------------------------
(* The curve equation.                                                     *)

\* D is a fraction of the field, and not minus one.
LEMMA DIsNotMinusOne == D \in 0..(P - 1) /\ (D + 1) % P # 0
<1>. DEFINE i == CHOOSE i \in Inverses(121666) : TRUE
            u == -121665 * i
            one == 121666 * i
<1>1. i \in 1..(P - 1) /\ one % P = 1
  <2>1. \E j \in 1..(P - 1) : (121666 * j) % P = 1
    BY Reciprocal, CurveAssumption, 121666 \in Int
  <2>2. Inverses(121666) # {}
    BY <2>1 DEF Inverses
  <2>3. i \in Inverses(121666)
    <3>. DEFINE S == Inverses(121666)
    <3>. HIDE DEF S
    <3>1. S # {} => (CHOOSE j \in S : TRUE) \in S
      BY Zenon
    <3>. QED
      BY <2>2, <3>1 DEF S
  <2>. HIDE DEF i
  <2>. QED
    BY <2>3 DEF Inverses
<1>2. D = u % P
  BY DEF D
<1>. HIDE DEF i
<1>3. u \in Int /\ one \in Int /\ u + one = i /\ i \in Int
  BY <1>1
<1>. HIDE DEF u, one
<1>4. D \in 0..(P - 1)
  BY <1>2, <1>3, PrimeType
<1>5. ASSUME (D + 1) % P = 0 PROVE FALSE
  <2>1. (u + 1) % P = 0
    <3>1. ((u % P) + 1) % P = (u + 1) % P
      BY <1>3, PrimeType, ModInside, 1 \in Int
    <3>. QED
      BY <1>2, <1>5, <3>1
  <2>2. (u + (one % P)) % P = (u + one) % P
    BY <1>3, PrimeType, ModInside, Zenon
  <2>3. i % P = 0
    BY <1>1, <1>3, <2>1, <2>2
  <2>. QED
    BY <1>1, <2>3, PrimeType, ModOfSmall
<1>. QED
  BY <1>4, <1>5

\* The equation of the curve, solved for the square of x.
LEMMA CurveEquation ==
    ASSUME NEW sx \in Int, NEW sy \in Int
    PROVE  (sy - sx) % P = (1 + D * sx * sy) % P <=> (sx * (D * sy + 1)) % P = (sy - 1) % P
<1>. DEFINE a == sy - sx
            b == 1 + D * sx * sy
            c == sy - 1
            d == sx * (D * sy + 1)
<1>1. D \in Int
  BY DIsNotMinusOne, PrimeType
<1>2. a \in Int /\ b \in Int /\ c \in Int /\ d \in Int /\ a - b = c - d
  BY <1>1
<1>. HIDE DEF a, b, c, d
<1>3. a % P = b % P <=> (a - b) % P = 0
  BY <1>2, PrimeType, CongruentDifference, Zenon
<1>4. c % P = d % P <=> (c - d) % P = 0
  BY <1>2, PrimeType, CongruentDifference, Zenon
<1>5. a % P = b % P <=> d % P = c % P
  BY <1>2, <1>3, <1>4
<1>. QED
  BY <1>5 DEF a, b, c, d

\* XSquared (escrow/pda.go:166) solves it: none if the denominator is zero, and
\* then the equation has no solution, and else the only one.
LEMMA XSquaredIsExact ==
    ASSUME NEW y \in Int, NEW sx \in 0..(P - 1)
    PROVE  sx \in XSquared(y) <=>
              (Square(y) - sx) % P = (1 + D * sx * Square(y)) % P
<1>. DEFINE sy == Square(y)
            w == D * sy + 1
            v == w % P
            u == sy - 1
            Solves == (sx * w) % P = u % P
<1>1. sy \in Int /\ sy \in 0..(P - 1) /\ D \in Int /\ sx \in Int /\ u \in Int
  BY SquareFacts, DIsNotMinusOne, PrimeType
<1>2. Solves <=> (sy - sx) % P = (1 + D * sx * sy) % P
  <2>. HIDE DEF sy
  <2>. QED
    BY <1>1, CurveEquation
<1>3. XSquared(y) = {(u * i) % P : i \in Inverses(v)}
  BY DEF XSquared
<1>4. w \in Int /\ v \in 0..(P - 1) /\ v % P = v
  <2>1. w \in Int
    <3>. HIDE DEF sy
    <3>. QED
      BY <1>1
  <2>. HIDE DEF w
  <2>2. v \in 0..(P - 1)
    BY <2>1, PrimeType
  <2>. QED
    BY <2>1, <2>2, PrimeType, ModOfSmall
<1>5. (sx * v) % P = (sx * w) % P
  <2>. HIDE DEF w
  <2>. QED
    BY <1>1, <1>4, PrimeType, ModInside, Zenon
<1>6. CASE v = 0
  <2>1. Inverses(v) = {}
    <3>1. \A i \in 1..(P - 1) : 0 * i = 0
      BY PrimeType
    <3>2. 0 % P = 0
      BY PrimeType, ModOfSmall
    <3>. QED
      BY <1>6, <3>1, <3>2 DEF Inverses
  <2>2. ASSUME Solves PROVE FALSE
    <3>1. u % P = 0
      BY <1>1, <1>5, <1>6, <2>2, sx * 0 = 0, PrimeType, ModOfSmall
    <3>2. sy % P = 1 % P
      <4>. HIDE DEF sy
      <4>. QED
        BY <1>1, <3>1, PrimeType, CongruentDifference, 1 \in Int
    <3>3. sy = 1
      BY <1>1, <3>2, PrimeType, ModOfSmall, 1 \in 0..(P - 1)
    <3>4. w = D + 1
      BY <1>1, <3>3
    <3>. QED
      BY <1>6, <3>4, DIsNotMinusOne
  <2>. QED
    BY <1>2, <1>3, <2>1, <2>2
<1>7. CASE v # 0
  <2>. HIDE DEF sy, u, v, w
  <2>1. ASSUME NEW i \in Inverses(v), sx = (u * i) % P PROVE (sx * v) % P = u % P
    <3>1. i \in Int /\ u * i \in Int /\ (u * i) * v = u * (v * i) /\ v * i \in Int /\ (v * i) % P = 1
      BY <1>1, <1>4 DEF Inverses
    <3>2. (((u * i) % P) * v) % P = ((u * i) * v) % P
      BY <1>4, <3>1, PrimeType, ModInside, v \in Int
    <3>3. (u * ((v * i) % P)) % P = (u * (v * i)) % P
      BY <1>1, <3>1, PrimeType, ModInside, Zenon
    <3>. QED
      BY <1>1, <2>1, <3>1, <3>2, <3>3
  <2>2. PICK i \in 1..(P - 1) : (v * i) % P = 1
    BY <1>4, <1>7, Reciprocal, v \in Int
  <2>3. i \in Inverses(v)
    BY <2>2 DEF Inverses
  <2>4. (((u * i) % P) * v) % P = u % P
    <3>1. i \in Int /\ u * i \in Int /\ (u * i) * v = u * (v * i) /\ v * i \in Int
      BY <1>1, <1>4
    <3>2. (((u * i) % P) * v) % P = ((u * i) * v) % P
      BY <1>4, <3>1, PrimeType, ModInside, v \in Int
    <3>3. (u * ((v * i) % P)) % P = (u * (v * i)) % P
      BY <1>1, <3>1, PrimeType, ModInside, Zenon
    <3>. QED
      BY <1>1, <2>2, <3>1, <3>2, <3>3
  <2>5. ASSUME (sx * v) % P = u % P PROVE sx = (u * i) % P
    <3>. DEFINE z == (u * i) % P
    <3>1. z \in 0..(P - 1)
      BY <1>1, PrimeType, u * i \in Int
    <3>. HIDE DEF z
    <3>2. (sx * v) % P = (z * v) % P
      BY <2>4, <2>5 DEF z
    <3>3. sx % P = z % P
      BY <1>1, <1>4, <1>7, <3>1, <3>2, Cancel, v \in Int, z \in Int
    <3>. QED
      BY <3>1, <3>3, PrimeType, ModOfSmall DEF z
  <2>6. sx \in XSquared(y) => Solves
    BY <1>3, <1>5, <2>1
  <2>7. Solves => sx \in XSquared(y)
    BY <1>3, <1>5, <2>3, <2>5
  <2>. QED
    BY <1>2, <2>6, <2>7 DEF sy
<1>. QED
  BY <1>6, <1>7

\* The other root of a square has the other parity.
LEMMA OppositeRoot ==
    ASSUME NEW x \in 1..(P - 1)
    PROVE  /\ P - x \in 1..(P - 1) /\ Square(P - x) = Square(x)
           /\ x % 2 \in {0, 1} /\ (P - x) % 2 = 1 - (x % 2)
<1>1. P - x \in 1..(P - 1) /\ x \in Int
  BY PrimeType
<1>2. Square(P - x) = Square(x)
  <2>. DEFINE a == (P - x) * (P - x)
              b == x * x
              k == P - 2 * x
  <2>1. a \in Int /\ b \in Int /\ k \in Int /\ a = b + k * P
    BY PrimeType
  <2>. HIDE DEF a, b, k
  <2>2. \E i \in Int : a = b + i * P
    BY <2>1
  <2>3. a % P = b % P
    BY <2>1, <2>2, PrimeType, Congruence
  <2>. QED
    BY <2>3 DEF Square, a, b
<1>3. x % 2 \in {0, 1} /\ (P - x) % 2 = 1 - (x % 2)
  BY PrimeType, CurveAssumption
<1>. QED
  BY <1>1, <1>2, <1>3

\* IsOnCurve (escrow/pda.go:152) is point decompression: it holds exactly of
\* the encodings of a point, those of y at P or above and of x = 0 with the
\* sign bit set included.
THEOREM IsOnCurveIsExact ==
    ASSUME NEW a \in Address
    PROVE  IsOnCurve(a) <=> IsAPoint(a)
<1>. DEFINE y == a.y % P
            On(s) == (Square(y) - s) % P = (1 + D * s * Square(y)) % P
<1>1. y \in Int /\ a.sign \in {0, 1}
  BY AddressAssumption, PrimeType DEF Address
<1>2. IsAPoint(a) <=> \E x \in 0..(P - 1) : On(Square(x)) /\ x % 2 = a.sign
  BY DEF IsAPoint
<1>3. IsOnCurve(a) <=>
         \E s \in XSquared(y) : (s = 0 /\ a.sign = 0) \/ (s # 0 /\ HasRoot(s))
  BY DEF IsOnCurve
<1>. HIDE DEF y
<1>4. \A s \in 0..(P - 1) : s \in XSquared(y) <=> On(s)
  BY <1>1, XSquaredIsExact
<1>5. XSquared(y) \subseteq 0..(P - 1)
  <2>1. \A i \in 1..(P - 1) : ((Square(y) - 1) * i) % P \in 0..(P - 1)
    BY <1>1, SquareFacts, PrimeType
  <2>. QED
    BY <2>1 DEF XSquared, Inverses
<1>. HIDE DEF On
<1>6. ASSUME NEW x \in 0..(P - 1), On(Square(x)), x % 2 = a.sign PROVE IsOnCurve(a)
  <2>1. Square(x) \in XSquared(y)
    BY <1>4, <1>6, SquareFacts, x \in Int
  <2>2. CASE x = 0
    <3>1. Square(x) = 0 /\ a.sign = 0
      BY <1>6, <2>2, SquareZero
    <3>. QED
      BY <1>3, <2>1, <3>1
  <2>3. CASE x # 0
    <3>1. Square(x) # 0 /\ HasRoot(Square(x))
      BY <2>3, SquareZero, RootOfSquare
    <3>. QED
      BY <1>3, <2>1, <3>1
  <2>. QED
    BY <2>2, <2>3
<1>7. ASSUME NEW s \in XSquared(y), (s = 0 /\ a.sign = 0) \/ (s # 0 /\ HasRoot(s))
      PROVE  \E x \in 0..(P - 1) : On(Square(x)) /\ x % 2 = a.sign
  <2>1. s \in 0..(P - 1) /\ On(s)
    BY <1>4, <1>5, <1>7
  <2>2. CASE s = 0
    <3>1. 0 \in 0..(P - 1) /\ Square(0) = 0 /\ 0 % 2 = 0
      BY SquareZero, PrimeType
    <3>. QED
      BY <1>7, <2>1, <2>2, <3>1
  <2>3. CASE s # 0
    <3>1. PICK x \in 1..(P - 1) : Square(x) = s
      BY <1>7, <2>1, <2>3, HasRootIsExact
    <3>2. x % 2 = a.sign \/ (P - x) % 2 = a.sign
      BY <1>1, OppositeRoot
    <3>3. P - x \in 0..(P - 1) /\ x \in 0..(P - 1) /\ Square(P - x) = s
      BY <3>1, OppositeRoot, PrimeType
    <3>. QED
      BY <2>1, <3>1, <3>2, <3>3
  <2>. QED
    BY <2>2, <2>3
<1>. QED
  BY <1>2, <1>3, <1>6, <1>7

-----------------------------------------------------------------------------
(* The search.                                                             *)

\* Every bump above the one tried next has been tried and is on the curve.
Passed == \A b \in (bump + 1)..MaxBump : IsOnCurve(hash[b])

SearchInv ==
    /\ TypeOK
    /\ Passed
    /\ result = "found" => ~IsOnCurve(hash[bump])
    /\ result = "none" => bump < 0

\* The search starts at the highest bump.
LEMMA SearchInit == Init => SearchInv
BY AddressAssumption DEF Init, SearchInv, TypeOK, Passed

\* The search goes down one bump only past an encoding on the curve.
LEMMA SearchStep == SearchInv /\ [Next]_vars => SearchInv'
<1>. SUFFICES ASSUME SearchInv, [Next]_vars PROVE SearchInv'
  OBVIOUS
<1>. USE AddressAssumption DEF SearchInv, TypeOK, Passed
<1>1. CASE Reject
  <2>1. /\ hash' = hash /\ result' = result
        /\ bump' = bump - 1 /\ bump \in 0..MaxBump
    BY <1>1 DEF Reject
  <2>2. Passed'
    <3>. SUFFICES ASSUME NEW b \in (bump' + 1)..MaxBump PROVE IsOnCurve(hash[b])
      BY <2>1, Zenon
    <3>1. b = bump \/ b \in (bump + 1)..MaxBump
      BY <2>1
    <3>. QED
      BY <1>1, <3>1 DEF Reject
  <2>. QED
    BY <1>1, <2>1, <2>2 DEF Reject
<1>2. CASE Accept
  BY <1>2 DEF Accept
<1>3. CASE Exhausted
  BY <1>3 DEF Exhausted
<1>4. CASE UNCHANGED vars
  BY <1>4 DEF vars
<1>. QED
  BY <1>1, <1>2, <1>3, <1>4 DEF Next

\* FindsTheHighestOffCurve in every state of the invariant.
LEMMA SearchImplies == SearchInv => FindsTheHighestOffCurve
<1>. SUFFICES ASSUME SearchInv PROVE FindsTheHighestOffCurve
  OBVIOUS
<1>1. result = "none" => bump + 1 = 0
  BY AddressAssumption DEF SearchInv, TypeOK
<1>. QED
  BY <1>1 DEF SearchInv, Passed, FindsTheHighestOffCurve

\* The search's state keeps its type: the bump never leaves the range of the
\* byte appended to the seeds while an address is returned for it.
THEOREM SearchTypeCorrect == Spec => []TypeOK
<1>1. SearchInv => TypeOK
  BY DEF SearchInv
<1>. QED
  BY SearchInit, SearchStep, <1>1, PTL DEF Spec

\* FindProgramAddress (escrow/pda.go:50) returns the highest bump whose hash
\* is off the curve, and an error only if all are on it.
THEOREM FindsTheHighestOffCurveAlways == Spec => []FindsTheHighestOffCurve
BY SearchInit, SearchStep, SearchImplies, PTL DEF Spec

\* CurveTestIsExact in every state of the right type.
LEMMA CurveTestFollows == TypeOK => CurveTestIsExact
<1>. SUFFICES ASSUME TypeOK, NEW b \in 0..MaxBump PROVE IsOnCurve(hash[b]) <=> IsAPoint(hash[b])
  BY DEF CurveTestIsExact
<1>1. hash[b] \in Address
  BY AddressAssumption DEF TypeOK
<1>. QED
  BY <1>1, IsOnCurveIsExact

\* For every prime the code's constants are right for, IsOnCurve
\* (escrow/pda.go:152) decides of every candidate whether it is a point.
THEOREM CurveTestIsExactAlways == Spec => []CurveTestIsExact
BY SearchTypeCorrect, CurveTestFollows, PTL

-----------------------------------------------------------------------------
(* FromGate: the demand is checked, then the search run, then compared.    *)

\* What the outcome says of the demand, and of how far the search has come.
OutcomeInv ==
    /\ outcome = "called" => bump = MaxBump /\ result = "searching"
    /\ outcome = "deriving" => DemandErrors = {}
    /\ outcome = "params" => DemandErrors = {} /\ result = "found" /\ hash[bump] = demand.payTo
    /\ outcome = "ErrNoPDABump" => result = "none"
    /\ outcome = "ErrRecipientMismatch" => result = "found" /\ hash[bump] # demand.payTo
    /\ outcome \notin {"called", "deriving", "params", "ErrNoPDABump", "ErrRecipientMismatch"} =>
          DemandErrors # {}

LinkInv ==
    /\ SearchInv
    /\ demand \in Demand
    /\ OutcomeInv

\* FromGate starts with no check made and no bump tried.
LEMMA LinkInvInit == LinkInit => LinkInv
BY SearchInit DEF LinkInit, LinkInv, OutcomeInv, Init

\* The errors a demand has depend on nothing else.
LEMMA DemandErrorsStay == demand' = demand => DemandErrors' = DemandErrors
BY DEF DemandErrors

\* No error of the demand is the name of another outcome.
LEMMA DemandErrorNames ==
    DemandErrors \cap {"called", "deriving", "params", "ErrNoPDABump", "ErrRecipientMismatch"} = {}
BY DEF DemandErrors

\* One step per check of the demand, and one per bump.
LEMMA LinkInvStep == LinkInv /\ [LinkNext]_linkVars => LinkInv'
<1>. SUFFICES ASSUME LinkInv, [LinkNext]_linkVars PROVE LinkInv'
  OBVIOUS
<1>1. SearchInv /\ demand \in Demand /\ OutcomeInv
  BY DEF LinkInv
<1>2. [Next]_vars /\ demand' = demand
  BY DEF LinkNext, linkVars, Check, Derive, Compare
<1>3. SearchInv' /\ demand' \in Demand /\ DemandErrors' = DemandErrors
  BY <1>1, <1>2, SearchStep, DemandErrorsStay
<1>4. OutcomeInv'
  <2>1. CASE Check
    <3>1. outcome' \in IF DemandErrors = {} THEN {"deriving"} ELSE DemandErrors
      BY <2>1 DEF Check
    <3>. QED
      BY <1>3, <3>1, DemandErrorNames DEF OutcomeInv
  <2>2. CASE Derive
    <3>1. outcome = "deriving" /\ outcome' = outcome
      BY <2>2 DEF Derive
    <3>. QED
      BY <1>1, <1>3, <3>1 DEF OutcomeInv
  <2>3. CASE Compare
    <3>1. DemandErrors = {} /\ hash' = hash /\ bump' = bump /\ result' = result
      BY <1>1, <2>3 DEF Compare, vars, OutcomeInv
    <3>. QED
      BY <1>2, <1>3, <2>3, <3>1 DEF Compare, OutcomeInv
  <2>4. CASE UNCHANGED linkVars
    <3>1. hash' = hash /\ bump' = bump /\ result' = result /\ outcome' = outcome
      BY <2>4 DEF linkVars, vars
    <3>. QED
      BY <1>1, <1>2, <1>3, <3>1 DEF OutcomeInv
  <2>. QED
    BY <2>1, <2>2, <2>3, <2>4 DEF LinkNext
<1>. QED
  BY <1>1, <1>3, <1>4 DEF LinkInv

\* The demand has no error exactly if it names the mint, an address and an
\* amount an SPL token amount can hold.
LEMMA DemandIsGood ==
    ASSUME demand \in Demand
    PROVE  DemandErrors = {} <=>
              /\ demand.asset = "mint" /\ demand.payTo \in Address
              /\ demand.amount # Garbage /\ demand.amount \in 1..MaxAmount
<1>1. /\ demand.asset \in {"mint", Garbage} /\ demand.payTo \in Address \cup {Garbage}
      /\ demand.amount \in Amounts \cup {Garbage} /\ Garbage \notin Address \cup Int \cup {"mint"}
      /\ Amounts \subseteq Int /\ MaxAmount \in Nat
  BY LinkAssumption DEF Demand
<1>2. CASE Garbage \in {demand.asset, demand.payTo}
  BY <1>1, <1>2 DEF DemandErrors
<1>3. CASE Garbage \notin {demand.asset, demand.payTo} /\ demand.amount = Garbage
  BY <1>1, <1>3 DEF DemandErrors
<1>4. CASE Garbage \notin {demand.asset, demand.payTo} /\ demand.amount # Garbage
  <2>1. demand.amount \in Int
    BY <1>1, <1>4
  <2>. QED
    BY <1>1, <1>4, <2>1 DEF DemandErrors
<1>. QED
  BY <1>2, <1>3, <1>4

\* The token account of the wallet is what the search found, if it found any.
LEMMA FoundIsTokenAccount ==
    ASSUME SearchInv
    PROVE  /\ result = "found" => TokenAccount = {hash[bump]} /\ hash[bump] \in Address
           /\ result = "none" => TokenAccount = {}
<1>1. TypeOK /\ FindsTheHighestOffCurve /\ CurveTestIsExact
  BY SearchImplies, CurveTestFollows DEF SearchInv
<1>2. MaxBump \in Nat /\ bump \in Int /\ (result = "found" => bump \in 0..MaxBump)
  BY <1>1, AddressAssumption DEF TypeOK
<1>3. ASSUME result = "found" PROVE TokenAccount = {hash[bump]} /\ hash[bump] \in Address
  <2>1. ~IsAPoint(hash[bump]) /\ \A b \in (bump + 1)..MaxBump : IsAPoint(hash[b])
    BY <1>1, <1>2, <1>3 DEF FindsTheHighestOffCurve, CurveTestIsExact
  <2>2. \A c \in 0..MaxBump :
           ~IsAPoint(hash[c]) /\ (\A h \in (c + 1)..MaxBump : IsAPoint(hash[h])) => c = bump
    <3>. SUFFICES ASSUME NEW c \in 0..MaxBump, ~IsAPoint(hash[c]),
                         \A h \in (c + 1)..MaxBump : IsAPoint(hash[h]), c # bump
                  PROVE  FALSE
      OBVIOUS
    <3>1. c \in (bump + 1)..MaxBump \/ bump \in (c + 1)..MaxBump
      BY <1>2, <1>3
    <3>. QED
      BY <2>1, <3>1
  <2>3. hash[bump] \in Address
    BY <1>1, <1>2, <1>3, AddressAssumption DEF TypeOK
  <2>. QED
    BY <1>2, <1>3, <2>1, <2>2, <2>3, Zenon DEF TokenAccount
<1>4. ASSUME result = "none" PROVE TokenAccount = {}
  BY <1>1, <1>4 DEF FindsTheHighestOffCurve, CurveTestIsExact, TokenAccount
<1>. QED
  BY <1>3, <1>4

\* FromGateIsExact in every state of the invariant.
LEMMA LinkInvImplies == LinkInv => FromGateIsExact
<1>. SUFFICES ASSUME LinkInv, outcome \notin {"called", "deriving"}
              PROVE  outcome = "params" <=>
                        /\ demand.asset = "mint" /\ TokenAccount = {demand.payTo}
                        /\ demand.amount # Garbage /\ demand.amount \in 1..MaxAmount
  BY DEF FromGateIsExact
<1>1. SearchInv /\ demand \in Demand /\ OutcomeInv
  BY DEF LinkInv
<1>2. /\ result = "found" => TokenAccount = {hash[bump]} /\ hash[bump] \in Address
      /\ result = "none" => TokenAccount = {}
  BY <1>1, FoundIsTokenAccount
<1>3. CASE outcome = "params"
  BY <1>1, <1>2, <1>3, DemandIsGood DEF OutcomeInv
<1>4. CASE outcome = "ErrNoPDABump"
  BY <1>1, <1>2, <1>4 DEF OutcomeInv
<1>5. CASE outcome = "ErrRecipientMismatch"
  BY <1>1, <1>2, <1>5 DEF OutcomeInv
<1>6. CASE outcome \notin {"called", "deriving", "params", "ErrNoPDABump", "ErrRecipientMismatch"}
  <2>1. DemandErrors # {}
    BY <1>1, <1>6 DEF OutcomeInv
  <2>2. ASSUME TokenAccount = {demand.payTo} PROVE demand.payTo \in Address
    <3>1. \A t \in TokenAccount : t \in Address
      BY <1>1, AddressAssumption DEF TokenAccount, SearchInv, TypeOK
    <3>. QED
      BY <2>2, <3>1
  <2>. QED
    BY <1>1, <1>6, <2>1, <2>2, DemandIsGood
<1>. QED
  BY <1>3, <1>4, <1>5, <1>6

\* FromGate (escrow/link.go:79) returns parameters exactly for the demands
\* whose amount a token account can hold and whose payTo is the account of the
\* recipient's wallet as any other implementation derives it.
THEOREM FromGateIsExactAlways == LinkSpec => []FromGateIsExact
BY LinkInvInit, LinkInvStep, LinkInvImplies, PTL DEF LinkSpec

=============================================================================
