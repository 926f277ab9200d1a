-------------------------- MODULE EncodingsProofs --------------------------
(***************************************************************************)
(* The encodings, for every radix, width and layout: numbers written in    *)
(* positional notation, the amounts and keys read from a typed text, the   *)
(* freshness rule and the instruction parser of an attestation.            *)
(***************************************************************************)
EXTENDS TypedText, Attestation, ArithmeticFacts, SequenceTheorems

-----------------------------------------------------------------------------
(* Positional notation.                                                    *)

\* The recursive function inside Exp exists, so it is computed as written.
LEMMA ExpTable ==
    ASSUME NEW b \in Int, NEW e \in Nat
    PROVE  \E f \in [0..e -> Int] :
              /\ f[0] = 1
              /\ \A n \in 1..e : f[n] = f[n - 1] * b
              /\ Exp(b, e) = f[e]
<1>. DEFINE Step(f) == [n \in 0..e |-> IF n = 0 THEN 1 ELSE f[n - 1] * b]
            g == [n \in 1..e |-> [v \in Int |-> v * b]]
            one == 1
<1>1. PICK f \in [0..e -> Int] : f[0] = 1 /\ \A n \in 1..e : f[n] = g[n][f[n - 1]]
  <2>1. g \in [1..e -> [Int -> Int]] /\ one \in Int
    OBVIOUS
  <2>. HIDE DEF g, one
  <2>2. \E f \in [0..e -> Int] : f[0] = one /\ \A n \in 1..e : f[n] = g[n][f[n - 1]]
    BY IntegerRecursion, <2>1, Zenon
  <2>. QED
    BY <2>2 DEF one
<1>2. ASSUME NEW n \in 1..e PROVE f[n] = f[n - 1] * b
  <2>. DEFINE v == f[n - 1]
  <2>1. v \in Int
    OBVIOUS
  <2>. HIDE DEF v
  <2>2. g[n][v] = v * b
    BY <2>1
  <2>. QED
    BY <1>1, <2>2 DEF v
<1>3. f = Step(f)
  <2>1. ASSUME NEW n \in 0..e PROVE f[n] = Step(f)[n]
    <3>1. CASE n = 0
      BY <1>1, <3>1
    <3>2. CASE n \in 1..e
      BY <1>2, <3>2
    <3>. QED
      BY <3>1, <3>2
  <2>2. f = [n \in 0..e |-> f[n]] /\ Step(f) = [n \in 0..e |-> Step(f)[n]]
    OBVIOUS
  <2>. HIDE DEF Step
  <2>. QED
    BY <2>1, <2>2
<1>. DEFINE exp == CHOOSE exp : exp = Step(exp)
<1>4. exp = Step(exp)
  BY <1>3, Zenon
<1>5. Exp(b, e) = exp[e]
  BY Zenon DEF Exp
<1>. HIDE DEF exp
<1>6. exp[0] = 1
  BY <1>4
<1>7. ASSUME NEW n \in 1..e PROVE exp[n] = exp[n - 1] * b
  <2>1. Step(exp)[n] = exp[n - 1] * b
    OBVIOUS
  <2>. HIDE DEF Step
  <2>. QED
    BY <1>4, <2>1
<1>. DEFINE T == {n \in Nat : n <= e => exp[n] = f[n]}
<1>8. 0 \in T
  BY <1>1, <1>6
<1>9. ASSUME NEW n \in Nat, n \in T PROVE n + 1 \in T
  BY <1>2, <1>7, <1>9
<1>. HIDE DEF T
<1>10. e \in T
  BY <1>8, <1>9, SetInduction
<1>11. Exp(b, e) = f[e]
  BY <1>5, <1>10 DEF T
<1>. QED
  BY <1>1, <1>2, <1>11, Zenon

\* Exp is exponentiation.
LEMMA ExpStep ==
    ASSUME NEW b \in Int
    PROVE  Exp(b, 0) = 1 /\ \A e \in Nat : Exp(b, e + 1) = Exp(b, e) * b /\ Exp(b, e) \in Int
<1>1. Exp(b, 0) = 1
  BY ExpTable, 0 \in Nat
<1>2. ASSUME NEW e \in Nat PROVE Exp(b, e + 1) = Exp(b, e) * b /\ Exp(b, e) \in Int
  <2>1. PICK f \in [0..e -> Int] :
            f[0] = 1 /\ (\A n \in 1..e : f[n] = f[n - 1] * b) /\ Exp(b, e) = f[e]
    BY ExpTable, Zenon
  <2>2. PICK h \in [0..(e + 1) -> Int] :
            h[0] = 1 /\ (\A n \in 1..(e + 1) : h[n] = h[n - 1] * b) /\ Exp(b, e + 1) = h[e + 1]
    BY ExpTable, e + 1 \in Nat, Zenon
  <2>. DEFINE T == {n \in Nat : n <= e => h[n] = f[n]}
  <2>3. 0 \in T
    BY <2>1, <2>2
  <2>4. ASSUME NEW n \in Nat, n \in T PROVE n + 1 \in T
    BY <2>1, <2>2, <2>4
  <2>. HIDE DEF T
  <2>5. e \in T
    BY <2>3, <2>4, SetInduction
  <2>6. h[e] = f[e]
    BY <2>5 DEF T
  <2>7. h[e + 1] = h[e] * b
    BY <2>2
  <2>. QED
    BY <2>1, <2>2, <2>6, <2>7
<1>. QED
  BY <1>1, <1>2

\* Powers of a positive number are positive.
LEMMA ExpPositive ==
    ASSUME NEW b \in Nat \ {0}, NEW e \in Nat
    PROVE  Exp(b, e) \in Nat \ {0}
<1>. DEFINE T == {n \in Nat : Exp(b, n) \in Nat \ {0}}
<1>1. 0 \in T
  <2>1. Exp(b, 0) = 1
    BY ExpStep, b \in Int
  <2>. QED
    BY <2>1
<1>2. ASSUME NEW n \in Nat, n \in T PROVE n + 1 \in T
  <2>. DEFINE x == Exp(b, n)
  <2>1. x \in Nat \ {0} /\ Exp(b, n + 1) = x * b
    BY <1>2, ExpStep
  <2>. HIDE DEF x
  <2>2. 1 * b <= x * b
    BY <2>1, ScaleMonotone
  <2>. QED
    BY <2>1, <2>2
<1>. HIDE DEF T
<1>3. e \in T
  BY <1>1, <1>2, SetInduction
<1>. QED
  BY <1>3 DEF T

\* The exponents of a product add up.
LEMMA ExpSum ==
    ASSUME NEW b \in Int, NEW e \in Nat, NEW d \in Nat
    PROVE  Exp(b, e + d) = Exp(b, e) * Exp(b, d)
<1>. DEFINE x == Exp(b, e)
            T == {n \in Nat : Exp(b, e + n) = x * Exp(b, n)}
<1>1. x \in Int
  BY ExpStep
<1>2. 0 \in T
  BY <1>1, ExpStep
<1>3. ASSUME NEW n \in Nat, n \in T PROVE n + 1 \in T
  <2>. DEFINE y == Exp(b, n)
  <2>1. y \in Int /\ Exp(b, e + n) = x * y /\ Exp(b, n + 1) = y * b
    BY <1>3, ExpStep
  <2>2. Exp(b, e + n + 1) = Exp(b, e + n) * b /\ e + (n + 1) = e + n + 1
    BY ExpStep, e + n \in Nat
  <2>. HIDE DEF x, y
  <2>3. Exp(b, e + (n + 1)) = x * (y * b)
    BY <1>1, <2>1, <2>2
  <2>. QED
    BY <2>1, <2>3 DEF x
<1>. HIDE DEF T
<1>4. d \in T
  BY <1>2, <1>3, SetInduction
<1>. QED
  BY <1>4 DEF T

\* A power grows with its exponent, and beyond it.
LEMMA ExpGrows ==
    ASSUME NEW b \in Nat \ {0, 1}, NEW e \in Nat, NEW d \in Nat
    PROVE  /\ e < Exp(b, e)
           /\ e <= d => Exp(b, e) <= Exp(b, d)
<1>1. e < Exp(b, e)
  <2>. DEFINE T == {n \in Nat : n < Exp(b, n)}
  <2>1. 0 \in T
    BY ExpStep
  <2>2. ASSUME NEW n \in Nat, n \in T PROVE n + 1 \in T
    <3>. DEFINE x == Exp(b, n)
    <3>1. x \in Int /\ n < x /\ Exp(b, n + 1) = x * b
      BY <2>2, ExpStep
    <3>. HIDE DEF x
    <3>2. 2 * x <= b * x
      BY <3>1, ScaleMonotone, x \in Nat
    <3>. QED
      BY <3>1, <3>2
  <2>. HIDE DEF T
  <2>3. e \in T
    BY <2>1, <2>2, SetInduction
  <2>. QED
    BY <2>3 DEF T
<1>2. ASSUME e <= d PROVE Exp(b, e) <= Exp(b, d)
  <2>. DEFINE x == Exp(b, e)
              y == Exp(b, d - e)
  <2>1. x \in Nat \ {0} /\ y \in Nat \ {0}
    BY <1>2, ExpPositive, d - e \in Nat
  <2>2. Exp(b, d) = x * y
    BY <1>2, ExpSum, d - e \in Nat, e + (d - e) = d
  <2>. HIDE DEF x, y
  <2>3. 1 * x <= y * x
    BY <2>1, ScaleMonotone
  <2>. QED
    BY <2>1, <2>2, <2>3 DEF x
<1>. QED
  BY <1>1, <1>2

\* What the loop of a parser has after each digit.
LEMMA ValueTable ==
    ASSUME NEW s \in Seq(Int), NEW b \in Int
    PROVE  \E f \in [0..Len(s) -> Int] :
              /\ f[0] = 0
              /\ \A n \in 1..Len(s) : f[n] = f[n - 1] * b + s[n]
              /\ ValueOf(s, b) = f[Len(s)]
<1>. DEFINE e == Len(s)
            Step(f) == [n \in 0..e |-> IF n = 0 THEN 0 ELSE f[n - 1] * b + s[n]]
            g == [n \in 1..e |-> [v \in Int |-> v * b + s[n]]]
            zero == 0
<1>e. e \in Nat /\ \A n \in 1..e : s[n] \in Int
  OBVIOUS
<1>0. ValueOf(s, b) = (CHOOSE value : value = Step(value))[e]
  BY Zenon DEF ValueOf
<1>. HIDE DEF e
<1>1. PICK f \in [0..e -> Int] : f[0] = 0 /\ \A n \in 1..e : f[n] = g[n][f[n - 1]]
  <2>1. g \in [1..e -> [Int -> Int]] /\ zero \in Int
    BY <1>e
  <2>. HIDE DEF g, zero
  <2>2. \E f \in [0..e -> Int] : f[0] = zero /\ \A n \in 1..e : f[n] = g[n][f[n - 1]]
    BY IntegerRecursion, <1>e, <2>1, Zenon
  <2>. QED
    BY <2>2 DEF zero
<1>2. ASSUME NEW n \in 1..e PROVE f[n] = f[n - 1] * b + s[n]
  <2>. DEFINE v == f[n - 1]
  <2>1. v \in Int
    BY <1>e
  <2>. HIDE DEF v
  <2>2. g[n][v] = v * b + s[n]
    BY <2>1
  <2>. QED
    BY <1>1, <2>2 DEF v
<1>3. f = Step(f)
  <2>1. ASSUME NEW n \in 0..e PROVE f[n] = Step(f)[n]
    <3>1. CASE n = 0
      BY <1>1, <3>1
    <3>2. CASE n \in 1..e
      BY <1>2, <3>2
    <3>. QED
      BY <1>e, <3>1, <3>2
  <2>2. f = [n \in 0..e |-> f[n]] /\ Step(f) = [n \in 0..e |-> Step(f)[n]]
    OBVIOUS
  <2>. HIDE DEF Step
  <2>. QED
    BY <2>1, <2>2
<1>. DEFINE value == CHOOSE value : value = Step(value)
<1>4. value = Step(value)
  BY <1>3, Zenon
<1>5. ValueOf(s, b) = value[e]
  BY <1>0, Zenon
<1>. HIDE DEF value
<1>6. value[0] = 0
  BY <1>4, <1>e
<1>7. ASSUME NEW n \in 1..e PROVE value[n] = value[n - 1] * b + s[n]
  <2>1. Step(value)[n] = value[n - 1] * b + s[n]
    BY <1>e
  <2>. HIDE DEF Step
  <2>. QED
    BY <1>4, <2>1
<1>. DEFINE T == {n \in Nat : n <= e => value[n] = f[n]}
<1>8. 0 \in T
  BY <1>1, <1>6
<1>9. ASSUME NEW n \in Nat, n \in T PROVE n + 1 \in T
  BY <1>e, <1>2, <1>7, <1>9
<1>. HIDE DEF T
<1>10. e \in T
  BY <1>e, <1>8, <1>9, SetInduction
<1>11. ValueOf(s, b) = f[e]
  BY <1>5, <1>10 DEF T
<1>. QED
  BY <1>1, <1>2, <1>11, Zenon DEF e

\* A value is a number.
LEMMA ValueType ==
    ASSUME NEW s \in Seq(Int), NEW b \in Int
    PROVE  ValueOf(s, b) \in Int
<1>1. PICK f \in [0..Len(s) -> Int] :
          f[0] = 0 /\ (\A n \in 1..Len(s) : f[n] = f[n - 1] * b + s[n]) /\ ValueOf(s, b) = f[Len(s)]
  BY ValueTable, Zenon
<1>2. Len(s) \in 0..Len(s)
  OBVIOUS
<1>. QED
  BY <1>1, <1>2

\* A text that goes on: its first part is shifted by the length of the second.
LEMMA ValueOfConcat ==
    ASSUME NEW s \in Seq(Int), NEW t \in Seq(Int), NEW b \in Int
    PROVE  ValueOf(s \o t, b) = ValueOf(s, b) * Exp(b, Len(t)) + ValueOf(t, b)
<1>. DEFINE k == Len(s)
            l == Len(t)
            u == s \o t
<1>1. /\ k \in Nat /\ l \in Nat /\ u \in Seq(Int) /\ Len(u) = k + l
      /\ (\A n \in 1..k : u[n] = s[n]) /\ (\A n \in 1..l : u[k + n] = t[n])
      /\ (\A n \in 1..l : t[n] \in Int)
  OBVIOUS
<1>2. PICK f \in [0..k -> Int] :
          f[0] = 0 /\ (\A n \in 1..k : f[n] = f[n - 1] * b + s[n]) /\ ValueOf(s, b) = f[k]
  BY ValueTable, Zenon
<1>3. PICK g \in [0..l -> Int] :
          g[0] = 0 /\ (\A n \in 1..l : g[n] = g[n - 1] * b + t[n]) /\ ValueOf(t, b) = g[l]
  BY ValueTable, Zenon
<1>. HIDE DEF u
<1>4. PICK h \in [0..Len(u) -> Int] :
          h[0] = 0 /\ (\A n \in 1..Len(u) : h[n] = h[n - 1] * b + u[n]) /\ ValueOf(u, b) = h[Len(u)]
  BY <1>1, ValueTable, Zenon
<1>. HIDE DEF k, l
<1>5. h[k] = f[k]
  <2>. DEFINE T == {n \in Nat : n <= k => h[n] = f[n]}
  <2>1. 0 \in T
    BY <1>2, <1>4
  <2>2. ASSUME NEW n \in Nat, n \in T PROVE n + 1 \in T
    BY <1>1, <1>2, <1>4, <2>2
  <2>. HIDE DEF T
  <2>3. k \in T
    BY <1>1, <2>1, <2>2, SetInduction
  <2>. QED
    BY <2>3 DEF T
<1>. DEFINE x == f[k]
<1>6. x \in Int
  BY <1>1
<1>. HIDE DEF x
<1>7. h[k + l] = x * Exp(b, l) + g[l]
  <2>. DEFINE T == {n \in Nat : n <= l => h[k + n] = x * Exp(b, n) + g[n]}
  <2>1. 0 \in T
    BY <1>1, <1>3, <1>5, <1>6, ExpStep DEF x
  <2>2. ASSUME NEW n \in Nat, n \in T, n + 1 <= l
        PROVE  h[k + (n + 1)] = x * Exp(b, n + 1) + g[n + 1]
    <3>. DEFINE y == Exp(b, n)
                z == g[n]
                d == t[n + 1]
    <3>1. y \in Int /\ z \in Int /\ d \in Int /\ Exp(b, n + 1) = y * b /\ g[n + 1] = z * b + d
      BY <1>1, <1>3, <2>2, ExpStep, n + 1 \in 1..l, n + 1 - 1 = n
    <3>2. h[k + (n + 1)] = h[k + n] * b + d
      <4>1. k + (n + 1) \in 1..(k + l) /\ (k + (n + 1)) - 1 = k + n /\ u[k + (n + 1)] = d
        BY <1>1, <2>2
      <4>. QED
        BY <1>1, <1>4, <4>1
    <3>3. h[k + n] = x * y + z
      BY <1>1, <2>2
    <3>. HIDE DEF y, z, d
    <3>4. (x * y + z) * b + d = x * (y * b) + (z * b + d)
      BY <1>6, <3>1
    <3>. QED
      BY <3>1, <3>2, <3>3, <3>4
  <2>3. ASSUME NEW n \in Nat, n \in T PROVE n + 1 \in T
    <3>. SUFFICES ASSUME n + 1 <= l PROVE h[k + (n + 1)] = x * Exp(b, n + 1) + g[n + 1]
      OBVIOUS
    <3>. QED
      BY <2>2, <2>3
  <2>. HIDE DEF T
  <2>4. l \in T
    BY <1>1, <2>1, <2>3, SetInduction
  <2>. QED
    BY <1>1, <2>4 DEF T
<1>. QED
  BY <1>1, <1>2, <1>3, <1>4, <1>7 DEF k, l, u, x

\* A sequence of zeros is zero, and any digits are less than the power of the
\* radix that has one more.
LEMMA ValueOfZeros ==
    ASSUME NEW s \in Seq(Int), NEW b \in Int, \A n \in 1..Len(s) : s[n] = 0
    PROVE  ValueOf(s, b) = 0
<1>1. PICK f \in [0..Len(s) -> Int] :
          f[0] = 0 /\ (\A n \in 1..Len(s) : f[n] = f[n - 1] * b + s[n]) /\ ValueOf(s, b) = f[Len(s)]
  BY ValueTable, Zenon
<1>. DEFINE T == {n \in Nat : n <= Len(s) => f[n] = 0}
<1>2. 0 \in T
  BY <1>1
<1>3. ASSUME NEW n \in Nat, n \in T PROVE n + 1 \in T
  <2>. SUFFICES ASSUME n + 1 <= Len(s) PROVE f[n + 1] = 0
    OBVIOUS
  <2>1. f[n] = 0 /\ s[n + 1] = 0 /\ n + 1 \in 1..Len(s) /\ (n + 1) - 1 = n
    BY <1>3
  <2>2. f[n + 1] = 0 * b + 0
    BY <1>1, <2>1
  <2>. QED
    BY <2>2
<1>. HIDE DEF T
<1>4. Len(s) \in T
  BY <1>2, <1>3, SetInduction, Len(s) \in Nat
<1>. QED
  BY <1>1, <1>4 DEF T

\* A text of n digits writes a number below the n-th power of the radix.
LEMMA ValueIsSmall ==
    ASSUME NEW b \in Nat \ {0}, NEW s \in Seq(Int), \A n \in 1..Len(s) : s[n] \in 0..(b - 1)
    PROVE  ValueOf(s, b) \in 0..(Exp(b, Len(s)) - 1)
<1>0. b \in Int /\ Len(s) \in Nat
  OBVIOUS
<1>1. PICK f \in [0..Len(s) -> Int] :
          f[0] = 0 /\ (\A n \in 1..Len(s) : f[n] = f[n - 1] * b + s[n]) /\ ValueOf(s, b) = f[Len(s)]
  BY <1>0, ValueTable, Zenon
<1>. DEFINE T == {n \in Nat : n <= Len(s) => f[n] \in 0..(Exp(b, n) - 1)}
<1>2. 0 \in T
  <2>1. Exp(b, 0) = 1
    BY <1>0, ExpStep
  <2>. QED
    BY <1>0, <1>1, <2>1
<1>3. ASSUME NEW n \in Nat, n \in T, n + 1 <= Len(s) PROVE f[n + 1] \in 0..(Exp(b, n + 1) - 1)
  <2>. DEFINE v == f[n]
              x == Exp(b, n)
              d == s[n + 1]
  <2>0. n + 1 \in 1..Len(s) /\ (n + 1) - 1 = n
    BY <1>0, <1>3
  <2>1. /\ v \in 0..(x - 1) /\ x \in Int /\ d \in 0..(b - 1)
        /\ Exp(b, n + 1) = x * b /\ f[n + 1] = v * b + d
    <3>1. x \in Int /\ Exp(b, n + 1) = x * b
      BY <1>0, ExpStep
    <3>2. v \in 0..(x - 1)
      BY <1>0, <1>3
    <3>3. d \in 0..(b - 1) /\ f[n + 1] = v * b + d
      BY <1>1, <2>0
    <3>. QED
      BY <3>1, <3>2, <3>3
  <2>. HIDE DEF v, x, d
  <2>2. v * b <= (x - 1) * b /\ 0 * b <= v * b
    BY <2>1, ScaleMonotone
  <2>3. (x - 1) * b = x * b - b /\ 0 * b = 0
    BY <2>1
  <2>. DEFINE low == v * b
              all == x * b
  <2>4. low \in Int /\ all \in Int /\ 0 <= low /\ low <= all - b
    BY <2>1, <2>2, <2>3
  <2>5. f[n + 1] = low + d /\ Exp(b, n + 1) = all
    BY <2>1
  <2>. HIDE DEF low, all
  <2>. QED
    BY <2>1, <2>4, <2>5
<1>4. ASSUME NEW n \in Nat, n \in T PROVE n + 1 \in T
  <2>. SUFFICES ASSUME n + 1 <= Len(s) PROVE f[n + 1] \in 0..(Exp(b, n + 1) - 1)
    OBVIOUS
  <2>. QED
    BY <1>3, <1>4
<1>. HIDE DEF T
<1>5. Len(s) \in T
  BY <1>2, <1>4, SetInduction, Len(s) \in Nat
<1>. QED
  BY <1>1, <1>5 DEF T

-----------------------------------------------------------------------------
(* Written amounts.                                                        *)

\* Combine (cmd/mcp-gateway/main.go:328-334) returns the exact sum when it is
\* positive and fits the width, and nothing in every other case: no amount is
\* wrapped or saturated, and none that fits is refused.
THEOREM CombineIsExact ==
    ASSUME NEW whole \in 0..MaxUint, NEW fraction \in 0..MaxUint
    PROVE  Combine(whole, fraction) = {m \in 1..MaxUint : m = whole * Scale + fraction}
<1>1. Scale \in Nat \ {0} /\ MaxUint \in Nat \ {0}
  BY MicroAssumption DEF Scale
<1>. DEFINE sum == whole * Scale + fraction
<1>2. sum \in Nat
  BY <1>1
<1>3. whole <= (MaxUint - fraction) \div Scale <=> whole * Scale <= MaxUint - fraction
  BY <1>1, QuotientTest
<1>4. whole <= (MaxUint - fraction) \div Scale <=> sum <= MaxUint
  BY <1>1, <1>2, <1>3
<1>5. ASSUME sum <= MaxUint PROVE Wrapped(sum) = sum
  BY <1>1, <1>2, <1>5 DEF Wrapped
<1>6. CASE sum <= MaxUint
  <2>1. Combine(whole, fraction) = {sum} \ {0}
    BY <1>4, <1>5, <1>6 DEF Combine
  <2>. QED
    BY <1>1, <1>2, <1>6, <2>1
<1>7. CASE ~(sum <= MaxUint)
  <2>1. Combine(whole, fraction) = {}
    BY <1>4, <1>7 DEF Combine
  <2>. QED
    BY <1>1, <1>2, <1>7, <2>1
<1>. QED
  BY <1>6, <1>7

\* Padding (cmd/mcp-gateway/main.go:321) writes the same fraction with all its
\* places, so its number is less than one whole unit.
LEMMA PaddedFraction ==
    ASSUME NEW s \in Seq(Digit), Len(s) <= Decimals
    PROVE  /\ Number(s) \in Nat
           /\ Number(Padded(s)) = Number(s) * Exp(Base, Decimals - Len(s))
           /\ Number(Padded(s)) \in 0..MaxUint
<1>. DEFINE zeros == [i \in 1..(Decimals - Len(s)) |-> 0]
<1>1. Base \in Nat \ {0, 1} /\ Base \in Int /\ Decimals \in Nat /\ Decimals - Len(s) \in Nat
  BY MicroAssumption
<1>2. /\ zeros \in Seq(Int) /\ Len(zeros) = Decimals - Len(s)
      /\ \A n \in 1..Len(zeros) : zeros[n] = 0
  BY <1>1
<1>3. s \in Seq(Int) /\ \A n \in 1..Len(s) : s[n] \in 0..(Base - 1)
  BY <1>1 DEF Digit
<1>. HIDE DEF zeros
<1>4. Number(Padded(s)) = Number(s) * Exp(Base, Decimals - Len(s)) + 0
  <2>1. ValueOf(zeros, Base) = 0
    BY <1>1, <1>2, ValueOfZeros
  <2>2. Padded(s) = s \o zeros
    BY DEF Padded, zeros
  <2>3. ValueOf(s \o zeros, Base) = ValueOf(s, Base) * Exp(Base, Len(zeros)) + ValueOf(zeros, Base)
    BY <1>1, <1>2, <1>3, ValueOfConcat, Zenon
  <2>. QED
    BY <1>2, <2>1, <2>2, <2>3 DEF Number
<1>5. Number(s) \in Nat
  BY <1>1, <1>3, ValueIsSmall DEF Number
<1>6. Exp(Base, Decimals - Len(s)) \in Nat
  BY <1>1, ExpPositive
<1>7. Number(Padded(s)) \in 0..MaxUint
  <2>1. /\ s \o zeros \in Seq(Int) /\ Len(s \o zeros) = Decimals
        /\ \A n \in 1..Len(s \o zeros) : (s \o zeros)[n] \in 0..(Base - 1)
    BY <1>1, <1>2, <1>3
  <2>2. Padded(s) = s \o zeros
    BY DEF Padded, zeros
  <2>3. Number(Padded(s)) \in 0..(Exp(Base, Decimals) - 1)
    <3>. DEFINE u == s \o zeros
    <3>. HIDE DEF u
    <3>1. ValueOf(u, Base) \in 0..(Exp(Base, Len(u)) - 1)
      BY <1>1, <2>1, ValueIsSmall DEF u
    <3>. QED
      BY <2>1, <2>2, <3>1 DEF u, Number
  <2>. QED
    BY <2>3, MicroAssumption
<1>. QED
  BY <1>4, <1>5, <1>6, <1>7

\* The comparison of ParsesExactly, without the common factor.
LEMMA CommonFactor ==
    ASSUME NEW m \in Int, NEW n \in Int, NEW f \in Int,
           NEW e \in Nat \ {0}, NEW d \in Nat \ {0}
    PROVE  m * e = (n * e + f) * (e * d) <=> m = n * (e * d) + f * d
<1>. DEFINE v == n * (e * d) + f * d
            diff == m - v
<1>1. v \in Int /\ diff \in Int /\ (n * e + f) * (e * d) = v * e
  OBVIOUS
<1>. HIDE DEF v
<1>2. m * e - v * e = diff * e
  BY <1>1
<1>3. diff * e = 0 <=> diff = 0
  <2>. HIDE DEF diff
  <2>1. diff >= 1 => 1 * e <= diff * e
    BY <1>1, ScaleMonotone
  <2>2. diff <= -1 => diff * e <= -1 * e
    BY <1>1, ScaleMonotone
  <2>. QED
    BY <1>1, <2>1, <2>2
<1>4. m * e = v * e <=> diff * e = 0
  <2>. DEFINE x == m * e
              y == v * e
  <2>1. x \in Int /\ y \in Int /\ x - y = diff * e
    BY <1>1, <1>2
  <2>. HIDE DEF x, y, diff
  <2>2. x = y <=> diff * e = 0
    BY <2>1
  <2>. QED
    BY <2>2 DEF x, y
<1>5. m * e = v * e <=> m = v
  BY <1>1, <1>3, <1>4
<1>. QED
  BY <1>1, <1>5 DEF v

\* Digits in front of a dot, and behind it.
LEMMA DigitsAreIntegers ==
    ASSUME NEW s \in Seq(Character)
    PROVE  s \in Seq(Int) /\ (AllDigits(s) \/ s = <<>> => s \in Seq(Digit))
<1>1. Base \in Nat \ {0, 1} /\ Character \subseteq Int
  BY MicroAssumption DEF Character, Digit, NonDigit
<1>2. s \in Seq(Int)
  BY <1>1, SeqMonotonic, Zenon
<1>3. AllDigits(s) => s \in Seq(Digit)
  BY DEF AllDigits
<1>. QED
  BY <1>2, <1>3

\* The amount microUSDC returns, for every written amount.
LEMMA MicroIsExact ==
    ASSUME NEW w \in Written, w.dot \/ w.fraction = <<>>
    PROVE  Micro(w) =
              {m \in 1..MaxUint : WellWritten(w) /\ m * Exp(Base, Places(w)) = Digits(w) * Scale}
<1>. DEFINE k == Len(w.fraction)
            n == Number(w.whole)
            f == Number(w.fraction)
            p == Number(Padded(w.fraction))
            e == Exp(Base, k)
            d == Exp(Base, Decimals - k)
<1>1. w.whole \in Seq(Character) /\ w.fraction \in Seq(Character)
  BY DEF Written
<1>2. CASE ~WellWritten(w)
  BY <1>2 DEF Micro
<1>3. CASE WellWritten(w)
  <2>1. w.whole \in Seq(Digit) /\ w.fraction \in Seq(Digit) /\ k <= Decimals /\ k \in Nat
    BY <1>1, <1>3, DigitsAreIntegers, MicroAssumption DEF WellWritten
  <2>2. Base \in Nat \ {0, 1} /\ Base \in Int /\ Decimals - k \in Nat /\ MaxUint \in Nat \ {0}
    BY <2>1, MicroAssumption
  <2>3. w.whole \in Seq(Int) /\ w.fraction \in Seq(Int)
    BY <1>1, DigitsAreIntegers
  <2>4. n \in Nat
    <3>1. \A i \in 1..Len(w.whole) : w.whole[i] \in 0..(Base - 1)
      <4>1. \A i \in 1..Len(w.whole) : w.whole[i] \in Digit
        BY <2>1
      <4>. QED
        BY <4>1 DEF Digit
    <3>. QED
      BY <2>2, <2>3, <3>1, ValueIsSmall DEF Number
  <2>5. f \in Nat /\ p = f * d /\ p \in 0..MaxUint
    BY <2>1, PaddedFraction
  <2>6. e \in Nat \ {0} /\ d \in Nat \ {0} /\ Scale = e * d
    <3>1. e \in Nat \ {0} /\ d \in Nat \ {0}
      BY <2>1, <2>2, ExpPositive
    <3>2. Exp(Base, k + (Decimals - k)) = e * d
      BY <2>1, <2>2, ExpSum
    <3>3. k + (Decimals - k) = Decimals
      BY <2>1, MicroAssumption
    <3>. QED
      BY <3>1, <3>2, <3>3 DEF Scale
  <2>7. Digits(w) = n * e + f
    BY <2>2, <2>3, ValueOfConcat, Zenon DEF Digits, Number
  <2>. HIDE DEF n, f, p, e, d, k
  <2>8. \A m \in Int : m * e = Digits(w) * Scale <=> m = n * Scale + p
    BY <2>4, <2>5, <2>6, <2>7, CommonFactor
  <2>9. Micro(w) = {m \in 1..MaxUint : m = n * Scale + p}
    <3>1. ParseUint(Padded(w.fraction)) = {p}
      BY <2>5 DEF ParseUint, p
    <3>2. Scale \in Nat \ {0} /\ n * Scale \in Nat /\ n * 1 <= n * Scale
      <4>1. Scale \in Nat \ {0}
        BY MicroAssumption DEF Scale
      <4>2. 1 * n <= Scale * n
        BY <2>4, <4>1, ScaleMonotone
      <4>. QED
        BY <2>4, <4>1, <4>2
    <3>3. CASE n <= MaxUint
      <4>1. ParseUint(w.whole) = {n}
        BY <2>2, <2>4, <3>3 DEF ParseUint, n
      <4>2. Micro(w) = Combine(n, p)
        BY <1>3, <3>1, <4>1 DEF Micro
      <4>. QED
        BY <2>2, <2>4, <2>5, <3>3, <4>2, CombineIsExact, n \in 0..MaxUint
    <3>4. CASE n > MaxUint
      <4>1. ParseUint(w.whole) = {}
        BY <2>2, <2>4, <3>4 DEF ParseUint, n
      <4>2. Micro(w) = {}
        BY <4>1 DEF Micro
      <4>3. n * Scale + p > MaxUint
        BY <2>2, <2>4, <2>5, <3>2, <3>4
      <4>. QED
        BY <2>2, <4>2, <4>3
    <3>. QED
      BY <2>2, <2>4, <3>3, <3>4
  <2>. QED
    BY <1>3, <2>8, <2>9 DEF Places, e, k
<1>. QED
  BY <1>2, <1>3

\* What typing keeps: no fraction before the dot.
TextInv ==
    /\ amount \in Written
    /\ amount.dot \/ amount.fraction = <<>>

\* What is typed is characters, before and after the dot.
LEMMA TextTyping == TextSpec => []TextInv
<1>1. amount = Blank => TextInv
  BY DEF Blank, TextInv, Written
<1>2. TextInv /\ [Type]_amount => TextInv'
  <2>. SUFFICES ASSUME TextInv, [Type]_amount PROVE TextInv'
    OBVIOUS
  <2>1. /\ amount.whole \in Seq(Character) /\ amount.dot \in BOOLEAN
        /\ amount.fraction \in Seq(Character)
        /\ amount = [whole |-> amount.whole, dot |-> amount.dot, fraction |-> amount.fraction]
    BY DEF TextInv, Written
  <2>2. ASSUME NEW c \in Character, TypeWhole(c) PROVE TextInv'
    <3>1. Append(amount.whole, c) \in Seq(Character)
      BY <2>1
    <3>2. amount' = [amount EXCEPT !.whole = Append(amount.whole, c)]
      BY <2>2 DEF TypeWhole
    <3>. DEFINE text == Append(amount.whole, c)
    <3>. HIDE DEF text
    <3>3. amount' = [amount EXCEPT !.whole = text]
      BY <3>2 DEF text
    <3>4. text \in Seq(Character)
      BY <3>1 DEF text
    <3>. QED
      BY <2>1, <2>2, <3>3, <3>4 DEF TypeWhole, TextInv, Written
  <2>3. ASSUME NEW c \in Character, TypeFraction(c) PROVE TextInv'
    <3>1. Append(amount.fraction, c) \in Seq(Character)
      BY <2>1
    <3>2. amount' = [amount EXCEPT !.fraction = Append(amount.fraction, c)]
      BY <2>3 DEF TypeFraction
    <3>. DEFINE text == Append(amount.fraction, c)
    <3>. HIDE DEF text
    <3>3. amount' = [amount EXCEPT !.fraction = text]
      BY <3>2 DEF text
    <3>4. text \in Seq(Character)
      BY <3>1 DEF text
    <3>. QED
      BY <2>1, <2>3, <3>3, <3>4 DEF TypeFraction, TextInv, Written
  <2>4. CASE TypeDot
    BY <2>1, <2>4 DEF TypeDot, TextInv, Written
  <2>5. CASE UNCHANGED amount
    BY <2>5 DEF TextInv
  <2>. QED
    BY <2>2, <2>3, <2>4, <2>5 DEF Type
<1>. QED
  BY <1>1, <1>2, PTL DEF TextSpec

\* For every base, number of places and width, and texts of every length:
\* microUSDC (cmd/mcp-gateway/main.go:293) returns the number written, if it
\* is well written, positive and fits, and refuses every other text.
THEOREM ParsesExactlyAlways == TextSpec => []ParsesExactly
<1>1. TextInv => ParsesExactly
  BY MicroIsExact DEF TextInv, ParsesExactly
<1>. QED
  BY TextTyping, <1>1, PTL

-----------------------------------------------------------------------------
(* Keys and the texts that write them.                                     *)

\* The radix of bytes, the length of a key and the powers in between.
LEMMA BytesType ==
    /\ ByteRadix \in Nat \ {0, 1} /\ ByteRadix \in Nat \ {0} /\ ByteRadix \in Int
    /\ KeyBytes \in Nat
    /\ \A m \in Nat : Exp(ByteRadix, m) \in Nat \ {0}
<1>1. ByteRadix \in Nat \ {0, 1} /\ ByteRadix \in Nat \ {0} /\ ByteRadix \in Int /\ KeyBytes \in Nat
  BY Base58Assumption
<1>. QED
  BY <1>1, ExpPositive

\* The length of what big.Int.Bytes returns.
LEMMA ByteLengthFits ==
    ASSUME NEW n \in Nat, NEW k \in Nat
    PROVE  ByteLength(n) \in Nat /\ (ByteLength(n) <= k <=> n < Exp(ByteRadix, k))
<1>. DEFINE Fits(l) == n < Exp(ByteRadix, l) /\ \A j \in 0..(l - 1) : n >= Exp(ByteRadix, j)
            L == {l \in Nat : n < Exp(ByteRadix, l)}
            b == ByteLength(n)
<1>1. n \in L
  BY BytesType, ExpGrows
<1>2. PICK x \in L : \A y \in L : x <= y
  BY <1>1, LeastNumber, L \in SUBSET Nat
<1>3. x \in 0..n /\ Fits(x)
  <2>1. x \in 0..n
    BY <1>1, <1>2
  <2>2. ASSUME NEW j \in 0..(x - 1) PROVE n >= Exp(ByteRadix, j)
    <3>1. j \notin L /\ j \in Nat
      BY <1>2
    <3>. QED
      BY <3>1, BytesType
  <2>. QED
    BY <1>2, <2>1, <2>2
<1>4. b = CHOOSE l \in 0..n : Fits(l)
  BY Zenon DEF ByteLength
<1>. HIDE DEF Fits, b
<1>5. b \in 0..n /\ Fits(b)
  BY <1>3, <1>4, Zenon
<1>6. b <= k => n < Exp(ByteRadix, k)
  <2>1. b <= k => Exp(ByteRadix, b) <= Exp(ByteRadix, k)
    BY <1>5, BytesType, ExpGrows, b \in Nat
  <2>2. Exp(ByteRadix, b) \in Nat /\ Exp(ByteRadix, k) \in Nat
    BY <1>5, BytesType
  <2>. QED
    BY <1>5, <2>1, <2>2 DEF Fits
<1>7. k < b => n >= Exp(ByteRadix, k)
  BY <1>5 DEF Fits
<1>8. Exp(ByteRadix, k) \in Nat
  BY BytesType
<1>9. b \in Nat /\ (b <= k <=> n < Exp(ByteRadix, k))
  BY <1>5, <1>6, <1>7, <1>8
<1>. QED
  BY <1>9 DEF b

\* Digits in order are a sequence of numbers.
LEMMA DigitsAreSequence ==
    ASSUME NEW B \in Nat \ {0, 1}, NEW K \in Nat, NEW s \in [1..K -> 0..(B - 1)]
    PROVE  s \in Seq(Int) /\ Len(s) = K /\ \A i \in 1..K : s[i] \in 0..(B - 1)
<1>1. s \in [1..K -> Int] /\ \A i \in 1..K : s[i] \in 0..(B - 1)
  OBVIOUS
<1>2. s \in Seq(Int)
  BY <1>1, SeqDef
<1>3. Len(s) = K
  <2>1. 1..Len(s) = 1..K /\ Len(s) \in Nat
    BY <1>1, <1>2
  <2>. QED
    BY <2>1
<1>. QED
  BY <1>1, <1>2, <1>3

\* The digits of a number are its quotients modulo the radix; the zeros it
\* is written with are the quotients that vanish.
LEMMA DigitsOfValue ==
    ASSUME NEW B \in Nat \ {0, 1}, NEW K \in Nat, NEW s \in [1..K -> 0..(B - 1)],
           NEW n, n = ValueOf(s, B)
    PROVE  /\ n \in Nat /\ n < Exp(B, K)
           /\ \A i \in 1..K : s[i] = (n \div Exp(B, K - i)) % B
           /\ \A i \in 0..K :
                 (\A j \in 1..i : s[j] = 0) <=> n < Exp(B, K - i)
<1>1. /\ B \in Nat \ {0, 1} /\ B \in Nat \ {0} /\ B \in Int /\ K \in Nat
      /\ \A m \in Nat : Exp(B, m) \in Nat \ {0} /\ Exp(B, m + 1) = Exp(B, m) * B
      /\ Exp(B, 0) = 1
  <2>1. B \in Nat \ {0} /\ B \in Int
    OBVIOUS
  <2>. QED
    BY <2>1, ExpPositive, ExpStep
<1>2. s \in Seq(Int) /\ Len(s) = K /\ \A i \in 1..K : s[i] \in 0..(B - 1)
  BY DigitsAreSequence
<1>3. PICK v \in [0..K -> Int] :
          v[0] = 0 /\ (\A i \in 1..K : v[i] = v[i - 1] * B + s[i]) /\ n = v[K]
  <2>1. \E v \in [0..Len(s) -> Int] :
          /\ v[0] = 0 /\ (\A i \in 1..Len(s) : v[i] = v[i - 1] * B + s[i])
          /\ ValueOf(s, B) = v[Len(s)]
    BY <1>1, <1>2, ValueTable, Zenon
  <2>. QED
    BY <1>2, <2>1
<1>4. \A i \in 0..K : v[i] \in Nat
  <2>. DEFINE T == {i \in Nat : i <= K => v[i] \in Nat}
  <2>1. 0 \in T
    BY <1>3
  <2>2. ASSUME NEW i \in Nat, i \in T PROVE i + 1 \in T
    <3>. SUFFICES ASSUME i + 1 <= K PROVE v[i + 1] \in Nat
      OBVIOUS
    <3>. DEFINE a == v[i]
                d == s[i + 1]
    <3>1. i + 1 \in 1..K /\ (i + 1) - 1 = i /\ a \in Nat
      BY <1>1, <2>2
    <3>2. v[i + 1] = a * B + d /\ d \in Nat
      BY <1>2, <1>3, <3>1
    <3>. HIDE DEF a, d
    <3>3. a * B \in Nat
      BY <1>1, <3>1
    <3>. QED
      BY <3>2, <3>3
  <2>. HIDE DEF T
  <2>3. \A i \in Nat : i \in T
    BY <2>1, <2>2, SetInduction
  <2>. SUFFICES ASSUME NEW i \in 0..K PROVE v[i] \in Nat
    OBVIOUS
  <2>4. i \in T /\ i <= K
    BY <1>1, <2>3
  <2>. QED
    BY <2>4 DEF T
<1>5. \A i \in 1..K : v[i - 1] = v[i] \div B /\ s[i] = v[i] % B
  <2>. SUFFICES ASSUME NEW i \in 1..K PROVE v[i - 1] = v[i] \div B /\ s[i] = v[i] % B
    OBVIOUS
  <2>. DEFINE a == v[i - 1]
              d == s[i]
  <2>1. a \in Int /\ d \in 0..(B - 1) /\ v[i] = a * B + d
    BY <1>1, <1>2, <1>3, i - 1 \in 0..K
  <2>. HIDE DEF a, d
  <2>2. (a * B + d) \div B = a /\ (a * B + d) % B = d
    BY <1>1, <2>1, DivUnique, ModUnique
  <2>. QED
    BY <2>1, <2>2 DEF a, d
<1>6. \A m \in 0..K : v[K - m] = n \div Exp(B, m)
  <2>. DEFINE T == {m \in Nat : m <= K => v[K - m] = n \div Exp(B, m)}
  <2>0. n \in Nat
    BY <1>1, <1>3, <1>4, K \in 0..K
  <2>1. 0 \in T
    <3>1. n \div 1 = n /\ K - 0 = K
      BY <1>1, <2>0
    <3>. QED
      BY <1>1, <1>3, <3>1
  <2>2. ASSUME NEW m \in Nat, m \in T PROVE m + 1 \in T
    <3>. SUFFICES ASSUME m + 1 <= K PROVE v[K - (m + 1)] = n \div Exp(B, m + 1)
      OBVIOUS
    <3>1. v[K - m] = n \div Exp(B, m)
      BY <1>1, <2>2
    <3>2. K - m \in 1..K /\ (K - m) - 1 = K - (m + 1)
      BY <1>1
    <3>3. v[K - (m + 1)] = v[K - m] \div B
      BY <1>5, <3>2
    <3>. DEFINE x == Exp(B, m)
    <3>4. x \in Nat \ {0} /\ Exp(B, m + 1) = x * B
      BY <1>1
    <3>. HIDE DEF x
    <3>5. n \div (x * B) = (n \div x) \div B
      BY <1>1, <2>0, <3>4, DivOfDiv
    <3>. QED
      BY <3>1, <3>3, <3>4, <3>5 DEF x
  <2>. HIDE DEF T
  <2>3. \A m \in Nat : m \in T
    BY <2>1, <2>2, SetInduction
  <2>. QED
    BY <2>3, <1>1 DEF T
<1>7. \A i \in 0..K : v[i] = n \div Exp(B, K - i)
  <2>. SUFFICES ASSUME NEW i \in 0..K PROVE v[i] = n \div Exp(B, K - i)
    OBVIOUS
  <2>1. K - i \in 0..K /\ K - (K - i) = i
    BY <1>1
  <2>. QED
    BY <1>6, <2>1
<1>8. \A i \in 0..K : (\A j \in 1..i : s[j] = 0) <=> v[i] = 0
  <2>. DEFINE T == {i \in Nat : i <= K => ((\A j \in 1..i : s[j] = 0) <=> v[i] = 0)}
  <2>1. 0 \in T
    BY <1>3
  <2>2. ASSUME NEW i \in Nat, i \in T PROVE i + 1 \in T
    <3>. SUFFICES ASSUME i + 1 <= K PROVE (\A j \in 1..(i + 1) : s[j] = 0) <=> v[i + 1] = 0
      OBVIOUS
    <3>. DEFINE a == v[i]
                d == s[i + 1]
    <3>1. i + 1 \in 1..K /\ (i + 1) - 1 = i /\ i \in 0..K
      BY <1>1
    <3>2. a \in Nat /\ d \in Nat /\ v[i + 1] = a * B + d
      BY <1>2, <1>3, <1>4, <3>1
    <3>3. (\A j \in 1..i : s[j] = 0) <=> a = 0
      BY <1>1, <2>2
    <3>4. (\A j \in 1..(i + 1) : s[j] = 0) <=> (\A j \in 1..i : s[j] = 0) /\ d = 0
      <4>1. \A j : j \in 1..(i + 1) <=> j \in 1..i \/ j = i + 1
        OBVIOUS
      <4>. QED
        BY <4>1
    <3>. HIDE DEF a, d
    <3>5. a * B + d = 0 <=> a = 0 /\ d = 0
      <4>0. B \in Nat \ {0} /\ 1 * B = B /\ 0 * B = 0
        BY <1>1
      <4>1. a >= 1 => 1 * B <= a * B
        <5>. SUFFICES ASSUME 1 <= a PROVE 1 * B <= a * B
          BY <3>2
        <5>1. 1 \in Int /\ a \in Int /\ B \in Nat
          BY <3>2, <4>0
        <5>. QED
          BY <5>1, ScaleMonotone, Zenon
      <4>. DEFINE w == a * B
      <4>2. w \in Nat /\ (a = 0 => w = 0) /\ (a >= 1 => w >= 1)
        <5>. DEFINE c == 1 * B
        <5>1. c \in Nat /\ c >= 1 /\ 0 * B = 0
          BY <4>0
        <5>2. w \in Nat
          BY <3>2, <4>0
        <5>3. a = 0 => w = 0
          BY <5>1
        <5>4. a >= 1 => c <= w
          BY <4>1
        <5>. HIDE DEF c, w
        <5>. QED
          BY <5>1, <5>2, <5>3, <5>4
      <4>. HIDE DEF w
      <4>3. w + d = 0 <=> a = 0 /\ d = 0
        BY <3>2, <4>2
      <4>. QED
        BY <4>3 DEF w
    <3>. QED
      BY <3>2, <3>3, <3>4, <3>5
  <2>. HIDE DEF T
  <2>3. \A i \in Nat : i \in T
    BY <2>1, <2>2, SetInduction
  <2>. SUFFICES ASSUME NEW i \in 0..K PROVE (\A j \in 1..i : s[j] = 0) <=> v[i] = 0
    OBVIOUS
  <2>4. i \in T /\ i <= K
    BY <1>1, <2>3
  <2>. QED
    BY <2>4 DEF T
<1>9. n \in Nat
  BY <1>1, <1>3, <1>4, K \in 0..K
<1>10. \A i \in 0..K : v[i] = 0 <=> n < Exp(B, K - i)
  <2>. SUFFICES ASSUME NEW i \in 0..K PROVE v[i] = 0 <=> n < Exp(B, K - i)
    OBVIOUS
  <2>1. Exp(B, K - i) \in Nat \ {0}
    BY <1>1, K - i \in Nat
  <2>. QED
    BY <1>7, <1>9, <2>1, DivOfSmall
<1>11. n < Exp(B, K)
  BY <1>1, <1>3, <1>10, 0 \in 0..K, K - 0 = K
<1>12. \A i \in 1..K : s[i] = (n \div Exp(B, K - i)) % B
  BY <1>1, <1>5, <1>7
<1>. QED
  BY <1>8, <1>9, <1>10, <1>11, <1>12

\* The digits of a number, the most significant first.
DigitsOf(n, B, K) == [i \in 1..K |-> (n \div Exp(B, K - i)) % B]

\* Any number that fits is the number of its digits.
LEMMA ValueOfDigits ==
    ASSUME NEW B \in Nat \ {0, 1}, NEW K \in Nat, NEW n \in Nat, n < Exp(B, K)
    PROVE  DigitsOf(n, B, K) \in [1..K -> 0..(B - 1)] /\ ValueOf(DigitsOf(n, B, K), B) = n
<1>. DEFINE s == DigitsOf(n, B, K)
<1>1. /\ B \in Nat \ {0} /\ B \in Int /\ K \in Nat
      /\ \A m \in Nat : Exp(B, m) \in Nat \ {0} /\ Exp(B, m + 1) = Exp(B, m) * B
      /\ Exp(B, 0) = 1
  <2>1. B \in Nat \ {0} /\ B \in Int
    OBVIOUS
  <2>. QED
    BY <2>1, ExpPositive, ExpStep
<1>2. \A i \in 1..K : n \div Exp(B, K - i) \in Nat
  <2>. SUFFICES ASSUME NEW i \in 1..K PROVE n \div Exp(B, K - i) \in Nat
    OBVIOUS
  <2>1. Exp(B, K - i) \in Nat \ {0}
    BY <1>1, K - i \in Nat
  <2>. QED
    BY <2>1
<1>3. s = [i \in 1..K |-> (n \div Exp(B, K - i)) % B]
  BY DEF DigitsOf
<1>. HIDE DEF s
<1>4. s \in [1..K -> 0..(B - 1)]
  <2>1. \A q \in Nat : q % B \in 0..(B - 1)
    <3>1. B \in Nat \ {0}
      BY <1>1
    <3>. QED
      BY <3>1
  <2>2. \A i \in 1..K : (n \div Exp(B, K - i)) % B \in 0..(B - 1)
    BY <1>2, <2>1, Zenon
  <2>. QED
    BY <1>3, <2>2, Zenon
<1>5. s \in Seq(Int) /\ Len(s) = K
  BY <1>4, DigitsAreSequence
<1>6. PICK v \in [0..K -> Int] :
          /\ v[0] = 0 /\ (\A i \in 1..K : v[i] = v[i - 1] * B + s[i])
          /\ ValueOf(s, B) = v[K]
  <2>1. \E v \in [0..Len(s) -> Int] :
          /\ v[0] = 0 /\ (\A i \in 1..Len(s) : v[i] = v[i - 1] * B + s[i])
          /\ ValueOf(s, B) = v[Len(s)]
    BY <1>1, <1>5, ValueTable, Zenon
  <2>. QED
    BY <1>5, <2>1
<1>. DEFINE T == {i \in Nat : i <= K => v[i] = n \div Exp(B, K - i)}
<1>7. 0 \in T
  <2>1. n \div Exp(B, K) = 0
    BY <1>1, DivOfSmall
  <2>. QED
    BY <1>1, <1>6, <2>1, K - 0 = K
<1>8. ASSUME NEW i \in Nat, i \in T PROVE i + 1 \in T
  <2>. SUFFICES ASSUME i + 1 <= K PROVE v[i + 1] = n \div Exp(B, K - (i + 1))
    OBVIOUS
  <2>. DEFINE x == Exp(B, K - (i + 1))
              q == n \div x
  <2>1. i + 1 \in 1..K /\ (i + 1) - 1 = i /\ K - (i + 1) \in Nat /\ K - (i + 1) + 1 = K - i
    BY <1>1
  <2>2. x \in Nat \ {0} /\ Exp(B, K - i) = x * B
    BY <1>1, <2>1
  <2>3. v[i] = n \div (x * B)
    BY <1>1, <1>8, <2>2
  <2>4. v[i + 1] = v[i] * B + (q % B)
    <3>1. s[i + 1] = (n \div Exp(B, K - (i + 1))) % B
      BY <1>3, <2>1
    <3>. QED
      BY <1>6, <2>1, <3>1
  <2>. HIDE DEF x
  <2>5. B \in Nat \ {0} /\ x \in Nat \ {0} /\ q \in Nat /\ n \div (x * B) = q \div B
    <3>1. x \in Nat \ {0} /\ B \in Nat \ {0}
      BY <1>1, <2>2
    <3>2. n \div (x * B) = (n \div x) \div B
      <4>1. \A m \in Nat : m \div (x * B) = (m \div x) \div B
        BY <3>1, DivOfDiv
      <4>. QED
        BY <4>1
    <3>3. q \in Nat
      BY <3>1
    <3>. QED
      BY <3>1, <3>2, <3>3, Zenon
  <2>. HIDE DEF q
  <2>6. q = (q \div B) * B + (q % B)
    BY <2>5
  <2>7. v[i + 1] = q
    BY <2>3, <2>4, <2>5, <2>6
  <2>. QED
    BY <2>7 DEF q, x
<1>. HIDE DEF T
<1>9. K \in T
  BY <1>1, <1>7, <1>8, SetInduction
<1>10. v[K] = n
  <2>1. n \div 1 = n /\ K - K = 0
    BY <1>1
  <2>. QED
    BY <1>1, <1>9, <2>1 DEF T
<1>. QED
  BY <1>4, <1>6, <1>10 DEF s

\* The zeros that digits begin with are those the number does not need.
LEMMA LeadingOfDigits ==
    ASSUME NEW B \in Nat \ {0, 1}, NEW K \in Nat, NEW s \in [1..K -> 0..(B - 1)],
           NEW b \in 0..K, \A k \in 0..K : b <= k <=> ValueOf(s, B) < Exp(B, k)
    PROVE  Leading(s) = K - b
<1>. DEFINE n == ValueOf(s, B)
            l == K - b
            Zeros(i) == \A j \in 1..i : s[j] = 0
            Ends(i) == Zeros(i) /\ (i < Len(s) => s[i + 1] # 0)
<1>1. Len(s) = K
  BY DigitsAreSequence
<1>2. \A k \in 0..K : b <= k <=> n < Exp(B, k)
  OBVIOUS
<1>3. \A i \in 0..K : Zeros(i) <=> i <= l
  <2>. SUFFICES ASSUME NEW i \in 0..K PROVE Zeros(i) <=> i <= l
    OBVIOUS
  <2>1. Zeros(i) <=> n < Exp(B, K - i)
    BY DigitsOfValue
  <2>2. b <= K - i <=> n < Exp(B, K - i)
    BY <1>2, K - i \in 0..K
  <2>. HIDE DEF Zeros
  <2>3. b <= K - i <=> i <= l
    OBVIOUS
  <2>. QED
    BY <2>1, <2>2, <2>3
<1>4. Leading(s) = CHOOSE i \in 0..K : Ends(i)
  BY <1>1 DEF Leading
<1>5. l \in 0..K
  OBVIOUS
<1>. HIDE DEF l, n
<1>6. \A i \in 0..K : i < K => (Zeros(i + 1) <=> Zeros(i) /\ s[i + 1] = 0)
  <2>. SUFFICES ASSUME NEW i \in 0..K PROVE Zeros(i + 1) <=> Zeros(i) /\ s[i + 1] = 0
    OBVIOUS
  <2>1. \A j : j \in 1..(i + 1) <=> j \in 1..i \/ j = i + 1
    OBVIOUS
  <2>. QED
    BY <2>1
<1>. HIDE DEF Zeros
<1>7. \A i \in 0..K : Ends(i) <=> i = l
  <2>. SUFFICES ASSUME NEW i \in 0..K PROVE Ends(i) <=> i = l
    OBVIOUS
  <2>1. i < K => i + 1 \in 0..K
    OBVIOUS
  <2>2. Ends(i) <=> i <= l /\ (i < K => ~(i + 1 <= l))
    BY <1>1, <1>3, <1>6, <2>1
  <2>. HIDE DEF Ends
  <2>. QED
    BY <1>5, <2>2
<1>. HIDE DEF Ends
<1>8. (CHOOSE i \in 0..K : Ends(i)) = l
  BY <1>5, <1>7
<1>. QED
  BY <1>4, <1>8 DEF l

\* A key's number has the key's bytes for digits, and as many of them as
\* big.Int.Bytes returns.
LEMMA NumberOfKey ==
    ASSUME NEW key \in Key, NEW n, n = ValueOf(key, ByteRadix)
    PROVE  /\ n \in Nat /\ RightAligned(n) = key
           /\ ByteLength(n) \in 0..KeyBytes /\ Leading(key) = KeyBytes - ByteLength(n)
<1>1. key \in [1..KeyBytes -> 0..(ByteRadix - 1)] /\ ByteRadix \in Nat \ {0, 1} /\ KeyBytes \in Nat
  BY BytesType DEF Key
<1>2. /\ n \in Nat /\ n < Exp(ByteRadix, KeyBytes)
      /\ \A i \in 1..KeyBytes : key[i] = (n \div Exp(ByteRadix, KeyBytes - i)) % ByteRadix
  BY <1>1, DigitsOfValue
<1>3. RightAligned(n) = key
  BY <1>1, <1>2 DEF RightAligned
<1>. DEFINE b == ByteLength(n)
<1>4. \A k \in Nat : b \in Nat /\ (b <= k <=> n < Exp(ByteRadix, k))
  BY <1>2, ByteLengthFits
<1>. HIDE DEF b
<1>5. b \in 0..KeyBytes
  BY <1>1, <1>2, <1>4
<1>6. Leading(key) = KeyBytes - b
  <2>1. \A k \in 0..KeyBytes : b <= k <=> ValueOf(key, ByteRadix) < Exp(ByteRadix, k)
    BY <1>1, <1>4
  <2>. QED
    BY <1>1, <1>5, <2>1, LeadingOfDigits
<1>. QED
  BY <1>2, <1>3, <1>5, <1>6 DEF b

\* Any number that fits is the number of the bytes DecodePubkey makes of it.
LEMMA RightAlignedValue ==
    ASSUME NEW n \in Nat, n < Exp(ByteRadix, KeyBytes)
    PROVE  RightAligned(n) \in Key /\ ValueOf(RightAligned(n), ByteRadix) = n
<1>. DEFINE key == RightAligned(n)
<1>1. key = DigitsOf(n, ByteRadix, KeyBytes)
  BY DEF RightAligned, DigitsOf
<1>. HIDE DEF key
<1>2. key \in [1..KeyBytes -> 0..(ByteRadix - 1)] /\ ValueOf(key, ByteRadix) = n
  <2>1. ByteRadix \in Nat \ {0, 1} /\ KeyBytes \in Nat
    BY BytesType
  <2>. QED
    BY <1>1, <2>1, ValueOfDigits, Zenon
<1>. QED
  BY <1>2 DEF Key, key

\* DecodePubkey on every text of symbols.
LEMMA DecodesToEvery ==
    ASSUME NEW text \in Seq(Int)
    PROVE  DecodesTo(text)
<1>. DEFINE n == ValueOf(text, Radix)
            Symbols == \A i \in DOMAIN text : text[i] \in Symbol
<1>1. Radix \in Nat \ {0} /\ KeyBytes \in Nat
  BY Base58Assumption
<1>2. Symbols => n \in Nat
  <2>1. DOMAIN text = 1..Len(text)
    OBVIOUS
  <2>2. Symbols => \A i \in 1..Len(text) : text[i] \in 0..(Radix - 1)
    BY <2>1 DEF Symbol
  <2>3. Symbols => n \in 0..(Exp(Radix, Len(text)) - 1)
    BY <1>1, <2>2, ValueIsSmall
  <2>. QED
    BY <2>3
<1>3. DecodePubkey(text) =
         {key \in {RightAligned(n)} :
             /\ Symbols /\ ByteLength(n) <= KeyBytes
             /\ Leading(text) <= KeyBytes - ByteLength(n)}
  BY DEF DecodePubkey
<1>. HIDE DEF n
<1>4. ASSUME NEW key \in Key, Encodes(text, key) PROVE DecodePubkey(text) = {key}
  <2>1. Symbols /\ Leading(text) = Leading(key) /\ n = ValueOf(key, ByteRadix)
    BY <1>4 DEF Encodes, n
  <2>2. ByteLength(n) \in 0..KeyBytes /\ Leading(text) = KeyBytes - ByteLength(n)
    BY <2>1, NumberOfKey
  <2>3. RightAligned(n) = key
    BY <2>1, NumberOfKey
  <2>4. ByteLength(n) <= KeyBytes /\ Leading(text) <= KeyBytes - ByteLength(n)
    BY <1>1, <2>2
  <2>. QED
    BY <1>3, <2>1, <2>3, <2>4
<1>5. ASSUME NEW key \in DecodePubkey(text)
      PROVE  /\ key \in Key /\ ValueOf(key, ByteRadix) = n
             /\ Leading(text) <= Leading(key)
  <2>1. /\ key = RightAligned(n) /\ n \in Nat
        /\ ByteLength(n) <= KeyBytes /\ Leading(text) <= KeyBytes - ByteLength(n)
    BY <1>2, <1>3, <1>5
  <2>2. n < Exp(ByteRadix, KeyBytes)
    BY <1>1, <2>1, ByteLengthFits
  <2>3. key \in Key /\ ValueOf(key, ByteRadix) = n
    BY <2>1, <2>2, RightAlignedValue
  <2>4. Leading(key) = KeyBytes - ByteLength(n)
    BY <2>3, NumberOfKey
  <2>. QED
    BY <2>1, <2>3, <2>4
<1>. QED
  BY <1>4, <1>5 DEF DecodesTo, n

\* Every key has a text that encodes it, its leading zeros and the least
\* digits of its number, and gate.EncodeBase58's text of any account comes back
\* from DecodePubkey (escrow/programs.go:74) as that account.
THEOREM EveryKeyHasAText ==
    ASSUME NEW key \in Key
    PROVE  \E text \in Seq(Symbol) : Encodes(text, key) /\ DecodePubkey(text) = {key}
<1>. DEFINE n == ValueOf(key, ByteRadix)
            z == Leading(key)
            Fits == {m \in Nat : n < Exp(Radix, m)}
<1>1. Radix \in Nat \ {0, 1} /\ Radix \in Nat \ {0} /\ KeyBytes \in Nat
  BY Base58Assumption
<1>2. n \in Nat /\ z \in Nat
  BY <1>1, NumberOfKey
<1>. HIDE DEF n, z
<1>3. PICK l \in Fits : \A m \in Fits : l <= m
  <2>1. n \in Fits
    BY <1>1, <1>2, ExpGrows
  <2>. QED
    BY <2>1, LeastNumber, Fits \in SUBSET Nat
<1>4. l \in Nat /\ n < Exp(Radix, l)
  BY <1>3
<1>5. \A m \in Nat : l <= m <=> n < Exp(Radix, m)
  <2>. SUFFICES ASSUME NEW m \in Nat PROVE l <= m <=> n < Exp(Radix, m)
    OBVIOUS
  <2>1. Exp(Radix, m) \in Nat /\ Exp(Radix, l) \in Nat
    BY <1>1, <1>4, ExpPositive
  <2>2. l <= m => Exp(Radix, l) <= Exp(Radix, m)
    BY <1>1, <1>4, ExpGrows
  <2>3. n < Exp(Radix, m) => l <= m
    BY <1>3
  <2>. QED
    BY <1>2, <1>4, <2>1, <2>2, <2>3
<1>. HIDE DEF Fits
<1>. DEFINE T == z + l
            text == DigitsOf(n, Radix, T)
<1>6. T \in Nat /\ l \in 0..T /\ T - l = z
  BY <1>2, <1>4
<1>7. n < Exp(Radix, T)
  BY <1>5, <1>6
<1>. HIDE DEF T
<1>8. text \in [1..T -> 0..(Radix - 1)] /\ ValueOf(text, Radix) = n
  BY <1>1, <1>2, <1>6, <1>7, ValueOfDigits, Zenon
<1>. HIDE DEF text
<1>9. text \in Seq(Symbol) /\ text \in Seq(Int)
  <2>1. text \in [1..T -> Symbol]
    BY <1>8 DEF Symbol
  <2>. QED
    BY <1>1, <1>6, <1>8, <2>1, SeqDef, DigitsAreSequence
<1>10. Leading(text) = z
  <2>1. \A k \in 0..T : l <= k <=> ValueOf(text, Radix) < Exp(Radix, k)
    BY <1>5, <1>6, <1>8
  <2>2. Leading(text) = T - l
    BY <1>1, <1>6, <1>8, <2>1, LeadingOfDigits
  <2>. QED
    BY <1>6, <2>2
<1>11. Encodes(text, key)
  <2>1. \A i \in DOMAIN text : text[i] \in Symbol
    BY <1>8 DEF Symbol
  <2>. QED
    BY <1>8, <1>10, <2>1 DEF Encodes, n, z
<1>12. DecodePubkey(text) = {key}
  <2>1. DecodesTo(text)
    BY <1>9, DecodesToEvery
  <2>. QED
    BY <1>11, <2>1 DEF DecodesTo
<1>. QED
  BY <1>9, <1>11, <1>12

\* For every radix and number of bytes, and texts of every length: what
\* DecodePubkey (escrow/programs.go:74) accepts is the key written, and it
\* refuses the text of no key.
THEOREM DecodesExactlyAlways == TextSpec => []DecodesExactly
<1>1. TextInv => DecodesExactly
  <2>. SUFFICES ASSUME TextInv PROVE DecodesTo(amount.whole)
    BY DEF DecodesExactly
  <2>1. amount.whole \in Seq(Character)
    BY DEF TextInv, Written
  <2>. QED
    BY <2>1, DigitsAreIntegers, DecodesToEvery
<1>. QED
  BY TextTyping, <1>1, PTL

-----------------------------------------------------------------------------
(* Attestations.                                                           *)

\* The remainder is the only number in its range that differs by a multiple.
LEMMA RemainderIsUnique ==
    ASSUME NEW m \in Int, NEW q \in Int, NEW s \in Nat \ {0}, m - q * s \in 0..(s - 1)
    PROVE  m % s = m - q * s
<1>. DEFINE r == m - q * s
<1>1. m = q * s + r
  OBVIOUS
<1>. HIDE DEF r
<1>2. (q * s + r) % s = r
  BY ModUnique DEF r
<1>. QED
  BY <1>1, <1>2 DEF r

\* What a sum or difference that leaves the range by less than one turn
\* becomes.
LEMMA AsInt64Cases ==
    ASSUME NEW n \in (-(2 * Half))..(2 * Half)
    PROVE  /\ n \in Int64 => AsInt64(n) = n
           /\ n >= Half => AsInt64(n) = n - 2 * Half
           /\ n < -Half => AsInt64(n) = n + 2 * Half
<1>. USE AttestAssumption
<1>. DEFINE turn == 2 * Half
<1>1. turn \in Nat \ {0} /\ n \in Int /\ Half \in Int
  OBVIOUS
<1>2. n \in Int64 => (n + Half) % turn = n + Half
  <2>1. n \in Int64 => (n + Half) - 0 * turn \in 0..(turn - 1)
    BY <1>1 DEF Int64
  <2>. QED
    BY <1>1, <2>1, RemainderIsUnique
<1>3. n >= Half => (n + Half) % turn = n + Half - turn
  <2>1. n >= Half => (n + Half) - 1 * turn \in 0..(turn - 1)
    BY <1>1
  <2>. QED
    BY <1>1, <2>1, RemainderIsUnique
<1>4. n < -Half => (n + Half) % turn = n + Half + turn
  <2>1. n < -Half => (n + Half) - (-1) * turn \in 0..(turn - 1)
    BY <1>1
  <2>. QED
    BY <1>1, <2>1, RemainderIsUnique
<1>. QED
  BY <1>1, <1>2, <1>3, <1>4 DEF AsInt64

\* An issue time survives its encoding as eight unsigned bytes.
LEMMA RoundTrip ==
    ASSUME NEW i \in Int64
    PROVE  ToInt64(ToUint64(i)) = i
<1>. USE AttestAssumption
<1>1. CASE i >= 0
  BY <1>1 DEF ToInt64, ToUint64, Int64
<1>2. CASE i < 0
  <2>1. i % (2 * Half) = i + 2 * Half
    BY <1>2 DEF Int64
  <2>. QED
    BY <1>2, <2>1 DEF ToInt64, ToUint64, Int64
<1>. QED
  BY <1>1, <1>2 DEF Int64

\* CheckFreshness on a sane clock, for every issue time.
LEMMA CheckIsExact ==
    ASSUME NEW i \in Int64, NEW t \in (MaxTokenAgeSecs - Half)..(Half - 1 - MaxClockSkewSecs)
    PROVE  CheckFreshness(i, t) = "fresh" <=> t - i \in (-MaxClockSkewSecs)..MaxTokenAgeSecs
<1>. USE AttestAssumption
<1>. DEFINE age == t - i
            wrapped == AsInt64(age)
<1>1. /\ age \in Int /\ Half \in Nat \ {0}
      /\ age \in (-(2 * Half))..(2 * Half)
      /\ age < 2 * Half - MaxClockSkewSecs
      /\ age > MaxTokenAgeSecs - 2 * Half
  BY DEF Int64
<1>2. wrapped \in (-MaxClockSkewSecs)..MaxTokenAgeSecs <=> age \in (-MaxClockSkewSecs)..MaxTokenAgeSecs
  <2>1. CASE age \in Int64
    BY <1>1, <2>1, AsInt64Cases
  <2>2. CASE age >= Half
    <3>1. wrapped = age - 2 * Half
      BY <1>1, <2>2, AsInt64Cases
    <3>. QED
      BY <1>1, <2>2, <3>1
  <2>3. CASE age < -Half
    <3>1. wrapped = age + 2 * Half
      BY <1>1, <2>3, AsInt64Cases
    <3>. QED
      BY <1>1, <2>3, <3>1
  <2>. QED
    BY <1>1, <2>1, <2>2, <2>3 DEF Int64
<1>3. wrapped \in Int
  BY <1>1 DEF AsInt64
<1>4. CheckFreshness(i, t) = "fresh" <=> wrapped \in (-MaxClockSkewSecs)..MaxTokenAgeSecs
  BY <1>3 DEF CheckFreshness
<1>. QED
  BY <1>2, <1>4

AttestInv ==
    /\ iat \in Int64 /\ now \in Int64
    /\ message \in Messages(iat)
    /\ ix \in Ed25519Instruction

\* The clock, the attestation and the instruction keep their types.
LEMMA AttestTyping == AttestSpec => []AttestInv
<1>1. AttestInit => AttestInv
  BY DEF AttestInit, AttestInv
<1>2. AttestInv /\ [Tick]_attestVars => AttestInv'
  BY AttestAssumption DEF AttestInv, Tick, attestVars, Int64
<1>. QED
  BY <1>1, <1>2, PTL DEF AttestSpec

\* The freshness test of a typed state, from the two cases of the wrap.
LEMMA FreshnessFollows == AttestInv => FreshnessIsExact
<1>. SUFFICES ASSUME AttestInv, ClockIsSane PROVE FreshnessIsExact
  BY DEF FreshnessIsExact
<1>. USE AttestAssumption
<1>1. /\ iat \in Int64
      /\ now \in (MaxTokenAgeSecs - Half)..(Half - 1 - MaxClockSkewSecs)
  BY DEF AttestInv, ClockIsSane
<1>2. message.iat = ToUint64(iat)
  BY DEF AttestInv, Messages, Marshal
<1>3. ASSUME NEW a \in ParseAttestation(message)
      PROVE  /\ a = [binding |-> message.binding, iat |-> iat]
             /\ CheckFreshness(a.iat, now) = "fresh"
                   <=> now - iat \in (-MaxClockSkewSecs)..MaxTokenAgeSecs
  <2>1. a = [binding |-> message.binding, iat |-> iat]
    BY <1>1, <1>2, <1>3, RoundTrip DEF ParseAttestation
  <2>. QED
    BY <1>1, <2>1, CheckIsExact
<1>4. ASSUME iat + MaxTokenAgeSecs < Half
      PROVE  /\ CheckFreshness(iat, now) = "fresh" => now <= FreshnessDeadline(iat)
             /\ now \in iat..FreshnessDeadline(iat) => CheckFreshness(iat, now) = "fresh"
  <2>1. /\ iat + MaxTokenAgeSecs \in (-(2 * Half))..(2 * Half)
        /\ iat + MaxTokenAgeSecs \in Int64
    BY <1>1, <1>4 DEF Int64
  <2>2. FreshnessDeadline(iat) = iat + MaxTokenAgeSecs
    BY <2>1, AsInt64Cases DEF FreshnessDeadline
  <2>. QED
    BY <1>1, <2>2, CheckIsExact DEF Int64
<1>. QED
  BY <1>3, <1>4 DEF FreshnessIsExact

\* For every width and both bounds: as long as the clock keeps away from the
\* ends of its range, the freshness rule (escrow/attest.go:122) decides for
\* every issue time what it would decide without wrapping.
THEOREM FreshnessIsExactAlways == AttestSpec => []FreshnessIsExact
BY AttestTyping, FreshnessFollows, PTL

\* The parser of a typed state, from the layout it insists on.
LEMMA ParserFollows == AttestInv => ParserReadsWhatWasVerified
<1>. SUFFICES ASSUME AttestInv PROVE ParserReadsWhatWasVerified
  OBVIOUS
<1>. USE AttestAssumption
<1>1. ASSUME NEW r \in ParseEd25519(ix)
      PROVE  /\ Verified(ix) = {r}
             /\ r.key.from + r.key.size <= ix.len /\ r.msg.from + r.msg.size <= ix.len
  BY <1>1 DEF AttestInv, Ed25519Instruction, ParseEd25519, Verified, Slice
<1>2. ASSUME NEW n \in 0..(MaxU16 + 1), NEW d \in BuildEd25519(n)
      PROVE  ParseEd25519(d) = {r \in Verified(d) : n = AttestMsgLen}
  <2>1. /\ d.len = HeaderLen + KeyLen + SigLen + n /\ d.count = 1
        /\ d.keyOff = HeaderLen /\ d.keyIx = ixSelf
        /\ d.msgOff = HeaderLen + KeyLen + SigLen /\ d.msgSize = n /\ d.msgIx = ixSelf
    BY <1>2 DEF BuildEd25519
  <2>. QED
    BY <2>1 DEF ParseEd25519, Verified
<1>. QED
  BY <1>1, <1>2 DEF ParserReadsWhatWasVerified

\* For every layout: what ParseEd25519Instruction (escrow/ed25519ix.go:97)
\* extracts is what the runtime verified, and lies inside the instruction.
THEOREM ParserReadsWhatWasVerifiedAlways == AttestSpec => []ParserReadsWhatWasVerified
BY AttestTyping, ParserFollows, PTL

=============================================================================
