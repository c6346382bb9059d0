--------------------------- MODULE IndexingProofs ---------------------------
(***************************************************************************)
(* Theorems about MaskedSelect, for all lengths, selections and devices,   *)
(* about Scatter, for all calls, ranks, shapes and strides, and about      *)
(* PointwiseDynamic, for all calls of any number of threads; and what they *)
(* need of the shapes, strides, offsets and tiles of ShapeUtils.           *)
(***************************************************************************)
EXTENDS MaskedSelect, Scatter, PointwiseDynamic, FiniteSetTheorems, WellFoundedInduction,
        TLAPS

-----------------------------------------------------------------------------
(***************************************************************************)
(* Arithmetic                                                              *)
(***************************************************************************)
LEMMA DivMod ==
  ASSUME NEW a \in Nat, NEW b \in Nat \ {0}
  PROVE  /\ a = (a \div b) * b + (a % b)
         /\ a % b \in 0 .. b - 1
         /\ a \div b \in Nat
OBVIOUS

LEMMA TimesGrows ==
  ASSUME NEW a \in Int, NEW c \in Int, NEW b \in Nat
  PROVE  /\ a <= c => a * b <= c * b
         /\ a < c => a * b + b <= c * b
         /\ (a + 1) * b = a * b + b
OBVIOUS

LEMMA FactorLess ==
  ASSUME NEW a \in Int, NEW c \in Int, NEW b \in Nat, a * b < c * b
  PROVE  a < c
<1>1. c <= a => c * b <= a * b
  BY TimesGrows
<1>2. a * b \in Int /\ c * b \in Int
  OBVIOUS
<1>. QED BY <1>1, <1>2

\* A greater number is in a later block, or in the same one.
LEMMA DivMono ==
  ASSUME NEW a \in Nat, NEW c \in Nat, NEW b \in Nat \ {0}, a <= c
  PROVE  a \div b <= c \div b
<1> DEFINE p == a \div b
           q == c \div b
<1>1. a = p * b + (a % b) /\ a % b \in 0 .. b - 1 /\ p \in Nat
  BY DivMod
<1>2. c = q * b + (c % b) /\ c % b \in 0 .. b - 1 /\ q \in Nat
  BY DivMod
<1> DEFINE r == a % b
           s == c % b
<1> HIDE DEF p, q, r, s
<1>3. p * b \in Nat /\ q * b \in Nat
  BY <1>1, <1>2
<1>4. q < p => q * b + b <= p * b
  BY <1>1, <1>2, TimesGrows
<1>5. ~(q < p)
  BY <1>1, <1>2, <1>3, <1>4 DEF r, s
<1>. QED BY <1>1, <1>2, <1>5 DEF p, q

LEMMA LeastNat ==
  ASSUME NEW T \in SUBSET Nat, T # {}
  PROVE  \E n \in T : \A m \in T : n <= m
<1>1. PICK n \in T : \A m \in T : <<m, n>> \notin OpToRel(<, Nat)
  BY NatLessThanWellFounded, WFMin, Zenon
<1>2. \A m \in T : ~(m < n)
  BY <1>1, Zenon DEF OpToRel
<1>. QED BY <1>2

LEMMA CdivFacts ==
  ASSUME NEW a \in Nat, NEW b \in Nat \ {0}
  PROVE  /\ cdiv(a, b) \in Nat
         /\ a <= cdiv(a, b) * b
         /\ cdiv(a, b) * b <= a + (b - 1)
         /\ cdiv(a, b) * b \in Nat
<1> DEFINE n == a + b - 1
           q == n \div b
<1>1. n \in Nat
  OBVIOUS
<1>2. n = q * b + (n % b) /\ n % b \in 0 .. b - 1 /\ q \in Nat
  BY <1>1, DivMod
<1>3. cdiv(a, b) = q
  BY DEF cdiv
<1>4. q * b \in Nat
  BY <1>2
<1>5. a + b - 1 = q * b + (n % b)
  BY <1>2
<1> HIDE DEF q, n
<1>. QED BY <1>2, <1>3, <1>4, <1>5

\* A multiple below a count rounded up lies below the count.
LEMMA MultipleBelow ==
  ASSUME NEW a \in Nat, NEW b \in Nat \ {0}, NEW m \in Nat, m < cdiv(a, b)
  PROVE  m * b < a
<1> DEFINE c == cdiv(a, b)
<1>1. c \in Nat /\ c * b <= a + (b - 1) /\ c * b \in Nat /\ m < c
  BY CdivFacts
<1> HIDE DEF c
<1>2. m * b + b <= c * b
  BY <1>1, TimesGrows
<1>3. m * b \in Nat
  OBVIOUS
<1>. QED BY <1>1, <1>2, <1>3
-----------------------------------------------------------------------------
(***************************************************************************)
(* Offsets as digits: what a kernel takes by division for each axis        *)
(***************************************************************************)
LEMMA DivUnique ==
  ASSUME NEW b \in Nat \ {0}, NEW q \in Nat, NEW r \in 0 .. b - 1
  PROVE  (q * b + r) \div b = q /\ (q * b + r) % b = r
<1> DEFINE a == q * b + r
           d == a \div b
           m == a % b
<1>1. q * b \in Nat
  OBVIOUS
<1>2. a \in Nat
  BY <1>1
<1>3. a = d * b + m /\ m \in 0 .. b - 1 /\ d \in Nat
  BY <1>2, DivMod
<1>4. a = q * b + r
  OBVIOUS
<1> HIDE DEF a, d, m
<1>5. d * b \in Nat
  BY <1>3
<1>6. ~(d < q)
  <2>1. d < q => d * b + b <= q * b
    BY <1>3, TimesGrows
  <2>. QED BY <1>1, <1>3, <1>4, <1>5, <2>1
<1>7. ~(q < d)
  <2>1. q < d => q * b + b <= d * b
    BY <1>3, TimesGrows
  <2>. QED BY <1>1, <1>3, <1>4, <1>5, <2>1
<1>8. d = q
  BY <1>3, <1>6, <1>7
<1>9. m = r
  BY <1>1, <1>3, <1>4, <1>8
<1>. QED BY <1>8, <1>9 DEF a, d, m

LEMMA TimesAssoc ==
  ASSUME NEW a \in Nat, NEW b \in Nat, NEW c \in Nat
  PROVE  a * (b * c) = (a * b) * c /\ a * b \in Nat /\ a * b = b * a
OBVIOUS

\* Division in two steps.
LEMMA DivTwice ==
  ASSUME NEW o \in Nat, NEW a \in Nat \ {0}, NEW b \in Nat \ {0}
  PROVE  (o \div a) \div b = o \div (b * a)
<1> DEFINE q == o \div a
           r == o % a
           p == q \div b
           d == q % b
<1>1. o = q * a + r /\ r \in 0 .. a - 1 /\ q \in Nat
  BY DivMod
<1>2. q = p * b + d /\ d \in 0 .. b - 1 /\ p \in Nat
  BY <1>1, DivMod
<1> HIDE DEF q, r, p, d
<1>3. q * a = (p * b) * a + d * a
  BY <1>2
<1>4. (p * b) * a = p * (b * a)
  BY <1>2, TimesAssoc
<1>5. d * a \in Nat /\ b * a \in Nat \ {0} /\ p * (b * a) \in Nat
  BY <1>2
<1>6. d * a + a <= b * a
  BY <1>2, TimesGrows
<1>7. o = p * (b * a) + (d * a + r)
  BY <1>1, <1>3, <1>4, <1>5
<1>8. d * a + r \in 0 .. b * a - 1
  BY <1>1, <1>5, <1>6
<1>9. o \div (b * a) = p
  <2> DEFINE c == b * a
             e == d * a + r
  <2>1. c \in Nat \ {0} /\ e \in 0 .. c - 1 /\ o = p * c + e
    BY <1>5, <1>7, <1>8
  <2>. HIDE DEF c, e
  <2>2. o \div c = p
    BY <1>2, <2>1, DivUnique
  <2>. QED BY <2>2 DEF c
<1>. QED BY <1>9 DEF q, p

\* V[i] counts the elements behind axis i of a tensor with extents s.
Weights(n, s, V) ==
  /\ n \in Nat /\ s \in [1 .. n -> Nat] /\ V \in [0 .. n -> Nat]
  /\ V[n] = 1
  /\ \A i \in 1 .. n : V[i - 1] = s[i] * V[i]

\* What is left of an offset at axis i, and the digits that are taken from it.
Left(V, o, i) == o \div V[i]
Digits(n, s, V, o) == [i \in 1 .. n |-> Left(V, o, i) % s[i]]

LEMMA PositiveWeights ==
  ASSUME NEW n, NEW s, NEW V, Weights(n, s, V), V[0] # 0
  PROVE  \A i \in 0 .. n : V[i] # 0 /\ (i # 0 => s[i] # 0)
<1> DEFINE T == {i \in Nat : i <= n /\ V[i] = 0}
<1>1. T = {}
  <2> SUFFICES ASSUME T # {} PROVE FALSE
    OBVIOUS
  <2>1. PICK i \in T : \A j \in T : i <= j
    <3>1. T \in SUBSET Nat
      OBVIOUS
    <3>. HIDE DEF T
    <3>. QED BY <3>1, LeastNat
  <2>2. i \in Nat /\ i <= n /\ V[i] = 0 /\ i # 0 /\ n \in Nat
    BY DEF Weights
  <2>3. i \in 1 .. n /\ i - 1 \in 0 .. n /\ ~(i <= i - 1)
    BY <2>2
  <2>4. V[i - 1] # 0
    BY <2>1, <2>3
  <2>5. V[i - 1] = s[i] * V[i] /\ s[i] \in Nat
    BY <2>3 DEF Weights
  <2>. QED BY <2>2, <2>4, <2>5
<1>2. ASSUME NEW i \in 0 .. n PROVE V[i] # 0 /\ (i # 0 => s[i] # 0)
  <2>0. n \in Nat
    BY DEF Weights
  <2>1. V[i] # 0
    BY <1>1, <2>0
  <2>2. CASE i # 0
    <3>1. i \in 1 .. n /\ i - 1 \in 0 .. n
      BY <2>0, <2>2
    <3>2. V[i - 1] # 0
      BY <1>1, <2>0, <3>1
    <3>3. V[i - 1] = s[i] * V[i] /\ V[i] \in Nat
      BY <3>1 DEF Weights
    <3>. QED BY <2>1, <3>2, <3>3
  <2>. QED BY <2>1, <2>2
<1>. QED BY <1>2

\* What is left of an offset at an axis is what is left at the axis before
\* and the digit.
LEMMA NextDigit ==
  ASSUME NEW n, NEW s, NEW V, Weights(n, s, V), V[0] # 0,
         NEW o \in Nat, NEW i \in 1 .. n
  PROVE  /\ Left(V, o, i) = Left(V, o, i - 1) * s[i] + Digits(n, s, V, o)[i]
         /\ Digits(n, s, V, o)[i] \in 0 .. s[i] - 1
         /\ Left(V, o, i) \in Nat /\ Left(V, o, i - 1) \in Nat
<1>1. n \in Nat /\ i \in 0 .. n /\ i # 0 /\ i - 1 \in 0 .. n
  BY DEF Weights
<1>2. V[i] # 0 /\ s[i] # 0 /\ V[i - 1] # 0
  BY <1>1, PositiveWeights
<1>3. V[i] \in Nat \ {0} /\ s[i] \in Nat \ {0} /\ V[i - 1] \in Nat \ {0}
  BY <1>1, <1>2 DEF Weights
<1>4. V[i - 1] = s[i] * V[i]
  BY DEF Weights
<1> DEFINE q == Left(V, o, i)
<1>5. q \in Nat
  BY <1>3, DivMod DEF Left
<1>6. q \div s[i] = Left(V, o, i - 1)
  BY <1>3, <1>4, DivTwice DEF Left
<1>7. q = (q \div s[i]) * s[i] + (q % s[i]) /\ q % s[i] \in 0 .. s[i] - 1
  BY <1>3, <1>5, DivMod
<1>8. Digits(n, s, V, o)[i] = q % s[i]
  BY DEF Digits
<1> HIDE DEF q
<1>9. Left(V, o, i - 1) \in Nat
  BY <1>3, DivMod DEF Left
<1>. QED BY <1>5, <1>6, <1>7, <1>8, <1>9 DEF q

\* Different offsets have different digits.
LEMMA DigitsUnique ==
  ASSUME NEW n, NEW s, NEW V, Weights(n, s, V),
         NEW o \in 0 .. V[0] - 1, NEW p \in 0 .. V[0] - 1,
         Digits(n, s, V, o) = Digits(n, s, V, p)
  PROVE  o = p
<1>0. n \in Nat /\ V[0] \in Nat \ {0} /\ o \in Nat /\ p \in Nat
  <2>1. n \in Nat /\ V[0] \in Nat
    BY DEF Weights
  <2>. QED BY <2>1
<1> DEFINE T == {i \in Nat : i <= n /\ Left(V, o, i) # Left(V, p, i)}
<1>1. T = {}
  <2> SUFFICES ASSUME T # {} PROVE FALSE
    OBVIOUS
  <2>1. PICK i \in T : \A j \in T : i <= j
    <3>1. T \in SUBSET Nat
      OBVIOUS
    <3>. HIDE DEF T
    <3>. QED BY <3>1, LeastNat
  <2>2. i \in Nat /\ i <= n /\ Left(V, o, i) # Left(V, p, i)
    OBVIOUS
  <2>3. CASE i = 0
    <3> DEFINE v == V[0]
    <3>1. v \in Nat \ {0} /\ o \in 0 .. v - 1 /\ p \in 0 .. v - 1
      BY <1>0
    <3>. HIDE DEF v
    <3>2. (0 * v + o) \div v = 0 /\ (0 * v + p) \div v = 0
      BY <3>1, DivUnique
    <3>3. 0 * v + o = o /\ 0 * v + p = p
      BY <3>1
    <3>4. o \div v = 0 /\ p \div v = 0
      BY <3>2, <3>3
    <3>. QED BY <2>2, <2>3, <3>4 DEF v, Left
  <2>4. CASE i # 0
    <3>1. i \in 1 .. n /\ i - 1 \in Nat /\ i - 1 <= n /\ ~(i <= i - 1)
      BY <1>0, <2>2, <2>4
    <3>2. Left(V, o, i - 1) = Left(V, p, i - 1)
      BY <2>1, <3>1
    <3>3. ASSUME NEW x \in Nat
          PROVE  Left(V, x, i) = Left(V, x, i - 1) * s[i] + Digits(n, s, V, x)[i]
      <4>1. V[0] # 0 /\ i \in 1 .. n
        BY <1>0, <3>1
      <4>. QED BY <4>1, NextDigit
    <3>4. Left(V, o, i) = Left(V, o, i - 1) * s[i] + Digits(n, s, V, o)[i]
      BY <1>0, <3>3, Zenon
    <3>5. Left(V, p, i) = Left(V, p, i - 1) * s[i] + Digits(n, s, V, p)[i]
      BY <1>0, <3>3, Zenon
    <3>. QED BY <2>2, <3>2, <3>4, <3>5
  <2>. QED BY <2>3, <2>4
<1>2. Left(V, o, n) = Left(V, p, n)
  BY <1>0, <1>1
<1>3. V[n] = 1
  BY DEF Weights
<1>4. o \div 1 = o /\ p \div 1 = p
  BY <1>0
<1>. QED BY <1>2, <1>3, <1>4 DEF Left

\* The numbers that the first digits of m are, up to the k-th.
Leading(s, m, k) ==
  {y \in [0 .. k -> Nat] : y[0] = 0 /\ \A i \in 1 .. k : y[i] = y[i - 1] * s[i] + m[i]}

LEMMA LeadingExist ==
  ASSUME NEW n \in Nat, NEW s \in [1 .. n -> Nat], NEW m \in [1 .. n -> Nat]
  PROVE  Leading(s, m, n) # {}
<1> DEFINE T == {k \in Nat : k <= n /\ Leading(s, m, k) = {}}
<1> SUFFICES ASSUME T # {} PROVE FALSE
  OBVIOUS
<1>1. PICK k \in T : \A j \in T : k <= j
  <2>1. T \in SUBSET Nat
    OBVIOUS
  <2>. HIDE DEF T
  <2>. QED BY <2>1, LeastNat
<1>2. k \in Nat /\ k <= n /\ Leading(s, m, k) = {}
  OBVIOUS
<1>3. CASE k = 0
  <2> DEFINE y == [x \in 0 .. 0 |-> 0]
  <2>1. y \in Leading(s, m, 0)
    BY DEF Leading
  <2>. QED BY <1>2, <1>3, <2>1
<1>4. CASE k # 0
  <2>1. k - 1 \in Nat /\ k - 1 <= n /\ ~(k <= k - 1) /\ k \in 1 .. n
    BY <1>2, <1>4
  <2>2. PICK f : f \in Leading(s, m, k - 1)
    BY <1>1, <2>1
  <2>3. /\ f \in [0 .. k - 1 -> Nat] /\ f[0] = 0
        /\ \A i \in 1 .. k - 1 : f[i] = f[i - 1] * s[i] + m[i]
    BY <2>2 DEF Leading
  <2> DEFINE y == [x \in 0 .. k |-> IF x = k THEN f[k - 1] * s[k] + m[k] ELSE f[x]]
  <2>4. f[k - 1] \in Nat /\ s[k] \in Nat /\ m[k] \in Nat
    BY <2>1, <2>3
  <2>5. f[k - 1] * s[k] + m[k] \in Nat
    <3>1. f[k - 1] * s[k] \in Nat
      BY <2>4
    <3>. QED BY <2>4, <3>1
  <2>6. \A x \in 0 .. k : y[x] \in Nat
    BY <1>2, <2>3, <2>5
  <2>7. y[0] = 0
    BY <1>2, <1>4, <2>3
  <2>8. ASSUME NEW i \in 1 .. k PROVE y[i] = y[i - 1] * s[i] + m[i]
    <3>1. CASE i = k
      BY <1>2, <1>4, <2>1, <3>1
    <3>2. CASE i # k
      <4>1. i \in 1 .. k - 1 /\ i \in 0 .. k /\ i - 1 \in 0 .. k /\ i - 1 # k
        BY <1>2, <3>2
      <4>2. y[i] = f[i] /\ y[i - 1] = f[i - 1]
        BY <3>2, <4>1
      <4>. QED BY <2>3, <4>1, <4>2
    <3>. QED BY <3>1, <3>2
  <2>9. y \in [0 .. k -> Nat]
    BY <2>6
  <2>. HIDE DEF y
  <2>10. y \in Leading(s, m, k)
    BY <2>7, <2>8, <2>9 DEF Leading
  <2>. QED BY <1>2, <2>10
<1>. QED BY <1>3, <1>4

MultiIndices(n, s) == {m \in [1 .. n -> Nat] : \A i \in 1 .. n : m[i] < s[i]}

\* Every multi-index has an offset.
LEMMA DigitsReach ==
  ASSUME NEW n, NEW s, NEW V, Weights(n, s, V),
         NEW m \in MultiIndices(n, s)
  PROVE  \E o \in 0 .. V[0] - 1 : Digits(n, s, V, o) = m
<1>0. n \in Nat /\ s \in [1 .. n -> Nat] /\ V \in [0 .. n -> Nat] /\ V[n] = 1
  BY DEF Weights
<1>m. m \in [1 .. n -> Nat] /\ \A i \in 1 .. n : m[i] < s[i]
  BY DEF MultiIndices
<1>1. \A i \in 0 .. n : V[i] # 0
  <2> DEFINE T == {i \in Nat : i <= n /\ V[n - i] = 0}
  <2>1. T = {}
    <3> SUFFICES ASSUME T # {} PROVE FALSE
      OBVIOUS
    <3>1. PICK i \in T : \A j \in T : i <= j
      <4>1. T \in SUBSET Nat
        OBVIOUS
      <4>. HIDE DEF T
      <4>. QED BY <4>1, LeastNat
    <3>2. i \in Nat /\ i <= n /\ V[n - i] = 0
      OBVIOUS
    <3>3. i # 0
      BY <1>0, <3>2
    <3>4. i - 1 \in Nat /\ i - 1 <= n /\ ~(i <= i - 1)
      BY <1>0, <3>2, <3>3
    <3>5. V[n - (i - 1)] # 0
      BY <3>1, <3>4
    <3>6. n - i + 1 \in 1 .. n /\ n - (i - 1) = n - i + 1 /\ n - i + 1 - 1 = n - i
      BY <1>0, <3>2, <3>3
    <3>7. V[n - i] = s[n - i + 1] * V[n - i + 1]
      BY <3>6 DEF Weights
    <3>8. s[n - i + 1] \in Nat /\ s[n - i + 1] # 0 /\ V[n - i + 1] \in Nat /\ V[n - i + 1] # 0
      BY <1>0, <1>m, <3>5, <3>6
    <3>. QED BY <3>2, <3>7, <3>8
  <2>2. ASSUME NEW i \in 0 .. n PROVE V[i] # 0
    <3>1. n - i \in Nat /\ n - i <= n /\ n - (n - i) = i
      BY <1>0
    <3>. QED BY <2>1, <3>1
  <2>. QED BY <2>2
<1>2. PICK y : y \in Leading(s, m, n)
  BY <1>0, <1>m, LeadingExist
<1>3. /\ y \in [0 .. n -> Nat] /\ y[0] = 0
      /\ \A i \in 1 .. n : y[i] = y[i - 1] * s[i] + m[i]
  BY <1>2 DEF Leading
<1>4. PICK o \in Nat : V[0] # 0 /\ o = y[n]
  BY <1>0, <1>1, <1>3
<1>5. ASSUME NEW i \in 1 .. n PROVE y[i] \div s[i] = y[i - 1] /\ y[i] % s[i] = m[i]
  <2>0. s[i] \in Nat /\ m[i] \in Nat /\ m[i] < s[i] /\ i - 1 \in 0 .. n
    BY <1>0, <1>m
  <2>1. s[i] \in Nat \ {0} /\ y[i - 1] \in Nat /\ m[i] \in 0 .. s[i] - 1
    <3>1. y[i - 1] \in Nat
      BY <1>3, <2>0
    <3>2. s[i] \in Nat \ {0} /\ m[i] \in 0 .. s[i] - 1
      BY <2>0
    <3>. QED BY <3>1, <3>2
  <2>2. y[i] = y[i - 1] * s[i] + m[i]
    BY <1>3
  <2> DEFINE b == s[i]
             q == y[i - 1]
             r == m[i]
  <2>3. b \in Nat \ {0} /\ q \in Nat /\ r \in 0 .. b - 1 /\ y[i] = q * b + r
    BY <2>1, <2>2
  <2>. HIDE DEF b, q, r
  <2>4. (q * b + r) \div b = q /\ (q * b + r) % b = r
    BY <2>3, DivUnique
  <2>. QED BY <2>3, <2>4 DEF b, q, r
<1>9. ASSUME NEW k \in 1 .. n
      PROVE  Left(V, o, k) \div s[k] = Left(V, o, k - 1)
  <2>1. /\ Left(V, o, k) = Left(V, o, k - 1) * s[k] + Digits(n, s, V, o)[k]
        /\ Digits(n, s, V, o)[k] \in 0 .. s[k] - 1 /\ Left(V, o, k - 1) \in Nat
    <3>1. ASSUME NEW x \in Nat
          PROVE  /\ Left(V, x, k) = Left(V, x, k - 1) * s[k] + Digits(n, s, V, x)[k]
                 /\ Digits(n, s, V, x)[k] \in 0 .. s[k] - 1 /\ Left(V, x, k - 1) \in Nat
      <4>1. V[0] # 0
        BY <1>4
      <4>. QED BY <4>1, NextDigit
    <3>. QED BY <1>4, <3>1, Zenon
  <2> DEFINE d == Digits(n, s, V, o)[k]
             q == Left(V, o, k - 1)
             b == s[k]
  <2>3. q \in Nat /\ b \in Nat \ {0} /\ d \in 0 .. b - 1 /\ Left(V, o, k) = q * b + d
    <3>1. b \in Nat
      BY <1>0
    <3>2. b # 0
      BY <2>1, <3>1
    <3>. QED BY <2>1, <3>1, <3>2
  <2>. HIDE DEF d, q, b
  <2>4. (q * b + d) \div b = q
    BY <2>3, DivUnique
  <2>. QED BY <2>3, <2>4 DEF q, b
<1>6. \A i \in 0 .. n : Left(V, o, i) = y[i]
  <2> DEFINE T == {i \in Nat : i <= n /\ Left(V, o, n - i) # y[n - i]}
  <2>1. T = {}
    <3> SUFFICES ASSUME T # {} PROVE FALSE
      OBVIOUS
    <3>1. PICK i \in T : \A j \in T : i <= j
      <4>1. T \in SUBSET Nat
        OBVIOUS
      <4>. HIDE DEF T
      <4>. QED BY <4>1, LeastNat
    <3>2. i \in Nat /\ i <= n /\ Left(V, o, n - i) # y[n - i]
      OBVIOUS
    <3>3. i # 0
      <4>1. o \div 1 = o
        BY <1>4
      <4>2. i = 0 => n - i = n
        BY <1>0
      <4>. QED BY <1>0, <1>4, <3>2, <4>1, <4>2 DEF Left
    <3>4. i - 1 \in Nat /\ i - 1 <= n /\ ~(i <= i - 1)
      BY <1>0, <3>2, <3>3
    <3>5. Left(V, o, n - (i - 1)) = y[n - (i - 1)]
      BY <3>1, <3>4
    <3>6. n - i + 1 \in 1 .. n /\ n - (i - 1) = n - i + 1 /\ n - i + 1 - 1 = n - i
      BY <1>0, <3>2, <3>3
    <3> DEFINE k == n - i + 1
    <3>7. k \in 1 .. n /\ k = n - (i - 1) /\ k - 1 = n - i
      BY <1>0, <3>2, <3>6
    <3>. HIDE DEF k
    <3>10. Left(V, o, k) = y[k]
      BY <3>5, <3>7
    <3>8. Left(V, o, k) \div s[k] = Left(V, o, k - 1)
      BY <1>9, <3>7
    <3>9. y[k] \div s[k] = y[k - 1]
      BY <1>5, <3>7
    <3>. QED BY <3>2, <3>7, <3>8, <3>9, <3>10
  <2>2. ASSUME NEW i \in 0 .. n PROVE Left(V, o, i) = y[i]
    <3>1. n - i \in Nat /\ n - i <= n /\ n - (n - i) = i
      BY <1>0
    <3>. QED BY <2>1, <3>1
  <2>. QED BY <2>2
<1>7. o < V[0]
  <2>1. V[0] \in Nat \ {0} /\ Left(V, o, 0) = 0
    BY <1>0, <1>3, <1>4, <1>6
  <2>2. o = 0 * V[0] + (o % V[0]) /\ o % V[0] \in 0 .. V[0] - 1
    BY <1>4, <2>1, DivMod DEF Left
  <2>. QED BY <2>1, <2>2
<1>8. Digits(n, s, V, o) = m
  <2>1. ASSUME NEW i \in 1 .. n PROVE Left(V, o, i) % s[i] = m[i]
    <3>1. Left(V, o, i) = y[i]
      BY <1>0, <1>6
    <3>. QED BY <1>5, <3>1
  <2>. QED BY <1>m, <2>1 DEF Digits
<1>. QED BY <1>0, <1>4, <1>7, <1>8
-----------------------------------------------------------------------------
(***************************************************************************)
(* Products and sums over a sequence: FoldLeft, one element at a time      *)
(***************************************************************************)
Largest(S) == CHOOSE x \in S : \A y \in S : x >= y

Combined(how, x, y) ==
  CASE how = "product" -> x * y
    [] how = "sum" -> x + y
    [] how = "double" -> IF x < y THEN 2 * x ELSE x
    [] how = "broadcast" -> broadcast(x, y)
    [] how = "tile" -> TakeTile(x, y)
Neutral(how) ==
  CASE how \in {"product", "double"} -> 1
    [] how = "sum" -> 0
    [] how = "broadcast" -> <<>>

\* What FoldLeft computes for the first k places, set by set of places.
IsFold(how, base, s, k, g) ==
  g = [S \in SUBSET (1 .. k) |->
         IF S = {} THEN base
         ELSE Combined(how, g[S \ {Largest(S)}], s[Largest(S)])]

LEMMA LargestOf ==
  ASSUME NEW k \in Int, NEW S \in SUBSET (1 .. k), k \in S
  PROVE  Largest(S) = k
<1>1. \A y \in S : k >= y
  OBVIOUS
<1>2. ASSUME NEW x \in S, \A y \in S : x >= y PROVE x = k
  <2>1. x >= k /\ k >= x /\ x \in Int
    BY <1>1, <1>2
  <2>. QED BY <2>1
<1>3. Largest(S) \in S /\ \A y \in S : Largest(S) >= y
  BY <1>1, Zenon DEF Largest
<1>. QED BY <1>2, <1>3

LEMMA FoldExists ==
  ASSUME NEW how, NEW base, NEW n \in Nat, NEW s
  PROVE  \E g : IsFold(how, base, s, n, g)
<1> DEFINE T == {k \in Nat : ~\E g : IsFold(how, base, s, k, g)}
<1> SUFFICES ASSUME T # {} PROVE FALSE
  OBVIOUS
<1>1. PICK k \in T : \A j \in T : k <= j
  <2>1. T \in SUBSET Nat
    OBVIOUS
  <2>. HIDE DEF T
  <2>. QED BY <2>1, LeastNat
<1>2. k \in Nat /\ ~\E g : IsFold(how, base, s, k, g)
  OBVIOUS
<1>3. CASE k = 0
  <2> DEFINE g == [S \in SUBSET (1 .. 0) |-> base]
  <2>1. \A S \in SUBSET (1 .. 0) : S = {}
    OBVIOUS
  <2>2. IsFold(how, base, s, 0, g)
    BY <2>1 DEF IsFold
  <2>. QED BY <1>2, <1>3, <2>2
<1>4. CASE k # 0
  <2>1. k - 1 \in Nat /\ ~(k <= k - 1)
    BY <1>2, <1>4
  <2>2. PICK f : IsFold(how, base, s, k - 1, f)
    BY <1>1, <2>1
  <2>3. ASSUME NEW S \in SUBSET (1 .. k - 1)
        PROVE  f[S] = IF S = {} THEN base
                      ELSE Combined(how, f[S \ {Largest(S)}], s[Largest(S)])
    BY <2>2 DEF IsFold
  <2> DEFINE h == [S \in SUBSET (1 .. k) |->
                     IF k \in S THEN Combined(how, f[S \ {k}], s[k]) ELSE f[S]]
  <2>4. ASSUME NEW S \in SUBSET (1 .. k), NEW x
        PROVE  S \ {x} \in SUBSET (1 .. k)
    OBVIOUS
  <2>5. ASSUME NEW S \in SUBSET (1 .. k), k \notin S
        PROVE  S \in SUBSET (1 .. k - 1)
    BY <1>2, <2>5
  <2>6. ASSUME NEW S \in SUBSET (1 .. k)
        PROVE  h[S] = IF S = {} THEN base
                      ELSE Combined(how, h[S \ {Largest(S)}], s[Largest(S)])
    <3>1. CASE k \in S
      <4>1. Largest(S) = k
        BY <1>2, <3>1, LargestOf
      <4>2. S \ {k} \in SUBSET (1 .. k) /\ k \notin S \ {k}
        BY <2>4
      <4>3. h[S \ {k}] = f[S \ {k}]
        BY <4>2
      <4>. QED BY <3>1, <4>1, <4>3
    <3>2. CASE k \notin S
      <4>1. S \in SUBSET (1 .. k - 1)
        BY <2>5, <3>2
      <4>2. h[S] = f[S]
        BY <3>2
      <4>3. S \ {Largest(S)} \in SUBSET (1 .. k) /\ k \notin S \ {Largest(S)}
        BY <2>4, <3>2
      <4>4. h[S \ {Largest(S)}] = f[S \ {Largest(S)}]
        BY <4>3
      <4>. QED BY <2>3, <4>1, <4>2, <4>4
    <3>. QED BY <3>1, <3>2
  <2>7. IsFold(how, base, s, k, h)
    <3>1. h = [S \in SUBSET (1 .. k) |-> h[S]]
      OBVIOUS
    <3>. HIDE DEF h
    <3>. QED BY <2>6, <3>1 DEF IsFold
  <2>. QED BY <1>2, <2>7
<1>. QED BY <1>3, <1>4

\* The results for the beginnings of the sequence.
IsRun(how, base, s, n, p) ==
  p[0] = base /\ \A k \in 1 .. n : p[k] = Combined(how, p[k - 1], s[k])

LEMMA FoldRuns ==
  ASSUME NEW how, NEW base, NEW n \in Nat, NEW s,
         NEW g, IsFold(how, base, s, n, g)
  PROVE  \E p : IsRun(how, base, s, n, p) /\ p[n] = g[1 .. n]
<1> DEFINE p == [k \in 0 .. n |-> g[1 .. k]]
<1>1. ASSUME NEW S \in SUBSET (1 .. n)
      PROVE  g[S] = IF S = {} THEN base
                    ELSE Combined(how, g[S \ {Largest(S)}], s[Largest(S)])
  BY DEF IsFold
<1>2. ASSUME NEW k \in 0 .. n PROVE 1 .. k \in SUBSET (1 .. n)
  OBVIOUS
<1>3. p[0] = base
  <2>1. 1 .. 0 = {} /\ 0 \in 0 .. n
    OBVIOUS
  <2>. QED BY <1>1, <1>2, <2>1
<1>4. ASSUME NEW k \in 1 .. n PROVE p[k] = Combined(how, p[k - 1], s[k])
  <2>1. k \in Int /\ k \in 0 .. n /\ k - 1 \in 0 .. n /\ k \in 1 .. k
    OBVIOUS
  <2>2. (1 .. k) \ {k} = 1 .. k - 1
    OBVIOUS
  <2>3. Largest(1 .. k) = k
    <3> DEFINE S == 1 .. k
    <3>1. S \in SUBSET (1 .. k) /\ k \in S
      BY <2>1
    <3>. HIDE DEF S
    <3>2. Largest(S) = k
      BY <2>1, <3>1, LargestOf
    <3>. QED BY <3>2 DEF S
  <2>4. 1 .. k # {} /\ 1 .. k \in SUBSET (1 .. n)
    BY <1>2, <2>1
  <2>5. g[1 .. k] = Combined(how, g[1 .. k - 1], s[k])
    BY <1>1, <2>2, <2>3, <2>4
  <2>. QED BY <2>1, <2>5
<1>5. p[n] = g[1 .. n]
  OBVIOUS
<1>. HIDE DEF p
<1>. QED BY <1>3, <1>4, <1>5 DEF IsRun

\* Those of products and sums are numbers.
Partials(how, s, n) ==
  {p \in [0 .. n -> Int] :
     p[0] = Neutral(how) /\ \A k \in 1 .. n : p[k] = Combined(how, p[k - 1], s[k])}

LEMMA FoldPartials ==
  ASSUME NEW how \in {"product", "sum", "double"}, NEW n \in Nat, NEW s,
         \A i \in 1 .. n : s[i] \in Int, NEW g, IsFold(how, Neutral(how), s, n, g)
  PROVE  \E p \in Partials(how, s, n) : p[n] = g[1 .. n]
<1>1. PICK q : IsRun(how, Neutral(how), s, n, q) /\ q[n] = g[1 .. n]
  BY FoldRuns
<1> DEFINE p == [k \in 0 .. n |-> q[k]]
<1>2. \A k \in 0 .. n : p[k] = q[k]
  OBVIOUS
<1>3. p[0] = Neutral(how)
  BY <1>1, <1>2 DEF IsRun
<1>4. ASSUME NEW k \in 1 .. n PROVE p[k] = Combined(how, p[k - 1], s[k])
  <2>1. k \in 0 .. n /\ k - 1 \in 0 .. n
    OBVIOUS
  <2>2. q[k] = Combined(how, q[k - 1], s[k])
    BY <1>1 DEF IsRun
  <2>. QED BY <1>2, <2>1, <2>2
<1>. HIDE DEF p
<1>5. \A k \in 0 .. n : p[k] \in Int
  <2> DEFINE T == {k \in Nat : k <= n /\ p[k] \notin Int}
  <2> SUFFICES ASSUME T # {} PROVE FALSE
    OBVIOUS
  <2>1. PICK k \in T : \A j \in T : k <= j
    <3>1. T \in SUBSET Nat
      OBVIOUS
    <3>. HIDE DEF T
    <3>. QED BY <3>1, LeastNat
  <2>2. k \in Nat /\ k <= n /\ p[k] \notin Int
    OBVIOUS
  <2>3. k # 0
    BY <1>3, <2>2 DEF Neutral
  <2>4. k \in 1 .. n /\ k - 1 \in Nat /\ k - 1 <= n /\ ~(k <= k - 1)
    BY <2>2, <2>3
  <2>5. p[k - 1] \in Int
    BY <2>1, <2>4
  <2>6. Combined(how, p[k - 1], s[k]) \in Int
    BY <2>4, <2>5 DEF Combined
  <2>. QED BY <1>4, <2>2, <2>4, <2>6
<1>6. p \in [0 .. n -> Int] /\ p[n] = g[1 .. n]
  <2>1. p = [k \in 0 .. n |-> p[k]]
    BY DEF p
  <2>2. p[n] = g[1 .. n]
    BY <1>1, <1>2
  <2>. QED BY <1>5, <2>1, <2>2
<1>7. p \in Partials(how, s, n)
  BY <1>3, <1>4, <1>6 DEF Partials
<1>. QED BY <1>6, <1>7

\* The number of elements is the product of the extents, ...
LEMMA VolumeIs ==
  ASSUME NEW n \in Nat, NEW s, DOMAIN s = 1 .. n, \A i \in 1 .. n : s[i] \in Int
  PROVE  \E p \in Partials("product", s, n) : volume(s) = p[n]
<1> DEFINE Fold(g) == [S \in SUBSET (1 .. n) |->
                         IF S = {} THEN 1
                         ELSE g[S \ {Largest(S)}] * s[Largest(S)]]
           it == CHOOSE g : g = Fold(g)
<1>1. volume(s) = (CHOOSE g : g = [S \in SUBSET DOMAIN s |->
                                     IF S = {} THEN 1
                                     ELSE g[S \ {Largest(S)}] * s[Largest(S)]])[DOMAIN s]
  BY DEF volume, FoldLeft, MapThenFoldSet, Max, Largest
<1>2. volume(s) = it[1 .. n]
  BY <1>1
<1>3. PICK f : IsFold("product", Neutral("product"), s, n, f)
  BY FoldExists
<1>4. f = Fold(f)
  BY <1>3 DEF IsFold, Combined, Neutral
<1>5. it = Fold(it)
  <2>. HIDE DEF Fold
  <2>. QED BY <1>4
<1>6. IsFold("product", Neutral("product"), s, n, it)
  <2>. HIDE DEF it
  <2>. QED BY <1>5 DEF IsFold, Combined, Neutral
<1>. HIDE DEF it
<1>. QED BY <1>2, <1>6, FoldPartials

\* ... and an address the sum of the offsets along the axes.
LEMMA AddrIs ==
  ASSUME NEW n \in Nat, NEW stride \in [1 .. n -> Int], NEW m \in [1 .. n -> Int]
  PROVE  \E p \in Partials("sum", [i \in 1 .. n |-> stride[i] * m[i]], n) :
           Addr(stride, m) = p[n]
<1> DEFINE s == [i \in 1 .. n |-> stride[i] * m[i]]
           Fold(g) == [S \in SUBSET (1 .. n) |->
                         IF S = {} THEN 0
                         ELSE g[S \ {Largest(S)}] + s[Largest(S)]]
           it == CHOOSE g : g = Fold(g)
<1>0. Len(stride) = n
  OBVIOUS
<1>1. Addr(stride, m) = (CHOOSE g : g = [S \in SUBSET DOMAIN [i \in 1 .. Len(stride) |-> stride[i] * m[i]] |->
                                     IF S = {} THEN 0
                                     ELSE g[S \ {Largest(S)}] + [i \in 1 .. Len(stride) |-> stride[i] * m[i]][Largest(S)]])[DOMAIN [i \in 1 .. Len(stride) |-> stride[i] * m[i]]]
  BY DEF Addr, FoldLeft, MapThenFoldSet, Max, Largest
<1>a. DOMAIN s = 1 .. n
  OBVIOUS
<1>2. Addr(stride, m) = it[1 .. n]
  <2>1. Addr(stride, m) = (CHOOSE g : g = [S \in SUBSET DOMAIN s |->
             IF S = {} THEN 0 ELSE g[S \ {Largest(S)}] + s[Largest(S)]])[DOMAIN s]
    BY <1>0, <1>1
  <2>. HIDE DEF s
  <2>. QED BY <2>1, <1>a
<1>b. \A i \in 1 .. n : s[i] \in Int
  OBVIOUS
<1>. HIDE DEF s
<1>3. PICK f : IsFold("sum", Neutral("sum"), s, n, f)
  BY FoldExists
<1>4. f = Fold(f)
  BY <1>3 DEF IsFold, Combined, Neutral
<1>5. it = Fold(it)
  <2>. HIDE DEF Fold
  <2>. QED BY <1>4
<1>6. IsFold("sum", Neutral("sum"), s, n, it)
  <2>. HIDE DEF it
  <2>. QED BY <1>5 DEF IsFold, Combined, Neutral
<1>. HIDE DEF it
<1>7. \E p \in Partials("sum", s, n) : Addr(stride, m) = p[n]
  <2>1. "sum" \in {"product", "sum", "double"}
    OBVIOUS
  <2>2. PICK p \in Partials("sum", s, n) : p[n] = it[1 .. n]
    BY <1>6, <1>b, <2>1, FoldPartials
  <2>. QED BY <1>2, <2>2
<1>. QED BY <1>7 DEF s
\* The same for the other folds of ShapeUtils.
LEMMA PowerIs ==
  ASSUME NEW n \in Nat
  PROVE  \E p \in Partials("double", [i \in 1 .. n |-> n], n) : next_power_of_2(n) = p[n]
<1> DEFINE s == [i \in 1 .. n |-> n]
           Fold(g) == [S \in SUBSET (1 .. n) |->
                         IF S = {} THEN 1
                         ELSE IF g[S \ {Largest(S)}] < s[Largest(S)]
                                THEN 2 * g[S \ {Largest(S)}] ELSE g[S \ {Largest(S)}]]
           it == CHOOSE g : g = Fold(g)
<1>0. DOMAIN s = 1 .. n
  OBVIOUS
<1>1. next_power_of_2(n) = (CHOOSE g : g = [S \in SUBSET DOMAIN s |->
                         IF S = {} THEN 1
                         ELSE IF g[S \ {Largest(S)}] < s[Largest(S)]
                                THEN 2 * g[S \ {Largest(S)}]
                                ELSE g[S \ {Largest(S)}]])[DOMAIN s]
  BY DEF next_power_of_2, FoldLeft, MapThenFoldSet, Max, Largest
<1>2. next_power_of_2(n) = it[1 .. n]
  <2>. HIDE DEF s
  <2>. QED BY <1>0, <1>1
<1>a. \A i \in 1 .. n : s[i] \in Int
  OBVIOUS
<1>. HIDE DEF s
<1>3. PICK f : IsFold("double", Neutral("double"), s, n, f)
  BY FoldExists
<1>4. f = Fold(f)
  BY <1>3 DEF IsFold, Combined, Neutral
<1>5. it = Fold(it)
  <2>. HIDE DEF Fold
  <2>. QED BY <1>4
<1>6. IsFold("double", Neutral("double"), s, n, it)
  <2>. HIDE DEF it
  <2>. QED BY <1>5 DEF IsFold, Combined, Neutral
<1>. HIDE DEF it
<1>7. \E p \in Partials("double", s, n) : next_power_of_2(n) = p[n]
  <2>1. "double" \in {"product", "sum", "double"}
    OBVIOUS
  <2>2. PICK p \in Partials("double", s, n) : p[n] = it[1 .. n]
    BY <1>6, <1>a, <2>1, FoldPartials
  <2>. QED BY <1>2, <2>2
<1>. QED BY <1>7 DEF s

LEMMA BroadcastIs ==
  ASSUME NEW n \in Nat, NEW shapes, DOMAIN shapes = 1 .. n
  PROVE  \E p : /\ IsRun("broadcast", <<>>, shapes, n, p)
                /\ broadcast_shapes(shapes) = p[n]
<1> DEFINE Fold(g) == [S \in SUBSET (1 .. n) |->
                         IF S = {} THEN <<>>
                         ELSE broadcast(g[S \ {Largest(S)}], shapes[Largest(S)])]
           it == CHOOSE g : g = Fold(g)
<1>1. broadcast_shapes(shapes) =
        (CHOOSE g : g = [S \in SUBSET DOMAIN shapes |->
           IF S = {} THEN <<>>
           ELSE broadcast(g[S \ {Largest(S)}], shapes[Largest(S)])])[DOMAIN shapes]
  BY DEF broadcast_shapes, FoldLeft, MapThenFoldSet, Max, Largest
<1>2. broadcast_shapes(shapes) = it[1 .. n]
  BY <1>1
<1>3. PICK f : IsFold("broadcast", <<>>, shapes, n, f)
  BY FoldExists
<1>4. f = Fold(f)
  BY <1>3 DEF IsFold, Combined
<1>5. it = Fold(it)
  <2>. HIDE DEF Fold
  <2>. QED BY <1>4
<1>6. IsFold("broadcast", <<>>, shapes, n, it)
  <2>. HIDE DEF it
  <2>. QED BY <1>5 DEF IsFold, Combined
<1>. HIDE DEF it
<1>. QED BY <1>2, <1>6, FoldRuns

LEMMA TilesAre ==
  ASSUME NEW n \in Nat, NEW sizes, Len(sizes) = n, NEW tile
  PROVE  \E p : /\ IsRun("tile", [left |-> tile, tiles |-> <<>>], Reverse(sizes), n, p)
                /\ heuristics_for_tile_size(tile, sizes) = p[n].tiles
<1> DEFINE s == Reverse(sizes)
           base == [left |-> tile, tiles |-> <<>>]
           Fold(g) == [S \in SUBSET (1 .. n) |->
                         IF S = {} THEN base
                         ELSE TakeTile(g[S \ {Largest(S)}], s[Largest(S)])]
           it == CHOOSE g : g = Fold(g)
<1>0. DOMAIN s = 1 .. n
  BY DEF Reverse
<1>1. heuristics_for_tile_size(tile, sizes) = (CHOOSE g : g = [S \in SUBSET DOMAIN s |->
                         IF S = {} THEN base
                         ELSE TakeTile(g[S \ {Largest(S)}], s[Largest(S)])])[DOMAIN s].tiles
  BY DEF heuristics_for_tile_size, FoldLeft, MapThenFoldSet, Max, Largest
<1>2. heuristics_for_tile_size(tile, sizes) = it[1 .. n].tiles
  <2>. HIDE DEF s, base
  <2>. QED BY <1>0, <1>1
<1>. HIDE DEF s, base
<1>3. PICK f : IsFold("tile", base, s, n, f)
  BY FoldExists
<1>4. f = Fold(f)
  BY <1>3 DEF IsFold, Combined
<1>5. it = Fold(it)
  <2>. HIDE DEF Fold
  <2>. QED BY <1>4
<1>6. IsFold("tile", base, s, n, it)
  <2>. HIDE DEF it
  <2>. QED BY <1>5 DEF IsFold, Combined
<1>. HIDE DEF it
<1>7. PICK p : IsRun("tile", base, s, n, p) /\ p[n] = it[1 .. n]
  BY <1>6, FoldRuns
<1>8. IsRun("tile", base, s, n, p) /\ heuristics_for_tile_size(tile, sizes) = p[n].tiles
  BY <1>2, <1>7
<1>. QED BY <1>8 DEF s, base
-----------------------------------------------------------------------------
(***************************************************************************)
(* Shapes                                                                  *)
(***************************************************************************)
LEMMA ShapeFacts ==
  /\ \A s \in Seq(Nat) : Len(s) \in Nat /\ s \in [1 .. Len(s) -> Nat]
  /\ \A n \in Nat : \A s \in [1 .. n -> Nat] : s \in Seq(Nat) /\ Len(s) = n
<1>1. ASSUME NEW n \in Nat, NEW s \in [1 .. n -> Nat] PROVE s \in Seq(Nat) /\ Len(s) = n
  OBVIOUS
<1>2. ASSUME NEW s \in Seq(Nat) PROVE Len(s) \in Nat /\ s \in [1 .. Len(s) -> Nat]
  OBVIOUS
<1>. QED BY <1>1, <1>2

LEMMA VolumeNat ==
  ASSUME NEW n \in Nat, NEW s, DOMAIN s = 1 .. n, \A i \in 1 .. n : s[i] \in Nat
  PROVE  volume(s) \in Nat
<1>1. \A i \in 1 .. n : s[i] \in Int
  OBVIOUS
<1>2. PICK p \in Partials("product", s, n) : volume(s) = p[n]
  BY <1>1, VolumeIs
<1>3. p[0] = 1 /\ \A k \in 1 .. n : p[k] = p[k - 1] * s[k]
  BY DEF Partials, Combined, Neutral
<1> DEFINE T == {k \in Nat : k <= n /\ p[k] \notin Nat}
<1>4. T = {}
  <2> SUFFICES ASSUME T # {} PROVE FALSE
    OBVIOUS
  <2>1. PICK k \in T : \A j \in T : k <= j
    <3>1. T \in SUBSET Nat
      OBVIOUS
    <3>. HIDE DEF T
    <3>. QED BY <3>1, LeastNat
  <2>2. k \in Nat /\ k <= n /\ p[k] \notin Nat /\ k # 0
    BY <1>3
  <2>3. k \in 1 .. n /\ k - 1 \in Nat /\ k - 1 <= n /\ ~(k <= k - 1)
    BY <2>2
  <2>4. p[k - 1] \in Nat /\ s[k] \in Nat
    BY <2>1, <2>3
  <2>5. p[k - 1] * s[k] \in Nat
    BY <2>4
  <2>. QED BY <1>3, <2>2, <2>3, <2>5
<1>. QED BY <1>2, <1>4

\* The first extent can be taken out of the product.
LEMMA VolumeTail ==
  ASSUME NEW n \in Nat, NEW s, NEW t, DOMAIN s = 1 .. n + 1, DOMAIN t = 1 .. n,
         \A i \in 1 .. n + 1 : s[i] \in Nat, \A i \in 1 .. n : t[i] = s[i + 1]
  PROVE  volume(s) = s[1] * volume(t)
<1>1. \A i \in 1 .. n : t[i] \in Nat
  OBVIOUS
<1>2. PICK p \in Partials("product", s, n + 1) : volume(s) = p[n + 1]
  <2>1. n + 1 \in Nat /\ \A i \in 1 .. n + 1 : s[i] \in Int
    OBVIOUS
  <2>. QED BY <2>1, VolumeIs
<1>3. PICK q \in Partials("product", t, n) : volume(t) = q[n]
  BY <1>1, VolumeIs
<1>4. p \in [0 .. n + 1 -> Int] /\ p[0] = 1 /\ \A k \in 1 .. n + 1 : p[k] = p[k - 1] * s[k]
  BY DEF Partials, Combined, Neutral
<1>5. q \in [0 .. n -> Int] /\ q[0] = 1 /\ \A k \in 1 .. n : q[k] = q[k - 1] * t[k]
  BY DEF Partials, Combined, Neutral
<1> DEFINE T == {k \in Nat : k <= n /\ p[k + 1] # s[1] * q[k]}
<1>6. T = {}
  <2> SUFFICES ASSUME T # {} PROVE FALSE
    OBVIOUS
  <2>1. PICK k \in T : \A j \in T : k <= j
    <3>1. T \in SUBSET Nat
      OBVIOUS
    <3>. HIDE DEF T
    <3>. QED BY <3>1, LeastNat
  <2>2. k \in Nat /\ k <= n /\ p[k + 1] # s[1] * q[k]
    OBVIOUS
  <2>3. CASE k = 0
    <3>1. p[1] = 1 * s[1] /\ s[1] \in Nat
      <4>1. 1 \in 1 .. n + 1 /\ 1 - 1 = 0
        OBVIOUS
      <4>. QED BY <1>4, <4>1
    <3>2. p[k + 1] = s[1] /\ q[k] = 1
      BY <1>5, <2>3, <3>1
    <3>. QED BY <2>2, <3>1, <3>2
  <2>4. CASE k # 0
    <3>1. k \in 1 .. n /\ k + 1 \in 1 .. n + 1 /\ k - 1 \in Nat /\ k - 1 <= n
          /\ ~(k <= k - 1) /\ k - 1 + 1 = k /\ k + 1 - 1 = k
      BY <2>2, <2>4
    <3>2. p[k] = s[1] * q[k - 1]
      BY <2>1, <3>1
    <3>3. p[k + 1] = p[k] * s[k + 1] /\ q[k] = q[k - 1] * t[k] /\ t[k] = s[k + 1]
      BY <1>4, <1>5, <3>1
    <3> DEFINE a == s[1]
               b == q[k - 1]
               c == s[k + 1]
    <3>4. a \in Int /\ b \in Int /\ c \in Int
      BY <1>5, <3>1
    <3>5. p[k + 1] = (a * b) * c /\ q[k] = b * c
      BY <3>2, <3>3
    <3>. HIDE DEF a, b, c
    <3>6. (a * b) * c = a * (b * c)
      BY <3>4
    <3>. QED BY <2>2, <3>5, <3>6 DEF a
  <2>. QED BY <2>3, <2>4
<1>. QED BY <1>2, <1>3, <1>6

\* The elements behind each axis.
Behind(s) == [i \in 0 .. Len(s) |-> volume(SubSeq(s, i + 1, Len(s)))]

LEMMA SuffixFacts ==
  ASSUME NEW s \in Seq(Nat), NEW i \in 0 .. Len(s)
  PROVE  /\ Len(s) \in Nat
         /\ DOMAIN SubSeq(s, i + 1, Len(s)) = 1 .. Len(s) - i
         /\ \A j \in 1 .. Len(s) - i : /\ SubSeq(s, i + 1, Len(s))[j] = s[i + j]
                                       /\ s[i + j] \in Nat
<1>1. Len(s) \in Nat /\ DOMAIN s = 1 .. Len(s) /\ \A j \in 1 .. Len(s) : s[j] \in Nat
  OBVIOUS
<1>2. SubSeq(s, i + 1, Len(s)) = [j \in 1 .. (1 + Len(s) - (i + 1)) |-> s[(i + 1) + j - 1]]
  BY <1>1
<1>3. 1 + Len(s) - (i + 1) = Len(s) - i
  BY <1>1
<1>4. ASSUME NEW j \in 1 .. Len(s) - i
      PROVE  (i + 1) + j - 1 = i + j /\ i + j \in 1 .. Len(s)
  BY <1>1
<1>. QED BY <1>1, <1>2, <1>3, <1>4

LEMMA BehindWeights ==
  ASSUME NEW s \in Seq(Nat)
  PROVE  Weights(Len(s), s, Behind(s)) /\ Behind(s)[0] = volume(s)
<1> DEFINE n == Len(s)
           Suffix(i) == SubSeq(s, i + 1, n)
<1>1. n \in Nat /\ s \in [1 .. n -> Nat]
  OBVIOUS
<1>2. ASSUME NEW i \in 0 .. n
      PROVE  /\ DOMAIN Suffix(i) = 1 .. n - i
             /\ \A j \in 1 .. n - i : Suffix(i)[j] = s[i + j] /\ s[i + j] \in Nat
  BY SuffixFacts
<1>3. \A i \in 0 .. n : Behind(s)[i] = volume(Suffix(i))
  BY DEF Behind
<1>4. Suffix(0) = s
  <2>1. SubSeq(s, 0 + 1, n) = [j \in 1 .. n |-> s[j]]
    BY <1>1
  <2>. QED BY <1>1, <2>1
<1>. HIDE DEF Suffix
<1>5. ASSUME NEW i \in 0 .. n PROVE volume(Suffix(i)) \in Nat
  <2>1. n - i \in Nat /\ \A j \in 1 .. n - i : Suffix(i)[j] \in Nat
    BY <1>1, <1>2
  <2>. QED BY <1>2, <2>1, VolumeNat
<1>6. volume(Suffix(n)) = 1
  <2>1. DOMAIN Suffix(n) = 1 .. 0
    BY <1>1, <1>2
  <2>2. PICK p \in Partials("product", Suffix(n), 0) : volume(Suffix(n)) = p[0]
    BY <2>1, VolumeIs
  <2>. QED BY <2>2 DEF Partials, Neutral
<1>7. ASSUME NEW i \in 1 .. n PROVE volume(Suffix(i - 1)) = s[i] * volume(Suffix(i))
  <2> DEFINE k == n - i
             a == Suffix(i - 1)
             b == Suffix(i)
  <2>1. k \in Nat /\ i \in 0 .. n /\ i - 1 \in 0 .. n /\ n - (i - 1) = k + 1
    BY <1>1
  <2>2. DOMAIN a = 1 .. k + 1 /\ DOMAIN b = 1 .. k
    BY <1>2, <2>1
  <2>3. \A j \in 1 .. k + 1 : a[j] = s[i - 1 + j] /\ a[j] \in Nat
    BY <1>2, <2>1
  <2>4. ASSUME NEW j \in 1 .. k PROVE b[j] = a[j + 1]
    <3>1. j + 1 \in 1 .. k + 1 /\ i - 1 + (j + 1) = i + j
      BY <2>1
    <3>2. b[j] = s[i + j]
      BY <1>2, <2>1
    <3>. QED BY <2>3, <3>1, <3>2
  <2>5. a[1] = s[i]
    <3>1. 1 \in 1 .. k + 1 /\ i - 1 + 1 = i
      BY <2>1
    <3>. QED BY <2>3, <3>1
  <2>. HIDE DEF a, b, k
  <2>6. volume(a) = a[1] * volume(b)
    <3>1. \A j \in 1 .. k + 1 : a[j] \in Nat
      BY <2>3
    <3>2. \A j \in 1 .. k : b[j] = a[j + 1]
      BY <2>4
    <3>3. k \in Nat
      BY <2>1
    <3>. QED BY <2>2, <3>1, <3>2, <3>3, VolumeTail, Zenon
  <2>. QED BY <2>5, <2>6 DEF a, b
<1>8. Behind(s) \in [0 .. n -> Nat]
  BY <1>3, <1>5 DEF Behind
<1>9. \A i \in 1 .. n : Behind(s)[i - 1] = s[i] * Behind(s)[i]
  <2>1. \A i \in 1 .. n : i \in 0 .. n /\ i - 1 \in 0 .. n
    BY <1>1
  <2>. QED BY <1>3, <1>7, <2>1
<1>10. Behind(s)[n] = 1 /\ Behind(s)[0] = volume(s)
  BY <1>1, <1>3, <1>4, <1>6
<1>. QED BY <1>1, <1>8, <1>9, <1>10 DEF Weights

\* The greatest extent bounds them all.
LEMMA ExtentsBounded ==
  ASSUME NEW s \in Seq(Nat)
  PROVE  /\ Max({0} \cup {s[j] : j \in 1 .. Len(s)}) \in Nat
         /\ \A i \in 1 .. Len(s) : s[i] <= Max({0} \cup {s[j] : j \in 1 .. Len(s)})
<1> DEFINE n == Len(s)
           S == {0} \cup {s[j] : j \in 1 .. n}
           Bounds == {b \in Nat : \A x \in S : x <= b}
<1>1. n \in Nat /\ \A i \in 1 .. n : s[i] \in Nat
  OBVIOUS
<1>2. S \in SUBSET Nat /\ 0 \in S
  BY <1>1
<1>3. \A k \in Nat : k <= n => \E b \in Nat : \A i \in 1 .. k : s[i] <= b
  <2> DEFINE T == {k \in Nat : k <= n /\ ~\E b \in Nat : \A i \in 1 .. k : s[i] <= b}
  <2> SUFFICES ASSUME T # {} PROVE FALSE
    OBVIOUS
  <2>1. PICK k \in T : \A j \in T : k <= j
    <3>1. T \in SUBSET Nat
      OBVIOUS
    <3>. HIDE DEF T
    <3>. QED BY <3>1, LeastNat
  <2>2. k \in Nat /\ k <= n /\ ~\E b \in Nat : \A i \in 1 .. k : s[i] <= b
    OBVIOUS
  <2>3. k # 0
    <3>1. \A i \in 1 .. 0 : s[i] <= 0
      OBVIOUS
    <3>. QED BY <2>2, <3>1
  <2>4. k - 1 \in Nat /\ k - 1 <= n /\ ~(k <= k - 1) /\ k \in 1 .. n
    BY <1>1, <2>2, <2>3
  <2>5. PICK b \in Nat : \A i \in 1 .. k - 1 : s[i] <= b
    BY <2>1, <2>4
  <2>. HIDE DEF T
  <2>6. s[k] \in Nat
    BY <1>1, <2>4
  <2> DEFINE e == s[k]
  <2>7. e \in Nat /\ b \in Nat /\ b + e \in Nat
    BY <2>5, <2>6
  <2>8. ASSUME NEW i \in 1 .. k PROVE s[i] <= b + e
    <3>1. CASE i = k
      <4>1. s[i] = e
        BY <3>1
      <4>. HIDE DEF e
      <4>. QED BY <2>7, <4>1
    <3>2. CASE i # k
      <4>1. i \in 1 .. k - 1 /\ i \in 1 .. n
        BY <1>1, <2>2, <3>2
      <4>2. s[i] <= b /\ s[i] \in Nat
        BY <1>1, <2>5, <4>1
      <4>. HIDE DEF e
      <4>3. s[i] <= b + e
        BY <2>7, <4>2
      <4>. QED BY <4>3
    <3>. QED BY <3>1, <3>2
  <2>. HIDE DEF e
  <2>. QED BY <2>2, <2>7, <2>8
<1>4. Bounds # {}
  <2>1. PICK b \in Nat : \A i \in 1 .. n : s[i] <= b
    <3>1. n \in Nat /\ n <= n
      BY <1>1
    <3>. QED BY <1>3, <3>1
  <2>2. \A x \in S : x <= b
    BY <2>1
  <2>. QED BY <2>2
<1>5. PICK b \in Bounds : \A c \in Bounds : b <= c
  <2>1. Bounds \in SUBSET Nat
    OBVIOUS
  <2>. HIDE DEF Bounds
  <2>. QED BY <1>4, <2>1, LeastNat
<1>6. b \in Nat /\ \A x \in S : x <= b
  OBVIOUS
<1>. HIDE DEF S
<1>7. b \in S
  <2> SUFFICES ASSUME b \notin S PROVE FALSE
    OBVIOUS
  <2>1. b # 0
    BY <1>2
  <2>2. b - 1 \in Nat /\ ~(b <= b - 1)
    BY <1>6, <2>1
  <2>3. ASSUME NEW x \in S PROVE x <= b - 1
    <3>1. x \in Nat /\ x <= b /\ x # b
      BY <1>2, <1>6
    <3>. QED BY <1>6, <3>1
  <2>4. b - 1 \in Bounds
    BY <2>2, <2>3
  <2>. QED BY <1>5, <2>2, <2>4
<1>8. \E x \in S : \A y \in S : x >= y
  <2>1. \A y \in S : b >= y
    BY <1>2, <1>6
  <2>. QED BY <1>7, <2>1
<1>9. Max(S) \in S /\ \A y \in S : Max(S) >= y
  <2>1. Max(S) = CHOOSE x \in S : \A y \in S : x >= y
    BY DEF Max
  <2>. QED BY <1>8, <2>1, Zenon
<1>10. ASSUME NEW i \in 1 .. n PROVE s[i] <= Max(S)
  <2>1. s[i] \in S
    BY DEF S
  <2>2. s[i] \in Nat /\ Max(S) \in Nat /\ Max(S) >= s[i]
    BY <1>2, <1>9, <2>1
  <2>. QED BY <2>2
<1>11. Max(S) \in Nat
  BY <1>2, <1>9
<1>. QED BY <1>10, <1>11 DEF S

LEMMA IndicesAre ==
  ASSUME NEW s \in Seq(Nat)
  PROVE  Indices(s) = MultiIndices(Len(s), s)
<1> DEFINE n == Len(s)
           top == Max({0} \cup {s[i] : i \in 1 .. n})
<1>1. n \in Nat /\ \A i \in 1 .. n : s[i] \in Nat
  OBVIOUS
<1>2. top \in Nat /\ \A i \in 1 .. n : s[i] <= top
  BY ExtentsBounded
<1>3. Indices(s) = {f \in [1 .. n -> 0 .. top] : \A i \in 1 .. n : f[i] < s[i]}
  BY DEF Indices
<1>. HIDE DEF top
<1>4. ASSUME NEW f \in [1 .. n -> Nat], \A i \in 1 .. n : f[i] < s[i]
      PROVE  f \in [1 .. n -> 0 .. top]
  <2>1. ASSUME NEW i \in 1 .. n PROVE f[i] \in 0 .. top
    <3>1. f[i] \in Nat /\ f[i] < s[i] /\ s[i] <= top /\ s[i] \in Nat
      BY <1>1, <1>2, <1>4
    <3>. QED BY <1>2, <3>1
  <2>. QED BY <2>1
<1>5. ASSUME NEW f \in [1 .. n -> 0 .. top] PROVE f \in [1 .. n -> Nat]
  BY <1>2
<1>. QED BY <1>3, <1>4, <1>5 DEF MultiIndices

\* r is stride without the axis d, and w is m with c in place d.
IsMoved(n, stride, m, d, c, r, w) ==
  /\ n \in Nat /\ d \in 1 .. n /\ c \in Nat
  /\ stride \in [1 .. n -> Nat] /\ m \in [1 .. n -> Nat]
  /\ r = [stride EXCEPT ![d] = 0] /\ w = [m EXCEPT ![d] = c]

\* To put c in place d of a multi-index is to take the axis d out of the
\* strides and to add its offset.
LEMMA AddrMoved ==
  ASSUME NEW n, NEW stride, NEW m, NEW d, NEW c, NEW r, NEW w,
         IsMoved(n, stride, m, d, c, r, w)
  PROVE  Addr(r, m) + c * stride[d] = Addr(stride, w)
<1>0. /\ n \in Nat /\ d \in 1 .. n /\ c \in Nat
      /\ stride \in [1 .. n -> Nat] /\ m \in [1 .. n -> Nat]
      /\ r = [stride EXCEPT ![d] = 0] /\ w = [m EXCEPT ![d] = c]
  BY DEF IsMoved
<1> USE <1>0
<1> DEFINE s == [i \in 1 .. n |-> r[i] * m[i]]
           t == [i \in 1 .. n |-> stride[i] * w[i]]
           b == c * stride[d]
<1>1. r \in [1 .. n -> Int] /\ m \in [1 .. n -> Int]
  OBVIOUS
<1>2. stride \in [1 .. n -> Int] /\ w \in [1 .. n -> Int]
  OBVIOUS
<1>3. PICK p \in Partials("sum", s, n) : Addr(r, m) = p[n]
  BY <1>1, AddrIs
<1>4. PICK q \in Partials("sum", t, n) : Addr(stride, w) = q[n]
  BY <1>2, AddrIs
<1>5. b \in Nat
  OBVIOUS
<1>6. ASSUME NEW i \in 1 .. n
      PROVE  s[i] \in Int /\ t[i] = IF i = d THEN s[i] + b ELSE s[i]
  <2>1. CASE i = d
    <3>1. s[i] = 0 * m[d] /\ m[d] \in Nat
      BY <2>1
    <3>2. t[i] = stride[d] * c /\ stride[d] \in Nat
      BY <2>1
    <3>3. stride[d] * c = b
      BY <3>2
    <3>. QED BY <1>5, <2>1, <3>1, <3>2, <3>3
  <2>2. CASE i # d
    <3>1. r[i] = stride[i] /\ w[i] = m[i] /\ stride[i] \in Nat /\ m[i] \in Nat
      BY <2>2
    <3>. QED BY <2>2, <3>1
  <2>. QED BY <2>1, <2>2
<1>7. /\ p \in [0 .. n -> Int] /\ p[0] = 0 /\ \A k \in 1 .. n : p[k] = p[k - 1] + s[k]
      /\ q \in [0 .. n -> Int] /\ q[0] = 0 /\ \A k \in 1 .. n : q[k] = q[k - 1] + t[k]
  BY DEF Partials, Combined, Neutral
<1>. HIDE DEF s, t, b
<1> DEFINE T == {k \in Nat : k <= n /\ q[k] # IF k < d THEN p[k] ELSE p[k] + b}
<1>8. T = {}
  <2> SUFFICES ASSUME T # {} PROVE FALSE
    OBVIOUS
  <2>1. PICK k \in T : \A j \in T : k <= j
    <3>1. T \in SUBSET Nat
      OBVIOUS
    <3>. HIDE DEF T
    <3>. QED BY <3>1, LeastNat
  <2>2. k \in Nat /\ k <= n /\ q[k] # IF k < d THEN p[k] ELSE p[k] + b
    OBVIOUS
  <2>3. k # 0
    BY <1>7, <2>2
  <2>4. k \in 1 .. n /\ k - 1 \in Nat /\ k - 1 <= n /\ ~(k <= k - 1)
    BY <2>2, <2>3
  <2>5. q[k - 1] = IF k - 1 < d THEN p[k - 1] ELSE p[k - 1] + b
    BY <2>1, <2>4
  <2>6. p[k] = p[k - 1] + s[k] /\ q[k] = q[k - 1] + t[k]
    BY <1>7, <2>4
  <2>7. t[k] = IF k = d THEN s[k] + b ELSE s[k]
    BY <1>6, <2>4
  <2>8. p[k - 1] \in Int /\ s[k] \in Int
    <3>1. k - 1 \in 0 .. n
      BY <2>4
    <3>. QED BY <1>6, <1>7, <2>4, <3>1
  <2>9. k \in Int /\ d \in Int
    BY <2>4
  <2> DEFINE x == p[k - 1]
             y == s[k]
  <2>10. x \in Int /\ y \in Int /\ p[k] = x + y /\ q[k] = q[k - 1] + t[k]
    BY <2>6, <2>8
  <2>. HIDE DEF x, y
  <2>11. q[k - 1] = (IF k - 1 < d THEN x ELSE x + b) /\ t[k] = IF k = d THEN y + b ELSE y
    BY <2>5, <2>7 DEF x, y
  <2>12. q[k] = IF k < d THEN x + y ELSE x + y + b
    <3>1. CASE k < d
      <4>1. k - 1 < d /\ k # d
        BY <2>9, <3>1
      <4>. QED BY <2>10, <2>11, <3>1, <4>1
    <3>2. CASE k = d
      <4>1. k - 1 < d /\ ~(k < d)
        BY <2>9, <3>2
      <4>2. q[k] = x + (y + b)
        BY <2>10, <2>11, <3>2, <4>1
      <4>. QED BY <1>5, <2>10, <4>1, <4>2
    <3>3. CASE ~(k < d) /\ k # d
      <4>1. ~(k - 1 < d)
        BY <2>9, <3>3
      <4>2. q[k] = (x + b) + y
        BY <2>10, <2>11, <3>3, <4>1
      <4>. QED BY <1>5, <2>10, <3>3, <4>2
    <3>. QED BY <3>1, <3>2, <3>3
  <2>. QED BY <2>2, <2>10, <2>12
<1>9. q[n] = p[n] + b
  <2>1. n \notin T
    <3>. HIDE DEF T
    <3>. QED BY <1>8
  <2>2. n \in Nat /\ n <= n /\ ~(n < d)
    BY <1>0
  <2>. QED BY <2>1, <2>2
<1>. QED BY <1>3, <1>4, <1>9 DEF b
-----------------------------------------------------------------------------
(***************************************************************************)
(* masked_select: the arrival counter and the scan                         *)
(***************************************************************************)
\* Programs that have counted themselves in.
Arrived == {r \in Rows : pc[r] \notin {"sum", "count"}}

ProgramsOK ==
  /\ N \in Lengths /\ selected \in SUBSET (0 .. N - 1)
  /\ pc \in [Rows -> {"sum", "count", "load", "scan", "write", "exited"}]
  /\ launch = "sums" => \A r \in Rows : pc[r] # "write"
  /\ DOMAIN part_sums = 0 .. np
  /\ DOMAIN loaded = Rows

\* The counter tells how many have counted themselves in.
CounterCounts == launch = "sums" => counter = Cardinality(Arrived)

\* As long as somebody has to do something in the first launch, the sums of
\* the programs that are past their store are counts and not yet places.
CountsStored ==
  (launch = "sums" /\ \E q \in Rows : pc[q] # "exited") =>
    \A r \in Rows : pc[r] # "sum" => part_sums[r] = row_count(r)

IInv ==
  ProgramsOK /\ CounterCounts /\ CountsStored /\ ScannerLast /\ SumsComplete

\* Quotients rounded up.
LEMMA DivNat ==
  ASSUME NEW a \in Nat, NEW b \in Nat \ {0}
  PROVE  cdiv(a, b) \in Nat /\ (a > 0 => cdiv(a, b) > 0)
  BY DEF cdiv

\* There are finitely many programs, np of them.
LEMMA RowsFinite ==
  ASSUME N \in Lengths
  PROVE  np \in Nat /\ IsFiniteSet(Rows) /\ Cardinality(Rows) = np
  <1> USE MaskedSelectAssumption
  <1>1. n_blocks \in Nat \ {0}
    BY DivNat DEF n_blocks
  <1>2. Least(n_blocks, multi_processor_count) \in Nat \ {0}
    BY <1>1 DEF Least
  <1>3. n_blocks_per_row \in Nat \ {0}
    BY <1>1, <1>2, DivNat DEF n_blocks_per_row
  <1>4. np \in Nat
    BY <1>1, <1>3, DivNat DEF np
  <1>5. QED
    BY <1>4, FS_Interval DEF Rows

\* The input does not change, and so neither do the rows nor their counts.
LEMMA Unmoved ==
  ASSUME N' = N, selected' = selected
  PROVE  np' = np /\ Rows' = Rows /\ \A r : row_count(r)' = row_count(r)
  <1>1. np' = np /\ n_blocks' = n_blocks /\ n_blocks_per_row' = n_blocks_per_row
    BY DEF np, n_blocks_per_row, n_blocks
  <1>2. QED
    BY <1>1 DEF Rows, row_count, last_block_id, start_block

-----------------------------------------------------------------------------
(***************************************************************************)
(* Rows of blocks, and what is selected in them                            *)
(***************************************************************************)
Input == N \in Lengths /\ selected \in SUBSET (0 .. N - 1)

LEMMA RowFacts ==
  ASSUME N \in Lengths
  PROVE  /\ BLOCK_SIZE \in Nat \ {0} /\ N \in Nat
         /\ n_blocks \in Nat \ {0} /\ n_blocks_per_row \in Nat \ {0}
         /\ np \in Nat \ {0} /\ N <= n_blocks * BLOCK_SIZE
         /\ start_block(0) = 0 /\ n_blocks <= start_block(np)
         /\ \A r \in Nat : /\ start_block(r) \in Nat
                           /\ start_block(r + 1) = start_block(r) + n_blocks_per_row
         /\ \A r \in Rows : start_block(r) < n_blocks
<1>1. BLOCK_SIZE \in Nat \ {0} /\ N \in Nat \ {0} /\ multi_processor_count \in Nat \ {0}
  BY MaskedSelectAssumption
<1>2. n_blocks \in Nat \ {0} /\ N <= n_blocks * BLOCK_SIZE
  <2>1. N > 0 /\ N \in Nat
    BY <1>1
  <2>2. cdiv(N, BLOCK_SIZE) \in Nat /\ cdiv(N, BLOCK_SIZE) > 0
    BY <1>1, <2>1, DivNat
  <2>3. N <= cdiv(N, BLOCK_SIZE) * BLOCK_SIZE
    BY <1>1, <2>1, CdivFacts
  <2>. QED BY <2>2, <2>3 DEF n_blocks
<1>3. Least(n_blocks, multi_processor_count) \in Nat \ {0}
  BY <1>1, <1>2 DEF Least
<1>4. n_blocks_per_row \in Nat \ {0}
  BY <1>2, <1>3, DivNat DEF n_blocks_per_row
<1>5. np \in Nat \ {0} /\ n_blocks <= np * n_blocks_per_row
  <2> DEFINE n == n_blocks
             k == n_blocks_per_row
  <2>1. n \in Nat /\ n > 0 /\ k \in Nat \ {0}
    BY <1>2, <1>4
  <2>. HIDE DEF n, k
  <2>2. cdiv(n, k) \in Nat /\ cdiv(n, k) > 0
    BY <2>1, DivNat
  <2>3. n <= cdiv(n, k) * k
    BY <2>1, CdivFacts
  <2>. QED BY <2>2, <2>3 DEF np, n, k
<1>6. \A r \in Rows : r * n_blocks_per_row < n_blocks
  BY <1>2, <1>4, <1>5, MultipleBelow DEF np, Rows
<1> DEFINE k == n_blocks_per_row
<1>7. k \in Nat
  BY <1>4
<1> HIDE DEF k
<1>8. \A r \in Nat : r * k \in Nat /\ (r + 1) * k = r * k + k
  BY <1>7
<1>9. 0 * k = 0
  BY <1>7
<1>. QED BY <1>1, <1>2, <1>4, <1>5, <1>6, <1>8, <1>9 DEF start_block, k

\* The last block of a row is its last one, or the last of all.
LEMMA LastBlock ==
  ASSUME N \in Lengths, NEW r \in Rows
  PROVE  /\ r \in Nat /\ start_block(r) \in Nat /\ last_block_id(r) \in Nat
         /\ start_block(r) <= last_block_id(r) /\ last_block_id(r) < n_blocks
         /\ \A b \in Nat : b < n_blocks =>
              (b <= last_block_id(r) <=> b < start_block(r + 1))
<1>1. r \in Nat
  BY RowFacts DEF Rows
<1> DEFINE s == start_block(r)
           k == n_blocks_per_row
           n == n_blocks
           l == last_block_id(r)
<1>2. s \in Nat /\ k \in Nat \ {0} /\ n \in Nat \ {0} /\ s < n
      /\ start_block(r + 1) = s + k
  BY <1>1, RowFacts
<1>3. l = IF n - 1 < s + k - 1 THEN n - 1 ELSE s + k - 1
  BY DEF last_block_id, Least
<1> HIDE DEF s, k, n, l
<1>4. l \in Nat /\ s <= l /\ l < n
  BY <1>2, <1>3
<1>5. \A b \in Nat : b < n => (b <= l <=> b < s + k)
  BY <1>2, <1>3
<1>. QED BY <1>1, <1>2, <1>4, <1>5 DEF s, n, l

LEMMA ElementFacts ==
  ASSUME Input, NEW i \in selected
  PROVE  i \in Nat /\ i \div BLOCK_SIZE \in Nat /\ i \div BLOCK_SIZE < n_blocks
<1>1. i \in Nat /\ i < N /\ N \in Nat /\ BLOCK_SIZE \in Nat \ {0}
      /\ N <= n_blocks * BLOCK_SIZE /\ n_blocks \in Nat
  BY RowFacts DEF Input
<1> DEFINE b == i \div BLOCK_SIZE
           m == n_blocks * BLOCK_SIZE
<1>2. i = b * BLOCK_SIZE + (i % BLOCK_SIZE) /\ i % BLOCK_SIZE \in Nat /\ b \in Nat
  BY <1>1, DivMod
<1>3. m \in Nat
  BY <1>1
<1> HIDE DEF b
<1>4. b * BLOCK_SIZE \in Nat
  BY <1>1, <1>2
<1>5. b * BLOCK_SIZE < m
  <2>. HIDE DEF m
  <2>1. N <= m
    BY <1>1 DEF m
  <2>. QED BY <1>1, <1>2, <1>3, <1>4, <2>1
<1>6. b < n_blocks
  BY <1>1, <1>2, <1>5, FactorLess
<1>. QED BY <1>1, <1>2, <1>6 DEF b

\* Every block is in a row.
LEMMA RowOf ==
  ASSUME N \in Lengths, NEW b \in Nat, b < n_blocks
  PROVE  \E r \in Rows : start_block(r) <= b /\ b <= last_block_id(r)
<1> DEFINE T == {r \in Nat : b < start_block(r)}
<1>1. n_blocks \in Nat /\ np \in Nat /\ start_block(np) \in Nat
      /\ n_blocks <= start_block(np) /\ start_block(0) = 0
  BY RowFacts
<1>2. np \in T
  BY <1>1
<1>3. PICK q \in T : \A r \in T : q <= r
  BY <1>2, LeastNat
<1>4. q \in Nat /\ q # 0 /\ q <= np
  BY <1>1, <1>2, <1>3
<1>5. q - 1 \in Nat /\ q - 1 \notin T /\ (q - 1) + 1 = q /\ q - 1 \in Rows
  BY <1>1, <1>3, <1>4 DEF Rows
<1>6. start_block(q - 1) \in Nat /\ start_block(q - 1) <= b /\ b < start_block(q)
  BY <1>3, <1>5, RowFacts
<1>7. b <= last_block_id(q - 1)
  BY <1>5, <1>6, LastBlock
<1>. QED BY <1>5, <1>6, <1>7

\* Selected elements in the blocks before block b.
Below(b) == Cardinality({i \in selected : i \div BLOCK_SIZE < b})

LEMMA SelectedFinite ==
  ASSUME Input, NEW S \in SUBSET selected
  PROVE  IsFiniteSet(S) /\ Cardinality(S) \in Nat
<1>1. N \in Nat
  BY RowFacts DEF Input
<1>2. IsFiniteSet(0 .. N - 1)
  BY <1>1, FS_Interval
<1>3. S \subseteq 0 .. N - 1
  BY DEF Input
<1>. QED BY <1>2, <1>3, FS_Subset, FS_CardinalityType

LEMMA DisjointCount ==
  ASSUME Input, NEW S \in SUBSET selected, NEW T \in SUBSET selected, S \cap T = {}
  PROVE  Cardinality(S \cup T) = Cardinality(S) + Cardinality(T)
<1>1. IsFiniteSet(S) /\ IsFiniteSet(T) /\ Cardinality(S) \in Nat /\ Cardinality(T) \in Nat
  BY SelectedFinite
<1>2. Cardinality(S \cup T) = Cardinality(S) + Cardinality(T) - Cardinality(S \cap T)
  BY <1>1, FS_Union
<1>3. Cardinality(S \cap T) = 0
  BY FS_EmptySet
<1>. QED BY <1>1, <1>2, <1>3

LEMMA BelowZero == ASSUME Input PROVE Below(0) = 0
<1>1. {i \in selected : i \div BLOCK_SIZE < 0} = {}
  BY ElementFacts
<1>. QED BY <1>1, FS_EmptySet DEF Below

LEMMA BelowAll ==
  ASSUME Input, NEW b \in Nat, n_blocks <= b
  PROVE  Below(b) = Cardinality(selected)
<1>1. n_blocks \in Nat
  BY RowFacts DEF Input
<1>2. {i \in selected : i \div BLOCK_SIZE < b} = selected
  BY <1>1, ElementFacts
<1>. QED BY <1>2 DEF Below

LEMMA BelowNext ==
  ASSUME Input, NEW b \in Nat
  PROVE  Below(b + 1) = Below(b) + Cardinality(InBlock(b))
<1> DEFINE S == {i \in selected : i \div BLOCK_SIZE < b}
           T == InBlock(b)
           U == {i \in selected : i \div BLOCK_SIZE < b + 1}
<1>1. U = S \cup T /\ S \cap T = {}
  BY ElementFacts DEF InBlock
<1>2. S \in SUBSET selected /\ T \in SUBSET selected
  BY DEF InBlock
<1> HIDE DEF S, T, U
<1>3. Cardinality(U) = Cardinality(S) + Cardinality(T)
  BY <1>1, <1>2, DisjointCount
<1>. QED BY <1>3 DEF Below, S, T, U

LEMMA BelowRow ==
  ASSUME Input, NEW r \in Rows
  PROVE  Below(start_block(r + 1)) = Below(start_block(r)) + row_count(r)
<1> DEFINE s == start_block(r)
           e == start_block(r + 1)
           S == {i \in selected : i \div BLOCK_SIZE < s}
           T == {i \in selected : i \div BLOCK_SIZE \in s .. last_block_id(r)}
           U == {i \in selected : i \div BLOCK_SIZE < e}
<1>1. /\ r \in Nat /\ s \in Nat /\ last_block_id(r) \in Nat
      /\ \A b \in Nat : b < n_blocks => (b <= last_block_id(r) <=> b < e)
  BY LastBlock DEF Input
<1>2. e \in Nat /\ s <= e
  BY <1>1, RowFacts DEF Input
<1> HIDE DEF s, e
<1>3. ASSUME NEW i \in selected
      PROVE  /\ i \in U <=> i \in S \/ i \in T
             /\ ~(i \in S /\ i \in T)
  <2> DEFINE b == i \div BLOCK_SIZE
  <2>1. b \in Nat /\ (b <= last_block_id(r) <=> b < e)
    BY <1>1, ElementFacts
  <2>. HIDE DEF b
  <2>2. /\ b < e <=> b < s \/ b \in s .. last_block_id(r)
        /\ ~(b < s /\ b \in s .. last_block_id(r))
    BY <1>1, <1>2, <2>1
  <2>. QED BY <2>2 DEF b
<1>4. U = S \cup T /\ S \cap T = {}
  BY <1>3
<1>5. S \in SUBSET selected /\ T \in SUBSET selected
  OBVIOUS
<1> HIDE DEF S, T, U
<1>6. Cardinality(U) = Cardinality(S) + Cardinality(T)
  BY <1>4, <1>5, DisjointCount
<1>. QED BY <1>6 DEF Below, row_count, s, e, S, T, U

\* Ranks grow, and are fewer than there are elements.
LEMMA PreLess ==
  ASSUME Input, NEW S \in SUBSET selected, NEW i \in selected,
         NEW T \in SUBSET selected, {j \in S : j < i} \cup {i} \subseteq T
  PROVE  pre_sum(S, i) \in Nat /\ pre_sum(S, i) < Cardinality(T)
<1> DEFINE U == {j \in S : j < i}
<1>1. IsFiniteSet(U) /\ Cardinality(U) \in Nat /\ IsFiniteSet(T) /\ Cardinality(T) \in Nat
  BY SelectedFinite
<1>2. i \notin U
  BY ElementFacts
<1> HIDE DEF U
<1>3. Cardinality(U \cup {i}) = Cardinality(U) + 1
  BY <1>1, <1>2, FS_AddElement
<1>4. Cardinality(U \cup {i}) <= Cardinality(T)
  BY <1>1, FS_Subset DEF U
<1>5. Cardinality(U) < Cardinality(T)
  BY <1>1, <1>3, <1>4
<1>. QED BY <1>1, <1>5 DEF pre_sum, U

LEMMA PreFacts ==
  ASSUME Input, NEW i \in selected
  PROVE  /\ pre_sum(selected, i) \in 0 .. Cardinality(selected) - 1
         /\ \A j \in selected : pre_sum(selected, i) = pre_sum(selected, j) => i = j
<1>1. ASSUME NEW x \in selected, NEW y \in selected, x < y
      PROVE  pre_sum(selected, x) < pre_sum(selected, y)
  <2> DEFINE T == {j \in selected : j < y}
  <2>1. {j \in selected : j < x} \cup {x} \subseteq T
    BY <1>1, ElementFacts
  <2>2. T \in SUBSET selected
    OBVIOUS
  <2>. HIDE DEF T
  <2>3. pre_sum(selected, x) < Cardinality(T)
    BY <2>1, <2>2, PreLess
  <2>. QED BY <2>3 DEF pre_sum, T
<1>2. \A x \in selected : pre_sum(selected, x) \in Nat
  BY PreLess
<1>3. pre_sum(selected, i) < Cardinality(selected)
  <2>1. {j \in selected : j < i} \cup {i} \subseteq selected
    OBVIOUS
  <2>. QED BY <2>1, PreLess
<1>4. Cardinality(selected) \in Nat
  BY SelectedFinite
<1>5. ASSUME NEW j \in selected, pre_sum(selected, i) = pre_sum(selected, j)
      PROVE  i = j
  <2>1. ~(i < j) /\ ~(j < i)
    BY <1>1, <1>2, <1>5
  <2>. QED BY <2>1, ElementFacts
<1>. QED BY <1>2, <1>3, <1>4, <1>5

\* An element's rank is that in its block behind all blocks before.
LEMMA PlaceIsRank ==
  ASSUME Input, NEW b \in Nat, NEW i \in InBlock(b)
  PROVE  Below(b) + pre_sum(InBlock(b), i) = pre_sum(selected, i)
<1> DEFINE S == {j \in selected : j \div BLOCK_SIZE < b}
           T == {j \in InBlock(b) : j < i}
           U == {j \in selected : j < i}
<1>1. i \in selected /\ i \div BLOCK_SIZE = b /\ i \in Nat
  BY ElementFacts DEF InBlock
<1>2. BLOCK_SIZE \in Nat \ {0}
  BY RowFacts DEF Input
<1>3. ASSUME NEW j \in selected
      PROVE  /\ j < i => j \div BLOCK_SIZE <= b
             /\ j \div BLOCK_SIZE < b => j < i
             /\ j \div BLOCK_SIZE \in Nat
  <2>1. j \in Nat /\ j \div BLOCK_SIZE \in Nat
    BY ElementFacts
  <2>2. j < i => j \div BLOCK_SIZE <= b
    BY <1>1, <1>2, <2>1, DivMono
  <2>3. i <= j => b <= j \div BLOCK_SIZE
    BY <1>1, <1>2, <2>1, DivMono
  <2>. QED BY <1>1, <2>1, <2>2, <2>3
<1>4. U = S \cup T
  BY <1>3 DEF InBlock
<1>5. S \cap T = {} /\ S \in SUBSET selected /\ T \in SUBSET selected
  BY <1>3 DEF InBlock
<1> HIDE DEF S, T, U
<1>6. Cardinality(U) = Cardinality(S) + Cardinality(T)
  BY <1>4, <1>5, DisjointCount
<1>. QED BY <1>6 DEF Below, pre_sum, S, T, U

-----------------------------------------------------------------------------
(***************************************************************************)
(* The first launch                                                        *)
(***************************************************************************)
\* The scan of all counts gives the places of the rows.
RowStarts == [q \in 0 .. np |-> Below(start_block(q))]

LEMMA ScanFacts ==
  ASSUME Input, NEW r \in Rows, Scan(r), \A q \in Rows : loaded[r][q] = row_count(q)
  PROVE  part_sums' = RowStarts
<1> DEFINE Sum(g) == [q \in 0 .. np |-> IF q = 0 THEN 0 ELSE g[q - 1] + loaded[r][q - 1]]
           sum == part_sums'
<1>1. sum = CHOOSE g : g = Sum(g)
  BY DEF Scan
<1>2. np \in Nat /\ start_block(0) = 0
  BY RowFacts DEF Input
<1>3. ASSUME NEW q \in 0 .. np, q # 0
      PROVE  /\ q - 1 \in Rows /\ q - 1 \in 0 .. np /\ q - 1 < q
             /\ Below(start_block(q)) = Below(start_block(q - 1)) + loaded[r][q - 1]
  <2>1. q - 1 \in Rows /\ q - 1 \in 0 .. np /\ (q - 1) + 1 = q /\ q - 1 < q
    BY <1>2, <1>3 DEF Rows
  <2>2. Below(start_block((q - 1) + 1)) = Below(start_block(q - 1)) + row_count(q - 1)
    BY <2>1, BelowRow
  <2>. QED BY <2>1, <2>2
<1>4. RowStarts = Sum(RowStarts)
  <2>1. ASSUME NEW q \in 0 .. np
        PROVE  Below(start_block(q))
               = IF q = 0 THEN 0 ELSE RowStarts[q - 1] + loaded[r][q - 1]
    <3>1. CASE q = 0
      BY <1>2, <3>1, BelowZero
    <3>2. CASE q # 0
      BY <1>3, <3>2 DEF RowStarts
    <3>. QED BY <3>1, <3>2
  <2>. QED BY <2>1 DEF RowStarts
<1>5. sum = Sum(sum)
  <2>. HIDE DEF Sum, sum
  <2>. QED BY <1>1, <1>4
<1> HIDE DEF sum
<1> DEFINE T == {q \in 0 .. np : sum[q] # RowStarts[q]}
<1>6. T = {}
  <2> SUFFICES ASSUME T # {} PROVE FALSE
    OBVIOUS
  <2>1. T \in SUBSET Nat
    OBVIOUS
  <2>2. PICK q \in T : \A p \in T : q <= p
    <3>. HIDE DEF T
    <3>. QED BY <2>1, LeastNat
  <2>3. q \in 0 .. np /\ sum[q] # RowStarts[q]
    OBVIOUS
  <2>4. q # 0
    <3>1. sum[0] = 0 /\ RowStarts[0] = 0
      BY <1>2, <1>5, BelowZero DEF RowStarts
    <3>. QED BY <2>3, <3>1
  <2>5. q - 1 \in 0 .. np /\ q - 1 < q /\ q - 1 \in Nat
    BY <1>3, <2>3, <2>4
  <2>6. sum[q - 1] = RowStarts[q - 1]
    BY <2>2, <2>5
  <2>7. sum[q] = sum[q - 1] + loaded[r][q - 1]
    BY <1>5, <2>3, <2>4
  <2>8. RowStarts[q] = RowStarts[q - 1] + loaded[r][q - 1]
    BY <1>3, <2>3, <2>4, <2>5 DEF RowStarts
  <2>. QED BY <2>3, <2>6, <2>7, <2>8
<1>7. \A q \in 0 .. np : sum[q] = RowStarts[q]
  BY <1>6
<1>8. DOMAIN sum = 0 .. np
  BY <1>5
<1>9. sum = RowStarts
  <2>1. sum = [q \in 0 .. np |-> sum[q]]
    BY <1>5
  <2>. QED BY <1>7, <2>1 DEF RowStarts
<1>. QED BY <1>9 DEF sum

LEMMA InitInv == Init => IInv
  <1> SUFFICES ASSUME Init PROVE IInv
    OBVIOUS
  <1>1. ProgramsOK
    BY DEF Init, ProgramsOK
  <1>2. Arrived = {}
    BY DEF Init, Arrived
  <1>3. CounterCounts
    BY <1>2, FS_EmptySet DEF Init, CounterCounts
  <1>4. CountsStored /\ ScannerLast /\ SumsComplete
    BY DEF Init, CountsStored, ScannerLast, SumsComplete
  <1>5. QED
    BY <1>1, <1>3, <1>4 DEF IInv

\* If a program that has yet to count itself in finds all others counted,
\* then they have left: none of them can be the one that scans.
LEMMA OthersLeft ==
  ASSUME IInv, launch = "sums", NEW r \in Rows, pc[r] = "count",
         counter = np - 1
  PROVE  \A q \in Rows \ {r} : pc[q] = "exited"
  <1>1. IsFiniteSet(Rows) /\ Cardinality(Rows) = np /\ np \in Nat
    BY RowsFinite DEF IInv, ProgramsOK
  <1>2. IsFiniteSet(Rows \ {r}) /\ Cardinality(Rows \ {r}) = np - 1
    BY <1>1, FS_RemoveElement
  <1>3. Arrived \in SUBSET (Rows \ {r})
    BY DEF Arrived
  <1>4. Cardinality(Rows \ {r}) = Cardinality(Arrived)
    BY <1>2 DEF IInv, CounterCounts
  <1>5. Rows \ {r} = Arrived
    BY <1>2, <1>3, <1>4, FS_Subset
  <1>6. \A q \in Rows \ {r} : pc[q] \notin {"load", "scan"}
    BY DEF IInv, ScannerLast
  <1>7. QED
    BY <1>5, <1>6 DEF Arrived, IInv, ProgramsOK

LEMMA StepInv == IInv /\ [Next]_vars => IInv'
  <1> SUFFICES ASSUME IInv, [Next]_vars PROVE IInv'
    OBVIOUS
  <1>1. N' = N /\ selected' = selected
    BY DEF Next, Step, SinglePass, StorePart, CountIn, LoadSums, Scan,
           WriteBlock, StartWriteBack, Finish, Goto, vars
  <1>2. np' = np /\ Rows' = Rows /\ \A q : row_count(q)' = row_count(q)
    BY <1>1, Unmoved
  <1>3. np \in Nat /\ IsFiniteSet(Rows) /\ IsFiniteSet(Arrived)
    BY RowsFinite, FS_Subset DEF IInv, ProgramsOK, Arrived
  <1>4. ASSUME NEW r \in Rows, StorePart(r) PROVE IInv'
    <2>1. ProgramsOK'
      BY <1>1, <1>2, <1>4 DEF StorePart, Goto, IInv, ProgramsOK
    <2>2. Arrived' = Arrived
      BY <1>2, <1>4 DEF StorePart, Goto, Arrived, IInv, ProgramsOK
    <2>3. CounterCounts'
      BY <1>4, <2>2 DEF StorePart, Goto, IInv, CounterCounts
    <2>4. r \in DOMAIN part_sums
      BY <1>3 DEF Rows, IInv, ProgramsOK
    <2>5. CountsStored'
      BY <1>2, <1>4, <2>4 DEF StorePart, Goto, IInv, ProgramsOK, CountsStored
    <2>6. ScannerLast' /\ SumsComplete'
      BY <1>2, <1>4 DEF StorePart, Goto, IInv, ProgramsOK, ScannerLast,
                        SumsComplete
    <2>7. QED
      BY <2>1, <2>3, <2>5, <2>6 DEF IInv
  <1>5. ASSUME NEW r \in Rows, CountIn(r) PROVE IInv'
    <2>1. ProgramsOK'
      BY <1>1, <1>2, <1>5 DEF CountIn, Goto, IInv, ProgramsOK
    <2>2. Arrived' = Arrived \cup {r} /\ r \notin Arrived
      BY <1>2, <1>5 DEF CountIn, Goto, Arrived, IInv, ProgramsOK
    <2>3. Cardinality(Arrived') = Cardinality(Arrived) + 1
      BY <1>3, <2>2, FS_AddElement
    <2>4. CounterCounts'
      BY <1>5, <2>3 DEF CountIn, Goto, IInv, CounterCounts
    <2>5. CountsStored' /\ SumsComplete'
      BY <1>2, <1>5 DEF CountIn, Goto, IInv, ProgramsOK, CountsStored,
                        SumsComplete
    <2>6. ScannerLast'
      <3>1. \A q \in Rows : pc[q] \notin {"load", "scan"}
        BY <1>5 DEF CountIn, Goto, IInv, ScannerLast
      <3>2. CASE counter = np - 1
        <4>1. \A q \in Rows \ {r} : pc[q] = "exited"
          BY <1>5, <3>2, OthersLeft DEF CountIn, Goto
        <4>2. QED
          BY <1>2, <1>5, <4>1 DEF CountIn, Goto, IInv, ProgramsOK, ScannerLast
      <3>3. CASE counter # np - 1
        BY <1>2, <1>5, <3>1, <3>3 DEF CountIn, Goto, IInv, ProgramsOK,
                                      ScannerLast
      <3>4. QED
        BY <3>2, <3>3
    <2>7. QED
      BY <2>1, <2>4, <2>5, <2>6 DEF IInv
  <1>6. ASSUME NEW r \in Rows, LoadSums(r) PROVE IInv'
    <2>1. ProgramsOK'
      BY <1>1, <1>2, <1>6 DEF LoadSums, Goto, IInv, ProgramsOK
    <2>2. Arrived' = Arrived
      BY <1>2, <1>6 DEF LoadSums, Goto, Arrived, IInv, ProgramsOK
    <2>3. CounterCounts' /\ CountsStored' /\ ScannerLast'
      BY <1>2, <1>6, <2>2 DEF LoadSums, Goto, IInv, ProgramsOK, CounterCounts,
                              CountsStored, ScannerLast
    <2>4. \A q \in Rows : part_sums[q] = row_count(q)
      BY <1>6 DEF LoadSums, Goto, IInv, ProgramsOK, CountsStored, ScannerLast
    <2>5. SumsComplete'
      BY <1>2, <1>6, <2>4 DEF LoadSums, Goto, IInv, ProgramsOK, SumsComplete
    <2>6. QED
      BY <2>1, <2>3, <2>5 DEF IInv
  <1>7. ASSUME NEW r \in Rows, Scan(r) PROVE IInv'
    <2>0. \A q \in Rows : loaded[r][q] = row_count(q)
      BY <1>7 DEF Scan, Goto, IInv, SumsComplete
    <2>1. ProgramsOK'
      <3>1. part_sums' = RowStarts
        BY <1>7, <2>0, ScanFacts DEF IInv, ProgramsOK, Input
      <3>2. DOMAIN part_sums' = 0 .. np
        BY <3>1 DEF RowStarts
      <3>. QED BY <1>1, <1>2, <1>7, <3>2 DEF Scan, Goto, IInv, ProgramsOK
    <2>2. Arrived' = Arrived
      BY <1>2, <1>7 DEF Scan, Goto, Arrived, IInv, ProgramsOK
    <2>3. \A q \in Rows : pc'[q] = "exited"
      BY <1>7 DEF Scan, Goto, IInv, ProgramsOK, ScannerLast
    <2>4. CounterCounts' /\ CountsStored' /\ ScannerLast' /\ SumsComplete'
      BY <1>2, <1>7, <2>2, <2>3 DEF Scan, Goto, IInv, CounterCounts,
                                    CountsStored, ScannerLast, SumsComplete
    <2>5. QED
      BY <2>1, <2>4 DEF IInv
  <1>8. CASE \/ \E r \in Rows : WriteBlock(r)
             \/ SinglePass \/ StartWriteBack \/ Finish \/ UNCHANGED vars
    <2>1. ProgramsOK'
      BY <1>1, <1>2, <1>8 DEF WriteBlock, SinglePass, StartWriteBack, Finish,
                              vars, IInv, ProgramsOK
    <2>2. CounterCounts'
      BY <1>2, <1>8 DEF WriteBlock, SinglePass, StartWriteBack, Finish, vars,
                        Arrived, IInv, CounterCounts
    <2>3. CountsStored'
      BY <1>2, <1>8 DEF WriteBlock, SinglePass, StartWriteBack, Finish, vars,
                        IInv, CountsStored
    <2>4. ScannerLast' /\ SumsComplete'
      BY <1>2, <1>8 DEF WriteBlock, SinglePass, StartWriteBack, Finish, vars,
                        IInv, ProgramsOK, ScannerLast, SumsComplete
    <2>5. QED
      BY <2>1, <2>2, <2>3, <2>4 DEF IInv
  <1>9. QED
    BY <1>4, <1>5, <1>6, <1>7, <1>8 DEF Next, Step

\* Whoever scans the counts of the rows is the last program of the launch, for
\* any number of programs.
THEOREM LastScans == Spec => []ScannerLast
  <1>1. IInv => ScannerLast
    BY DEF IInv
  <1>2. QED
    BY InitInv, StepInv, <1>1, PTL DEF Spec

\* It has read the count of every row, never a stale or a half-scanned one.
THEOREM ScannerSeesAll == Spec => []SumsComplete
  <1>1. IInv => SumsComplete
    BY DEF IInv
  <1>2. QED
    BY InitInv, StepInv, <1>1, PTL DEF Spec
-----------------------------------------------------------------------------
(***************************************************************************)
(* The second launch                                                       *)
(***************************************************************************)
CountersOK ==
  /\ launch \in {"single", "sums", "write", "done"}
  /\ block_id \in [Rows -> Nat] /\ out_ptr \in [Rows -> Nat] /\ advance \in [Rows -> Nat]

\* When all have left the first launch, one of them has scanned.
PlacesScanned ==
  launch = "sums" /\ (\A r \in Rows : pc[r] = "exited") => part_sums = RowStarts

BeforeWrite ==
  launch = "sums" =>
    \A r \in Rows : block_id[r] = start_block(r) /\ out_ptr[r] = 0

\* A program's place is what is selected before its next block.
Writing ==
  launch = "write" =>
    \A r \in Rows :
      /\ pc[r] \in {"write", "exited"}
      /\ start_block(r) <= block_id[r]
      /\ pc[r] = "write" => /\ block_id[r] <= last_block_id(r)
                            /\ out_ptr[r] + advance[r] = Below(block_id[r])
      /\ pc[r] = "exited" => block_id[r] = last_block_id(r) + 1

\* What is in the blocks done is where it belongs.
Packed ==
  launch = "write" =>
    /\ DOMAIN out = 0 .. Cardinality(selected) - 1
    /\ \A i \in selected, r \in Rows :
         start_block(r) <= i \div BLOCK_SIZE /\ i \div BLOCK_SIZE < block_id[r] =>
           out[pre_sum(selected, i)] = i

PackInv ==
  /\ IInv /\ CountersOK /\ PlacesScanned /\ BeforeWrite /\ Writing /\ Packed
  /\ Compacted

\* The input does not change, and neither does what it determines.
LEMMA StillThere ==
  ASSUME N' = N, selected' = selected
  PROVE  /\ Rows' = Rows /\ np' = np /\ RowStarts' = RowStarts
         /\ \A r : /\ start_block(r)' = start_block(r)
                   /\ last_block_id(r)' = last_block_id(r)
         /\ \A b : Below(b)' = Below(b) /\ InBlock(b)' = InBlock(b)
         /\ \A i : pre_sum(selected, i)' = pre_sum(selected, i)
<1>1. Rows' = Rows /\ np' = np /\ n_blocks' = n_blocks
      /\ n_blocks_per_row' = n_blocks_per_row
  BY DEF Rows, np, n_blocks_per_row, n_blocks
<1>2. /\ \A r : start_block(r)' = start_block(r) /\ last_block_id(r)' = last_block_id(r)
      /\ \A b : Below(b)' = Below(b) /\ InBlock(b)' = InBlock(b)
      /\ \A i : pre_sum(selected, i)' = pre_sum(selected, i)
  BY <1>1 DEF start_block, last_block_id, Below, InBlock, pre_sum
<1>3. RowStarts' = RowStarts
  BY <1>1 DEF RowStarts, start_block, Below
<1>. QED BY <1>1, <1>2, <1>3

LEMMA InitPack == Init => PackInv
<1> SUFFICES ASSUME Init PROVE PackInv
  OBVIOUS
<1>1. IInv
  BY InitInv
<1>2. N \in Lengths
  BY DEF Init
<1>3. np \in Nat \ {0} /\ \A r \in Rows : start_block(r) \in Nat
  BY <1>2, RowFacts, LastBlock
<1>4. launch \in {"single", "sums"} /\ launch # "write" /\ launch # "done"
  BY DEF Init
<1>5. CountersOK
  BY <1>3, <1>4 DEF Init, CountersOK
<1>6. PlacesScanned
  <2>1. 0 \in Rows
    BY <1>3 DEF Rows
  <2>. QED BY <2>1 DEF Init, PlacesScanned
<1>7. BeforeWrite
  BY DEF Init, BeforeWrite
<1>. QED BY <1>1, <1>4, <1>5, <1>6, <1>7 DEF PackInv, Writing, Packed, Compacted

\* The one program takes the whole input.
LEMMA SinglePacks ==
  ASSUME PackInv, SinglePass
  PROVE  Compacted'
<1>1. Input
  BY DEF PackInv, IInv, ProgramsOK, Input
<1> DEFINE f == [x \in 0 .. Cardinality(selected) - 1 |->
                   CHOOSE i \in selected : pre_sum(selected, i) = x]
<1>2. out' = f /\ selected' = selected /\ N' = N
  BY DEF SinglePass
<1>3. ASSUME NEW i \in selected
      PROVE  f[pre_sum(selected, i)] = i
  <2> DEFINE x == pre_sum(selected, i)
  <2>1. x \in 0 .. Cardinality(selected) - 1
        /\ \A j \in selected : pre_sum(selected, j) = x => j = i
    BY <1>1, PreFacts
  <2>2. (CHOOSE j \in selected : pre_sum(selected, j) = x) = i
    BY <2>1
  <2>. QED BY <2>1, <2>2
<1>4. DOMAIN f = 0 .. Cardinality(selected) - 1
  OBVIOUS
<1> HIDE DEF f
<1>. QED BY <1>2, <1>3, <1>4, StillThere DEF Compacted

LEMMA SumsPack ==
  ASSUME PackInv, IInv', NEW r \in Rows,
         StorePart(r) \/ CountIn(r) \/ LoadSums(r) \/ Scan(r)
  PROVE  PackInv'
<1> USE DEF PackInv
<1>0. /\ launch = "sums" /\ launch' = "sums" /\ N' = N /\ selected' = selected
      /\ block_id' = block_id /\ out_ptr' = out_ptr /\ advance' = advance
  BY DEF StorePart, CountIn, LoadSums, Scan, Goto
<1>1. /\ Rows' = Rows /\ RowStarts' = RowStarts
      /\ \A q : start_block(q)' = start_block(q)
  BY <1>0, StillThere
<1>2. CountersOK' /\ BeforeWrite' /\ Writing' /\ Packed' /\ Compacted'
  BY <1>0, <1>1 DEF CountersOK, BeforeWrite, Writing, Packed, Compacted
<1>3. pc \in [Rows -> {"sum", "count", "load", "scan", "write", "exited"}]
  BY DEF IInv, ProgramsOK
<1>4. PlacesScanned'
  <2>1. CASE StorePart(r)
    <3>1. pc'[r] = "count"
      BY <1>3, <2>1 DEF StorePart, Goto
    <3>. QED BY <1>1, <3>1 DEF PlacesScanned
  <2>2. CASE LoadSums(r)
    <3>1. pc'[r] = "scan"
      BY <1>3, <2>2 DEF LoadSums, Goto
    <3>. QED BY <1>1, <3>1 DEF PlacesScanned
  <2>3. CASE Scan(r)
    <3>1. \A q \in Rows : loaded[r][q] = row_count(q)
      BY <2>3 DEF Scan, Goto, IInv, SumsComplete
    <3>2. part_sums' = RowStarts
      BY <2>3, <3>1, ScanFacts DEF IInv, ProgramsOK, Input
    <3>. QED BY <1>1, <3>2 DEF PlacesScanned
  <2>4. CASE CountIn(r)
    <3> SUFFICES ASSUME \A q \in Rows : pc'[q] = "exited" PROVE FALSE
      BY <1>1 DEF PlacesScanned
    <3>1. /\ pc[r] = "count" /\ counter # np - 1
          /\ \A q \in Rows \ {r} : pc[q] = "exited"
      BY <1>3, <2>4 DEF CountIn, Goto
    <3>2. Arrived = Rows \ {r}
      BY <3>1 DEF Arrived
    <3>3. IsFiniteSet(Rows) /\ Cardinality(Rows) = np /\ np \in Nat
      BY RowsFinite DEF IInv, ProgramsOK
    <3>4. Cardinality(Rows \ {r}) = np - 1
      BY <3>3, FS_RemoveElement
    <3>5. counter = Cardinality(Arrived)
      BY <1>0 DEF IInv, CounterCounts
    <3>. QED BY <3>1, <3>2, <3>4, <3>5
  <2>. QED BY <2>1, <2>2, <2>3, <2>4
<1>. QED BY <1>2, <1>4

LEMMA StartPacks ==
  ASSUME PackInv, IInv', StartWriteBack
  PROVE  PackInv'
<1> USE DEF PackInv
<1>0. /\ launch = "sums" /\ launch' = "write" /\ N' = N /\ selected' = selected
      /\ \A r \in Rows : pc[r] = "exited"
      /\ block_id' = block_id /\ out_ptr' = out_ptr
      /\ pc' = [r \in Rows |-> "write"]
      /\ advance' = [r \in Rows |-> part_sums[r]]
      /\ out' = [x \in 0 .. part_sums[np] - 1 |-> Stale]
  BY DEF StartWriteBack
<1>1. /\ Rows' = Rows /\ \A q : start_block(q)' = start_block(q)
      /\ \A b : Below(b)' = Below(b) /\ \A r : last_block_id(r)' = last_block_id(r)
  BY <1>0, StillThere
<1>2. Input
  BY DEF IInv, ProgramsOK, Input
<1>3. part_sums = RowStarts
  BY <1>0 DEF PlacesScanned
<1>4. np \in Nat /\ np \in 0 .. np /\ start_block(np) \in Nat
      /\ n_blocks <= start_block(np)
  BY <1>2, RowFacts DEF Input
<1>5. \A r \in Rows : /\ r \in 0 .. np /\ start_block(r) \in Nat
                      /\ start_block(r) <= last_block_id(r)
                      /\ last_block_id(r) \in Nat
  BY <1>2, <1>4, LastBlock DEF Input, Rows
<1>6. \A b : Below(b) \in Nat
  BY <1>2, SelectedFinite DEF Below
<1>7. \A r \in Rows : advance'[r] = Below(start_block(r))
  BY <1>0, <1>3, <1>5 DEF RowStarts
<1>8. CountersOK'
  <2>1. advance' \in [Rows -> Nat]
    BY <1>0, <1>6, <1>7
  <2>. QED BY <1>0, <1>1, <2>1 DEF CountersOK
<1>9. \A r \in Rows : block_id[r] = start_block(r) /\ out_ptr[r] = 0
  BY <1>0 DEF BeforeWrite
<1>10. Writing'
  <2>1. ASSUME NEW r \in Rows
        PROVE  /\ pc'[r] = "write" /\ block_id'[r] = start_block(r)
               /\ out_ptr'[r] + advance'[r] = Below(block_id'[r])
    BY <1>0, <1>6, <1>7, <1>9
  <2>2. \A r \in Rows : Below(block_id[r])' = Below(block_id'[r])
    BY <1>0 DEF Below
  <2>. QED BY <1>0, <1>1, <1>5, <2>1, <2>2 DEF Writing
<1>11. Packed'
  <2>1. part_sums[np] = Cardinality(selected)
    BY <1>2, <1>3, <1>4, BelowAll DEF RowStarts
  <2>2. DOMAIN out' = 0 .. Cardinality(selected) - 1
    BY <1>0, <2>1
  <2>3. \A i \in selected, r \in Rows :
          ~(start_block(r) <= i \div BLOCK_SIZE /\ i \div BLOCK_SIZE < block_id'[r])
    <3>1. \A i \in selected : i \div BLOCK_SIZE \in Nat
      BY <1>2, ElementFacts
    <3>. QED BY <1>0, <1>5, <1>9, <3>1
  <2>. QED BY <1>0, <1>1, <2>2, <2>3 DEF Packed
<1>12. PlacesScanned' /\ BeforeWrite' /\ Compacted'
  BY <1>0 DEF PlacesScanned, BeforeWrite, Compacted
<1>. QED BY <1>8, <1>10, <1>11, <1>12

\* What a block's elements leave alone, and where they go.
LEMMA WrittenFacts ==
  ASSUME Input, NEW b \in Nat, DOMAIN out = 0 .. Cardinality(selected) - 1
  PROVE  LET f == Written(out, b, Below(b)) IN
           /\ DOMAIN f = 0 .. Cardinality(selected) - 1
           /\ \A i \in InBlock(b) : f[pre_sum(selected, i)] = i
           /\ \A i \in selected \ InBlock(b) :
                f[pre_sum(selected, i)] = out[pre_sum(selected, i)]
<1> DEFINE place(i) == Below(b) + pre_sum(InBlock(b), i)
           D == 0 .. Cardinality(selected) - 1
           f == Written(out, b, Below(b))
<1>1. f = [x \in D \cup {place(i) : i \in InBlock(b)} |->
             IF \E i \in InBlock(b) : place(i) = x
               THEN CHOOSE i \in InBlock(b) : place(i) = x
               ELSE out[x]]
  BY DEF Written
<1>2. \A i \in InBlock(b) : i \in selected /\ place(i) = pre_sum(selected, i)
  BY PlaceIsRank DEF InBlock
<1>3. \A i \in selected : pre_sum(selected, i) \in D
  BY PreFacts
<1>4. \A i, j \in selected : pre_sum(selected, i) = pre_sum(selected, j) => i = j
  BY PreFacts
<1> HIDE DEF place, D, f
<1>5. D \cup {place(i) : i \in InBlock(b)} = D
  BY <1>2, <1>3
<1>6. /\ DOMAIN f = D
      /\ \A x \in D : f[x] = IF \E i \in InBlock(b) : place(i) = x
                               THEN CHOOSE i \in InBlock(b) : place(i) = x
                               ELSE out[x]
  BY <1>1, <1>5
<1>7. ASSUME NEW i \in InBlock(b)
      PROVE  f[pre_sum(selected, i)] = i
  <2>1. place(i) = pre_sum(selected, i) /\ place(i) \in D
    BY <1>2, <1>3
  <2>2. \A j \in InBlock(b) : place(j) = place(i) => j = i
    BY <1>2, <1>4
  <2>3. (CHOOSE j \in InBlock(b) : place(j) = place(i)) = i
    BY <2>2
  <2>. QED BY <1>6, <2>1, <2>3
<1>8. ASSUME NEW i \in selected \ InBlock(b)
      PROVE  f[pre_sum(selected, i)] = out[pre_sum(selected, i)]
  <2>1. \A j \in InBlock(b) : place(j) # pre_sum(selected, i)
    BY <1>2, <1>4
  <2>. QED BY <1>3, <1>6, <2>1
<1>. QED BY <1>6, <1>7, <1>8 DEF f, D

LEMMA WritePacks ==
  ASSUME PackInv, IInv', NEW r \in Rows, WriteBlock(r)
  PROVE  PackInv'
<1> USE DEF PackInv
<1> DEFINE b == block_id[r]
           base == out_ptr[r] + advance[r]
           size == Cardinality(InBlock(b))
<1>0. /\ launch = "write" /\ launch' = "write" /\ N' = N /\ selected' = selected
      /\ pc[r] = "write"
      /\ pc' = [pc EXCEPT ![r] = IF b < last_block_id(r) THEN "write" ELSE "exited"]
      /\ block_id' = [block_id EXCEPT ![r] = @ + 1]
      /\ out_ptr' = [out_ptr EXCEPT ![r] = base]
      /\ advance' = [advance EXCEPT ![r] = size]
      /\ out' = Written(out, b, base)
  BY DEF WriteBlock
<1>1. /\ Rows' = Rows /\ \A q : start_block(q)' = start_block(q)
      /\ \A q : last_block_id(q)' = last_block_id(q)
      /\ \A i : pre_sum(selected, i)' = pre_sum(selected, i)
  BY <1>0, StillThere
<1>2. Input
  BY DEF IInv, ProgramsOK, Input
<1>3. /\ block_id \in [Rows -> Nat] /\ out_ptr \in [Rows -> Nat]
      /\ advance \in [Rows -> Nat] /\ b \in Nat
  BY DEF CountersOK
<1>4. base = Below(b) /\ b <= last_block_id(r) /\ start_block(r) <= b
  BY <1>0 DEF Writing
<1>5. Below(b) \in Nat /\ size \in Nat
  BY <1>2, SelectedFinite DEF Below, InBlock
<1>6. Below(b + 1) = Below(b) + size
  BY <1>2, <1>3, BelowNext
<1>7. start_block(r) \in Nat /\ last_block_id(r) \in Nat
  BY <1>2, LastBlock DEF Input
<1>8. pc \in [Rows -> {"sum", "count", "load", "scan", "write", "exited"}]
  BY DEF IInv, ProgramsOK
<1> HIDE DEF b, base, size
<1>9. /\ block_id'[r] = b + 1 /\ out_ptr'[r] = base /\ advance'[r] = size
      /\ pc'[r] = IF b < last_block_id(r) THEN "write" ELSE "exited"
      /\ \A q \in Rows : q # r => /\ block_id'[q] = block_id[q] /\ pc'[q] = pc[q]
                                  /\ out_ptr'[q] = out_ptr[q] /\ advance'[q] = advance[q]
  BY <1>0, <1>3, <1>8 DEF b
<1>10. CountersOK'
  <2>1. block_id' \in [Rows -> Nat] /\ out_ptr' \in [Rows -> Nat]
        /\ advance' \in [Rows -> Nat]
    BY <1>0, <1>3, <1>4, <1>5
  <2>. QED BY <1>0, <1>1, <2>1 DEF CountersOK
<1>11. Writing'
  <2>1. ASSUME NEW q \in Rows
        PROVE  /\ pc'[q] \in {"write", "exited"}
               /\ start_block(q) <= block_id'[q]
               /\ pc'[q] = "write" =>
                    /\ block_id'[q] <= last_block_id(q)
                    /\ out_ptr'[q] + advance'[q] = Below(block_id'[q])
               /\ pc'[q] = "exited" => block_id'[q] = last_block_id(q) + 1
    <3>1. CASE q = r
      BY <1>3, <1>4, <1>5, <1>6, <1>7, <1>9, <3>1
    <3>2. CASE q # r
      BY <1>0, <1>9, <3>2 DEF Writing
    <3>. QED BY <3>1, <3>2
  <2>2. \A q \in Rows : Below(block_id[q])' = Below(block_id'[q])
    BY <1>0 DEF Below
  <2>. QED BY <1>1, <2>1, <2>2 DEF Writing
<1>12. Packed'
  <2>1. DOMAIN out = 0 .. Cardinality(selected) - 1
    BY <1>0 DEF Packed
  <2>2. /\ DOMAIN out' = 0 .. Cardinality(selected) - 1
        /\ \A i \in InBlock(b) : out'[pre_sum(selected, i)] = i
        /\ \A i \in selected \ InBlock(b) :
             out'[pre_sum(selected, i)] = out[pre_sum(selected, i)]
    BY <1>0, <1>2, <1>3, <1>4, <2>1, WrittenFacts
  <2>3. ASSUME NEW i \in selected, NEW q \in Rows,
               start_block(q) <= i \div BLOCK_SIZE, i \div BLOCK_SIZE < block_id'[q]
        PROVE  out'[pre_sum(selected, i)] = i
    <3>1. CASE i \in InBlock(b)
      BY <2>2, <3>1
    <3>2. CASE i \notin InBlock(b)
      <4>1. i \div BLOCK_SIZE # b /\ i \div BLOCK_SIZE \in Nat
        BY <1>2, <3>2, ElementFacts DEF InBlock
      <4> DEFINE d == i \div BLOCK_SIZE
      <4>2. d \in Nat /\ d # b /\ d < block_id'[q]
        BY <2>3, <4>1
      <4>. HIDE DEF d
      <4>3. d < block_id[q]
        <5>1. CASE q = r
          BY <1>3, <1>9, <4>2, <5>1 DEF b
        <5>2. CASE q # r
          BY <1>9, <4>2, <5>2
        <5>. QED BY <5>1, <5>2
      <4>4. out[pre_sum(selected, i)] = i
        BY <1>0, <2>3, <4>3 DEF Packed, d
      <4>. QED BY <2>2, <3>2, <4>4
    <3>. QED BY <3>1, <3>2
  <2>. QED BY <1>0, <1>1, <2>2, <2>3 DEF Packed
<1>13. PlacesScanned' /\ BeforeWrite' /\ Compacted'
  BY <1>0 DEF PlacesScanned, BeforeWrite, Compacted
<1>. QED BY <1>10, <1>11, <1>12, <1>13

\* When all have left the second launch, every block has been written.
LEMMA FinishPacks ==
  ASSUME PackInv, Finish
  PROVE  Compacted'
<1> USE DEF PackInv
<1>0. /\ launch = "write" /\ \A r \in Rows : pc[r] = "exited"
      /\ N' = N /\ selected' = selected /\ out' = out
  BY DEF Finish
<1>1. Input
  BY DEF IInv, ProgramsOK, Input
<1>2. ASSUME NEW i \in selected
      PROVE  out[pre_sum(selected, i)] = i
  <2> DEFINE b == i \div BLOCK_SIZE
  <2>1. b \in Nat /\ b < n_blocks
    BY <1>1, ElementFacts
  <2>2. PICK r \in Rows : start_block(r) <= b /\ b <= last_block_id(r)
    BY <1>1, <2>1, RowOf DEF Input
  <2>3. block_id[r] = last_block_id(r) + 1 /\ last_block_id(r) \in Nat
    BY <1>0, <1>1, LastBlock DEF Writing, Input
  <2>. HIDE DEF b
  <2>4. b < block_id[r]
    BY <2>1, <2>2, <2>3
  <2>. QED BY <1>0, <2>2, <2>4 DEF Packed, b
<1>3. DOMAIN out = 0 .. Cardinality(selected) - 1
  BY <1>0 DEF Packed
<1>. QED BY <1>0, <1>2, <1>3, StillThere DEF Compacted

LEMMA StepPack == PackInv /\ [Next]_vars => PackInv'
<1> SUFFICES ASSUME PackInv, [Next]_vars PROVE PackInv'
  OBVIOUS
<1>1. IInv'
  BY StepInv DEF PackInv
<1>2. CASE SinglePass
  <2>1. launch' = "done" /\ N' = N /\ selected' = selected /\ block_id' = block_id
        /\ out_ptr' = out_ptr /\ advance' = advance
    BY <1>2 DEF SinglePass
  <2>2. Compacted' /\ Rows' = Rows
    BY <1>2, <2>1, SinglePacks, StillThere
  <2>. QED BY <1>1, <2>1, <2>2 DEF PackInv, CountersOK, PlacesScanned, BeforeWrite,
                                  Writing, Packed
<1>3. CASE Finish
  <2>1. launch' = "done" /\ N' = N /\ selected' = selected /\ block_id' = block_id
        /\ out_ptr' = out_ptr /\ advance' = advance
    BY <1>3 DEF Finish
  <2>2. Compacted' /\ Rows' = Rows
    BY <1>3, <2>1, FinishPacks, StillThere
  <2>. QED BY <1>1, <2>1, <2>2 DEF PackInv, CountersOK, PlacesScanned, BeforeWrite,
                                  Writing, Packed
<1>4. CASE UNCHANGED vars
  <2>1. /\ Rows' = Rows /\ RowStarts' = RowStarts
        /\ \A q : start_block(q)' = start_block(q) /\ last_block_id(q)' = last_block_id(q)
        /\ \A i : pre_sum(selected, i)' = pre_sum(selected, i)
    BY <1>4, StillThere DEF vars
  <2>2. \A q : Below(block_id[q])' = Below(block_id[q])
    BY <1>4 DEF vars, Below
  <2>3. CountersOK' /\ PlacesScanned' /\ BeforeWrite'
    BY <1>4, <2>1 DEF vars, PackInv, CountersOK, PlacesScanned, BeforeWrite
  <2>4. Writing'
    BY <1>4, <2>1, <2>2 DEF vars, PackInv, Writing
  <2>5. Packed' /\ Compacted'
    BY <1>4, <2>1 DEF vars, PackInv, Packed, Compacted
  <2>. QED BY <1>1, <2>3, <2>4, <2>5 DEF PackInv
<1>. QED BY <1>1, <1>2, <1>3, <1>4, SumsPack, StartPacks, WritePacks DEF Next, Step

\* On both paths, and whichever way the programs of the two launches interleave,
\* the output is the selection in its original order, from the first place to
\* the last.
THEOREM SelectionPacked == Spec => []Compacted
<1>1. PackInv => Compacted
  BY DEF PackInv
<1>. QED BY InitPack, StepPack, <1>1, PTL DEF Spec
-----------------------------------------------------------------------------
(***************************************************************************)
(* A call of scatter: its lanes, its offsets and its addresses             *)
(***************************************************************************)
LEMMA CallFacts ==
  ASSUME case \in Cases
  PROVE  /\ case.index.shape \in Seq(Nat)
         /\ {case.inp.shape, case.inp.stride, case.src.stride}
              \subseteq [1 .. Len(case.index.shape) -> Nat]
         /\ case.dim \in 1 .. Len(case.index.shape)
         /\ \A i \in 1 .. Len(case.index.shape) :
              i # case.dim => case.index.shape[i] <= case.inp.shape[i]
         /\ case.contents \in [Indices(case.index.shape) -> 0 .. case.inp.shape[case.dim] - 1]
         /\ case.reduce \in {"none", "add", "multiply"}
         /\ BLOCK \in Nat \ {0} /\ LOOP \in Nat \ {0}
BY ScatterAssumption DEF IsCall

Offsets == 0 .. numel - 1

\* The offsets and the multi-indices of index are one to one.
LEMMA ModsFacts ==
  ASSUME case \in Cases
  PROVE  /\ numel \in Nat
         /\ \A o \in Offsets : o \in Nat /\ Mods(o) \in Indices(case.index.shape)
         /\ \A o, p \in Offsets : Mods(o) = Mods(p) => o = p
         /\ \A m \in Indices(case.index.shape) : \E o \in Offsets : Mods(o) = m
<1> DEFINE s == case.index.shape
           n == Len(s)
           V == Behind(s)
<1>1. s \in Seq(Nat) /\ n \in Nat /\ s \in [1 .. n -> Nat]
  <2>1. s \in Seq(Nat)
    BY CallFacts
  <2>. QED BY <2>1, ShapeFacts
<1>2. Weights(n, s, V) /\ V[0] = numel
  BY <1>1, BehindWeights DEF numel
<1>3. V \in [0 .. n -> Nat] /\ numel \in Nat
  BY <1>1, <1>2 DEF Weights
<1>4. ASSUME NEW o PROVE Mods(o) = Digits(n, s, V, o)
  <2>1. Mods(o) = [i \in 1 .. n |-> (o \div volume(SubSeq(s, i + 1, n))) % s[i]]
    BY DEF Mods
  <2>2. \A i \in 1 .. n : V[i] = volume(SubSeq(s, i + 1, n))
    BY <1>1 DEF Behind
  <2>. HIDE DEF s, n, V
  <2>. QED BY <2>1, <2>2 DEF Digits, Left
<1>5. Indices(s) = MultiIndices(n, s)
  BY <1>1, IndicesAre
<1>6. ASSUME NEW o \in Offsets PROVE o \in Nat /\ Mods(o) \in Indices(s)
  <2>1. o \in Nat /\ numel # 0
    BY <1>3 DEF Offsets
  <2>. HIDE DEF s, n, V
  <2>2. ASSUME NEW i \in 1 .. n
        PROVE  Digits(n, s, V, o)[i] \in Nat /\ Digits(n, s, V, o)[i] < s[i]
    <3>1. Digits(n, s, V, o)[i] \in 0 .. s[i] - 1
      BY <1>2, <2>1, NextDigit
    <3>2. s[i] \in Nat
      BY <1>1
    <3>. QED BY <3>1, <3>2
  <2>3. Digits(n, s, V, o) \in [1 .. n -> Nat]
    <3>1. Digits(n, s, V, o) = [i \in 1 .. n |-> Digits(n, s, V, o)[i]]
      BY DEF Digits
    <3>. QED BY <2>2, <3>1
  <2>4. Digits(n, s, V, o) \in MultiIndices(n, s)
    BY <2>2, <2>3 DEF MultiIndices
  <2>. QED BY <1>4, <1>5, <2>1, <2>4
<1>7. ASSUME NEW o \in Offsets, NEW p \in Offsets, Mods(o) = Mods(p) PROVE o = p
  <2>. HIDE DEF s, n, V
  <2>1. Digits(n, s, V, o) = Digits(n, s, V, p)
    BY <1>4, <1>7
  <2>2. o \in 0 .. V[0] - 1 /\ p \in 0 .. V[0] - 1
    BY <1>2 DEF Offsets
  <2>. QED BY <1>2, <2>1, <2>2, DigitsUnique
<1>8. ASSUME NEW m \in Indices(s) PROVE \E o \in Offsets : Mods(o) = m
  <2>. HIDE DEF s, n, V
  <2>1. m \in MultiIndices(n, s)
    BY <1>5
  <2>2. PICK o \in 0 .. V[0] - 1 : Digits(n, s, V, o) = m
    BY <1>2, <2>1, DigitsReach
  <2>. QED BY <1>2, <1>4, <2>2 DEF Offsets
<1>. QED BY <1>3, <1>6, <1>7, <1>8

Moved(m) == [m EXCEPT ![case.dim] = case.contents[m]]

\* An offset leads to the place that index names.
LEMMA TargetFacts ==
  ASSUME case \in Cases, NEW o \in Offsets
  PROVE  /\ inp_offset(o) = Addr(case.inp.stride, Moved(Mods(o)))
         /\ inp_offset(o) \in Addrs(case.inp)
<1> DEFINE s == case.index.shape
           n == Len(s)
           m == Mods(o)
           c == case.contents[m]
           d == case.dim
           w == Moved(m)
           stride == case.inp.stride
<1>1. /\ s \in Seq(Nat) /\ n \in Nat /\ s \in [1 .. n -> Nat] /\ d \in 1 .. n
      /\ stride \in [1 .. n -> Nat] /\ case.inp.shape \in [1 .. n -> Nat]
  <2>1. s \in Seq(Nat) /\ d \in 1 .. n
    BY CallFacts
  <2>2. stride \in [1 .. n -> Nat] /\ case.inp.shape \in [1 .. n -> Nat]
    BY CallFacts
  <2>. QED BY <2>1, <2>2, ShapeFacts
<1>2. m \in Indices(s)
  BY ModsFacts
<1>3. m \in [1 .. n -> Nat] /\ \A i \in 1 .. n : m[i] < s[i]
  BY <1>1, <1>2, IndicesAre DEF MultiIndices
<1>4. c \in 0 .. case.inp.shape[d] - 1
  BY <1>2, CallFacts
<1>5. c \in Nat
  BY <1>4
<1>6. mask(o)
  BY ModsFacts DEF mask, Offsets
<1>7. inp_offset(o) = Addr(inp_strides, m) + c * stride[d]
  BY <1>6 DEF inp_offset, cur_index
<1>8. inp_strides = [stride EXCEPT ![d] = 0] /\ w = [m EXCEPT ![d] = c]
  BY DEF inp_strides, Moved
<1>9. inp_offset(o) = Addr(stride, w)
  <2>. HIDE DEF m, c, d, n, stride, w
  <2>1. Addr(inp_strides, m) + c * stride[d] = Addr(stride, w)
    <3>1. IsMoved(n, stride, m, d, c, inp_strides, w)
      BY <1>1, <1>3, <1>5, <1>8 DEF IsMoved
    <3>. QED BY <3>1, AddrMoved
  <2>. QED BY <1>7, <2>1
<1>10. w \in Indices(case.inp.shape)
  <2>1. case.inp.shape \in Seq(Nat) /\ Len(case.inp.shape) = n
    BY <1>1, ShapeFacts
  <2>2. w \in [1 .. n -> Nat]
    <3>. HIDE DEF m, c, d, n, w
    <3>. QED BY <1>3, <1>5, <1>8
  <2>3. ASSUME NEW i \in 1 .. n PROVE w[i] < case.inp.shape[i]
    <3>1. s[i] \in Nat /\ case.inp.shape[i] \in Nat /\ m[i] \in Nat /\ m[i] < s[i]
      BY <1>1, <1>3
    <3>2. i # d => s[i] <= case.inp.shape[i]
      BY CallFacts
    <3>3. w[i] = IF i = d THEN c ELSE m[i]
      <4>. HIDE DEF m, c, d, n, w
      <4>. QED BY <1>3, <1>8
    <3>. HIDE DEF s, m, c, d, n, w
    <3>4. CASE i = d
      BY <1>4, <3>1, <3>3, <3>4
    <3>5. CASE i # d
      BY <3>1, <3>2, <3>3, <3>5
    <3>. QED BY <3>4, <3>5
  <2>4. w \in MultiIndices(n, case.inp.shape)
    BY <2>2, <2>3 DEF MultiIndices
  <2>. QED BY <2>1, <2>4, IndicesAre
<1>11. inp_offset(o) = Addr(case.inp.stride, w)
  BY <1>9 DEF stride
<1>12. Addr(case.inp.stride, w) \in Addrs(case.inp)
  <2>. HIDE DEF w
  <2>. QED BY <1>10 DEF Addrs
<1>. QED BY <1>11, <1>12

\* A lane and its block have an offset of their own, and each offset has one.
LEMMA OffsetFacts ==
  ASSUME case \in Cases
  PROVE  /\ \A l \in ScatterLanes, i \in 0 .. LOOP - 1 : Offset(l, i) \in Nat
         /\ \A l, k \in ScatterLanes, i, j \in 0 .. LOOP - 1 :
              Offset(l, i) = Offset(k, j) => l = k /\ i = j
         /\ \A o \in Offsets : \E l \in ScatterLanes, i \in 0 .. LOOP - 1 : o = Offset(l, i)
<1>1. BLOCK \in Nat \ {0} /\ LOOP \in Nat \ {0} /\ numel \in Nat /\ BLOCK * LOOP \in Nat \ {0}
  <2>1. BLOCK \in Nat \ {0} /\ LOOP \in Nat \ {0} /\ numel \in Nat
    BY CallFacts, ModsFacts
  <2>. QED BY <2>1
<1>2. programs \in Nat /\ numel <= programs * (BLOCK * LOOP)
  BY <1>1, CdivFacts DEF programs
<1>3. ASSUME NEW l \in ScatterLanes
      PROVE  l = <<l[1], l[2]>> /\ l[1] \in Nat /\ l[1] < programs /\ l[2] \in 0 .. BLOCK - 1
  BY <1>2 DEF ScatterLanes
<1>4. ASSUME NEW l \in ScatterLanes, NEW i \in 0 .. LOOP - 1
      PROVE  /\ l[1] * LOOP + i \in Nat /\ Offset(l, i) = (l[1] * LOOP + i) * BLOCK + l[2]
             /\ Offset(l, i) \in Nat
  <2> DEFINE p == l[1]
             j == l[2]
  <2>1. p \in Nat /\ j \in Nat /\ i \in Nat /\ p * LOOP \in Nat
    BY <1>1, <1>3
  <2>2. Offset(l, i) = p * LOOP * BLOCK + i * BLOCK + j
    BY DEF Offset
  <2>. HIDE DEF p, j
  <2>3. (p * LOOP + i) * BLOCK = p * LOOP * BLOCK + i * BLOCK
    BY <1>1, <2>1
  <2>4. p * LOOP + i \in Nat /\ (p * LOOP + i) * BLOCK \in Nat
    BY <1>1, <2>1
  <2>. QED BY <2>1, <2>2, <2>3, <2>4 DEF p, j
<1>5. ASSUME NEW l \in ScatterLanes, NEW k \in ScatterLanes, NEW i \in 0 .. LOOP - 1, NEW j \in 0 .. LOOP - 1,
             Offset(l, i) = Offset(k, j)
      PROVE  l = k /\ i = j
  <2> DEFINE a == l[1] * LOOP + i
             b == k[1] * LOOP + j
  <2>1. a \in Nat /\ b \in Nat /\ a * BLOCK + l[2] = b * BLOCK + k[2]
    BY <1>4, <1>5
  <2>2. l[2] \in 0 .. BLOCK - 1 /\ k[2] \in 0 .. BLOCK - 1
    BY <1>3
  <2>3. a = b /\ l[2] = k[2]
    <3>. HIDE DEF a, b
    <3>1. (a * BLOCK + l[2]) \div BLOCK = a /\ (a * BLOCK + l[2]) % BLOCK = l[2]
      BY <1>1, <2>1, <2>2, DivUnique
    <3>2. (b * BLOCK + k[2]) \div BLOCK = b /\ (b * BLOCK + k[2]) % BLOCK = k[2]
      BY <1>1, <2>1, <2>2, DivUnique
    <3>. QED BY <2>1, <3>1, <3>2
  <2>4. l[1] = k[1] /\ i = j
    <3>1. l[1] \in Nat /\ k[1] \in Nat
      BY <1>3
    <3>2. a \div LOOP = l[1] /\ a % LOOP = i
      BY <1>1, <3>1, DivUnique
    <3>3. b \div LOOP = k[1] /\ b % LOOP = j
      BY <1>1, <3>1, DivUnique
    <3>. HIDE DEF a, b
    <3>. QED BY <2>3, <3>2, <3>3
  <2>5. l = <<l[1], l[2]>> /\ k = <<k[1], k[2]>>
    BY <1>3
  <2>. QED BY <2>3, <2>4, <2>5
<1>6. ASSUME NEW o \in Offsets PROVE \E l \in ScatterLanes, i \in 0 .. LOOP - 1 : o = Offset(l, i)
  <2> DEFINE q == o \div BLOCK
             j == o % BLOCK
             p == q \div LOOP
             i == q % LOOP
  <2>0. o \in Nat /\ o < numel
    BY <1>1 DEF Offsets
  <2>1. o = q * BLOCK + j /\ j \in 0 .. BLOCK - 1 /\ q \in Nat
    BY <1>1, <2>0, DivMod
  <2>2. q = p * LOOP + i /\ i \in 0 .. LOOP - 1 /\ p \in Nat
    BY <1>1, <2>1, DivMod
  <2>. HIDE DEF q, j, p, i
  <2>3. p < programs
    <3>1. (p * LOOP) * BLOCK \in Nat /\ i * BLOCK \in Nat /\ p * LOOP \in Nat
      BY <1>1, <2>2
    <3>2. q * BLOCK = (p * LOOP) * BLOCK + i * BLOCK
      BY <1>1, <2>2
    <3>3. (p * LOOP) * BLOCK = p * (BLOCK * LOOP)
      <4>1. LOOP * BLOCK = BLOCK * LOOP /\ p * (LOOP * BLOCK) = (p * LOOP) * BLOCK
        BY <1>1, <2>2, TimesAssoc
      <4>. QED BY <4>1
    <3>4. p * (BLOCK * LOOP) < programs * (BLOCK * LOOP)
      <4> DEFINE x == p * (BLOCK * LOOP)
                 y == programs * (BLOCK * LOOP)
                 z == i * BLOCK
      <4>1. x \in Nat /\ y \in Nat /\ z \in Nat /\ o = x + z + j /\ numel <= y
        BY <1>1, <1>2, <2>1, <3>1, <3>2, <3>3
      <4>. HIDE DEF x, y, z
      <4>2. x < y
        BY <1>1, <2>0, <2>1, <4>1
      <4>. QED BY <4>2 DEF x, y
    <3>. QED BY <1>1, <1>2, <2>2, <3>4, FactorLess
  <2>4. <<p, j>> \in ScatterLanes
    BY <1>1, <1>2, <2>1, <2>2, <2>3 DEF ScatterLanes
  <2>5. Offset(<<p, j>>, i) = (p * LOOP + i) * BLOCK + j
    BY <1>4, <2>2, <2>4
  <2>. QED BY <2>1, <2>2, <2>4, <2>5
<1>. QED BY <1>4, <1>5, <1>6
-----------------------------------------------------------------------------
(***************************************************************************)
(* The value of an element, given which of its offsets are done            *)
(***************************************************************************)
\* The sources of some offsets, counted as often as they occur.
BagOf(src, D) ==
  [s \in {src[o] : o \in D} |-> Cardinality({o \in D : src[o] = s})]

LEMMA BagStep ==
  ASSUME NEW src, NEW D, IsFiniteSet(D), NEW o, o \notin D
  PROVE  BagOf(src, D \cup {o}) = BagOf(src, D) (+) SetToBag({src[o]})
<1> DEFINE E == D \cup {o}
           B == BagOf(src, D)
           t == src[o]
           C == B (+) SetToBag({t})
<1>1. DOMAIN B = {src[x] : x \in D}
  BY DEF BagOf
<1>2. C = [s \in {src[x] : x \in D} \cup {t} |->
             (IF s \in {src[x] : x \in D} THEN B[s] ELSE 0) + (IF s \in {t} THEN 1 ELSE 0)]
  <2>1. SetToBag({t}) = [s \in {t} |-> 1]
    BY DEF SetToBag
  <2>. HIDE DEF B
  <2>. QED BY <1>1, <2>1 DEF (+)
<1>3. {src[x] : x \in E} = {src[x] : x \in D} \cup {t}
  OBVIOUS
<1>4. ASSUME NEW s \in {src[x] : x \in E}
      PROVE  Cardinality({x \in E : src[x] = s}) =
               (IF s \in {src[x] : x \in D} THEN B[s] ELSE 0) + (IF s \in {t} THEN 1 ELSE 0)
  <2> DEFINE F == {x \in D : src[x] = s}
  <2>1. IsFiniteSet(F)
    BY FS_Subset
  <2>2. Cardinality(F) \in Nat
    BY <2>1, FS_CardinalityType
  <2>3. Cardinality(F) = IF s \in {src[x] : x \in D} THEN B[s] ELSE 0
    <3>1. CASE s \in {src[x] : x \in D}
      BY <3>1 DEF BagOf
    <3>2. CASE s \notin {src[x] : x \in D}
      <4>1. F = {}
        BY <3>2
      <4>. QED BY <3>2, <4>1, FS_EmptySet
    <3>. QED BY <3>1, <3>2
  <2>4. CASE s = t
    <3>1. {x \in E : src[x] = s} = F \cup {o} /\ o \notin F
      BY <2>4
    <3>2. Cardinality(F \cup {o}) = Cardinality(F) + 1
      <4>. HIDE DEF F
      <4>. QED BY <2>1, <3>1, FS_AddElement
    <3>. QED BY <2>3, <2>4, <3>1, <3>2
  <2>5. CASE s # t
    <3>1. {x \in E : src[x] = s} = F
      BY <2>5
    <3>2. Cardinality(F) = Cardinality(F) + 0
      BY <2>2
    <3>. QED BY <2>3, <2>5, <3>1, <3>2
  <2>. QED BY <2>4, <2>5
<1>5. BagOf(src, E) = [s \in {src[x] : x \in E} |-> Cardinality({x \in E : src[x] = s})]
  BY DEF BagOf
<1>. HIDE DEF B, t
<1>. QED BY <1>2, <1>3, <1>4, <1>5 DEF t, B

\* What x, the value of an element, has to be, hits being the offsets that
\* lead to it and done those of them that are done.
Right(c, src, hits, done, x) ==
  /\ c.reduce = "none" => IF done = {} THEN x = Untouched
                          ELSE \E o \in done : x = Number(SetToBag({src[o]}))
  /\ c.reduce = "add" => x = Number(BagOf(src, done))
  /\ c.reduce = "multiply" =>
       \/ /\ x = Number(BagOf(src, done))
          /\ \A o \in done : src[o] \notin c.zeros \cup c.nans
       \/ x.kind = "zero" /\ \E o \in hits : src[o] \in c.zeros
       \/ x = NaN /\ \E o \in hits : src[o] \in c.nans

LEMMA BagOfNone ==
  ASSUME NEW src PROVE BagOf(src, {}) = EmptyBag
<1>1. BagOf(src, {}) = [s \in {} |-> 1]
  BY DEF BagOf
<1>2. EmptyBag = [s \in {} |-> 1]
  BY DEF EmptyBag, SetToBag
<1>. QED BY <1>1, <1>2

LEMMA RightAtFirst ==
  ASSUME NEW c, NEW src, NEW hits PROVE Right(c, src, hits, {}, Untouched)
BY BagOfNone DEF Right, Untouched

LEMMA Kinds ==
  ASSUME NEW b PROVE /\ Number(b).kind = "num" /\ Number(b).factors = b
                     /\ NaN.kind = "nan"
                     /\ \A n : Zero(n).kind = "zero"
BY DEF Number, NaN, Zero

\* What an element that is x becomes by a store or an atomic addition.
Taken(c, src, o, x) ==
  Number(IF c.reduce = "add" THEN x.factors (+) SetToBag({src[o]}) ELSE SetToBag({src[o]}))

\* The offset o, which leads to the element, is not done yet.
IsNext(c, src, hits, done, o, x) ==
  /\ IsFiniteSet(hits) /\ done \subseteq hits /\ o \in hits \ done
  /\ Right(c, src, hits, done, x)

LEMMA RightOnce ==
  ASSUME NEW c, NEW src, NEW hits, NEW done, NEW o, NEW x,
         c.reduce \in {"none", "add"}, IsNext(c, src, hits, done, o, x)
  PROVE  Right(c, src, hits, done \cup {o}, Taken(c, src, o, x))
<1>0. Right(c, src, hits, done, x) /\ done \subseteq hits /\ o \notin done /\ IsFiniteSet(hits)
  BY DEF IsNext
<1>1. CASE c.reduce = "none"
  BY <1>0, <1>1 DEF Right, Taken
<1>2. CASE c.reduce = "add"
  <2>1. x = Number(BagOf(src, done))
    BY <1>0, <1>2 DEF Right
  <2>2. x.factors = BagOf(src, done)
    BY <2>1, Kinds
  <2>3. IsFiniteSet(done)
    BY <1>0, FS_Subset
  <2>4. x.factors (+) SetToBag({src[o]}) = BagOf(src, done \cup {o})
    BY <1>0, <2>2, <2>3, BagStep
  <2>. QED BY <1>2, <2>4 DEF Right, Taken
<1>. QED BY <1>1, <1>2

\* A swap that succeeds: it does not count when the element is NaN.
LEMMA RightTimes ==
  ASSUME case.reduce = "multiply", NEW src, NEW hits, NEW done, NEW o, NEW x,
         IsNext(case, src, hits, done, o, x)
  PROVE  /\ Equal(x, x) => Right(case, src, hits, done \cup {o}, Times(x, src[o]))
         /\ ~Equal(x, x) => Right(case, src, hits, done, Times(x, src[o]))
<1>0. /\ Right(case, src, hits, done, x) /\ IsFiniteSet(hits)
      /\ done \subseteq hits /\ o \in hits /\ o \notin done
  BY DEF IsNext
<1> USE <1>0
<1> DEFINE y == Times(x, src[o])
<1>1. CASE x.kind = "nan"
  <2>1. x = NaN /\ \E h \in hits : src[h] \in case.nans
    BY <1>1, Kinds DEF Right
  <2>2. y = NaN /\ ~Equal(x, x)
    BY <1>1 DEF Times, Equal
  <2>. QED BY <2>1, <2>2 DEF Right
<1>2. CASE x.kind # "nan" /\ src[o] \in case.nans
  <2>1. y = NaN /\ Equal(x, x)
    BY <1>2 DEF Times, Equal
  <2>. QED BY <1>2, <2>1 DEF Right
<1>3. CASE x.kind # "nan" /\ src[o] \notin case.nans /\ (x.kind = "zero" \/ src[o] \in case.zeros)
  <2>1. PICK n : y = Zero(n)
    BY <1>3 DEF Times
  <2>2. y.kind = "zero" /\ Equal(x, x)
    BY <1>3, <2>1, Kinds DEF Equal
  <2>3. \E h \in hits : src[h] \in case.zeros
    BY <1>3, Kinds DEF Right
  <2>. QED BY <2>2, <2>3 DEF Right
<1>4. CASE x.kind # "nan" /\ src[o] \notin case.nans /\ x.kind # "zero" /\ src[o] \notin case.zeros
  <2>1. x = Number(BagOf(src, done)) /\ \A h \in done : src[h] \notin case.zeros \cup case.nans
    BY <1>4, Kinds DEF Right
  <2>2. y = Number(x.factors (+) SetToBag({src[o]})) /\ Equal(x, x)
    BY <1>4 DEF Times, Equal
  <2>3. x.factors = BagOf(src, done) /\ IsFiniteSet(done)
    BY <2>1, Kinds, FS_Subset
  <2>4. y = Number(BagOf(src, done \cup {o}))
    BY <2>2, <2>3, BagStep
  <2>5. \A h \in done \cup {o} : src[h] \notin case.zeros \cup case.nans
    BY <1>4, <2>1
  <2>. QED BY <2>2, <2>4, <2>5 DEF Right
<1>. QED BY <1>1, <1>2, <1>3, <1>4

\* A lane that reads another zero than it loaded stops as well.
LEMMA RightZero ==
  ASSUME NEW c, c.reduce = "multiply", NEW src, NEW hits, NEW done, NEW more,
         NEW x, x.kind = "zero", Right(c, src, hits, done, x)
  PROVE  Right(c, src, hits, more, x)
BY Kinds DEF Right
-----------------------------------------------------------------------------
(***************************************************************************)
(* The program                                                             *)
(***************************************************************************)
\* A lane is through with its block i.
Past(l, i) == i < iter[l] \/ (case.reduce = "multiply" /\ i = iter[l] /\ stop[l])

Done ==
  {o \in Offsets : \E l \in ScatterLanes, i \in 0 .. LOOP - 1 : o = Offset(l, i) /\ Past(l, i)}

\* The offsets that lead to the element at address a, and the sources of all.
Reaching(a) == {o \in Offsets : inp_offset(o) = a}
Src == [o \in Offsets |-> src_offset(o)]

Typed ==
  /\ case \in Cases
  /\ element = [a \in Addrs(case.inp) |-> element[a]]
  /\ iter \in [ScatterLanes -> 0 .. LOOP]
  /\ turn \in [ScatterLanes -> {"load", "cas", "voted", "exited"}]
  /\ stop \in [ScatterLanes -> BOOLEAN]

\* A lane beyond the end of index has stopped, in each block.
Controlled ==
  \A l \in ScatterLanes :
    /\ turn[l] = "exited" <=> iter[l] = LOOP
    /\ case.reduce # "multiply" => turn[l] \in {"load", "exited"}
    /\ case.reduce = "multiply" /\ iter[l] # LOOP /\ ~mask(Here(l)) => stop[l]

Valued ==
  \A a \in Addrs(case.inp) :
    Right(case, Src, Reaching(a), Done \cap Reaching(a), element[a])

ScatterInv == Typed /\ Controlled /\ Valued

\* What depends on the call alone.
LEMMA Static ==
  ASSUME case' = case
  PROVE  /\ numel' = numel /\ ScatterLanes' = ScatterLanes /\ Offsets' = Offsets /\ Src' = Src
         /\ \A a : Reaching(a)' = Reaching(a)
         /\ \A o : mask(o)' = mask(o)
BY DEF numel, ScatterLanes, programs, Offsets, Src, Reaching, mask, inp_offset, src_offset, Mods,
       cur_index, inp_strides

\* A lane and a block that Offset takes to an offset of index are its only ones.
LEMMA PastIs ==
  ASSUME case \in Cases, NEW l \in ScatterLanes, NEW i \in 0 .. LOOP - 1, Offset(l, i) \in Offsets
  PROVE  Offset(l, i) \in Done <=> Past(l, i)
BY OffsetFacts DEF Done

LEMMA MaskIs ==
  ASSUME case \in Cases, NEW l \in ScatterLanes, NEW i \in 0 .. LOOP - 1
  PROVE  mask(Offset(l, i)) <=> Offset(l, i) \in Offsets
<1>1. Offset(l, i) \in Nat /\ numel \in Nat
  BY OffsetFacts, ModsFacts
<1>. QED BY <1>1 DEF mask, Offsets

LEMMA OffsetsFinite ==
  ASSUME case \in Cases
  PROVE  IsFiniteSet(Offsets) /\ \A a : IsFiniteSet(Reaching(a))
<1>1. numel \in Nat
  BY ModsFacts
<1>2. IsFiniteSet(Offsets)
  BY <1>1, FS_Interval DEF Offsets
<1>3. \A a : Reaching(a) \in SUBSET Offsets
  BY DEF Reaching
<1>. QED BY <1>2, <1>3, FS_Subset

\* The blocks before the one a lane is in are done, and that one if it stopped.
LEMMA StepOfDone ==
  ASSUME case \in Cases, case' = case, NEW l \in ScatterLanes, NEW i \in 0 .. LOOP - 1,
         \A k \in ScatterLanes, j \in 0 .. LOOP - 1 :
           <<k, j>> # <<l, i>> => (Past(k, j)' <=> Past(k, j)),
         Past(l, i)'
  PROVE  Done' = Done \cup ({Offset(l, i)} \cap Offsets)
<1>1. ScatterLanes' = ScatterLanes /\ Offsets' = Offsets
  BY Static
<1>2. Done' = {o \in Offsets : \E k \in ScatterLanes, j \in 0 .. LOOP - 1 :
                                 o = Offset(k, j) /\ Past(k, j)'}
  BY <1>1 DEF Done, Offset
<1>. QED BY <1>2 DEF Done

LEMMA SameDone ==
  ASSUME case \in Cases, case' = case,
         \A k \in ScatterLanes, j \in 0 .. LOOP - 1 :
           Offset(k, j) \in Offsets => (Past(k, j)' <=> Past(k, j))
  PROVE  Done' = Done
<1>1. ScatterLanes' = ScatterLanes /\ Offsets' = Offsets
  BY Static
<1>2. Done' = {o \in Offsets : \E k \in ScatterLanes, j \in 0 .. LOOP - 1 :
                                 o = Offset(k, j) /\ Past(k, j)'}
  BY <1>1 DEF Done, Offset
<1>. QED BY <1>2 DEF Done

\* A step that does at most the offset o, which leads to the address t, and
\* changes at most the element at t.
LEMMA ValuedStep ==
  ASSUME Typed, Valued, case' = case, NEW o \in Offsets, NEW t, t = inp_offset(o),
         Done' \in {Done, Done \cup {o}},
         \A a \in Addrs(case.inp) : a # t => element'[a] = element[a],
         Right(case, Src, Reaching(t), Done' \cap Reaching(t), element'[t])
  PROVE  Valued'
<1>1. Src' = Src /\ \A a : Reaching(a)' = Reaching(a)
  BY Static
<1>2. SUFFICES ASSUME NEW a \in Addrs(case.inp)
               PROVE  Right(case, Src, Reaching(a), Done' \cap Reaching(a), element'[a])
  BY <1>1 DEF Valued
<1>3. CASE a # t
  <2>1. o \notin Reaching(a)
    BY <1>3 DEF Reaching
  <2>2. Done' \cap Reaching(a) = Done \cap Reaching(a)
    BY <2>1
  <2>. QED BY <1>3, <2>2 DEF Valued
<1>. QED BY <1>3
-----------------------------------------------------------------------------
(***************************************************************************)
(* Each step keeps the invariant                                           *)
(***************************************************************************)
LEMMA ScatterStarts ==
  ASSUME ScatterInit PROVE ScatterInv
<1>1. case \in Cases
  BY DEF ScatterInit
<1>2. LOOP \in Nat \ {0} /\ 0 \in 0 .. LOOP - 1
  BY <1>1, CallFacts
<1>3. Typed
  BY <1>1, <1>2 DEF ScatterInit, Typed, StopsAtFirst, mask
<1>4. Controlled
  BY <1>2 DEF ScatterInit, Controlled, StopsAtFirst, Here
<1>5. Done = {}
  <2> SUFFICES ASSUME NEW l \in ScatterLanes, NEW i \in 0 .. LOOP - 1,
                      Offset(l, i) \in Offsets, Past(l, i)
               PROVE  FALSE
    BY DEF Done
  <2>1. iter[l] = 0 /\ (stop[l] => ~mask(Offset(l, 0)))
    BY DEF ScatterInit, StopsAtFirst
  <2>2. i = 0 /\ stop[l]
    BY <2>1 DEF Past
  <2>. QED BY <1>1, <2>1, <2>2, MaskIs
<1>6. Valued
  <2>1. ASSUME NEW a \in Addrs(case.inp) PROVE element[a] = Untouched /\ Done \cap Reaching(a) = {}
    BY <1>5 DEF ScatterInit
  <2>. QED BY <2>1, RightAtFirst DEF Valued
<1>. QED BY <1>3, <1>4, <1>6 DEF ScatterInv

\* Where a lane is while it works.
LEMMA AtWork ==
  ASSUME Typed, Controlled, NEW l \in ScatterLanes, turn[l] # "exited"
  PROVE  /\ iter[l] \in 0 .. LOOP - 1 /\ Here(l) = Offset(l, iter[l])
         /\ Here(l) \in Nat /\ (mask(Here(l)) <=> Here(l) \in Offsets)
<1>1. iter[l] \in 0 .. LOOP /\ iter[l] # LOOP /\ case \in Cases
  BY DEF Typed, Controlled
<1>2. LOOP \in Nat
  BY <1>1, CallFacts
<1>3. iter[l] \in 0 .. LOOP - 1
  BY <1>1, <1>2
<1>. QED BY <1>1, <1>3, OffsetFacts, MaskIs DEF Here

LEMMA ScatterOnceKeeps ==
  ASSUME ScatterInv, NEW l \in ScatterLanes, ScatterOnce(l) PROVE ScatterInv'
<1>0. Typed /\ Controlled /\ Valued /\ case \in Cases /\ case' = case /\ ScatterLanes' = ScatterLanes
  BY Static DEF ScatterInv, Typed, ScatterOnce
<1>1. case.reduce # "multiply" /\ turn[l] = "load" /\ stop' = stop
  BY DEF ScatterOnce
<1>2. LOOP \in Nat \ {0}
  BY <1>0, CallFacts
<1> DEFINE o == Here(l)
           t == Target(l)
<1>3. PICK i \in 0 .. LOOP - 1 :
        i = iter[l] /\ o = Offset(l, i) /\ (mask(o) <=> o \in Offsets)
  BY <1>0, <1>1, AtWork
<1>4. iter' = [iter EXCEPT ![l] = i + 1] /\ iter \in [ScatterLanes -> 0 .. LOOP]
      /\ i + 1 \in 0 .. LOOP
  BY <1>0, <1>2, <1>3 DEF ScatterOnce, Typed
<1>5. Typed'
  <2>1. iter' \in [ScatterLanes -> 0 .. LOOP]
    BY <1>4
  <2>2. turn' \in [ScatterLanes -> {"load", "cas", "voted", "exited"}]
    BY <1>0 DEF ScatterOnce, Typed
  <2>3. element' = [a \in Addrs(case.inp) |-> element'[a]]
    BY <1>0 DEF ScatterOnce, Typed
  <2>. QED BY <1>0, <1>1, <2>1, <2>2, <2>3 DEF Typed
<1>6. Controlled'
  <2> SUFFICES ASSUME NEW k \in ScatterLanes
               PROVE  (turn'[k] = "exited" <=> iter'[k] = LOOP) /\ turn'[k] \in {"load", "exited"}
    BY <1>0, <1>1 DEF Controlled
  <2>1. CASE k = l
    <3>1. iter'[k] = i + 1
      BY <1>4, <2>1
    <3>2. turn'[k] = IF i + 1 = LOOP THEN "exited" ELSE "load"
      BY <1>0, <1>3, <2>1 DEF ScatterOnce, Typed
    <3>. QED BY <3>1, <3>2
  <2>2. CASE k # l
    <3>1. iter'[k] = iter[k] /\ turn'[k] = turn[k]
      BY <1>0, <1>4, <2>2 DEF ScatterOnce, Typed
    <3>. QED BY <1>0, <1>1, <3>1 DEF Controlled
  <2>. QED BY <2>1, <2>2
<1>7. Done' = Done \cup ({o} \cap Offsets)
  <2>1. Past(l, i)'
    BY <1>3, <1>4 DEF Past
  <2>2. ASSUME NEW k \in ScatterLanes, NEW j \in 0 .. LOOP - 1, <<k, j>> # <<l, i>>
        PROVE  Past(k, j)' <=> Past(k, j)
    <3>1. CASE k = l
      <4>1. j \in Nat /\ i \in Nat /\ j # i
        BY <1>2, <1>3, <2>2, <3>1
      <4>2. iter'[k] = i + 1 /\ iter[k] = i
        BY <1>3, <1>4, <3>1
      <4>. QED BY <1>0, <1>1, <4>1, <4>2 DEF Past
    <3>2. CASE k # l
      <4>1. iter'[k] = iter[k]
        BY <1>4, <3>2
      <4>. QED BY <1>0, <1>1, <4>1 DEF Past
    <3>. QED BY <3>1, <3>2
  <2>. QED BY <1>0, <1>3, <2>1, <2>2, StepOfDone
<1>8. Valued'
  <2>1. CASE ~mask(o)
    <3>1. element' = element /\ Done' = Done
      BY <1>3, <1>7, <2>1 DEF ScatterOnce
    <3>2. Src' = Src /\ \A a : Reaching(a)' = Reaching(a)
      BY <1>0, Static
    <3>. QED BY <1>0, <3>1, <3>2 DEF Valued
  <2>2. CASE mask(o)
    <3>1. o \in Offsets /\ Done' = Done \cup {o}
      BY <1>3, <1>7, <2>2
    <3>2. t = inp_offset(o) /\ t \in Addrs(case.inp) /\ o \in Reaching(t)
      BY <1>0, <3>1, TargetFacts DEF Target, Reaching
    <3>3. o \notin Done
      <4>1. ~Past(l, i)
        BY <1>1, <1>2, <1>3 DEF Past
      <4>. QED BY <1>0, <1>3, <3>1, <4>1, PastIs
    <3> DEFINE y == Taken(case, Src, o, element[t])
    <3>4. element' = [element EXCEPT ![t] = y]
      <4>1. Src[o] = src_offset(o)
        BY <3>1 DEF Src
      <4>. QED BY <2>2, <4>1 DEF ScatterOnce, Taken
    <3>5. element'[t] = y /\ \A a \in Addrs(case.inp) : a # t => element'[a] = element[a]
      <4>. HIDE DEF y
      <4>. QED BY <1>0, <3>2, <3>4 DEF Typed
    <3>6. Right(case, Src, Reaching(t), Done' \cap Reaching(t), y)
      <4> DEFINE D == Done \cap Reaching(t)
      <4>1. Done' \cap Reaching(t) = D \cup {o}
        BY <3>1, <3>2
      <4>2. Right(case, Src, Reaching(t), D, element[t])
        BY <1>0, <3>2 DEF Valued
      <4>3. IsFiniteSet(Reaching(t)) /\ D \subseteq Reaching(t) /\ o \in Reaching(t) \ D
        BY <1>0, <3>2, <3>3, OffsetsFinite
      <4>4. case.reduce \in {"none", "add"}
        BY <1>0, <1>1, CallFacts
      <4>. HIDE DEF D, t, o
      <4>5. IsNext(case, Src, Reaching(t), D, o, element[t])
        BY <4>2, <4>3 DEF IsNext
      <4>6. Right(case, Src, Reaching(t), D \cup {o}, y)
        BY <4>4, <4>5, RightOnce
      <4>. QED BY <4>1, <4>6
    <3>. HIDE DEF y, t, o
    <3>. QED BY <1>0, <3>1, <3>2, <3>5, <3>6, ValuedStep
  <2>. QED BY <2>1, <2>2
<1>. QED BY <1>5, <1>6, <1>8 DEF ScatterInv

\* A step that leaves the elements, the blocks and what stopped.
LEMMA SameValues ==
  ASSUME Valued, case \in Cases, case' = case, element' = element, Done' = Done
  PROVE  Valued'
<1>1. Src' = Src /\ \A a : Reaching(a)' = Reaching(a)
  BY Static
<1>. QED BY <1>1 DEF Valued

LEMMA SamePast ==
  ASSUME case \in Cases, case' = case, iter' = iter, stop' = stop
  PROVE  Done' = Done
<1>1. \A k \in ScatterLanes, j \in 0 .. LOOP - 1 : Past(k, j)' <=> Past(k, j)
  BY DEF Past
<1>. QED BY <1>1, SameDone

LEMMA LoadCurrentKeeps ==
  ASSUME ScatterInv, NEW l \in ScatterLanes, LoadCurrent(l) PROVE ScatterInv'
<1>0. Typed /\ Controlled /\ Valued /\ case \in Cases /\ case' = case /\ ScatterLanes' = ScatterLanes
  BY Static DEF ScatterInv, Typed, LoadCurrent
<1>1. /\ case.reduce = "multiply" /\ turn[l] = "load" /\ turn' = [turn EXCEPT ![l] = "cas"]
      /\ iter' = iter /\ stop' = stop /\ element' = element
  BY DEF LoadCurrent
<1>2. Typed'
  BY <1>0, <1>1 DEF Typed
<1>3. Controlled'
  <2>1. \A o : mask(o)' = mask(o)
    BY <1>0, Static
  <2>2. \A k \in ScatterLanes : Here(k)' = Here(k)
    BY <1>1 DEF Here, Offset
  <2> SUFFICES ASSUME NEW k \in ScatterLanes
               PROVE  /\ turn'[k] = "exited" <=> iter[k] = LOOP
                      /\ iter[k] # LOOP /\ ~mask(Here(k)) => stop[k]
    BY <1>0, <1>1, <2>1, <2>2 DEF Controlled, Here, Offset, mask
  <2>3. turn'[k] = IF k = l THEN "cas" ELSE turn[k]
    BY <1>0, <1>1 DEF Typed
  <2>. QED BY <1>0, <1>1, <2>3 DEF Controlled
<1>4. Valued'
  BY <1>0, <1>1, SamePast, SameValues
<1>. QED BY <1>2, <1>3, <1>4 DEF ScatterInv

LEMMA CompareAndSwapKeeps ==
  ASSUME ScatterInv, NEW l \in ScatterLanes, CompareAndSwap(l) PROVE ScatterInv'
<1>0. Typed /\ Controlled /\ Valued /\ case \in Cases /\ case' = case /\ ScatterLanes' = ScatterLanes
  BY Static DEF ScatterInv, Typed, CompareAndSwap
<1>1. /\ turn[l] = "cas" /\ turn' = [turn EXCEPT ![l] = "voted"] /\ iter' = iter
      /\ stop' = [stop EXCEPT ![l] = stop[l] \/ Equal(cur[l], element[Target(l)])]
      /\ element' = IF element[Target(l)] # cur[l] THEN element
                    ELSE [element EXCEPT ![Target(l)] = res(l)]
  BY DEF CompareAndSwap
<1>2. case.reduce = "multiply" /\ LOOP \in Nat \ {0}
  BY <1>0, <1>1, CallFacts DEF Controlled
<1> DEFINE o == Here(l)
           t == Target(l)
           won == Equal(cur[l], element[t])
<1>3. PICK i \in 0 .. LOOP - 1 :
        i = iter[l] /\ o = Offset(l, i) /\ (mask(o) <=> o \in Offsets)
  BY <1>0, <1>1, AtWork
<1>4. won \in BOOLEAN /\ stop \in [ScatterLanes -> BOOLEAN]
  BY <1>0 DEF Equal, Typed
<1>5. stop' = [stop EXCEPT ![l] = stop[l] \/ won]
  BY <1>1
<1>6. \A k \in ScatterLanes : stop'[k] = IF k = l THEN stop[l] \/ won ELSE stop[k]
  <2>. HIDE DEF won
  <2>. QED BY <1>4, <1>5
<1>7. Typed'
  <2>1. stop' \in [ScatterLanes -> BOOLEAN]
    <3>. HIDE DEF won
    <3>. QED BY <1>4, <1>5
  <2>2. element' = [a \in Addrs(case.inp) |-> element'[a]]
    BY <1>0, <1>1 DEF Typed
  <2>3. turn' \in [ScatterLanes -> {"load", "cas", "voted", "exited"}]
    BY <1>0, <1>1 DEF Typed
  <2>. QED BY <1>0, <1>1, <2>1, <2>2, <2>3 DEF Typed
<1>8. Controlled'
  <2> SUFFICES ASSUME NEW k \in ScatterLanes
               PROVE  /\ turn'[k] = "exited" <=> iter[k] = LOOP
                      /\ iter[k] # LOOP /\ ~mask(Here(k)) => stop'[k]
    <3>1. \A x : mask(x)' = mask(x)
      BY <1>0, Static
    <3>. QED BY <1>0, <1>1, <1>2, <3>1 DEF Controlled, Here, Offset, mask
  <2>1. turn'[k] = IF k = l THEN "voted" ELSE turn[k]
    BY <1>0, <1>1 DEF Typed
  <2>2. stop[k] => stop'[k]
    BY <1>6
  <2>. QED BY <1>0, <1>1, <1>2, <2>1, <2>2 DEF Controlled
<1>9. CASE stop[l]
  <2>1. element' = element
    <3>1. res(l) = cur[l]
      BY <1>9 DEF res
    <3>. QED BY <1>0, <1>1, <3>1 DEF Typed
  <2>2. stop' = stop
    <3>. HIDE DEF won
    <3>. QED BY <1>4, <1>5, <1>9
  <2>3. Valued'
    BY <1>0, <1>1, <2>1, <2>2, SamePast, SameValues
  <2>. QED BY <1>7, <1>8, <2>3 DEF ScatterInv
<1>10. CASE ~stop[l]
  <2>1. o \in Offsets /\ o = Offset(l, i)
    <3>1. iter[l] # LOOP
      BY <1>2, <1>3
    <3>. QED BY <1>0, <1>2, <1>3, <1>10, <3>1 DEF Controlled
  <2>2. t = inp_offset(o) /\ t \in Addrs(case.inp) /\ o \in Reaching(t)
    BY <1>0, <2>1, TargetFacts DEF Target, Reaching
  <2>3. o \notin Done
    <3>1. ~Past(l, i)
      BY <1>2, <1>3, <1>10 DEF Past
    <3>. QED BY <1>0, <2>1, <3>1, PastIs
  <2>4. won => Done' = Done \cup {o}
    <3> SUFFICES ASSUME won PROVE Done' = Done \cup {o}
      OBVIOUS
    <3>1. Past(l, i)'
      BY <1>0, <1>1, <1>2, <1>3, <1>6 DEF Past
    <3>2. ASSUME NEW k \in ScatterLanes, NEW j \in 0 .. LOOP - 1, <<k, j>> # <<l, i>>
          PROVE  Past(k, j)' <=> Past(k, j)
      BY <1>0, <1>1, <1>3, <1>6, <3>2 DEF Past
    <3>. HIDE DEF won, t
    <3>3. Done' = Done \cup ({Offset(l, i)} \cap Offsets)
      BY <1>0, <3>1, <3>2, StepOfDone
    <3>. QED BY <2>1, <3>3
  <2>5. ~won => Done' = Done
    <3> SUFFICES ASSUME ~won PROVE Done' = Done
      OBVIOUS
    <3>1. stop' = stop
      <4>. HIDE DEF won
      <4>. QED BY <1>4, <1>5
    <3>. QED BY <1>0, <1>1, <3>1, SamePast
  <2> DEFINE D == Done \cap Reaching(t)
  <2>6. IsNext(case, Src, Reaching(t), D, o, element[t])
    <3>1. Right(case, Src, Reaching(t), D, element[t])
      BY <1>0, <2>2 DEF Valued
    <3>2. IsFiniteSet(Reaching(t)) /\ D \subseteq Reaching(t) /\ o \in Reaching(t) \ D
      BY <1>0, <2>2, <2>3, OffsetsFinite
    <3>. QED BY <3>1, <3>2 DEF IsNext
  <2>7. Right(case, Src, Reaching(t), D, element[t])
    BY <2>6 DEF IsNext
  <2>8. (won => Done' \cap Reaching(t) = D \cup {o}) /\ (~won => Done' \cap Reaching(t) = D)
    <3>. HIDE DEF won, t
    <3>. QED BY <2>2, <2>4, <2>5
  <2>9. \A a \in Addrs(case.inp) : a # t => element'[a] = element[a]
    BY <1>0, <1>1 DEF Typed
  <2>10. Right(case, Src, Reaching(t), Done' \cap Reaching(t), element'[t])
    <3>1. CASE element[t] = cur[l]
      <4>1. element'[t] = Times(element[t], Src[o])
        <5>1. res(l) = Times(element[t], Src[o])
          BY <1>10, <2>1, <3>1 DEF res, Src
        <5>. QED BY <1>0, <1>1, <2>2, <3>1, <5>1 DEF Typed
      <4>2. won = Equal(element[t], element[t])
        BY <3>1
      <4>. HIDE DEF D, t, o, won
      <4>3. /\ won => Right(case, Src, Reaching(t), D \cup {o}, element'[t])
            /\ ~won => Right(case, Src, Reaching(t), D, element'[t])
        BY <1>2, <2>6, <4>1, <4>2, RightTimes
      <4>. QED BY <1>4, <2>8, <4>3
    <3>2. CASE element[t] # cur[l]
      <4>1. element' = element
        BY <1>1, <3>2
      <4>2. won => element[t].kind = "zero"
        BY <3>2 DEF Equal
      <4>. HIDE DEF D, t, o, won
      <4>3. CASE won
        BY <1>2, <2>7, <4>1, <4>2, <4>3, RightZero
      <4>4. CASE ~won
        BY <2>7, <2>8, <4>1, <4>4
      <4>. QED BY <4>3, <4>4
    <3>. QED BY <3>1, <3>2
  <2>11. Done' \in {Done, Done \cup {o}}
    BY <2>4, <2>5
  <2>12. Valued'
    <3>. HIDE DEF t, o
    <3>. QED BY <1>0, <2>1, <2>2, <2>9, <2>10, <2>11, ValuedStep
  <2>. QED BY <1>7, <1>8, <2>12 DEF ScatterInv
<1>. QED BY <1>9, <1>10

LEMMA VoteKeeps ==
  ASSUME ScatterInv, NEW l \in ScatterLanes, Vote(l[1]) PROVE ScatterInv'
<1>0. Typed /\ Controlled /\ Valued /\ case \in Cases /\ case' = case /\ ScatterLanes' = ScatterLanes
  BY Static DEF ScatterInv, Typed, Vote
<1> DEFINE p == l[1]
<1>1. LOOP \in Nat \ {0} /\ BLOCK \in Nat \ {0}
  BY <1>0, CallFacts
<1>2. \A k \in ScatterLanes : k \in LanesOf(p) <=> k[1] = p
  BY DEF ScatterLanes, LanesOf
<1>3. LanesOf(p) \subseteq ScatterLanes
  BY DEF ScatterLanes, LanesOf
<1>4. \A k \in ScatterLanes : k[1] = p => turn[k] = "voted"
  BY <1>2 DEF Vote
<1>5. case.reduce = "multiply" /\ element' = element
  BY <1>0, <1>4 DEF Controlled, Vote
<1>6. \A x : mask(x)' = mask(x)
  BY <1>0, Static
<1>7. CASE \A k \in LanesOf(p) : stop[k]
  <2>1. \A k \in ScatterLanes : k[1] = p => stop[k] /\ iter[k] \in 0 .. LOOP - 1
    BY <1>0, <1>2, <1>4, <1>7, AtWork
  <2>2. /\ iter' = [k \in ScatterLanes |-> iter[k] + IF k[1] = p THEN 1 ELSE 0]
        /\ turn' = [k \in ScatterLanes |-> IF k[1] # p THEN turn[k]
                    ELSE IF iter[k] + 1 = LOOP THEN "exited" ELSE "load"]
        /\ stop' = [k \in ScatterLanes |-> IF k[1] # p THEN stop[k]
                      ELSE StopsAtFirst(k, iter[k] + 1)]
    BY <1>7 DEF Vote
  <2>3. ASSUME NEW k \in ScatterLanes
        PROVE  /\ iter'[k] \in 0 .. LOOP
               /\ k[1] # p => iter'[k] = iter[k] /\ turn'[k] = turn[k] /\ stop'[k] = stop[k]
               /\ k[1] = p => /\ iter'[k] = iter[k] + 1
                              /\ turn'[k] = IF iter'[k] = LOOP THEN "exited" ELSE "load"
                              /\ stop'[k] = ~mask(Offset(k, iter'[k]))
    <3>1. iter[k] \in 0 .. LOOP
      BY <1>0 DEF Typed
    <3>2. CASE k[1] = p
      <4>1. iter'[k] = iter[k] + 1
        BY <2>2, <3>2
      <4>2. turn'[k] = IF iter'[k] = LOOP THEN "exited" ELSE "load"
        BY <2>2, <3>2, <4>1
      <4>3. stop'[k] = ~mask(Offset(k, iter'[k]))
        BY <2>2, <3>2, <4>1 DEF StopsAtFirst
      <4>4. iter'[k] \in 0 .. LOOP
        BY <1>1, <2>1, <3>2, <4>1
      <4>. QED BY <3>2, <4>1, <4>2, <4>3, <4>4
    <3>3. CASE k[1] # p
      <4>1. iter'[k] = iter[k] + 0 /\ turn'[k] = turn[k] /\ stop'[k] = stop[k]
        BY <2>2, <3>3
      <4>. QED BY <3>1, <3>3, <4>1
    <3>. QED BY <3>2, <3>3
  <2>4. Typed'
    <3>1. iter' \in [ScatterLanes -> 0 .. LOOP]
      BY <2>2, <2>3
    <3>2. ASSUME NEW k \in ScatterLanes
          PROVE  turn'[k] \in {"load", "cas", "voted", "exited"} /\ stop'[k] \in BOOLEAN
      <4>1. turn[k] \in {"load", "cas", "voted", "exited"} /\ stop[k] \in BOOLEAN
        BY <1>0 DEF Typed
      <4>2. mask(Offset(k, iter'[k])) \in BOOLEAN
        BY DEF mask
      <4>. QED BY <2>3, <4>1, <4>2
    <3>3. turn' \in [ScatterLanes -> {"load", "cas", "voted", "exited"}]
      BY <2>2, <3>2
    <3>4. stop' \in [ScatterLanes -> BOOLEAN]
      BY <2>2, <3>2
    <3>. QED BY <1>0, <1>5, <3>1, <3>3, <3>4 DEF Typed
  <2>5. Controlled'
    <3> SUFFICES ASSUME NEW k \in ScatterLanes
                 PROVE  /\ turn'[k] = "exited" <=> iter'[k] = LOOP
                        /\ iter'[k] # LOOP /\ ~mask(Offset(k, iter'[k])) => stop'[k]
      BY <1>0, <1>5, <1>6 DEF Controlled, Here, Offset, mask
    <3>1. CASE k[1] = p
      BY <2>3, <3>1
    <3>2. CASE k[1] # p
      BY <1>0, <1>5, <2>3, <3>2 DEF Controlled, Here
    <3>. QED BY <3>1, <3>2
  <2>6. Done' = Done
    <3> SUFFICES ASSUME NEW k \in ScatterLanes, NEW j \in 0 .. LOOP - 1, Offset(k, j) \in Offsets
                 PROVE  Past(k, j)' <=> Past(k, j)
      BY <1>0, SameDone
    <3>1. CASE k[1] = p
      <4>1. iter'[k] = iter[k] + 1 /\ stop[k] /\ iter[k] \in 0 .. LOOP - 1
        BY <2>1, <2>3, <3>1
      <4>2. j = iter'[k] => ~stop'[k]
        BY <1>0, <2>3, <3>1, MaskIs
      <4>3. Past(k, j)' <=> j < iter[k] + 1
        BY <1>0, <1>5, <4>1, <4>2 DEF Past
      <4>4. Past(k, j) <=> j < iter[k] \/ j = iter[k]
        BY <1>5, <4>1 DEF Past
      <4>. QED BY <1>1, <4>1, <4>3, <4>4
    <3>2. CASE k[1] # p
      BY <1>0, <2>3, <3>2 DEF Past
    <3>. QED BY <3>1, <3>2
  <2>7. Valued'
    BY <1>0, <1>5, <2>6, SameValues
  <2>. QED BY <2>4, <2>5, <2>7 DEF ScatterInv
<1>8. CASE ~\A k \in LanesOf(p) : stop[k]
  <2>1. /\ turn' = [k \in ScatterLanes |-> IF k[1] = p THEN "load" ELSE turn[k]]
        /\ iter' = iter /\ stop' = stop
    BY <1>8 DEF Vote
  <2>2. Typed'
    BY <1>0, <1>5, <2>1 DEF Typed
  <2>3. Controlled'
    <3> SUFFICES ASSUME NEW k \in ScatterLanes
                 PROVE  /\ turn'[k] = "exited" <=> iter[k] = LOOP
                        /\ iter[k] # LOOP /\ ~mask(Here(k)) => stop[k]
      BY <1>0, <1>5, <1>6, <2>1 DEF Controlled, Here, Offset, mask
    <3>1. k[1] = p => turn[k] = "voted" /\ turn'[k] = "load"
      BY <1>4, <2>1
    <3>2. k[1] # p => turn'[k] = turn[k]
      BY <2>1
    <3>. QED BY <1>0, <1>5, <3>1, <3>2 DEF Controlled
  <2>4. Valued'
    BY <1>0, <1>5, <2>1, SamePast, SameValues
  <2>. QED BY <2>2, <2>3, <2>4 DEF ScatterInv
<1>. QED BY <1>7, <1>8
-----------------------------------------------------------------------------
(***************************************************************************)
(* When the lanes are through                                              *)
(***************************************************************************)
\* An offset and its multi-index reach the same element.
LEMMA HitsAre ==
  ASSUME case \in Cases, NEW a
  PROVE  /\ \A o \in Reaching(a) : Mods(o) \in Hits(a)
         /\ \A m \in Hits(a) : \E o \in Reaching(a) : Mods(o) = m
         /\ \A m : m \in Hits(a) <=> /\ m \in Indices(case.index.shape)
                                     /\ Addr(case.inp.stride, Moved(m)) = a
         /\ \A o \in Reaching(a) : Src[o] = Addr(case.src.stride, Mods(o))
<1>1. \A m : m \in Hits(a) <=> /\ m \in Indices(case.index.shape)
                               /\ Addr(case.inp.stride, Moved(m)) = a
  BY DEF Hits, Moved
<1>2. \A o \in Offsets : inp_offset(o) = Addr(case.inp.stride, Moved(Mods(o)))
  BY TargetFacts
<1>3. \A o \in Reaching(a) : Mods(o) \in Hits(a)
  BY <1>1, <1>2, ModsFacts DEF Reaching
<1>4. ASSUME NEW m \in Hits(a) PROVE \E o \in Reaching(a) : Mods(o) = m
  <2>1. PICK o \in Offsets : Mods(o) = m
    BY <1>1, ModsFacts
  <2>. QED BY <1>1, <1>2, <2>1 DEF Reaching
<1>5. \A o \in Reaching(a) : Src[o] = Addr(case.src.stride, Mods(o))
  BY DEF Reaching, Src, src_offset
<1>. QED BY <1>1, <1>3, <1>4, <1>5

\* So the offsets carry the same sources as the multi-indices.
LEMMA SourcesAre ==
  ASSUME case \in Cases, NEW a
  PROVE  /\ Hits(a) = {} <=> Reaching(a) = {}
         /\ DOMAIN Sources(a) = {Src[o] : o \in Reaching(a)}
         /\ Sources(a) = BagOf(Src, Reaching(a))
<1> DEFINE R == Reaching(a)
           H == Hits(a)
           source(m) == Addr(case.src.stride, m)
<1>1. /\ \A o \in R : Mods(o) \in H /\ Src[o] = source(Mods(o))
      /\ \A m \in H : \E o \in R : Mods(o) = m
  BY HitsAre
<1>2. \A o, p \in R : Mods(o) = Mods(p) => o = p
  BY ModsFacts DEF Reaching
<1>3. IsFiniteSet(R)
  BY OffsetsFinite
<1>4. Sources(a) = [s \in {source(m) : m \in H} |-> Cardinality({m \in H : source(m) = s})]
  BY DEF Sources
<1>5. BagOf(Src, R) = [s \in {Src[o] : o \in R} |-> Cardinality({o \in R : Src[o] = s})]
  BY DEF BagOf
<1>. HIDE DEF R, H, source
<1>6. {source(m) : m \in H} = {Src[o] : o \in R}
  BY <1>1
<1>7. ASSUME NEW s
      PROVE  Cardinality({m \in H : source(m) = s}) = Cardinality({o \in R : Src[o] = s})
  <2> DEFINE P == {o \in R : Src[o] = s}
             Q == {m \in H : source(m) = s}
             f == [o \in P |-> Mods(o)]
  <2>1. IsFiniteSet(P)
    BY <1>3, FS_Subset
  <2>2. f \in [P -> Q]
    BY <1>1
  <2>3. f \in Injection(P, Q)
    BY <1>2, <2>2 DEF Injection, IsInjective
  <2>4. f \in Surjection(P, Q)
    <3>1. ASSUME NEW m \in Q PROVE \E o \in P : f[o] = m
      BY <1>1
    <3>. QED BY <2>2, <3>1 DEF Surjection
  <2>5. ExistsBijection(P, Q)
    BY <2>3, <2>4 DEF ExistsBijection, Bijection
  <2>. HIDE DEF P, Q
  <2>6. Cardinality(Q) = Cardinality(P)
    BY <2>1, <2>5, FS_Bijection
  <2>. QED BY <2>6 DEF P, Q
<1>8. Sources(a) = BagOf(Src, R)
  BY <1>4, <1>5, <1>6, <1>7
<1>9. DOMAIN Sources(a) = {Src[o] : o \in R}
  BY <1>5, <1>8
<1>10. H = {} <=> R = {}
  BY <1>1
<1>. QED BY <1>8, <1>9, <1>10 DEF R, H

\* The invariant gives the property.
LEMMA ScatteredFollows ==
  ASSUME ScatterInv PROVE Scattered
<1> SUFFICES ASSUME Finished, NEW a \in Addrs(case.inp)
             PROVE  IF Hits(a) = {} THEN element[a] = Untouched
                    ELSE CASE case.reduce = "none" ->
                                \E s \in DOMAIN Sources(a) :
                                  element[a] = Number(SetToBag({s}))
                           [] case.reduce = "add" -> element[a] = Number(Sources(a))
                           [] case.reduce = "multiply" -> IsProduct(a)
  BY DEF Scattered
<1> DEFINE R == Reaching(a)
           x == element[a]
<1>1. Typed /\ Controlled /\ Valued /\ case \in Cases
  BY DEF ScatterInv, Typed
<1>2. LOOP \in Nat /\ case.reduce \in {"none", "add", "multiply"}
  BY <1>1, CallFacts
<1>3. Done = Offsets
  <2>1. ASSUME NEW o \in Offsets PROVE o \in Done
    <3>1. PICK l \in ScatterLanes, i \in 0 .. LOOP - 1 : o = Offset(l, i)
      BY <1>1, OffsetFacts
    <3>2. iter[l] = LOOP
      BY <1>1 DEF Controlled, Finished
    <3>3. Past(l, i)
      BY <1>2, <3>2 DEF Past
    <3>. QED BY <3>1, <3>3 DEF Done
  <2>. QED BY <2>1 DEF Done
<1>4. Done \cap R = R
  BY <1>3 DEF Reaching
<1>5. Right(case, Src, R, R, x)
  BY <1>1, <1>4 DEF Valued
<1>6. /\ Hits(a) = {} <=> R = {}
      /\ DOMAIN Sources(a) = {Src[o] : o \in R}
      /\ Sources(a) = BagOf(Src, R)
  BY <1>1, SourcesAre
<1>. HIDE DEF R
<1>7. CASE R = {}
  <2>1. BagOf(Src, {}) = EmptyBag
    BY BagOfNone
  <2>2. x = Untouched
    <3>1. CASE case.reduce = "none"
      BY <1>5, <1>7, <3>1 DEF Right
    <3>2. CASE case.reduce = "add"
      BY <1>5, <1>7, <2>1, <3>2 DEF Right, Untouched
    <3>3. CASE case.reduce = "multiply"
      BY <1>5, <1>7, <2>1, <3>3 DEF Right, Untouched
    <3>. QED BY <1>2, <3>1, <3>2, <3>3
  <2>. QED BY <1>6, <1>7, <2>2
<1>8. CASE R # {}
  <2>1. CASE case.reduce = "none"
    <3>1. \E o \in R : x = Number(SetToBag({Src[o]}))
      BY <1>5, <1>8, <2>1 DEF Right
    <3>. QED BY <1>6, <1>8, <2>1, <3>1
  <2>2. CASE case.reduce = "add"
    <3>1. x = Number(Sources(a))
      BY <1>5, <1>6, <2>2 DEF Right
    <3>. QED BY <1>6, <1>8, <2>2, <3>1
  <2>3. CASE case.reduce = "multiply"
    <3> DEFINE has_zero == DOMAIN Sources(a) \cap case.zeros # {}
               has_nan == DOMAIN Sources(a) \cap case.nans # {}
    <3>1. /\ has_zero <=> \E o \in R : Src[o] \in case.zeros
          /\ has_nan <=> \E o \in R : Src[o] \in case.nans
      BY <1>6
    <3>. HIDE DEF has_zero, has_nan
    <3>2. \/ has_zero /\ x.kind = "zero"
          \/ has_nan /\ x = NaN
          \/ ~has_zero /\ ~has_nan /\ x = Number(Sources(a))
      BY <1>5, <1>6, <2>3, <3>1 DEF Right
    <3>3. IsProduct(a)
      BY <3>2 DEF IsProduct, has_zero, has_nan
    <3>. QED BY <1>6, <1>8, <2>3, <3>3
  <2>. QED BY <1>2, <2>1, <2>2, <2>3
<1>. QED BY <1>7, <1>8

\* No factor is lost or taken twice: when the kernel is through, each element
\* is what index and src make of it, for every call, block size and number of
\* blocks, and for every order in which the lanes meet.
THEOREM ScatterIsRight == ScatterSpec => []Scattered
<1>1. ScatterInit => ScatterInv
  BY ScatterStarts
<1>2. ScatterInv /\ [ScatterNext]_scatter_vars => ScatterInv'
  <2> SUFFICES ASSUME ScatterInv, [ScatterNext]_scatter_vars PROVE ScatterInv'
    OBVIOUS
  <2>1. CASE UNCHANGED scatter_vars
    <3>1. case \in Cases /\ Typed /\ Controlled /\ Valued
      BY DEF ScatterInv, Typed
    <3>2. /\ case' = case /\ element' = element /\ iter' = iter /\ turn' = turn /\ stop' = stop
      BY <2>1 DEF scatter_vars
    <3>3. ScatterLanes' = ScatterLanes /\ \A x : mask(x)' = mask(x)
      BY <3>1, <3>2, Static
    <3>4. Typed'
      BY <3>1, <3>2, <3>3 DEF Typed
    <3>5. Controlled'
      BY <3>1, <3>2, <3>3 DEF Controlled, Here, Offset, mask
    <3>6. Valued'
      BY <3>1, <3>2, SamePast, SameValues
    <3>. QED BY <3>4, <3>5, <3>6 DEF ScatterInv
  <2>2. ASSUME NEW l \in ScatterLanes, LaneStep(l) PROVE ScatterInv'
    <3>1. CASE ScatterOnce(l)
      BY <3>1, ScatterOnceKeeps
    <3>2. CASE LoadCurrent(l)
      BY <3>2, LoadCurrentKeeps
    <3>3. CASE CompareAndSwap(l)
      BY <3>3, CompareAndSwapKeeps
    <3>4. CASE Vote(l[1])
      BY <3>4, VoteKeeps
    <3>. QED BY <2>2, <3>1, <3>2, <3>3, <3>4 DEF LaneStep
  <2>. QED BY <2>1, <2>2 DEF ScatterNext
<1>3. ScatterInv => Scattered
  BY ScatteredFollows
<1>. QED BY <1>1, <1>2, <1>3, PTL DEF ScatterSpec
-----------------------------------------------------------------------------
(***************************************************************************)
(* Tiles                                                                   *)
(***************************************************************************)
LEMMA OfTwo ==
  ASSUME NEW a \in Int, NEW b \in Int
  PROVE  /\ Min({a, b}) = IF a <= b THEN a ELSE b
         /\ Max({a, b}) = IF a >= b THEN a ELSE b
<1>1. \E x \in {a, b} : \A y \in {a, b} : x <= y
  OBVIOUS
<1>2. Min({a, b}) \in {a, b} /\ \A y \in {a, b} : Min({a, b}) <= y
  BY <1>1, Zenon DEF Min
<1>3. \E x \in {a, b} : \A y \in {a, b} : x >= y
  OBVIOUS
<1>4. Max({a, b}) \in {a, b} /\ \A y \in {a, b} : Max({a, b}) >= y
  BY <1>3, Zenon DEF Max
<1>5. Min({a, b}) = IF a <= b THEN a ELSE b
  BY <1>2
<1>6. Max({a, b}) = IF a >= b THEN a ELSE b
  BY <1>4
<1>. QED BY <1>5, <1>6

LEMMA PowerPositive ==
  ASSUME NEW n \in Nat
  PROVE  next_power_of_2(n) \in Nat \ {0}
<1> DEFINE s == [i \in 1 .. n |-> n]
<1>1. PICK p \in Partials("double", s, n) : next_power_of_2(n) = p[n]
  BY PowerIs
<1>2. /\ p[0] = 1
      /\ \A k \in 1 .. n : p[k] = IF p[k - 1] < s[k] THEN 2 * p[k - 1] ELSE p[k - 1]
  BY DEF Partials, Combined, Neutral
<1> DEFINE T == {k \in Nat : k <= n /\ p[k] \notin Nat \ {0}}
<1>3. T = {}
  <2> SUFFICES ASSUME T # {} PROVE FALSE
    OBVIOUS
  <2>1. PICK k \in T : \A j \in T : k <= j
    <3>1. T \in SUBSET Nat
      OBVIOUS
    <3>. HIDE DEF T
    <3>. QED BY <3>1, LeastNat
  <2>2. k \in Nat /\ k <= n /\ p[k] \notin Nat \ {0} /\ k # 0
    BY <1>2
  <2>3. k \in 1 .. n /\ k - 1 \in Nat /\ k - 1 <= n /\ ~(k <= k - 1)
    BY <2>2
  <2>4. p[k - 1] \in Nat \ {0}
    BY <2>1, <2>3
  <2>5. p[k] \in {p[k - 1], 2 * p[k - 1]}
    BY <1>2, <2>3
  <2>. HIDE DEF T
  <2>. QED BY <2>2, <2>4, <2>5
<1>. QED BY <1>1, <1>3

Tiles(n) == {q \in Seq(Nat \ {0}) : Len(q) = n}

LEMMA TakeFacts ==
  ASSUME NEW s, NEW size \in Nat, NEW k \in Nat,
         s.left \in Nat \ {0}, s.tiles \in Tiles(k)
  PROVE  /\ TakeTile(s, size).left \in Nat \ {0}
         /\ TakeTile(s, size).tiles \in Tiles(k + 1)
<1> DEFINE a == s.left
           b == next_power_of_2(size)
           tile == Min({a, b})
           rest == a \div tile
<1>1. a \in Nat \ {0} /\ b \in Nat \ {0}
  BY PowerPositive
<1>. HIDE DEF a, b
<1>2. tile \in Nat \ {0}
  BY <1>1, OfTwo
<1>. HIDE DEF tile
<1>3. rest \in Nat
  BY <1>1, <1>2, DivMod
<1>. HIDE DEF rest
<1>4. Max({1, rest}) \in Nat \ {0}
  <2> DEFINE one == 1
  <2>1. one \in Int /\ rest \in Int
    BY <1>3
  <2>. HIDE DEF one
  <2>2. Max({one, rest}) = IF one >= rest THEN one ELSE rest
    BY <2>1, OfTwo
  <2>. QED BY <1>3, <2>2 DEF one
<1>5. TakeTile(s, size) = [left |-> Max({1, rest}), tiles |-> <<tile>> \o s.tiles]
  BY DEF TakeTile, a, b, tile, rest
<1>6. s.tiles \in Seq(Nat \ {0}) /\ Len(s.tiles) = k
  BY DEF Tiles
<1>7. <<tile>> \o s.tiles \in Seq(Nat \ {0}) /\ Len(<<tile>> \o s.tiles) = k + 1
  <2>1. <<tile>> \in Seq(Nat \ {0}) /\ Len(<<tile>>) = 1
    BY <1>2
  <2>. QED BY <1>6, <2>1
<1>. QED BY <1>4, <1>5, <1>7 DEF Tiles

\* The sizes of a tile are positive, one for each axis.
LEMMA TileSizes ==
  ASSUME NEW sizes \in Seq(Nat), NEW tile \in Nat \ {0}
  PROVE  heuristics_for_tile_size(tile, sizes) \in Tiles(Len(sizes))
<1> DEFINE n == Len(sizes)
           s == Reverse(sizes)
<1>1. n \in Nat
  OBVIOUS
<1>2. PICK p : /\ IsRun("tile", [left |-> tile, tiles |-> <<>>], s, n, p)
               /\ heuristics_for_tile_size(tile, sizes) = p[n].tiles
  BY <1>1, TilesAre
<1>3. /\ p[0] = [left |-> tile, tiles |-> <<>>]
      /\ \A k \in 1 .. n : p[k] = TakeTile(p[k - 1], s[k])
  BY <1>2 DEF IsRun, Combined
<1>4. \A k \in 1 .. n : s[k] \in Nat
  BY DEF Reverse
<1>. HIDE DEF s
<1> DEFINE Fine(k) == p[k].left \in Nat \ {0} /\ p[k].tiles \in Tiles(k)
           T == {k \in Nat : k <= n /\ ~Fine(k)}
<1>5. T = {}
  <2> SUFFICES ASSUME T # {} PROVE FALSE
    OBVIOUS
  <2>1. PICK k \in T : \A j \in T : k <= j
    <3>1. T \in SUBSET Nat
      OBVIOUS
    <3>. HIDE DEF T
    <3>. QED BY <3>1, LeastNat
  <2>2. k \in Nat /\ k <= n /\ ~Fine(k)
    OBVIOUS
  <2>3. Fine(0)
    BY <1>3 DEF Tiles
  <2>4. k # 0
    <3>. HIDE DEF Fine
    <3>. QED BY <2>2, <2>3
  <2>5. k \in 1 .. n /\ k - 1 \in Nat /\ k - 1 <= n /\ ~(k <= k - 1) /\ k - 1 + 1 = k
    BY <2>2, <2>4
  <2>6. Fine(k - 1)
    <3>. HIDE DEF Fine
    <3>. QED BY <2>1, <2>5
  <2>7. Fine(k - 1 + 1)
    <3>1. p[k] = TakeTile(p[k - 1], s[k]) /\ s[k] \in Nat
      BY <1>3, <1>4, <2>5
    <3>2. /\ TakeTile(p[k - 1], s[k]).left \in Nat \ {0}
          /\ TakeTile(p[k - 1], s[k]).tiles \in Tiles(k - 1 + 1)
      BY <2>5, <2>6, <3>1, TakeFacts
    <3>. QED BY <2>5, <3>1, <3>2
  <2>. QED BY <2>2, <2>5, <2>7
<1>6. Fine(n)
  <2>1. n \notin T
    <3>. HIDE DEF T
    <3>. QED BY <1>5
  <2>. QED BY <1>1, <2>1
<1>. QED BY <1>2, <1>6
-----------------------------------------------------------------------------
(***************************************************************************)
(* Broadcasting                                                            *)
(***************************************************************************)
\* A view of shape s can be shown as one of shape T.
Fits(s, T) ==
  /\ Len(s) <= Len(T)
  /\ \A i \in 1 .. Len(s) : s[i] = 1 \/ s[i] = T[Len(T) - Len(s) + i]

LEMMA FitsOn ==
  ASSUME NEW s \in Seq(Nat), NEW T \in Seq(Nat), NEW U \in Seq(Nat), Fits(s, T), Fits(T, U)
  PROVE  Fits(s, U)
<1>0. Len(s) \in Nat /\ Len(T) \in Nat /\ Len(U) \in Nat
  OBVIOUS
<1>1. Len(s) <= Len(T) /\ Len(T) <= Len(U)
  BY DEF Fits
<1>2. ASSUME NEW i \in 1 .. Len(s) PROVE s[i] = 1 \/ s[i] = U[Len(U) - Len(s) + i]
  <2> DEFINE j == Len(T) - Len(s) + i
  <2>1. j \in 1 .. Len(T)
    BY <1>0, <1>1
  <2>2. s[i] = 1 \/ s[i] = T[j]
    BY DEF Fits
  <2>3. T[j] = 1 \/ T[j] = U[Len(U) - Len(T) + j]
    BY <2>1 DEF Fits
  <2>4. Len(U) - Len(T) + j = Len(U) - Len(s) + i
    BY <1>0
  <2>. QED BY <2>2, <2>3, <2>4
<1>. QED BY <1>0, <1>1, <1>2 DEF Fits

\* The two roles of the operands of broadcast.
Joined(long, short) ==
  LET d == Len(long) - Len(short)
  IN  [i \in 1 .. Len(long) |-> IF i > d /\ long[i] = 1 THEN short[i - d] ELSE long[i]]
CanJoin(long, short) ==
  \A i \in 1 .. Len(short) :
    1 \in {long[Len(long) - Len(short) + i], short[i]}
      \/ long[Len(long) - Len(short) + i] = short[i]

LEMMA JoinedFits ==
  ASSUME NEW long \in Seq(Nat), NEW short \in Seq(Nat), Len(long) >= Len(short),
         CanJoin(long, short)
  PROVE  /\ Joined(long, short) \in Seq(Nat)
         /\ Fits(long, Joined(long, short)) /\ Fits(short, Joined(long, short))
<1> DEFINE n == Len(long)
           m == Len(short)
           d == n - m
           T == [i \in 1 .. n |-> IF i > d /\ long[i] = 1 THEN short[i - d] ELSE long[i]]
<1>1. n \in Nat /\ m \in Nat /\ d \in Nat
  OBVIOUS
<1>2. \A i \in 1 .. n : long[i] \in Nat
  OBVIOUS
<1>3. \A i \in 1 .. m : short[i] \in Nat
  OBVIOUS
<1>4. Joined(long, short) = T
  BY DEF Joined
<1>5. ASSUME NEW i \in 1 .. n
      PROVE  T[i] = IF i > d /\ long[i] = 1 THEN short[i - d] ELSE long[i]
  OBVIOUS
<1>6. ASSUME NEW i \in 1 .. n PROVE T[i] \in Nat
  <2>1. i > d => i - d \in 1 .. m
    BY <1>1
  <2>. QED BY <1>2, <1>3, <1>5, <2>1
<1>7. T \in Seq(Nat) /\ Len(T) = n
  <2>1. T \in [1 .. n -> Nat]
    BY <1>6
  <2>. HIDE DEF T
  <2>. QED BY <1>1, <2>1, ShapeFacts
<1>. HIDE DEF T
<1>8. Fits(long, T)
  <2>1. ASSUME NEW i \in 1 .. n PROVE long[i] = 1 \/ long[i] = T[n - n + i]
    <3>1. n - n + i = i
      BY <1>1
    <3>. QED BY <1>5, <3>1
  <2>. QED BY <1>1, <1>7, <2>1 DEF Fits
<1>9. Fits(short, T)
  <2>1. ASSUME NEW i \in 1 .. m PROVE short[i] = 1 \/ short[i] = T[n - m + i]
    <3> DEFINE j == d + i
    <3>1. j \in 1 .. n /\ j > d /\ j - d = i
      BY <1>1
    <3>2. long[j] = 1 \/ short[i] = 1 \/ long[j] = short[i]
      BY DEF CanJoin
    <3>. HIDE DEF j
    <3>3. T[j] = IF long[j] = 1 THEN short[i] ELSE long[j]
      BY <1>5, <3>1
    <3>4. short[i] = 1 \/ short[i] = T[j]
      BY <3>2, <3>3
    <3>. QED BY <3>4 DEF j
  <2>2. m <= n
    BY <1>1
  <2>. QED BY <1>7, <2>1, <2>2 DEF Fits
<1>. QED BY <1>4, <1>7, <1>8, <1>9

LEMMA NoShape == Unbroadcastable \notin Seq(Nat)
<1>1. Unbroadcastable[1] = -1 /\ Len(Unbroadcastable) = 1
  BY DEF Unbroadcastable
<1>. QED BY <1>1

LEMMA BroadcastFits ==
  ASSUME NEW s \in Seq(Nat), NEW t \in Seq(Nat), broadcast(s, t) # Unbroadcastable
  PROVE  /\ broadcast(s, t) \in Seq(Nat)
         /\ Fits(s, broadcast(s, t)) /\ Fits(t, broadcast(s, t))
<1>1. Unbroadcastable \notin {s, t}
  BY NoShape
<1>2. Len(s) \in Nat /\ Len(t) \in Nat
  OBVIOUS
<1>3. CASE Len(s) >= Len(t)
  <2>1. CanJoin(s, t) /\ broadcast(s, t) = Joined(s, t)
    BY <1>1, <1>3 DEF broadcast, CanJoin, Joined
  <2>. QED BY <1>3, <2>1, JoinedFits
<1>4. CASE ~(Len(s) >= Len(t))
  <2>1. CanJoin(t, s) /\ broadcast(s, t) = Joined(t, s)
    BY <1>1, <1>4 DEF broadcast, CanJoin, Joined
  <2>2. Len(t) >= Len(s)
    BY <1>2, <1>4
  <2>. QED BY <2>1, <2>2, JoinedFits
<1>. QED BY <1>3, <1>4

LEMMA BroadcastSame ==
  ASSUME NEW s \in Seq(Nat)
  PROVE  broadcast(s, s) = s /\ broadcast(<<>>, s) = s
<1>1. Len(s) \in Nat /\ s = [i \in 1 .. Len(s) |-> s[i]]
  OBVIOUS
<1>2. Unbroadcastable \notin {s, <<>>}
  <2>1. <<>> \in Seq(Nat)
    OBVIOUS
  <2>. QED BY <2>1, NoShape
<1>3. broadcast(s, s) = s
  <2>1. CanJoin(s, s)
    <3>1. \A i \in 1 .. Len(s) : Len(s) - Len(s) + i = i
      BY <1>1
    <3>. QED BY <3>1 DEF CanJoin
  <2>2. broadcast(s, s) = Joined(s, s)
    BY <1>1, <1>2, <2>1 DEF broadcast, CanJoin, Joined
  <2>3. Joined(s, s) = [i \in 1 .. Len(s) |-> s[i]]
    <3>1. \A i \in 1 .. Len(s) : i - (Len(s) - Len(s)) = i
      BY <1>1
    <3>. QED BY <3>1 DEF Joined
  <2>. QED BY <1>1, <2>2, <2>3
<1>4. broadcast(<<>>, s) = s
  <2>1. Len(<<>>) = 0 /\ <<>> \in Seq(Nat)
    OBVIOUS
  <2>2. CASE Len(s) = 0
    <3>1. s = <<>>
      BY <2>2
    <3>. QED BY <1>3, <3>1
  <2>3. CASE Len(s) # 0
    <3>1. ~(Len(<<>>) >= Len(s))
      BY <1>1, <2>1, <2>3
    <3>2. CanJoin(s, <<>>)
      BY <2>1 DEF CanJoin
    <3>3. broadcast(<<>>, s) = Joined(s, <<>>)
      BY <1>2, <3>1, <3>2 DEF broadcast, CanJoin, Joined
    <3>4. Joined(s, <<>>) = [i \in 1 .. Len(s) |-> s[i]]
      <4>1. \A i \in 1 .. Len(s) : ~(i > Len(s) - 0)
        BY <1>1
      <4>. QED BY <2>1, <4>1 DEF Joined
    <3>. QED BY <1>1, <3>3, <3>4
  <2>. QED BY <2>2, <2>3
<1>. QED BY <1>3, <1>4

\* If shapes can be broadcast together, each of them fits the result.
LEMMA ShapesFit ==
  ASSUME NEW n \in Nat, NEW shapes \in [1 .. n -> Seq(Nat)],
         broadcast_shapes(shapes) # Unbroadcastable
  PROVE  /\ broadcast_shapes(shapes) \in Seq(Nat)
         /\ \A k \in 1 .. n : Fits(shapes[k], broadcast_shapes(shapes))
<1>0. DOMAIN shapes = 1 .. n
  OBVIOUS
<1>1. PICK p : /\ IsRun("broadcast", <<>>, shapes, n, p)
               /\ broadcast_shapes(shapes) = p[n]
  BY <1>0, BroadcastIs
<1>2. p[0] = <<>> /\ \A k \in 1 .. n : p[k] = broadcast(p[k - 1], shapes[k])
  BY <1>1 DEF IsRun, Combined
<1> DEFINE Fine(k) == p[k] # Unbroadcastable =>
                        /\ p[k] \in Seq(Nat)
                        /\ \A j \in 1 .. k : Fits(shapes[j], p[k])
           T == {k \in Nat : k <= n /\ ~Fine(k)}
<1>3. T = {}
  <2> SUFFICES ASSUME T # {} PROVE FALSE
    OBVIOUS
  <2>1. PICK k \in T : \A j \in T : k <= j
    <3>1. T \in SUBSET Nat
      OBVIOUS
    <3>. HIDE DEF T
    <3>. QED BY <3>1, LeastNat
  <2>2. k \in Nat /\ k <= n /\ ~Fine(k)
    OBVIOUS
  <2>3. Fine(0)
    <3>1. <<>> \in Seq(Nat) /\ 1 .. 0 = {}
      OBVIOUS
    <3>. QED BY <1>2, <3>1
  <2>4. k # 0
    <3>. HIDE DEF Fine
    <3>. QED BY <2>2, <2>3
  <2>5. k \in 1 .. n /\ k - 1 \in Nat /\ k - 1 <= n /\ ~(k <= k - 1)
    BY <2>2, <2>4
  <2>6. Fine(k - 1)
    <3>. HIDE DEF Fine
    <3>. QED BY <2>1, <2>5
  <2>. HIDE DEF T
  <2> SUFFICES ASSUME p[k] # Unbroadcastable
               PROVE  p[k] \in Seq(Nat) /\ \A j \in 1 .. k : Fits(shapes[j], p[k])
    BY <2>2
  <2>7. p[k] = broadcast(p[k - 1], shapes[k]) /\ shapes[k] \in Seq(Nat)
    BY <1>2, <2>5
  <2>8. p[k - 1] # Unbroadcastable
    BY <2>7 DEF broadcast
  <2>9. p[k - 1] \in Seq(Nat) /\ \A j \in 1 .. k - 1 : Fits(shapes[j], p[k - 1])
    BY <2>6, <2>8
  <2>10. p[k] \in Seq(Nat) /\ Fits(p[k - 1], p[k]) /\ Fits(shapes[k], p[k])
    BY <2>7, <2>9, BroadcastFits
  <2>11. ASSUME NEW j \in 1 .. k PROVE Fits(shapes[j], p[k])
    <3>1. CASE j = k
      BY <2>10, <3>1
    <3>2. CASE j # k
      <4>1. j \in 1 .. k - 1 /\ j \in 1 .. n
        BY <2>2, <3>2
      <4>2. shapes[j] \in Seq(Nat) /\ Fits(shapes[j], p[k - 1])
        BY <2>9, <4>1
      <4>. QED BY <2>9, <2>10, <4>2, FitsOn
    <3>. QED BY <3>1, <3>2
  <2>. QED BY <2>10, <2>11
<1>4. Fine(n)
  <2>1. n \notin T
    <3>. HIDE DEF T
    <3>. QED BY <1>3
  <2>2. n \in Nat /\ n <= n
    OBVIOUS
  <2>. HIDE DEF Fine
  <2>. QED BY <2>1, <2>2
<1>. QED BY <1>1, <1>4

\* Equal shapes are broadcast to what they are.
LEMMA ShapesSame ==
  ASSUME NEW n \in Nat \ {0}, NEW s \in Seq(Nat), NEW shapes,
         DOMAIN shapes = 1 .. n, \A k \in 1 .. n : shapes[k] = s
  PROVE  broadcast_shapes(shapes) = s
<1>1. PICK p : /\ IsRun("broadcast", <<>>, shapes, n, p)
               /\ broadcast_shapes(shapes) = p[n]
  BY BroadcastIs
<1>2. p[0] = <<>> /\ \A k \in 1 .. n : p[k] = broadcast(p[k - 1], s)
  BY <1>1 DEF IsRun, Combined
<1> DEFINE T == {k \in Nat : k # 0 /\ k <= n /\ p[k] # s}
<1>3. T = {}
  <2> SUFFICES ASSUME T # {} PROVE FALSE
    OBVIOUS
  <2>1. PICK k \in T : \A j \in T : k <= j
    <3>1. T \in SUBSET Nat
      OBVIOUS
    <3>. HIDE DEF T
    <3>. QED BY <3>1, LeastNat
  <2>2. k \in Nat /\ k # 0 /\ k <= n /\ p[k] # s
    OBVIOUS
  <2>3. k \in 1 .. n /\ k - 1 \in Nat /\ k - 1 <= n /\ ~(k <= k - 1)
    BY <2>2
  <2>4. p[k - 1] \in {<<>>, s}
    <3>1. CASE k - 1 = 0
      BY <1>2, <3>1
    <3>2. CASE k - 1 # 0
      BY <2>1, <2>3, <3>2
    <3>. QED BY <3>1, <3>2
  <2>5. p[k] = broadcast(p[k - 1], s)
    BY <1>2, <2>3
  <2>. HIDE DEF T
  <2>. QED BY <2>2, <2>4, <2>5, BroadcastSame
<1>4. p[n] = s
  BY <1>3
<1>. QED BY <1>1, <1>4
-----------------------------------------------------------------------------
(***************************************************************************)
(* Views and their storages                                                *)
(***************************************************************************)
LEMMA GreatestOf ==
  ASSUME NEW S \in SUBSET Nat, S # {}, NEW top \in Nat, \A x \in S : x <= top
  PROVE  Max(S) \in S /\ Max(S) \in Nat /\ \A x \in S : x <= Max(S)
<1> DEFINE Bounds == {b \in Nat : \A x \in S : x <= b}
<1>1. PICK b \in Bounds : \A c \in Bounds : b <= c
  <2>1. Bounds \in SUBSET Nat /\ Bounds # {}
    OBVIOUS
  <2>. HIDE DEF Bounds
  <2>. QED BY <2>1, LeastNat
<1>2. b \in Nat /\ \A x \in S : x <= b
  OBVIOUS
<1>3. b \in S
  <2> SUFFICES ASSUME b \notin S PROVE FALSE
    OBVIOUS
  <2>1. b # 0
    <3>1. PICK x \in S : TRUE
      OBVIOUS
    <3>2. x \in Nat /\ x <= b /\ x # b
      BY <1>2, <3>1
    <3>. QED BY <3>2
  <2>2. b - 1 \in Nat /\ ~(b <= b - 1)
    BY <1>2, <2>1
  <2>3. ASSUME NEW x \in S PROVE x <= b - 1
    <3>1. x \in Nat /\ x <= b /\ x # b
      BY <1>2
    <3>. QED BY <1>2, <3>1
  <2>4. b - 1 \in Bounds
    BY <2>2, <2>3
  <2>. QED BY <1>1, <2>2, <2>4
<1>4. \E x \in S : \A y \in S : x >= y
  <2>1. \A y \in S : b >= y
    BY <1>2
  <2>. QED BY <1>3, <2>1
<1>5. Max(S) \in S /\ \A y \in S : Max(S) >= y
  <2>1. Max(S) = CHOOSE x \in S : \A y \in S : x >= y
    BY DEF Max
  <2>. QED BY <1>4, <2>1, Zenon
<1>6. ASSUME NEW x \in S PROVE x <= Max(S)
  <2>1. Max(S) >= x /\ Max(S) \in Nat /\ x \in Nat
    BY <1>5
  <2>. QED BY <2>1
<1>. QED BY <1>5, <1>6

\* Addresses are numbers, and grow with the places.
LEMMA AddrGrows ==
  ASSUME NEW n \in Nat, NEW stride \in [1 .. n -> Nat],
         NEW m \in [1 .. n -> Nat], NEW w \in [1 .. n -> Nat],
         \A i \in 1 .. n : m[i] <= w[i]
  PROVE  /\ Addr(stride, m) \in Nat /\ Addr(stride, w) \in Nat
         /\ Addr(stride, m) <= Addr(stride, w)
<1> DEFINE s == [i \in 1 .. n |-> stride[i] * m[i]]
           t == [i \in 1 .. n |-> stride[i] * w[i]]
<1>1. stride \in [1 .. n -> Int] /\ m \in [1 .. n -> Int] /\ w \in [1 .. n -> Int]
  OBVIOUS
<1>2. PICK p \in Partials("sum", s, n) : Addr(stride, m) = p[n]
  BY <1>1, AddrIs
<1>3. PICK q \in Partials("sum", t, n) : Addr(stride, w) = q[n]
  BY <1>1, AddrIs
<1>4. ASSUME NEW i \in 1 .. n PROVE s[i] \in Nat /\ t[i] \in Nat /\ s[i] <= t[i]
  <2> DEFINE a == stride[i]
             b == m[i]
             c == w[i]
  <2>1. a \in Nat /\ b \in Nat /\ c \in Nat /\ b <= c
    OBVIOUS
  <2>2. s[i] = a * b /\ t[i] = a * c
    OBVIOUS
  <2>. HIDE DEF a, b, c
  <2>3. a * b \in Nat /\ a * c \in Nat /\ a * b <= a * c
    BY <2>1, TimesGrows
  <2>. QED BY <2>2, <2>3
<1>5. /\ p[0] = 0 /\ \A k \in 1 .. n : p[k] = p[k - 1] + s[k]
      /\ q[0] = 0 /\ \A k \in 1 .. n : q[k] = q[k - 1] + t[k]
  BY DEF Partials, Combined, Neutral
<1>. HIDE DEF s, t
<1> DEFINE Fine(k) == p[k] \in Nat /\ q[k] \in Nat /\ p[k] <= q[k]
           T == {k \in Nat : k <= n /\ ~Fine(k)}
<1>6. T = {}
  <2> SUFFICES ASSUME T # {} PROVE FALSE
    OBVIOUS
  <2>1. PICK k \in T : \A j \in T : k <= j
    <3>1. T \in SUBSET Nat
      OBVIOUS
    <3>. HIDE DEF T
    <3>. QED BY <3>1, LeastNat
  <2>2. k \in Nat /\ k <= n /\ ~Fine(k)
    OBVIOUS
  <2>3. Fine(0)
    BY <1>5
  <2>4. k # 0
    <3>. HIDE DEF Fine
    <3>. QED BY <2>2, <2>3
  <2>5. k \in 1 .. n /\ k - 1 \in Nat /\ k - 1 <= n /\ ~(k <= k - 1)
    BY <2>2, <2>4
  <2>6. Fine(k - 1)
    <3>. HIDE DEF Fine
    <3>. QED BY <2>1, <2>5
  <2>. HIDE DEF T
  <2>7. p[k] = p[k - 1] + s[k] /\ q[k] = q[k - 1] + t[k]
    BY <1>5, <2>5
  <2>8. s[k] \in Nat /\ t[k] \in Nat /\ s[k] <= t[k]
    BY <1>4, <2>5
  <2>9. Fine(k)
    BY <2>6, <2>7, <2>8
  <2>. HIDE DEF Fine
  <2>. QED BY <2>2, <2>9
<1>7. Fine(n)
  <2>1. n \notin T
    <3>. HIDE DEF T
    <3>. QED BY <1>6
  <2>. HIDE DEF Fine
  <2>. QED BY <2>1
<1>. QED BY <1>2, <1>3, <1>7

LEMMA ViewFacts ==
  ASSUME NEW v, IsView(v)
  PROVE  /\ v.shape \in Seq(Nat) /\ Len(v.shape) \in Nat
         /\ v.shape \in [1 .. Len(v.shape) -> Nat]
         /\ v.stride \in [1 .. Len(v.shape) -> Nat]
         /\ volume(v.shape) \in Nat
<1>1. v.shape \in Seq(Nat) /\ v.stride \in Seq(Nat) /\ Len(v.stride) = Len(v.shape)
  BY DEF IsView
<1>2. Len(v.shape) \in Nat /\ v.shape \in [1 .. Len(v.shape) -> Nat]
  BY <1>1, ShapeFacts
<1>3. v.stride \in [1 .. Len(v.shape) -> Nat]
  BY <1>1, ShapeFacts
<1>4. volume(v.shape) \in Nat
  <2> DEFINE n == Len(v.shape)
             s == v.shape
  <2>1. n \in Nat /\ DOMAIN s = 1 .. n /\ \A i \in 1 .. n : s[i] \in Nat
    BY <1>2
  <2>. HIDE DEF n, s
  <2>2. volume(s) \in Nat
    BY <2>1, VolumeNat
  <2>. QED BY <2>2 DEF s
<1>. QED BY <1>1, <1>2, <1>3, <1>4

\* Every element of a view is in its storage.
LEMMA ElementsStored ==
  ASSUME NEW v, IsView(v), NEW a \in Addrs(v)
  PROVE  /\ a \in Nat /\ Addrs(v) # {} /\ Max(Addrs(v)) \in Nat
         /\ a <= Max(Addrs(v))
<1> DEFINE n == Len(v.shape)
           top == Addr(v.stride, v.shape)
<1>1. /\ n \in Nat /\ v.shape \in [1 .. n -> Nat] /\ v.stride \in [1 .. n -> Nat]
      /\ v.shape \in Seq(Nat)
  BY ViewFacts
<1>2. top \in Nat
  <2>1. \A i \in 1 .. n : v.shape[i] <= v.shape[i]
    BY <1>1
  <2>. HIDE DEF n
  <2>. QED BY <1>1, <2>1, AddrGrows
<1>3. ASSUME NEW b \in Addrs(v) PROVE b \in Nat /\ b <= top
  <2>1. PICK m \in Indices(v.shape) : b = Addr(v.stride, m)
    BY DEF Addrs
  <2>2. m \in [1 .. n -> Nat] /\ \A i \in 1 .. n : m[i] < v.shape[i]
    BY <1>1, <2>1, IndicesAre DEF MultiIndices
  <2>3. ASSUME NEW i \in 1 .. n PROVE m[i] <= v.shape[i]
    <3>1. m[i] \in Nat /\ v.shape[i] \in Nat /\ m[i] < v.shape[i]
      BY <1>1, <2>2
    <3>. QED BY <3>1
  <2>. HIDE DEF n
  <2>. QED BY <1>1, <2>1, <2>2, <2>3, AddrGrows
<1>4. Addrs(v) \in SUBSET Nat
  BY <1>3
<1>5. \A b \in Addrs(v) : b <= top
  BY <1>3
<1>. HIDE DEF top
<1>. QED BY <1>2, <1>4, <1>5, GreatestOf

\* The offsets behind the axes are the dense strides.
LEMMA DenseStride ==
  ASSUME NEW s \in Seq(Nat), NEW i \in 1 .. Len(s), \A j \in 1 .. Len(s) : s[j] # 0
  PROVE  c_contiguous_stride(s)[i] = Behind(s)[i]
<1> DEFINE n == Len(s)
           t == [j \in 1 .. n - i |-> IF s[i + j] = 0 THEN 1 ELSE s[i + j]]
           u == SubSeq(s, i + 1, n)
<1>1. n \in Nat /\ i \in 0 .. n
  OBVIOUS
<1>2. c_contiguous_stride(s)[i] = volume(t)
  BY DEF c_contiguous_stride
<1>3. Behind(s)[i] = volume(u)
  BY <1>1 DEF Behind
<1>4. DOMAIN u = 1 .. n - i /\ \A j \in 1 .. n - i : u[j] = s[i + j]
  BY <1>1, SuffixFacts
<1>5. u = [j \in 1 .. n - i |-> u[j]]
  <2>1. u = [j \in 1 .. (1 + n - (i + 1)) |-> s[(i + 1) + j - 1]]
    BY <1>1
  <2>. HIDE DEF u
  <2>. QED BY <1>4, <2>1
<1>6. ASSUME NEW j \in 1 .. n - i PROVE u[j] = t[j]
  <2>1. i + j \in 1 .. n
    BY <1>1
  <2>. QED BY <1>4, <2>1
<1>7. t = [j \in 1 .. n - i |-> t[j]]
  OBVIOUS
<1>. HIDE DEF t, u
<1>8. t = u
  BY <1>5, <1>6, <1>7
<1>. QED BY <1>2, <1>3, <1>8

\* The last element of a contiguous view lies at the number of elements
\* before it.
LEMMA LastAddr ==
  ASSUME NEW v, IsView(v), volume(v.shape) # 0,
         \A i \in 1 .. Len(v.shape) :
           v.shape[i] # 1 => v.stride[i] = c_contiguous_stride(v.shape)[i]
  PROVE  volume(v.shape) - 1 \in Addrs(v)
<1> DEFINE s == v.shape
           n == Len(s)
           V == Behind(s)
           m == [i \in 1 .. n |-> s[i] - 1]
           t == [i \in 1 .. n |-> v.stride[i] * m[i]]
<1>1. /\ n \in Nat /\ s \in [1 .. n -> Nat] /\ v.stride \in [1 .. n -> Nat]
      /\ s \in Seq(Nat)
  BY ViewFacts
<1>2. Weights(n, s, V) /\ V[0] = volume(s)
  BY <1>1, BehindWeights
<1>3. ASSUME NEW i \in 1 .. n PROVE s[i] # 0
  <2>1. i \in 0 .. n /\ i # 0
    BY <1>1
  <2>. QED BY <1>2, <2>1, PositiveWeights
<1>4. /\ V \in [0 .. n -> Nat] /\ V[n] = 1
      /\ \A i \in 1 .. n : V[i - 1] = s[i] * V[i]
  BY <1>2 DEF Weights
<1>5. ASSUME NEW i \in 1 .. n PROVE s[i] \in Nat \ {0} /\ m[i] \in Nat /\ m[i] < s[i]
  BY <1>1, <1>3
<1>6. ASSUME NEW i \in 1 .. n PROVE t[i] = V[i - 1] - V[i]
  <2> DEFINE a == s[i]
             c == V[i]
  <2>0. i \in 0 .. n
    BY <1>1
  <2>1. a \in Nat /\ c \in Nat /\ V[i - 1] = a * c
    BY <1>1, <1>4, <2>0
  <2>2. CASE a = 1
    <3>1. m[i] = 0 /\ t[i] = v.stride[i] * m[i]
      BY <2>2
    <3>2. t[i] = 0
      <4>1. v.stride[i] \in Nat
        BY <1>1
      <4>. HIDE DEF m, t
      <4>. QED BY <3>1, <4>1
    <3>. HIDE DEF a, c, t
    <3>3. a * c = c
      BY <2>1, <2>2
    <3>. QED BY <2>1, <3>2, <3>3 DEF c
  <2>3. CASE a # 1
    <3>1. v.stride[i] = c_contiguous_stride(s)[i]
      BY <2>3
    <3>2. c_contiguous_stride(s)[i] = c
      BY <1>1, <1>3, DenseStride
    <3>3. t[i] = c * (a - 1)
      BY <3>1, <3>2
    <3>. HIDE DEF a, c, t
    <3>4. c * (a - 1) = a * c - c
      BY <2>1
    <3>. QED BY <2>1, <3>3, <3>4 DEF c
  <2>. QED BY <2>2, <2>3
<1>7. m \in [1 .. n -> Nat]
  BY <1>5
<1>8. m \in Indices(s)
  BY <1>1, <1>5, <1>7, IndicesAre DEF MultiIndices
<1>9. Addr(v.stride, m) = V[0] - 1
  <2>1. v.stride \in [1 .. n -> Int] /\ m \in [1 .. n -> Int]
    BY <1>1, <1>7
  <2>2. PICK p \in Partials("sum", t, n) : Addr(v.stride, m) = p[n]
    <3>. HIDE DEF m, n
    <3>. QED BY <1>1, <2>1, AddrIs
  <2>3. p[0] = 0 /\ \A k \in 1 .. n : p[k] = p[k - 1] + t[k]
    BY DEF Partials, Combined, Neutral
  <2>. HIDE DEF m, t, V
  <2> DEFINE T == {k \in Nat : k <= n /\ p[k] # V[0] - V[k]}
  <2>4. T = {}
    <3> SUFFICES ASSUME T # {} PROVE FALSE
      OBVIOUS
    <3>1. PICK k \in T : \A j \in T : k <= j
      <4>1. T \in SUBSET Nat
        OBVIOUS
      <4>. HIDE DEF T
      <4>. QED BY <4>1, LeastNat
    <3>2. k \in Nat /\ k <= n /\ p[k] # V[0] - V[k]
      OBVIOUS
    <3>3. k # 0
      <4>1. 0 \in 0 .. n
        BY <1>1
      <4>2. V[0] - V[0] = 0
        BY <1>4, <4>1
      <4>. QED BY <2>3, <3>2, <4>2
    <3>4. /\ k \in 1 .. n /\ k - 1 \in Nat /\ k - 1 <= n /\ ~(k <= k - 1)
          /\ k \in 0 .. n /\ k - 1 \in 0 .. n /\ 0 \in 0 .. n
      BY <1>1, <3>2, <3>3
    <3>5. p[k - 1] = V[0] - V[k - 1]
      BY <3>1, <3>4
    <3>6. p[k] = p[k - 1] + (V[k - 1] - V[k])
      BY <1>6, <2>3, <3>4
    <3>7. V[0] \in Nat /\ V[k] \in Nat /\ V[k - 1] \in Nat
      BY <1>4, <3>4
    <3>. HIDE DEF T
    <3>8. p[k] = V[0] - V[k]
      BY <3>5, <3>6, <3>7
    <3>. QED BY <3>2, <3>8
  <2>5. p[n] = V[0] - V[n]
    <3>1. n \notin T
      <4>. HIDE DEF T
      <4>. QED BY <2>4
    <3>. QED BY <1>1, <3>1
  <2>. QED BY <1>4, <2>2, <2>5
<1>10. Addr(v.stride, m) \in Addrs(v)
  BY <1>8 DEF Addrs
<1>. QED BY <1>2, <1>9, <1>10

\* A storage that is dense, or of a contiguous view, has a place for every
\* element.
LEMMA StorageFilled ==
  ASSUME NEW v, IsView(v), volume(v.shape) # 0,
         is_contiguous(v) \/ is_non_overlapping_and_dense(v)
  PROVE  /\ Addrs(v) # {} /\ Max(Addrs(v)) \in Nat
         /\ volume(v.shape) - 1 <= Max(Addrs(v))
<1>1. v.shape \in Seq(Nat) /\ Len(v.shape) \in Nat /\ volume(v.shape) \in Nat
  BY ViewFacts
<1>2. volume(v.shape) - 1 \in Addrs(v)
  <2>1. CASE is_non_overlapping_and_dense(v)
    <3>1. Addrs(v) = 0 .. volume(v.shape) - 1
      BY <2>1 DEF is_non_overlapping_and_dense
    <3>. QED BY <1>1, <3>1
  <2>2. CASE is_contiguous(v)
    <3>1. 0 \notin {v.shape[i] : i \in 1 .. Len(v.shape)}
      <4>1. Weights(Len(v.shape), v.shape, Behind(v.shape)) /\ Behind(v.shape)[0] # 0
        BY <1>1, BehindWeights
      <4>2. \A i \in 0 .. Len(v.shape) : i # 0 => v.shape[i] # 0
        BY <4>1, PositiveWeights
      <4>3. \A i \in 1 .. Len(v.shape) : i \in 0 .. Len(v.shape) /\ i # 0
        BY <1>1
      <4>. QED BY <4>2, <4>3
    <3>2. \A i \in 1 .. Len(v.shape) :
            v.shape[i] # 1 => v.stride[i] = c_contiguous_stride(v.shape)[i]
      BY <2>2, <3>1 DEF is_contiguous
    <3>. QED BY <3>2, LastAddr
  <2>. QED BY <2>1, <2>2
<1>. QED BY <1>2, ElementsStored

-----------------------------------------------------------------------------
(***************************************************************************)
(* A view shown in a greater shape                                         *)
(***************************************************************************)
\* The element of a view of shape s that belongs to an index of shape T.
Shown(s, T, index) ==
  [i \in 1 .. Len(s) |-> IF s[i] = 1 THEN 0 ELSE index[Len(T) - Len(s) + i]]

LEMMA ShownIndex ==
  ASSUME NEW s \in Seq(Nat), NEW T \in Seq(Nat), Fits(s, T), NEW index \in Indices(T)
  PROVE  Shown(s, T, index) \in Indices(s)
<1> DEFINE n == Len(s)
           d == Len(T) - n
           m == [i \in 1 .. n |-> IF s[i] = 1 THEN 0 ELSE index[d + i]]
<1>1. n \in Nat /\ Len(T) \in Nat /\ d \in Nat /\ d + n = Len(T)
  BY ShapeFacts DEF Fits
<1>2. index \in [1 .. Len(T) -> Nat] /\ \A i \in 1 .. Len(T) : index[i] < T[i]
  BY IndicesAre DEF MultiIndices
<1>3. ASSUME NEW i \in 1 .. n PROVE m[i] \in Nat /\ m[i] < s[i]
  <2> DEFINE j == d + i
  <2>1. j \in 1 .. Len(T)
    BY <1>1
  <2>2. s[i] = 1 \/ s[i] = T[j]
    BY DEF Fits
  <2>3. m[i] = IF s[i] = 1 THEN 0 ELSE index[j]
    OBVIOUS
  <2>. HIDE DEF j, m
  <2>4. index[j] \in Nat /\ index[j] < T[j]
    BY <1>2, <2>1
  <2>. QED BY <2>2, <2>3, <2>4
<1>4. m \in [1 .. n -> Nat] /\ \A i \in 1 .. n : m[i] < s[i]
  BY <1>3
<1>5. Shown(s, T, index) = m
  BY DEF Shown
<1>. HIDE DEF m
<1>. QED BY <1>4, <1>5, IndicesAre DEF MultiIndices

LEMMA ShownAddr ==
  ASSUME NEW v, IsView(v), NEW T \in Seq(Nat), Fits(v.shape, T), NEW index \in Indices(T)
  PROVE  Addr(broadcasted_stride(v.shape, v.stride, T), index)
           = Addr(v.stride, Shown(v.shape, T, index))
<1> DEFINE s == v.shape
           n == Len(s)
           rank == Len(T)
           d == rank - n
           r == broadcasted_stride(s, v.stride, T)
           m == Shown(s, T, index)
           x == [i \in 1 .. rank |-> r[i] * index[i]]
           y == [i \in 1 .. n |-> v.stride[i] * m[i]]
<1>1. /\ n \in Nat /\ s \in [1 .. n -> Nat] /\ v.stride \in [1 .. n -> Nat]
      /\ s \in Seq(Nat)
  BY ViewFacts
<1>2. rank \in Nat /\ d \in Nat /\ d + n = rank
  BY <1>1, ShapeFacts DEF Fits
<1>3. index \in [1 .. rank -> Nat] /\ \A i \in 1 .. rank : index[i] < T[i]
  BY IndicesAre DEF MultiIndices
<1>4. \A i \in 1 .. rank : T[i] \in Nat
  BY <1>2, ShapeFacts
<1>5. m \in [1 .. n -> Nat]
  <2>1. m \in Indices(s)
    BY <1>1, ShownIndex
  <2>. QED BY <1>1, <2>1, IndicesAre DEF MultiIndices
<1>6. ASSUME NEW i \in 1 .. rank
      PROVE  r[i] = IF i <= d \/ (s[i - d] = 1 /\ T[i] > 1) THEN 0 ELSE v.stride[i - d]
  BY DEF broadcasted_stride
<1>7. DOMAIN r = 1 .. rank /\ r = [i \in 1 .. rank |-> r[i]]
  BY DEF broadcasted_stride
<1>8. ASSUME NEW i \in 1 .. n
      PROVE  m[i] = IF s[i] = 1 THEN 0 ELSE index[d + i]
  BY DEF Shown
<1>. HIDE DEF r, m
<1>9. r \in [1 .. rank -> Nat]
  <2>1. ASSUME NEW i \in 1 .. rank PROVE r[i] \in Nat
    <3>1. CASE i <= d
      <4>1. r[i] = 0
        BY <1>6, <3>1
      <4>. QED BY <4>1
    <3>2. CASE ~(i <= d)
      <4> DEFINE j == i - d
      <4>1. j \in 1 .. n
        BY <1>2, <3>2
      <4>2. r[i] \in {0, v.stride[j]}
        BY <1>6
      <4>. HIDE DEF j
      <4>3. v.stride[j] \in Nat
        BY <1>1, <4>1
      <4>. QED BY <4>2, <4>3
    <3>. QED BY <3>1, <3>2
  <2>. QED BY <1>7, <2>1
<1>10. ASSUME NEW i \in 1 .. rank, i <= d PROVE x[i] = 0
  <2>1. r[i] = 0 /\ index[i] \in Nat
    BY <1>3, <1>6, <1>10
  <2>. QED BY <2>1
<1>11. ASSUME NEW i \in 1 .. n PROVE x[d + i] = y[i] /\ y[i] \in Int
  <2> DEFINE j == d + i
             e == index[j]
             c == v.stride[i]
  <2>1. j \in 1 .. rank /\ ~(j <= d) /\ j - d = i
    BY <1>2
  <2>2. e \in Nat /\ T[j] \in Nat /\ e < T[j] /\ c \in Nat
    BY <1>1, <1>3, <1>4, <2>1
  <2>3. r[j] = IF s[i] = 1 /\ T[j] > 1 THEN 0 ELSE c
    BY <1>6, <2>1
  <2>4. m[i] = IF s[i] = 1 THEN 0 ELSE e
    BY <1>8
  <2>5. x[j] = r[j] * e /\ y[i] = c * m[i]
    BY <2>1
  <2>. HIDE DEF j, e, c, x, y
  <2>6. CASE s[i] = 1
    <3>1. y[i] = 0
      BY <2>2, <2>4, <2>5, <2>6
    <3>2. x[j] = 0
      <4>1. CASE T[j] > 1
        BY <2>2, <2>3, <2>5, <2>6, <4>1
      <4>2. CASE ~(T[j] > 1)
        <5>1. e = 0
          BY <2>2, <4>2
        <5>. QED BY <2>2, <2>3, <2>5, <4>2, <5>1
      <4>. QED BY <4>1, <4>2
    <3>. QED BY <3>1, <3>2 DEF j
  <2>7. CASE s[i] # 1
    <3>1. x[j] = c * e /\ y[i] = c * e
      BY <2>3, <2>4, <2>5, <2>7
    <3>. QED BY <2>2, <3>1 DEF j
  <2>. QED BY <2>6, <2>7
<1>12. PICK q \in Partials("sum", x, rank) : Addr(r, index) = q[rank]
  <2>1. r \in [1 .. rank -> Int] /\ index \in [1 .. rank -> Int]
    BY <1>3, <1>9
  <2>. HIDE DEF rank
  <2>. QED BY <1>2, <2>1, AddrIs
<1>13. PICK p \in Partials("sum", y, n) : Addr(v.stride, m) = p[n]
  <2>1. v.stride \in [1 .. n -> Int] /\ m \in [1 .. n -> Int]
    BY <1>1, <1>5
  <2>. HIDE DEF n
  <2>. QED BY <1>1, <2>1, AddrIs
<1>14. /\ q[0] = 0 /\ \A k \in 1 .. rank : q[k] = q[k - 1] + x[k]
       /\ p[0] = 0 /\ \A k \in 1 .. n : p[k] = p[k - 1] + y[k]
       /\ p \in [0 .. n -> Int]
  BY DEF Partials, Combined, Neutral
<1>. HIDE DEF x, y
<1> DEFINE T1 == {k \in Nat : k <= d /\ q[k] # 0}
           T2 == {k \in Nat : k <= n /\ q[d + k] # p[k]}
<1>15. T1 = {}
  <2> SUFFICES ASSUME T1 # {} PROVE FALSE
    OBVIOUS
  <2>1. PICK k \in T1 : \A j \in T1 : k <= j
    <3>1. T1 \in SUBSET Nat
      OBVIOUS
    <3>. HIDE DEF T1
    <3>. QED BY <3>1, LeastNat
  <2>2. k \in Nat /\ k <= d /\ q[k] # 0 /\ k # 0
    BY <1>14
  <2>3. k \in 1 .. rank /\ k - 1 \in Nat /\ k - 1 <= d /\ ~(k <= k - 1)
    BY <1>2, <2>2
  <2>4. q[k - 1] = 0
    BY <2>1, <2>3
  <2>5. q[k] = q[k - 1] + x[k] /\ x[k] = 0
    BY <1>10, <1>14, <2>2, <2>3
  <2>. QED BY <2>2, <2>4, <2>5
<1>16. q[d] = 0
  BY <1>2, <1>15
<1>17. T2 = {}
  <2> SUFFICES ASSUME T2 # {} PROVE FALSE
    OBVIOUS
  <2>1. PICK k \in T2 : \A j \in T2 : k <= j
    <3>1. T2 \in SUBSET Nat
      OBVIOUS
    <3>. HIDE DEF T2
    <3>. QED BY <3>1, LeastNat
  <2>2. k \in Nat /\ k <= n /\ q[d + k] # p[k]
    OBVIOUS
  <2>3. k # 0
    <3>1. d + 0 = d
      BY <1>2
    <3>. QED BY <1>14, <1>16, <2>2, <3>1
  <2>4. /\ k \in 1 .. n /\ k - 1 \in Nat /\ k - 1 <= n /\ ~(k <= k - 1)
        /\ d + k \in 1 .. rank /\ d + k - 1 = d + (k - 1)
    BY <1>1, <1>2, <2>2, <2>3
  <2>5. q[d + (k - 1)] = p[k - 1]
    BY <2>1, <2>4
  <2>6. q[d + k] = q[d + (k - 1)] + x[d + k] /\ p[k] = p[k - 1] + y[k]
    <3> DEFINE j == d + k
    <3>1. j \in 1 .. rank /\ j - 1 = d + (k - 1)
      BY <2>4
    <3>. HIDE DEF j
    <3>2. q[j] = q[j - 1] + x[j]
      BY <1>14, <3>1
    <3>3. p[k] = p[k - 1] + y[k]
      BY <1>14, <2>4
    <3>. QED BY <3>1, <3>2, <3>3 DEF j
  <2>7. x[d + k] = y[k]
    BY <1>11, <2>4
  <2>. HIDE DEF T2
  <2>. QED BY <2>2, <2>5, <2>6, <2>7
<1>18. q[rank] = p[n]
  <2>1. n \notin T2
    <3>. HIDE DEF T2
    <3>. QED BY <1>17
  <2>2. d + n = rank /\ n <= n
    BY <1>1, <1>2
  <2>. QED BY <1>1, <2>1, <2>2
<1>. QED BY <1>12, <1>13, <1>18 DEF r, m
-----------------------------------------------------------------------------
(***************************************************************************)
(* Tiles and programs                                                      *)
(***************************************************************************)
LEMMA VolumePositive ==
  ASSUME NEW s \in Seq(Nat)
  PROVE  volume(s) # 0 <=> \A i \in 1 .. Len(s) : s[i] # 0
<1> DEFINE n == Len(s)
<1>1. n \in Nat /\ s \in [1 .. n -> Nat]
  BY ShapeFacts
<1>2. ASSUME volume(s) # 0, NEW i \in 1 .. n PROVE s[i] # 0
  <2>1. Weights(n, s, Behind(s)) /\ Behind(s)[0] # 0
    BY <1>2, BehindWeights
  <2>2. i \in 0 .. n /\ i # 0
    BY <1>1
  <2>. QED BY <2>1, <2>2, PositiveWeights
<1>3. ASSUME \A i \in 1 .. n : s[i] # 0 PROVE volume(s) # 0
  <2>1. DOMAIN s = 1 .. n /\ \A i \in 1 .. n : s[i] \in Int
    BY <1>1
  <2>2. PICK p \in Partials("product", s, n) : volume(s) = p[n]
    <3>. HIDE DEF n
    <3>. QED BY <1>1, <2>1, VolumeIs
  <2>3. p[0] = 1 /\ \A k \in 1 .. n : p[k] = p[k - 1] * s[k]
    BY DEF Partials, Combined, Neutral
  <2> DEFINE T == {k \in Nat : k <= n /\ p[k] \notin Nat \ {0}}
  <2>4. T = {}
    <3> SUFFICES ASSUME T # {} PROVE FALSE
      OBVIOUS
    <3>1. PICK k \in T : \A j \in T : k <= j
      <4>1. T \in SUBSET Nat
        OBVIOUS
      <4>. HIDE DEF T
      <4>. QED BY <4>1, LeastNat
    <3>2. k \in Nat /\ k <= n /\ p[k] \notin Nat \ {0} /\ k # 0
      BY <2>3
    <3>3. k \in 1 .. n /\ k - 1 \in Nat /\ k - 1 <= n /\ ~(k <= k - 1)
      BY <3>2
    <3>4. p[k - 1] \in Nat \ {0}
      BY <3>1, <3>3
    <3> DEFINE a == p[k - 1]
               b == s[k]
    <3>5. a \in Nat \ {0} /\ b \in Nat \ {0} /\ p[k] = a * b
      BY <1>1, <1>3, <2>3, <3>3, <3>4
    <3>. HIDE DEF T, a, b
    <3>6. a * b \in Nat \ {0}
      BY <3>5
    <3>. QED BY <3>2, <3>5, <3>6
  <2>5. p[n] # 0
    <3>1. n \notin T
      <4>. HIDE DEF T
      <4>. QED BY <2>4
    <3>. QED BY <1>1, <3>1
  <2>. QED BY <2>2, <2>5
<1>. QED BY <1>2, <1>3

\* unravel_index takes the digits of an offset.
LEMMA UnravelIs ==
  ASSUME NEW s \in Seq(Nat), NEW o \in 0 .. volume(s) - 1
  PROVE  /\ unravel_index(o, s) = Digits(Len(s), s, Behind(s), o)
         /\ unravel_index(o, s) \in Indices(s)
<1> DEFINE n == Len(s)
           V == Behind(s)
           D == Digits(n, s, V, o)
           rest(i) == o \div volume(SubSeq(s, i + 1, n))
<1>1. n \in Nat /\ s \in [1 .. n -> Nat]
  BY ShapeFacts
<1>2. Weights(n, s, V) /\ V[0] = volume(s)
  BY BehindWeights
<1>3. V[0] \in Nat /\ V[0] # 0 /\ o \in Nat /\ o < V[0]
  <2>1. V[0] \in Nat
    BY <1>1, <1>2 DEF Weights
  <2>. QED BY <1>2, <2>1
<1>4. ASSUME NEW i \in 1 .. n
      PROVE  rest(i) = Left(V, o, i) /\ D[i] = Left(V, o, i) % s[i]
  <2>1. i \in 0 .. n
    BY <1>1
  <2>. QED BY <2>1 DEF Left, Digits, Behind
<1>5. ASSUME NEW i \in 1 .. n PROVE D[i] \in 0 .. s[i] - 1 /\ D[i] \in Nat /\ D[i] < s[i]
  <2>1. D[i] \in 0 .. s[i] - 1
    BY <1>2, <1>3, NextDigit
  <2>2. s[i] \in Nat
    BY <1>1
  <2>. HIDE DEF D
  <2>. QED BY <2>1, <2>2
<1>6. ASSUME NEW i \in 1 .. n PROVE unravel_index(o, s)[i] = D[i]
  <2>1. unravel_index(o, s)[i] = IF i = 1 THEN rest(i) ELSE rest(i) % s[i]
    BY DEF unravel_index
  <2>2. CASE i # 1
    BY <1>4, <2>1, <2>2
  <2>3. CASE i = 1
    <3>1. Left(V, o, 0) = 0
      <4> DEFINE b == V[0]
      <4>1. b \in Nat \ {0} /\ o \in Nat /\ o < b
        BY <1>3
      <4>. HIDE DEF b
      <4>2. o \div b = 0
        BY <4>1
      <4>. QED BY <4>2 DEF Left, b
    <3>2. Left(V, o, 1) = Left(V, o, 0) * s[1] + D[1] /\ 1 \in 1 .. n
      <4> DEFINE j == i - 1
      <4>1. j = 0
        BY <2>3
      <4>2. Left(V, o, i) = Left(V, o, j) * s[i] + D[i]
        BY <1>2, <1>3, NextDigit
      <4>. HIDE DEF j, D
      <4>. QED BY <2>3, <4>1, <4>2
    <3>3. s[1] \in Nat /\ D[1] \in Nat
      BY <1>1, <1>5, <3>2
    <3>. HIDE DEF D
    <3>4. Left(V, o, 1) = D[1]
      BY <3>1, <3>2, <3>3
    <3>. QED BY <1>4, <2>1, <2>3, <3>2, <3>4
  <2>. QED BY <2>2, <2>3
<1>7. unravel_index(o, s) = D
  <2>1. unravel_index(o, s) = [i \in 1 .. n |-> unravel_index(o, s)[i]]
    BY DEF unravel_index
  <2>2. D = [i \in 1 .. n |-> D[i]]
    BY DEF Digits
  <2>. HIDE DEF D
  <2>. QED BY <1>6, <2>1, <2>2
<1>8. D \in [1 .. n -> Nat] /\ \A i \in 1 .. n : D[i] < s[i]
  <2>1. D = [i \in 1 .. n |-> D[i]]
    BY DEF Digits
  <2>. HIDE DEF D
  <2>. QED BY <1>5, <2>1
<1>. HIDE DEF D
<1>9. D \in Indices(s)
  BY <1>1, <1>8, IndicesAre DEF MultiIndices
<1>. QED BY <1>7, <1>9 DEF D

\* Beyond the last offset it still gives numbers.
LEMMA UnravelNat ==
  ASSUME NEW s \in Seq(Nat), volume(s) # 0, NEW o \in Nat, NEW i \in 1 .. Len(s)
  PROVE  unravel_index(o, s)[i] \in Nat
<1> DEFINE n == Len(s)
           b == volume(SubSeq(s, i + 1, n))
<1>1. n \in Nat /\ s \in [1 .. n -> Nat] /\ i \in 0 .. n /\ i # 0
  BY ShapeFacts
<1>2. Weights(n, s, Behind(s)) /\ Behind(s)[0] # 0
  BY BehindWeights
<1>3. Behind(s)[i] # 0 /\ s[i] # 0 /\ Behind(s)[i] \in Nat
  <2>1. Behind(s)[i] \in Nat
    BY <1>1, <1>2 DEF Weights
  <2>. QED BY <1>1, <1>2, <2>1, PositiveWeights
<1>4. b \in Nat \ {0}
  BY <1>1, <1>3 DEF Behind
<1>5. unravel_index(o, s)[i] = IF i = 1 THEN o \div b ELSE (o \div b) % s[i]
  BY DEF unravel_index
<1>6. s[i] \in Nat \ {0}
  BY <1>1, <1>3
<1>. HIDE DEF b
<1>7. o \div b \in Nat
  BY <1>4, DivMod
<1>8. (o \div b) % s[i] \in Nat
  <2> DEFINE a == o \div b
             c == s[i]
  <2>1. a \in Nat /\ c \in Nat \ {0}
    BY <1>6, <1>7
  <2>. HIDE DEF a, c
  <2>2. a % c \in 0 .. c - 1
    BY <2>1, DivMod
  <2>3. a % c \in Nat
    BY <2>2
  <2>. QED BY <2>3 DEF a, c
<1>. QED BY <1>5, <1>7, <1>8

LEMMA CdivPositive ==
  ASSUME NEW a \in Nat \ {0}, NEW b \in Nat \ {0}
  PROVE  cdiv(a, b) \in Nat \ {0}
<1> DEFINE q == cdiv(a, b)
<1>1. q \in Nat /\ a <= q * b
  BY CdivFacts
<1>. HIDE DEF q
<1>2. q # 0
  BY <1>1
<1>. QED BY <1>1, <1>2 DEF q

\* A thread has a task of at least one element and a module to run it.
Ready(t) ==
  /\ task[t].shape \in Seq(Nat) /\ num_tasks(t) # 0
  /\ module[t].sizes.max_tile_size \in Nat \ {0}
  /\ module[t].sizes.max_grid_size \in Nat \ {0}

LEMMA TilesFacts ==
  ASSUME NEW t, Ready(t)
  PROVE  /\ TileSpace(t) \in Seq(Nat)
         /\ \A i \in 1 .. Len(TileSpace(t)) : TileSpace(t)[i] \in Nat \ {0}
         /\ tile_sizes(t) \in Tiles(Len(TileSpace(t)))
         /\ tile_grid(t) \in Seq(Nat) /\ Len(tile_grid(t)) = Len(TileSpace(t))
         /\ \A i \in 1 .. Len(TileSpace(t)) :
              tile_grid(t)[i] = cdiv(TileSpace(t)[i], tile_sizes(t)[i])
         /\ num_tiles(t) \in Nat \ {0} /\ num_ctas(t) \in Nat \ {0}
<1> DEFINE s == task[t].shape
           S == TileSpace(t)
           n == Len(S)
           z == tile_sizes(t)
           g == tile_grid(t)
<1>1. s \in Seq(Nat) /\ volume(s) \in Nat \ {0}
  <2>1. s \in Seq(Nat) /\ volume(s) # 0
    BY DEF Ready, num_tasks
  <2>2. Len(s) \in Nat /\ DOMAIN s = 1 .. Len(s) /\ \A i \in 1 .. Len(s) : s[i] \in Nat
    BY <2>1, ShapeFacts
  <2>. HIDE DEF s
  <2>. QED BY <2>1, <2>2, VolumeNat
<1>2. S \in Seq(Nat) /\ \A i \in 1 .. n : S[i] # 0
  <2>1. CASE module[t].tiles = "1d"
    <3>1. S = <<volume(s)>>
      BY <2>1 DEF TileSpace, num_tasks
    <3>2. <<volume(s)>> \in Seq(Nat) /\ Len(<<volume(s)>>) = 1
          /\ <<volume(s)>>[1] = volume(s)
      BY <1>1
    <3>3. \A i \in 1 .. n : i = 1
      BY <3>1, <3>2
    <3>. HIDE DEF S
    <3>. QED BY <1>1, <3>1, <3>2, <3>3
  <2>2. CASE module[t].tiles # "1d"
    <3>1. S = s
      BY <2>2 DEF TileSpace
    <3>. QED BY <1>1, <3>1, VolumePositive
  <2>. QED BY <2>1, <2>2
<1>3. z \in Tiles(n)
  <2>1. module[t].sizes.max_tile_size \in Nat \ {0}
    BY DEF Ready
  <2>. HIDE DEF S
  <2>. QED BY <1>2, <2>1, TileSizes DEF tile_sizes, S
<1>. HIDE DEF S
<1>4. n \in Nat /\ \A i \in 1 .. n : S[i] \in Nat \ {0}
  BY <1>2, ShapeFacts
<1>5. \A i \in 1 .. n : z[i] \in Nat \ {0}
  BY <1>3, <1>4 DEF Tiles
<1>. HIDE DEF z
<1>6. g = [i \in 1 .. n |-> cdiv(S[i], z[i])]
  BY DEF tile_grid, S, z
<1>. HIDE DEF g
<1>7. ASSUME NEW i \in 1 .. n PROVE cdiv(S[i], z[i]) \in Nat \ {0}
  BY <1>4, <1>5, CdivPositive
<1>8. g \in [1 .. n -> Nat] /\ \A i \in 1 .. n : g[i] = cdiv(S[i], z[i]) /\ g[i] # 0
  BY <1>6, <1>7
<1>9. g \in Seq(Nat) /\ Len(g) = n
  BY <1>4, <1>8, ShapeFacts
<1>10. num_tiles(t) \in Nat \ {0}
  <2>1. volume(g) # 0
    BY <1>8, <1>9, VolumePositive
  <2>2. volume(g) \in Nat
    <3>1. DOMAIN g = 1 .. n /\ \A i \in 1 .. n : g[i] \in Nat
      BY <1>8
    <3>. HIDE DEF n
    <3>. QED BY <1>4, <3>1, VolumeNat
  <2>. QED BY <2>1, <2>2 DEF num_tiles, g
<1>11. num_ctas(t) \in Nat \ {0}
  <2> DEFINE a == module[t].sizes.max_grid_size
             b == num_tiles(t)
  <2>1. a \in Nat \ {0} /\ b \in Nat \ {0}
    BY <1>10 DEF Ready
  <2>2. num_ctas(t) = Min({a, b})
    BY DEF num_ctas
  <2>. HIDE DEF a, b
  <2>. QED BY <2>1, <2>2, OfTwo
<1>. QED BY <1>2, <1>3, <1>4, <1>8, <1>9, <1>10, <1>11 DEF S, z, g

\* The places of a tile are numbers.
LEMMA LanesNat ==
  ASSUME NEW t, Ready(t), NEW tile \in Nat, NEW place \in Lanes(t, tile)
  PROVE  place \in [1 .. Len(TileSpace(t)) -> Nat]
<1> DEFINE n == Len(TileSpace(t))
           z == tile_sizes(t)
           g == tile_grid(t)
           id == unravel_index(tile, g)
           lane == {f \in [1 .. Len(z) -> 0 .. Max(Range(z)) - 1] :
                      \A i \in 1 .. Len(z) : f[i] < z[i]}
<1>1. /\ n \in Nat /\ z \in Seq(Nat \ {0}) /\ Len(z) = n
      /\ g \in Seq(Nat) /\ Len(g) = n /\ volume(g) # 0
  <2>1. n \in Nat
    BY TilesFacts, ShapeFacts
  <2>. QED BY <2>1, TilesFacts DEF Tiles, num_tiles
<1>2. PICK l \in lane : place = [i \in 1 .. Len(z) |-> id[i] * z[i] + l[i]]
  BY DEF Lanes
<1>. HIDE DEF z, g, n
<1>3. ASSUME NEW i \in 1 .. n PROVE id[i] * z[i] + l[i] \in Nat
  <2>1. id[i] \in Nat
    BY <1>1, UnravelNat
  <2>2. z[i] \in Nat
    BY <1>1
  <2>3. Max(Range(z)) \in Nat
    <3> DEFINE top == Max({0} \cup {z[j] : j \in 1 .. Len(z)})
    <3>1. z \in Seq(Nat)
      BY <1>1
    <3>2. top \in Nat /\ \A j \in 1 .. Len(z) : z[j] <= top
      BY <3>1, ExtentsBounded
    <3>. HIDE DEF top
    <3>3. Range(z) = {z[j] : j \in 1 .. n}
      <4>1. DOMAIN z = 1 .. n
        BY <1>1
      <4>. QED BY <4>1 DEF Range
    <3>4. Range(z) \in SUBSET Nat /\ Range(z) # {} /\ \A x \in Range(z) : x <= top
      BY <1>1, <3>2, <3>3
    <3>. QED BY <3>2, <3>4, GreatestOf
  <2>4. l[i] \in 0 .. Max(Range(z)) - 1
    BY <1>1
  <2>5. l[i] \in Nat
    BY <2>3, <2>4
  <2> DEFINE a == id[i]
             b == z[i]
             c == l[i]
  <2>6. a \in Nat /\ b \in Nat /\ c \in Nat
    BY <2>1, <2>2, <2>5
  <2>. HIDE DEF a, b, c
  <2>7. a * b + c \in Nat
    BY <2>6
  <2>. QED BY <2>7 DEF a, b, c
<1>. QED BY <1>1, <1>2, <1>3 DEF n

\* A program works on indices of the task space only.
LEMMA ElementsInside ==
  ASSUME NEW t, Ready(t), NEW pid \in Programs(t)
  PROVE  Elements(t, pid) \subseteq Indices(task[t].shape)
<1> DEFINE S == TileSpace(t)
           s == task[t].shape
<1>1. num_tiles(t) \in Nat \ {0} /\ num_ctas(t) \in Nat \ {0} /\ S \in Seq(Nat)
  BY TilesFacts
<1>2. pid \in Nat
  BY <1>1 DEF Programs
<1>3. ASSUME NEW tile \in TilesOf(t, pid) PROVE tile \in Nat
  <2>1. tiles_per_cta(t) \in Nat
    <3> DEFINE a == num_tiles(t)
               b == num_ctas(t)
    <3>1. a \in Nat \ {0} /\ b \in Nat \ {0}
      BY <1>1
    <3>2. tiles_per_cta(t) = cdiv(a, b)
      BY DEF tiles_per_cta
    <3>. HIDE DEF a, b
    <3>. QED BY <3>1, <3>2, CdivFacts
  <2>2. PICK j \in 0 .. tiles_per_cta(t) - 1 : tile = pid + j * num_ctas(t)
    BY DEF TilesOf
  <2> DEFINE c == num_ctas(t)
  <2>3. j \in Nat /\ c \in Nat
    BY <1>1, <2>1
  <2>. HIDE DEF c
  <2>4. j * c \in Nat
    BY <2>3
  <2>. QED BY <1>2, <2>2, <2>4 DEF c
<1>4. ASSUME NEW tile \in TilesOf(t, pid), NEW place \in Lanes(t, tile), Masked(t, place)
      PROVE  place \in Indices(S)
  <2>1. place \in [1 .. Len(S) -> Nat]
    BY <1>3, LanesNat
  <2>2. \A i \in 1 .. Len(S) : place[i] < S[i]
    BY <1>4 DEF Masked
  <2>. HIDE DEF S
  <2>. QED BY <1>1, <2>1, <2>2, IndicesAre DEF MultiIndices
<1>5. ASSUME NEW place \in Indices(S), module[t].tiles = "1d"
      PROVE  unravel_index(place[1], s) \in Indices(s)
  <2>1. S = <<volume(s)>> /\ s \in Seq(Nat)
    BY <1>5 DEF TileSpace, num_tasks, Ready
  <2>2. Len(S) = 1 /\ S[1] = volume(s)
    BY <2>1
  <2>3. place \in [1 .. Len(S) -> Nat] /\ \A i \in 1 .. Len(S) : place[i] < S[i]
    BY <1>1, <1>5, IndicesAre DEF MultiIndices
  <2>4. place[1] \in Nat /\ place[1] < volume(s)
    <3>1. 1 \in 1 .. 1
      OBVIOUS
    <3>. QED BY <2>2, <2>3, <3>1
  <2>5. volume(s) \in Nat
    BY <1>1, <2>2
  <2>6. place[1] \in 0 .. volume(s) - 1
    BY <2>4, <2>5
  <2>. QED BY <2>1, <2>6, UnravelIs
<1>6. module[t].tiles # "1d" => S = s
  BY DEF TileSpace
<1>7. ASSUME NEW e \in Elements(t, pid) PROVE e \in Indices(s)
  <2>1. PICK place \in UNION {Lanes(t, tile) : tile \in TilesOf(t, pid)} :
          /\ Masked(t, place)
          /\ e = IF module[t].tiles = "1d" THEN unravel_index(place[1], s) ELSE place
    BY DEF Elements
  <2>2. PICK tile \in TilesOf(t, pid) : place \in Lanes(t, tile)
    BY <2>1
  <2>3. place \in Indices(S)
    BY <1>4, <2>1, <2>2
  <2>. HIDE DEF S
  <2>. QED BY <1>5, <1>6, <2>1, <2>3
<1>. QED BY <1>7
-----------------------------------------------------------------------------
(***************************************************************************)
(* PointwiseDynamic: the buffers of a call                                 *)
(***************************************************************************)
HasCall(t) == plan[t] # <<>> /\ IsPointwiseCall(Call(t))

LEMMA InsFacts ==
  ASSUME NEW t, HasCall(t)
  PROVE  /\ Arity(t) \in Nat \ {0} /\ DOMAIN Ins(t) = 1 .. Arity(t)
         /\ \A k \in 1 .. Arity(t) : IsView(Ins(t)[k]) /\ Ins(t)[k] \in Tensors(t)
         /\ OutGiven(t) => IsView(GivenOut(t)) /\ GivenOut(t) \in Tensors(t)
         /\ Call(t).fn.max_tile_size \in Nat \ {0}
         /\ Call(t).fn.max_grid_size \in Nat \ {0}
<1> DEFINE c == Call(t)
           s == c.ins
           n == Len(s)
<1>1. /\ c.fn.max_tile_size \in Nat \ {0} /\ c.fn.max_grid_size \in Nat \ {0}
      /\ s \in Seq(Range(s)) /\ s # <<>> /\ \A v \in Range(s) : IsView(v)
      /\ c.out \in {NoOut, InPlace} \/ IsView(c.out)
  BY DEF HasCall, IsPointwiseCall
<1>2. n \in Nat \ {0} /\ DOMAIN s = 1 .. n
  <2>. HIDE DEF s
  <2>. QED BY <1>1
<1>3. ASSUME NEW k \in 1 .. n PROVE s[k] \in Range(s) /\ IsView(s[k])
  <2>1. s[k] \in Range(s)
    BY <1>2 DEF Range
  <2>. QED BY <1>1, <2>1
<1>4. ASSUME OutGiven(t) PROVE IsView(GivenOut(t))
  <2>1. c.out = InPlace => GivenOut(t) = s[1]
    BY DEF GivenOut, Ins
  <2>2. c.out # InPlace => GivenOut(t) = c.out
    BY DEF GivenOut
  <2>3. c.out # NoOut
    BY <1>4 DEF OutGiven
  <2>4. 1 \in 1 .. n
    BY <1>2
  <2>. HIDE DEF s, c
  <2>. QED BY <1>1, <1>3, <2>1, <2>2, <2>3, <2>4
<1>. QED BY <1>1, <1>2, <1>3, <1>4 DEF Arity, Ins, Tensors

LEMMA DenseView ==
  ASSUME NEW s \in Seq(Nat)
  PROVE  /\ IsView([shape |-> s, stride |-> c_contiguous_stride(s)])
         /\ is_contiguous([shape |-> s, stride |-> c_contiguous_stride(s)])
<1> DEFINE n == Len(s)
           r == c_contiguous_stride(s)
<1>1. n \in Nat /\ s \in [1 .. n -> Nat]
  BY ShapeFacts
<1>2. r = [i \in 1 .. n |->
             volume([j \in 1 .. n - i |-> IF s[i + j] = 0 THEN 1 ELSE s[i + j]])]
  BY DEF c_contiguous_stride
<1>3. ASSUME NEW i \in 1 .. n
      PROVE  volume([j \in 1 .. n - i |-> IF s[i + j] = 0 THEN 1 ELSE s[i + j]]) \in Nat
  <2> DEFINE m == n - i
             u == [j \in 1 .. n - i |-> IF s[i + j] = 0 THEN 1 ELSE s[i + j]]
  <2>1. m \in Nat /\ DOMAIN u = 1 .. m
    BY <1>1
  <2>2. ASSUME NEW j \in 1 .. m PROVE u[j] \in Nat
    <3>1. i + j \in 1 .. n
      BY <1>1
    <3>. QED BY <1>1, <3>1
  <2>. HIDE DEF u, m
  <2>3. volume(u) \in Nat
    BY <2>1, <2>2, VolumeNat
  <2>. QED BY <2>3 DEF u
<1>. HIDE DEF r
<1>4. r \in [1 .. n -> Nat]
  BY <1>2, <1>3
<1>5. r \in Seq(Nat) /\ Len(r) = n
  BY <1>1, <1>4, ShapeFacts
<1>6. IsView([shape |-> s, stride |-> r])
  BY <1>5 DEF IsView
<1>7. is_contiguous([shape |-> s, stride |-> r])
  BY DEF is_contiguous, r
<1>. QED BY <1>6, <1>7 DEF r

LEMMA EmptyLike ==
  ASSUME NEW v, IsView(v)
  PROVE  /\ IsView(empty_like(v)) /\ empty_like(v).shape = v.shape
         /\ is_contiguous(empty_like(v)) \/ is_non_overlapping_and_dense(empty_like(v))
<1>1. v.shape \in Seq(Nat)
  BY DEF IsView
<1>. QED BY <1>1, DenseView DEF empty_like

\* The task space: all operands fit it, and on the fast path they have its
\* shape.
LEMMA TaskShape ==
  ASSUME NEW t, HasCall(t), ~Raises(t)
  PROVE  /\ task_shape(t) \in Seq(Nat)
         /\ \A k \in 1 .. Arity(t) : Fits(Ins(t)[k].shape, task_shape(t))
         /\ fast_path_allowed(t) => \A v \in Tensors(t) : v.shape = task_shape(t)
<1> DEFINE n == Arity(t)
           s == [k \in 1 .. n |-> Ins(t)[k].shape]
<1>1. /\ n \in Nat \ {0} /\ 1 \in 1 .. n
      /\ \A k \in 1 .. n : IsView(Ins(t)[k]) /\ Ins(t)[k] \in Tensors(t)
  BY InsFacts
<1>2. \A k \in 1 .. n : s[k] = Ins(t)[k].shape /\ s[k] \in Seq(Nat)
  BY <1>1 DEF IsView
<1>3. task_shape(t) = broadcast_shapes(s) /\ DOMAIN s = 1 .. n
  BY DEF task_shape
<1>4. s \in [1 .. n -> Seq(Nat)]
  BY <1>1 DEF IsView
<1>. HIDE DEF s, n
<1>5. CASE fast_path_allowed(t)
  <2>1. \A v, w \in Tensors(t) : v.shape = w.shape
    BY <1>5 DEF fast_path_allowed, use_fast_path, all_the_same_shape
  <2>2. \A k \in 1 .. n : s[k] = s[1]
    BY <1>1, <1>2, <2>1
  <2>3. s[1] \in Seq(Nat) /\ s[1] = Ins(t)[1].shape /\ Ins(t)[1] \in Tensors(t)
    BY <1>1, <1>2
  <2>4. broadcast_shapes(s) = s[1]
    BY <1>1, <1>3, <2>2, <2>3, ShapesSame
  <2>5. ASSUME NEW k \in 1 .. n PROVE Fits(Ins(t)[k].shape, s[1])
    <3>1. Ins(t)[k].shape = s[1]
      BY <1>2, <2>2
    <3>2. Fits(s[1], s[1])
      <4> DEFINE m == Len(s[1])
      <4>1. m \in Nat
        BY <2>3, ShapeFacts
      <4>2. \A i \in 1 .. m : m - m + i = i
        BY <4>1
      <4>. QED BY <4>1, <4>2 DEF Fits
    <3>. QED BY <3>1, <3>2
  <2>6. \A v \in Tensors(t) : v.shape = s[1]
    BY <2>1, <2>3
  <2>. QED BY <1>3, <2>3, <2>4, <2>5, <2>6 DEF n
<1>6. CASE ~fast_path_allowed(t)
  <2>1. task_shape(t) # Unbroadcastable
    BY <1>6 DEF Raises
  <2>2. broadcast_shapes(s) \in Seq(Nat) /\ \A k \in 1 .. n : Fits(s[k], broadcast_shapes(s))
    BY <1>1, <1>3, <1>4, <2>1, ShapesFit
  <2>. QED BY <1>2, <1>3, <1>6, <2>2 DEF n
<1>. QED BY <1>5, <1>6

\* The output has the shape of the task space.
LEMMA OutFacts ==
  ASSUME NEW t, HasCall(t), ~Raises(t)
  PROVE  /\ IsView(OutView(t)) /\ OutView(t).shape = task_shape(t)
         /\ \/ OutView(t) \in Tensors(t)
            \/ is_contiguous(OutView(t)) \/ is_non_overlapping_and_dense(OutView(t))
<1>1. task_shape(t) \in Seq(Nat)
  BY TaskShape
<1>2. CASE OutGiven(t)
  <2>1. OutView(t) = GivenOut(t) /\ IsView(GivenOut(t)) /\ GivenOut(t) \in Tensors(t)
    BY <1>2, InsFacts DEF OutView
  <2>2. CASE fast_path_allowed(t)
    BY <2>1, <2>2, TaskShape
  <2>3. CASE ~fast_path_allowed(t)
    <3>1. GivenOut(t).shape = task_shape(t)
      BY <1>2, <2>3 DEF Raises
    <3>. QED BY <2>1, <3>1
  <2>. QED BY <2>2, <2>3
<1>3. CASE ~OutGiven(t)
  <2> DEFINE fit == {k \in 1 .. Arity(t) : Ins(t)[k].shape = task_shape(t)}
  <2>1. OutView(t) = IF fit # {} THEN empty_like(Ins(t)[Min(fit)])
                     ELSE [shape |-> task_shape(t),
                           stride |-> c_contiguous_stride(task_shape(t))]
    BY <1>3 DEF OutView, Allocated
  <2>2. CASE fit = {}
    <3>1. OutView(t) = [shape |-> task_shape(t),
                        stride |-> c_contiguous_stride(task_shape(t))]
      BY <2>1, <2>2
    <3>. QED BY <1>1, <3>1, DenseView
  <2>3. CASE fit # {}
    <3>1. Min(fit) \in fit
      <4>1. fit \in SUBSET Nat
        BY InsFacts
      <4>2. \E k \in fit : \A m \in fit : k <= m
        <5>. HIDE DEF fit
        <5>. QED BY <2>3, <4>1, LeastNat
      <4>. HIDE DEF fit
      <4>. QED BY <4>2, Zenon DEF Min
    <3> DEFINE v == Ins(t)[Min(fit)]
    <3>2. IsView(v) /\ v.shape = task_shape(t)
      BY <3>1, InsFacts
    <3>3. OutView(t) = empty_like(v)
      BY <2>1, <2>3
    <3>. HIDE DEF v
    <3>. QED BY <3>2, <3>3, EmptyLike
  <2>. QED BY <2>2, <2>3
<1>. QED BY <1>2, <1>3

\* The places of a storage.
Places(v) == IF Addrs(v) = {} THEN {} ELSE 0 .. Max(Addrs(v))

\* The view of buffer k.
Buffer(t, k) == IF k = Arity(t) + 1 THEN OutView(t) ELSE Ins(t)[k]

LEMMA BufferFacts ==
  ASSUME NEW t, HasCall(t), ~Raises(t), NEW k \in 1 .. Arity(t) + 1
  PROVE  /\ IsView(Buffer(t, k)) /\ Fits(Buffer(t, k).shape, task_shape(t))
         /\ Append(Ins(t), OutView(t))[k] = Buffer(t, k)
         /\ Len(Append(Ins(t), OutView(t))) = Arity(t) + 1
         /\ fast_path_allowed(t) =>
              /\ Buffer(t, k).shape = task_shape(t)
              /\ is_contiguous(Buffer(t, k)) \/ is_non_overlapping_and_dense(Buffer(t, k))
<1> DEFINE n == Arity(t)
           s == Ins(t)
           T == task_shape(t)
<1>1. n \in Nat \ {0} /\ DOMAIN s = 1 .. n /\ Len(s) = n
  BY InsFacts DEF Arity
<1>2. Append(s, OutView(t))[k] = Buffer(t, k) /\ Len(Append(s, OutView(t))) = n + 1
  <2> DEFINE x == OutView(t)
  <2>1. s \in Seq(Range(s))
    BY DEF HasCall, IsPointwiseCall, Ins
  <2>2. s \in Seq(Range(s) \cup {x}) /\ x \in Range(s) \cup {x}
    <3>. HIDE DEF s, n, x
    <3>. QED BY <1>1, <2>1
  <2>. HIDE DEF s, n, x
  <2>3. Len(Append(s, x)) = n + 1 /\ Append(s, x)[n + 1] = x
    BY <1>1, <2>2
  <2>4. \A i \in 1 .. n : Append(s, x)[i] = s[i]
    BY <1>1, <2>2
  <2>5. k = n + 1 \/ (k \in 1 .. n /\ k # n + 1)
    BY <1>1 DEF n
  <2>6. Append(s, x)[k] = IF k = n + 1 THEN x ELSE s[k]
    BY <2>3, <2>4, <2>5
  <2>. QED BY <2>3, <2>6 DEF Buffer, s, x, n
<1>3. T \in Seq(Nat)
  BY TaskShape
<1>4. Fits(T, T)
  <2> DEFINE m == Len(T)
  <2>1. m \in Nat
    BY <1>3, ShapeFacts
  <2>2. \A i \in 1 .. m : m - m + i = i
    BY <2>1
  <2>. QED BY <2>1, <2>2 DEF Fits
<1>5. \A v \in Tensors(t) : fast_path_allowed(t) =>
        is_contiguous(v) \/ is_non_overlapping_and_dense(v)
  BY DEF fast_path_allowed, use_fast_path, all_c_contiguous
<1>6. CASE k = n + 1
  <2>1. Buffer(t, k) = OutView(t)
    BY <1>6 DEF Buffer
  <2>2. IsView(OutView(t)) /\ OutView(t).shape = T
    BY OutFacts
  <2>3. fast_path_allowed(t) =>
          is_contiguous(OutView(t)) \/ is_non_overlapping_and_dense(OutView(t))
    BY <1>5, OutFacts
  <2>. QED BY <1>2, <1>4, <2>1, <2>2, <2>3
<1>7. CASE k # n + 1
  <2>1. k \in 1 .. n /\ Buffer(t, k) = s[k]
    BY <1>1, <1>7 DEF Buffer
  <2>2. IsView(s[k]) /\ s[k] \in Tensors(t)
    BY <2>1, InsFacts
  <2>3. Fits(s[k].shape, T)
    BY <2>1, TaskShape
  <2>4. fast_path_allowed(t) => s[k].shape = T
    BY <2>2, TaskShape
  <2>. QED BY <1>2, <1>5, <2>1, <2>2, <2>3, <2>4
<1>. QED BY <1>6, <1>7

\* The element an index of the task space stands for.
LEMMA FastSlots ==
  ASSUME NEW t, HasCall(t), ~Raises(t), task[t] = Prepared(t), fast_path_allowed(t)
  PROVE  /\ volume(task_shape(t)) \in Nat
         /\ num_tasks(t) = 0 <=> volume(task_shape(t)) = 0
         /\ task[t].shape = <<volume(task_shape(t))>>
         /\ \A index \in Indices(task[t].shape) :
              /\ index \in [1 .. 1 -> Nat] /\ index[1] \in 0 .. volume(task_shape(t)) - 1
              /\ \A k \in 1 .. Arity(t) + 1 : Slot(t, k, index) = index[1]
<1> DEFINE T == task_shape(t)
           n == Arity(t)
           total == volume(T)
<1>1. T \in Seq(Nat) /\ n \in Nat \ {0} /\ 1 \in 1 .. n
  BY TaskShape, InsFacts
<1>2. Ins(t)[1].shape = T
  BY <1>1, InsFacts, TaskShape
<1>3. total \in Nat
  <2> DEFINE m == Len(T)
  <2>1. m \in Nat /\ DOMAIN T = 1 .. m /\ \A i \in 1 .. m : T[i] \in Nat
    BY <1>1, ShapeFacts
  <2>. HIDE DEF m, T
  <2>. QED BY <2>1, VolumeNat
<1>4. /\ task[t].shape = <<total>>
      /\ \A k \in 1 .. n + 1 : task[t].strides[k] = <<1>>
  <2>1. Len(Append(Ins(t), OutView(t))) = n + 1
    <3>1. 1 \in 1 .. n + 1
      BY <1>1
    <3>. QED BY <3>1, BufferFacts
  <2>2. task[t] = [shape |-> <<total>>, strides |-> [k \in 1 .. n + 1 |-> <<1>>]]
    BY <1>2, <2>1 DEF Prepared
  <2>. QED BY <2>2
<1>. HIDE DEF T, n, total
<1>5. <<total>> \in Seq(Nat) /\ Len(<<total>>) = 1 /\ <<total>>[1] = total
  BY <1>3
<1>6. num_tasks(t) = 0 <=> total = 0
  <2>1. volume(<<total>>) # 0 <=> \A i \in 1 .. 1 : <<total>>[i] # 0
    BY <1>5, VolumePositive
  <2>2. (\A i \in 1 .. 1 : <<total>>[i] # 0) <=> total # 0
    BY <1>5
  <2>. QED BY <1>4, <2>1, <2>2 DEF num_tasks
<1>7. ASSUME NEW index \in Indices(<<total>>)
      PROVE  /\ index \in [1 .. 1 -> Nat] /\ index[1] \in 0 .. total - 1
             /\ \A k \in 1 .. n + 1 : Slot(t, k, index) = index[1]
  <2>1. index \in [1 .. 1 -> Nat] /\ index[1] < total
    <3>1. /\ index \in [1 .. Len(<<total>>) -> Nat]
          /\ \A i \in 1 .. Len(<<total>>) : index[i] < <<total>>[i]
      BY <1>5, IndicesAre DEF MultiIndices
    <3>2. 1 \in 1 .. 1
      OBVIOUS
    <3>. QED BY <1>5, <3>1, <3>2
  <2>2. Addr(<<1>>, index) = index[1]
    <3> DEFINE s == [i \in 1 .. 1 |-> <<1>>[i] * index[i]]
    <3>1. <<1>> \in [1 .. 1 -> Int] /\ index \in [1 .. 1 -> Int]
      BY <2>1
    <3>2. PICK p \in Partials("sum", s, 1) : Addr(<<1>>, index) = p[1]
      BY <3>1, AddrIs
    <3>3. p[0] = 0 /\ p[1] = p[0] + s[1]
      <4>1. 1 \in 1 .. 1 /\ 1 - 1 = 0
        OBVIOUS
      <4>2. p[1] = p[1 - 1] + s[1]
        BY <4>1 DEF Partials, Combined
      <4>. QED BY <4>1, <4>2 DEF Partials, Neutral
    <3>4. s[1] = index[1] /\ index[1] \in Nat
      BY <2>1
    <3>. HIDE DEF s
    <3>5. p[1] = index[1]
      BY <3>3, <3>4
    <3>. QED BY <3>2, <3>5
  <2>3. index[1] \in 0 .. total - 1
    BY <1>3, <2>1
  <2>. QED BY <1>4, <2>1, <2>2, <2>3 DEF Slot
<1>. QED BY <1>3, <1>4, <1>6, <1>7 DEF T, n, total

LEMMA SlowSlots ==
  ASSUME NEW t, HasCall(t), ~Raises(t), task[t] = Prepared(t), ~fast_path_allowed(t)
  PROVE  /\ task[t].shape = task_shape(t)
         /\ \A k \in 1 .. Arity(t) + 1 :
              /\ task[t].strides[k] =
                   broadcasted_stride(Buffer(t, k).shape, Buffer(t, k).stride, task_shape(t))
              /\ \A index \in Indices(task_shape(t)) :
                   Slot(t, k, index)
                     = Addr(Buffer(t, k).stride, Shown(Buffer(t, k).shape, task_shape(t), index))
<1> DEFINE T == task_shape(t)
           n == Arity(t)
           w == Append(Ins(t), OutView(t))
<1>1. T \in Seq(Nat) /\ n \in Nat \ {0} /\ 1 \in 1 .. n + 1
  BY TaskShape, InsFacts
<1>2. /\ task[t].shape = T
      /\ \A k \in 1 .. n + 1 : task[t].strides[k] =
           broadcasted_stride(Buffer(t, k).shape, Buffer(t, k).stride, T)
  <2>1. \A k \in 1 .. n + 1 : w[k] = Buffer(t, k) /\ Len(w) = n + 1
    BY BufferFacts
  <2>2. task[t] = [shape |-> T, strides |-> [k \in 1 .. Len(w) |->
                     broadcasted_stride(w[k].shape, w[k].stride, T)]]
    BY DEF Prepared
  <2>. HIDE DEF w, T
  <2>. QED BY <1>1, <2>1, <2>2
<1>3. ASSUME NEW k \in 1 .. n + 1, NEW index \in Indices(T)
      PROVE  Slot(t, k, index)
               = Addr(Buffer(t, k).stride, Shown(Buffer(t, k).shape, T, index))
  <2> DEFINE v == Buffer(t, k)
  <2>1. IsView(v) /\ Fits(v.shape, T)
    BY BufferFacts
  <2>2. Slot(t, k, index) = Addr(broadcasted_stride(v.shape, v.stride, T), index)
    BY <1>2 DEF Slot
  <2>. HIDE DEF v, T, n
  <2>3. Slot(t, k, index) = Addr(v.stride, Shown(v.shape, T, index))
    BY <1>1, <2>1, <2>2, ShownAddr
  <2>. QED BY <2>3 DEF v
<1>. HIDE DEF T, n
<1>. QED BY <1>2, <1>3 DEF T, n

\* Every index of the task space has a place in every storage.
LEMMA SlotsStored ==
  ASSUME NEW t, HasCall(t), ~Raises(t), task[t] = Prepared(t), num_tasks(t) # 0
  PROVE  /\ task[t].shape \in Seq(Nat)
         /\ \A index \in Indices(task[t].shape), k \in 1 .. Arity(t) + 1 :
              Slot(t, k, index) \in Places(Buffer(t, k))
<1> DEFINE T == task_shape(t)
           n == Arity(t)
<1>0. T \in Seq(Nat)
  BY TaskShape
<1>1. CASE fast_path_allowed(t)
  <2> DEFINE total == volume(T)
  <2>1. total \in Nat /\ total # 0 /\ task[t].shape = <<total>>
    BY <1>1, FastSlots
  <2>2. <<total>> \in Seq(Nat)
    BY <2>1
  <2>3. ASSUME NEW index \in Indices(task[t].shape), NEW k \in 1 .. n + 1
        PROVE  Slot(t, k, index) \in Places(Buffer(t, k))
    <3> DEFINE v == Buffer(t, k)
               x == index[1]
               top == Max(Addrs(v))
    <3>1. x \in 0 .. total - 1 /\ Slot(t, k, index) = x
      BY <1>1, FastSlots
    <3>2. /\ IsView(v) /\ v.shape = T
          /\ is_contiguous(v) \/ is_non_overlapping_and_dense(v)
      BY <1>1, BufferFacts
    <3>. HIDE DEF v, x
    <3>3. Addrs(v) # {} /\ top \in Nat /\ total - 1 <= top
      BY <2>1, <3>2, StorageFilled
    <3>. HIDE DEF top, total
    <3>4. x \in 0 .. top
      BY <2>1, <3>1, <3>3
    <3>. QED BY <3>1, <3>3, <3>4 DEF Places, v, top
  <2>. QED BY <2>1, <2>2, <2>3
<1>2. CASE ~fast_path_allowed(t)
  <2>1. task[t].shape = T
    BY <1>2, SlowSlots
  <2>2. ASSUME NEW index \in Indices(T), NEW k \in 1 .. n + 1
        PROVE  Slot(t, k, index) \in Places(Buffer(t, k))
    <3> DEFINE v == Buffer(t, k)
    <3>1. IsView(v) /\ v.shape \in Seq(Nat) /\ Fits(v.shape, T)
      BY BufferFacts DEF IsView
    <3>2. Slot(t, k, index) = Addr(v.stride, Shown(v.shape, T, index))
      BY <1>2, SlowSlots
    <3>. HIDE DEF v, T, n
    <3>3. Shown(v.shape, T, index) \in Indices(v.shape)
      BY <1>0, <3>1, ShownIndex
    <3>4. Slot(t, k, index) \in Addrs(v)
      BY <3>2, <3>3 DEF Addrs
    <3> DEFINE a == Slot(t, k, index)
               top == Max(Addrs(v))
    <3>5. a \in Nat /\ top \in Nat /\ a <= top
      BY <3>1, <3>4, ElementsStored
    <3>. HIDE DEF a, top
    <3>6. a \in 0 .. top
      BY <3>5
    <3>. QED BY <3>4, <3>6 DEF Places, v, a, top
  <2>. QED BY <1>0, <2>1, <2>2
<1>. QED BY <1>1, <1>2
-----------------------------------------------------------------------------
(***************************************************************************)
(* PointwiseDynamic: every address lies in its storage                     *)
(***************************************************************************)
Jobs == UNION {Range(w[t]) : w \in Workloads, t \in Threads}

IsSizes(sizes) == sizes.max_tile_size \in Nat \ {0} /\ sizes.max_grid_size \in Nat \ {0}

\* The buffers of a call in progress are those of its operands, and no place
\* of theirs is without a value.
Buffered(t) ==
  /\ plan[t] # <<>> /\ ~Raises(t) /\ task[t] = Prepared(t)
  /\ DOMAIN mem[t] = 1 .. Arity(t) + 1
  /\ \A k \in 1 .. Arity(t) + 1 :
       /\ DOMAIN mem[t][k] = Places(Buffer(t, k))
       /\ \A a \in DOMAIN mem[t][k] : mem[t][k][a] # Nothing

ThreadOK(t) ==
  /\ plan[t] \in Seq(Jobs)
  /\ at[t] \in {"lookup", "load", "publish", "run", "returned"} => Buffered(t)
  /\ at[t] \in {"returned", "raised"} => plan[t] # <<>>
  /\ at[t] = "load" => FileName(t) \in DOMAIN files
  /\ at[t] \in {"publish", "run", "returned"} => IsSizes(module[t].sizes)
  /\ ~stray[t]

\* Whatever version of a module is found or loaded has positive sizes.
ModulesOK ==
  /\ \A o \in DOMAIN overloads : IsSizes(overloads[o].sizes)
  /\ \A f \in DOMAIN files :
       /\ DOMAIN files[f] = {"now", "bytecode"} /\ IsSizes(files[f].now)
       /\ files[f].bytecode = Nothing \/ IsSizes(files[f].bytecode)

Threaded ==
  /\ DOMAIN plan = Threads /\ DOMAIN at = Threads /\ DOMAIN task = Threads
  /\ DOMAIN module = Threads /\ DOMAIN mem = Threads /\ DOMAIN stray = Threads

BoundsInv == Threaded /\ ModulesOK /\ \A t \in Threads : ThreadOK(t)

LEMMA JobsFacts ==
  /\ \A c \in Jobs : IsPointwiseCall(c)
  /\ \A w \in Workloads : DOMAIN w = Threads /\ \A t \in Threads : w[t] \in Seq(Jobs)
<1>1. ASSUME NEW c \in Jobs PROVE IsPointwiseCall(c)
  <2>1. PICK w \in Workloads, t \in Threads : c \in Range(w[t])
    BY DEF Jobs
  <2>. QED BY <2>1, PointwiseAssumption
<1>2. ASSUME NEW w \in Workloads, NEW t \in Threads PROVE w[t] \in Seq(Jobs)
  <2> DEFINE s == w[t]
             S == Range(s)
  <2>1. s \in Seq(S) /\ S \subseteq Jobs
    BY PointwiseAssumption DEF Jobs
  <2>. HIDE DEF s, S
  <2>. QED BY <2>1 DEF s
<1>. QED BY <1>1, <1>2, PointwiseAssumption

LEMMA PlanFacts ==
  ASSUME NEW t \in Threads, plan[t] \in Seq(Jobs), plan[t] # <<>>
  PROVE  HasCall(t) /\ Tail(plan[t]) \in Seq(Jobs)
<1> DEFINE s == plan[t]
<1>1. s \in Seq(Jobs) /\ s # <<>>
  OBVIOUS
<1>. HIDE DEF s
<1>2. Head(s) \in Jobs /\ Tail(s) \in Seq(Jobs)
  BY <1>1
<1>3. IsPointwiseCall(Head(s))
  BY <1>2, JobsFacts
<1>. QED BY <1>1, <1>2, <1>3 DEF HasCall, Call, s

\* What a call is made of depends on the plan only.
LEMMA CallKept ==
  ASSUME NEW t, plan'[t] = plan[t]
  PROVE  /\ Call(t)' = Call(t) /\ Arity(t)' = Arity(t)
         /\ (Raises(t)') = Raises(t) /\ Prepared(t)' = Prepared(t)
         /\ \A k : Buffer(t, k)' = Buffer(t, k)
<1>1. Call(t)' = Call(t)
  BY DEF Call
<1>2. Ins(t)' = Ins(t) /\ Arity(t)' = Arity(t)
  BY <1>1 DEF Ins, Arity
<1>3. (OutGiven(t)') = OutGiven(t) /\ GivenOut(t)' = GivenOut(t)
  BY <1>1, <1>2 DEF OutGiven, GivenOut
<1>4. Tensors(t)' = Tensors(t)
  BY <1>2, <1>3 DEF Tensors
<1>5. task_shape(t)' = task_shape(t)
  BY <1>2 DEF task_shape
<1>6. Allocated(t)' = Allocated(t)
  BY <1>2, <1>5 DEF Allocated
<1>7. OutView(t)' = OutView(t)
  BY <1>3, <1>6 DEF OutView
<1>11. (fast_path_allowed(t)') = fast_path_allowed(t)
  BY <1>2, <1>4 DEF fast_path_allowed
<1>8. (Raises(t)') = Raises(t)
  BY <1>3, <1>5, <1>11 DEF Raises
<1>9. Prepared(t)' = Prepared(t)
  BY <1>2, <1>5, <1>7, <1>11 DEF Prepared
<1>10. \A k : Buffer(t, k)' = Buffer(t, k)
  BY <1>2, <1>7 DEF Buffer
<1>. QED BY <1>1, <1>2, <1>8, <1>9, <1>10

LEMMA BufferedKept ==
  ASSUME NEW t, plan'[t] = plan[t], task'[t] = task[t], mem'[t] = mem[t], Buffered(t)
  PROVE  Buffered(t)'
BY CallKept DEF Buffered

LEMMA ThreadKept ==
  ASSUME NEW t, ThreadOK(t), plan'[t] = plan[t], at'[t] = at[t], task'[t] = task[t],
         module'[t] = module[t], mem'[t] = mem[t], stray'[t] = stray[t],
         DOMAIN files \subseteq DOMAIN files'
  PROVE  ThreadOK(t)'
<1>1. FileName(t)' = FileName(t)
  BY CallKept DEF FileName, Rank
<1>. QED BY <1>1, BufferedKept DEF ThreadOK

LEMMA AppendFacts ==
  ASSUME NEW S, NEW s \in Seq(S), NEW x \in S
  PROVE  /\ s \o <<x>> = Append(s, x) /\ s \o <<>> = s
         /\ Append(s, x) \in Seq(S) /\ Len(Append(s, x)) = Len(s) + 1
         /\ Append(s, x)[Len(s) + 1] = x
         /\ \A k \in 1 .. Len(s) : Append(s, x)[k] = s[k]
OBVIOUS

\* The storages a call begins with.
Begun(t) ==
  IF OutGiven(t) THEN Before(t)
  ELSE Append(Before(t), Held(Arity(t) + 1, Allocated(t)))

LEMMA StartFacts ==
  ASSUME NEW t, HasCall(t), ~Raises(t)
  PROVE  /\ DOMAIN Begun(t) = 1 .. Arity(t) + 1
         /\ \A k \in 1 .. Arity(t) + 1 :
              /\ DOMAIN Begun(t)[k] = Places(Buffer(t, k))
              /\ \A a \in DOMAIN Begun(t)[k] :
                   Begun(t)[k][a] = <<k, a>> /\ Begun(t)[k][a] # Nothing
<1> DEFINE m == Begun(t)
           n == Arity(t)
           s == [k \in 1 .. n |-> Held(k, Ins(t)[k])]
           x == Held(n + 1, OutView(t))
           S == {s[k] : k \in 1 .. n} \cup {x}
<1>1. n \in Nat
  BY InsFacts
<1>2. s \in Seq(S) /\ Len(s) = n /\ x \in S
  <2>1. \A k \in 1 .. n : s[k] \in S
    OBVIOUS
  <2>2. s = [k \in 1 .. n |-> s[k]]
    OBVIOUS
  <2>. HIDE DEF s, n, x
  <2>3. s \in [1 .. n -> S] /\ x \in S
    BY <2>1, <2>2
  <2>. HIDE DEF S
  <2>. QED BY <1>1, <2>3
<1>3. m = s \o <<x>> \/ m = Append(s \o <<>>, x)
  <2>1. CASE OutGiven(t)
    <3>1. m = s \o <<x>>
      BY <2>1 DEF Begun, Before, OutView
    <3>. QED BY <3>1
  <2>2. CASE ~OutGiven(t)
    <3>1. m = Append(s \o <<>>, x)
      BY <2>2 DEF Begun, Before, OutView
    <3>. QED BY <3>1
  <2>. QED BY <2>1, <2>2
<1>4. \A k \in 1 .. n : s[k] = Held(k, Ins(t)[k])
  OBVIOUS
<1>. HIDE DEF s, S, x, m
<1>5. Len(m) = n + 1 /\ m \in Seq(S) /\ m[n + 1] = x /\ \A k \in 1 .. n : m[k] = s[k]
  <2>1. m = Append(s, x)
    BY <1>2, <1>3, AppendFacts
  <2>2. Len(s) = n
    BY <1>2
  <2>3. /\ Append(s, x) \in Seq(S) /\ Len(Append(s, x)) = Len(s) + 1
        /\ Append(s, x)[Len(s) + 1] = x
        /\ \A k \in 1 .. Len(s) : Append(s, x)[k] = s[k]
    BY <1>2, AppendFacts, SMT
  <2>. QED BY <2>1, <2>2, <2>3
<1>6. DOMAIN m = 1 .. n + 1
  BY <1>5
<1>7. ASSUME NEW k \in 1 .. n + 1 PROVE m[k] = Held(k, Buffer(t, k))
  <2>1. CASE k = n + 1
    BY <1>5, <2>1 DEF Buffer, x
  <2>2. CASE k # n + 1
    <3>1. k \in 1 .. n
      BY <1>1, <2>2
    <3>. QED BY <1>4, <1>5, <2>2, <3>1 DEF Buffer
  <2>. QED BY <2>1, <2>2
<1>8. ASSUME NEW k, NEW v
      PROVE  /\ DOMAIN Held(k, v) = Places(v)
             /\ \A a \in DOMAIN Held(k, v) :
                  Held(k, v)[a] = <<k, a>> /\ Held(k, v)[a] # Nothing
  <2>1. Held(k, v) = [a \in Places(v) |-> <<k, a>>]
    BY DEF Held, Places
  <2>2. \A a : <<k, a>> # Nothing
    BY DEF Nothing
  <2>3. DOMAIN Held(k, v) = Places(v)
    BY <2>1
  <2>4. ASSUME NEW a \in Places(v) PROVE Held(k, v)[a] = <<k, a>> /\ Held(k, v)[a] # Nothing
    BY <2>1, <2>2
  <2>. QED BY <2>3, <2>4
<1>9. ASSUME NEW k \in 1 .. n + 1
      PROVE  /\ DOMAIN m[k] = Places(Buffer(t, k))
             /\ \A a \in DOMAIN m[k] : m[k][a] = <<k, a>> /\ m[k][a] # Nothing
  <2> DEFINE v == Buffer(t, k)
  <2>1. m[k] = Held(k, v)
    BY <1>7
  <2>. HIDE DEF v
  <2>. QED BY <1>8, <2>1 DEF v
<1>. QED BY <1>6, <1>9 DEF m

LEMMA InitBounds == PointwiseInit => BoundsInv
<1> SUFFICES ASSUME PointwiseInit PROVE BoundsInv
  OBVIOUS
<1>1. ModulesOK
  BY DEF PointwiseInit, ModulesOK, Nothing
<1>2. Threaded
  BY JobsFacts DEF PointwiseInit, Threaded
<1>3. ASSUME NEW t \in Threads PROVE ThreadOK(t)
  BY JobsFacts DEF PointwiseInit, ThreadOK
<1>. QED BY <1>1, <1>2, <1>3 DEF BoundsInv

\* A step of one thread leaves the others alone.
LEMMA OneThread ==
  ASSUME BoundsInv, NEW t \in Threads, ThreadOK(t)', ModulesOK', Threaded',
         DOMAIN files \subseteq DOMAIN files',
         \A u \in Threads \ {t} :
           /\ plan'[u] = plan[u] /\ at'[u] = at[u] /\ task'[u] = task[u]
           /\ module'[u] = module[u] /\ mem'[u] = mem[u] /\ stray'[u] = stray[u]
  PROVE  BoundsInv'
<1>1. ASSUME NEW u \in Threads \ {t} PROVE ThreadOK(u)'
  <2>1. ThreadOK(u)
    BY DEF BoundsInv
  <2>. QED BY <2>1, ThreadKept
<1>2. \A u \in Threads : ThreadOK(u)'
  BY <1>1
<1>. QED BY <1>2 DEF BoundsInv

LEMMA PrepareBounds ==
  ASSUME BoundsInv, NEW t \in Threads, Prepare(t)
  PROVE  BoundsInv'
<1>0. Threaded /\ ModulesOK /\ ThreadOK(t)
  BY DEF BoundsInv
<1>1. /\ plan[t] # <<>> /\ at[t] = "idle" /\ UNCHANGED <<shared, plan, module, stray>>
      /\ at' = [at EXCEPT ![t] = IF Raises(t) THEN "raised" ELSE "lookup"]
      /\ mem' = [mem EXCEPT ![t] = IF Raises(t) \/ OutGiven(t) THEN Before(t)
                   ELSE Append(Before(t), Held(Arity(t) + 1, Allocated(t)))]
      /\ task' = [task EXCEPT ![t] = IF Raises(t) THEN Nothing ELSE Prepared(t)]
  BY DEF Prepare, Proceed
<1>2. ModulesOK' /\ Threaded'
  BY <1>0, <1>1 DEF ModulesOK, Threaded, shared
<1>3. plan[t] \in Seq(Jobs) /\ HasCall(t)
  BY <1>0, <1>1, PlanFacts DEF ThreadOK
<1>4. ThreadOK(t)'
  <2>1. plan'[t] \in Seq(Jobs) /\ plan'[t] # <<>> /\ ~stray'[t]
    BY <1>0, <1>1 DEF ThreadOK
  <2>2. CASE Raises(t)
    <3>1. at'[t] = "raised"
      BY <1>0, <1>1, <2>2 DEF Threaded
    <3>. QED BY <2>1, <3>1 DEF ThreadOK
  <2>3. CASE ~Raises(t)
    <3>1. at'[t] = "lookup" /\ task'[t] = Prepared(t)
      BY <1>0, <1>1, <2>3 DEF Threaded
    <3>2. mem'[t] = Begun(t)
      BY <1>0, <1>1, <2>3 DEF Threaded, Begun
    <3>3. /\ DOMAIN mem'[t] = 1 .. Arity(t) + 1
          /\ \A k \in 1 .. Arity(t) + 1 :
               /\ DOMAIN mem'[t][k] = Places(Buffer(t, k))
               /\ \A a \in DOMAIN mem'[t][k] : mem'[t][k][a] # Nothing
      BY <1>3, <2>3, <3>2, StartFacts
    <3>4. Buffered(t)'
      <4>1. /\ Arity(t)' = Arity(t) /\ (Raises(t)') = Raises(t)
            /\ Prepared(t)' = Prepared(t) /\ \A k : Buffer(t, k)' = Buffer(t, k)
        BY <1>1, CallKept
      <4>2. plan'[t] # <<>>
        BY <1>1
      <4>. QED BY <2>3, <3>1, <3>3, <4>1, <4>2 DEF Buffered
    <3>. QED BY <2>1, <3>1, <3>4 DEF ThreadOK
  <2>. QED BY <2>2, <2>3
<1>5. \A u \in Threads \ {t} :
        /\ plan'[u] = plan[u] /\ at'[u] = at[u] /\ task'[u] = task[u]
        /\ module'[u] = module[u] /\ mem'[u] = mem[u] /\ stray'[u] = stray[u]
  BY <1>0, <1>1 DEF Threaded
<1>6. DOMAIN files \subseteq DOMAIN files'
  BY <1>1 DEF shared
<1>. QED BY <1>2, <1>4, <1>5, <1>6, OneThread

LEMMA FoundBounds ==
  ASSUME BoundsInv, NEW t \in Threads, Found(t)
  PROVE  BoundsInv'
<1>0. Threaded /\ ModulesOK /\ ThreadOK(t)
  BY DEF BoundsInv
<1>1. /\ at[t] = "lookup" /\ at' = [at EXCEPT ![t] = "run"]
      /\ Overload(t) \in DOMAIN overloads
      /\ module' = [module EXCEPT ![t] = overloads[Overload(t)]]
      /\ UNCHANGED <<shared, plan, task, mem, ran, stray>>
  BY DEF Found, Proceed
<1>2. ModulesOK' /\ Threaded'
  BY <1>0, <1>1 DEF ModulesOK, Threaded, shared
<1>3. at'[t] = "run" /\ IsSizes(module'[t].sizes)
  BY <1>0, <1>1 DEF Threaded, ModulesOK
<1>4. Buffered(t)'
  BY <1>0, <1>1, BufferedKept DEF ThreadOK
<1>5. ThreadOK(t)'
  BY <1>0, <1>1, <1>3, <1>4 DEF ThreadOK
<1>6. DOMAIN files \subseteq DOMAIN files'
  BY <1>1 DEF shared
<1>7. \A u \in Threads \ {t} :
        /\ plan'[u] = plan[u] /\ at'[u] = at[u] /\ task'[u] = task[u]
        /\ module'[u] = module[u] /\ mem'[u] = mem[u] /\ stray'[u] = stray[u]
  BY <1>0, <1>1 DEF Threaded
<1>. QED BY <1>2, <1>5, <1>6, <1>7, OneThread

LEMMA WriteBounds ==
  ASSUME BoundsInv, NEW t \in Threads, Write(t)
  PROVE  BoundsInv'
<1> DEFINE f == FileName(t)
           bytecode == IF f \in DOMAIN files THEN files[f].bytecode ELSE Nothing
<1>0. Threaded /\ ModulesOK /\ ThreadOK(t)
  BY DEF BoundsInv
<1>1. /\ at[t] = "lookup" /\ at' = [at EXCEPT ![t] = "load"]
      /\ files' = Put(files, f, [now |-> Sizes(t), bytecode |-> bytecode])
      /\ UNCHANGED <<overloads, loads, plan, task, module, mem, ran, stray>>
  BY DEF Write, Proceed
<1>2. plan[t] # <<>> /\ plan[t] \in Seq(Jobs)
  BY <1>0, <1>1 DEF ThreadOK, Buffered
<1>3. IsSizes(Sizes(t))
  BY <1>2, PlanFacts, InsFacts DEF IsSizes, Sizes
<1>4. /\ DOMAIN files' = DOMAIN files \cup {f}
      /\ \A g \in DOMAIN files' :
           files'[g] = IF g = f THEN [now |-> Sizes(t), bytecode |-> bytecode] ELSE files[g]
  BY <1>1 DEF Put
<1>5. bytecode = Nothing \/ IsSizes(bytecode)
  BY <1>0 DEF ModulesOK
<1>6. ModulesOK'
  <2>1. \A o \in DOMAIN overloads' : IsSizes(overloads'[o].sizes)
    BY <1>0, <1>1 DEF ModulesOK
  <2>. HIDE DEF f, bytecode
  <2>2. ASSUME NEW g \in DOMAIN files'
        PROVE  /\ DOMAIN files'[g] = {"now", "bytecode"} /\ IsSizes(files'[g].now)
               /\ files'[g].bytecode = Nothing \/ IsSizes(files'[g].bytecode)
    <3>1. CASE g = f
      <4>1. files'[g] = [now |-> Sizes(t), bytecode |-> bytecode]
        BY <1>4, <3>1
      <4>. QED BY <1>3, <1>5, <4>1
    <3>2. CASE g # f
      BY <1>0, <1>4, <3>2 DEF ModulesOK
    <3>. QED BY <3>1, <3>2
  <2>. QED BY <2>1, <2>2 DEF ModulesOK
<1>7. Threaded' /\ at'[t] = "load"
  BY <1>0, <1>1 DEF Threaded
<1>8. Buffered(t)'
  BY <1>0, <1>1, BufferedKept DEF ThreadOK
<1>9. FileName(t)' \in DOMAIN files'
  <2>1. FileName(t)' = f
    <3>1. task'[t] = task[t] /\ Call(t)' = Call(t)
      BY <1>1, CallKept
    <3>. QED BY <3>1 DEF FileName, Rank
  <2>. QED BY <1>4, <2>1
<1>10. ThreadOK(t)'
  BY <1>0, <1>1, <1>7, <1>8, <1>9 DEF ThreadOK
<1>11. \A u \in Threads \ {t} :
        /\ plan'[u] = plan[u] /\ at'[u] = at[u] /\ task'[u] = task[u]
        /\ module'[u] = module[u] /\ mem'[u] = mem[u] /\ stray'[u] = stray[u]
  BY <1>0, <1>1 DEF Threaded
<1>12. DOMAIN files \subseteq DOMAIN files'
  BY <1>4
<1>. QED BY <1>6, <1>7, <1>10, <1>11, <1>12, OneThread

LEMMA LoadBounds ==
  ASSUME BoundsInv, NEW t \in Threads, Load(t)
  PROVE  BoundsInv'
<1> DEFINE f == FileName(t)
<1>0. Threaded /\ ModulesOK /\ ThreadOK(t)
  BY DEF BoundsInv
<1>1. /\ at[t] = "load" /\ at' = [at EXCEPT ![t] = "publish"]
      /\ UNCHANGED <<overloads, plan, task, mem, ran, stray>>
  BY DEF Load, Proceed
<1>2. PICK sizes \in {files[f].now, files[f].bytecode} \ {Nothing} :
        /\ module' = [module EXCEPT ![t] =
             [rank |-> Rank(t), tiles |-> Call(t).fn.tiles, sizes |-> sizes]]
        /\ files' = [files EXCEPT ![f].bytecode = sizes]
  BY DEF Load
<1>3. f \in DOMAIN files
  BY <1>0, <1>1 DEF ThreadOK
<1>4. IsSizes(sizes) /\ DOMAIN files[f] = {"now", "bytecode"} /\ IsSizes(files[f].now)
  BY <1>0, <1>3 DEF ModulesOK
<1>. HIDE DEF f
<1>5. /\ DOMAIN files' = DOMAIN files
      /\ files'[f] = [files[f] EXCEPT !.bytecode = sizes]
      /\ \A g \in DOMAIN files : g # f => files'[g] = files[g]
  BY <1>2, <1>3
<1>6. ModulesOK'
  <2>1. \A o \in DOMAIN overloads' : IsSizes(overloads'[o].sizes)
    BY <1>0, <1>1 DEF ModulesOK
  <2>2. ASSUME NEW g \in DOMAIN files'
        PROVE  /\ DOMAIN files'[g] = {"now", "bytecode"} /\ IsSizes(files'[g].now)
               /\ files'[g].bytecode = Nothing \/ IsSizes(files'[g].bytecode)
    <3>1. CASE g = f
      <4>1. /\ DOMAIN files'[f] = {"now", "bytecode"} /\ files'[f].now = files[f].now
            /\ files'[f].bytecode = sizes
        BY <1>4, <1>5
      <4>. QED BY <1>4, <3>1, <4>1
    <3>2. CASE g # f
      <4>1. g \in DOMAIN files /\ files'[g] = files[g]
        BY <1>5, <3>2
      <4>. QED BY <1>0, <4>1 DEF ModulesOK
    <3>. QED BY <3>1, <3>2
  <2>. QED BY <2>1, <2>2 DEF ModulesOK
<1>7. Threaded' /\ at'[t] = "publish" /\ module'[t].sizes = sizes
  BY <1>0, <1>1, <1>2 DEF Threaded
<1>8. Buffered(t)'
  BY <1>0, <1>1, BufferedKept DEF ThreadOK
<1>9. ThreadOK(t)'
  BY <1>0, <1>1, <1>4, <1>7, <1>8 DEF ThreadOK
<1>10. \A u \in Threads \ {t} :
        /\ plan'[u] = plan[u] /\ at'[u] = at[u] /\ task'[u] = task[u]
        /\ module'[u] = module[u] /\ mem'[u] = mem[u] /\ stray'[u] = stray[u]
  BY <1>0, <1>1, <1>2 DEF Threaded
<1>11. DOMAIN files \subseteq DOMAIN files'
  BY <1>5
<1>. QED BY <1>6, <1>7, <1>9, <1>10, <1>11, OneThread

LEMMA PublishBounds ==
  ASSUME BoundsInv, NEW t \in Threads, Publish(t)
  PROVE  BoundsInv'
<1>0. Threaded /\ ModulesOK /\ ThreadOK(t)
  BY DEF BoundsInv
<1>1. /\ at[t] = "publish" /\ at' = [at EXCEPT ![t] = "run"]
      /\ overloads' = Put(overloads, Overload(t), module[t])
      /\ UNCHANGED <<files, loads, plan, task, module, mem, ran, stray>>
  BY DEF Publish, Proceed
<1>2. IsSizes(module[t].sizes)
  BY <1>0, <1>1 DEF ThreadOK
<1>3. ModulesOK'
  <2>1. ASSUME NEW o \in DOMAIN overloads' PROVE IsSizes(overloads'[o].sizes)
    <3>1. /\ o \in DOMAIN overloads \cup {Overload(t)}
          /\ overloads'[o] = IF o = Overload(t) THEN module[t] ELSE overloads[o]
      BY <1>1 DEF Put
    <3>. QED BY <1>0, <1>2, <3>1 DEF ModulesOK
  <2>. QED BY <1>0, <1>1, <2>1 DEF ModulesOK
<1>4. Threaded' /\ at'[t] = "run"
  BY <1>0, <1>1 DEF Threaded
<1>5. Buffered(t)'
  BY <1>0, <1>1, BufferedKept DEF ThreadOK
<1>6. ThreadOK(t)'
  BY <1>0, <1>1, <1>2, <1>4, <1>5 DEF ThreadOK
<1>7. DOMAIN files \subseteq DOMAIN files'
  BY <1>1
<1>8. \A u \in Threads \ {t} :
        /\ plan'[u] = plan[u] /\ at'[u] = at[u] /\ task'[u] = task[u]
        /\ module'[u] = module[u] /\ mem'[u] = mem[u] /\ stray'[u] = stray[u]
  BY <1>0, <1>1 DEF Threaded
<1>. QED BY <1>3, <1>4, <1>6, <1>7, <1>8, OneThread

\* The place a program stores to belongs to the output's view.
LEMMA OutPlaces ==
  ASSUME NEW t, HasCall(t), Buffered(t)
  PROVE  /\ OutStorage(t) \in DOMAIN mem[t]
         /\ DOMAIN mem[t][OutStorage(t)] = Places(Buffer(t, Arity(t) + 1))
<1>1. Arity(t) \in Nat \ {0} /\ DOMAIN mem[t] = 1 .. Arity(t) + 1
  BY InsFacts DEF Buffered
<1>2. CASE Call(t).out = InPlace
  <2>1. OutStorage(t) = 1 /\ 1 \in 1 .. Arity(t) + 1 /\ 1 # Arity(t) + 1
    BY <1>1, <1>2 DEF OutStorage
  <2>2. OutGiven(t)
    <3>1. <<-1>> # <<-2>>
      <4>1. <<-1>>[1] = -1 /\ <<-2>>[1] = -2
        OBVIOUS
      <4>. QED BY <4>1
    <3>. QED BY <1>2, <3>1 DEF OutGiven, NoOut, InPlace
  <2>3. OutView(t) = Ins(t)[1]
    BY <1>2, <2>2 DEF OutView, GivenOut
  <2>4. Buffer(t, 1) = Buffer(t, Arity(t) + 1)
    BY <2>1, <2>3 DEF Buffer
  <2>. QED BY <1>1, <2>1, <2>4 DEF Buffered
<1>3. CASE Call(t).out # InPlace
  <2>1. OutStorage(t) = Arity(t) + 1 /\ Arity(t) + 1 \in 1 .. Arity(t) + 1
    BY <1>1, <1>3 DEF OutStorage
  <2>. QED BY <1>1, <2>1 DEF Buffered
<1>. QED BY <1>2, <1>3

LEMMA RunBounds ==
  ASSUME BoundsInv, NEW t \in Threads, num_tasks(t) > 0,
         NEW pid \in Programs(t), RunProgram(t, pid)
  PROVE  BoundsInv'
<1> DEFINE n == Arity(t)
           store == OutStorage(t)
           results == {<<Slot(t, n + 1, i), [k \in 1 .. n |-> Loaded(t, k, i)]>> :
                         i \in Elements(t, pid)}
           New(a) == IF \E r \in results : r[1] = a
                       THEN (CHOOSE r \in results : r[1] = a)[2] ELSE mem[t][store][a]
<1>0. Threaded /\ ModulesOK /\ ThreadOK(t)
  BY DEF BoundsInv
<1>1. /\ at[t] = "run" /\ UNCHANGED <<shared, plan, at, task, module>>
      /\ mem' = [mem EXCEPT ![t][store] =
           [a \in DOMAIN @ |->
              IF \E r \in results : r[1] = a
                THEN (CHOOSE r \in results : r[1] = a)[2] ELSE @[a]]]
      /\ stray' = [stray EXCEPT ![t] = @ \/
           \E r \in results : r[1] \notin DOMAIN mem[t][store] \/ Nothing \in Range(r[2])]
  BY DEF RunProgram
<1>2. Buffered(t) /\ IsSizes(module[t].sizes) /\ ~stray[t] /\ plan[t] \in Seq(Jobs)
  BY <1>0, <1>1 DEF ThreadOK
<1>3. HasCall(t) /\ ~Raises(t) /\ task[t] = Prepared(t)
  <2>1. plan[t] # <<>>
    BY <1>2 DEF Buffered
  <2>. QED BY <1>2, <2>1, PlanFacts DEF Buffered
<1>4. n \in Nat \ {0} /\ DOMAIN mem[t] = 1 .. n + 1
  BY <1>2, <1>3, InsFacts DEF Buffered
<1>5. num_tasks(t) # 0
  OBVIOUS
<1>6. /\ task[t].shape \in Seq(Nat)
      /\ \A i \in Indices(task[t].shape), k \in 1 .. n + 1 :
           Slot(t, k, i) \in Places(Buffer(t, k))
  BY <1>3, <1>5, SlotsStored
<1>7. Elements(t, pid) \subseteq Indices(task[t].shape)
  BY <1>2, <1>5, <1>6, ElementsInside DEF Ready, IsSizes
<1>8. store \in DOMAIN mem[t] /\ DOMAIN mem[t][store] = Places(Buffer(t, n + 1))
  BY <1>2, <1>3, OutPlaces
<1>9. ASSUME NEW i \in Elements(t, pid)
      PROVE  /\ Slot(t, n + 1, i) \in DOMAIN mem[t][store]
             /\ \A k \in 1 .. n : Loaded(t, k, i) # Nothing
  <2>1. i \in Indices(task[t].shape)
    BY <1>7
  <2>2. n + 1 \in 1 .. n + 1
    BY <1>4
  <2>3. ASSUME NEW k \in 1 .. n PROVE Loaded(t, k, i) # Nothing
    <3>1. k \in 1 .. n + 1
      BY <1>4
    <3>2. Slot(t, k, i) \in DOMAIN mem[t][k]
      BY <1>2, <1>6, <2>1, <3>1 DEF Buffered
    <3>3. mem[t][k][Slot(t, k, i)] # Nothing
      BY <1>2, <3>1, <3>2 DEF Buffered
    <3>. QED BY <3>2, <3>3 DEF Loaded
  <2>. QED BY <1>6, <1>8, <2>1, <2>2, <2>3
<1>10. ASSUME NEW r \in results
       PROVE  /\ r[1] \in DOMAIN mem[t][store] /\ Nothing \notin Range(r[2])
              /\ r[2] # Nothing
  <2>1. PICK i \in Elements(t, pid) :
          r = <<Slot(t, n + 1, i), [k \in 1 .. n |-> Loaded(t, k, i)]>>
    OBVIOUS
  <2> DEFINE y == [k \in 1 .. n |-> Loaded(t, k, i)]
  <2>2. r[1] = Slot(t, n + 1, i) /\ r[2] = y
    BY <2>1
  <2>3. DOMAIN y = 1 .. n /\ \A k \in 1 .. n : y[k] # Nothing
    BY <1>9
  <2>. HIDE DEF y
  <2>4. Nothing \notin Range(y)
    BY <2>3 DEF Range
  <2>5. y # Nothing
    <3>1. 1 \in DOMAIN y
      BY <1>4, <2>3
    <3>2. 1 \notin DOMAIN Nothing
      BY DEF Nothing
    <3>. QED BY <3>1, <3>2
  <2>. QED BY <1>9, <2>2, <2>4, <2>5
<1>11. ~stray'[t]
  <2>1. stray'[t] = (stray[t] \/
           \E r \in results : r[1] \notin DOMAIN mem[t][store] \/ Nothing \in Range(r[2]))
    <3>. HIDE DEF results
    <3>. QED BY <1>0, <1>1 DEF Threaded
  <2>. HIDE DEF results
  <2>. QED BY <1>2, <1>10, <2>1
<1>. HIDE DEF results
<1>12. /\ mem'[t][store] = [a \in DOMAIN mem[t][store] |-> New(a)]
       /\ DOMAIN mem'[t] = DOMAIN mem[t]
       /\ \A k \in DOMAIN mem[t] : k # store => mem'[t][k] = mem[t][k]
  BY <1>0, <1>1, <1>8 DEF Threaded
<1>13. ASSUME NEW a \in DOMAIN mem[t][store] PROVE New(a) # Nothing
  <2>1. CASE \E r \in results : r[1] = a
    <3> DEFINE r == CHOOSE r \in results : r[1] = a
    <3>1. r \in results
      BY <2>1
    <3>2. New(a) = r[2]
      BY <2>1
    <3>. HIDE DEF r
    <3>. QED BY <1>10, <3>1, <3>2
  <2>2. CASE ~\E r \in results : r[1] = a
    <3>1. New(a) = mem[t][store][a]
      BY <2>2
    <3>. QED BY <1>2, <1>4, <1>8, <3>1 DEF Buffered
  <2>. QED BY <2>1, <2>2
<1>. HIDE DEF New
<1>14. Buffered(t)'
  <2>1. /\ Arity(t)' = n /\ (Raises(t)') = Raises(t)
        /\ Prepared(t)' = Prepared(t) /\ \A k : Buffer(t, k)' = Buffer(t, k)
    BY <1>1, CallKept
  <2>2. ASSUME NEW k \in 1 .. n + 1
        PROVE  /\ DOMAIN mem'[t][k] = Places(Buffer(t, k))
               /\ \A a \in DOMAIN mem'[t][k] : mem'[t][k][a] # Nothing
    <3>1. DOMAIN mem[t][k] = Places(Buffer(t, k))
          /\ \A a \in DOMAIN mem[t][k] : mem[t][k][a] # Nothing
      BY <1>2 DEF Buffered
    <3>2. CASE k = store
      <4>1. DOMAIN mem'[t][k] = DOMAIN mem[t][k]
            /\ \A a \in DOMAIN mem[t][k] : mem'[t][k][a] = New(a)
        BY <1>12, <3>2
      <4>. QED BY <1>13, <3>1, <3>2, <4>1
    <3>3. CASE k # store
      BY <1>4, <1>12, <3>1, <3>3
    <3>. QED BY <3>2, <3>3
  <2>3. plan'[t] # <<>> /\ task'[t] = Prepared(t)
    BY <1>1, <1>2 DEF Buffered
  <2>. QED BY <1>3, <1>4, <1>12, <2>1, <2>2, <2>3 DEF Buffered
<1>15. ThreadOK(t)'
  BY <1>1, <1>2, <1>11, <1>14 DEF ThreadOK
<1>16. ModulesOK' /\ Threaded'
  BY <1>0, <1>1 DEF ModulesOK, Threaded, shared
<1>17. \A u \in Threads \ {t} :
        /\ plan'[u] = plan[u] /\ at'[u] = at[u] /\ task'[u] = task[u]
        /\ module'[u] = module[u] /\ mem'[u] = mem[u] /\ stray'[u] = stray[u]
  BY <1>0, <1>1 DEF Threaded
<1>18. DOMAIN files \subseteq DOMAIN files'
  BY <1>1 DEF shared
<1>. QED BY <1>15, <1>16, <1>17, <1>18, OneThread

LEMMA RestBounds ==
  ASSUME BoundsInv, NEW t \in Threads, Return(t) \/ NextCall(t)
  PROVE  BoundsInv'
<1>0. Threaded /\ ModulesOK /\ ThreadOK(t)
  BY DEF BoundsInv
<1>1. UNCHANGED <<shared, task, module, mem, ran, stray>>
  BY DEF Return, NextCall
<1>2. ASSUME Return(t)
      PROVE  /\ ThreadOK(t)' /\ Threaded'
             /\ \A u \in Threads \ {t} : plan'[u] = plan[u] /\ at'[u] = at[u]
  <2>1. at[t] = "run" /\ at' = [at EXCEPT ![t] = "returned"] /\ plan' = plan
    BY <1>2 DEF Return, Proceed
  <2>2. plan[t] # <<>> /\ plan[t] \in Seq(Jobs)
    BY <1>0, <2>1 DEF ThreadOK, Buffered
  <2>3. Threaded' /\ at'[t] = "returned"
    BY <1>0, <1>1, <2>1 DEF Threaded
  <2>4. ThreadOK(t)'
    <3>1. Buffered(t)'
      BY <1>0, <1>1, <2>1, BufferedKept DEF ThreadOK
    <3>2. IsSizes(module'[t].sizes) /\ ~stray'[t] /\ plan'[t] = plan[t]
      BY <1>0, <1>1, <2>1 DEF ThreadOK
    <3>. QED BY <2>2, <2>3, <3>1, <3>2 DEF ThreadOK
  <2>5. \A u \in Threads \ {t} : plan'[u] = plan[u] /\ at'[u] = at[u]
    BY <1>0, <2>1 DEF Threaded
  <2>. QED BY <2>3, <2>4, <2>5
<1>3. ASSUME NextCall(t)
      PROVE  /\ ThreadOK(t)' /\ Threaded'
             /\ \A u \in Threads \ {t} : plan'[u] = plan[u] /\ at'[u] = at[u]
  <2>1. /\ at[t] \in {"returned", "raised"} /\ at' = [at EXCEPT ![t] = "idle"]
        /\ plan' = [plan EXCEPT ![t] = Tail(@)]
    BY <1>3 DEF NextCall
  <2>2. plan[t] # <<>> /\ plan[t] \in Seq(Jobs)
    BY <1>0, <2>1 DEF ThreadOK
  <2>3. Threaded' /\ at'[t] = "idle" /\ plan'[t] = Tail(plan[t])
    BY <1>0, <1>1, <2>1 DEF Threaded
  <2>4. plan'[t] \in Seq(Jobs)
    BY <2>2, <2>3, PlanFacts
  <2>5. ThreadOK(t)'
    BY <1>0, <1>1, <2>3, <2>4 DEF ThreadOK
  <2>6. \A u \in Threads \ {t} : plan'[u] = plan[u] /\ at'[u] = at[u]
    BY <1>0, <2>1 DEF Threaded
  <2>. QED BY <2>3, <2>5, <2>6
<1>4. /\ ThreadOK(t)' /\ Threaded'
      /\ \A u \in Threads \ {t} : plan'[u] = plan[u] /\ at'[u] = at[u]
  BY <1>2, <1>3
<1>5. ModulesOK' /\ DOMAIN files \subseteq DOMAIN files'
  BY <1>0, <1>1 DEF ModulesOK, shared
<1>. QED BY <1>1, <1>4, <1>5, OneThread

LEMMA StepBounds == BoundsInv /\ [PointwiseNext]_pointwise_vars => BoundsInv'
<1> SUFFICES ASSUME BoundsInv, [PointwiseNext]_pointwise_vars PROVE BoundsInv'
  OBVIOUS
<1>1. ASSUME NEW t \in Threads,
             \/ Prepare(t) \/ Found(t) \/ Write(t) \/ Load(t) \/ Publish(t)
             \/ Return(t) \/ NextCall(t)
      PROVE  BoundsInv'
  BY <1>1, PrepareBounds, FoundBounds, WriteBounds, LoadBounds, PublishBounds, RestBounds
<1>2. ASSUME NEW t \in Threads, num_tasks(t) > 0, NEW pid \in Programs(t), RunProgram(t, pid)
      PROVE  BoundsInv'
  BY <1>2, RunBounds
<1>3. ASSUME UNCHANGED pointwise_vars PROVE BoundsInv'
  <2>1. ModulesOK' /\ Threaded'
    BY <1>3 DEF BoundsInv, ModulesOK, Threaded, pointwise_vars
  <2>2. ASSUME NEW t \in Threads PROVE ThreadOK(t)'
    <3>1. ThreadOK(t)
      BY DEF BoundsInv
    <3>. QED BY <1>3, <3>1, ThreadKept DEF pointwise_vars
  <2>. QED BY <2>1, <2>2 DEF BoundsInv
<1>. QED BY <1>1, <1>2, <1>3 DEF PointwiseNext

\* Whatever is called, however the threads interleave and whichever version of
\* a generated module they get, no kernel of pointwise_dynamic loads or stores
\* outside of the storage of one of its tensors (PointwiseDynamicFunction.
\* prepare_args and the wrapper and kernel its generator writes).
THEOREM AccessesInBounds == PointwiseSpec => []InBounds
<1>1. BoundsInv => InBounds
  BY DEF BoundsInv, ThreadOK, InBounds
<1>. QED BY <1>1, InitBounds, StepBounds, PTL DEF PointwiseSpec
-----------------------------------------------------------------------------
(***************************************************************************)
(* PointwiseDynamic: the task space has the common shape of the operands   *)
(***************************************************************************)
\* Aligned at the right, s has the extent of T at axis i.
Gives(s, T, i) == Len(T) - Len(s) < i /\ s[i - Len(T) + Len(s)] = T[i]

LEMMA GivesOn ==
  ASSUME NEW s \in Seq(Nat), NEW T \in Seq(Nat), NEW U \in Seq(Nat), NEW i \in 1 .. Len(U),
         Gives(T, U, i), Gives(s, T, i - Len(U) + Len(T))
  PROVE  Gives(s, U, i)
<1>1. Len(s) \in Nat /\ Len(T) \in Nat /\ Len(U) \in Nat
  OBVIOUS
<1> DEFINE j == i - Len(U) + Len(T)
<1>2. Len(U) - Len(T) < i /\ T[j] = U[i]
  BY DEF Gives
<1>3. Len(T) - Len(s) < j /\ s[j - Len(T) + Len(s)] = T[j]
  BY DEF Gives
<1>4. j - Len(T) + Len(s) = i - Len(U) + Len(s) /\ Len(U) - Len(s) < i
  BY <1>1, <1>3
<1>. HIDE DEF j
<1>. QED BY <1>2, <1>3, <1>4 DEF Gives

\* Each extent but 1 that broadcast returns is one of its operands'.
LEMMA JoinedFrom ==
  ASSUME NEW long \in Seq(Nat), NEW short \in Seq(Nat), Len(long) >= Len(short)
  PROVE  /\ Len(Joined(long, short)) = Len(long)
         /\ \A i \in 1 .. Len(long) :
              Gives(long, Joined(long, short), i) \/ Gives(short, Joined(long, short), i)
<1> DEFINE n == Len(long)
           m == Len(short)
           d == n - m
           T == [i \in 1 .. n |-> IF i > d /\ long[i] = 1 THEN short[i - d] ELSE long[i]]
<1>1. n \in Nat /\ m \in Nat /\ d \in Nat
  OBVIOUS
<1>2. Joined(long, short) = T
  BY DEF Joined
<1>3. Len(T) = n
  BY <1>1
<1>4. ASSUME NEW i \in 1 .. n
      PROVE  T[i] = IF i > d /\ long[i] = 1 THEN short[i - d] ELSE long[i]
  OBVIOUS
<1>. HIDE DEF T
<1>5. ASSUME NEW i \in 1 .. n PROVE Gives(long, T, i) \/ Gives(short, T, i)
  <2>1. CASE i > d /\ long[i] = 1
    <3>1. n - m < i /\ i - n + m = i - d
      BY <1>1, <2>1
    <3>. QED BY <1>3, <1>4, <2>1, <3>1 DEF Gives
  <2>2. CASE ~(i > d /\ long[i] = 1)
    <3>1. n - n < i /\ i - n + n = i
      BY <1>1
    <3>. QED BY <1>3, <1>4, <2>2, <3>1 DEF Gives
  <2>. QED BY <2>1, <2>2
<1>. QED BY <1>2, <1>3, <1>5

LEMMA BroadcastFrom ==
  ASSUME NEW s \in Seq(Nat), NEW t \in Seq(Nat), NEW T, T = broadcast(s, t),
         T # Unbroadcastable
  PROVE  /\ Len(T) \in {Len(s), Len(t)}
         /\ \A i \in 1 .. Len(T) : Gives(s, T, i) \/ Gives(t, T, i)
<1>1. Unbroadcastable \notin {s, t}
  BY NoShape
<1>2. Len(s) \in Nat /\ Len(t) \in Nat
  OBVIOUS
<1>3. CASE Len(s) >= Len(t)
  <2>1. T = Joined(s, t)
    BY <1>1, <1>3 DEF broadcast, Joined
  <2>. QED BY <1>3, <2>1, JoinedFrom
<1>4. CASE ~(Len(s) >= Len(t))
  <2>1. T = Joined(t, s)
    BY <1>1, <1>4 DEF broadcast, Joined
  <2>2. Len(t) >= Len(s)
    BY <1>2, <1>4
  <2>. QED BY <2>1, <2>2, JoinedFrom
<1>. QED BY <1>3, <1>4

\* What is common to shapes comes from one of them.
Drawn(shapes, n, T) ==
  /\ Len(T) = 0 \/ \E k \in 1 .. n : Len(shapes[k]) = Len(T)
  /\ \A i \in 1 .. Len(T) : \E k \in 1 .. n : Gives(shapes[k], T, i)

LEMMA DrawnOn ==
  ASSUME NEW k \in Nat \ {0}, NEW shapes, \A j \in 1 .. k : shapes[j] \in Seq(Nat),
         NEW S \in Seq(Nat), NEW T \in Seq(Nat), Drawn(shapes, k - 1, S),
         T = broadcast(S, shapes[k]), T # Unbroadcastable
  PROVE  Drawn(shapes, k, T)
<1>1. k \in 1 .. k /\ \A j \in 1 .. k - 1 : j \in 1 .. k
  OBVIOUS
<1>2. /\ Len(T) \in {Len(S), Len(shapes[k])}
      /\ \A i \in 1 .. Len(T) : Gives(S, T, i) \/ Gives(shapes[k], T, i)
  BY <1>1, BroadcastFrom
<1>3. Len(T) = 0 \/ \E j \in 1 .. k : Len(shapes[j]) = Len(T)
  BY <1>1, <1>2 DEF Drawn
<1>4. ASSUME NEW i \in 1 .. Len(T), Gives(S, T, i)
      PROVE  \E j \in 1 .. k : Gives(shapes[j], T, i)
  <2> DEFINE e == i - Len(T) + Len(S)
  <2>1. e \in 1 .. Len(S)
    <3>1. Len(T) \in Nat /\ Len(S) \in Nat /\ Len(S) <= Len(T)
      <4>1. Fits(S, T)
        BY <1>1, BroadcastFits
      <4>. QED BY <4>1 DEF Fits
    <3>. QED BY <1>4, <3>1 DEF Gives
  <2>2. PICK j \in 1 .. k - 1 : Gives(shapes[j], S, e)
    BY <2>1 DEF Drawn
  <2>3. j \in 1 .. k /\ shapes[j] \in Seq(Nat)
    BY <1>1
  <2>4. Gives(shapes[j], T, i)
    BY <1>4, <2>2, <2>3, GivesOn
  <2>. QED BY <2>3, <2>4
<1>. QED BY <1>1, <1>2, <1>3, <1>4 DEF Drawn

LEMMA ShapesDrawn ==
  ASSUME NEW n \in Nat, NEW shapes \in [1 .. n -> Seq(Nat)],
         broadcast_shapes(shapes) # Unbroadcastable
  PROVE  Drawn(shapes, n, broadcast_shapes(shapes))
<1>0. DOMAIN shapes = 1 .. n
  OBVIOUS
<1>1. PICK p : /\ IsRun("broadcast", <<>>, shapes, n, p)
               /\ broadcast_shapes(shapes) = p[n]
  BY <1>0, BroadcastIs
<1>2. p[0] = <<>> /\ \A k \in 1 .. n : p[k] = broadcast(p[k - 1], shapes[k])
  BY <1>1 DEF IsRun, Combined
<1> DEFINE Fine(k) == p[k] # Unbroadcastable => p[k] \in Seq(Nat) /\ Drawn(shapes, k, p[k])
           T == {k \in Nat : k <= n /\ ~Fine(k)}
<1>3. T = {}
  <2> SUFFICES ASSUME T # {} PROVE FALSE
    OBVIOUS
  <2>1. PICK k \in T : \A j \in T : k <= j
    <3>1. T \in SUBSET Nat
      OBVIOUS
    <3>. HIDE DEF T
    <3>. QED BY <3>1, LeastNat
  <2>2. k \in Nat /\ k <= n /\ ~Fine(k)
    OBVIOUS
  <2>3. Fine(0)
    <3>1. <<>> \in Seq(Nat) /\ Len(<<>>) = 0 /\ 1 .. 0 = {}
      OBVIOUS
    <3>. QED BY <1>2, <3>1 DEF Drawn
  <2>4. k # 0
    <3>. HIDE DEF Fine
    <3>. QED BY <2>2, <2>3
  <2>5. /\ k \in 1 .. n /\ k - 1 \in Nat /\ k - 1 <= n /\ ~(k <= k - 1) /\ k \in Nat \ {0}
        /\ \A j \in 1 .. k : j \in 1 .. n
    BY <2>2, <2>4
  <2>6. Fine(k - 1)
    <3>. HIDE DEF Fine
    <3>. QED BY <2>1, <2>5
  <2>. HIDE DEF T
  <2> SUFFICES ASSUME p[k] # Unbroadcastable
               PROVE  p[k] \in Seq(Nat) /\ Drawn(shapes, k, p[k])
    BY <2>2
  <2>7. p[k] = broadcast(p[k - 1], shapes[k]) /\ \A j \in 1 .. k : shapes[j] \in Seq(Nat)
    BY <1>2, <2>5
  <2>8. p[k - 1] # Unbroadcastable
    BY <2>7 DEF broadcast
  <2>9. p[k - 1] \in Seq(Nat) /\ Drawn(shapes, k - 1, p[k - 1])
    BY <2>6, <2>8
  <2>10. p[k] \in Seq(Nat)
    <3>1. shapes[k] \in Seq(Nat)
      BY <2>5
    <3>. QED BY <2>7, <2>9, <3>1, BroadcastFits
  <2>11. Drawn(shapes, k, p[k])
    BY <2>5, <2>7, <2>9, <2>10, DrawnOn
  <2>. QED BY <2>10, <2>11
<1>4. Fine(n)
  <2>1. n \notin T
    <3>. HIDE DEF T
    <3>. QED BY <1>3
  <2>2. n \in Nat /\ n <= n
    OBVIOUS
  <2>. HIDE DEF Fine
  <2>. QED BY <2>1, <2>2
<1>. QED BY <1>1, <1>4

LEMMA GreatestIs ==
  ASSUME NEW S \in SUBSET Nat, NEW top \in S, \A x \in S : x <= top
  PROVE  Max(S) = top
<1>1. Max(S) \in S /\ Max(S) \in Nat /\ \A x \in S : x <= Max(S)
  BY GreatestOf
<1>. QED BY <1>1

\* The rule of broadcasting, axis by axis, against the fold over the operands.
LEMMA CommonFacts ==
  ASSUME NEW t, HasCall(t), ~Raises(t)
  PROVE  Compatible(t) /\ CommonShape(t) = task_shape(t)
<1> DEFINE n == Arity(t)
           s == [k \in 1 .. n |-> Ins(t)[k].shape]
           T == task_shape(t)
           rank == CommonRank(t)
<1>1. /\ n \in Nat \ {0} /\ 1 \in 1 .. n /\ DOMAIN Ins(t) = 1 .. n
      /\ \A k \in 1 .. n : IsView(Ins(t)[k]) /\ Ins(t)[k] \in Range(Ins(t))
  BY InsFacts DEF Range
<1>2. /\ \A k \in 1 .. n : s[k] = Ins(t)[k].shape
      /\ s \in [1 .. n -> Seq(Nat)]
  BY <1>1 DEF IsView
<1>3. T = broadcast_shapes(s)
  BY DEF task_shape
<1>4. T \in Seq(Nat) /\ \A k \in 1 .. n : Fits(s[k], T)
  BY <1>2, TaskShape
<1>5. Len(T) \in Nat /\ T \in [1 .. Len(T) -> Nat]
  BY <1>4, ShapeFacts
<1>. HIDE DEF s, n
<1>6. Drawn(s, n, T)
  <2>1. T # Unbroadcastable
    BY <1>4, NoShape
  <2>. QED BY <1>1, <1>2, <1>3, <2>1, ShapesDrawn
<1>. HIDE DEF T
<1>7. \A k \in 1 .. n : s[k] \in Seq(Nat) /\ Len(s[k]) \in Nat /\ Len(s[k]) <= Len(T)
  BY <1>2, <1>4, ShapeFacts DEF Fits
<1>8. \A v \in Range(Ins(t)) : \E k \in 1 .. n : v = Ins(t)[k]
  BY <1>1 DEF Range
<1>9. rank = Len(T)
  <2> DEFINE S == {Len(v.shape) : v \in Range(Ins(t))}
  <2>1. \A x \in S : \E k \in 1 .. n : x = Len(s[k])
    BY <1>2, <1>8
  <2>2. \A k \in 1 .. n : Len(s[k]) \in S
    BY <1>1, <1>2
  <2>. HIDE DEF S
  <2>3. S \in SUBSET Nat /\ \A x \in S : x <= Len(T)
    BY <1>7, <2>1
  <2>4. Len(T) \in S
    <3>1. CASE Len(T) = 0
      <4>1. Len(s[1]) = 0
        BY <1>1, <1>7, <3>1
      <4>. QED BY <1>1, <2>2, <3>1, <4>1
    <3>2. CASE Len(T) # 0
      <4>1. PICK k \in 1 .. n : Len(s[k]) = Len(T)
        BY <1>6, <3>2 DEF Drawn
      <4>. QED BY <2>2, <4>1
    <3>. QED BY <3>1, <3>2
  <2>5. Max(S) = Len(T)
    BY <2>3, <2>4, GreatestIs
  <2>. QED BY <2>5 DEF CommonRank, S
<1>10. ASSUME NEW i \in 1 .. Len(T)
       PROVE  Extents(t, i, Len(T)) = IF T[i] = 1 THEN {} ELSE {T[i]}
  <2> DEFINE E == {v.shape[i - Len(T) + Len(v.shape)] :
                     v \in {w \in Range(Ins(t)) : i - Len(T) + Len(w.shape) >= 1}}
  <2>1. ASSUME NEW x \in E PROVE x = 1 \/ x = T[i]
    <3>1. PICK v \in Range(Ins(t)) : /\ i - Len(T) + Len(v.shape) >= 1
                                     /\ x = v.shape[i - Len(T) + Len(v.shape)]
      OBVIOUS
    <3>2. PICK k \in 1 .. n : v = Ins(t)[k]
      BY <1>8
    <3> DEFINE z == s[k]
               j == i - Len(T) + Len(z)
    <3>3. v.shape = z
      BY <1>2, <3>2
    <3>4. j \in 1 .. Len(z) /\ Len(T) - Len(z) + j = i
      <4>1. Len(z) \in Nat /\ Len(z) <= Len(T)
        BY <1>7
      <4>. HIDE DEF z
      <4>2. i - Len(T) + Len(z) >= 1
        BY <3>1, <3>3
      <4>. QED BY <1>5, <4>1, <4>2
    <3>5. z[j] = 1 \/ z[j] = T[i]
      BY <1>4, <3>4 DEF Fits
    <3>. QED BY <3>1, <3>3, <3>5
  <2>2. ASSUME T[i] # 1 PROVE T[i] \in E
    <3>1. PICK k \in 1 .. n : Gives(s[k], T, i)
      BY <1>6 DEF Drawn
    <3> DEFINE v == Ins(t)[k]
    <3>2. v \in Range(Ins(t)) /\ v.shape = s[k]
      BY <1>1, <1>2
    <3>. HIDE DEF v
    <3>3. i - Len(T) + Len(v.shape) >= 1 /\ v.shape[i - Len(T) + Len(v.shape)] = T[i]
      <4>1. Len(T) - Len(s[k]) < i /\ s[k][i - Len(T) + Len(s[k])] = T[i]
        BY <3>1 DEF Gives
      <4>2. i - Len(T) + Len(s[k]) >= 1
        BY <1>5, <1>7, <4>1
      <4>. QED BY <3>2, <4>1, <4>2
    <3>. QED BY <3>2, <3>3
  <2>3. Extents(t, i, Len(T)) = E \ {1}
    BY DEF Extents
  <2>. HIDE DEF E
  <2>. QED BY <2>1, <2>2, <2>3
<1>11. Compatible(t)
  <2>1. ASSUME NEW i \in 1 .. Len(T) PROVE Cardinality(Extents(t, i, Len(T))) <= 1
    <3>1. Cardinality({}) = 0 /\ Cardinality({T[i]}) = 1
      BY FS_EmptySet, FS_Singleton
    <3>2. Cardinality(Extents(t, i, Len(T))) \in {0, 1}
      BY <1>10, <3>1
    <3>. QED BY <3>2
  <2>. QED BY <1>9, <2>1 DEF Compatible
<1>12. ASSUME NEW i \in 1 .. Len(T)
       PROVE  Max(Extents(t, i, Len(T)) \cup IF Extents(t, i, Len(T)) = {} THEN {1} ELSE {})
                = T[i]
  <2> DEFINE E == Extents(t, i, Len(T))
             S == E \cup IF E = {} THEN {1} ELSE {}
  <2>1. S = {T[i]}
    <3>1. E = IF T[i] = 1 THEN {} ELSE {T[i]}
      BY <1>10
    <3>. HIDE DEF E
    <3>. QED BY <3>1
  <2>2. {T[i]} \in SUBSET Nat /\ T[i] \in {T[i]} /\ \A x \in {T[i]} : x <= T[i]
    BY <1>5
  <2>. HIDE DEF S
  <2>3. Max(S) = T[i]
    BY <2>1, <2>2, GreatestIs
  <2>. QED BY <2>3 DEF S
<1>13. CommonShape(t) = T
  <2> DEFINE S(i) == Max(Extents(t, i, Len(T))
                           \cup IF Extents(t, i, Len(T)) = {} THEN {1} ELSE {})
  <2>1. CommonShape(t) = [i \in 1 .. Len(T) |-> S(i)]
    BY <1>9 DEF CommonShape
  <2>2. \A i \in 1 .. Len(T) : S(i) = T[i]
    BY <1>12
  <2>. HIDE DEF S
  <2>3. [i \in 1 .. Len(T) |-> S(i)] = [i \in 1 .. Len(T) |-> T[i]]
    BY <2>2
  <2>. QED BY <1>5, <2>1, <2>3
<1>. QED BY <1>11, <1>13 DEF T
-----------------------------------------------------------------------------
(***************************************************************************)
(* PointwiseDynamic: the two ways into a storage agree                     *)
(***************************************************************************)
LEMMA Distributed ==
  ASSUME NEW a \in Nat, NEW b \in Nat, NEW c \in Nat, NEW d \in Nat
  PROVE  (a * b + d) * c = a * (b * c) + d * c
OBVIOUS

\* The elements of a contiguous view lie in the order of their multi-indices.
LEMMA ContiguousAddr ==
  ASSUME NEW v, IsView(v), is_contiguous(v), NEW o \in 0 .. volume(v.shape) - 1
  PROVE  Addr(v.stride, Digits(Len(v.shape), v.shape, Behind(v.shape), o)) = o
<1> DEFINE s == v.shape
           n == Len(s)
           V == Behind(s)
           m == Digits(n, s, V, o)
           t == [i \in 1 .. n |-> v.stride[i] * m[i]]
<1>1. /\ n \in Nat /\ s \in [1 .. n -> Nat] /\ v.stride \in [1 .. n -> Nat]
      /\ s \in Seq(Nat) /\ volume(s) \in Nat /\ o \in Nat /\ volume(s) # 0 /\ o < volume(s)
  BY ViewFacts
<1>2. Weights(n, s, V) /\ V[0] = volume(s)
  BY <1>1, BehindWeights
<1>3. ASSUME NEW i \in 1 .. n PROVE s[i] # 0
  <2>1. i \in 0 .. n /\ i # 0
    BY <1>1
  <2>. QED BY <1>1, <1>2, <2>1, PositiveWeights
<1>4. /\ V \in [0 .. n -> Nat] /\ V[n] = 1
      /\ \A i \in 1 .. n : V[i - 1] = s[i] * V[i]
  BY <1>2 DEF Weights
<1>5. ASSUME NEW i \in 1 .. n
      PROVE  /\ Left(V, o, i) = Left(V, o, i - 1) * s[i] + m[i]
             /\ m[i] \in 0 .. s[i] - 1 /\ m[i] \in Nat
             /\ Left(V, o, i) \in Nat /\ Left(V, o, i - 1) \in Nat
  <2>1. /\ Left(V, o, i) = Left(V, o, i - 1) * s[i] + m[i]
        /\ m[i] \in 0 .. s[i] - 1
        /\ Left(V, o, i) \in Nat /\ Left(V, o, i - 1) \in Nat
    BY <1>1, <1>2, NextDigit
  <2>2. s[i] \in Nat
    BY <1>1
  <2>. HIDE DEF m
  <2>. QED BY <2>1, <2>2
<1>6. m \in [1 .. n -> Nat]
  <2>1. m = [i \in 1 .. n |-> m[i]]
    BY DEF Digits
  <2>. HIDE DEF m
  <2>. QED BY <1>5, <2>1
<1>7. ASSUME NEW i \in 1 .. n, s[i] # 1 PROVE v.stride[i] = V[i]
  <2>1. v.stride[i] = c_contiguous_stride(s)[i]
    BY <1>3, <1>7 DEF is_contiguous
  <2>2. c_contiguous_stride(s)[i] = V[i]
    BY <1>1, <1>3, DenseStride
  <2>. QED BY <2>1, <2>2
<1>. HIDE DEF m
<1>8. ASSUME NEW i \in 1 .. n PROVE t[i] = m[i] * V[i]
  <2>0. v.stride[i] \in Nat /\ V[i] \in Nat /\ s[i] \in Nat /\ t[i] = v.stride[i] * m[i]
    <3>1. i \in 0 .. n
      BY <1>1
    <3>. QED BY <1>1, <1>4, <3>1
  <2>1. CASE s[i] = 1
    <3>1. m[i] = 0
      BY <1>5, <2>1
    <3>. HIDE DEF t, V
    <3>. QED BY <2>0, <3>1
  <2>2. CASE s[i] # 1
    <3>1. v.stride[i] = V[i] /\ m[i] \in Nat
      BY <1>5, <1>7, <2>2
    <3>. HIDE DEF t, V
    <3>. QED BY <2>0, <3>1
  <2>. QED BY <2>1, <2>2
<1>9. PICK p \in Partials("sum", t, n) : Addr(v.stride, m) = p[n]
  <2>1. v.stride \in [1 .. n -> Int] /\ m \in [1 .. n -> Int]
    BY <1>1, <1>6
  <2>. HIDE DEF n
  <2>. QED BY <1>1, <2>1, AddrIs
<1>10. p[0] = 0 /\ \A k \in 1 .. n : p[k] = p[k - 1] + t[k]
  BY <1>9 DEF Partials, Combined, Neutral
<1>. HIDE DEF t, V
<1> DEFINE T == {k \in Nat : k <= n /\ p[k] # Left(V, o, k) * V[k]}
<1>11. T = {}
  <2> SUFFICES ASSUME T # {} PROVE FALSE
    OBVIOUS
  <2>1. PICK k \in T : \A j \in T : k <= j
    <3>1. T \in SUBSET Nat
      OBVIOUS
    <3>. HIDE DEF T
    <3>. QED BY <3>1, LeastNat
  <2>2. k \in Nat /\ k <= n /\ p[k] # Left(V, o, k) * V[k]
    OBVIOUS
  <2>3. k # 0
    <3> DEFINE b == V[0]
    <3>1. b \in Nat \ {0} /\ o < b /\ o \in Nat
      BY <1>1, <1>2
    <3>. HIDE DEF b
    <3>2. o \div b = 0 /\ 0 * b = 0
      BY <3>1
    <3>3. Left(V, o, 0) * V[0] = 0
      BY <3>2 DEF Left, b
    <3>. QED BY <1>10, <2>2, <3>3
  <2>4. /\ k \in 1 .. n /\ k - 1 \in Nat /\ k - 1 <= n /\ ~(k <= k - 1)
        /\ k \in 0 .. n /\ k - 1 \in 0 .. n
    BY <1>1, <2>2, <2>3
  <2> DEFINE a == Left(V, o, k - 1)
             b == s[k]
             c == V[k]
             d == m[k]
  <2>5. p[k - 1] = a * V[k - 1]
    <3>1. k - 1 \notin T
      <4>. HIDE DEF T
      <4>. QED BY <2>1, <2>4
    <3>. QED BY <2>4, <3>1
  <2>6. V[k - 1] = b * c /\ p[k] = p[k - 1] + d * c /\ Left(V, o, k) = a * b + d
    BY <1>4, <1>5, <1>8, <1>10, <2>4
  <2>7. a \in Nat /\ b \in Nat /\ c \in Nat /\ d \in Nat
    BY <1>1, <1>4, <1>5, <2>4
  <2>. HIDE DEF T, a, b, c, d
  <2>8. p[k] = (a * b + d) * c
    BY <2>5, <2>6, <2>7, Distributed
  <2>. QED BY <2>2, <2>6, <2>8 DEF c
<1>12. p[n] = Left(V, o, n) * V[n]
  <2>1. n \notin T
    <3>. HIDE DEF T
    <3>. QED BY <1>11
  <2>. QED BY <1>1, <2>1
<1>13. Left(V, o, n) * V[n] = o
  <2>1. (o \div 1) * 1 = o
    BY <1>1
  <2>. QED BY <1>4, <2>1 DEF Left
<1>. QED BY <1>9, <1>12, <1>13 DEF m, V

\* Its elements and its offsets are one to one.
LEMMA ContiguousPlaces ==
  ASSUME NEW v, IsView(v), is_contiguous(v), volume(v.shape) # 0
  PROVE  \A m \in Indices(v.shape) : \E o \in 0 .. volume(v.shape) - 1 :
           m = Digits(Len(v.shape), v.shape, Behind(v.shape), o) /\ Addr(v.stride, m) = o
<1> DEFINE s == v.shape
           n == Len(s)
<1>1. s \in Seq(Nat)
  BY ViewFacts
<1>2. Weights(n, s, Behind(s)) /\ Behind(s)[0] = volume(s)
  BY <1>1, BehindWeights
<1>3. ASSUME NEW m \in Indices(s)
      PROVE  \E o \in 0 .. volume(s) - 1 :
               m = Digits(n, s, Behind(s), o) /\ Addr(v.stride, m) = o
  <2>1. m \in MultiIndices(n, s)
    BY <1>1, IndicesAre
  <2>2. PICK o \in 0 .. volume(s) - 1 : Digits(n, s, Behind(s), o) = m
    BY <1>2, <2>1, DigitsReach
  <2>3. Addr(v.stride, m) = o
    BY <2>2, ContiguousAddr
  <2>. QED BY <2>2, <2>3
<1>. QED BY <1>3

\* On the fast path all buffers are contiguous, or all are dense with the same
\* strides; an output that is allocated takes after an operand.
LEMMA FastViews ==
  ASSUME NEW t, HasCall(t), ~Raises(t), fast_path_allowed(t)
  PROVE  \/ \A k \in 1 .. Arity(t) + 1 : is_contiguous(Buffer(t, k))
         \/ \A k \in 1 .. Arity(t) + 1 :
              /\ Buffer(t, k).stride = OutView(t).stride
              /\ is_non_overlapping_and_dense(Buffer(t, k))
<1> DEFINE n == Arity(t)
           fit == {k \in 1 .. n : Ins(t)[k].shape = task_shape(t)}
<1>1. /\ n \in Nat \ {0} /\ 1 \in 1 .. n
      /\ \A k \in 1 .. n : IsView(Ins(t)[k]) /\ Ins(t)[k] \in Tensors(t)
  BY InsFacts
<1>2. \A k \in 1 .. n + 1 : Buffer(t, k) = OutView(t)
                               \/ (k \in 1 .. n /\ Buffer(t, k) = Ins(t)[k])
  BY <1>1 DEF Buffer
<1>3. CASE OutGiven(t)
  <2>1. OutView(t) \in Tensors(t)
    BY <1>3, InsFacts DEF OutView
  <2>2. \A k \in 1 .. n + 1 : Buffer(t, k) \in Tensors(t)
    BY <1>1, <1>2, <2>1
  <2>. QED BY <2>1, <2>2 DEF fast_path_allowed, use_fast_path, all_c_contiguous, all_the_same_stride
<1>4. CASE ~OutGiven(t)
  <2>1. \A k \in 1 .. n : Ins(t)[k].shape = task_shape(t)
    BY <1>1, TaskShape
  <2>2. 1 \in fit /\ fit \in SUBSET Nat
    BY <1>1, <2>1
  <2>3. Min(fit) \in fit
    <3>. HIDE DEF fit
    <3>1. \E k \in fit : \A m \in fit : k <= m
      BY <2>2, LeastNat
    <3>. QED BY <3>1, Zenon DEF Min
  <2> DEFINE v == Ins(t)[Min(fit)]
  <2>4. IsView(v) /\ v \in Tensors(t)
    BY <1>1, <2>3
  <2>5. OutView(t) = empty_like(v)
    <3>1. OutView(t) = Allocated(t) /\ fit # {}
      BY <1>4, <2>2 DEF OutView
    <3>. QED BY <3>1 DEF Allocated
  <2>. HIDE DEF v, fit
  <2>6. CASE all_c_contiguous(Tensors(t))
    <3>1. is_contiguous(empty_like(v))
      <4>1. is_contiguous(v) /\ v.shape \in Seq(Nat)
        BY <2>4, <2>6 DEF all_c_contiguous, IsView
      <4>. QED BY <4>1, DenseView DEF empty_like
    <3>. QED BY <1>1, <1>2, <2>5, <2>6, <3>1 DEF all_c_contiguous
  <2>7. CASE ~all_c_contiguous(Tensors(t))
    <3>1. /\ all_the_same_stride(Tensors(t))
          /\ \A w \in Tensors(t) : is_non_overlapping_and_dense(w)
      BY <2>7 DEF fast_path_allowed, use_fast_path
    <3>2. OutView(t) = v
      BY <2>4, <2>5, <3>1 DEF empty_like
    <3>3. \A k \in 1 .. n + 1 : Buffer(t, k) \in Tensors(t)
      BY <1>1, <1>2, <2>4, <3>2
    <3>. QED BY <2>4, <3>1, <3>2, <3>3 DEF all_the_same_stride
  <2>. QED BY <2>6, <2>7
<1>. QED BY <1>3, <1>4

\* There an offset of the task is an element that has this address in every
\* storage.
LEMMA FastPlaces ==
  ASSUME NEW t, HasCall(t), ~Raises(t), fast_path_allowed(t),
         NEW T, T = task_shape(t), volume(T) # 0
  PROVE  /\ \A o \in 0 .. volume(T) - 1 : \E m \in Indices(T) :
              \A k \in 1 .. Arity(t) + 1 : Addr(Buffer(t, k).stride, m) = o
         /\ \A m \in Indices(T) : Addr(OutView(t).stride, m) \in 0 .. volume(T) - 1
<1> DEFINE n == Arity(t)
<1>1. n \in Nat \ {0} /\ n + 1 \in 1 .. n + 1
  BY InsFacts
<1>2. /\ \A k \in 1 .. n + 1 : IsView(Buffer(t, k)) /\ Buffer(t, k).shape = T
      /\ OutView(t) = Buffer(t, n + 1)
  BY BufferFacts DEF Buffer
<1>3. T \in Seq(Nat)
  BY TaskShape
<1>4. CASE \A k \in 1 .. n + 1 : is_contiguous(Buffer(t, k))
  <2>1. ASSUME NEW o \in 0 .. volume(T) - 1
        PROVE  \E m \in Indices(T) :
                 \A k \in 1 .. n + 1 : Addr(Buffer(t, k).stride, m) = o
    <3> DEFINE m == Digits(Len(T), T, Behind(T), o)
    <3>1. m \in Indices(T)
      BY <1>3, UnravelIs
    <3>. HIDE DEF n
    <3>2. ASSUME NEW k \in 1 .. n + 1 PROVE Addr(Buffer(t, k).stride, m) = o
      BY <1>2, <1>4, ContiguousAddr
    <3>. QED BY <3>1, <3>2
  <2>2. ASSUME NEW m \in Indices(T)
        PROVE  Addr(OutView(t).stride, m) \in 0 .. volume(T) - 1
    <3>1. IsView(OutView(t)) /\ is_contiguous(OutView(t)) /\ OutView(t).shape = T
      BY <1>1, <1>2, <1>4
    <3>. QED BY <3>1, ContiguousPlaces
  <2>. QED BY <2>1, <2>2
<1>5. CASE \A k \in 1 .. n + 1 : /\ Buffer(t, k).stride = OutView(t).stride
                                 /\ is_non_overlapping_and_dense(Buffer(t, k))
  <2>1. Addrs(OutView(t)) = 0 .. volume(T) - 1 /\ OutView(t).shape = T
    BY <1>1, <1>2, <1>5 DEF is_non_overlapping_and_dense
  <2>2. Addrs(OutView(t)) = {Addr(OutView(t).stride, m) : m \in Indices(T)}
    BY <2>1 DEF Addrs
  <2>. QED BY <1>5, <2>1, <2>2
<1>. QED BY <1>4, <1>5, FastViews

LEMMA ShownSelf ==
  ASSUME NEW T \in Seq(Nat), NEW index \in Indices(T)
  PROVE  Shown(T, T, index) = index /\ Len(index) = Len(T) /\ Fits(T, T)
<1> DEFINE n == Len(T)
<1>1. n \in Nat /\ T \in [1 .. n -> Nat]
  BY ShapeFacts
<1>2. index \in [1 .. n -> Nat] /\ \A i \in 1 .. n : index[i] < T[i]
  BY IndicesAre DEF MultiIndices
<1>3. Len(index) = n
  BY <1>1, <1>2, ShapeFacts
<1>4. ASSUME NEW i \in 1 .. n
      PROVE  n - n + i = i /\ (IF T[i] = 1 THEN 0 ELSE index[n - n + i]) = index[i]
  <2>1. n - n + i = i
    BY <1>1
  <2>2. T[i] = 1 => index[i] = 0
    BY <1>2
  <2>. QED BY <2>1, <2>2
<1>5. Shown(T, T, index) = [i \in 1 .. n |-> index[i]]
  BY <1>4 DEF Shown
<1>6. index = [i \in 1 .. n |-> index[i]]
  BY <1>2
<1>7. Fits(T, T)
  BY <1>1, <1>4 DEF Fits
<1>. QED BY <1>3, <1>5, <1>6, <1>7

\* Broadcasting pairs an index of the result with what the operand shows there.
LEMMA OperandIs ==
  ASSUME NEW t, HasCall(t), ~Raises(t), NEW k \in 1 .. Arity(t),
         NEW index \in Indices(task_shape(t))
  PROVE  Operand(t, k, index)
           = <<k, Addr(Ins(t)[k].stride, Shown(Ins(t)[k].shape, task_shape(t), index))>>
<1>1. task_shape(t) \in Seq(Nat)
  BY TaskShape
<1>2. Len(index) = Len(task_shape(t))
  BY <1>1, ShownSelf
<1>. QED BY <1>2 DEF Operand, Shown

\* What a program stores for an index of the task space: the operands'
\* elements it finds there.
Source(t, index) == [k \in 1 .. Arity(t) |-> <<k, Slot(t, k, index)>>]

\* The task space and the result have the same elements.
LEMMA ResultsMatch ==
  ASSUME NEW t, HasCall(t), ~Raises(t), task[t] = Prepared(t), num_tasks(t) # 0
  PROVE  /\ \A i \in Indices(task[t].shape) :
              <<Slot(t, Arity(t) + 1, i), Source(t, i)>> \in Result(t)
         /\ \A r \in Result(t) : \E i \in Indices(task[t].shape) :
              Slot(t, Arity(t) + 1, i) = r[1]
<1> DEFINE n == Arity(t)
           T == task_shape(t)
           At(m) == <<Addr(OutView(t).stride, m), [k \in 1 .. n |-> Operand(t, k, m)]>>
<1>1. T \in Seq(Nat) /\ n \in Nat \ {0} /\ n + 1 \in 1 .. n + 1
  BY TaskShape, InsFacts
<1>2. Result(t) = {At(m) : m \in Indices(T)}
  BY CommonFacts DEF Result
<1>3. /\ OutView(t) = Buffer(t, n + 1)
      /\ \A k \in 1 .. n : k \in 1 .. n + 1 /\ Buffer(t, k) = Ins(t)[k]
  BY <1>1 DEF Buffer
<1>4. ASSUME NEW m \in Indices(T) PROVE Shown(T, T, m) = m
  BY <1>1, ShownSelf
<1>5. OutView(t).shape = T
  BY OutFacts
<1>6. CASE fast_path_allowed(t)
  <2> DEFINE total == volume(T)
  <2>1. total # 0
    BY <1>6, FastSlots
  <2>2. /\ \A o \in 0 .. total - 1 : \E m \in Indices(T) :
             \A k \in 1 .. n + 1 : Addr(Buffer(t, k).stride, m) = o
        /\ \A m \in Indices(T) : Addr(OutView(t).stride, m) \in 0 .. total - 1
    BY <1>6, <2>1, FastPlaces
  <2>3. \A k \in 1 .. n + 1 : Buffer(t, k).shape = T
    BY <1>6, BufferFacts
  <2>4. ASSUME NEW i \in Indices(task[t].shape)
        PROVE  <<Slot(t, n + 1, i), Source(t, i)>> \in Result(t)
    <3>1. i[1] \in 0 .. total - 1 /\ \A k \in 1 .. n + 1 : Slot(t, k, i) = i[1]
      BY <1>6, FastSlots
    <3>. HIDE DEF total, T, n
    <3>2. PICK m \in Indices(T) : \A k \in 1 .. n + 1 : Addr(Buffer(t, k).stride, m) = i[1]
      BY <2>2, <3>1
    <3>3. ASSUME NEW k \in 1 .. n PROVE Operand(t, k, m) = <<k, Slot(t, k, i)>>
      <4>1. Operand(t, k, m) = <<k, Addr(Ins(t)[k].stride, Shown(Ins(t)[k].shape, T, m))>>
        BY OperandIs DEF T, n
      <4>2. Shown(Ins(t)[k].shape, T, m) = m
        BY <1>3, <1>4, <2>3
      <4>. QED BY <1>3, <3>1, <3>2, <4>1, <4>2
    <3>4. Addr(OutView(t).stride, m) = Slot(t, n + 1, i)
      BY <1>1, <1>3, <3>1, <3>2
    <3>5. Source(t, i) = [k \in 1 .. n |-> Operand(t, k, m)]
      BY <3>3 DEF Source, n
    <3>6. At(m) = <<Slot(t, n + 1, i), Source(t, i)>>
      BY <3>4, <3>5
    <3>. QED BY <1>2, <3>6
  <2>5. ASSUME NEW r \in Result(t)
        PROVE  \E i \in Indices(task[t].shape) : Slot(t, n + 1, i) = r[1]
    <3>1. PICK m \in Indices(T) : r = At(m)
      BY <1>2
    <3> DEFINE o == Addr(OutView(t).stride, m)
               i == [j \in 1 .. 1 |-> o]
    <3>2. r[1] = o /\ o \in 0 .. total - 1 /\ total \in Nat
      BY <1>6, <2>2, <3>1, FastSlots
    <3>3. i \in Indices(<<total>>)
      <4>. HIDE DEF o, total
      <4>1. <<total>> \in Seq(Nat) /\ Len(<<total>>) = 1 /\ <<total>>[1] = total
        BY <3>2
      <4>2. i \in [1 .. 1 -> Nat] /\ \A j \in 1 .. 1 : i[j] < <<total>>[j]
        BY <3>2, <4>1
      <4>. HIDE DEF i
      <4>3. i \in MultiIndices(1, <<total>>)
        BY <4>2 DEF MultiIndices
      <4>. QED BY <4>1, <4>3, IndicesAre
    <3>4. i \in Indices(task[t].shape) /\ i[1] = o
      BY <1>6, <3>3, FastSlots
    <3>. HIDE DEF i, o
    <3>5. Slot(t, n + 1, i) = i[1]
      BY <1>1, <1>6, <3>4, FastSlots
    <3>. QED BY <3>2, <3>4, <3>5
  <2>. QED BY <2>4, <2>5
<1>7. CASE ~fast_path_allowed(t)
  <2>1. /\ task[t].shape = T
        /\ \A k \in 1 .. n + 1 : \A m \in Indices(T) :
             Slot(t, k, m) = Addr(Buffer(t, k).stride, Shown(Buffer(t, k).shape, T, m))
    BY <1>7, SlowSlots
  <2>2. ASSUME NEW m \in Indices(T) PROVE At(m) = <<Slot(t, n + 1, m), Source(t, m)>>
    <3>1. Slot(t, n + 1, m) = Addr(OutView(t).stride, m)
      BY <1>1, <1>3, <1>4, <1>5, <2>1
    <3>2. ASSUME NEW k \in 1 .. n PROVE Operand(t, k, m) = <<k, Slot(t, k, m)>>
      <4>1. Operand(t, k, m) = <<k, Addr(Ins(t)[k].stride, Shown(Ins(t)[k].shape, T, m))>>
        BY OperandIs
      <4>. QED BY <1>3, <2>1, <4>1
    <3>3. Source(t, m) = [k \in 1 .. n |-> Operand(t, k, m)]
      BY <3>2 DEF Source
    <3>. QED BY <3>1, <3>3
  <2>3. \A m \in Indices(T) : At(m)[1] = Slot(t, n + 1, m)
    BY <2>2
  <2>. QED BY <1>2, <2>1, <2>2, <2>3
<1>. QED BY <1>6, <1>7

\* In place, an element is stored where it was loaded from, and no other is.
LEMMA PlacesApart ==
  ASSUME NEW t, HasCall(t), ~Raises(t), task[t] = Prepared(t), num_tasks(t) # 0,
         Call(t).out = InPlace, Apart(Ins(t)[1])
  PROVE  \A i, j \in Indices(task[t].shape) :
           /\ Slot(t, 1, i) = Slot(t, Arity(t) + 1, i)
           /\ Slot(t, Arity(t) + 1, i) = Slot(t, Arity(t) + 1, j) => i = j
<1> DEFINE n == Arity(t)
           T == task_shape(t)
<1>1. T \in Seq(Nat) /\ n \in Nat \ {0} /\ n + 1 \in 1 .. n + 1 /\ 1 \in 1 .. n + 1 /\ 1 # n + 1
  BY TaskShape, InsFacts
<1>2. OutView(t) = Ins(t)[1] /\ Buffer(t, n + 1) = OutView(t) /\ Buffer(t, 1) = OutView(t)
  <2>1. <<-1>> # <<-2>>
    <3>1. <<-1>>[1] = -1 /\ <<-2>>[1] = -2
      OBVIOUS
    <3>. QED BY <3>1
  <2>2. OutGiven(t)
    BY <2>1 DEF OutGiven, NoOut, InPlace
  <2>3. OutView(t) = Ins(t)[1]
    BY <2>2 DEF OutView, GivenOut
  <2>. QED BY <1>1, <2>3 DEF Buffer
<1>3. CASE fast_path_allowed(t)
  <2>1. ASSUME NEW i \in Indices(task[t].shape)
        PROVE  /\ i \in [1 .. 1 -> Nat]
               /\ Slot(t, 1, i) = i[1] /\ Slot(t, n + 1, i) = i[1]
    BY <1>1, <1>3, FastSlots
  <2>2. ASSUME NEW i \in [1 .. 1 -> Nat], NEW j \in [1 .. 1 -> Nat], i[1] = j[1] PROVE i = j
    <3>1. \A k \in 1 .. 1 : i[k] = j[k]
      BY <2>2
    <3>. QED BY <3>1
  <2>. QED BY <2>1, <2>2
<1>4. CASE ~fast_path_allowed(t)
  <2>1. OutView(t).shape = T
    BY OutFacts
  <2>2. ASSUME NEW i \in Indices(T)
        PROVE  /\ Slot(t, 1, i) = Addr(Ins(t)[1].stride, i)
               /\ Slot(t, n + 1, i) = Addr(Ins(t)[1].stride, i)
    <3>1. Shown(T, T, i) = i
      BY <1>1, ShownSelf
    <3>. QED BY <1>1, <1>2, <1>4, <2>1, <3>1, SlowSlots
  <2>3. task[t].shape = T
    BY <1>4, SlowSlots
  <2>4. \A i, j \in Indices(T) :
          Addr(Ins(t)[1].stride, i) = Addr(Ins(t)[1].stride, j) => i = j
    BY <1>2, <2>1 DEF Apart
  <2>. QED BY <2>2, <2>3, <2>4
<1>. QED BY <1>3, <1>4
-----------------------------------------------------------------------------
(***************************************************************************)
(* PointwiseDynamic: the programs part the task space                      *)
(***************************************************************************)
\* The lanes of a tile are the multi-indices below its sizes.
LEMMA LanesAre ==
  ASSUME NEW t, Ready(t), NEW tile
  PROVE  Lanes(t, tile) =
           {[i \in 1 .. Len(TileSpace(t)) |->
               unravel_index(tile, tile_grid(t))[i] * tile_sizes(t)[i] + l[i]] :
              l \in MultiIndices(Len(TileSpace(t)), tile_sizes(t))}
<1> DEFINE n == Len(TileSpace(t))
           z == tile_sizes(t)
           top == Max(Range(z))
           lane == {f \in [1 .. n -> 0 .. top - 1] : \A i \in 1 .. n : f[i] < z[i]}
<1>1. n \in Nat /\ z \in Seq(Nat \ {0}) /\ Len(z) = n
  <2>1. n \in Nat
    BY TilesFacts, ShapeFacts
  <2>. QED BY <2>1, TilesFacts DEF Tiles
<1>2. Lanes(t, tile) =
        {[i \in 1 .. n |-> unravel_index(tile, tile_grid(t))[i] * z[i] + l[i]] : l \in lane}
  BY <1>1 DEF Lanes
<1>. HIDE DEF n, z
<1>3. ASSUME NEW i \in 1 .. n PROVE z[i] \in Nat \ {0} /\ top \in Nat /\ z[i] <= top
  <2>1. z \in Seq(Nat)
    BY <1>1
  <2> DEFINE high == Max({0} \cup {z[j] : j \in 1 .. Len(z)})
  <2>2. high \in Nat /\ \A j \in 1 .. Len(z) : z[j] <= high
    BY <2>1, ExtentsBounded
  <2>. HIDE DEF high
  <2>3. Range(z) = {z[j] : j \in 1 .. n}
    <3>1. DOMAIN z = 1 .. n
      BY <1>1
    <3>. QED BY <3>1 DEF Range
  <2>4. \A j \in 1 .. n : z[j] \in Nat \ {0}
    BY <1>1
  <2>5. Range(z) \in SUBSET Nat /\ Range(z) # {} /\ \A x \in Range(z) : x <= high
    BY <1>1, <2>2, <2>3, <2>4
  <2>6. Max(Range(z)) \in Nat /\ \A x \in Range(z) : x <= Max(Range(z))
    BY <2>2, <2>5, GreatestOf
  <2>. QED BY <2>3, <2>4, <2>6
<1>. HIDE DEF top
<1>4. ASSUME NEW f \in lane PROVE f \in MultiIndices(n, z)
  <2>1. f \in [1 .. n -> 0 .. top - 1] /\ \A i \in 1 .. n : f[i] < z[i]
    OBVIOUS
  <2>2. \A i \in 1 .. n : f[i] \in Nat
    BY <1>3, <2>1
  <2>3. f \in [1 .. n -> Nat]
    BY <2>1, <2>2
  <2>. QED BY <2>1, <2>3 DEF MultiIndices
<1>5. ASSUME NEW f \in MultiIndices(n, z) PROVE f \in lane
  <2>1. f \in [1 .. n -> Nat] /\ \A i \in 1 .. n : f[i] < z[i]
    BY DEF MultiIndices
  <2>2. \A i \in 1 .. n : f[i] \in 0 .. top - 1
    BY <1>3, <2>1
  <2>3. f \in [1 .. n -> 0 .. top - 1]
    BY <2>1, <2>2
  <2>. QED BY <2>1, <2>3
<1>6. lane = MultiIndices(n, z)
  <2>. HIDE DEF lane
  <2>. QED BY <1>4, <1>5
<1>. QED BY <1>2, <1>6 DEF n, z
-----------------------------------------------------------------------------
(***************************************************************************)
(* PointwiseDynamic: the tiles and the programs part the task space        *)
(***************************************************************************)
LEMMA DivBelow ==
  ASSUME NEW S \in Nat \ {0}, NEW b \in Nat \ {0}, NEW x \in Nat, x < S
  PROVE  x \div b \in Nat /\ x \div b < cdiv(S, b)
<1> DEFINE q == cdiv(S, b)
           e == x \div b
<1>1. q \in Nat /\ S <= q * b
  BY CdivFacts
<1>2. x = e * b + (x % b) /\ x % b \in 0 .. b - 1 /\ e \in Nat
  BY DivMod
<1>. HIDE DEF q, e
<1>3. e * b < q * b
  <2>1. e * b \in Nat /\ q * b \in Nat
    BY <1>1, <1>2
  <2>. QED BY <1>1, <1>2, <2>1
<1>4. e < q
  BY <1>1, <1>2, <1>3, FactorLess
<1>. QED BY <1>2, <1>4 DEF q, e

\* A place is in the tile its extents count up to.
LEMMA LaneOf ==
  ASSUME NEW t, Ready(t), NEW tile \in Nat, NEW place
  PROVE  /\ place \in Lanes(t, tile) => \A i \in 1 .. Len(TileSpace(t)) :
              unravel_index(tile, tile_grid(t))[i] = place[i] \div tile_sizes(t)[i]
         /\ (/\ place \in [1 .. Len(TileSpace(t)) -> Nat]
             /\ \A i \in 1 .. Len(TileSpace(t)) :
                  unravel_index(tile, tile_grid(t))[i] = place[i] \div tile_sizes(t)[i])
              => place \in Lanes(t, tile)
<1> DEFINE n == Len(TileSpace(t))
           z == tile_sizes(t)
           g == tile_grid(t)
           id == unravel_index(tile, g)
<1>1. /\ n \in Nat /\ z \in Seq(Nat \ {0}) /\ Len(z) = n
      /\ g \in Seq(Nat) /\ Len(g) = n /\ volume(g) # 0
  <2>1. n \in Nat
    BY TilesFacts, ShapeFacts
  <2>. QED BY <2>1, TilesFacts DEF Tiles, num_tiles
<1>2. Lanes(t, tile) = {[i \in 1 .. n |-> id[i] * z[i] + l[i]] : l \in MultiIndices(n, z)}
  BY LanesAre
<1>. HIDE DEF n, z, g
<1>3. \A i \in 1 .. n : z[i] \in Nat \ {0}
  BY <1>1
<1>4. \A i \in 1 .. n : id[i] \in Nat
  BY <1>1, UnravelNat
<1>. HIDE DEF id
<1>5. ASSUME place \in Lanes(t, tile), NEW i \in 1 .. n PROVE id[i] = place[i] \div z[i]
  <2>1. PICK l \in MultiIndices(n, z) : place = [j \in 1 .. n |-> id[j] * z[j] + l[j]]
    BY <1>2, <1>5
  <2> DEFINE a == id[i]
             b == z[i]
             c == l[i]
  <2>2. a \in Nat /\ b \in Nat \ {0} /\ c \in Nat /\ c < b
    BY <1>3, <1>4 DEF MultiIndices
  <2>3. place[i] = a * b + c
    BY <2>1
  <2>. HIDE DEF a, b, c
  <2>4. c \in 0 .. b - 1
    BY <2>2
  <2>5. (a * b + c) \div b = a
    BY <2>2, <2>4, DivUnique
  <2>. QED BY <2>3, <2>5 DEF a, b
<1>6. ASSUME place \in [1 .. n -> Nat], \A i \in 1 .. n : id[i] = place[i] \div z[i]
      PROVE  place \in Lanes(t, tile)
  <2> DEFINE l == [i \in 1 .. n |-> place[i] % z[i]]
  <2>1. ASSUME NEW i \in 1 .. n
        PROVE  l[i] \in Nat /\ l[i] < z[i] /\ place[i] = id[i] * z[i] + l[i]
    <3> DEFINE x == place[i]
               b == z[i]
    <3>1. x \in Nat /\ b \in Nat \ {0} /\ l[i] = x % b /\ id[i] = x \div b
      BY <1>3, <1>6
    <3>. HIDE DEF x, b, l
    <3>2. x = (x \div b) * b + (x % b) /\ x % b \in 0 .. b - 1
      BY <3>1, DivMod
    <3>3. x % b \in Nat /\ x % b < b
      BY <3>1, <3>2
    <3>. QED BY <3>1, <3>2, <3>3 DEF x, b
  <2>2. l \in MultiIndices(n, z)
    <3>1. l \in [1 .. n -> Nat]
      BY <2>1
    <3>. QED BY <2>1, <3>1 DEF MultiIndices
  <2>3. place = [i \in 1 .. n |-> id[i] * z[i] + l[i]]
    <3>. HIDE DEF l
    <3>1. place = [i \in 1 .. n |-> place[i]]
      BY <1>6
    <3>. QED BY <2>1, <3>1
  <2>. HIDE DEF l
  <2>. QED BY <1>2, <2>2, <2>3
<1>. QED BY <1>5, <1>6 DEF n, z, g, id

\* Each place below the extents is in one tile; beyond the last tile there is
\* none.
LEMMA TileOf ==
  ASSUME NEW t, Ready(t), NEW place \in Indices(TileSpace(t))
  PROVE  /\ \E tile \in 0 .. num_tiles(t) - 1 : place \in Lanes(t, tile)
         /\ Len(TileSpace(t)) # 0 =>
              \A a, b \in Nat : place \in Lanes(t, a) /\ place \in Lanes(t, b) => a = b
<1> DEFINE S == TileSpace(t)
           n == Len(S)
           z == tile_sizes(t)
           g == tile_grid(t)
           W == Behind(g)
<1>1. /\ S \in Seq(Nat) /\ n \in Nat /\ \A i \in 1 .. n : S[i] \in Nat \ {0}
      /\ z \in Seq(Nat \ {0}) /\ Len(z) = n
      /\ g \in Seq(Nat) /\ Len(g) = n /\ \A i \in 1 .. n : g[i] = cdiv(S[i], z[i])
      /\ num_tiles(t) = volume(g) /\ volume(g) \in Nat \ {0}
  <2>1. n \in Nat
    BY TilesFacts, ShapeFacts
  <2>. QED BY <2>1, TilesFacts DEF Tiles, num_tiles
<1>2. place \in [1 .. n -> Nat] /\ \A i \in 1 .. n : place[i] < S[i]
  BY <1>1, IndicesAre DEF MultiIndices
<1>3. Weights(n, g, W) /\ W[0] = volume(g)
  BY <1>1, BehindWeights
<1> DEFINE d == [i \in 1 .. n |-> place[i] \div z[i]]
<1>4. \A tile \in Nat : place \in Lanes(t, tile) <=>
        \A i \in 1 .. n : unravel_index(tile, g)[i] = d[i]
  BY <1>2, LaneOf
<1>. HIDE DEF S, n, z, g
<1>5. ASSUME NEW i \in 1 .. n PROVE d[i] \in Nat /\ d[i] < g[i]
  <2>1. S[i] \in Nat \ {0} /\ z[i] \in Nat \ {0} /\ place[i] \in Nat /\ place[i] < S[i]
    BY <1>1, <1>2
  <2>. QED BY <1>1, <2>1, DivBelow
<1>6. d \in MultiIndices(n, g)
  <2>1. d \in [1 .. n -> Nat]
    BY <1>5
  <2>. QED BY <1>5, <2>1 DEF MultiIndices
<1>. HIDE DEF d
<1>7. \E tile \in 0 .. num_tiles(t) - 1 : place \in Lanes(t, tile)
  <2>1. PICK tile \in 0 .. W[0] - 1 : Digits(n, g, W, tile) = d
    BY <1>3, <1>6, DigitsReach
  <2>2. tile \in 0 .. volume(g) - 1 /\ tile \in Nat
    BY <1>1, <1>3, <2>1
  <2>3. unravel_index(tile, g) = d
    BY <1>1, <2>1, <2>2, UnravelIs
  <2>4. place \in Lanes(t, tile)
    BY <1>4, <2>2, <2>3
  <2>. QED BY <1>1, <2>2, <2>4
<1>8. ASSUME n # 0, NEW tile \in Nat, place \in Lanes(t, tile)
      PROVE  tile \in 0 .. W[0] - 1 /\ Digits(n, g, W, tile) = d
  <2>1. \A i \in 1 .. n : unravel_index(tile, g)[i] = d[i]
    BY <1>4, <1>8
  <2>2. 1 \in 1 .. n /\ 0 \in 0 .. n /\ 1 \in 0 .. n
    BY <1>1, <1>8
  <2> DEFINE b == W[1]
             c == g[1]
             e == tile \div b
  <2>3. b \in Nat \ {0} /\ c \in Nat /\ W[0] = c * b /\ W[0] \in Nat
    <3>1. W \in [0 .. n -> Nat] /\ \A i \in 1 .. n : W[i - 1] = g[i] * W[i]
      BY <1>3 DEF Weights
    <3>2. 1 - 1 = 0
      OBVIOUS
    <3>3. b # 0
      BY <1>1, <1>3, <2>2, PositiveWeights
    <3>4. c \in Nat
      BY <1>1, <2>2
    <3>5. W[0] = c * b
      BY <2>2, <3>1, <3>2
    <3>. QED BY <2>2, <3>1, <3>3, <3>4, <3>5
  <2>4. e = d[1]
    <3>1. unravel_index(tile, g)[1] = tile \div volume(SubSeq(g, 1 + 1, Len(g)))
      BY <1>1, <2>2 DEF unravel_index
    <3>2. b = volume(SubSeq(g, 1 + 1, Len(g)))
      BY <1>1, <2>2 DEF Behind
    <3>. HIDE DEF b
    <3>. QED BY <2>1, <2>2, <3>1, <3>2
  <2>5. e < c /\ e \in Nat
    BY <1>5, <2>2, <2>4
  <2>6. tile < c * b
    <3>. HIDE DEF b, c
    <3>1. tile = e * b + (tile % b) /\ tile % b \in 0 .. b - 1
      BY <2>3, DivMod
    <3>. HIDE DEF e
    <3>2. e * b + b <= c * b
      BY <2>3, <2>5, TimesGrows
    <3>3. e * b \in Nat /\ c * b \in Nat
      BY <2>3, <2>5
    <3>. QED BY <2>3, <3>1, <3>2, <3>3
  <2>7. tile \in 0 .. W[0] - 1 /\ tile \in 0 .. volume(g) - 1
    <3>. HIDE DEF b, c
    <3>. QED BY <1>3, <2>3, <2>6
  <2>8. unravel_index(tile, g) = d
    <3>1. unravel_index(tile, g) = [i \in 1 .. n |-> unravel_index(tile, g)[i]]
      BY <1>1 DEF unravel_index
    <3>2. d = [i \in 1 .. n |-> d[i]]
      BY <1>6 DEF MultiIndices
    <3>. QED BY <2>1, <3>1, <3>2
  <2>9. Digits(n, g, W, tile) = d
    BY <1>1, <2>7, <2>8, UnravelIs
  <2>. QED BY <2>7, <2>9
<1>9. ASSUME n # 0, NEW a \in Nat, NEW b \in Nat, place \in Lanes(t, a), place \in Lanes(t, b)
      PROVE  a = b
  <2>1. /\ a \in 0 .. W[0] - 1 /\ b \in 0 .. W[0] - 1
        /\ Digits(n, g, W, a) = Digits(n, g, W, b)
    BY <1>8, <1>9
  <2>. QED BY <1>3, <2>1, DigitsUnique
<1>. QED BY <1>7, <1>9 DEF n, S

\* Each tile is one program's.
LEMMA ProgramOf ==
  ASSUME NEW t, Ready(t)
  PROVE  /\ \A tile \in 0 .. num_tiles(t) - 1 :
              \E pid \in Programs(t) : tile \in TilesOf(t, pid)
         /\ \A pid, q \in Programs(t) : TilesOf(t, pid) \cap TilesOf(t, q) # {} => pid = q
         /\ \A pid \in Programs(t) : TilesOf(t, pid) \subseteq Nat
<1> DEFINE m == num_tiles(t)
           c == num_ctas(t)
           per == tiles_per_cta(t)
<1>1. m \in Nat \ {0} /\ c \in Nat \ {0}
  BY TilesFacts
<1>2. per \in Nat /\ m <= per * c
  BY <1>1, CdivFacts DEF tiles_per_cta
<1>3. /\ Programs(t) = 0 .. c - 1
      /\ \A pid : TilesOf(t, pid) = {pid + j * c : j \in 0 .. per - 1}
  BY DEF Programs, TilesOf
<1>. HIDE DEF m, c, per
<1>4. ASSUME NEW tile \in 0 .. m - 1
      PROVE  \E pid \in Programs(t) : tile \in TilesOf(t, pid)
  <2> DEFINE j == tile \div c
             pid == tile % c
  <2>1. tile \in Nat /\ tile < m
    BY <1>1
  <2>2. tile = j * c + pid /\ pid \in 0 .. c - 1 /\ j \in Nat
    BY <1>1, <2>1, DivMod
  <2>. HIDE DEF j, pid
  <2>3. j * c < per * c
    <3>1. j * c \in Nat /\ per * c \in Nat
      BY <1>1, <1>2, <2>2
    <3>. QED BY <1>1, <1>2, <2>1, <2>2, <3>1
  <2>4. j < per
    BY <1>1, <1>2, <2>2, <2>3, FactorLess
  <2>5. j \in 0 .. per - 1
    BY <1>2, <2>2, <2>4
  <2>6. tile = pid + j * c
    <3>1. j * c \in Nat
      BY <1>1, <2>2
    <3>. QED BY <2>2, <3>1
  <2>. QED BY <1>3, <2>2, <2>5, <2>6
<1>5. ASSUME NEW pid \in Programs(t), NEW tile \in TilesOf(t, pid)
      PROVE  tile % c = pid /\ tile \in Nat
  <2>1. PICK j \in 0 .. per - 1 : tile = pid + j * c
    BY <1>3
  <2>2. pid \in 0 .. c - 1 /\ j \in Nat
    BY <1>2, <1>3, <2>1
  <2>3. (j * c + pid) % c = pid
    BY <1>1, <2>2, DivUnique
  <2>4. j * c \in Nat /\ pid \in Nat
    BY <1>1, <2>2
  <2>. QED BY <2>1, <2>3, <2>4
<1>6. ASSUME NEW pid \in Programs(t), NEW q \in Programs(t),
             TilesOf(t, pid) \cap TilesOf(t, q) # {}
      PROVE  pid = q
  <2>1. PICK tile : tile \in TilesOf(t, pid) /\ tile \in TilesOf(t, q)
    BY <1>6
  <2>. QED BY <1>5, <2>1
<1>. QED BY <1>4, <1>5, <1>6 DEF m

\* A task space without axes has one program.
LEMMA LonelyProgram ==
  ASSUME NEW t, Ready(t), Len(TileSpace(t)) = 0
  PROVE  \A pid, q \in Programs(t) : pid = q
<1> DEFINE g == tile_grid(t)
           a == module[t].sizes.max_grid_size
<1>1. g \in Seq(Nat) /\ Len(g) = 0
  BY TilesFacts
<1>. HIDE DEF g
<1>2. volume(g) = 1
  BY <1>1, BehindWeights DEF Weights
<1>3. num_ctas(t) = Min({a, 1}) /\ a \in Nat \ {0}
  BY <1>2 DEF num_ctas, num_tiles, Ready, g
<1>. HIDE DEF a
<1>4. num_ctas(t) = 1
  <2>1. Min({a, 1}) = IF a <= 1 THEN a ELSE 1
    BY <1>3, OfTwo
  <2>. QED BY <1>3, <2>1
<1>5. Programs(t) = 0 .. 0
  BY <1>4 DEF Programs
<1>. QED BY <1>5

\* The places of a program, masked.
PlacesOf(t, pid) ==
  {l \in UNION {Lanes(t, tile) : tile \in TilesOf(t, pid)} : Masked(t, l)}

LEMMA PlacesParted ==
  ASSUME NEW t, Ready(t)
  PROVE  /\ \A place \in Indices(TileSpace(t)) :
              \E pid \in Programs(t) : place \in PlacesOf(t, pid)
         /\ \A pid, q \in Programs(t) : \A place \in PlacesOf(t, pid) \cap PlacesOf(t, q) :
              pid = q
         /\ \A pid \in Programs(t) : PlacesOf(t, pid) \subseteq Indices(TileSpace(t))
<1> DEFINE S == TileSpace(t)
<1>1. S \in Seq(Nat)
  BY TilesFacts
<1>2. ASSUME NEW pid \in Programs(t), NEW place \in PlacesOf(t, pid)
      PROVE  place \in Indices(S)
  <2>1. PICK tile \in TilesOf(t, pid) : place \in Lanes(t, tile)
    BY DEF PlacesOf
  <2>2. place \in [1 .. Len(S) -> Nat]
    <3>1. tile \in Nat
      BY ProgramOf
    <3>. QED BY <2>1, <3>1, LanesNat
  <2>3. \A i \in 1 .. Len(S) : place[i] < S[i]
    BY DEF PlacesOf, Masked
  <2>. HIDE DEF S
  <2>. QED BY <1>1, <2>2, <2>3, IndicesAre DEF MultiIndices
<1>3. ASSUME NEW place \in Indices(S)
      PROVE  \E pid \in Programs(t) : place \in PlacesOf(t, pid)
  <2>1. PICK tile \in 0 .. num_tiles(t) - 1 : place \in Lanes(t, tile)
    BY TileOf
  <2>2. PICK pid \in Programs(t) : tile \in TilesOf(t, pid)
    BY ProgramOf
  <2>3. Masked(t, place)
    BY <1>1, IndicesAre DEF MultiIndices, Masked
  <2>. QED BY <2>1, <2>2, <2>3 DEF PlacesOf
<1>4. ASSUME NEW pid \in Programs(t), NEW q \in Programs(t),
             NEW place \in PlacesOf(t, pid) \cap PlacesOf(t, q)
      PROVE  pid = q
  <2>1. CASE Len(S) = 0
    BY <2>1, LonelyProgram
  <2>2. CASE Len(S) # 0
    <3>1. PICK a \in TilesOf(t, pid) : place \in Lanes(t, a)
      BY DEF PlacesOf
    <3>2. PICK b \in TilesOf(t, q) : place \in Lanes(t, b)
      BY DEF PlacesOf
    <3>3. a \in Nat /\ b \in Nat /\ place \in Indices(S)
      BY <1>2, ProgramOf
    <3>4. a = b
      BY <2>2, <3>1, <3>2, <3>3, TileOf
    <3>. QED BY <3>4, ProgramOf
  <2>. QED BY <2>1, <2>2
<1>. QED BY <1>2, <1>3, <1>4 DEF S

\* An index of the task space is an element of one program.
LEMMA ElementsParted ==
  ASSUME NEW t, Ready(t)
  PROVE  /\ \A i \in Indices(task[t].shape) : \E pid \in Programs(t) : i \in Elements(t, pid)
         /\ \A pid, q \in Programs(t) : \A i \in Elements(t, pid) \cap Elements(t, q) : pid = q
<1> DEFINE S == TileSpace(t)
           s == task[t].shape
           total == volume(s)
<1>1. \A pid : Elements(t, pid) =
        {IF module[t].tiles = "1d" THEN unravel_index(place[1], s) ELSE place :
           place \in PlacesOf(t, pid)}
  BY DEF Elements, PlacesOf
<1>2. s \in Seq(Nat) /\ S \in Seq(Nat) /\ total # 0
  BY TilesFacts DEF Ready, num_tasks
<1>3. CASE module[t].tiles # "1d"
  <2>1. S = s /\ \A pid : Elements(t, pid) = PlacesOf(t, pid)
    BY <1>1, <1>3 DEF TileSpace
  <2>. QED BY <2>1, PlacesParted
<1>4. CASE module[t].tiles = "1d"
  <2>1. S = <<total>> /\ \A pid : Elements(t, pid) = {unravel_index(place[1], s) :
                                                       place \in PlacesOf(t, pid)}
    BY <1>1, <1>4 DEF TileSpace, num_tasks
  <2>2. Len(S) = 1 /\ S[1] = total /\ total \in Nat
    BY <1>2, <2>1
  <2>. HIDE DEF S, total
  <2>3. Indices(S) = {p \in [1 .. 1 -> Nat] : p[1] < total}
    <3>1. Indices(S) = {p \in [1 .. 1 -> Nat] : \A i \in 1 .. 1 : p[i] < S[i]}
      BY <1>2, <2>2, IndicesAre DEF MultiIndices
    <3>. QED BY <2>2, <3>1
  <2>4. ASSUME NEW i \in Indices(s)
        PROVE  \E pid \in Programs(t) : i \in Elements(t, pid)
    <3>1. Weights(Len(s), s, Behind(s)) /\ Behind(s)[0] = total
      BY <1>2, BehindWeights DEF total
    <3>2. i \in MultiIndices(Len(s), s)
      BY <1>2, IndicesAre
    <3>3. PICK o \in 0 .. total - 1 : Digits(Len(s), s, Behind(s), o) = i
      BY <3>1, <3>2, DigitsReach
    <3>4. unravel_index(o, s) = i
      BY <1>2, <3>3, UnravelIs DEF total
    <3> DEFINE p == [j \in 1 .. 1 |-> o]
    <3>5. p \in Indices(S) /\ p[1] = o
      <4>1. o \in Nat /\ o < total
        BY <2>2
      <4>. QED BY <2>3, <4>1
    <3>. HIDE DEF p
    <3>6. PICK pid \in Programs(t) : p \in PlacesOf(t, pid)
      BY <3>5, PlacesParted DEF S
    <3>. QED BY <2>1, <3>4, <3>5, <3>6
  <2>5. ASSUME NEW pid \in Programs(t), NEW q \in Programs(t),
               NEW i \in Elements(t, pid) \cap Elements(t, q)
        PROVE  pid = q
    <3>1. PICK x \in PlacesOf(t, pid) : i = unravel_index(x[1], s)
      BY <2>1
    <3>2. PICK y \in PlacesOf(t, q) : i = unravel_index(y[1], s)
      BY <2>1
    <3>3. x \in Indices(S) /\ y \in Indices(S)
      BY PlacesParted DEF S
    <3>4. /\ x \in [1 .. 1 -> Nat] /\ y \in [1 .. 1 -> Nat]
          /\ x[1] \in 0 .. total - 1 /\ y[1] \in 0 .. total - 1
      BY <2>2, <2>3, <3>3
    <3>5. x[1] = y[1]
      <4>1. Weights(Len(s), s, Behind(s)) /\ Behind(s)[0] = total
        BY <1>2, BehindWeights DEF total
      <4>2. Digits(Len(s), s, Behind(s), x[1]) = Digits(Len(s), s, Behind(s), y[1])
        BY <1>2, <3>1, <3>2, <3>4, UnravelIs DEF total
      <4>. QED BY <3>4, <4>1, <4>2, DigitsUnique
    <3>6. x = y
      <4>1. \A j \in 1 .. 1 : x[j] = y[j]
        BY <3>5
      <4>. QED BY <3>4, <4>1
    <3>. QED BY <3>6, PlacesParted
  <2>. QED BY <2>4, <2>5
<1>. QED BY <1>3, <1>4
-----------------------------------------------------------------------------
(***************************************************************************)
(* PointwiseDynamic: what the storages hold                                *)
(***************************************************************************)
\* The indices whose elements have been stored.
Handled(t) == UNION {Elements(t, pid) : pid \in ran[t]}

\* A place holds what it held before the call, unless it is the output's of an
\* index that is done: then it holds what belongs there.
Stored(t) ==
  \A k \in 1 .. Arity(t) + 1 : \A a \in DOMAIN mem[t][k] :
    \/ /\ mem[t][k][a] = <<k, a>>
       /\ k = OutStorage(t) => \A i \in Handled(t) : Slot(t, Arity(t) + 1, i) # a
    \/ /\ k = OutStorage(t)
       /\ \E i \in Handled(t) :
            Slot(t, Arity(t) + 1, i) = a /\ mem[t][k][a] = Source(t, i)

Distinct(t) == Call(t).out = InPlace => Apart(Ins(t)[1])

ResultOK(t) ==
  /\ at[t] \in {"lookup", "load", "publish"} => ran[t] = {}
  /\ at[t] \in {"run", "returned"} => ran[t] \subseteq Programs(t)
  /\ at[t] = "returned" => num_tasks(t) = 0 \/ ran[t] = Programs(t)
  /\ at[t] \in {"lookup", "load", "publish", "run", "returned"} /\ Distinct(t)
       => Stored(t)

ResultInv == DOMAIN ran = Threads /\ \A t \in Threads : ResultOK(t)

LEMMA TaskKept ==
  ASSUME NEW t, plan'[t] = plan[t], task'[t] = task[t]
  PROVE  /\ Arity(t)' = Arity(t) /\ OutStorage(t)' = OutStorage(t)
         /\ num_tasks(t)' = num_tasks(t) /\ (Distinct(t)') = Distinct(t)
         /\ \A k, i : Slot(t, k, i)' = Slot(t, k, i)
         /\ \A i : Source(t, i)' = Source(t, i)
<1>1. Call(t)' = Call(t) /\ Arity(t)' = Arity(t)
  BY CallKept
<1>2. \A k, i : Slot(t, k, i)' = Slot(t, k, i)
  BY DEF Slot
<1>3. Ins(t)' = Ins(t)
  BY <1>1 DEF Ins
<1>. QED BY <1>1, <1>2, <1>3 DEF OutStorage, num_tasks, Distinct, Source

LEMMA ElementsKept ==
  ASSUME NEW t, task'[t] = task[t], module'[t] = module[t]
  PROVE  Programs(t)' = Programs(t) /\ \A pid : Elements(t, pid)' = Elements(t, pid)
<1>1. TileSpace(t)' = TileSpace(t)
  BY DEF TileSpace, num_tasks
<1>2. tile_sizes(t)' = tile_sizes(t)
  BY <1>1 DEF tile_sizes
<1>3. tile_grid(t)' = tile_grid(t)
  BY <1>1, <1>2 DEF tile_grid
<1>4. num_tiles(t)' = num_tiles(t)
  BY <1>3 DEF num_tiles
<1>5. num_ctas(t)' = num_ctas(t)
  BY <1>4 DEF num_ctas
<1>6. tiles_per_cta(t)' = tiles_per_cta(t)
  BY <1>4, <1>5 DEF tiles_per_cta
<1>7. \A pid : TilesOf(t, pid)' = TilesOf(t, pid)
  BY <1>5, <1>6 DEF TilesOf
<1>8. \A tile : Lanes(t, tile)' = Lanes(t, tile)
  BY <1>2, <1>3 DEF Lanes
<1>9. \A l : (Masked(t, l)') = Masked(t, l)
  BY <1>1 DEF Masked
<1>10. \A pid : PlacesOf(t, pid)' = PlacesOf(t, pid)
  BY <1>7, <1>8, <1>9 DEF PlacesOf
<1>11. Programs(t)' = Programs(t)
  BY <1>5 DEF Programs
<1>12. \A pid : Elements(t, pid) =
         {IF module[t].tiles = "1d" THEN unravel_index(place[1], task[t].shape) ELSE place :
            place \in PlacesOf(t, pid)}
  BY DEF Elements, PlacesOf
<1>13. \A pid : Elements(t, pid)' =
         {IF module'[t].tiles = "1d" THEN unravel_index(place[1], task'[t].shape) ELSE place :
            place \in PlacesOf(t, pid)'}
  BY DEF Elements, PlacesOf
<1>. QED BY <1>10, <1>11, <1>12, <1>13

\* What is stored stays so when nothing of the call changes, or nothing is done
\* before or after.
LEMMA StoredKept ==
  ASSUME NEW t, plan'[t] = plan[t], task'[t] = task[t], mem'[t] = mem[t],
         ran'[t] = ran[t], module'[t] = module[t] \/ ran[t] = {}, Stored(t)
  PROVE  Stored(t)'
<1>1. Handled(t)' = Handled(t)
  <2>1. CASE module'[t] = module[t]
    BY <2>1, ElementsKept DEF Handled
  <2>2. CASE ran[t] = {}
    BY <2>2 DEF Handled
  <2>. QED BY <2>1, <2>2
<1>. QED BY <1>1, TaskKept DEF Stored

LEMMA ResultKept ==
  ASSUME NEW t, ResultOK(t), plan'[t] = plan[t], at'[t] = at[t], task'[t] = task[t],
         module'[t] = module[t], mem'[t] = mem[t], ran'[t] = ran[t]
  PROVE  ResultOK(t)'
<1>1. Programs(t)' = Programs(t) /\ num_tasks(t)' = num_tasks(t) /\ (Distinct(t)') = Distinct(t)
  BY ElementsKept, TaskKept
<1>. QED BY <1>1, StoredKept DEF ResultOK

LEMMA OneResult ==
  ASSUME ResultInv, NEW t \in Threads, ResultOK(t)', DOMAIN ran' = Threads,
         \A u \in Threads \ {t} :
           /\ plan'[u] = plan[u] /\ at'[u] = at[u] /\ task'[u] = task[u]
           /\ module'[u] = module[u] /\ mem'[u] = mem[u] /\ ran'[u] = ran[u]
  PROVE  ResultInv'
<1>1. ASSUME NEW u \in Threads \ {t} PROVE ResultOK(u)'
  <2>1. ResultOK(u)
    BY DEF ResultInv
  <2>. QED BY <2>1, ResultKept
<1>2. \A u \in Threads : ResultOK(u)'
  BY <1>1
<1>. QED BY <1>2 DEF ResultInv

LEMMA PrepareResult ==
  ASSUME BoundsInv, ResultInv, NEW t \in Threads, Prepare(t)
  PROVE  ResultInv'
<1>0. Threaded /\ ThreadOK(t) /\ DOMAIN ran = Threads
  BY DEF BoundsInv, ResultInv
<1>1. /\ plan[t] # <<>> /\ at[t] = "idle" /\ UNCHANGED <<plan, module>>
      /\ at' = [at EXCEPT ![t] = IF Raises(t) THEN "raised" ELSE "lookup"]
      /\ mem' = [mem EXCEPT ![t] = IF Raises(t) \/ OutGiven(t) THEN Before(t)
                   ELSE Append(Before(t), Held(Arity(t) + 1, Allocated(t)))]
      /\ task' = [task EXCEPT ![t] = IF Raises(t) THEN Nothing ELSE Prepared(t)]
      /\ ran' = [ran EXCEPT ![t] = {}]
  BY DEF Prepare, Proceed
<1>2. HasCall(t)
  BY <1>0, <1>1, PlanFacts DEF ThreadOK
<1>3. DOMAIN ran' = Threads /\ ran'[t] = {}
  BY <1>0, <1>1
<1>4. ResultOK(t)'
  <2>1. CASE Raises(t)
    <3>1. at'[t] = "raised"
      BY <1>0, <1>1, <2>1 DEF Threaded
    <3>. QED BY <3>1 DEF ResultOK
  <2>2. CASE ~Raises(t)
    <3>1. at'[t] = "lookup"
      BY <1>0, <1>1, <2>2 DEF Threaded
    <3>2. mem'[t] = Begun(t)
      BY <1>0, <1>1, <2>2 DEF Threaded, Begun
    <3>3. Arity(t)' = Arity(t)
      BY <1>1, CallKept
    <3>4. \A k \in 1 .. Arity(t) + 1 : \A a \in DOMAIN mem'[t][k] : mem'[t][k][a] = <<k, a>>
      BY <1>2, <2>2, <3>2, StartFacts
    <3>5. Handled(t)' = {}
      BY <1>3 DEF Handled
    <3>6. Stored(t)'
      BY <3>3, <3>4, <3>5 DEF Stored
    <3>. QED BY <1>3, <3>1, <3>6 DEF ResultOK
  <2>. QED BY <2>1, <2>2
<1>5. \A u \in Threads \ {t} :
        /\ plan'[u] = plan[u] /\ at'[u] = at[u] /\ task'[u] = task[u]
        /\ module'[u] = module[u] /\ mem'[u] = mem[u] /\ ran'[u] = ran[u]
  BY <1>0, <1>1 DEF Threaded
<1>. QED BY <1>3, <1>4, <1>5, OneResult

\* Until a module has been found or loaded no program has run.
LEMMA ModuleResult ==
  ASSUME BoundsInv, ResultInv, NEW t \in Threads,
         Found(t) \/ Write(t) \/ Load(t) \/ Publish(t)
  PROVE  ResultInv'
<1>0. Threaded /\ DOMAIN ran = Threads /\ ResultOK(t)
  BY DEF BoundsInv, ResultInv
<1>1. /\ at[t] \in {"lookup", "load", "publish"}
      /\ UNCHANGED <<plan, task, mem, ran>>
      /\ \E to \in {"load", "publish", "run"} : at' = [at EXCEPT ![t] = to]
      /\ module' = module \/ \E x : module' = [module EXCEPT ![t] = x]
  <2>1. CASE Found(t)
    BY <2>1 DEF Found, Proceed
  <2>2. CASE Write(t)
    BY <2>2 DEF Write, Proceed
  <2>3. CASE Load(t)
    <3>1. \E x : module' = [module EXCEPT ![t] = x]
      BY <2>3 DEF Load
    <3>. QED BY <2>3, <3>1 DEF Load, Proceed
  <2>4. CASE Publish(t)
    BY <2>4 DEF Publish, Proceed
  <2>. QED BY <2>1, <2>2, <2>3, <2>4
<1>2. ran[t] = {} /\ ran'[t] = {}
  BY <1>0, <1>1 DEF ResultOK
<1>3. at'[t] \in {"load", "publish", "run"}
  BY <1>0, <1>1 DEF Threaded
<1>4. ASSUME Distinct(t)' PROVE Stored(t)'
  <2>1. Distinct(t)
    BY <1>1, <1>4, TaskKept
  <2>2. Stored(t)
    BY <1>0, <1>1, <2>1 DEF ResultOK
  <2>. QED BY <1>1, <1>2, <2>2, StoredKept
<1>5. ResultOK(t)'
  BY <1>2, <1>3, <1>4 DEF ResultOK
<1>6. \A u \in Threads \ {t} :
        /\ plan'[u] = plan[u] /\ at'[u] = at[u] /\ task'[u] = task[u]
        /\ module'[u] = module[u] /\ mem'[u] = mem[u] /\ ran'[u] = ran[u]
  BY <1>0, <1>1 DEF Threaded
<1>. QED BY <1>0, <1>1, <1>5, <1>6, OneResult

\* What is known of a thread whose programs run or have run.
LEMMA RunningFacts ==
  ASSUME BoundsInv, NEW t \in Threads, at[t] \in {"run", "returned"}
  PROVE  /\ HasCall(t) /\ ~Raises(t) /\ task[t] = Prepared(t) /\ Buffered(t)
         /\ num_tasks(t) # 0 => Ready(t)
<1>1. ThreadOK(t)
  BY DEF BoundsInv
<1>2. Buffered(t) /\ IsSizes(module[t].sizes) /\ plan[t] \in Seq(Jobs)
  BY <1>1 DEF ThreadOK
<1>3. HasCall(t) /\ ~Raises(t) /\ task[t] = Prepared(t)
  <2>1. plan[t] # <<>>
    BY <1>2 DEF Buffered
  <2>. QED BY <1>2, <2>1, PlanFacts DEF Buffered
<1>4. ASSUME num_tasks(t) # 0 PROVE Ready(t)
  <2>1. task[t].shape \in Seq(Nat)
    BY <1>3, <1>4, SlotsStored
  <2>. QED BY <1>2, <1>4, <2>1 DEF Ready, IsSizes
<1>. QED BY <1>2, <1>3, <1>4

\* A program finds the operands' elements: the only storage that changes is
\* the output's, and where it is an operand's too no other program has stored
\* to the places this one reads.
LEMMA OperandsFound ==
  ASSUME BoundsInv, NEW t \in Threads, at[t] = "run", num_tasks(t) # 0,
         ran[t] \subseteq Programs(t), Distinct(t), Stored(t),
         NEW pid \in Programs(t) \ ran[t], NEW i \in Elements(t, pid)
  PROVE  [k \in 1 .. Arity(t) |-> Loaded(t, k, i)] = Source(t, i)
<1> DEFINE n == Arity(t)
<1>1. /\ HasCall(t) /\ ~Raises(t) /\ task[t] = Prepared(t) /\ Buffered(t) /\ Ready(t)
  BY RunningFacts
<1>2. n \in Nat \ {0}
  BY <1>1, InsFacts
<1>3. i \in Indices(task[t].shape)
  BY <1>1, ElementsInside
<1>4. ASSUME NEW k \in 1 .. n PROVE Loaded(t, k, i) = <<k, Slot(t, k, i)>>
  <2> DEFINE a == Slot(t, k, i)
  <2>1. k \in 1 .. n + 1 /\ k # n + 1
    BY <1>2
  <2>2. a \in DOMAIN mem[t][k]
    BY <1>1, <1>3, <2>1, SlotsStored DEF Buffered
  <2>3. Loaded(t, k, i) = mem[t][k][a]
    BY <2>2 DEF Loaded
  <2>4. ASSUME k = OutStorage(t), NEW j \in Handled(t), Slot(t, n + 1, j) = a PROVE FALSE
    <3>1. Call(t).out = InPlace /\ k = 1
      BY <2>1, <2>4 DEF OutStorage
    <3>2. Apart(Ins(t)[1])
      BY <3>1 DEF Distinct
    <3>3. PICK q \in ran[t] : j \in Elements(t, q)
      BY DEF Handled
    <3>4. q \in Programs(t) /\ q # pid
      BY <3>3
    <3>5. j \in Indices(task[t].shape)
      BY <1>1, <3>3, <3>4, ElementsInside
    <3>6. Slot(t, 1, i) = Slot(t, n + 1, i)
      BY <1>1, <1>3, <3>1, <3>2, PlacesApart
    <3>7. i = j
      BY <1>1, <1>3, <2>4, <3>1, <3>2, <3>5, <3>6, PlacesApart
    <3>8. i \in Elements(t, pid) \cap Elements(t, q)
      BY <3>3, <3>7
    <3>. QED BY <1>1, <3>4, <3>8, ElementsParted
  <2>5. mem[t][k][a] = <<k, a>>
    <3>1. \/ mem[t][k][a] = <<k, a>>
          \/ k = OutStorage(t) /\ \E j \in Handled(t) : Slot(t, n + 1, j) = a
      BY <2>1, <2>2 DEF Stored
    <3>. QED BY <2>4, <3>1
  <2>. QED BY <2>3, <2>5
<1>. QED BY <1>4 DEF Source

LEMMA RunStored ==
  ASSUME BoundsInv, DOMAIN ran = Threads, NEW t \in Threads, num_tasks(t) > 0,
         NEW pid \in Programs(t), RunProgram(t, pid),
         ran[t] \subseteq Programs(t), Distinct(t), Stored(t)
  PROVE  Stored(t)'
<1> DEFINE n == Arity(t)
           store == OutStorage(t)
           results == {<<Slot(t, n + 1, i), [k \in 1 .. n |-> Loaded(t, k, i)]>> :
                         i \in Elements(t, pid)}
           New(a) == IF \E r \in results : r[1] = a
                       THEN (CHOOSE r \in results : r[1] = a)[2] ELSE mem[t][store][a]
<1>0. Threaded
  BY DEF BoundsInv
<1>1. /\ at[t] = "run" /\ UNCHANGED <<plan, at, task, module>>
      /\ pid \in Programs(t) \ ran[t] /\ ran' = [ran EXCEPT ![t] = @ \cup {pid}]
      /\ mem' = [mem EXCEPT ![t][store] =
           [a \in DOMAIN @ |->
              IF \E r \in results : r[1] = a
                THEN (CHOOSE r \in results : r[1] = a)[2] ELSE @[a]]]
  BY DEF RunProgram
<1>2. HasCall(t) /\ Buffered(t)
  BY <1>1, RunningFacts
<1>3. ASSUME NEW i \in Elements(t, pid)
      PROVE  [k \in 1 .. n |-> Loaded(t, k, i)] = Source(t, i)
  BY <1>1, OperandsFound
<1>4. store \in DOMAIN mem[t] /\ DOMAIN mem[t] = 1 .. n + 1
  BY <1>2, OutPlaces DEF Buffered
<1>5. ASSUME NEW r \in results
      PROVE  \E i \in Elements(t, pid) : r[1] = Slot(t, n + 1, i) /\ r[2] = Source(t, i)
  <2>1. PICK i \in Elements(t, pid) :
          r = <<Slot(t, n + 1, i), [k \in 1 .. n |-> Loaded(t, k, i)]>>
    OBVIOUS
  <2> DEFINE y == [k \in 1 .. n |-> Loaded(t, k, i)]
  <2>2. y = Source(t, i)
    BY <1>3
  <2>. HIDE DEF y
  <2>3. r[1] = Slot(t, n + 1, i) /\ r[2] = y
    BY <2>1 DEF y
  <2>. QED BY <2>2, <2>3
<1>6. ASSUME NEW i \in Elements(t, pid) PROVE \E r \in results : r[1] = Slot(t, n + 1, i)
  <2> DEFINE r == <<Slot(t, n + 1, i), [k \in 1 .. n |-> Loaded(t, k, i)]>>
  <2>1. r \in results /\ r[1] = Slot(t, n + 1, i)
    OBVIOUS
  <2>. QED BY <2>1
<1>. HIDE DEF results
<1>7. /\ mem'[t][store] = [a \in DOMAIN mem[t][store] |-> New(a)]
      /\ DOMAIN mem'[t] = DOMAIN mem[t]
      /\ \A k \in DOMAIN mem[t] : k # store => mem'[t][k] = mem[t][k]
  BY <1>0, <1>1, <1>4 DEF Threaded
<1>8. /\ Arity(t)' = n /\ OutStorage(t)' = store
      /\ \A k, i : Slot(t, k, i)' = Slot(t, k, i)
      /\ \A i : Source(t, i)' = Source(t, i)
  BY <1>1, TaskKept
<1>9. Handled(t)' = Handled(t) \cup Elements(t, pid)
  <2>1. ran'[t] = ran[t] \cup {pid}
    BY <1>1
  <2>2. \A q : Elements(t, q)' = Elements(t, q)
    BY <1>1, ElementsKept
  <2>. QED BY <2>1, <2>2 DEF Handled
<1>10. ASSUME NEW a \in DOMAIN mem[t][store]
       PROVE  \/ /\ New(a) = <<store, a>>
                 /\ \A i \in Handled(t)' : Slot(t, n + 1, i) # a
              \/ \E i \in Handled(t)' : Slot(t, n + 1, i) = a /\ New(a) = Source(t, i)
  <2>1. CASE \E r \in results : r[1] = a
    <3> DEFINE r == CHOOSE r \in results : r[1] = a
    <3>1. r \in results /\ r[1] = a
      BY <2>1
    <3>2. New(a) = r[2]
      BY <2>1
    <3>. HIDE DEF r, New
    <3>3. PICK i \in Elements(t, pid) : r[1] = Slot(t, n + 1, i) /\ r[2] = Source(t, i)
      BY <1>5, <3>1
    <3>. QED BY <1>9, <3>1, <3>2, <3>3
  <2>2. CASE ~\E r \in results : r[1] = a
    <3>1. New(a) = mem[t][store][a]
      BY <2>2
    <3>. HIDE DEF New
    <3>2. \A i \in Elements(t, pid) : Slot(t, n + 1, i) # a
      BY <1>6, <2>2
    <3>3. \/ /\ mem[t][store][a] = <<store, a>>
             /\ \A i \in Handled(t) : Slot(t, n + 1, i) # a
          \/ \E i \in Handled(t) : Slot(t, n + 1, i) = a /\ mem[t][store][a] = Source(t, i)
      BY <1>4 DEF Stored
    <3>. QED BY <1>9, <3>1, <3>2, <3>3
  <2>. QED BY <2>1, <2>2
<1>. HIDE DEF New
<1>11. ASSUME NEW k \in 1 .. n + 1, NEW a \in DOMAIN mem'[t][k]
       PROVE  \/ /\ mem'[t][k][a] = <<k, a>>
                 /\ k = store => \A i \in Handled(t)' : Slot(t, n + 1, i) # a
              \/ /\ k = store
                 /\ \E i \in Handled(t)' : Slot(t, n + 1, i) = a /\ mem'[t][k][a] = Source(t, i)
  <2>1. CASE k = store
    <3>1. a \in DOMAIN mem[t][store] /\ mem'[t][store][a] = New(a)
      BY <1>7, <2>1
    <3>. QED BY <1>10, <2>1, <3>1
  <2>2. CASE k # store
    <3>1. mem'[t][k] = mem[t][k]
      BY <1>4, <1>7, <2>2
    <3>2. mem[t][k][a] = <<k, a>>
      BY <2>2, <3>1 DEF Stored
    <3>. QED BY <2>2, <3>1, <3>2
  <2>. QED BY <2>1, <2>2
<1>. HIDE DEF n, store
<1>. QED BY <1>8, <1>11 DEF Stored

LEMMA RunResult ==
  ASSUME BoundsInv, ResultInv, NEW t \in Threads, num_tasks(t) > 0,
         NEW pid \in Programs(t), RunProgram(t, pid)
  PROVE  ResultInv'
<1>0. Threaded /\ DOMAIN ran = Threads /\ ResultOK(t)
  BY DEF BoundsInv, ResultInv
<1>1. /\ at[t] = "run" /\ UNCHANGED <<plan, at, task, module>>
      /\ ran' = [ran EXCEPT ![t] = @ \cup {pid}]
  BY DEF RunProgram
<1>2. ran[t] \subseteq Programs(t)
  BY <1>0, <1>1 DEF ResultOK
<1>3. ran'[t] \subseteq Programs(t)'
  <2>1. ran'[t] = ran[t] \cup {pid} /\ Programs(t)' = Programs(t)
    BY <1>0, <1>1, ElementsKept
  <2>. QED BY <1>2, <2>1
<1>4. ASSUME Distinct(t)' PROVE Stored(t)'
  <2>1. Distinct(t)
    BY <1>1, <1>4, TaskKept
  <2>2. Stored(t)
    BY <1>0, <1>1, <2>1 DEF ResultOK
  <2>. QED BY <1>0, <1>2, <2>1, <2>2, RunStored
<1>5. ResultOK(t)'
  BY <1>1, <1>3, <1>4 DEF ResultOK
<1>6. \A u \in Threads \ {t} :
        /\ plan'[u] = plan[u] /\ at'[u] = at[u] /\ task'[u] = task[u]
        /\ module'[u] = module[u] /\ mem'[u] = mem[u] /\ ran'[u] = ran[u]
  <2>1. \A u \in Threads \ {t} : mem'[u] = mem[u]
    BY <1>0 DEF RunProgram, Threaded
  <2>. QED BY <1>0, <1>1, <2>1
<1>7. DOMAIN ran' = Threads
  BY <1>0, <1>1
<1>. QED BY <1>5, <1>6, <1>7, OneResult

LEMMA RestResult ==
  ASSUME BoundsInv, ResultInv, NEW t \in Threads, Return(t) \/ NextCall(t)
  PROVE  ResultInv'
<1>0. Threaded /\ DOMAIN ran = Threads /\ ResultOK(t)
  BY DEF BoundsInv, ResultInv
<1>1. UNCHANGED <<task, module, mem, ran>>
  BY DEF Return, NextCall
<1>2. CASE Return(t)
  <2>1. /\ at[t] = "run" /\ at' = [at EXCEPT ![t] = "returned"] /\ plan' = plan
        /\ num_tasks(t) = 0 \/ ran[t] = Programs(t)
    BY <1>2 DEF Return, Proceed
  <2>2. at'[t] = "returned" /\ \A u \in Threads \ {t} : at'[u] = at[u] /\ plan'[u] = plan[u]
    BY <1>0, <2>1 DEF Threaded
  <2>3. Programs(t)' = Programs(t) /\ num_tasks(t)' = num_tasks(t) /\ (Distinct(t)') = Distinct(t)
    BY <1>1, <2>1, ElementsKept, TaskKept
  <2>4. ran[t] \subseteq Programs(t) /\ (Distinct(t) => Stored(t))
    BY <1>0, <2>1 DEF ResultOK
  <2>5. (Distinct(t)') => Stored(t)'
    BY <1>1, <2>1, <2>3, <2>4, StoredKept
  <2>6. ResultOK(t)'
    BY <1>1, <2>1, <2>2, <2>3, <2>4, <2>5 DEF ResultOK
  <2>. QED BY <1>0, <1>1, <2>2, <2>6, OneResult
<1>3. CASE NextCall(t)
  <2>1. at' = [at EXCEPT ![t] = "idle"] /\ plan' = [plan EXCEPT ![t] = Tail(@)]
    BY <1>3 DEF NextCall
  <2>2. at'[t] = "idle" /\ \A u \in Threads \ {t} : at'[u] = at[u] /\ plan'[u] = plan[u]
    BY <1>0, <2>1 DEF Threaded
  <2>3. ResultOK(t)'
    BY <2>2 DEF ResultOK
  <2>. QED BY <1>0, <1>1, <2>2, <2>3, OneResult
<1>. QED BY <1>2, <1>3

LEMMA InitResult == PointwiseInit => ResultInv
BY DEF PointwiseInit, ResultInv, ResultOK

LEMMA StepResult ==
  BoundsInv /\ ResultInv /\ [PointwiseNext]_pointwise_vars => ResultInv'
<1> SUFFICES ASSUME BoundsInv, ResultInv, [PointwiseNext]_pointwise_vars PROVE ResultInv'
  OBVIOUS
<1>1. ASSUME NEW t \in Threads,
             \/ Prepare(t) \/ Found(t) \/ Write(t) \/ Load(t) \/ Publish(t)
             \/ Return(t) \/ NextCall(t)
      PROVE  ResultInv'
  BY <1>1, PrepareResult, ModuleResult, RestResult
<1>2. ASSUME NEW t \in Threads, num_tasks(t) > 0, NEW pid \in Programs(t), RunProgram(t, pid)
      PROVE  ResultInv'
  BY <1>2, RunResult
<1>3. ASSUME UNCHANGED pointwise_vars PROVE ResultInv'
  <2>1. \A t \in Threads : ResultOK(t)'
    BY <1>3, ResultKept DEF ResultInv, pointwise_vars
  <2>. QED BY <1>3, <2>1 DEF ResultInv, pointwise_vars
<1>. QED BY <1>1, <1>2, <1>3 DEF PointwiseNext

LEMMA NoIndices ==
  ASSUME NEW s \in Seq(Nat), volume(s) = 0
  PROVE  Indices(s) = {}
<1>1. PICK i \in 1 .. Len(s) : s[i] = 0
  BY VolumePositive
<1>2. ASSUME NEW m \in Indices(s) PROVE FALSE
  <2>1. m[i] \in Nat /\ m[i] < s[i]
    BY IndicesAre DEF MultiIndices
  <2>. QED BY <1>1, <2>1
<1>. QED BY <1>2

\* A call that has returned.
LEMMA ReturnedResult ==
  ASSUME BoundsInv, ResultInv, NEW t \in Threads, at[t] = "returned", Distinct(t)
  PROVE  /\ Compatible(t) /\ OutView(t).shape = CommonShape(t)
         /\ \A a \in DOMAIN mem[t][OutStorage(t)] :
              IF \E r \in Result(t) : r[1] = a
                THEN <<a, mem[t][OutStorage(t)][a]>> \in Result(t)
                ELSE mem[t][OutStorage(t)][a] = <<OutStorage(t), a>>
<1> DEFINE n == Arity(t)
           store == OutStorage(t)
           held == mem[t][store]
<1>1. /\ HasCall(t) /\ ~Raises(t) /\ task[t] = Prepared(t) /\ Buffered(t)
      /\ num_tasks(t) # 0 => Ready(t)
  BY RunningFacts
<1>2. Compatible(t) /\ OutView(t).shape = CommonShape(t)
  BY <1>1, CommonFacts, OutFacts
<1>3. store \in DOMAIN mem[t] /\ DOMAIN held = Places(OutView(t))
  BY <1>1, OutPlaces DEF Buffer
<1>4. Stored(t) /\ (num_tasks(t) = 0 \/ ran[t] = Programs(t))
  BY DEF ResultInv, ResultOK
<1>5. CASE num_tasks(t) = 0
  <2> DEFINE T == task_shape(t)
  <2>1. T \in Seq(Nat) /\ OutView(t).shape = T
    BY <1>1, TaskShape, OutFacts
  <2>2. volume(T) = 0
    BY <1>1, <1>5, FastSlots, SlowSlots DEF num_tasks
  <2>3. Indices(T) = {}
    BY <2>1, <2>2, NoIndices
  <2>4. Addrs(OutView(t)) = {}
    BY <2>1, <2>3 DEF Addrs
  <2>. QED BY <1>2, <1>3, <2>4 DEF Places
<1>6. CASE num_tasks(t) # 0
  <2>1. Handled(t) = Indices(task[t].shape)
    BY <1>1, <1>4, <1>6, ElementsParted, ElementsInside DEF Handled
  <2>2. ASSUME NEW a \in DOMAIN held
        PROVE  IF \E r \in Result(t) : r[1] = a THEN <<a, held[a]>> \in Result(t)
               ELSE held[a] = <<store, a>>
    <3>1. \/ /\ held[a] = <<store, a>>
             /\ \A i \in Handled(t) : Slot(t, n + 1, i) # a
          \/ \E i \in Handled(t) : Slot(t, n + 1, i) = a /\ held[a] = Source(t, i)
      BY <1>1, <1>3, <1>4 DEF Stored, Buffered
    <3>2. ASSUME NEW i \in Handled(t), Slot(t, n + 1, i) = a, held[a] = Source(t, i)
          PROVE  <<a, held[a]>> \in Result(t) /\ \E r \in Result(t) : r[1] = a
      <4>1. <<a, held[a]>> \in Result(t)
        BY <1>1, <1>6, <2>1, <3>2, ResultsMatch
      <4>2. <<a, held[a]>>[1] = a
        OBVIOUS
      <4>. QED BY <4>1, <4>2
    <3>3. ASSUME \A i \in Handled(t) : Slot(t, n + 1, i) # a
          PROVE  ~\E r \in Result(t) : r[1] = a
      BY <1>1, <1>6, <2>1, <3>3, ResultsMatch
    <3>. QED BY <3>1, <3>2, <3>3
  <2>. QED BY <1>2, <2>2
<1>. QED BY <1>5, <1>6

\* Whatever is called with whatever shapes and strides, when a call of
\* pointwise_dynamic returns its output holds, at each index of the common
\* shape of the operands, what the scalar function makes of the elements
\* broadcasting pairs there, and what it held before everywhere else
\* (PointwiseDynamicFunction.prepare_args and instantiate, and the wrapper and
\* kernel its generator writes).
THEOREM ResultsAreElementwise == PointwiseSpec => []Elementwise
<1>1. BoundsInv /\ ResultInv => Elementwise
  BY ReturnedResult DEF Elementwise, Distinct
<1>2. PointwiseInit => BoundsInv /\ ResultInv
  BY InitBounds, InitResult
<1>3. BoundsInv /\ ResultInv /\ [PointwiseNext]_pointwise_vars => BoundsInv' /\ ResultInv'
  BY StepBounds, StepResult
<1>. QED BY <1>1, <1>2, <1>3, PTL DEF PointwiseSpec
=============================================================================
