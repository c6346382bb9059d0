--------------------------- MODULE RadixSortProofs ---------------------------
(***************************************************************************)
(* Proofs about radix_sort: the arithmetic of digits, how elements are     *)
(* counted and placed, an invariant of a launch of sweep, that a launch is *)
(* one stable pass, and that the passes together sort.                     *)
(***************************************************************************)
EXTENDS RadixSort, FiniteSetTheorems, WellFoundedInduction, TLAPS

-----------------------------------------------------------------------------
(***************************************************************************)
(* Arithmetic                                                              *)
(***************************************************************************)
LEMMA LeastNat ==
  ASSUME NEW T \in SUBSET Nat, T # {}
  PROVE  \E n \in T : \A m \in T : n <= m
<1>1. PICK n \in T : \A m \in T : <<m, n>> \notin OpToRel(<, Nat)
  BY NatLessThanWellFounded, WFMin, Zenon
<1>2. \A m \in T : ~(m < n)
  BY <1>1, Zenon DEF OpToRel
<1>. QED BY <1>2

\* The powers of two up to n.
Powers(n) ==
  {f \in [0 .. n -> Nat] : f[0] = 1 /\ \A m \in 1 .. n : f[m] = 2 * f[m - 1]}

LEMMA PowersExist == \A n \in Nat : Powers(n) # {}
<1> DEFINE T == {n \in Nat : Powers(n) = {}}
<1> SUFFICES ASSUME T # {} PROVE FALSE
  OBVIOUS
<1>1. PICK n \in T : \A m \in T : n <= m
  <2>1. T \in SUBSET Nat
    OBVIOUS
  <2>. HIDE DEF T
  <2>. QED BY <2>1, LeastNat
<1>2. n \in Nat /\ Powers(n) = {}
  OBVIOUS
<1>3. CASE n = 0
  <2> DEFINE f == [x \in 0 .. 0 |-> 1]
  <2>1. f \in Powers(0)
    BY DEF Powers
  <2>. QED BY <1>2, <1>3, <2>1
<1>4. CASE n # 0
  <2>1. n - 1 \in Nat /\ ~(n <= n - 1)
    BY <1>2, <1>4
  <2>2. PICK f : f \in Powers(n - 1)
    BY <1>1, <2>1
  <2> DEFINE g == [x \in 0 .. n |-> IF x = n THEN 2 * f[n - 1] ELSE f[x]]
  <2>3. f \in [0 .. n - 1 -> Nat] /\ f[0] = 1 /\ \A m \in 1 .. n - 1 : f[m] = 2 * f[m - 1]
    BY <2>2 DEF Powers
  <2>4. f[n - 1] \in Nat
    BY <2>1, <2>3
  <2>5. \A x \in 0 .. n : g[x] \in Nat
    BY <1>2, <2>3, <2>4
  <2>6. g[0] = 1
    BY <1>2, <1>4, <2>3
  <2>7. ASSUME NEW m \in 1 .. n PROVE g[m] = 2 * g[m - 1]
    <3>1. CASE m = n
      BY <1>2, <1>4, <2>1, <3>1
    <3>2. CASE m # n
      BY <1>2, <2>3, <3>2
    <3>. QED BY <3>1, <3>2
  <2>8. g \in Powers(n)
    <3>1. g \in [0 .. n -> Nat]
      BY <2>5
    <3>. HIDE DEF g
    <3>. QED BY <2>6, <2>7, <3>1 DEF Powers
  <2>. QED BY <1>2, <2>8
<1>. QED BY <1>3, <1>4

LEMMA PowersAgree ==
  ASSUME NEW n \in Nat, NEW m \in Nat, NEW f \in Powers(n), NEW g \in Powers(m),
         NEW x \in 0 .. n, x \in 0 .. m
  PROVE  f[x] = g[x]
<1> DEFINE T == {y \in Nat : y <= n /\ y <= m /\ f[y] # g[y]}
<1> SUFFICES ASSUME T # {} PROVE FALSE
  OBVIOUS
<1>1. PICK y \in T : \A z \in T : y <= z
  <2>1. T \in SUBSET Nat
    OBVIOUS
  <2>. HIDE DEF T
  <2>. QED BY <2>1, LeastNat
<1>2. y \in Nat /\ y <= n /\ y <= m /\ f[y] # g[y]
  OBVIOUS
<1>3. /\ f[0] = 1 /\ \A z \in 1 .. n : f[z] = 2 * f[z - 1]
      /\ g[0] = 1 /\ \A z \in 1 .. m : g[z] = 2 * g[z - 1]
  BY DEF Powers
<1>4. y # 0
  BY <1>2, <1>3
<1>5. y - 1 \in Nat /\ y - 1 <= n /\ y - 1 <= m /\ ~(y <= y - 1)
  BY <1>2, <1>4
<1>6. f[y - 1] = g[y - 1]
  BY <1>1, <1>5
<1>7. y \in 1 .. n /\ y \in 1 .. m
  BY <1>2, <1>4
<1>. QED BY <1>2, <1>3, <1>6, <1>7

\* The function pow2 is what its definition says.
LEMMA Pow2Def ==
  \A n \in Nat : pow2[n] = IF n = 0 THEN 1 ELSE 2 * pow2[n - 1]
<1> DEFINE Double(g) == [n \in Nat |-> IF n = 0 THEN 1 ELSE 2 * g[n - 1]]
           P(n) == CHOOSE f : f \in Powers(n)
           h == [n \in Nat |-> P(n)[n]]
<1>1. \A n \in Nat : P(n) \in Powers(n)
  BY PowersExist
<1> HIDE DEF P
<1>2. h = Double(h)
  <2>1. ASSUME NEW n \in Nat
        PROVE  P(n)[n] = IF n = 0 THEN 1 ELSE 2 * h[n - 1]
    <3>1. P(n)[0] = 1 /\ \A m \in 1 .. n : P(n)[m] = 2 * P(n)[m - 1]
      BY <1>1 DEF Powers
    <3>2. CASE n # 0
      <4>1. n - 1 \in Nat /\ n - 1 \in 0 .. n - 1 /\ n - 1 \in 0 .. n /\ n \in 1 .. n
        BY <3>2
      <4>2. P(n)[n - 1] = P(n - 1)[n - 1]
        BY <1>1, <4>1, PowersAgree
      <4>3. h[n - 1] = P(n - 1)[n - 1]
        BY <4>1
      <4>. QED BY <3>1, <3>2, <4>1, <4>2, <4>3
    <3>. QED BY <3>1, <3>2
  <2>. HIDE DEF h
  <2>2. h = [n \in Nat |-> P(n)[n]]
    BY DEF h
  <2>. QED BY <2>1, <2>2
<1>3. pow2 = CHOOSE g : g = Double(g)
  BY DEF pow2
<1>4. pow2 = Double(pow2)
  <2>. HIDE DEF Double, h
  <2>. QED BY <1>2, <1>3
<1>. QED BY <1>4

\* Powers are positive, ...
LEMMA Pow2Type == \A n \in Nat : pow2[n] \in Nat \ {0}
<1> DEFINE T == {n \in Nat : pow2[n] \notin Nat \ {0}}
<1> SUFFICES ASSUME T # {} PROVE FALSE
  OBVIOUS
<1>1. PICK n \in T : \A m \in T : n <= m
  <2>1. T \in SUBSET Nat
    OBVIOUS
  <2>. HIDE DEF T
  <2>. QED BY <2>1, LeastNat
<1>2. n \in Nat /\ pow2[n] \notin Nat \ {0}
  OBVIOUS
<1>3. n # 0
  BY <1>2, Pow2Def
<1>4. n - 1 \in Nat /\ ~(n <= n - 1)
  BY <1>2, <1>3
<1>5. pow2[n - 1] \in Nat \ {0}
  BY <1>1, <1>4
<1>6. pow2[n] = 2 * pow2[n - 1]
  BY <1>2, <1>3, Pow2Def
<1>. QED BY <1>2, <1>5, <1>6

\* ... exponents add up, ...
LEMMA Pow2Sum ==
  ASSUME NEW a \in Nat, NEW b \in Nat
  PROVE  pow2[a + b] = pow2[a] * pow2[b]
<1> DEFINE T == {n \in Nat : pow2[a + n] # pow2[a] * pow2[n]}
<1> SUFFICES ASSUME T # {} PROVE FALSE
  OBVIOUS
<1>1. PICK n \in T : \A m \in T : n <= m
  <2>1. T \in SUBSET Nat
    OBVIOUS
  <2>. HIDE DEF T
  <2>. QED BY <2>1, LeastNat
<1>2. n \in Nat /\ pow2[a + n] # pow2[a] * pow2[n]
  OBVIOUS
<1>3. pow2[0] = 1 /\ pow2[a] \in Nat
  BY Pow2Def, Pow2Type
<1>4. n # 0
  BY <1>2, <1>3
<1>5. n - 1 \in Nat /\ ~(n <= n - 1) /\ a + n \in Nat /\ a + n # 0
      /\ (a + n) - 1 = a + (n - 1)
  BY <1>2, <1>4
<1>6. pow2[a + (n - 1)] = pow2[a] * pow2[n - 1]
  BY <1>1, <1>5
<1>7. pow2[n] = 2 * pow2[n - 1] /\ pow2[a + n] = 2 * pow2[a + (n - 1)]
  BY <1>2, <1>4, <1>5, Pow2Def
<1>8. pow2[n - 1] \in Nat
  BY <1>5, Pow2Type
<1>9. \A x, y \in Nat : 2 * (x * y) = x * (2 * y)
  OBVIOUS
<1>10. pow2[a + n] = pow2[a] * (2 * pow2[n - 1])
  BY <1>3, <1>6, <1>7, <1>8, <1>9
<1>. QED BY <1>2, <1>7, <1>10

\* ... and powers grow.
LEMMA Pow2Grows ==
  ASSUME NEW a \in Nat, NEW b \in Nat, a <= b
  PROVE  pow2[a] <= pow2[b]
<1>1. b - a \in Nat /\ a + (b - a) = b
  OBVIOUS
<1>2. pow2[b] = pow2[a] * pow2[b - a]
  BY <1>1, Pow2Sum
<1>3. pow2[a] \in Nat \ {0} /\ pow2[b - a] \in Nat \ {0}
  BY <1>1, Pow2Type
<1>4. \A x, y \in Nat \ {0} : x <= x * y
  OBVIOUS
<1>. QED BY <1>2, <1>3, <1>4

LEMMA DivMod ==
  ASSUME NEW a \in Nat, NEW b \in Nat \ {0}
  PROVE  /\ a = (a \div b) * b + (a % b)
         /\ a % b \in 0 .. b - 1
         /\ a \div b \in Nat
OBVIOUS

LEMMA DivUnique ==
  ASSUME NEW a \in Nat, NEW b \in Nat \ {0}, NEW q \in Nat, NEW r \in 0 .. b - 1,
         a = q * b + r
  PROVE  a \div b = q /\ a % b = r
OBVIOUS

LEMMA TimesGrows ==
  ASSUME NEW a \in Nat, NEW b \in Nat, NEW c \in Nat, a < b
  PROVE  /\ a * c \in Nat /\ b * c \in Nat
         /\ a * c + c <= b * c
<1>1. b = a + (b - a) /\ b - a \in Nat \ {0}
  OBVIOUS
<1>2. \A d \in Nat \ {0} : (a + d) * c = a * c + d * c /\ c <= d * c
  OBVIOUS
<1>. QED BY <1>1, <1>2

LEMMA CdivFacts ==
  ASSUME NEW a \in Nat \ {0}, NEW b \in Nat \ {0}
  PROVE  /\ cdiv(a, b) \in Nat \ {0}
         /\ a <= cdiv(a, b) * b
         /\ \A x \in Nat : x < a => x \div b < cdiv(a, b)
<1> DEFINE n == a + b - 1
           q == n \div b
           r == n % b
<1>1. n \in Nat /\ n >= b
  OBVIOUS
<1>2. n = q * b + r /\ r \in 0 .. b - 1 /\ q \in Nat
  BY <1>1, DivMod
<1>3. cdiv(a, b) = q
  BY DEF cdiv
<1> HIDE DEF q, r
<1>4. a <= q * b
  <2>1. q * b \in Nat
    BY <1>2
  <2>. QED BY <1>2, <2>1
<1>5. q # 0
  BY <1>1, <1>2
<1>6. ASSUME NEW x \in Nat, x < a PROVE x \div b < q
  <2> DEFINE y == x \div b
             s == x % b
  <2>1. x = y * b + s /\ s \in 0 .. b - 1 /\ y \in Nat
    BY DivMod
  <2> HIDE DEF y, s
  <2>2. q < y => q * b + b <= y * b
    BY <1>2, <2>1, TimesGrows
  <2>3. y * b \in Nat /\ q * b \in Nat
    BY <1>2, <2>1
  <2>4. y # q
    BY <1>4, <1>6, <2>1, <2>3
  <2>5. ~(q < y)
    BY <1>4, <1>6, <2>1, <2>2, <2>3
  <2>6. y < q
    BY <1>2, <2>1, <2>4, <2>5
  <2>. QED BY <2>6 DEF y
<1>. QED BY <1>2, <1>3, <1>4, <1>5, <1>6

\* A number's lower bits, then those above them.
LEMMA ModTimes ==
  ASSUME NEW x \in Nat, NEW a \in Nat \ {0}, NEW b \in Nat \ {0}
  PROVE  x % (a * b) = a * ((x \div a) % b) + (x % a)
<1> DEFINE q == x \div a
           r == x % a
           u == q \div b
           d == q % b
<1>1. x = q * a + r /\ r \in 0 .. a - 1 /\ q \in Nat
  BY DivMod
<1> HIDE DEF q, r
<1>2. q = u * b + d /\ d \in 0 .. b - 1 /\ u \in Nat
  BY <1>1, DivMod
<1> HIDE DEF u, d
<1>3. /\ a * d \in Nat /\ a * b \in Nat \ {0} /\ d * a = a * d /\ b * a = a * b
      /\ d * a + a <= b * a
  BY <1>2, TimesGrows
<1>4. a * d + r \in 0 .. (a * b) - 1
  BY <1>1, <1>3
<1>5. (u * b + d) * a = u * (a * b) + a * d
  BY <1>2
<1>6. x = u * (a * b) + (a * d + r)
  <2>1. x = (u * b + d) * a + r
    BY <1>1, <1>2
  <2>2. u * (a * b) \in Nat
    BY <1>2, <1>3
  <2>. QED BY <1>1, <1>3, <1>5, <2>1, <2>2
<1>7. x % (a * b) = a * d + r
  BY <1>2, <1>3, <1>4, <1>6, DivUnique
<1>. QED BY <1>7 DEF d, r, q

-----------------------------------------------------------------------------
(***************************************************************************)
(* Digits                                                                  *)
(***************************************************************************)
\* The bits of a key that p passes have sorted by.
Low(e, p) == e.key % pow2[p * k_bits]

LEMMA Sizes ==
  /\ N \in Nat \ {0} /\ TILE_N \in Nat \ {0} /\ TILE_R \in Nat \ {0}
  /\ k_bits \in Nat \ {0} /\ num_bits \in Nat \ {0}
  /\ num_bins \in Nat \ {0} /\ n_passes \in Nat \ {0}
  /\ grid_n \in Nat \ {0} /\ grid_r \in Nat \ {0}
  /\ num_bits <= n_passes * k_bits
  /\ \A x \in 0 .. N - 1 : x \div TILE_N \in 0 .. grid_n - 1
  /\ \A b \in Bins : b \div TILE_R \in 0 .. grid_r - 1
<1>1. /\ N \in Nat \ {0} /\ TILE_N \in Nat \ {0} /\ TILE_R \in Nat \ {0}
      /\ k_bits \in Nat \ {0} /\ num_bits \in Nat \ {0}
  BY RadixAssumption
<1>2. num_bins \in Nat \ {0}
  BY <1>1, Pow2Type DEF num_bins
<1>3. n_passes \in Nat \ {0} /\ num_bits <= n_passes * k_bits
  BY <1>1, CdivFacts DEF n_passes
<1>4. grid_n \in Nat \ {0} /\ \A x \in Nat : x < N => x \div TILE_N < grid_n
  BY <1>1, CdivFacts DEF grid_n
<1>5. grid_r \in Nat \ {0} /\ \A x \in Nat : x < num_bins => x \div TILE_R < grid_r
  BY <1>1, <1>2, CdivFacts DEF grid_r
<1>6. ASSUME NEW x \in 0 .. N - 1 PROVE x \div TILE_N \in 0 .. grid_n - 1
  <2>1. x \in Nat /\ x < N /\ x \div TILE_N \in Nat
    BY <1>1, DivMod
  <2>. QED BY <1>4, <2>1
<1>7. ASSUME NEW b \in Bins PROVE b \div TILE_R \in 0 .. grid_r - 1
  <2>1. b \in Nat /\ b < num_bins /\ b \div TILE_R \in Nat
    BY <1>1, <1>2, DivMod DEF Bins
  <2>. QED BY <1>5, <2>1
<1>. QED BY <1>1, <1>2, <1>3, <1>4, <1>5, <1>6, <1>7

LEMMA KeyType ==
  ASSUME NEW e \in Elements
  PROVE  e.key \in Nat /\ e.key < pow2[num_bits] /\ e.index \in 0 .. N - 1
<1>1. e.key \in Keys /\ e.index \in 0 .. N - 1
  BY DEF Elements
<1>2. pow2[num_bits] \in Nat \ {0}
  BY Sizes, Pow2Type
<1>3. e.key \in 0 .. pow2[num_bits] - 1
  BY <1>1, RadixAssumption
<1>. QED BY <1>1, <1>2, <1>3

LEMMA DigitType ==
  ASSUME NEW e \in Elements, NEW p \in Nat
  PROVE  digit(e, p) \in Bins /\ digit(e, p) \in Nat
<1>1. p * k_bits \in Nat
  BY Sizes
<1>2. pow2[p * k_bits] \in Nat \ {0}
  BY <1>1, Pow2Type
<1>3. e.key \div pow2[p * k_bits] \in Nat
  BY <1>2, KeyType, DivMod
<1>4. digit(e, p) \in 0 .. num_bins - 1
  BY <1>3, Sizes, DivMod DEF digit
<1>. QED BY <1>4, Sizes DEF Bins

\* A pass adds its digit above the bits sorted by before, ...
LEMMA LowNext ==
  ASSUME NEW e \in Elements, NEW p \in Nat
  PROVE  /\ Low(e, p) \in 0 .. pow2[p * k_bits] - 1
         /\ Low(e, p + 1) = pow2[p * k_bits] * digit(e, p) + Low(e, p)
<1>1. p * k_bits \in Nat /\ (p + 1) * k_bits = p * k_bits + k_bits /\ k_bits \in Nat
  BY Sizes
<1>2. pow2[p * k_bits] \in Nat \ {0} /\ pow2[k_bits] \in Nat \ {0}
  BY <1>1, Pow2Type
<1>3. pow2[(p + 1) * k_bits] = pow2[p * k_bits] * pow2[k_bits]
  BY <1>1, Pow2Sum
<1>4. e.key \in Nat
  BY KeyType
<1>5. Low(e, p + 1) = e.key % (pow2[p * k_bits] * pow2[k_bits])
  BY <1>3 DEF Low
<1>6. e.key % (pow2[p * k_bits] * pow2[k_bits])
        = pow2[p * k_bits] * ((e.key \div pow2[p * k_bits]) % pow2[k_bits])
            + (e.key % pow2[p * k_bits])
  BY <1>2, <1>4, ModTimes
<1>7. Low(e, p) \in 0 .. pow2[p * k_bits] - 1
  BY <1>2, <1>4, DivMod DEF Low
<1>. QED BY <1>5, <1>6, <1>7 DEF Low, digit, num_bins

\* ... which decides before them, ...
LEMMA LowOrder ==
  ASSUME NEW e \in Elements, NEW f \in Elements, NEW p \in Nat
  PROVE  /\ digit(e, p) < digit(f, p) => Low(e, p + 1) < Low(f, p + 1)
         /\ digit(e, p) = digit(f, p) =>
              /\ Low(e, p) < Low(f, p) => Low(e, p + 1) < Low(f, p + 1)
              /\ Low(e, p) = Low(f, p) => Low(e, p + 1) = Low(f, p + 1)
<1> DEFINE a == pow2[p * k_bits]
           d == digit(e, p)
           g == digit(f, p)
           x == Low(e, p)
           y == Low(f, p)
<1>1. a \in Nat /\ d \in Nat /\ g \in Nat
  BY Sizes, Pow2Type, DigitType
<1>2. /\ x \in 0 .. a - 1 /\ Low(e, p + 1) = a * d + x
      /\ y \in 0 .. a - 1 /\ Low(f, p + 1) = a * g + y
  BY LowNext
<1> HIDE DEF a, d, g, x, y
<1>3. d < g => d * a + a <= g * a
  BY <1>1, TimesGrows
<1>4. d * a = a * d /\ g * a = a * g /\ a * d \in Nat /\ a * g \in Nat
  BY <1>1
<1>5. d < g => Low(e, p + 1) < Low(f, p + 1)
  BY <1>1, <1>2, <1>3, <1>4
<1>6. d = g => /\ x < y => Low(e, p + 1) < Low(f, p + 1)
               /\ x = y => Low(e, p + 1) = Low(f, p + 1)
  BY <1>1, <1>2, <1>4
<1>. QED BY <1>5, <1>6 DEF d, g, x, y

\* ... until they are the whole key.
LEMMA LowEnds ==
  ASSUME NEW e \in Elements
  PROVE  Low(e, 0) = 0 /\ Low(e, n_passes) = e.key
<1>1. pow2[0 * k_bits] = 1
  BY Sizes, Pow2Def
<1>2. e.key \in Nat /\ e.key < pow2[num_bits]
  BY KeyType
<1>3. Low(e, 0) = 0
  BY <1>1, <1>2 DEF Low
<1>4. n_passes * k_bits \in Nat /\ num_bits \in Nat /\ num_bits <= n_passes * k_bits
  BY Sizes
<1>5. pow2[num_bits] <= pow2[n_passes * k_bits]
  BY <1>4, Pow2Grows
<1>6. pow2[num_bits] \in Nat /\ pow2[n_passes * k_bits] \in Nat \ {0}
  BY <1>4, Pow2Type
<1>7. e.key \in 0 .. pow2[n_passes * k_bits] - 1
  BY <1>2, <1>5, <1>6
<1>8. \A m \in Nat \ {0} : \A x \in 0 .. m - 1 : x % m = x
  OBVIOUS
<1>. QED BY <1>3, <1>6, <1>7, <1>8 DEF Low

-----------------------------------------------------------------------------
(***************************************************************************)
(* Places                                                                  *)
(***************************************************************************)
Row == 0 .. N - 1
Tiles == 0 .. grid_n - 1

\* Element x of f is dealt before element y, and where an element goes.
Ahead(f, p, x, y) ==
  \/ digit(f[x], p) < digit(f[y], p)
  \/ digit(f[x], p) = digit(f[y], p) /\ x < y
To(f, p, x) == Cardinality({y \in Row : Ahead(f, p, y, x)})

LEMMA SameCardinality == \A S : Deals!Cardinality(S) = Cardinality(S)
BY Zenon DEF Cardinality, Deals!Cardinality

LEMMA PlaceIs ==
  ASSUME NEW f, DOMAIN f = Row, NEW p, NEW x
  PROVE  Deals!Place(f, p, x) = To(f, p, x)
BY SameCardinality DEF Deals!Place, Ahead, To

\* Parts of the row are finite, and disjoint ones add up.
LEMMA RowCount ==
  /\ IsFiniteSet(Row) /\ Cardinality(Row) = N
  /\ \A S \in SUBSET Row : IsFiniteSet(S) /\ Cardinality(S) \in 0 .. N
<1>1. IsFiniteSet(Row) /\ Cardinality(Row) = N
  BY Sizes, FS_Interval DEF Row
<1>2. ASSUME NEW S \in SUBSET Row
      PROVE  IsFiniteSet(S) /\ Cardinality(S) \in 0 .. N
  <2>1. IsFiniteSet(S) /\ Cardinality(S) <= N
    BY <1>1, FS_Subset
  <2>2. Cardinality(S) \in Nat
    BY <2>1, FS_CardinalityType
  <2>. QED BY <2>1, <2>2, Sizes
<1>. QED BY <1>1, <1>2

LEMMA CountsAdd ==
  ASSUME NEW S \in SUBSET Row, NEW T \in SUBSET Row, S \cap T = {}
  PROVE  /\ Cardinality(S \cup T) = Cardinality(S) + Cardinality(T)
         /\ Cardinality(S) \in Nat /\ Cardinality(T) \in Nat
<1>1. /\ IsFiniteSet(S) /\ Cardinality(S) \in Nat
      /\ IsFiniteSet(T) /\ Cardinality(T) \in Nat
  BY RowCount, Sizes
<1>2. Cardinality(S \cup T)
        = Cardinality(S) + Cardinality(T) - Cardinality(S \cap T)
  BY <1>1, FS_Union
<1>3. Cardinality(S \cap T) = 0
  BY FS_EmptySet
<1>. QED BY <1>1, <1>2, <1>3

LEMMA AheadOrder ==
  ASSUME NEW f \in [Row -> Elements], NEW p \in Nat, NEW x \in Row, NEW y \in Row
  PROVE  /\ ~Ahead(f, p, x, x)
         /\ x # y => Ahead(f, p, x, y) \/ Ahead(f, p, y, x)
         /\ \A z \in Row : Ahead(f, p, z, x) /\ Ahead(f, p, x, y) => Ahead(f, p, z, y)
<1>1. \A z \in Row : f[z] \in Elements
  OBVIOUS
<1>2. \A z \in Row : digit(f[z], p) \in Nat
  BY <1>1, DigitType
<1>3. \A z \in Row : z \in Nat
  BY Sizes DEF Row
<1>. QED BY <1>2, <1>3 DEF Ahead

\* Elements keep their order, so no two go to one place ...
LEMMA ToOrder ==
  ASSUME NEW f \in [Row -> Elements], NEW p \in Nat, NEW x \in Row, NEW y \in Row
  PROVE  /\ To(f, p, x) \in Row
         /\ Ahead(f, p, x, y) => To(f, p, x) < To(f, p, y)
<1> DEFINE S(z) == {u \in Row : Ahead(f, p, u, z)}
<1>1. ASSUME NEW z \in Row
      PROVE  /\ S(z) \in SUBSET Row /\ z \notin S(z)
             /\ Cardinality(S(z) \cup {z}) = Cardinality(S(z)) + 1
             /\ IsFiniteSet(S(z) \cup {z}) /\ S(z) \cup {z} \in SUBSET Row
             /\ Cardinality(S(z)) \in Nat
  <2>1. S(z) \in SUBSET Row /\ z \notin S(z)
    BY AheadOrder
  <2>2. IsFiniteSet(S(z)) /\ Cardinality(S(z)) \in Nat
    BY <2>1, RowCount, Sizes
  <2>3. Cardinality(S(z) \cup {z}) = Cardinality(S(z)) + 1
    BY <2>1, <2>2, FS_AddElement
  <2>4. S(z) \cup {z} \in SUBSET Row
    BY <2>1
  <2>. QED BY <2>1, <2>2, <2>3, <2>4, RowCount
<1>2. To(f, p, x) \in Row
  <2>1. Cardinality(S(x) \cup {x}) \in 0 .. N
    BY <1>1, RowCount
  <2>2. Cardinality(S(x)) + 1 \in 0 .. N /\ Cardinality(S(x)) \in Nat
    BY <1>1, <2>1
  <2>. QED BY <2>2, Sizes DEF To, Row
<1>3. ASSUME Ahead(f, p, x, y)
      PROVE  To(f, p, x) < To(f, p, y)
  <2>1. S(x) \cup {x} \in SUBSET S(y)
    BY <1>3, AheadOrder
  <2>2. IsFiniteSet(S(y))
    BY <1>1, RowCount
  <2>3. Cardinality(S(x) \cup {x}) <= Cardinality(S(y))
    BY <2>1, <2>2, FS_Subset
  <2>4. Cardinality(S(x)) + 1 <= Cardinality(S(y))
        /\ Cardinality(S(x)) \in Nat /\ Cardinality(S(y)) \in Nat
    BY <1>1, <2>3
  <2>. QED BY <2>4 DEF To
<1>. QED BY <1>2, <1>3

LEMMA ToUnique ==
  ASSUME NEW f \in [Row -> Elements], NEW p \in Nat, NEW x \in Row, NEW y \in Row,
         To(f, p, x) = To(f, p, y)
  PROVE  x = y
<1> SUFFICES ASSUME x # y PROVE FALSE
  OBVIOUS
<1>1. Ahead(f, p, x, y) \/ Ahead(f, p, y, x)
  BY AheadOrder
<1>2. To(f, p, x) < To(f, p, y) \/ To(f, p, y) < To(f, p, x)
  BY <1>1, ToOrder
<1>3. To(f, p, x) \in Row /\ To(f, p, y) \in Row
  BY ToOrder
<1>4. To(f, p, x) \in Nat /\ To(f, p, y) \in Nat
  BY <1>3, Sizes DEF Row
<1>. QED BY <1>2, <1>4

\* ... and every place is taken.
LEMMA ToBijection ==
  ASSUME NEW f \in [Row -> Elements], NEW p \in Nat
  PROVE  [x \in Row |-> To(f, p, x)] \in Bijection(Row, Row)
<1> DEFINE h == [x \in Row |-> To(f, p, x)]
<1>1. h \in [Row -> Row]
  BY ToOrder
<1>2. \A x, y \in Row : h[x] = h[y] => x = y
  BY ToUnique
<1> HIDE DEF h
<1>3. h \in Injection(Row, Row)
  BY <1>1, <1>2 DEF Injection, IsInjective
<1>4. h \in Surjection(Row, Row)
  BY <1>3, RowCount, FS_Injection
<1>. QED BY <1>3, <1>4 DEF Bijection, h

LEMMA ToOnto ==
  ASSUME NEW f \in [Row -> Elements], NEW p \in Nat, NEW z \in Row
  PROVE  \E x \in Row : To(f, p, x) = z
<1> DEFINE h == [x \in Row |-> To(f, p, x)]
<1>1. h \in Surjection(Row, Row)
  BY ToBijection DEF Bijection
<1> HIDE DEF h
<1>2. \E x \in Row : h[x] = z
  BY <1>1 DEF Surjection
<1>. QED BY <1>2 DEF h

\* Places are as many as the elements that go to them.
LEMMA SourcesCount ==
  ASSUME NEW f \in [Row -> Elements], NEW p \in Nat, NEW S \in SUBSET Row
  PROVE  Cardinality({x \in Row : To(f, p, x) \in S}) = Cardinality(S)
<1> DEFINE R == {x \in Row : To(f, p, x) \in S}
           h == [x \in R |-> To(f, p, x)]
<1>1. h \in [R -> S]
  OBVIOUS
<1>2. \A x, y \in R : h[x] = h[y] => x = y
  BY ToUnique
<1>3. \A z \in S : \E x \in R : h[x] = z
  BY ToOnto
<1>4. IsFiniteSet(R) /\ R \in SUBSET Row
  BY RowCount
<1> HIDE DEF h, R
<1>5. h \in Bijection(R, S)
  BY <1>1, <1>2, <1>3 DEF Bijection, Injection, IsInjective, Surjection
<1>6. ExistsBijection(R, S)
  BY <1>5 DEF ExistsBijection
<1>. QED BY <1>4, <1>6, FS_Bijection DEF R

-----------------------------------------------------------------------------
(***************************************************************************)
(* What a pass does to a row                                               *)
(***************************************************************************)
\* Row g is row f dealt by digit p.
IsDealt(f, g, p) == \A x \in Row : g[To(f, p, x)] = f[x]

\* Sorted by the low bits of p passes, equal ones by where they came from.
SortedBy(f, p) ==
  \A x, y \in Row : x < y =>
    \/ Low(f[x], p) < Low(f[y], p)
    \/ Low(f[x], p) = Low(f[y], p) /\ f[x].index < f[y].index

IndicesOf(f) == {f[x].index : x \in Row}

LEMMA DealtType ==
  ASSUME NEW f \in [Row -> Elements], NEW p \in Nat, NEW g, DOMAIN g = Row,
         g = [x \in Row |-> g[x]], IsDealt(f, g, p)
  PROVE  /\ g \in [Row -> Elements]
         /\ g \in [Row -> {f[x] : x \in Row}]
         /\ IndicesOf(g) = IndicesOf(f)
<1>1. ASSUME NEW z \in Row PROVE \E x \in Row : g[z] = f[x]
  <2>1. PICK x \in Row : To(f, p, x) = z
    BY ToOnto
  <2>. QED BY <2>1 DEF IsDealt
<1>2. ASSUME NEW x \in Row PROVE \E z \in Row : g[z] = f[x]
  BY ToOrder DEF IsDealt
<1>3. g \in [Row -> {f[x] : x \in Row}]
  BY <1>1
<1>4. g \in [Row -> Elements]
  BY <1>1
<1>5. IndicesOf(g) \subseteq IndicesOf(f)
  BY <1>1 DEF IndicesOf
<1>6. IndicesOf(f) \subseteq IndicesOf(g)
  BY <1>2 DEF IndicesOf
<1>. QED BY <1>3, <1>4, <1>5, <1>6

\* The histogram is that of any order of the row.
LEMMA DealtCounts ==
  ASSUME NEW f \in [Row -> Elements], NEW g \in [Row -> Elements], NEW p \in Nat,
         IsDealt(f, g, p)
  PROVE  ex_cumsum(g) = ex_cumsum(f)
<1>1. ASSUME NEW q, NEW b
      PROVE  Cardinality({x \in Row : digit(g[x], q) < b})
               = Cardinality({x \in Row : digit(f[x], q) < b})
  <2> DEFINE S == {x \in Row : digit(g[x], q) < b}
  <2>1. Cardinality({x \in Row : To(f, p, x) \in S}) = Cardinality(S)
    BY SourcesCount
  <2>2. {x \in Row : To(f, p, x) \in S} = {x \in Row : digit(f[x], q) < b}
    BY ToOrder DEF IsDealt
  <2>. QED BY <2>1, <2>2
<1>. QED BY <1>1 DEF ex_cumsum, Row

\* A pass sorts by one digit more.
LEMMA DealtSorted ==
  ASSUME NEW f \in [Row -> Elements], NEW g \in [Row -> Elements], NEW p \in Nat,
         IsDealt(f, g, p), SortedBy(f, p)
  PROVE  SortedBy(g, p + 1)
<1> SUFFICES ASSUME NEW u \in Row, NEW v \in Row, u < v
    PROVE  \/ Low(g[u], p + 1) < Low(g[v], p + 1)
           \/ Low(g[u], p + 1) = Low(g[v], p + 1) /\ g[u].index < g[v].index
  BY DEF SortedBy
<1>1. PICK x \in Row : To(f, p, x) = u
  BY ToOnto
<1>2. PICK y \in Row : To(f, p, y) = v
  BY ToOnto
<1>3. g[u] = f[x] /\ g[v] = f[y] /\ f[x] \in Elements /\ f[y] \in Elements
  BY <1>1, <1>2 DEF IsDealt
<1>4. u \in Nat /\ v \in Nat
  BY Sizes DEF Row
<1>5. Ahead(f, p, x, y)
  <2>1. ~Ahead(f, p, y, x)
    BY <1>1, <1>2, <1>4, ToOrder
  <2>2. x # y
    BY <1>1, <1>2, <1>4
  <2>. QED BY <2>1, <2>2, AheadOrder
<1>6. CASE digit(f[x], p) < digit(f[y], p)
  BY <1>3, <1>6, LowOrder
<1>7. CASE digit(f[x], p) = digit(f[y], p) /\ x < y
  <2>1. \/ Low(f[x], p) < Low(f[y], p)
        \/ Low(f[x], p) = Low(f[y], p) /\ f[x].index < f[y].index
    BY <1>7 DEF SortedBy
  <2>. QED BY <1>3, <1>7, <2>1, LowOrder
<1>. QED BY <1>5, <1>6, <1>7 DEF Ahead

-----------------------------------------------------------------------------
(***************************************************************************)
(* The inductive invariant                                                 *)
(***************************************************************************)
Places == {"waiting", "publish", "look_back", "scatter", "exited"}
Flags == {"zero", "aggregate", "prefix"}

RadixTypes ==
  /\ pass \in 0 .. n_passes
  /\ arr_in \in [Row -> Elements]
  /\ arr_out = [x \in Row |-> arr_out[x]]
  /\ status \in [Bins -> [Tiles -> Flags \X Nat]]
  /\ started \in Nat
  /\ pc \in [Programs -> Places]
  /\ bin \in [Programs -> Nat]
  /\ i_lookback \in [Programs -> Int]
  /\ exclusive_prefix \in [Programs -> Nat]

\* Where a program is among its bins.
BinsOK ==
  \A p \in Programs :
    /\ bin[p] \in first_bin(p) .. end_bin(p) - 1
    /\ pc[p] = "waiting" => bin[p] = first_bin(p)
    /\ pc[p] = "exited" => bin[p] = end_bin(p) - 1
    /\ pc[p] # "waiting" => pass < n_passes

\* The look-back has ended at the first tile once a program scatters.
LookBackOK ==
  \A p \in Programs :
    /\ pc[p] = "look_back" => i_lookback[p] \in -1 .. pid_n(p) - 1
    /\ pc[p] = "scatter" =>
         exclusive_prefix[p] = CountIn(bin[p], 0, pid_n(p) - 1)

\* Element x is in the tile of p, and p is behind its bin.
Scattered(p, x) ==
  /\ x \div TILE_N = pid_n(p)
  /\ first_bin(p) <= digit(arr_in[x], pass)
  /\ \/ digit(arr_in[x], pass) < bin[p]
     \/ digit(arr_in[x], pass) = bin[p] /\ pc[p] = "exited"

DealtSoFar ==
  \A p \in Programs : \A x \in Row :
    Scattered(p, x) => arr_out[To(arr_in, pass, x)] = arr_in[x]

SortedSoFar ==
  /\ SortedBy(arr_in, pass)
  /\ IndicesOf(arr_in) = Row
  /\ ex_cumsum_bins = ex_cumsum(arr_in)

RadixInv ==
  RadixTypes /\ BinsOK /\ LookBackOK /\ WordsTrue /\ DealtSoFar /\ SortedSoFar
-----------------------------------------------------------------------------
(***************************************************************************)
(* Programs, tiles and bins                                                *)
(***************************************************************************)
LEMMA DivMono ==
  ASSUME NEW a \in Nat, NEW b \in Nat, NEW c \in Nat \ {0}
  PROVE  a <= b => a \div c <= b \div c
<1>1. /\ a = (a \div c) * c + (a % c) /\ a % c \in 0 .. c - 1 /\ a \div c \in Nat
      /\ b = (b \div c) * c + (b % c) /\ b % c \in 0 .. c - 1 /\ b \div c \in Nat
  BY DivMod
<1>2. b \div c < a \div c =>
        (b \div c) * c + c <= (a \div c) * c
        /\ (a \div c) * c \in Nat /\ (b \div c) * c \in Nat
  BY <1>1, TimesGrows
<1> DEFINE u == (a \div c) * c
           v == (b \div c) * c
<1>3. a = u + (a % c) /\ b = v + (b % c)
  BY <1>1
<1>4. b \div c < a \div c => v + c <= u /\ u \in Nat /\ v \in Nat
  BY <1>2
<1> HIDE DEF u, v
<1>5. b \div c < a \div c => b < a
  BY <1>1, <1>3, <1>4
<1>. QED BY <1>1, <1>5

\* The bins of a program are bins, and it has one.
LEMMA ProgramFacts ==
  ASSUME NEW p \in Programs
  PROVE  /\ pid_n(p) \in Tiles /\ pid_n(p) \in Nat
         /\ first_bin(p) \in Bins /\ first_bin(p) \in Nat
         /\ end_bin(p) \in Nat /\ first_bin(p) < end_bin(p)
         /\ end_bin(p) <= num_bins
<1>1. grid_n \in Nat \ {0} /\ grid_r \in Nat \ {0} /\ num_bins \in Nat \ {0}
      /\ TILE_R \in Nat \ {0}
  BY Sizes
<1> DEFINE q == p \div grid_n
<1>2. p \in Nat /\ p < grid_n * grid_r
  <2>1. grid_n * grid_r \in Nat
    BY <1>1
  <2> HIDE DEF Programs
  <2>2. p \in 0 .. grid_n * grid_r - 1
    BY DEF Programs
  <2>. QED BY <2>1, <2>2
<1>3. p = q * grid_n + (p % grid_n) /\ p % grid_n \in 0 .. grid_n - 1 /\ q \in Nat
  BY <1>1, <1>2, DivMod
<1>4. pid_n(p) \in Tiles /\ pid_n(p) \in Nat
  BY <1>1, <1>3 DEF pid_n, Tiles
<1> HIDE DEF q
<1>5. q < grid_r
  <2>1. q * grid_n <= p
    BY <1>1, <1>2, <1>3
  <2>2. ASSUME grid_r <= q PROVE FALSE
    <3>1. grid_r * grid_n <= q * grid_n
      <4>1. CASE grid_r = q
        BY <1>1, <1>3, <4>1
      <4>2. CASE grid_r < q
        <5>1. grid_r * grid_n + grid_n <= q * grid_n /\ grid_r * grid_n \in Nat
              /\ q * grid_n \in Nat
          BY <1>1, <1>3, <4>2, TimesGrows
        <5>. QED BY <1>1, <5>1
      <4>. QED BY <1>1, <1>3, <2>2, <4>1, <4>2
    <3>2. grid_r * grid_n = grid_n * grid_r
      BY <1>1
    <3> DEFINE m == grid_n * grid_r
               n == q * grid_n
    <3>3. m \in Nat /\ n \in Nat /\ m <= n /\ n <= p /\ p < m
      BY <1>1, <1>2, <1>3, <2>1, <3>1, <3>2
    <3> HIDE DEF m, n
    <3>. QED BY <1>2, <3>3
  <2>. QED BY <1>1, <1>3, <2>2
<1>6. q * TILE_R \in Nat /\ q * TILE_R < num_bins
  <2>1. q * TILE_R + TILE_R <= grid_r * TILE_R
        /\ q * TILE_R \in Nat /\ grid_r * TILE_R \in Nat
    BY <1>1, <1>3, <1>5, TimesGrows
  <2>2. grid_r = (num_bins + TILE_R - 1) \div TILE_R
    BY DEF grid_r, cdiv
  <2>3. num_bins + TILE_R - 1 \in Nat
    BY <1>1
  <2> DEFINE n == num_bins + TILE_R - 1
  <2>4. n = (n \div TILE_R) * TILE_R + (n % TILE_R) /\ n % TILE_R \in 0 .. TILE_R - 1
    BY <1>1, <2>3, DivMod
  <2>5. n = grid_r * TILE_R + (n % TILE_R)
    BY <2>2, <2>4
  <2> DEFINE a == grid_r * TILE_R
             c == q * TILE_R
  <2>6. c + TILE_R <= a /\ a \in Nat /\ c \in Nat /\ n = a + (n % TILE_R)
    BY <2>1, <2>5
  <2>7. n = num_bins + TILE_R - 1
    OBVIOUS
  <2> HIDE DEF a, c, n
  <2>8. c \in Nat /\ c < num_bins
    BY <1>1, <2>4, <2>6, <2>7
  <2>. QED BY <2>8 DEF c
<1>7. first_bin(p) = q * TILE_R
  BY DEF first_bin, q
<1>8. first_bin(p) \in Bins /\ first_bin(p) \in Nat /\ first_bin(p) < num_bins
  BY <1>1, <1>6, <1>7 DEF Bins
<1>9. end_bin(p) \in Nat /\ first_bin(p) < end_bin(p) /\ end_bin(p) <= num_bins
  <2>1. end_bin(p) = IF first_bin(p) + TILE_R < num_bins
                       THEN first_bin(p) + TILE_R ELSE num_bins
    BY DEF end_bin
  <2>. QED BY <1>1, <1>8, <2>1
<1>. QED BY <1>4, <1>8, <1>9

\* Each bin of each tile has its program.
LEMMA OwnerFacts ==
  ASSUME NEW t \in Tiles, NEW b \in Bins
  PROVE  \E p \in Programs :
           pid_n(p) = t /\ first_bin(p) <= b /\ b <= end_bin(p) - 1
<1>1. grid_n \in Nat \ {0} /\ grid_r \in Nat \ {0} /\ num_bins \in Nat \ {0}
      /\ TILE_R \in Nat \ {0}
  BY Sizes
<1> DEFINE q == b \div TILE_R
           p == q * grid_n + t
<1>2. t \in 0 .. grid_n - 1 /\ b \in Nat /\ b < num_bins
  BY <1>1 DEF Tiles, Bins
<1>3. q \in 0 .. grid_r - 1
  BY Sizes
<1>4. b = q * TILE_R + (b % TILE_R) /\ b % TILE_R \in 0 .. TILE_R - 1
  BY <1>1, <1>2, DivMod
<1> HIDE DEF q
<1>5. q * grid_n \in Nat /\ grid_r * grid_n \in Nat
      /\ q * grid_n + grid_n <= grid_r * grid_n
      /\ grid_r * grid_n = grid_n * grid_r
  <2>1. q < grid_r /\ q \in Nat
    BY <1>1, <1>3
  <2>2. grid_r * grid_n = grid_n * grid_r
    BY <1>1
  <2>. QED BY <1>1, <2>1, <2>2, TimesGrows
<1>6. p \in Programs /\ p \in Nat
  <2> DEFINE m == grid_n * grid_r
             n == q * grid_n
  <2>1. m \in Nat /\ n \in Nat /\ n + grid_n <= m /\ p = n + t
    BY <1>5
  <2> HIDE DEF m, n, p
  <2>2. p \in 0 .. m - 1 /\ p \in Nat
    BY <1>1, <1>2, <2>1
  <2>. QED BY <2>2 DEF Programs, m
<1>7. p \div grid_n = q /\ p % grid_n = t
  <2>1. q \in Nat /\ p = q * grid_n + t
    BY <1>1, <1>3
  <2> HIDE DEF p
  <2>. QED BY <1>1, <1>2, <1>6, <2>1, DivUnique
<1> HIDE DEF p
<1>8. pid_n(p) = t /\ first_bin(p) = q * TILE_R
  BY <1>7 DEF pid_n, first_bin
<1>9. q * TILE_R \in Nat
  BY <1>1, <1>3
<1>10. first_bin(p) \in Nat /\ b = first_bin(p) + (b % TILE_R)
  BY <1>4, <1>8, <1>9
<1>11. end_bin(p) = IF first_bin(p) + TILE_R < num_bins
                      THEN first_bin(p) + TILE_R ELSE num_bins
  BY DEF end_bin
<1>12. first_bin(p) <= b /\ b <= end_bin(p) - 1
  BY <1>1, <1>2, <1>4, <1>10, <1>11
<1>. QED BY <1>6, <1>8, <1>12

-----------------------------------------------------------------------------
(***************************************************************************)
(* What the programs count                                                 *)
(***************************************************************************)
CountOf(f, p, b, s, t) ==
  {x \in Row : s <= x \div TILE_N /\ x \div TILE_N <= t /\ digit(f[x], p) = b}

LEMMA CountInIs ==
  \A b, s, t : CountIn(b, s, t) = Cardinality(CountOf(arr_in, pass, b, s, t))
BY DEF CountIn, CountOf, Row

LEMMA TileOf == \A x \in Row : x \div TILE_N \in Nat /\ x \div TILE_N \in Tiles
<1> SUFFICES ASSUME NEW x \in Row
             PROVE  x \div TILE_N \in Nat /\ x \div TILE_N \in Tiles
  OBVIOUS
<1>1. x \div TILE_N \in 0 .. grid_n - 1 /\ grid_n \in Nat
  BY Sizes DEF Row
<1> DEFINE q == x \div TILE_N
<1> HIDE DEF q
<1>2. q \in 0 .. grid_n - 1
  BY <1>1 DEF q
<1>3. q \in Nat /\ q \in Tiles
  BY <1>1, <1>2 DEF Tiles
<1>. QED BY <1>3 DEF q

\* Counts over neighbouring tiles add up; none is counted where there are none.
LEMMA CountInAdds ==
  ASSUME NEW b, NEW s \in Int, NEW t \in Int, NEW u \in Int, s <= t + 1, t <= u
  PROVE  /\ CountIn(b, s, u) = CountIn(b, s, t) + CountIn(b, t + 1, u)
         /\ CountIn(b, s, t) \in Nat /\ CountIn(b, t + 1, u) \in Nat
         /\ CountIn(b, s, u) \in Nat
<1> DEFINE C(i, j) == CountOf(arr_in, pass, b, i, j)
<1>1. C(s, u) = C(s, t) \cup C(t + 1, u)
  BY TileOf DEF CountOf
<1>2. C(s, t) \cap C(t + 1, u) = {}
  BY TileOf DEF CountOf
<1>3. C(s, t) \in SUBSET Row /\ C(t + 1, u) \in SUBSET Row
  BY DEF CountOf
<1> HIDE DEF C
<1>4. /\ Cardinality(C(s, u)) = Cardinality(C(s, t)) + Cardinality(C(t + 1, u))
      /\ Cardinality(C(s, t)) \in Nat /\ Cardinality(C(t + 1, u)) \in Nat
  BY <1>1, <1>2, <1>3, CountsAdd
<1>5. \A i, j : CountIn(b, i, j) = Cardinality(C(i, j))
  BY CountInIs DEF C
<1>. QED BY <1>4, <1>5

LEMMA CountInNone ==
  ASSUME NEW b, NEW s \in Int
  PROVE  CountIn(b, s, s - 1) = 0
<1>1. CountOf(arr_in, pass, b, s, s - 1) = {}
  BY TileOf DEF CountOf
<1>. QED BY <1>1, CountInIs, FS_EmptySet

LEMMA LocalSum ==
  ASSUME NEW p \in Programs
  PROVE  /\ local_sum(p) = CountIn(bin[p], pid_n(p), pid_n(p))
         /\ local_sum(p) \in Nat
<1>1. pid_n(p) \in Nat
  BY ProgramFacts
<1>2. Matches(p, bin[p]) = CountOf(arr_in, pass, bin[p], pid_n(p), pid_n(p))
  BY <1>1, TileOf DEF Matches, CountOf, Row
<1>3. Matches(p, bin[p]) \in SUBSET Row
  BY DEF Matches, Row
<1>4. Cardinality(Matches(p, bin[p])) \in Nat
  BY <1>3, RowCount, Sizes
<1>. QED BY <1>2, <1>4, CountInIs DEF local_sum

\* Where a program puts an element is where the pass deals it.
LEMMA PosIs ==
  ASSUME RadixInv, NEW p \in Programs, pc[p] = "scatter",
         NEW x \in Matches(p, bin[p])
  PROVE  Pos(p, x) = To(arr_in, pass, x) /\ x \in Row
<1>1. x \in Row /\ x \div TILE_N = pid_n(p) /\ digit(arr_in[x], pass) = bin[p]
  BY DEF Matches, Row
<1>2. pass < n_passes /\ pass \in Nat /\ pass \in 0 .. n_passes - 1
  <2>1. n_passes \in Nat
    BY Sizes
  <2>. QED BY <2>1 DEF RadixInv, RadixTypes, BinsOK
<1>3. bin[p] \in Bins
  <2>1. digit(arr_in[x], pass) \in Bins
    BY <1>1, <1>2, DigitType DEF RadixInv, RadixTypes
  <2>. QED BY <1>1, <2>1
<1>4. pid_n(p) \in Nat
  BY ProgramFacts
<1> DEFINE b == bin[p]
           t == pid_n(p)
           A == {y \in Row : digit(arr_in[y], pass) < b}
           B == CountOf(arr_in, pass, b, 0, t - 1)
           C == {y \in Matches(p, b) : y < x}
<1>5. ex_cumsum_bins[pass][b] = Cardinality(A)
  BY <1>2, <1>3 DEF RadixInv, SortedSoFar, ex_cumsum, Row
<1>6. exclusive_prefix[p] = Cardinality(B)
  BY CountInIs DEF RadixInv, LookBackOK
<1>7. A \in SUBSET Row /\ B \in SUBSET Row /\ C \in SUBSET Row
  BY DEF CountOf, Matches, Row
<1>8. \A y \in Row : /\ digit(arr_in[y], pass) \in Nat /\ y \in Nat
                     /\ y \div TILE_N \in Nat
  <2>1. \A y \in Row : arr_in[y] \in Elements
    BY DEF RadixInv, RadixTypes
  <2>2. \A y \in Row : digit(arr_in[y], pass) \in Nat
    BY <1>2, <2>1, DigitType
  <2>3. \A y \in Row : y \in Nat
    BY Sizes DEF Row
  <2>. QED BY <2>2, <2>3, TileOf
<1>9. A \cap B = {} /\ (A \cup B) \cap C = {}
  BY <1>4, <1>8 DEF CountOf, Matches, Row
<1>10. {y \in Row : Ahead(arr_in, pass, y, x)} = (A \cup B) \cup C
  <2>1. ASSUME NEW y \in Row, digit(arr_in[y], pass) = b
        PROVE  y < x <=> (y \div TILE_N <= t - 1 \/ (y \div TILE_N = t /\ y < x))
    <3>1. y <= x => y \div TILE_N <= x \div TILE_N
      BY <1>1, <1>8, DivMono, Sizes
    <3>2. x <= y => x \div TILE_N <= y \div TILE_N
      BY <1>1, <1>8, DivMono, Sizes
    <3>. QED BY <1>1, <1>4, <1>8, <3>1, <3>2
  <2>2. ASSUME NEW y \in Row
        PROVE  Ahead(arr_in, pass, y, x) <=> y \in (A \cup B) \cup C
    <3>1. y \in A <=> digit(arr_in[y], pass) < b
      OBVIOUS
    <3>2. y \in B <=> y \div TILE_N <= t - 1 /\ digit(arr_in[y], pass) = b
      BY <1>8 DEF CountOf
    <3>3. y \in C <=> y \div TILE_N = t /\ digit(arr_in[y], pass) = b /\ y < x
      BY DEF Matches, Row
    <3>4. Ahead(arr_in, pass, y, x) <=>
            \/ digit(arr_in[y], pass) < b
            \/ digit(arr_in[y], pass) = b /\ y < x
      BY <1>1 DEF Ahead
    <3> HIDE DEF A, B, C, b, t
    <3>. QED BY <2>1, <3>1, <3>2, <3>3, <3>4
  <2>. QED BY <1>7, <2>2
<1> HIDE DEF A, B, C
<1>11. Cardinality((A \cup B) \cup C)
         = Cardinality(A) + Cardinality(B) + Cardinality(C)
  <2>1. A \cup B \in SUBSET Row
    BY <1>7
  <2>2. Cardinality(A \cup B) = Cardinality(A) + Cardinality(B)
    BY <1>7, <1>9, CountsAdd
  <2>3. Cardinality((A \cup B) \cup C) = Cardinality(A \cup B) + Cardinality(C)
    BY <1>7, <1>9, <2>1, CountsAdd
  <2>. QED BY <2>2, <2>3
<1>12. Pos(p, x) = Cardinality(A) + Cardinality(B) + Cardinality(C)
  BY <1>5, <1>6 DEF Pos, C
<1>. QED BY <1>1, <1>10, <1>11, <1>12 DEF To
-----------------------------------------------------------------------------
(***************************************************************************)
(* Invariance                                                              *)
(***************************************************************************)
LEMMA InitInv == Init => RadixInv
<1> SUFFICES ASSUME Init PROVE RadixInv
  OBVIOUS
<1>1. PICK k \in [Row -> Keys] : arr_in = [x \in Row |-> [key |-> k[x], index |-> x]]
  BY DEF Init, Row
<1>2. \A x \in Row : arr_in[x] = [key |-> k[x], index |-> x] /\ arr_in[x] \in Elements
  BY <1>1 DEF Elements, Row
<1>3. /\ arr_out = [x \in Row |-> Stale] /\ status = Zeroed /\ pass = 0 /\ started = 0
      /\ pc = [p \in Programs |-> "waiting"]
      /\ bin = [p \in Programs |-> first_bin(p)]
      /\ i_lookback = [p \in Programs |-> -1]
      /\ exclusive_prefix = [p \in Programs |-> 0]
      /\ ex_cumsum_bins = ex_cumsum(arr_in)
  BY DEF Init, Row
<1>4. RadixTypes
  <2>1. arr_in \in [Row -> Elements]
    BY <1>1, <1>2
  <2>2. status \in [Bins -> [Tiles -> Flags \X Nat]]
    BY <1>3 DEF Zeroed, Flags, Tiles
  <2>3. bin \in [Programs -> Nat]
    BY <1>3, ProgramFacts
  <2>4. pass \in 0 .. n_passes /\ started \in Nat
    BY <1>3, Sizes
  <2>5. pc \in [Programs -> Places] /\ i_lookback \in [Programs -> Int]
        /\ exclusive_prefix \in [Programs -> Nat]
    BY <1>3 DEF Places
  <2>6. arr_out = [x \in Row |-> arr_out[x]]
    BY <1>3
  <2>. QED BY <2>1, <2>2, <2>3, <2>4, <2>5, <2>6 DEF RadixTypes
<1>5. BinsOK
  BY <1>3, ProgramFacts DEF BinsOK
<1>6. LookBackOK
  BY <1>3 DEF LookBackOK
<1>7. WordsTrue
  BY <1>3 DEF WordsTrue, Zeroed
<1>8. DealtSoFar
  <2>1. ASSUME NEW p \in Programs, NEW x \in Row, Scattered(p, x) PROVE FALSE
    <3>1. digit(arr_in[x], pass) \in Nat
      BY <1>2, <1>3, DigitType
    <3>2. bin[p] = first_bin(p) /\ pc[p] = "waiting" /\ first_bin(p) \in Nat
      BY <1>3, ProgramFacts
    <3>. QED BY <2>1, <3>1, <3>2 DEF Scattered
  <2>. QED BY <2>1 DEF DealtSoFar
<1>9. SortedSoFar
  <2>1. \A x \in Row : Low(arr_in[x], pass) = 0 /\ arr_in[x].index = x
    <3>1. \A x \in Row : Low(arr_in[x], 0) = 0
      BY <1>2, LowEnds
    <3>2. ASSUME NEW x \in Row PROVE arr_in[x].index = x
      <4>1. arr_in[x] = [key |-> k[x], index |-> x]
        BY <1>2
      <4>2. [key |-> k[x], index |-> x].index = x
        OBVIOUS
      <4>. QED BY <4>1, <4>2
    <3>3. pass = 0
      BY <1>3
    <3>. QED BY <3>1, <3>2, <3>3
  <2>2. SortedBy(arr_in, pass)
    BY <2>1 DEF SortedBy
  <2>3. IndicesOf(arr_in) = Row
    BY <2>1 DEF IndicesOf
  <2>. QED BY <1>3, <2>2, <2>3 DEF SortedSoFar
<1>. QED BY <1>4, <1>5, <1>6, <1>7, <1>8, <1>9 DEF RadixInv

\* What a step of a program leaves alone keeps its meaning.
LEMMA SameRow ==
  ASSUME UNCHANGED <<arr_in, pass>>
  PROVE  /\ \A b, s, t : CountIn(b, s, t)' = CountIn(b, s, t)
         /\ \A x : digit(arr_in[x], pass)' = digit(arr_in[x], pass)
         /\ \A x : To(arr_in, pass, x)' = To(arr_in, pass, x)
         /\ SortedBy(arr_in, pass)' <=> SortedBy(arr_in, pass)
<1>1. \A b, s, t : CountIn(b, s, t)' = CountIn(b, s, t)
  BY DEF CountIn, digit
<1>2. \A x : digit(arr_in[x], pass)' = digit(arr_in[x], pass)
  BY DEF digit
<1>3. \A x : To(arr_in, pass, x)' = To(arr_in, pass, x)
  BY DEF To, Ahead, digit
<1>4. SortedBy(arr_in, pass)' <=> SortedBy(arr_in, pass)
  BY DEF SortedBy, Low
<1>. QED BY <1>1, <1>2, <1>3, <1>4

LEMMA SortedKept ==
  ASSUME SortedSoFar, UNCHANGED <<arr_in, pass, ex_cumsum_bins>>
  PROVE  SortedSoFar'
<1>1. SortedBy(arr_in, pass)'
  BY SameRow DEF SortedSoFar
<1>2. (IndicesOf(arr_in) = Row)'
  BY DEF SortedSoFar, IndicesOf
<1>3. (ex_cumsum_bins = ex_cumsum(arr_in))'
  BY DEF SortedSoFar, ex_cumsum, digit
<1>. QED BY <1>1, <1>2, <1>3 DEF SortedSoFar

\* A step that moves no program over a bin has dealt as much.
LEMMA DealtKept ==
  ASSUME RadixInv, UNCHANGED <<arr_in, arr_out, pass, bin>>,
         \A p \in Programs : pc'[p] = "exited" => pc[p] = "exited"
  PROVE  DealtSoFar'
<1> SUFFICES ASSUME NEW p \in Programs, NEW x \in Row, Scattered(p, x)'
    PROVE  (arr_out[To(arr_in, pass, x)] = arr_in[x])'
  BY DEF DealtSoFar
<1>1. Scattered(p, x)
  BY SameRow DEF Scattered
<1>. QED BY <1>1, SameRow DEF RadixInv, DealtSoFar

LEMMA StartInv ==
  ASSUME RadixInv, Start
  PROVE  RadixInv'
<1>1. /\ pass < n_passes /\ started \in Programs
      /\ pc[started] = "waiting" /\ pc' = [pc EXCEPT ![started] = "publish"]
      /\ started' = started + 1
      /\ UNCHANGED <<arr_in, arr_out, ex_cumsum_bins, status, pass, bin,
                     i_lookback, exclusive_prefix>>
  BY DEF Start, Goto
<1>2. RadixTypes'
  <2>1. pc' \in [Programs -> Places]
    BY <1>1 DEF RadixInv, RadixTypes, Places
  <2>2. started' \in Nat
    BY <1>1 DEF RadixInv, RadixTypes
  <2>. QED BY <1>1, <2>1, <2>2 DEF RadixInv, RadixTypes
<1>3. \A p \in Programs : pc'[p] = IF p = started THEN "publish" ELSE pc[p]
  BY <1>1 DEF RadixInv, RadixTypes
<1>4. BinsOK'
  BY <1>1, <1>3 DEF RadixInv, BinsOK
<1>5. LookBackOK'
  BY <1>1, <1>3, SameRow DEF RadixInv, LookBackOK
<1>6. WordsTrue'
  BY <1>1, <1>3, SameRow DEF RadixInv, WordsTrue
<1>7. DealtSoFar'
  BY <1>1, <1>3, DealtKept
<1>8. SortedSoFar'
  BY <1>1, SortedKept DEF RadixInv
<1>. QED BY <1>2, <1>4, <1>5, <1>6, <1>7, <1>8 DEF RadixInv

\* The word of a program is that of its bin and tile.
LEMMA WordFacts ==
  ASSUME RadixInv, NEW p \in Programs
  PROVE  /\ bin[p] \in Bins /\ pid_n(p) \in Tiles /\ pid_n(p) \in Nat
         /\ bin[p] \in Nat /\ local_sum(p) \in Nat
         /\ local_sum(p) = CountIn(bin[p], pid_n(p), pid_n(p))
         /\ \A b \in Bins, t \in Tiles :
              status[b][t][1] \in Flags /\ status[b][t][2] \in Nat
<1>1. /\ first_bin(p) \in Nat /\ end_bin(p) \in Nat /\ end_bin(p) <= num_bins
      /\ pid_n(p) \in Tiles /\ pid_n(p) \in Nat
  BY ProgramFacts
<1>2. bin[p] \in first_bin(p) .. end_bin(p) - 1
  BY DEF RadixInv, BinsOK
<1>3. bin[p] \in Bins /\ bin[p] \in Nat
  <2>1. num_bins \in Nat
    BY Sizes
  <2> HIDE DEF Bins
  <2>2. bin[p] \in 0 .. num_bins - 1 /\ bin[p] \in Nat
    BY <1>1, <1>2, <2>1
  <2>. QED BY <2>2 DEF Bins
<1>4. \A b \in Bins, t \in Tiles :
        status[b][t][1] \in Flags /\ status[b][t][2] \in Nat
  <2>1. \A b \in Bins, t \in Tiles : status[b][t] \in Flags \X Nat
    BY DEF RadixInv, RadixTypes
  <2>. QED BY <2>1
<1>. QED BY <1>1, <1>3, <1>4, LocalSum

LEMMA PublishInv ==
  ASSUME RadixInv, NEW p \in Programs, Publish(p)
  PROVE  RadixInv'
<1> DEFINE b == bin[p]
           t == pid_n(p)
<1>1. /\ pc[p] = "publish" /\ pc' = [pc EXCEPT ![p] = "look_back"]
      /\ status' = [status EXCEPT ![b][t] = <<"aggregate", local_sum(p)>>]
      /\ exclusive_prefix' = [exclusive_prefix EXCEPT ![p] = 0]
      /\ i_lookback' = [i_lookback EXCEPT ![p] = t - 1]
      /\ UNCHANGED <<arr_in, arr_out, ex_cumsum_bins, pass, started, bin>>
  BY DEF Publish, Goto
<1>2. /\ b \in Bins /\ t \in Tiles /\ t \in Nat /\ local_sum(p) \in Nat
      /\ local_sum(p) = CountIn(b, t, t)
  BY WordFacts
<1>3. \A q \in Programs :
        /\ pc'[q] = IF q = p THEN "look_back" ELSE pc[q]
        /\ exclusive_prefix'[q] = IF q = p THEN 0 ELSE exclusive_prefix[q]
        /\ i_lookback'[q] = IF q = p THEN t - 1 ELSE i_lookback[q]
        /\ bin'[q] = bin[q]
  BY <1>1 DEF RadixInv, RadixTypes
<1>4. \A c \in Bins, s \in Tiles :
        status'[c][s] = IF c = b /\ s = t THEN <<"aggregate", local_sum(p)>>
                                          ELSE status[c][s]
  BY <1>1, <1>2 DEF RadixInv, RadixTypes
<1> HIDE DEF b, t
<1>5. RadixTypes'
  <2>1. pc' \in [Programs -> Places]
    BY <1>1 DEF RadixInv, RadixTypes, Places
  <2>2. status' \in [Bins -> [Tiles -> Flags \X Nat]]
    <3>1. <<"aggregate", local_sum(p)>> \in Flags \X Nat
      BY <1>2 DEF Flags
    <3>. QED BY <1>1, <1>2, <3>1 DEF RadixInv, RadixTypes
  <2>3. exclusive_prefix' \in [Programs -> Nat]
    BY <1>1 DEF RadixInv, RadixTypes
  <2>4. i_lookback' \in [Programs -> Int]
    BY <1>1, <1>2 DEF RadixInv, RadixTypes
  <2>. QED BY <1>1, <2>1, <2>2, <2>3, <2>4 DEF RadixInv, RadixTypes
<1>6. BinsOK'
  BY <1>1, <1>3 DEF RadixInv, BinsOK
<1>7. LookBackOK'
  <2>1. t - 1 \in -1 .. pid_n(p) - 1
    BY <1>2 DEF t
  <2>. QED BY <1>1, <1>3, <2>1, SameRow DEF RadixInv, LookBackOK
<1>8. WordsTrue'
  <2>1. ASSUME NEW c \in Bins, NEW s \in Tiles
        PROVE  /\ status'[c][s][1] = "aggregate"
                    => status'[c][s][2] = CountIn(c, s, s)
               /\ status'[c][s][1] = "prefix"
                    => status'[c][s][2] = CountIn(c, 0, s)
    BY <1>2, <1>4 DEF RadixInv, WordsTrue, Tiles
  <2>2. ASSUME NEW q \in Programs, pc'[q] = "look_back"
        PROVE  exclusive_prefix'[q]
                 = CountIn(bin[q], i_lookback'[q] + 1, pid_n(q) - 1)
    <3>1. CASE q = p
      <4>1. CountIn(bin[q], t, t - 1) = 0
        BY <1>2, CountInNone
      <4>. QED BY <1>2, <1>3, <3>1, <4>1 DEF t
    <3>2. CASE q # p
      BY <1>3, <2>2, <3>2 DEF RadixInv, WordsTrue
    <3>. QED BY <3>1, <3>2
  <2>. QED BY <1>1, <2>1, <2>2, SameRow DEF WordsTrue, Tiles
<1>9. DealtSoFar'
  BY <1>1, <1>3, DealtKept
<1>10. SortedSoFar'
  BY <1>1, SortedKept DEF RadixInv
<1>. QED BY <1>5, <1>6, <1>7, <1>8, <1>9, <1>10 DEF RadixInv

LEMMA LookBackInv ==
  ASSUME RadixInv, NEW p \in Programs, LookBack(p)
  PROVE  RadixInv'
<1> DEFINE b == bin[p]
           t == pid_n(p)
           k == i_lookback[p]
           word == status[b][k]
<1>1. /\ pc[p] = "look_back" /\ pc' = [pc EXCEPT ![p] = "look_back"]
      /\ k >= 0 /\ word[1] # "zero"
      /\ exclusive_prefix' =
           [exclusive_prefix EXCEPT ![p] = exclusive_prefix[p] + word[2]]
      /\ i_lookback' =
           [i_lookback EXCEPT ![p] = IF word[1] = "aggregate" THEN k - 1 ELSE -1]
      /\ UNCHANGED <<arr_in, arr_out, ex_cumsum_bins, status, pass, started, bin>>
  BY DEF LookBack, Goto
<1>2. pc' = pc
  BY <1>1 DEF RadixInv, RadixTypes
<1>3. b \in Bins /\ t \in Tiles /\ t \in Nat
  BY WordFacts
<1>4. k \in -1 .. t - 1 /\ k \in Nat /\ k \in Tiles
  <2>1. k \in -1 .. t - 1
    BY <1>1 DEF RadixInv, LookBackOK
  <2>2. k \in Nat /\ k <= t - 1
    BY <1>1, <1>3, <2>1
  <2>. QED BY <1>3, <2>1, <2>2, Sizes DEF Tiles
<1>5. word[1] \in {"aggregate", "prefix"} /\ word[2] \in Nat
  BY <1>1, <1>3, <1>4, WordFacts DEF Flags
<1>6. exclusive_prefix[p] = CountIn(b, k + 1, t - 1)
      /\ exclusive_prefix[p] \in Nat
  BY <1>1 DEF RadixInv, WordsTrue, RadixTypes
<1>7. /\ word[1] = "aggregate" => word[2] = CountIn(b, k, k)
      /\ word[1] = "prefix" => word[2] = CountIn(b, 0, k)
  BY <1>3, <1>4 DEF RadixInv, WordsTrue, Tiles
<1>8. \A q \in Programs :
        /\ exclusive_prefix'[q] =
             IF q = p THEN exclusive_prefix[p] + word[2] ELSE exclusive_prefix[q]
        /\ i_lookback'[q] =
             IF q = p THEN (IF word[1] = "aggregate" THEN k - 1 ELSE -1)
                      ELSE i_lookback[q]
  BY <1>1 DEF RadixInv, RadixTypes
<1>9. /\ CountIn(b, k, t - 1) = CountIn(b, k, k) + CountIn(b, k + 1, t - 1)
      /\ CountIn(b, 0, t - 1) = CountIn(b, 0, k) + CountIn(b, k + 1, t - 1)
      /\ CountIn(b, k, k) \in Nat /\ CountIn(b, 0, k) \in Nat
      /\ CountIn(b, k + 1, t - 1) \in Nat
  <2> HIDE DEF b, t, k
  <2>1. k \in Int /\ t - 1 \in Int /\ 0 \in Int /\ k <= k + 1 /\ 0 <= k + 1
        /\ k <= t - 1
    BY <1>3, <1>4
  <2>2. /\ CountIn(b, k, t - 1) = CountIn(b, k, k) + CountIn(b, k + 1, t - 1)
        /\ CountIn(b, k, k) \in Nat /\ CountIn(b, k + 1, t - 1) \in Nat
    BY <2>1, CountInAdds
  <2>3. /\ CountIn(b, 0, t - 1) = CountIn(b, 0, k) + CountIn(b, k + 1, t - 1)
        /\ CountIn(b, 0, k) \in Nat
    BY <2>1, CountInAdds
  <2>. QED BY <2>2, <2>3
<1> HIDE DEF b, t, k, word
<1>10. RadixTypes'
  <2>1. exclusive_prefix' \in [Programs -> Nat]
    BY <1>1, <1>5, <1>6 DEF RadixInv, RadixTypes
  <2>2. i_lookback' \in [Programs -> Int]
    <3>1. (IF word[1] = "aggregate" THEN k - 1 ELSE -1) \in Int
      BY <1>4
    <3>. QED BY <1>1, <3>1 DEF RadixInv, RadixTypes
  <2>. QED BY <1>1, <1>2, <2>1, <2>2 DEF RadixInv, RadixTypes
<1>11. BinsOK'
  BY <1>1, <1>2 DEF RadixInv, BinsOK
<1>12. LookBackOK'
  <2>1. (IF word[1] = "aggregate" THEN k - 1 ELSE -1) \in -1 .. pid_n(p) - 1
    BY <1>3, <1>4 DEF t
  <2>. QED BY <1>1, <1>2, <1>8, <2>1, SameRow DEF RadixInv, LookBackOK
<1>13. WordsTrue'
  <2>1. ASSUME NEW q \in Programs, pc[q] = "look_back"
        PROVE  exclusive_prefix'[q]
                 = CountIn(bin[q], i_lookback'[q] + 1, pid_n(q) - 1)
    <3>1. CASE q = p /\ word[1] = "aggregate"
      <4>1. i_lookback'[q] + 1 = k
        BY <1>4, <1>8, <3>1
      <4>2. exclusive_prefix'[q] = CountIn(b, k, t - 1)
        BY <1>6, <1>7, <1>8, <1>9, <3>1
      <4>. QED BY <3>1, <4>1, <4>2 DEF b, t
    <3>2. CASE q = p /\ word[1] = "prefix"
      <4>1. i_lookback'[q] + 1 = 0
        BY <1>8, <3>2
      <4>2. exclusive_prefix'[q] = CountIn(b, 0, t - 1)
        BY <1>6, <1>7, <1>8, <1>9, <3>2
      <4>. QED BY <3>2, <4>1, <4>2 DEF b, t
    <3>3. CASE q # p
      BY <1>8, <2>1, <3>3 DEF RadixInv, WordsTrue
    <3>. QED BY <1>5, <3>1, <3>2, <3>3
  <2>2. \A c \in Bins : \A s \in 0 .. grid_n - 1 :
          /\ status'[c][s][1] = "aggregate" => status'[c][s][2] = CountIn(c, s, s)
          /\ status'[c][s][1] = "prefix" => status'[c][s][2] = CountIn(c, 0, s)
    BY <1>1 DEF RadixInv, WordsTrue
  <2>. QED BY <1>1, <1>2, <2>1, <2>2, SameRow DEF WordsTrue
<1>14. DealtSoFar'
  BY <1>1, <1>2, DealtKept
<1>15. SortedSoFar'
  BY <1>1, SortedKept DEF RadixInv
<1>. QED BY <1>10, <1>11, <1>12, <1>13, <1>14, <1>15 DEF RadixInv

LEMMA PublishPrefixInv ==
  ASSUME RadixInv, NEW p \in Programs, PublishPrefix(p)
  PROVE  RadixInv'
<1> DEFINE b == bin[p]
           t == pid_n(p)
           sum == exclusive_prefix[p] + local_sum(p)
<1>1. /\ pc[p] = "look_back" /\ pc' = [pc EXCEPT ![p] = "scatter"]
      /\ i_lookback[p] < 0
      /\ status' = [status EXCEPT ![b][t] = <<"prefix", sum>>]
      /\ UNCHANGED <<arr_in, arr_out, ex_cumsum_bins, pass, started, bin,
                     i_lookback, exclusive_prefix>>
  BY DEF PublishPrefix, Goto
<1>2. /\ b \in Bins /\ t \in Tiles /\ t \in Nat /\ local_sum(p) \in Nat
      /\ local_sum(p) = CountIn(b, t, t)
  BY WordFacts
<1>3. i_lookback[p] + 1 = 0
  <2>1. i_lookback[p] \in -1 .. t - 1
    BY <1>1 DEF RadixInv, LookBackOK
  <2>. QED BY <1>1, <1>2, <2>1
<1>4. exclusive_prefix[p] = CountIn(b, 0, t - 1) /\ exclusive_prefix[p] \in Nat
  BY <1>1, <1>3 DEF RadixInv, WordsTrue, RadixTypes
<1>5. sum = CountIn(b, 0, t) /\ sum \in Nat
  <2>1. CountIn(b, 0, t) = CountIn(b, 0, t - 1) + CountIn(b, (t - 1) + 1, t)
    BY <1>2, CountInAdds
  <2>2. (t - 1) + 1 = t
    BY <1>2
  <2>. QED BY <1>2, <1>4, <2>1, <2>2
<1>6. \A q \in Programs : pc'[q] = IF q = p THEN "scatter" ELSE pc[q]
  BY <1>1 DEF RadixInv, RadixTypes
<1>7. \A c \in Bins, s \in Tiles :
        status'[c][s] = IF c = b /\ s = t THEN <<"prefix", sum>> ELSE status[c][s]
  BY <1>1, <1>2 DEF RadixInv, RadixTypes
<1> HIDE DEF b, t, sum
<1>8. RadixTypes'
  <2>1. pc' \in [Programs -> Places]
    BY <1>1 DEF RadixInv, RadixTypes, Places
  <2>2. status' \in [Bins -> [Tiles -> Flags \X Nat]]
    <3>1. <<"prefix", sum>> \in Flags \X Nat
      BY <1>5 DEF Flags
    <3>. QED BY <1>1, <1>2, <3>1 DEF RadixInv, RadixTypes
  <2>. QED BY <1>1, <2>1, <2>2 DEF RadixInv, RadixTypes
<1>9. BinsOK'
  BY <1>1, <1>6 DEF RadixInv, BinsOK
<1>10. LookBackOK'
  <2>1. exclusive_prefix[p] = CountIn(bin[p], 0, pid_n(p) - 1)
    BY <1>4 DEF b, t
  <2>. QED BY <1>1, <1>6, <2>1, SameRow DEF RadixInv, LookBackOK
<1>11. WordsTrue'
  <2>1. ASSUME NEW c \in Bins, NEW s \in Tiles
        PROVE  /\ status'[c][s][1] = "aggregate"
                    => status'[c][s][2] = CountIn(c, s, s)
               /\ status'[c][s][1] = "prefix"
                    => status'[c][s][2] = CountIn(c, 0, s)
    BY <1>2, <1>5, <1>7 DEF RadixInv, WordsTrue, Tiles
  <2>2. ASSUME NEW q \in Programs, pc'[q] = "look_back"
        PROVE  exclusive_prefix[q]
                 = CountIn(bin[q], i_lookback[q] + 1, pid_n(q) - 1)
    BY <1>6, <2>2 DEF RadixInv, WordsTrue
  <2>. QED BY <1>1, <2>1, <2>2, SameRow DEF WordsTrue, Tiles
<1>12. DealtSoFar'
  BY <1>1, <1>6, DealtKept
<1>13. SortedSoFar'
  BY <1>1, SortedKept DEF RadixInv
<1>. QED BY <1>8, <1>9, <1>10, <1>11, <1>12, <1>13 DEF RadixInv

LEMMA ScatterInv ==
  ASSUME RadixInv, NEW p \in Programs, Scatter(p)
  PROVE  RadixInv'
<1> DEFINE M == Matches(p, bin[p])
           T(x) == To(arr_in, pass, x)
<1>1. /\ pc[p] = "scatter"
      /\ arr_out' = [z \in DOMAIN arr_out \cup {Pos(p, x) : x \in M} |->
                       IF \E x \in M : Pos(p, x) = z
                         THEN arr_in[CHOOSE x \in M : Pos(p, x) = z]
                         ELSE arr_out[z]]
      /\ UNCHANGED <<arr_in, ex_cumsum_bins, status, pass, started, i_lookback,
                     exclusive_prefix>>
  BY DEF Scatter
<1>2. \/ /\ bin[p] + 1 < end_bin(p)
         /\ bin' = [bin EXCEPT ![p] = bin[p] + 1]
         /\ pc' = [pc EXCEPT ![p] = "publish"]
      \/ /\ ~(bin[p] + 1 < end_bin(p))
         /\ bin' = bin
         /\ pc' = [pc EXCEPT ![p] = "exited"]
  BY DEF Scatter
<1>3. /\ arr_in \in [Row -> Elements] /\ pass \in Nat
      /\ arr_out = [z \in Row |-> arr_out[z]]
  BY Sizes DEF RadixInv, RadixTypes
<1>4. \A x \in M : Pos(p, x) = T(x) /\ x \in Row
  BY <1>1, PosIs
<1>5. \A x \in Row : T(x) \in Row
  BY <1>3, ToOrder
<1>6. \A x, y \in Row : T(x) = T(y) => x = y
  BY <1>3, ToUnique
<1>7. DOMAIN arr_out \cup {Pos(p, x) : x \in M} = Row
  <2>1. DOMAIN arr_out = Row
    BY <1>3
  <2>2. {Pos(p, x) : x \in M} \subseteq Row
    BY <1>4, <1>5
  <2>. QED BY <2>1, <2>2
<1> HIDE DEF M, T
<1>8. /\ arr_out' = [z \in Row |-> arr_out'[z]]
      /\ \A z \in Row : arr_out'[z] = IF \E x \in M : Pos(p, x) = z
                                        THEN arr_in[CHOOSE x \in M : Pos(p, x) = z]
                                        ELSE arr_out[z]
  BY <1>1, <1>7
\* The elements of the tile and the bin are dealt, and no other is overwritten.
<1>9. ASSUME NEW x \in Row, x \in M \/ arr_out[T(x)] = arr_in[x]
      PROVE  arr_out'[T(x)] = arr_in[x]
  <2>1. T(x) \in Row
    BY <1>5
  <2>2. CASE \E y \in M : Pos(p, y) = T(x)
    <3> DEFINE y == CHOOSE y \in M : Pos(p, y) = T(x)
    <3>1. y \in M /\ Pos(p, y) = T(x)
      BY <2>2
    <3>2. arr_out'[T(x)] = arr_in[y]
      BY <1>8, <2>1, <2>2
    <3> HIDE DEF y
    <3>3. y = x
      BY <1>4, <1>6, <3>1
    <3>. QED BY <3>2, <3>3
  <2>3. CASE ~ \E y \in M : Pos(p, y) = T(x)
    <3>1. x \notin M
      BY <1>4, <2>3
    <3>2. arr_out'[T(x)] = arr_out[T(x)]
      BY <1>8, <2>1, <2>3
    <3>. QED BY <1>9, <3>1, <3>2
  <2>. QED BY <2>2, <2>3
<1>10. /\ bin[p] \in Nat /\ bin[p] \in first_bin(p) .. end_bin(p) - 1
       /\ first_bin(p) \in Nat /\ end_bin(p) \in Nat
  BY WordFacts, ProgramFacts DEF RadixInv, BinsOK
<1>11. \A q \in Programs : q # p => bin'[q] = bin[q] /\ pc'[q] = pc[q]
  BY <1>2 DEF RadixInv, RadixTypes
<1>12. \/ /\ bin[p] + 1 < end_bin(p)
          /\ bin'[p] = bin[p] + 1 /\ pc'[p] = "publish"
       \/ /\ ~(bin[p] + 1 < end_bin(p))
          /\ bin'[p] = bin[p] /\ pc'[p] = "exited"
  BY <1>2 DEF RadixInv, RadixTypes
<1>13. RadixTypes'
  <2>1. pc' \in [Programs -> Places]
    BY <1>2 DEF RadixInv, RadixTypes, Places
  <2>2. bin' \in [Programs -> Nat]
    BY <1>2, <1>10 DEF RadixInv, RadixTypes
  <2>. QED BY <1>1, <1>8, <2>1, <2>2 DEF RadixInv, RadixTypes
<1>14. BinsOK'
  <2>1. ASSUME NEW q \in Programs, q # p
        PROVE  /\ bin'[q] \in first_bin(q) .. end_bin(q) - 1
               /\ pc'[q] = "waiting" => bin'[q] = first_bin(q)
               /\ pc'[q] = "exited" => bin'[q] = end_bin(q) - 1
               /\ pc'[q] # "waiting" => pass < n_passes
    BY <1>11, <2>1 DEF RadixInv, BinsOK
  <2>2. /\ bin'[p] \in first_bin(p) .. end_bin(p) - 1
        /\ pc'[p] # "waiting"
        /\ pc'[p] = "exited" => bin'[p] = end_bin(p) - 1
    BY <1>10, <1>12
  <2>3. pass < n_passes
    BY <1>1 DEF RadixInv, BinsOK
  <2>. QED BY <1>1, <2>1, <2>2, <2>3 DEF BinsOK
<1>15. LookBackOK'
  <2>1. pc'[p] \notin {"look_back", "scatter"}
    BY <1>12
  <2>. QED BY <1>1, <1>11, <2>1, SameRow DEF RadixInv, LookBackOK
<1>16. WordsTrue'
  <2>1. pc'[p] # "look_back"
    BY <1>12
  <2>2. ASSUME NEW q \in Programs, pc'[q] = "look_back"
        PROVE  exclusive_prefix[q]
                 = CountIn(bin'[q], i_lookback[q] + 1, pid_n(q) - 1)
    BY <1>11, <2>1, <2>2 DEF RadixInv, WordsTrue
  <2>3. \A c \in Bins : \A s \in 0 .. grid_n - 1 :
          /\ status[c][s][1] = "aggregate" => status[c][s][2] = CountIn(c, s, s)
          /\ status[c][s][1] = "prefix" => status[c][s][2] = CountIn(c, 0, s)
    BY DEF RadixInv, WordsTrue
  <2>. QED BY <1>1, <2>2, <2>3, SameRow DEF WordsTrue
<1>17. DealtSoFar'
  <2>1. ASSUME NEW q \in Programs, NEW x \in Row, Scattered(q, x)'
        PROVE  arr_out'[T(x)] = arr_in[x]
    <3> DEFINE d == digit(arr_in[x], pass)
    <3>1. /\ x \div TILE_N = pid_n(q) /\ first_bin(q) <= d
          /\ d < bin'[q] \/ (d = bin'[q] /\ pc'[q] = "exited")
      BY <1>1, <2>1, SameRow DEF Scattered
    <3>2. d \in Nat
      BY <1>3, DigitType
    <3>3. CASE q # p
      <4>1. Scattered(q, x)
        BY <1>11, <3>1, <3>3 DEF Scattered
      <4>. QED BY <1>9, <4>1 DEF RadixInv, DealtSoFar, T
    <3>4. CASE q = p
      <4>1. d <= bin[p]
        BY <1>10, <1>12, <3>1, <3>2, <3>4
      <4>2. CASE d = bin[p]
        <5>1. x \in M
          BY <3>1, <3>4, <4>2 DEF M, Matches, Row
        <5>. QED BY <1>9, <5>1
      <4>3. CASE d # bin[p]
        <5>1. d < bin[p]
          BY <1>10, <3>2, <4>1, <4>3
        <5>2. Scattered(p, x)
          BY <3>1, <3>4, <5>1 DEF Scattered
        <5>. QED BY <1>9, <5>2 DEF RadixInv, DealtSoFar, T
      <4>. QED BY <4>2, <4>3
    <3>. QED BY <3>3, <3>4
  <2>2. \A x \in Row : To(arr_in, pass, x)' = T(x) /\ (arr_in[x])' = arr_in[x]
    BY <1>1, SameRow DEF T
  <2>. QED BY <2>1, <2>2 DEF DealtSoFar
<1>18. SortedSoFar'
  BY <1>1, SortedKept DEF RadixInv
<1>. QED BY <1>13, <1>14, <1>15, <1>16, <1>17, <1>18 DEF RadixInv

\* When all programs have exited, every element is where the pass deals it.
LEMMA AllDealt ==
  ASSUME RadixInv, pass < n_passes, \A p \in Programs : pc[p] = "exited"
  PROVE  /\ arr_in \in [Row -> Elements] /\ pass \in Nat
         /\ DOMAIN arr_out = Row /\ arr_out = [x \in Row |-> arr_out[x]]
         /\ IsDealt(arr_in, arr_out, pass)
<1>1. /\ arr_in \in [Row -> Elements] /\ pass \in Nat
      /\ arr_out = [x \in Row |-> arr_out[x]]
  BY Sizes DEF RadixInv, RadixTypes
<1>2. ASSUME NEW x \in Row
      PROVE  arr_out[To(arr_in, pass, x)] = arr_in[x]
  <2> DEFINE d == digit(arr_in[x], pass)
  <2>1. d \in Bins /\ d \in Nat
    BY <1>1, DigitType
  <2>2. x \div TILE_N \in Tiles
    BY TileOf
  <2>3. PICK p \in Programs : /\ pid_n(p) = x \div TILE_N
                              /\ first_bin(p) <= d /\ d <= end_bin(p) - 1
    BY <2>1, <2>2, OwnerFacts
  <2>4. pc[p] = "exited" /\ bin[p] = end_bin(p) - 1 /\ end_bin(p) \in Nat
    BY ProgramFacts DEF RadixInv, BinsOK
  <2>5. d < bin[p] \/ d = bin[p]
    BY <2>1, <2>3, <2>4
  <2>6. Scattered(p, x)
    BY <2>3, <2>4, <2>5 DEF Scattered
  <2>. QED BY <2>6 DEF RadixInv, DealtSoFar
<1>3. DOMAIN arr_out = Row
  BY <1>1
<1>. QED BY <1>1, <1>2, <1>3 DEF IsDealt

LEMMA EndPassInv ==
  ASSUME RadixInv, EndPass
  PROVE  RadixInv'
<1>1. /\ pass < n_passes /\ \A p \in Programs : pc[p] = "exited"
      /\ pass' = pass + 1 /\ arr_in' = arr_out /\ arr_out' = arr_in
      /\ status' = Zeroed /\ started' = 0
      /\ pc' = [p \in Programs |-> "waiting"]
      /\ bin' = [p \in Programs |-> first_bin(p)]
      /\ i_lookback' = [p \in Programs |-> -1]
      /\ exclusive_prefix' = [p \in Programs |-> 0]
      /\ ex_cumsum_bins' = ex_cumsum_bins
  BY DEF EndPass, StatusZeroed
<1>2. /\ arr_in \in [Row -> Elements] /\ pass \in Nat
      /\ DOMAIN arr_out = Row /\ arr_out = [x \in Row |-> arr_out[x]]
      /\ IsDealt(arr_in, arr_out, pass)
  BY <1>1, AllDealt
<1>3. arr_out \in [Row -> Elements] /\ IndicesOf(arr_out) = IndicesOf(arr_in)
  BY <1>2, DealtType
<1>4. ex_cumsum(arr_out) = ex_cumsum(arr_in)
  BY <1>2, <1>3, DealtCounts
<1>5. SortedBy(arr_out, pass + 1)
  BY <1>2, <1>3, DealtSorted DEF RadixInv, SortedSoFar
<1>6. RadixTypes'
  <2>1. pass' \in 0 .. n_passes
    BY <1>1, <1>2, Sizes
  <2>2. arr_in' \in [Row -> Elements] /\ arr_out' = [x \in Row |-> arr_out'[x]]
    BY <1>1, <1>2, <1>3
  <2>3. status' \in [Bins -> [Tiles -> Flags \X Nat]]
    BY <1>1 DEF Zeroed, Flags, Tiles
  <2>4. bin' \in [Programs -> Nat]
    BY <1>1, ProgramFacts
  <2>5. pc' \in [Programs -> Places] /\ i_lookback' \in [Programs -> Int]
        /\ exclusive_prefix' \in [Programs -> Nat] /\ started' \in Nat
    BY <1>1 DEF Places
  <2>. QED BY <2>1, <2>2, <2>3, <2>4, <2>5 DEF RadixTypes
<1>7. BinsOK'
  BY <1>1, ProgramFacts DEF BinsOK
<1>8. LookBackOK'
  BY <1>1 DEF LookBackOK
<1>9. WordsTrue'
  BY <1>1 DEF WordsTrue, Zeroed
<1>10. DealtSoFar'
  <2>1. ASSUME NEW p \in Programs, NEW x \in Row, Scattered(p, x)' PROVE FALSE
    <3> DEFINE d == digit(arr_out[x], pass + 1)
    <3>1. d \in Nat
      BY <1>2, <1>3, DigitType
    <3>2. bin'[p] = first_bin(p) /\ pc'[p] = "waiting" /\ first_bin(p) \in Nat
      BY <1>1, ProgramFacts
    <3>3. first_bin(p) <= d /\ (d < bin'[p] \/ (d = bin'[p] /\ pc'[p] = "exited"))
      BY <1>1, <2>1 DEF Scattered, digit
    <3>. QED BY <3>1, <3>2, <3>3
  <2>. QED BY <2>1 DEF DealtSoFar
<1>11. SortedSoFar'
  <2>1. SortedBy(arr_in, pass)'
    BY <1>1, <1>5 DEF SortedBy, Low
  <2>2. (IndicesOf(arr_in) = Row)'
    BY <1>1, <1>3 DEF RadixInv, SortedSoFar, IndicesOf
  <2>3. (ex_cumsum_bins = ex_cumsum(arr_in))'
    BY <1>1, <1>4 DEF RadixInv, SortedSoFar, ex_cumsum, digit
  <2>. QED BY <2>1, <2>2, <2>3 DEF SortedSoFar
<1>. QED BY <1>6, <1>7, <1>8, <1>9, <1>10, <1>11 DEF RadixInv

LEMMA StutterInv ==
  ASSUME RadixInv, UNCHANGED vars
  PROVE  RadixInv'
<1>1. UNCHANGED <<arr_in, arr_out, ex_cumsum_bins, status, pass, started, pc, bin,
                  i_lookback, exclusive_prefix>>
  BY DEF vars
<1>2. RadixTypes' /\ BinsOK'
  BY <1>1 DEF RadixInv, RadixTypes, BinsOK
<1>3. LookBackOK' /\ WordsTrue'
  BY <1>1, SameRow DEF RadixInv, LookBackOK, WordsTrue
<1>4. DealtSoFar'
  BY <1>1, DealtKept
<1>5. SortedSoFar'
  BY <1>1, SortedKept DEF RadixInv
<1>. QED BY <1>2, <1>3, <1>4, <1>5 DEF RadixInv

LEMMA NextInv == RadixInv /\ [Next]_vars => RadixInv'
<1> SUFFICES ASSUME RadixInv, [Next]_vars PROVE RadixInv'
  OBVIOUS
<1>1. CASE Start
  BY <1>1, StartInv
<1>2. ASSUME NEW p \in Programs, Step(p) PROVE RadixInv'
  BY <1>2, PublishInv, LookBackInv, PublishPrefixInv, ScatterInv DEF Step
<1>3. CASE EndPass
  BY <1>3, EndPassInv
<1>4. CASE UNCHANGED vars
  BY <1>4, StutterInv
<1>. QED BY <1>1, <1>2, <1>3, <1>4 DEF Next

\* The invariant: the words of the look-back are true, what has been scattered
\* is where the pass deals it, and the row is sorted by the digits done so far.
THEOREM RadixInvariant == Spec => []RadixInv
BY InitInv, NextInv, PTL DEF Spec

\* However the programs of a launch interleave, an aggregate counts its own
\* tile, a prefix all tiles up to its own, and what a program has added up
\* counts the tiles it has looked back over (sweep of ops/sort.py).
THEOREM WordsAreTrue == Spec => []WordsTrue
<1>1. RadixInv => WordsTrue
  BY DEF RadixInv
<1>. QED BY <1>1, RadixInvariant, PTL

\* radix_sort returns the row sorted, equal keys in their original order, with
\* each element of the original row once: for every row, tile, number of bins
\* of a program and number of bits of a digit.
THEOREM SortIsStable == Spec => []SortedStably
<1>1. RadixInv => SortedStably
  <2> SUFFICES ASSUME RadixInv, pass = n_passes
      PROVE  /\ \A i, j \in Row : i < j =>
                  \/ arr_in[i].key < arr_in[j].key
                  \/ /\ arr_in[i].key = arr_in[j].key
                     /\ arr_in[i].index < arr_in[j].index
             /\ {arr_in[i].index : i \in Row} = Row
    BY DEF SortedStably, Done, Row
  <2>1. \A i \in Row : arr_in[i] \in Elements
    BY DEF RadixInv, RadixTypes
  <2>2. \A i \in Row : Low(arr_in[i], pass) = arr_in[i].key
    BY <2>1, LowEnds
  <2>. QED BY <2>2 DEF RadixInv, SortedSoFar, SortedBy, IndicesOf
<1>. QED BY <1>1, RadixInvariant, PTL

-----------------------------------------------------------------------------
(***************************************************************************)
(* Each launch implements a stable pass                                    *)
(***************************************************************************)
LEMMA EndPassDeals ==
  ASSUME RadixInv, EndPass
  PROVE  Deals!Deal
<1>1. /\ pass < n_passes /\ pass' = pass + 1 /\ arr_in' = arr_out
      /\ \A p \in Programs : pc[p] = "exited"
  BY DEF EndPass
<1>2. /\ arr_in \in [Row -> Elements] /\ pass \in Nat
      /\ DOMAIN arr_out = Row /\ arr_out = [x \in Row |-> arr_out[x]]
      /\ IsDealt(arr_in, arr_out, pass)
  BY <1>1, AllDealt
<1>3. arr_out \in [Row -> {arr_in[x] : x \in Row}]
  BY <1>2, DealtType
<1>4. \A x \in Row : Deals!Place(arr_in, pass, x) = To(arr_in, pass, x)
  BY <1>2, PlaceIs
<1>5. \A x \in Row : arr_out[Deals!Place(arr_in, pass, x)] = arr_in[x]
  BY <1>2, <1>4 DEF IsDealt
<1>. QED BY <1>1, <1>3, <1>5 DEF Deals!Deal, Row

\* A launch of sweep is one stable pass by its digit: what its programs do to
\* the output before its end is not seen, and at its end every element is in
\* the place that the digits and the order of the row give it.
THEOREM ImplementsPasses == Spec => DealsSpec
<1>1. Init => Deals!Init
  <2>1. Init => RadixInv /\ pass = 0
    BY InitInv DEF Init
  <2>. QED BY <2>1 DEF Deals!Init, RadixInv, RadixTypes, Row
<1>2. RadixInv /\ [Next]_vars => [Deals!Deal]_<<arr_in, pass>>
  <2> SUFFICES ASSUME RadixInv, [Next]_vars
      PROVE  Deals!Deal \/ UNCHANGED <<arr_in, pass>>
    OBVIOUS
  <2>1. CASE Start
    BY <2>1 DEF Start
  <2>2. ASSUME NEW p \in Programs, Step(p) PROVE UNCHANGED <<arr_in, pass>>
    BY <2>2 DEF Step, Publish, LookBack, PublishPrefix, Scatter
  <2>3. CASE EndPass
    BY <2>3, EndPassDeals
  <2>4. CASE UNCHANGED vars
    BY <2>4 DEF vars
  <2>. QED BY <2>1, <2>2, <2>3, <2>4 DEF Next
<1>. QED BY <1>1, <1>2, RadixInvariant, PTL DEF Spec, DealsSpec, Deals!Spec
=============================================================================
