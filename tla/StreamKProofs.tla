--------------------------- MODULE StreamKProofs ---------------------------
(***************************************************************************)
(* Proofs about streamk_mm: the split of the iterations and the swizzle,   *)
(* then an invariant of the two first waves and of classic_mm after them,  *)
(* and from it the properties of StreamK, StreamKBf16 and StreamKMm.       *)
(***************************************************************************)
EXTENDS StreamKMm, WellFoundedInduction, TLAPS

-----------------------------------------------------------------------------
(***************************************************************************)
(* Arithmetic                                                              *)
(***************************************************************************)
\* A number is its quotient times the divisor plus its remainder.
LEMMA DivMod ==
  ASSUME NEW a \in Nat, NEW b \in Nat \ {0}
  PROVE  /\ a = (a \div b) * b + (a % b)
         /\ a % b \in 0 .. b - 1
         /\ a \div b \in Nat
OBVIOUS

\* ... and in no other way.
LEMMA DivUnique ==
  ASSUME NEW a \in Nat, NEW b \in Nat \ {0}, NEW q \in Int, NEW r \in 0 .. b - 1,
         a = q * b + r
  PROVE  a \div b = q /\ a % b = r
OBVIOUS

\* A product grows with its factor.
LEMMA TimesGrows ==
  ASSUME NEW a \in Int, NEW c \in Int, NEW b \in Nat
  PROVE  /\ a <= c => a * b <= c * b
         /\ a < c => a * b + b <= c * b
         /\ (a + 1) * b = a * b + b
OBVIOUS

\* Two numbers with one remainder less than the divisor apart are equal.
LEMMA SameRemainder ==
  ASSUME NEW a \in Nat, NEW c \in Nat, NEW b \in Nat \ {0},
         a % b = c % b, a - c < b, c - a < b
  PROVE  a = c
<1>1. /\ a = (a \div b) * b + (a % b)
      /\ c = (c \div b) * b + (a % b)
  BY DivMod
<1>2. a \div b \in Nat /\ c \div b \in Nat /\ a % b \in 0 .. b - 1
  BY DivMod
<1>3. ~((a \div b) < (c \div b))
  <2>1. (a \div b) < (c \div b) => (a \div b) * b + b <= (c \div b) * b
    BY <1>2, TimesGrows
  <2>. QED BY <1>1, <1>2, <2>1
<1>4. ~((c \div b) < (a \div b))
  <2>1. (c \div b) < (a \div b) => (c \div b) * b + b <= (a \div b) * b
    BY <1>2, TimesGrows
  <2>. QED BY <1>1, <1>2, <2>1
<1>5. a \div b = c \div b
  BY <1>2, <1>3, <1>4
<1>. QED BY <1>1, <1>5

\* A set of naturals that is not empty has a least element.
LEMMA LeastNat ==
  ASSUME NEW T \in SUBSET Nat, T # {}
  PROVE  \E n \in T : \A m \in T : n <= m
<1>1. PICK n \in T : \A m \in T : <<m, n>> \notin OpToRel(<, Nat)
  BY NatLessThanWellFounded, WFMin, Zenon
<1>2. \A m \in T : ~(m < n)
  BY <1>1, Zenon DEF OpToRel
<1>. QED BY <1>2
-----------------------------------------------------------------------------
(***************************************************************************)
(* The split                                                               *)
(***************************************************************************)
\* The numbers of a launch, and that the cooperative tiles are tiles.
LEMMA LaunchFacts ==
  ASSUME launch \in Launches
  PROVE  /\ grid_m \in Nat \ {0} /\ grid_n \in Nat \ {0}
         /\ iters_per_tile \in Nat \ {0} /\ sm_count \in Nat \ {0}
         /\ GROUP_M \in Nat \ {0}
         /\ total_tiles \in Nat
         /\ cooperative_tiles \in Nat /\ cooperative_tiles <= total_tiles
         /\ TotalIters \in Nat
         /\ iters_per_pid \in Nat
         /\ iters_remaining \in 0 .. sm_count - 1
         /\ TotalIters = iters_per_pid * sm_count + iters_remaining
<1>1. /\ grid_m \in Nat \ {0} /\ grid_n \in Nat \ {0}
      /\ iters_per_tile \in Nat \ {0} /\ sm_count \in Nat \ {0}
      /\ GROUP_M \in Nat \ {0}
  BY SplitAssumption DEF grid_m, grid_n, iters_per_tile, sm_count
<1>2. total_tiles \in Nat
  BY <1>1 DEF total_tiles
<1>3. cooperative_tiles \in Nat /\ cooperative_tiles <= total_tiles
  <2> DEFINE rest == total_tiles % sm_count
             others == total_tiles - rest
             waves == total_tiles \div sm_count
  <2>0. total_tiles = waves * sm_count + rest
    BY <1>1, <1>2, DivMod
  <2>1. rest \in 0 .. sm_count - 1 /\ waves \in Nat
    BY <1>1, <1>2, DivMod
  <2> HIDE DEF rest, waves
  <2>3. waves * sm_count \in Nat
    BY <1>1, <2>1
  <2>4. rest <= total_tiles /\ others = waves * sm_count
    BY <1>1, <1>2, <2>0, <2>1, <2>3
  <2>2. others > 0 => others >= sm_count
    BY <1>1, <2>1, <2>4
  <2>. QED BY <1>1, <1>2, <2>1, <2>2, <2>4 DEF cooperative_tiles, rest
<1>4. TotalIters \in Nat
  BY <1>1, <1>3 DEF TotalIters
<1>. QED BY <1>1, <1>2, <1>3, <1>4, DivMod DEF iters_per_pid, iters_remaining

\* Where the ranges of the programs begin.
LEMMA FirstIterFacts ==
  ASSUME launch \in Launches
  PROVE  /\ FirstIter(0) = 0
         /\ FirstIter(sm_count) = TotalIters
         /\ \A p \in Nat :
              /\ FirstIter(p) \in Nat
              /\ FirstIter(p + 1) = FirstIter(p) + iters_per_pid
                                    + (IF p < iters_remaining THEN 1 ELSE 0)
         /\ \A p, q \in Nat : p <= q => FirstIter(p) <= FirstIter(q)
<1> USE LaunchFacts DEF FirstIter, MinOf
<1>1. FirstIter(0) = 0
  OBVIOUS
<1>2. FirstIter(sm_count) = TotalIters
  OBVIOUS
<1>3. ASSUME NEW p \in Nat
      PROVE  /\ FirstIter(p) \in Nat
             /\ FirstIter(p + 1) = FirstIter(p) + iters_per_pid
                                   + (IF p < iters_remaining THEN 1 ELSE 0)
  <2>1. p * iters_per_pid \in Nat
    OBVIOUS
  <2>2. (p + 1) * iters_per_pid = p * iters_per_pid + iters_per_pid
    OBVIOUS
  <2>. QED BY <2>1, <2>2
<1>4. ASSUME NEW p \in Nat, NEW q \in Nat, p <= q
      PROVE  FirstIter(p) <= FirstIter(q)
  <2>1. p * iters_per_pid <= q * iters_per_pid
    BY <1>4
  <2>. QED BY <1>4, <2>1
<1>. QED BY <1>1, <1>2, <1>3, <1>4

\* Every iteration is in the range of a program ...
LEMMA HasOwner ==
  ASSUME launch \in Launches, NEW i \in Iters
  PROVE  \E p \in Pids : FirstIter(p) <= i /\ i < FirstIter(p + 1)
<1> DEFINE T == {p \in Nat : i < FirstIter(p)}
<1>1. i \in Nat /\ i < TotalIters
  BY LaunchFacts DEF Iters
<1>2. sm_count \in T
  BY <1>1, LaunchFacts, FirstIterFacts
<1>3. PICK q \in T : \A p \in T : q <= p
  BY <1>2, LeastNat
<1>4. q # 0 /\ q \in Nat /\ q <= sm_count
  BY <1>1, <1>2, <1>3, FirstIterFacts
<1>5. q - 1 \in Nat /\ q - 1 \notin T
  BY <1>3, <1>4
<1>6. FirstIter(q - 1) <= i
  BY <1>1, <1>5, FirstIterFacts
<1>7. q - 1 \in Pids /\ (q - 1) + 1 = q
  BY <1>4, LaunchFacts DEF Pids
<1>. QED BY <1>3, <1>6, <1>7

\* ... and of one only.
LEMMA OneOwner ==
  ASSUME launch \in Launches, NEW i \in Nat, NEW p \in Nat, NEW q \in Nat,
         FirstIter(p) <= i, i < FirstIter(p + 1),
         FirstIter(q) <= i, i < FirstIter(q + 1)
  PROVE  p = q
<1>1. p < q => FirstIter(p + 1) <= FirstIter(q)
  BY FirstIterFacts
<1>2. q < p => FirstIter(q + 1) <= FirstIter(p)
  BY FirstIterFacts
<1>3. FirstIter(p) \in Nat /\ FirstIter(p + 1) \in Nat
  BY FirstIterFacts
<1>4. FirstIter(q) \in Nat /\ FirstIter(q + 1) \in Nat
  BY FirstIterFacts
<1>. QED BY <1>1, <1>2, <1>3, <1>4

LEMMA PidFacts ==
  ASSUME launch \in Launches, NEW p \in Pids
  PROVE  /\ p \in Nat /\ p + 1 \in Nat /\ p + 1 <= sm_count
         /\ FirstIter(p) \in Nat /\ FirstIter(p + 1) \in Nat
         /\ FirstIter(p) <= FirstIter(p + 1)
         /\ FirstIter(p + 1) <= TotalIters
BY LaunchFacts, FirstIterFacts DEF Pids

\* Tile t has the iterations from t * iters_per_tile on.
LEMMA TileFacts ==
  ASSUME launch \in Launches, NEW i \in Nat
  PROVE  /\ TileOf(i) \in Nat
         /\ OffsetInTile(i) \in Slices
         /\ i = TileOf(i) * iters_per_tile + OffsetInTile(i)
         /\ i < TotalIters => TileOf(i) \in Tiles
<1>1. /\ TileOf(i) \in Nat
      /\ OffsetInTile(i) \in Slices
      /\ i = TileOf(i) * iters_per_tile + OffsetInTile(i)
  BY LaunchFacts, DivMod DEF TileOf, OffsetInTile, Slices
<1>2. ASSUME i < TotalIters PROVE TileOf(i) < cooperative_tiles
  <2>1. cooperative_tiles <= TileOf(i) =>
          cooperative_tiles * iters_per_tile <= TileOf(i) * iters_per_tile
    BY <1>1, LaunchFacts, TimesGrows
  <2>. QED BY <1>1, <1>2, <2>1, LaunchFacts DEF TotalIters, Slices
<1>. QED BY <1>1, <1>2, LaunchFacts DEF Tiles

LEMMA TileUnique ==
  ASSUME launch \in Launches, NEW t \in Int, NEW k \in Slices, NEW i \in Nat,
         i = t * iters_per_tile + k
  PROVE  TileOf(i) = t /\ OffsetInTile(i) = k
BY LaunchFacts, DivUnique DEF TileOf, OffsetInTile, Slices

\* All iterations of a cooperative tile are dealt out.
LEMMA TileIters ==
  ASSUME launch \in Launches, NEW t \in Tiles, NEW k \in Slices
  PROVE  /\ t * iters_per_tile + k \in Iters
         /\ TileOf(t * iters_per_tile + k) = t
         /\ OffsetInTile(t * iters_per_tile + k) = k
         /\ t * iters_per_tile + iters_per_tile <= TotalIters
<1>1. t * iters_per_tile + iters_per_tile <= TotalIters
  BY LaunchFacts, TimesGrows DEF Tiles, TotalIters
<1>2. t * iters_per_tile \in Nat
  BY LaunchFacts DEF Tiles
<1>. QED BY <1>1, <1>2, LaunchFacts, TileUnique DEF Tiles, Slices, Iters
-----------------------------------------------------------------------------
(***************************************************************************)
(* The swizzle                                                             *)
(***************************************************************************)
AllTiles == 0 .. total_tiles - 1
Width == GROUP_M * grid_n
GroupSize(g) == MinOf(grid_m - g * GROUP_M, GROUP_M)

\* The group of a tile has rows, and the tile is among its tiles.
LEMMA GroupFacts ==
  ASSUME launch \in Launches, NEW t \in AllTiles
  PROVE  /\ t \div Width \in Nat
         /\ GroupSize(t \div Width) \in 1 .. GROUP_M
         /\ (t \div Width) * GROUP_M + GroupSize(t \div Width) <= grid_m
         /\ t % Width \in Nat
         /\ t % Width < GroupSize(t \div Width) * grid_n
         /\ t = (t \div Width) * Width + (t % Width)
<1> DEFINE g == t \div Width
           r == t % Width
<1>1. grid_m \in Nat \ {0} /\ grid_n \in Nat \ {0} /\ GROUP_M \in Nat \ {0}
  BY LaunchFacts
<1>2. Width \in Nat \ {0}
  BY <1>1 DEF Width
<1>3. t \in Nat /\ t < grid_m * grid_n
  BY <1>1 DEF AllTiles, total_tiles
<1>4. t = g * Width + r
  BY <1>2, <1>3, DivMod
<1>5. g \in Nat /\ r \in 0 .. Width - 1
  BY <1>2, <1>3, DivMod
<1> HIDE DEF g, r
<1>6. g * Width = (g * GROUP_M) * grid_n
  BY <1>1, <1>5 DEF Width
<1>7. g * GROUP_M \in Nat
  BY <1>1, <1>5
<1>8. g * GROUP_M < grid_m
  <2>1. grid_m <= g * GROUP_M => grid_m * grid_n <= (g * GROUP_M) * grid_n
    BY <1>1, <1>7, TimesGrows
  <2>2. g * Width \in Nat
    BY <1>2, <1>5
  <2>. QED BY <1>1, <1>3, <1>4, <1>5, <1>6, <1>7, <2>1, <2>2
<1>9. GroupSize(g) \in 1 .. GROUP_M /\ g * GROUP_M + GroupSize(g) <= grid_m
  BY <1>1, <1>7, <1>8 DEF GroupSize, MinOf
<1>10. r < GroupSize(g) * grid_n
  <2>1. CASE GroupSize(g) = GROUP_M
    <3>1. GroupSize(g) * grid_n = Width
      BY <2>1 DEF Width
    <3>. QED BY <1>2, <1>5, <3>1
  <2>2. CASE GroupSize(g) # GROUP_M
    <3>1. GroupSize(g) = grid_m - g * GROUP_M
      BY <2>2 DEF GroupSize, MinOf
    <3>2. (grid_m - g * GROUP_M) * grid_n = grid_m * grid_n - (g * GROUP_M) * grid_n
      BY <1>1, <1>7
    <3>3. g * Width \in Nat
      BY <1>2, <1>5
    <3>. QED BY <1>1, <1>3, <1>4, <1>5, <1>6, <3>1, <3>2, <3>3
  <2>. QED BY <2>1, <2>2
<1>. QED BY <1>4, <1>5, <1>9, <1>10 DEF g, r

\* The group of a tile is full unless it is the last; its place in a block row
\* and column.
LEMMA SwizzleFacts ==
  ASSUME launch \in Launches, NEW t \in AllTiles
  PROVE  LET g == t \div Width
             size == GroupSize(g)
         IN  /\ swizzle_tile(t) = <<g * GROUP_M + (t % size), (t % Width) \div size>>
             /\ t % size \in 0 .. size - 1
             /\ (t % Width) \div size \in 0 .. grid_n - 1
             /\ (g * GROUP_M + (t % size)) \div GROUP_M = g
             /\ g * GROUP_M + (t % size) \in 0 .. grid_m - 1
<1> DEFINE g == t \div Width
           size == GroupSize(g)
           r == t % Width
<1>1. swizzle_tile(t) = <<g * GROUP_M + (t % size), r \div size>>
  BY DEF swizzle_tile, Width, GroupSize
<1>2. /\ g \in Nat /\ size \in 1 .. GROUP_M /\ g * GROUP_M + size <= grid_m
      /\ r \in Nat /\ r < size * grid_n /\ t \in Nat
  BY GroupFacts DEF AllTiles
<1>3. GROUP_M \in Nat \ {0} /\ grid_m \in Nat \ {0} /\ grid_n \in Nat \ {0}
  BY LaunchFacts
<1> HIDE DEF g, size, r
<1>4. t % size \in 0 .. size - 1
  BY <1>2, <1>3, DivMod
<1>5. r \div size \in Nat /\ r = (r \div size) * size + (r % size)
      /\ r % size \in 0 .. size - 1
  <2>1. r \in Nat /\ size \in Nat \ {0}
    BY <1>2, <1>3
  <2>. QED BY <2>1, DivMod
<1>6. r \div size < grid_n
  <2>1. grid_n <= r \div size => grid_n * size <= (r \div size) * size
    BY <1>2, <1>3, <1>5, TimesGrows
  <2>2. grid_n * size = size * grid_n
    BY <1>2, <1>3
  <2>3. (r \div size) * size \in Nat
    BY <1>2, <1>5
  <2>. QED BY <1>2, <1>3, <1>5, <2>1, <2>2, <2>3
<1>7. g * GROUP_M \in Nat
  BY <1>2, <1>3
<1>8. (g * GROUP_M + (t % size)) \div GROUP_M = g
  <2>1. t % size \in 0 .. GROUP_M - 1
    BY <1>2, <1>3, <1>4
  <2>2. g * GROUP_M + (t % size) \in Nat
    BY <1>3, <1>7, <2>1
  <2>3. g \in Int
    BY <1>2
  <2> DEFINE row == g * GROUP_M + (t % size)
             place == t % size
  <2>4. row = g * GROUP_M + place
    OBVIOUS
  <2>5. row \in Nat /\ place \in 0 .. GROUP_M - 1
    BY <2>1, <2>2
  <2> HIDE DEF row, place
  <2>6. row \div GROUP_M = g
    BY <1>3, <2>3, <2>4, <2>5, DivUnique
  <2>. QED BY <2>6 DEF row, place
<1>9. g * GROUP_M + (t % size) \in 0 .. grid_m - 1
  BY <1>2, <1>3, <1>4, <1>7
<1>. QED BY <1>1, <1>3, <1>4, <1>5, <1>6, <1>8, <1>9 DEF g, size, r

LEMMA SwizzleInBlocks ==
  ASSUME launch \in Launches, NEW t \in AllTiles
  PROVE  swizzle_tile(t) \in Blocks
BY SwizzleFacts DEF Blocks

\* No block is met twice ...
LEMMA SwizzleInjective ==
  ASSUME launch \in Launches, NEW t \in AllTiles, NEW u \in AllTiles,
         swizzle_tile(t) = swizzle_tile(u)
  PROVE  t = u
<1> DEFINE g == t \div Width
           h == u \div Width
           size == GroupSize(g)
           r == t % Width
           s == u % Width
<1>1. /\ swizzle_tile(t) = <<g * GROUP_M + (t % size), r \div size>>
      /\ (g * GROUP_M + (t % size)) \div GROUP_M = g
  BY SwizzleFacts
<1>2. /\ swizzle_tile(u) = <<h * GROUP_M + (u % GroupSize(h)), s \div GroupSize(h)>>
      /\ (h * GROUP_M + (u % GroupSize(h))) \div GROUP_M = h
  BY SwizzleFacts
<1>3. /\ g * GROUP_M + (t % size) = h * GROUP_M + (u % GroupSize(h))
      /\ r \div size = s \div GroupSize(h)
  <2> DEFINE m == g * GROUP_M + (t % size)
             n == r \div size
             mu == h * GROUP_M + (u % GroupSize(h))
             nu == s \div GroupSize(h)
  <2>1. swizzle_tile(t) = <<m, n>> /\ swizzle_tile(u) = <<mu, nu>>
    BY <1>1, <1>2
  <2> HIDE DEF m, n, mu, nu
  <2>2. <<m, n>> = <<mu, nu>>
    BY <2>1
  <2>3. m = mu /\ n = nu
    BY <2>2
  <2>. QED BY <2>3 DEF m, n, mu, nu
<1>4. g = h
  BY <1>1, <1>2, <1>3
<1>5. /\ g \in Nat /\ size \in 1 .. GROUP_M /\ r \in Nat
      /\ t = g * Width + r /\ t \in Nat
  BY GroupFacts DEF AllTiles
<1>6. s \in Nat /\ u = g * Width + s /\ u \in Nat
  BY <1>4, GroupFacts DEF AllTiles
<1>7. t % size \in 0 .. size - 1
  BY SwizzleFacts
<1>8. u % size \in 0 .. size - 1
  BY <1>4, SwizzleFacts
<1>9. r \div size = s \div size
  BY <1>3, <1>4
<1>10. g * GROUP_M + (t % size) = g * GROUP_M + (u % size)
  BY <1>3, <1>4
<1>11. GROUP_M \in Nat \ {0} /\ Width \in Nat /\ size \in Nat \ {0}
  BY <1>5, LaunchFacts DEF Width
<1> HIDE DEF g, h, size, r, s
<1>12. g * GROUP_M \in Nat /\ g * Width \in Nat
  BY <1>5, <1>11
<1>13. t % size = u % size
  BY <1>7, <1>8, <1>10, <1>11, <1>12
<1>14. r - s < size /\ s - r < size
  <2>1. r = (r \div size) * size + (r % size) /\ r % size \in 0 .. size - 1
    BY <1>5, <1>11, DivMod
  <2>2. s = (s \div size) * size + (s % size) /\ s % size \in 0 .. size - 1
    BY <1>6, <1>11, DivMod
  <2>3. (r \div size) * size \in Nat
    BY <1>5, <1>11, DivMod
  <2>. QED BY <1>5, <1>6, <1>9, <1>11, <2>1, <2>2, <2>3
<1>15. t - u < size /\ u - t < size
  BY <1>5, <1>6, <1>11, <1>12, <1>14
<1>. QED BY <1>5, <1>6, <1>11, <1>13, <1>15, SameRemainder

\* ... and every block is.
LEMMA SwizzleOnto ==
  ASSUME launch \in Launches, NEW m \in 0 .. grid_m - 1, NEW n \in 0 .. grid_n - 1
  PROVE  \E t \in AllTiles : swizzle_tile(t) = <<m, n>>
<1> DEFINE g == m \div GROUP_M
           x == m % GROUP_M
           size == GroupSize(g)
           c == (g * Width) % size
           q == (g * Width) \div size
           y == IF c <= x THEN x - c ELSE (x - c) + size
           w == n * size + y
           t == g * Width + w
<1>1. /\ grid_m \in Nat \ {0} /\ grid_n \in Nat \ {0} /\ GROUP_M \in Nat \ {0}
      /\ Width \in Nat \ {0} /\ m \in Nat /\ m < grid_m /\ n \in Nat
  BY LaunchFacts DEF Width
<1>2. m = g * GROUP_M + x /\ x \in 0 .. GROUP_M - 1 /\ g \in Nat
  BY <1>1, DivMod
<1> HIDE DEF g, x
<1>3. g * GROUP_M \in Nat /\ g * Width \in Nat
  BY <1>1, <1>2
<1>4. /\ size \in Nat \ {0} /\ size <= GROUP_M /\ g * GROUP_M + size <= grid_m
      /\ x < size
  BY <1>1, <1>2, <1>3 DEF GroupSize, MinOf
<1>5. swizzle_tile(t) =
        LET s == GroupSize(t \div Width)
        IN  <<(t \div Width) * GROUP_M + (t % s), (t % Width) \div s>>
  BY DEF swizzle_tile, Width, GroupSize
<1> HIDE DEF size
<1>6. g * Width = q * size + c /\ c \in 0 .. size - 1 /\ q \in Nat
  BY <1>3, <1>4, DivMod
<1>7. y \in 0 .. size - 1 /\ (c + y = x \/ c + y = x + size)
  BY <1>2, <1>4, <1>6
<1> HIDE DEF c, q, y
<1>8. /\ n * size \in Nat /\ grid_n * size \in Nat
      /\ n * size + size <= grid_n * size
  BY <1>1, <1>4, TimesGrows
<1>9. w \in Nat /\ w < grid_n * size
  BY <1>4, <1>7, <1>8
<1>10. size * grid_n <= Width /\ grid_n * size = size * grid_n
  BY <1>1, <1>4, TimesGrows DEF Width
<1>11. w \in 0 .. Width - 1
  BY <1>1, <1>4, <1>9, <1>10
<1>12. t \in AllTiles
  <2>1. (g * GROUP_M + size) * grid_n <= grid_m * grid_n
    BY <1>1, <1>3, <1>4, TimesGrows
  <2>2. (g * GROUP_M + size) * grid_n = (g * GROUP_M) * grid_n + size * grid_n
    BY <1>1, <1>3, <1>4
  <2>3. (g * GROUP_M) * grid_n = g * Width
    BY <1>1, <1>2 DEF Width
  <2>. HIDE DEF w
  <2>4. t < grid_m * grid_n
    BY <1>1, <1>3, <1>4, <1>9, <1>10, <2>1, <2>2, <2>3
  <2>. QED BY <1>1, <1>3, <1>9, <2>4 DEF AllTiles, total_tiles
<1>13. w \div size = n
  <2>1. w = n * size + y
    OBVIOUS
  <2>2. n \in Nat /\ w \in Int /\ size \in Nat \ {0} /\ y \in 0 .. size - 1
    BY <1>1, <1>4, <1>7, <1>9
  <2>. HIDE DEF w
  <2>. QED BY <2>1, <2>2, DivUnique
<1>14. t % size = x
  <2>1. t = (g * Width) + n * size + y
    BY <1>3, <1>7, <1>8
  <2>2. t = q * size + n * size + x \/ t = q * size + n * size + size + x
    BY <1>2, <1>4, <1>6, <1>7, <1>8, <2>1
  <2>3. /\ (q + n) * size = q * size + n * size
        /\ (q + n + 1) * size = q * size + n * size + size
    BY <1>1, <1>4, <1>6
  <2>4. t \in Nat /\ x \in 0 .. size - 1 /\ q + n \in Int /\ q + n + 1 \in Int
    BY <1>1, <1>2, <1>3, <1>4, <1>6, <1>9
  <2>. HIDE DEF t
  <2>5. CASE t = (q + n) * size + x
    BY <1>4, <2>4, <2>5, DivUnique
  <2>6. CASE t = (q + n + 1) * size + x
    BY <1>4, <2>4, <2>6, DivUnique
  <2>. QED BY <2>2, <2>3, <2>5, <2>6
<1>15. t \div Width = g /\ t % Width = w
  <2>1. t = g * Width + w /\ t \in Nat /\ g \in Int
    BY <1>2, <1>3, <1>9
  <2>. HIDE DEF t, w
  <2>. QED BY <1>1, <1>11, <2>1, DivUnique
<1> HIDE DEF t, w
<1>16. GroupSize(t \div Width) = size
  BY <1>15 DEF size
<1>17. swizzle_tile(t) = <<g * GROUP_M + x, n>>
  BY <1>5, <1>13, <1>14, <1>15, <1>16
<1>. QED BY <1>2, <1>12, <1>17

-----------------------------------------------------------------------------
(***************************************************************************)
(* The invariant                                                           *)
(***************************************************************************)
LastIter(t) == t * iters_per_tile + (iters_per_tile - 1)

MmTypeOK ==
  /\ launch \in Launches
  /\ dtype \in {"bf16", "other"}
  /\ stage \in {"first_wave", "classic_mm"}
  /\ ran \in SUBSET Programs
  /\ C \in [Blocks -> [Slices -> Nat]]
  /\ locks \in [Tiles -> {0, 1}]
  /\ start_iter \in [Pids -> Nat]
  /\ pc \in [Pids -> {"loop", "store", "unlock", "spin", "add", "put",
                      "collect", "exited"}]
  /\ P \in [Pids -> [Slices -> Nat]]
  /\ slot_locks \in [Pids -> {0, 1}]
  /\ acc \in [Pids -> [Slices -> Nat]]
  /\ next_pid \in [Pids -> Nat]
  /\ end \in [Pids -> Nat]

\* A program is in its range, and after the first segment of it at the start
\* of a tile.
Progress ==
  \A p \in Pids :
    /\ FirstIter(p) <= start_iter[p] /\ start_iter[p] <= FirstIter(p + 1)
    /\ pc[p] \notin {"loop", "exited"} => start_iter[p] < FirstIter(p + 1)
    /\ pc[p] = "exited" => start_iter[p] = FirstIter(p + 1)
    /\ \/ start_iter[p] \in {FirstIter(p), FirstIter(p + 1)}
       \/ OffsetInTile(start_iter[p]) = 0

\* first_wave: what the statement a program is at says of its segment.
AtStatement ==
  \A p \in Pids :
    /\ pc[p] \notin {"put", "collect"}
    /\ pc[p] \in {"store", "unlock"} => Finishes(p)
    /\ pc[p] = "unlock" =>
         OffsetInTile(start_iter[p]) # 0 /\ C[BlockAt(p)] = Sum(p)
    /\ pc[p] \in {"spin", "add"} => ~Finishes(p)
    /\ pc[p] = "add" => locks[TileAt(p)] = 1

\* A raised lock says that the tile has been stored, ...
LockMeans == \A t \in Tiles : locks[t] = 1 => Processed(LastIter(t))

\* ... nobody is through with a part of a tile before that, ...
StoredFirst == \A i \in Iters : Processed(i) => Processed(LastIter(TileOf(i)))

\* ... and after it the tile holds what has been handed in.
Exact ==
  \A i \in Iters :
    Processed(LastIter(TileOf(i))) =>
      C[BlockOf(i)][OffsetInTile(i)] = IF Processed(i) THEN 1 ELSE 0

\* A program that has stored a tile others work on, the first of its range,
\* has raised its lock.
Raised ==
  \A p \in Pids :
    LET t == TileOf(FirstIter(p))
    IN  /\ FirstIter(p) < start_iter[p]
        /\ OffsetInTile(FirstIter(p)) # 0
        /\ LastIter(t) < FirstIter(p + 1)
        => locks[t] = 1

FirstWaveInv == AtStatement /\ LockMeans /\ StoredFirst /\ Exact /\ Raised

\* The sum of the segment of a program that begins with iteration s, and that
\* of its first segment.
SegmentSum(p, s) ==
  [k \in Slices |->
     IF /\ OffsetInTile(s) <= k
        /\ k < OffsetInTile(s) + SegmentEnd(p, s) - s
     THEN 1 ELSE 0]
FirstSum(p) == SegmentSum(p, FirstIter(p))

\* first_wave_for_bf16: a program puts the sum of its first segment, if that
\* does not begin a tile, and collects for the tiles it begins.
SlotAtStatement ==
  \A p \in Pids :
    /\ pc[p] \notin {"store", "spin", "add"}
    /\ pc[p] \in {"put", "unlock"} =>
         OffsetInTile(start_iter[p]) # 0 /\ acc[p] = FirstSum(p)
    /\ pc[p] = "unlock" => P[p] = FirstSum(p)

SlotMeans ==
  \A p \in Pids :
    /\ slot_locks[p] = 1 <=>
         FirstIter(p) < start_iter[p] /\ OffsetInTile(FirstIter(p)) # 0
    /\ slot_locks[p] = 1 => P[p] = FirstSum(p)

Collecting ==
  \A p \in Pids :
    pc[p] = "collect" =>
      /\ OffsetInTile(start_iter[p]) = 0
      /\ next_pid[p] \in p + 1 .. sm_count
      /\ start_iter[p] < end[p]
      /\ end[p] < start_iter[p] + iters_per_tile => end[p] = FirstIter(next_pid[p])
      /\ \A k \in Slices : acc[p][k] = IF k < end[p] - start_iter[p] THEN 1 ELSE 0

\* A tile whose start has been passed holds everything.
Collected ==
  \A t \in Tiles :
    Processed(t * iters_per_tile) => \A k \in Slices : C[swizzle_tile(t)][k] = 1

Bf16WaveInv ==
  /\ locks = [t \in Tiles |-> 0]
  /\ SlotAtStatement /\ SlotMeans /\ Collecting /\ Collected

\* The tiles the launches have been through.
WaveDone ==
  stage = "classic_mm" => \A t \in Tiles : \A k \in Slices : C[swizzle_tile(t)][k] = 1
RanDone ==
  /\ stage = "first_wave" => ran = {}
  /\ \A pid \in ran : \A k \in Slices : C[swizzle_tile(ClassicTile(pid))][k] = 1

MmInv ==
  /\ MmTypeOK /\ Progress
  /\ dtype = "other" => FirstWaveInv
  /\ dtype = "bf16" => Bf16WaveInv
  /\ WaveDone /\ RanDone

-----------------------------------------------------------------------------
(***************************************************************************)
(* Segments                                                                *)
(***************************************************************************)
\* A segment lies in one tile and ends with it or with the program's range.
LEMMA SegmentFacts ==
  ASSUME launch \in Launches, NEW p \in Pids, NEW s \in Nat,
         FirstIter(p) <= s, s < FirstIter(p + 1)
  PROVE  /\ SegmentEnd(p, s) \in Nat
         /\ s < SegmentEnd(p, s) /\ SegmentEnd(p, s) <= FirstIter(p + 1)
         /\ SegmentEnd(p, s) <= TileOf(s) * iters_per_tile + iters_per_tile
         /\ \/ SegmentEnd(p, s) = FirstIter(p + 1)
            \/ SegmentEnd(p, s) = TileOf(s) * iters_per_tile + iters_per_tile
         /\ SegmentEnd(p, s) % iters_per_tile = 0 <=>
              SegmentEnd(p, s) = TileOf(s) * iters_per_tile + iters_per_tile
         /\ s \in Iters /\ TileOf(s) \in Tiles
<1> DEFINE e == SegmentEnd(p, s)
           b == TileOf(s) * iters_per_tile
<1>1. /\ FirstIter(p) \in Nat /\ FirstIter(p + 1) \in Nat
      /\ FirstIter(p + 1) <= TotalIters /\ TotalIters \in Nat
      /\ iters_per_tile \in Nat \ {0}
  BY LaunchFacts, PidFacts
<1>2. /\ TileOf(s) \in Nat /\ OffsetInTile(s) \in 0 .. iters_per_tile - 1
      /\ s = b + OffsetInTile(s) /\ TileOf(s) \in Tiles
  BY <1>1, TileFacts DEF Slices
<1>3. b \in Nat
  BY <1>1, <1>2
<1>4. e = MinOf(s + (iters_per_tile - OffsetInTile(s)), FirstIter(p + 1))
  BY DEF SegmentEnd
<1> HIDE DEF e
<1>5. (TileOf(s) + 1) * iters_per_tile = b + iters_per_tile
  BY <1>1, <1>2
<1> DEFINE T == TileOf(s)
<1>6. T \in Nat /\ b = T * iters_per_tile /\ (T + 1) * iters_per_tile = b + iters_per_tile
  BY <1>2, <1>5
<1> HIDE DEF b, T
<1>7. /\ e \in Nat /\ s < e /\ e <= FirstIter(p + 1) /\ e <= b + iters_per_tile
      /\ e = FirstIter(p + 1) \/ e = b + iters_per_tile
  BY <1>1, <1>2, <1>3, <1>4 DEF MinOf
<1>8. ASSUME e % iters_per_tile = 0 PROVE e = b + iters_per_tile
  <2>1. /\ e \div iters_per_tile \in Nat
        /\ e = (e \div iters_per_tile) * iters_per_tile + (e % iters_per_tile)
    BY <1>1, <1>7, DivMod
  <2> DEFINE n == e \div iters_per_tile
  <2>2. n \in Nat /\ e = n * iters_per_tile + 0
    BY <1>8, <2>1
  <2> HIDE DEF n
  <2>3. n <= T => e <= b
    <3>1. n <= T => n * iters_per_tile <= T * iters_per_tile
      BY <1>1, <1>6, <2>2, TimesGrows
    <3>. QED BY <1>1, <1>6, <2>2, <3>1
  <2>4. T + 1 < n => b + iters_per_tile + iters_per_tile <= e
    <3>1. T + 1 < n => (T + 1) * iters_per_tile + iters_per_tile <= n * iters_per_tile
      BY <1>1, <1>6, <2>2, TimesGrows
    <3>. QED BY <1>1, <1>6, <2>2, <3>1
  <2>5. b <= s
    BY <1>1, <1>2, <1>3
  <2>6. n = T + 1
    BY <1>1, <1>3, <1>6, <1>7, <2>2, <2>3, <2>4, <2>5
  <2>. QED BY <1>3, <1>6, <1>1, <2>2, <2>6
<1>9. ASSUME e = b + iters_per_tile PROVE e % iters_per_tile = 0
  <2>1. T + 1 \in Int /\ 0 \in 0 .. iters_per_tile - 1
        /\ e = (T + 1) * iters_per_tile + 0
    BY <1>1, <1>3, <1>6, <1>9
  <2>. QED BY <1>1, <1>7, <2>1, DivUnique
<1>10. s \in Iters
  BY <1>1 DEF Iters
<1>. QED BY <1>2, <1>7, <1>8, <1>9, <1>10 DEF e, b, T

\* The iterations of a segment are of its tile, and those of the tile which
\* are of the segment are known by their places.
LEMMA SegmentIters ==
  ASSUME launch \in Launches, NEW p \in Pids, NEW s \in Nat,
         FirstIter(p) <= s, s < FirstIter(p + 1), NEW i \in Nat
  PROVE  /\ s <= i /\ i < SegmentEnd(p, s) => TileOf(i) = TileOf(s) /\ i \in Iters
         /\ TileOf(i) = TileOf(s) =>
              /\ OffsetInTile(i) = OffsetInTile(s) + (i - s)
              /\ s <= i /\ i < SegmentEnd(p, s) <=>
                   /\ OffsetInTile(s) <= OffsetInTile(i)
                   /\ OffsetInTile(i) < OffsetInTile(s) + SegmentEnd(p, s) - s
<1> DEFINE e == SegmentEnd(p, s)
           b == TileOf(s) * iters_per_tile
<1>1. /\ e \in Nat /\ s < e /\ e <= FirstIter(p + 1) /\ e <= b + iters_per_tile
  BY SegmentFacts
<1>2. iters_per_tile \in Nat \ {0} /\ TotalIters \in Nat /\ FirstIter(p + 1) <= TotalIters
      /\ FirstIter(p + 1) \in Nat
  BY LaunchFacts, PidFacts
<1>3. /\ TileOf(s) \in Nat /\ OffsetInTile(s) \in 0 .. iters_per_tile - 1
      /\ s = b + OffsetInTile(s)
  BY TileFacts DEF Slices
<1>4. /\ OffsetInTile(i) \in 0 .. iters_per_tile - 1
      /\ i = TileOf(i) * iters_per_tile + OffsetInTile(i)
  BY TileFacts DEF Slices
<1>5. b \in Nat
  BY <1>2, <1>3
<1> HIDE DEF e
<1>6. ASSUME s <= i, i < e PROVE TileOf(i) = TileOf(s) /\ i \in Iters
  <2>1. i - b \in Slices /\ i = b + (i - b) /\ TileOf(s) \in Int
    BY <1>1, <1>2, <1>3, <1>5, <1>6 DEF Slices
  <2>2. TileOf(i) = TileOf(s)
    BY <2>1, TileUnique
  <2>3. i \in Iters
    BY <1>1, <1>2, <1>6 DEF Iters
  <2>. QED BY <2>2, <2>3
<1>7. ASSUME TileOf(i) = TileOf(s)
      PROVE  OffsetInTile(i) = OffsetInTile(s) + (i - s)
  <2>1. i = b + OffsetInTile(i)
    BY <1>4, <1>7
  <2>. HIDE DEF b
  <2>. QED BY <1>3, <1>4, <1>5, <2>1
<1>8. ASSUME TileOf(i) = TileOf(s)
      PROVE  s <= i /\ i < e <=> /\ OffsetInTile(s) <= OffsetInTile(i)
                                 /\ OffsetInTile(i) < OffsetInTile(s) + e - s
  <2>1. OffsetInTile(i) = OffsetInTile(s) + (i - s)
    BY <1>7, <1>8
  <2>. QED BY <1>1, <1>3, <1>4, <2>1
<1>. QED BY <1>6, <1>7, <1>8 DEF e

\* The place of an iteration in a tile gives it back.
LEMMA IterAt ==
  ASSUME launch \in Launches, NEW t \in Tiles, NEW i \in Nat, TileOf(i) = t
  PROVE  i = t * iters_per_tile + OffsetInTile(i) /\ i \in Iters
<1>1. i = t * iters_per_tile + OffsetInTile(i) /\ OffsetInTile(i) \in Slices
  BY TileFacts
<1>. QED BY <1>1, TileIters

\* A segment that ends its tile is the one with its last iteration.
LEMMA LastIterFacts ==
  ASSUME launch \in Launches, NEW t \in Tiles
  PROVE  /\ LastIter(t) \in Iters /\ LastIter(t) \in Nat /\ TileOf(LastIter(t)) = t
         /\ LastIter(t) = t * iters_per_tile + (iters_per_tile - 1)
         /\ OffsetInTile(LastIter(t)) = iters_per_tile - 1
         /\ t \in AllTiles
<1>1. iters_per_tile - 1 \in Slices /\ TotalIters \in Nat
  BY LaunchFacts DEF Slices
<1>2. t \in AllTiles
  BY LaunchFacts DEF AllTiles, Tiles
<1>. QED BY <1>1, <1>2, TileIters DEF LastIter, Iters

\* The two kernels split the work alike.
LEMMA Bf16Same ==
  /\ \A p : Bf16!FirstIter(p) = FirstIter(p)
  /\ \A i : Bf16!TileOf(i) = TileOf(i) /\ Bf16!OffsetInTile(i) = OffsetInTile(i)
            /\ Bf16!BlockOf(i) = BlockOf(i)
  /\ \A p, i : Bf16!SegmentEnd(p, i) = SegmentEnd(p, i)
  /\ \A p : Bf16!EndIter(p) = EndIter(p) /\ Bf16!Sum(p) = Sum(p)
  /\ Bf16!Pids = Pids /\ Bf16!Slices = Slices /\ Bf16!Blocks = Blocks
  /\ Bf16!iters_per_tile = iters_per_tile
  /\ Bf16!iters_per_pid = iters_per_pid /\ Bf16!iters_remaining = iters_remaining
<1> USE DEF Bf16!grid_m, grid_m, Bf16!grid_n, grid_n, Bf16!sm_count, sm_count,
        Bf16!iters_per_tile, iters_per_tile, Bf16!total_tiles, total_tiles,
        Bf16!cooperative_tiles, cooperative_tiles, Bf16!TotalIters, TotalIters,
        Bf16!MinOf, MinOf
<1>1. Bf16!Pids = Pids /\ Bf16!Slices = Slices /\ Bf16!Blocks = Blocks
  BY DEF Bf16!Pids, Pids, Bf16!Slices, Slices, Bf16!Blocks, Blocks
<1>2. Bf16!iters_per_pid = iters_per_pid /\ Bf16!iters_remaining = iters_remaining
  BY DEF Bf16!iters_per_pid, iters_per_pid, Bf16!iters_remaining, iters_remaining
<1>3. \A p : Bf16!FirstIter(p) = FirstIter(p)
  BY <1>2 DEF Bf16!FirstIter, FirstIter
<1>4. \A i : Bf16!TileOf(i) = TileOf(i) /\ Bf16!OffsetInTile(i) = OffsetInTile(i)
  BY DEF Bf16!TileOf, TileOf, Bf16!OffsetInTile, OffsetInTile
<1>5. \A i : Bf16!BlockOf(i) = BlockOf(i)
  BY <1>4 DEF Bf16!BlockOf, BlockOf, Bf16!swizzle_tile, swizzle_tile
<1>6. \A p, i : Bf16!SegmentEnd(p, i) = SegmentEnd(p, i)
  BY <1>3, <1>4 DEF Bf16!SegmentEnd, SegmentEnd
<1>7. \A p : Bf16!EndIter(p) = EndIter(p)
  BY <1>6 DEF Bf16!EndIter, EndIter
<1>8. \A p : Bf16!Sum(p) = Sum(p)
  BY <1>1, <1>4, <1>7 DEF Bf16!Sum, Sum
<1>. QED BY <1>1, <1>2, <1>3, <1>4, <1>5, <1>6, <1>7, <1>8

\* The split of a launch does not change.
LEMMA Static ==
  ASSUME launch' = launch
  PROVE  /\ \A p : FirstIter(p)' = FirstIter(p) /\ FirstSum(p)' = FirstSum(p)
         /\ \A i : /\ TileOf(i)' = TileOf(i) /\ OffsetInTile(i)' = OffsetInTile(i)
                   /\ BlockOf(i)' = BlockOf(i) /\ LastIter(i)' = LastIter(i)
                   /\ swizzle_tile(i)' = swizzle_tile(i)
                   /\ ClassicTile(i)' = ClassicTile(i)
         /\ \A p, i : SegmentEnd(p, i)' = SegmentEnd(p, i)
         /\ \A p, i : SegmentSum(p, i)' = SegmentSum(p, i)
         /\ Pids' = Pids /\ Slices' = Slices /\ Blocks' = Blocks /\ Tiles' = Tiles
         /\ Iters' = Iters /\ iters_per_tile' = iters_per_tile
         /\ sm_count' = sm_count /\ Programs' = Programs
<1> USE DEF grid_m, grid_n, sm_count, iters_per_tile, total_tiles,
        cooperative_tiles, TotalIters
<1>1. /\ Pids' = Pids /\ Slices' = Slices /\ Blocks' = Blocks /\ Tiles' = Tiles
      /\ Iters' = Iters /\ iters_per_tile' = iters_per_tile /\ sm_count' = sm_count
      /\ Programs' = Programs
  BY DEF Pids, Slices, Blocks, Tiles, Iters, Programs
<1>2. \A p : FirstIter(p)' = FirstIter(p)
  BY DEF FirstIter, iters_per_pid, iters_remaining
<1>3. \A i : /\ TileOf(i)' = TileOf(i) /\ OffsetInTile(i)' = OffsetInTile(i)
             /\ LastIter(i)' = LastIter(i) /\ swizzle_tile(i)' = swizzle_tile(i)
             /\ ClassicTile(i)' = ClassicTile(i)
  BY DEF TileOf, OffsetInTile, LastIter, swizzle_tile, ClassicTile
<1>4. \A i : BlockOf(i)' = BlockOf(i)
  BY DEF BlockOf, TileOf, swizzle_tile
<1>5. \A p, i : SegmentEnd(p, i)' = SegmentEnd(p, i)
  BY DEF SegmentEnd, OffsetInTile, FirstIter, iters_per_pid, iters_remaining
<1>6. \A p, i : SegmentSum(p, i)' = SegmentSum(p, i)
  BY DEF SegmentSum, SegmentEnd, OffsetInTile, FirstIter, iters_per_pid,
         iters_remaining, Slices
<1>7. \A p : FirstSum(p)' = FirstSum(p)
  BY DEF FirstSum, SegmentSum, SegmentEnd, OffsetInTile, FirstIter, iters_per_pid,
         iters_remaining, Slices
<1>. QED BY <1>1, <1>2, <1>3, <1>4, <1>5, <1>6, <1>7

-----------------------------------------------------------------------------
(***************************************************************************)
(* Steps of a program                                                      *)
(***************************************************************************)
\* Where a program is.
LEMMA Here ==
  ASSUME MmTypeOK, Progress, NEW p \in Pids
  PROVE  /\ start_iter[p] \in Nat /\ FirstIter(p) <= start_iter[p]
         /\ start_iter[p] <= FirstIter(p + 1)
         /\ EndIter(p) = SegmentEnd(p, start_iter[p])
BY DEF MmTypeOK, Progress, EndIter

\* Nobody has been through the segment a program is at.
LEMMA SegmentFresh ==
  ASSUME MmTypeOK, Progress, NEW p \in Pids, start_iter[p] < FirstIter(p + 1),
         NEW i \in Nat, start_iter[p] <= i, i < EndIter(p)
  PROVE  ~Processed(i)
<1> SUFFICES ASSUME NEW q \in Pids, FirstIter(q) <= i, i < start_iter[q]
             PROVE  FALSE
  BY DEF Processed
<1>1. launch \in Launches
  BY DEF MmTypeOK
<1>2. FirstIter(p) <= i /\ i < FirstIter(p + 1)
  <2>1. EndIter(p) \in Nat /\ EndIter(p) <= FirstIter(p + 1)
    BY <1>1, Here, SegmentFacts
  <2>. QED BY <1>1, <2>1, Here, PidFacts
<1>3. i < FirstIter(q + 1)
  BY <1>1, Here, PidFacts
<1>4. p = q
  BY <1>1, <1>2, <1>3, PidFacts, OneOwner
<1>. QED BY <1>4, Here

\* What has been processed grows by the segment.
LEMMA SegmentPassed ==
  ASSUME MmTypeOK, Progress, NEW p \in Pids, start_iter[p] < FirstIter(p + 1),
         launch' = launch, NextRound(p), NEW i \in Nat
  PROVE  Processed(i)' <=> Processed(i) \/ (start_iter[p] <= i /\ i < EndIter(p))
<1>1. launch \in Launches
  BY DEF MmTypeOK
<1>2. Processed(i)' <=> \E q \in Pids : FirstIter(q) <= i /\ i < start_iter'[q]
  BY Static DEF Processed
<1>3. \A q \in Pids : start_iter'[q] = IF q = p THEN EndIter(p) ELSE start_iter[q]
  BY DEF MmTypeOK, NextRound
<1>4. start_iter[p] < EndIter(p) /\ EndIter(p) \in Nat
  BY <1>1, Here, SegmentFacts
<1>5. ASSUME NEW q \in Pids, FirstIter(q) <= i, i < start_iter'[q]
      PROVE  Processed(i) \/ (start_iter[p] <= i /\ i < EndIter(p))
  <2>1. CASE q = p
    BY <1>3, <1>4, <1>5, <2>1, Here DEF Processed
  <2>2. CASE q # p
    BY <1>3, <1>5, <2>2 DEF Processed
  <2>. QED BY <2>1, <2>2
<1>6. ASSUME NEW q \in Pids, FirstIter(q) <= i, i < start_iter[q]
      PROVE  i < start_iter'[q]
  BY <1>3, <1>4, <1>6, Here
<1>7. ASSUME start_iter[p] <= i, i < EndIter(p)
      PROVE  FirstIter(p) <= i /\ i < start_iter'[p]
  BY <1>1, <1>3, <1>7, Here, PidFacts
<1>. QED BY <1>2, <1>5, <1>6, <1>7 DEF Processed

\* The next round begins where Progress says.
LEMMA ProgressRound ==
  ASSUME MmTypeOK, Progress, NEW p \in Pids, start_iter[p] < FirstIter(p + 1),
         launch' = launch, NextRound(p), pc' = [pc EXCEPT ![p] = "loop"]
  PROVE  Progress'
<1>1. launch \in Launches
  BY DEF MmTypeOK
<1>2. \A q \in Pids : /\ start_iter'[q] = IF q = p THEN EndIter(p) ELSE start_iter[q]
                      /\ pc'[q] = IF q = p THEN "loop" ELSE pc[q]
  BY DEF MmTypeOK, NextRound
<1>3. /\ FirstIter(p) <= EndIter(p) /\ EndIter(p) <= FirstIter(p + 1)
      /\ EndIter(p) = FirstIter(p + 1) \/ OffsetInTile(EndIter(p)) = 0
  BY <1>1, Here, SegmentFacts, PidFacts DEF OffsetInTile
<1> SUFFICES ASSUME NEW q \in Pids
    PROVE /\ FirstIter(q) <= start_iter'[q] /\ start_iter'[q] <= FirstIter(q + 1)
          /\ pc'[q] \notin {"loop", "exited"} => start_iter'[q] < FirstIter(q + 1)
          /\ pc'[q] = "exited" => start_iter'[q] = FirstIter(q + 1)
          /\ \/ start_iter'[q] \in {FirstIter(q), FirstIter(q + 1)}
             \/ OffsetInTile(start_iter'[q]) = 0
  BY Static DEF Progress, OffsetInTile
<1>4. CASE q = p
  BY <1>2, <1>3, <1>4
<1>5. CASE q # p
  BY <1>2, <1>5 DEF Progress
<1>. QED BY <1>4, <1>5

\* A statement that does not end the round.
LEMMA ProgressSame ==
  ASSUME MmTypeOK, Progress, NEW p \in Pids, launch' = launch,
         start_iter' = start_iter, NEW to, pc' = [pc EXCEPT ![p] = to],
         to \notin {"loop", "exited"} => start_iter[p] < FirstIter(p + 1),
         to = "exited" => start_iter[p] = FirstIter(p + 1)
  PROVE  Progress'
<1>1. \A q \in Pids : pc'[q] = IF q = p THEN to ELSE pc[q]
  BY DEF MmTypeOK
<1> SUFFICES ASSUME NEW q \in Pids
    PROVE /\ FirstIter(q) <= start_iter[q] /\ start_iter[q] <= FirstIter(q + 1)
          /\ pc'[q] \notin {"loop", "exited"} => start_iter[q] < FirstIter(q + 1)
          /\ pc'[q] = "exited" => start_iter[q] = FirstIter(q + 1)
          /\ \/ start_iter[q] \in {FirstIter(q), FirstIter(q + 1)}
             \/ OffsetInTile(start_iter[q]) = 0
  BY Static DEF Progress, OffsetInTile
<1>. QED BY <1>1 DEF Progress

\* What a program's place is after a step.
LEMMA Moved ==
  ASSUME launch' = launch, NEW q
  PROVE  /\ EndIter(q)' = SegmentEnd(q, start_iter'[q])
         /\ Sum(q)' = SegmentSum(q, start_iter'[q])
         /\ TileAt(q)' = TileOf(start_iter'[q])
         /\ BlockAt(q)' = BlockOf(start_iter'[q])
         /\ OffsetInTile(start_iter[q])' = OffsetInTile(start_iter'[q])
<1> USE DEF grid_m, grid_n, sm_count, iters_per_tile, total_tiles,
        cooperative_tiles, TotalIters, FirstIter, iters_per_pid, iters_remaining,
        SegmentEnd, OffsetInTile, TileOf
<1>1. EndIter(q)' = SegmentEnd(q, start_iter'[q])
  BY DEF EndIter
<1>2. Sum(q)' = SegmentSum(q, start_iter'[q])
  BY DEF Sum, SegmentSum, Slices, EndIter
<1>3. TileAt(q)' = TileOf(start_iter'[q])
  BY DEF TileAt
<1>4. BlockAt(q)' = BlockOf(start_iter'[q])
  BY DEF BlockAt, BlockOf, swizzle_tile
<1>5. OffsetInTile(start_iter[q])' = OffsetInTile(start_iter'[q])
  OBVIOUS
<1>. QED BY <1>1, <1>2, <1>3, <1>4, <1>5

LEMMA SumNow ==
  ASSUME NEW q
  PROVE  Sum(q) = SegmentSum(q, start_iter[q])
BY DEF Sum, SegmentSum, EndIter

\* The tile of the segment a program is at, and who ends it.
LEMMA AtSegment ==
  ASSUME MmTypeOK, Progress, NEW p \in Pids, start_iter[p] < FirstIter(p + 1)
  PROVE  /\ TileAt(p) \in Tiles /\ BlockAt(p) = swizzle_tile(TileAt(p))
         /\ start_iter[p] < EndIter(p) /\ EndIter(p) \in Nat
         /\ EndIter(p) <= FirstIter(p + 1)
         /\ \A i \in Nat : start_iter[p] <= i /\ i < EndIter(p) =>
              TileOf(i) = TileAt(p) /\ i \in Iters /\ ~Processed(i)
         /\ ~Finishes(p) => /\ EndIter(p) <= LastIter(TileAt(p))
                            /\ EndIter(p) = FirstIter(p + 1)
         /\ Finishes(p) => /\ EndIter(p) = LastIter(TileAt(p)) + 1
                           /\ ~Processed(LastIter(TileAt(p)))
<1>1. launch \in Launches
  BY DEF MmTypeOK
<1>2. /\ TileAt(p) \in Tiles /\ BlockAt(p) = swizzle_tile(TileAt(p))
      /\ start_iter[p] < EndIter(p) /\ EndIter(p) \in Nat
      /\ EndIter(p) <= FirstIter(p + 1)
  BY <1>1, Here, SegmentFacts DEF TileAt, BlockAt, BlockOf
<1>3. /\ EndIter(p) <= TileAt(p) * iters_per_tile + iters_per_tile
      /\ \/ EndIter(p) = FirstIter(p + 1)
         \/ EndIter(p) = TileAt(p) * iters_per_tile + iters_per_tile
      /\ Finishes(p) <=> EndIter(p) = TileAt(p) * iters_per_tile + iters_per_tile
  BY <1>1, Here, SegmentFacts DEF TileAt, Finishes
<1>4. /\ LastIter(TileAt(p)) = TileAt(p) * iters_per_tile + (iters_per_tile - 1)
      /\ LastIter(TileAt(p)) \in Nat
  BY <1>1, <1>2, LastIterFacts
<1>5. TileAt(p) * iters_per_tile \in Nat /\ iters_per_tile \in Nat \ {0}
  BY <1>1, <1>2, LaunchFacts DEF Tiles
<1>6. \A i \in Nat : start_iter[p] <= i /\ i < EndIter(p) =>
        TileOf(i) = TileAt(p) /\ i \in Iters /\ ~Processed(i)
  BY <1>1, Here, SegmentIters, SegmentFresh DEF TileAt
<1>7. ~Finishes(p) => /\ EndIter(p) <= LastIter(TileAt(p))
                      /\ EndIter(p) = FirstIter(p + 1)
  BY <1>2, <1>3, <1>4, <1>5
<1>8. Finishes(p) => EndIter(p) = LastIter(TileAt(p)) + 1
  BY <1>2, <1>3, <1>4, <1>5
<1>9. Finishes(p) => ~Processed(LastIter(TileAt(p)))
  BY <1>2, <1>4, <1>6, <1>8, Here
<1>. QED BY <1>2, <1>6, <1>7, <1>8, <1>9

\* A tile has a block of its own.
LEMMA TileBlock ==
  ASSUME launch \in Launches, NEW t \in Tiles
  PROVE  /\ swizzle_tile(t) \in Blocks
         /\ \A u \in Tiles : swizzle_tile(u) = swizzle_tile(t) => u = t
<1>1. \A u \in Tiles : u \in AllTiles
  BY LastIterFacts
<1>. QED BY <1>1, SwizzleInBlocks, SwizzleInjective

\* Two programs do not end the same tile.
LEMMA OneFinisher ==
  ASSUME MmTypeOK, Progress, NEW p \in Pids, NEW q \in Pids,
         start_iter[p] < FirstIter(p + 1), start_iter[q] < FirstIter(q + 1),
         Finishes(p), Finishes(q), TileAt(p) = TileAt(q)
  PROVE  p = q
<1> DEFINE i == LastIter(TileAt(p))
<1>1. launch \in Launches
  BY DEF MmTypeOK
<1>2. /\ TileAt(p) \in Tiles /\ EndIter(p) = i + 1 /\ start_iter[p] < EndIter(p)
      /\ EndIter(p) <= FirstIter(p + 1)
  BY AtSegment
<1>3. /\ EndIter(q) = i + 1 /\ start_iter[q] < EndIter(q)
      /\ EndIter(q) <= FirstIter(q + 1)
  BY AtSegment
<1>4. i \in Nat
  BY <1>1, <1>2, LastIterFacts
<1> HIDE DEF i
<1>5. FirstIter(p) <= i /\ i < FirstIter(p + 1)
  BY <1>1, <1>2, <1>4, Here, PidFacts
<1>6. FirstIter(q) <= i /\ i < FirstIter(q + 1)
  BY <1>1, <1>3, <1>4, Here, PidFacts
<1>. QED BY <1>1, <1>4, <1>5, <1>6, PidFacts, OneOwner

\* A step of p keeps what AtStatement says of the others, ...
LEMMA AtStatementKept ==
  ASSUME MmTypeOK, Progress, AtStatement, launch' = launch, NEW p \in Pids,
         \A q \in Pids \ {p} : start_iter'[q] = start_iter[q] /\ pc'[q] = pc[q],
         \A q \in Pids \ {p} : pc[q] = "unlock" => C'[BlockAt(q)] = C[BlockAt(q)],
         \A t \in Tiles : locks[t] = 1 => locks'[t] = 1,
         \/ pc'[p] \in {"loop", "exited"}
         \/ /\ start_iter'[p] = start_iter[p] /\ start_iter[p] < FirstIter(p + 1)
            /\ pc'[p] \in {"store", "unlock", "spin", "add"}
            /\ pc'[p] \in {"store", "unlock"} => Finishes(p)
            /\ pc'[p] = "unlock" =>
                 OffsetInTile(start_iter[p]) # 0 /\ C'[BlockAt(p)] = Sum(p)
            /\ pc'[p] \in {"spin", "add"} => ~Finishes(p)
            /\ pc'[p] = "add" => locks'[TileAt(p)] = 1
  PROVE  AtStatement'
<1> SUFFICES ASSUME NEW q \in Pids
      PROVE /\ pc'[q] \notin {"put", "collect"}
            /\ pc'[q] \in {"store", "unlock"} =>
                 SegmentEnd(q, start_iter'[q]) % iters_per_tile = 0
            /\ pc'[q] = "unlock" =>
                 /\ OffsetInTile(start_iter'[q]) # 0
                 /\ C'[BlockOf(start_iter'[q])] = SegmentSum(q, start_iter'[q])
            /\ pc'[q] \in {"spin", "add"} =>
                 SegmentEnd(q, start_iter'[q]) % iters_per_tile # 0
            /\ pc'[q] = "add" => locks'[TileOf(start_iter'[q])] = 1
  BY Static, Moved DEF AtStatement, Finishes
<1>1. CASE q = p
  BY <1>1, SumNow DEF Finishes, EndIter, BlockAt, TileAt
<1>2. CASE q # p
  <2>1. /\ pc[q] \notin {"put", "collect"}
        /\ pc[q] \in {"store", "unlock"} => Finishes(q)
        /\ pc[q] = "unlock" =>
             OffsetInTile(start_iter[q]) # 0 /\ C[BlockAt(q)] = Sum(q)
        /\ pc[q] \in {"spin", "add"} => ~Finishes(q)
        /\ pc[q] = "add" => locks[TileAt(q)] = 1
    BY DEF AtStatement
  <2>2. pc[q] = "add" => TileAt(q) \in Tiles
    BY AtSegment DEF Progress
  <2>. QED BY <1>2, <2>1, <2>2, SumNow DEF Finishes, EndIter, BlockAt, TileAt
<1>. QED BY <1>1, <1>2

\* The conjuncts about tiles after a step.
Passed(s, i) == \E q \in Pids : FirstIter(q) <= i /\ i < s[q]

LEMMA PassedNow ==
  \A i : Processed(i) <=> Passed(start_iter, i)
BY DEF Processed, Passed

LEMMA TilesNext ==
  ASSUME launch' = launch
  PROVE  /\ LockMeans' <=>
              \A t \in Tiles : locks'[t] = 1 => Passed(start_iter', LastIter(t))
         /\ StoredFirst' <=>
              \A i \in Iters :
                Passed(start_iter', i) => Passed(start_iter', LastIter(TileOf(i)))
         /\ Exact' <=>
              \A i \in Iters :
                Passed(start_iter', LastIter(TileOf(i))) =>
                  C'[BlockOf(i)][OffsetInTile(i)] =
                    IF Passed(start_iter', i) THEN 1 ELSE 0
         /\ Raised' <=>
              \A p \in Pids :
                /\ FirstIter(p) < start_iter'[p]
                /\ OffsetInTile(FirstIter(p)) # 0
                /\ LastIter(TileOf(FirstIter(p))) < FirstIter(p + 1)
                => locks'[TileOf(FirstIter(p))] = 1
         /\ Collected' <=>
              \A t \in Tiles :
                Passed(start_iter', t * iters_per_tile) =>
                  \A k \in Slices : C'[swizzle_tile(t)][k] = 1
<1>0. /\ \A t : LastIter(t)' = LastIter(t)
      /\ \A i : /\ BlockOf(i)' = BlockOf(i) /\ OffsetInTile(i)' = OffsetInTile(i)
                /\ TileOf(i)' = TileOf(i)
      /\ Tiles' = Tiles /\ Iters' = Iters /\ Pids' = Pids
  BY Static
<1>1. \A i : Processed(i)' <=> Passed(start_iter', i)
  BY Static DEF Processed, Passed
<1>2. \A t : Processed(LastIter(t))' <=> Passed(start_iter', LastIter(t))
  BY Static DEF Processed, Passed
<1>3. \A i : Processed(LastIter(TileOf(i)))' <=> Passed(start_iter', LastIter(TileOf(i)))
  BY Static DEF Processed, Passed, LastIter, TileOf, iters_per_tile
<1>4. \A t : Processed(t * iters_per_tile)' <=> Passed(start_iter', t * iters_per_tile)
  BY Static DEF Processed, Passed
<1>5. LockMeans' <=>
        \A t \in Tiles : locks'[t] = 1 => Passed(start_iter', LastIter(t))
  BY <1>0, <1>2 DEF LockMeans
<1>6. StoredFirst' <=>
        \A i \in Iters :
          Passed(start_iter', i) => Passed(start_iter', LastIter(TileOf(i)))
  BY <1>0, <1>1, <1>3 DEF StoredFirst
<1>7. Exact' <=>
        \A i \in Iters :
          Passed(start_iter', LastIter(TileOf(i))) =>
            C'[BlockOf(i)][OffsetInTile(i)] =
              IF Passed(start_iter', i) THEN 1 ELSE 0
  BY <1>0, <1>1, <1>3 DEF Exact
<1>8. Raised' <=>
        \A p \in Pids :
          /\ FirstIter(p) < start_iter'[p]
          /\ OffsetInTile(FirstIter(p)) # 0
          /\ LastIter(TileOf(FirstIter(p))) < FirstIter(p + 1)
          => locks'[TileOf(FirstIter(p))] = 1
  BY Static DEF Raised, TileOf, LastIter, OffsetInTile, iters_per_tile
<1>9. Collected' <=>
        \A t \in Tiles :
          Passed(start_iter', t * iters_per_tile) =>
            \A k \in Slices : C'[swizzle_tile(t)][k] = 1
  BY Static, <1>4 DEF Collected
<1>. QED BY <1>5, <1>6, <1>7, <1>8, <1>9

\* A step that ends no segment and does not touch the tiles.
LEMMA TilesSame ==
  ASSUME launch' = launch, start_iter' = start_iter, C' = C, locks' = locks
  PROVE  /\ LockMeans => LockMeans'
         /\ StoredFirst => StoredFirst'
         /\ Exact => Exact'
         /\ Raised => Raised'
BY TilesNext, PassedNow DEF LockMeans, StoredFirst, Exact, Raised

\* Where the next round begins, and what has been processed then.
LEMMA RoundPassed ==
  ASSUME MmTypeOK, Progress, NEW p \in Pids, start_iter[p] < FirstIter(p + 1),
         launch' = launch, NextRound(p)
  PROVE  /\ \A i \in Nat : Passed(start_iter', i) <=>
                             \/ Processed(i)
                             \/ start_iter[p] <= i /\ i < EndIter(p)
         /\ \A q \in Pids :
              start_iter'[q] = IF q = p THEN EndIter(p) ELSE start_iter[q]
<1>1. \A i \in Nat :
        Processed(i)' <=> Processed(i) \/ (start_iter[p] <= i /\ i < EndIter(p))
  BY SegmentPassed
<1>2. \A i : Processed(i)' <=> Passed(start_iter', i)
  BY Static DEF Processed, Passed
<1>. QED BY <1>1, <1>2 DEF MmTypeOK, NextRound

-----------------------------------------------------------------------------
(***************************************************************************)
(* first_wave                                                              *)
(***************************************************************************)
\* What the end of a segment adds to the tiles.
LEMMA RoundTiles ==
  ASSUME MmTypeOK, Progress, StoredFirst, NEW p \in Pids,
         start_iter[p] < FirstIter(p + 1), launch' = launch, NextRound(p),
         Finishes(p) \/ Processed(LastIter(TileAt(p))), NEW i \in Iters
  PROVE  /\ TileOf(i) # TileAt(p) =>
              /\ Passed(start_iter', i) <=> Processed(i)
              /\ Passed(start_iter', LastIter(TileOf(i))) <=>
                   Processed(LastIter(TileOf(i)))
         /\ TileOf(i) = TileAt(p) =>
              /\ Passed(start_iter', LastIter(TileOf(i)))
              /\ Passed(start_iter', i) <=> Processed(i) \/ Sum(p)[OffsetInTile(i)] = 1
              /\ Sum(p)[OffsetInTile(i)] \in {0, 1}
              /\ Sum(p)[OffsetInTile(i)] = 1 => ~Processed(i)
              /\ Finishes(p) => ~Processed(i)
<1>1. launch \in Launches /\ i \in Nat /\ i < TotalIters
  BY LaunchFacts DEF MmTypeOK, Iters
<1>2. TileOf(i) \in Tiles /\ OffsetInTile(i) \in Slices
  BY <1>1, TileFacts
<1>3. LastIter(TileOf(i)) \in Nat /\ TileOf(LastIter(TileOf(i))) = TileOf(i)
  BY <1>1, <1>2, LastIterFacts
<1>4. \A j \in Nat : start_iter[p] <= j /\ j < EndIter(p) =>
        TileOf(j) = TileAt(p) /\ ~Processed(j)
  BY AtSegment
<1>5. ASSUME TileOf(i) # TileAt(p)
      PROVE  /\ Passed(start_iter', i) <=> Processed(i)
             /\ Passed(start_iter', LastIter(TileOf(i))) <=>
                  Processed(LastIter(TileOf(i)))
  BY <1>1, <1>3, <1>4, <1>5, RoundPassed
<1>6. ASSUME TileOf(i) = TileAt(p)
      PROVE  /\ Passed(start_iter', LastIter(TileOf(i)))
             /\ Passed(start_iter', i) <=> Processed(i) \/ Sum(p)[OffsetInTile(i)] = 1
             /\ Sum(p)[OffsetInTile(i)] \in {0, 1}
             /\ Sum(p)[OffsetInTile(i)] = 1 => ~Processed(i)
             /\ Finishes(p) => ~Processed(i)
  <2>1. Passed(start_iter', LastIter(TileOf(i)))
    <3>1. Finishes(p) => start_iter[p] <= LastIter(TileOf(i))
                         /\ LastIter(TileOf(i)) < EndIter(p)
      BY <1>3, <1>6, AtSegment, Here
    <3>. QED BY <1>3, <1>6, <3>1, RoundPassed
  <2>2. start_iter[p] <= i /\ i < EndIter(p) <=>
          /\ OffsetInTile(start_iter[p]) <= OffsetInTile(i)
          /\ OffsetInTile(i) < OffsetInTile(start_iter[p]) + EndIter(p) - start_iter[p]
    BY <1>1, <1>6, Here, SegmentIters DEF TileAt
  <2>3. /\ Sum(p)[OffsetInTile(i)] \in {0, 1}
        /\ Sum(p)[OffsetInTile(i)] = 1 <=> start_iter[p] <= i /\ i < EndIter(p)
    BY <1>2, <2>2 DEF Sum
  <2>4. Finishes(p) => ~Processed(i)
    BY <1>6, AtSegment DEF StoredFirst
  <2>. QED BY <1>1, <1>4, <2>1, <2>3, <2>4, RoundPassed
<1>. QED BY <1>5, <1>6

LEMMA ExactRound ==
  ASSUME MmTypeOK, Progress, StoredFirst, Exact, NEW p \in Pids,
         start_iter[p] < FirstIter(p + 1), launch' = launch, NextRound(p),
         Finishes(p) \/ Processed(LastIter(TileAt(p))),
         \A k \in Slices : C'[BlockAt(p)][k] =
           Sum(p)[k] + IF Finishes(p) THEN 0 ELSE C[BlockAt(p)][k],
         \A t \in Tiles \ {TileAt(p)} : C'[swizzle_tile(t)] = C[swizzle_tile(t)]
  PROVE  StoredFirst' /\ Exact'
<1>1. launch \in Launches
  BY DEF MmTypeOK
<1>2. ASSUME NEW i \in Iters, Passed(start_iter', i)
      PROVE  Passed(start_iter', LastIter(TileOf(i)))
  BY <1>2, RoundTiles DEF StoredFirst
<1>3. ASSUME NEW i \in Iters, Passed(start_iter', LastIter(TileOf(i)))
      PROVE  C'[BlockOf(i)][OffsetInTile(i)] = IF Passed(start_iter', i) THEN 1 ELSE 0
  <2>0. TileOf(i) \in Tiles /\ OffsetInTile(i) \in Slices
    BY <1>1, LaunchFacts, TileFacts DEF Iters
  <2>1. CASE TileOf(i) # TileAt(p)
    <3>1. C'[BlockOf(i)] = C[BlockOf(i)]
      BY <2>0, <2>1 DEF BlockOf
    <3>2. /\ Passed(start_iter', i) <=> Processed(i)
          /\ Processed(LastIter(TileOf(i)))
      BY <1>3, <2>1, RoundTiles
    <3>. QED BY <3>1, <3>2 DEF Exact
  <2>2. CASE TileOf(i) = TileAt(p)
    <3>1. BlockOf(i) = BlockAt(p)
      BY <2>2, AtSegment DEF BlockOf
    <3>2. /\ Passed(start_iter', i) <=> Processed(i) \/ Sum(p)[OffsetInTile(i)] = 1
          /\ Sum(p)[OffsetInTile(i)] \in {0, 1}
          /\ Sum(p)[OffsetInTile(i)] = 1 => ~Processed(i)
          /\ Finishes(p) => ~Processed(i)
      BY <2>2, RoundTiles
    <3>3. ~Finishes(p) => C[BlockOf(i)][OffsetInTile(i)] = IF Processed(i) THEN 1 ELSE 0
      BY <2>2 DEF Exact
    <3>. QED BY <2>0, <3>1, <3>2, <3>3
  <2>. QED BY <2>1, <2>2
<1>. QED BY <1>2, <1>3, TilesNext

\* Reads of C after a store to the block of one tile.
LEMMA BlockStored ==
  ASSUME MmTypeOK, NEW t \in Tiles, NEW v, C' = [C EXCEPT ![swizzle_tile(t)] = v]
  PROVE  /\ C'[swizzle_tile(t)] = v
         /\ \A u \in Tiles \ {t} : C'[swizzle_tile(u)] = C[swizzle_tile(u)]
BY TileBlock DEF MmTypeOK

LEMMA QuietKept ==
  ASSUME MmTypeOK, Progress, FirstWaveInv, NEW p \in Pids, launch' = launch,
         Mac(p) \/ Exit(p) \/ Spin(p)
  PROVE  Progress' /\ FirstWaveInv'
<1>1. start_iter' = start_iter /\ C' = C /\ locks' = locks
  BY DEF Mac, Exit, Spin
<1>2. PICK to \in {"store", "spin", "exited", "add"} :
        /\ pc' = [pc EXCEPT ![p] = to]
        /\ to # "exited" => start_iter[p] < FirstIter(p + 1)
        /\ to = "exited" => start_iter[p] = FirstIter(p + 1)
        /\ to = "store" => Finishes(p)
        /\ to \in {"spin", "add"} => ~Finishes(p)
        /\ to = "add" => locks[TileAt(p)] = 1
  <2>1. CASE Mac(p)
    BY <2>1 DEF Mac, Goto
  <2>2. CASE Exit(p)
    <3>1. launch \in Launches
      BY DEF MmTypeOK
    <3>2. start_iter[p] = FirstIter(p + 1)
      BY <2>2, <3>1, Here, PidFacts DEF Exit
    <3>. QED BY <2>2, <3>2 DEF Exit, Goto
  <2>3. CASE Spin(p)
    BY <2>3 DEF Spin, Goto, FirstWaveInv, AtStatement, Progress
  <2>. QED BY <2>1, <2>2, <2>3
<1>3. Progress'
  BY <1>1, <1>2, ProgressSame
<1>4. \A q \in Pids : pc'[q] = IF q = p THEN to ELSE pc[q]
  BY <1>2 DEF MmTypeOK
<1>5. AtStatement'
  BY <1>1, <1>2, <1>4, AtStatementKept DEF FirstWaveInv
<1>. QED BY <1>1, <1>3, <1>5, TilesSame DEF FirstWaveInv

LEMMA StoreTileKept ==
  ASSUME MmTypeOK, Progress, FirstWaveInv, NEW p \in Pids, launch' = launch,
         StoreTile(p)
  PROVE  Progress' /\ FirstWaveInv'
<1>1. /\ start_iter[p] < FirstIter(p + 1) /\ Finishes(p) /\ locks' = locks
      /\ pc[p] = "store"
  BY DEF StoreTile, FirstWaveInv, AtStatement, Progress
<1>2. TileAt(p) \in Tiles /\ BlockAt(p) = swizzle_tile(TileAt(p))
      /\ ~Processed(LastIter(TileAt(p)))
  BY <1>1, AtSegment
<1>3. /\ C'[BlockAt(p)] = Sum(p)
      /\ \A t \in Tiles \ {TileAt(p)} : C'[swizzle_tile(t)] = C[swizzle_tile(t)]
  BY <1>2, BlockStored DEF StoreTile
<1>4. ASSUME NEW q \in Pids \ {p}, pc[q] = "unlock"
      PROVE  C'[BlockAt(q)] = C[BlockAt(q)]
  <2>1. start_iter[q] < FirstIter(q + 1) /\ Finishes(q)
    BY <1>4 DEF FirstWaveInv, AtStatement, Progress
  <2>2. TileAt(q) \in Tiles /\ BlockAt(q) = swizzle_tile(TileAt(q))
    BY <2>1, AtSegment
  <2>. QED BY <1>1, <1>3, <2>1, <2>2, OneFinisher
<1>5. CASE OffsetInTile(start_iter[p]) # 0
  <2>1. pc' = [pc EXCEPT ![p] = "unlock"] /\ start_iter' = start_iter
    BY <1>5 DEF StoreTile
  <2>2. Progress'
    BY <1>1, <2>1, ProgressSame
  <2>3. \A q \in Pids : pc'[q] = IF q = p THEN "unlock" ELSE pc[q]
    BY <2>1 DEF MmTypeOK
  <2>4. AtStatement'
    BY <1>1, <1>3, <1>4, <1>5, <2>1, <2>3, AtStatementKept DEF FirstWaveInv
  <2>5. Exact'
    <3>1. ASSUME NEW i \in Iters, Passed(start_iter', LastIter(TileOf(i)))
          PROVE  C'[BlockOf(i)][OffsetInTile(i)] =
                   IF Passed(start_iter', i) THEN 1 ELSE 0
      <4>1. Processed(LastIter(TileOf(i)))
        BY <2>1, <3>1, PassedNow
      <4>2. TileOf(i) \in Tiles
        BY LaunchFacts, TileFacts DEF Iters, MmTypeOK
      <4>3. C'[BlockOf(i)] = C[BlockOf(i)]
        BY <1>2, <1>3, <4>1, <4>2 DEF BlockOf
      <4>. QED BY <2>1, <4>1, <4>3, PassedNow DEF FirstWaveInv, Exact
    <3>. QED BY <3>1, TilesNext
  <2>6. LockMeans' /\ StoredFirst' /\ Raised'
    BY <1>1, <2>1, TilesNext, PassedNow
       DEF FirstWaveInv, LockMeans, StoredFirst, Raised
  <2>. QED BY <2>2, <2>4, <2>5, <2>6 DEF FirstWaveInv
<1>6. CASE OffsetInTile(start_iter[p]) = 0
  <2>1. pc' = [pc EXCEPT ![p] = "loop"] /\ NextRound(p)
    BY <1>6 DEF StoreTile
  <2>2. Progress'
    BY <1>1, <2>1, ProgressRound
  <2>3. \A q \in Pids : /\ pc'[q] = IF q = p THEN "loop" ELSE pc[q]
                        /\ start_iter'[q] = IF q = p THEN EndIter(p) ELSE start_iter[q]
    BY <2>1 DEF MmTypeOK, NextRound
  <2>4. AtStatement'
    BY <1>1, <1>4, <2>3, AtStatementKept DEF FirstWaveInv
  <2>5. StoredFirst' /\ Exact'
    <3>1. \A k \in Slices : Sum(p)[k] \in {0, 1}
      BY DEF Sum
    <3>. QED BY <1>1, <1>2, <1>3, <2>1, <3>1, ExactRound DEF FirstWaveInv
  <2>6. LockMeans'
    <3>1. \A t \in Tiles : LastIter(t) \in Nat
      BY LastIterFacts DEF MmTypeOK
    <3>. QED BY <1>1, <2>1, <3>1, RoundPassed, TilesNext DEF FirstWaveInv, LockMeans
  <2>7. Raised'
    <3>1. ASSUME FirstIter(p) < start_iter'[p], OffsetInTile(FirstIter(p)) # 0
          PROVE  FirstIter(p) < start_iter[p]
      <4>1. launch \in Launches
        BY DEF MmTypeOK
      <4>2. FirstIter(p) # start_iter[p]
        BY <1>6, <3>1
      <4>. QED BY <4>1, <4>2, Here, PidFacts
    <3>. QED BY <1>1, <2>3, <3>1, TilesNext DEF FirstWaveInv, Raised
  <2>. QED BY <2>2, <2>4, <2>5, <2>6, <2>7 DEF FirstWaveInv
<1>. QED BY <1>5, <1>6

LEMMA UnlockKept ==
  ASSUME MmTypeOK, Progress, FirstWaveInv, NEW p \in Pids, launch' = launch,
         Unlock(p)
  PROVE  Progress' /\ FirstWaveInv'
<1>1. /\ start_iter[p] < FirstIter(p + 1) /\ Finishes(p) /\ C' = C
      /\ C[BlockAt(p)] = Sum(p) /\ NextRound(p) /\ pc' = [pc EXCEPT ![p] = "loop"]
  BY DEF Unlock, Goto, FirstWaveInv, AtStatement, Progress
<1>2. TileAt(p) \in Tiles /\ EndIter(p) = LastIter(TileAt(p)) + 1
  BY <1>1, AtSegment
<1>3. \A t \in Tiles : locks'[t] = IF t = TileAt(p) THEN 1 ELSE locks[t]
  BY <1>2 DEF Unlock, MmTypeOK
<1>4. Progress'
  BY <1>1, ProgressRound
<1>5. \A q \in Pids : /\ pc'[q] = IF q = p THEN "loop" ELSE pc[q]
                      /\ start_iter'[q] = IF q = p THEN EndIter(p) ELSE start_iter[q]
  BY <1>1 DEF MmTypeOK, NextRound
<1>6. AtStatement'
  BY <1>1, <1>3, <1>5, AtStatementKept DEF FirstWaveInv
<1>7. StoredFirst' /\ Exact'
  <2>1. \A k \in Slices : Sum(p)[k] \in {0, 1}
    BY DEF Sum
  <2>. QED BY <1>1, <2>1, ExactRound DEF FirstWaveInv
<1>8. \A t \in Tiles : LastIter(t) \in Nat
  BY LastIterFacts DEF MmTypeOK
<1>9. LockMeans'
  <2>1. start_iter[p] <= LastIter(TileAt(p)) /\ LastIter(TileAt(p)) < EndIter(p)
    BY <1>1, <1>2, <1>8, AtSegment, Here
  <2>. QED BY <1>1, <1>2, <1>3, <1>8, <2>1, RoundPassed, TilesNext
           DEF FirstWaveInv, LockMeans
<1>10. Raised'
  <2>1. FirstIter(p) < start_iter[p] \/ TileOf(FirstIter(p)) = TileAt(p)
    <3>1. launch \in Launches
      BY DEF MmTypeOK
    <3>2. FirstIter(p) = start_iter[p] \/ FirstIter(p) < start_iter[p]
      BY <3>1, Here, PidFacts
    <3>. QED BY <3>2 DEF TileAt
  <2>2. \A q \in Pids : /\ FirstIter(q) < FirstIter(q + 1)
                        => TileOf(FirstIter(q)) \in Tiles
    BY LaunchFacts, PidFacts, TileFacts DEF MmTypeOK
  <2>3. ASSUME NEW q \in Pids, FirstIter(q) < start_iter'[q]
        PROVE  FirstIter(q) < FirstIter(q + 1)
    <3>1. launch \in Launches
      BY DEF MmTypeOK
    <3>2. FirstIter(q) \in Nat /\ FirstIter(q + 1) \in Nat
      BY <3>1, PidFacts
    <3>3. CASE q = p
      <4>1. EndIter(p) \in Nat /\ EndIter(p) <= FirstIter(p + 1)
        BY <1>1, AtSegment
      <4>. QED BY <1>5, <2>3, <3>2, <3>3, <4>1
    <3>4. CASE q # p
      <4>1. start_iter'[q] = start_iter[q]
        BY <1>5, <3>4
      <4>2. start_iter[q] \in Nat /\ start_iter[q] <= FirstIter(q + 1)
        BY DEF MmTypeOK, Progress
      <4>. QED BY <2>3, <3>2, <4>1, <4>2
    <3>. QED BY <3>3, <3>4
  <2>. QED BY <1>3, <1>5, <2>1, <2>2, <2>3, TilesNext DEF FirstWaveInv, Raised
<1>. QED BY <1>4, <1>6, <1>7, <1>9, <1>10 DEF FirstWaveInv

LEMMA AddSegmentKept ==
  ASSUME MmTypeOK, Progress, FirstWaveInv, NEW p \in Pids, launch' = launch,
         AddSegment(p)
  PROVE  Progress' /\ FirstWaveInv'
<1>1. /\ start_iter[p] < FirstIter(p + 1) /\ ~Finishes(p) /\ locks' = locks
      /\ locks[TileAt(p)] = 1 /\ NextRound(p) /\ pc' = [pc EXCEPT ![p] = "loop"]
  BY DEF AddSegment, Goto, FirstWaveInv, AtStatement, Progress
<1>2. /\ TileAt(p) \in Tiles /\ BlockAt(p) = swizzle_tile(TileAt(p))
      /\ EndIter(p) <= LastIter(TileAt(p)) /\ EndIter(p) = FirstIter(p + 1)
  BY <1>1, AtSegment
<1>3. Processed(LastIter(TileAt(p)))
  BY <1>1, <1>2 DEF FirstWaveInv, LockMeans
<1>4. /\ C'[BlockAt(p)] = [k \in Slices |-> C[BlockAt(p)][k] + Sum(p)[k]]
      /\ \A t \in Tiles \ {TileAt(p)} : C'[swizzle_tile(t)] = C[swizzle_tile(t)]
  BY <1>2, BlockStored DEF AddSegment
<1>5. ASSUME NEW q \in Pids \ {p}, pc[q] = "unlock"
      PROVE  C'[BlockAt(q)] = C[BlockAt(q)]
  <2>1. start_iter[q] < FirstIter(q + 1) /\ Finishes(q)
    BY <1>5 DEF FirstWaveInv, AtStatement, Progress
  <2>2. /\ TileAt(q) \in Tiles /\ BlockAt(q) = swizzle_tile(TileAt(q))
        /\ ~Processed(LastIter(TileAt(q)))
    BY <2>1, AtSegment
  <2>. QED BY <1>3, <1>4, <2>2
<1>6. Progress'
  BY <1>1, ProgressRound
<1>7. \A q \in Pids : /\ pc'[q] = IF q = p THEN "loop" ELSE pc[q]
                      /\ start_iter'[q] = IF q = p THEN EndIter(p) ELSE start_iter[q]
  BY <1>1 DEF MmTypeOK, NextRound
<1>8. AtStatement'
  BY <1>1, <1>5, <1>7, AtStatementKept DEF FirstWaveInv
<1>9. StoredFirst' /\ Exact'
  <2>1. \A k \in Slices : Sum(p)[k] \in {0, 1} /\ C[BlockAt(p)][k] \in Nat
    BY <1>2, TileBlock DEF Sum, MmTypeOK
  <2>2. \A k \in Slices : C'[BlockAt(p)][k] =
          Sum(p)[k] + IF Finishes(p) THEN 0 ELSE C[BlockAt(p)][k]
    BY <1>1, <1>4, <2>1
  <2>. QED BY <1>1, <1>3, <1>4, <2>2, ExactRound DEF FirstWaveInv
<1>10. LockMeans'
  <2>1. \A t \in Tiles : LastIter(t) \in Nat
    BY LastIterFacts DEF MmTypeOK
  <2>. QED BY <1>1, <2>1, RoundPassed, TilesNext DEF FirstWaveInv, LockMeans
<1>11. Raised'
  <2>1. ASSUME FirstIter(p) < start_iter'[p],
               LastIter(TileOf(FirstIter(p))) < FirstIter(p + 1)
        PROVE  FirstIter(p) < start_iter[p]
    <3>1. LastIter(TileAt(p)) \in Nat
      BY <1>2, LastIterFacts DEF MmTypeOK
    <3>2. launch \in Launches
      BY DEF MmTypeOK
    <3>3. TileAt(p) # TileOf(FirstIter(p))
      BY <1>2, <2>1, <3>1, <3>2, PidFacts
    <3>4. FirstIter(p) # start_iter[p]
      BY <3>3 DEF TileAt
    <3>. QED BY <3>2, <3>4, Here, PidFacts
  <2>. QED BY <1>1, <1>7, <2>1, TilesNext DEF FirstWaveInv, Raised
<1>. QED BY <1>6, <1>8, <1>9, <1>10, <1>11 DEF FirstWaveInv

LEMMA FirstWaveKept ==
  ASSUME MmTypeOK, Progress, FirstWaveInv, NEW p \in Pids, Step(p)
  PROVE  Progress' /\ FirstWaveInv'
<1>1. launch' = launch
  BY DEF Step
<1>. QED BY <1>1, QuietKept, StoreTileKept, UnlockKept, AddSegmentKept DEF Step

-----------------------------------------------------------------------------
(***************************************************************************)
(* first_wave_for_bf16                                                     *)
(***************************************************************************)
\* The conjuncts about the slots after a step.
LEMMA SlotsNext ==
  ASSUME launch' = launch
  PROVE  /\ SlotAtStatement' <=>
              \A q \in Pids :
                /\ pc'[q] \notin {"store", "spin", "add"}
                /\ pc'[q] \in {"put", "unlock"} =>
                     OffsetInTile(start_iter'[q]) # 0 /\ acc'[q] = FirstSum(q)
                /\ pc'[q] = "unlock" => P'[q] = FirstSum(q)
         /\ SlotMeans' <=>
              \A q \in Pids :
                /\ slot_locks'[q] = 1 <=>
                     /\ FirstIter(q) < start_iter'[q]
                     /\ OffsetInTile(FirstIter(q)) # 0
                /\ slot_locks'[q] = 1 => P'[q] = FirstSum(q)
         /\ Collecting' <=>
              \A q \in Pids :
                pc'[q] = "collect" =>
                  /\ OffsetInTile(start_iter'[q]) = 0
                  /\ next_pid'[q] \in q + 1 .. sm_count
                  /\ start_iter'[q] < end'[q]
                  /\ end'[q] < start_iter'[q] + iters_per_tile =>
                       end'[q] = FirstIter(next_pid'[q])
                  /\ \A k \in Slices :
                       acc'[q][k] = IF k < end'[q] - start_iter'[q] THEN 1 ELSE 0
<1>0. Pids' = Pids /\ Slices' = Slices /\ iters_per_tile' = iters_per_tile
      /\ sm_count' = sm_count
  BY Static
<1>1. SlotAtStatement' <=>
        \A q \in Pids :
          /\ pc'[q] \notin {"store", "spin", "add"}
          /\ pc'[q] \in {"put", "unlock"} =>
               OffsetInTile(start_iter'[q]) # 0 /\ acc'[q] = FirstSum(q)
          /\ pc'[q] = "unlock" => P'[q] = FirstSum(q)
  BY Static, Moved DEF SlotAtStatement
<1>2. SlotMeans' <=>
        \A q \in Pids :
          /\ slot_locks'[q] = 1 <=>
               /\ FirstIter(q) < start_iter'[q]
               /\ OffsetInTile(FirstIter(q)) # 0
          /\ slot_locks'[q] = 1 => P'[q] = FirstSum(q)
  BY Static DEF SlotMeans, OffsetInTile
<1>3. \A q : FirstIter(next_pid[q])' = FirstIter(next_pid'[q])
  BY DEF FirstIter, iters_per_pid, iters_remaining, sm_count, TotalIters,
         cooperative_tiles, total_tiles, grid_m, grid_n, iters_per_tile
<1>4. Collecting' <=>
        \A q \in Pids :
          pc'[q] = "collect" =>
            /\ OffsetInTile(start_iter'[q]) = 0
            /\ next_pid'[q] \in q + 1 .. sm_count
            /\ start_iter'[q] < end'[q]
            /\ end'[q] < start_iter'[q] + iters_per_tile =>
                 end'[q] = FirstIter(next_pid'[q])
            /\ \A k \in Slices :
                 acc'[q][k] = IF k < end'[q] - start_iter'[q] THEN 1 ELSE 0
  BY <1>0, <1>3, Moved DEF Collecting
<1>. QED BY <1>1, <1>2, <1>4


\* A step of p, and what it has to keep for p itself.
LEMMA SlotsKept ==
  ASSUME launch' = launch, SlotAtStatement, SlotMeans, Collecting, NEW p \in Pids,
         \A q \in Pids \ {p} :
           /\ start_iter'[q] = start_iter[q] /\ pc'[q] = pc[q] /\ acc'[q] = acc[q]
           /\ P'[q] = P[q] /\ slot_locks'[q] = slot_locks[q]
           /\ next_pid'[q] = next_pid[q] /\ end'[q] = end[q],
         pc'[p] \notin {"store", "spin", "add"},
         pc'[p] \in {"put", "unlock"} =>
           OffsetInTile(start_iter'[p]) # 0 /\ acc'[p] = FirstSum(p),
         pc'[p] = "unlock" => P'[p] = FirstSum(p),
         slot_locks'[p] = 1 <=>
           FirstIter(p) < start_iter'[p] /\ OffsetInTile(FirstIter(p)) # 0,
         slot_locks'[p] = 1 => P'[p] = FirstSum(p),
         pc'[p] = "collect" =>
           /\ OffsetInTile(start_iter'[p]) = 0
           /\ next_pid'[p] \in p + 1 .. sm_count
           /\ start_iter'[p] < end'[p]
           /\ end'[p] < start_iter'[p] + iters_per_tile =>
                end'[p] = FirstIter(next_pid'[p])
           /\ \A k \in Slices :
                acc'[p][k] = IF k < end'[p] - start_iter'[p] THEN 1 ELSE 0
  PROVE  SlotAtStatement' /\ SlotMeans' /\ Collecting'
<1>1. SlotAtStatement'
  BY SlotsNext DEF SlotAtStatement
<1>2. SlotMeans'
  BY SlotsNext DEF SlotMeans
<1>3. Collecting'
  BY SlotsNext DEF Collecting
<1>. QED BY <1>1, <1>2, <1>3

LEMMA CollectedSame ==
  ASSUME launch' = launch, start_iter' = start_iter, C' = C, Collected
  PROVE  Collected'
BY TilesNext, PassedNow DEF Collected

\* A segment that does not begin its tile is the first of its program.
LEMMA FirstSegment ==
  ASSUME MmTypeOK, Progress, NEW p \in Pids, start_iter[p] < FirstIter(p + 1),
         OffsetInTile(start_iter[p]) # 0
  PROVE  start_iter[p] = FirstIter(p) /\ Sum(p) = FirstSum(p)
<1>1. launch \in Launches
  BY DEF MmTypeOK
<1>2. start_iter[p] = FirstIter(p)
  BY <1>1, Here, PidFacts DEF Progress
<1>. QED BY <1>2, SumNow DEF FirstSum

\* A segment that begins its tile.
LEMMA TileSegment ==
  ASSUME MmTypeOK, Progress, NEW p \in Pids, start_iter[p] < FirstIter(p + 1),
         OffsetInTile(start_iter[p]) = 0
  PROVE  /\ start_iter[p] = TileAt(p) * iters_per_tile /\ TileAt(p) \in Tiles
         /\ start_iter[p] + iters_per_tile <= TotalIters
         /\ \A k \in Slices : Sum(p)[k] = IF k < EndIter(p) - start_iter[p] THEN 1 ELSE 0
         /\ EndIter(p) < start_iter[p] + iters_per_tile => EndIter(p) = FirstIter(p + 1)
<1>1. launch \in Launches
  BY DEF MmTypeOK
<1>2. TileAt(p) \in Tiles /\ EndIter(p) \in Nat /\ start_iter[p] \in Nat
  BY Here, AtSegment
<1>3. start_iter[p] = TileAt(p) * iters_per_tile + OffsetInTile(start_iter[p])
  BY <1>1, Here, TileFacts DEF TileAt
<1>4. TileAt(p) * iters_per_tile \in Nat /\ iters_per_tile \in Nat \ {0}
  BY <1>1, <1>2, LaunchFacts DEF Tiles
<1>5. start_iter[p] = TileAt(p) * iters_per_tile
  BY <1>3, <1>4
<1>6. TileAt(p) * iters_per_tile + iters_per_tile <= TotalIters
  <2>1. 0 \in Slices
    BY <1>4 DEF Slices
  <2>. QED BY <1>1, <1>2, <2>1, TileIters
<1>7. \A k \in Slices : Sum(p)[k] = IF k < EndIter(p) - start_iter[p] THEN 1 ELSE 0
  BY <1>2, <1>4 DEF Sum, Slices
<1>8. \/ EndIter(p) = FirstIter(p + 1)
      \/ EndIter(p) = TileAt(p) * iters_per_tile + iters_per_tile
  BY <1>1, Here, SegmentFacts DEF TileAt
<1>9. EndIter(p) < start_iter[p] + iters_per_tile => EndIter(p) = FirstIter(p + 1)
  BY <1>2, <1>4, <1>5, <1>8
<1>. QED BY <1>2, <1>5, <1>6, <1>7, <1>9

LEMMA SlotExitKept ==
  ASSUME MmTypeOK, Progress, Bf16WaveInv, NEW p \in Pids, launch' = launch,
         locks' = locks, Bf16!Exit(p)
  PROVE  Progress' /\ Bf16WaveInv'
<1>1. /\ pc' = [pc EXCEPT ![p] = "exited"]
      /\ start_iter[p] >= FirstIter(p + 1)
      /\ UNCHANGED <<C, P, slot_locks, acc, start_iter, next_pid, end>>
  BY Bf16Same DEF Bf16!Exit, Bf16!Goto
<1>2. launch \in Launches
  BY DEF MmTypeOK
<1>3. start_iter[p] = FirstIter(p + 1)
  BY <1>1, <1>2, Here, PidFacts
<1>4. Progress'
  BY <1>1, <1>3, ProgressSame
<1>5. \A q \in Pids : pc'[q] = IF q = p THEN "exited" ELSE pc[q]
  BY <1>1 DEF MmTypeOK
<1>6. SlotAtStatement' /\ SlotMeans' /\ Collecting'
  BY <1>1, <1>5, SlotsNext DEF Bf16WaveInv, SlotAtStatement, SlotMeans, Collecting
<1>. QED BY <1>1, <1>4, <1>6, Static, CollectedSame DEF Bf16WaveInv

LEMMA SlotMacKept ==
  ASSUME MmTypeOK, Progress, Bf16WaveInv, NEW p \in Pids, launch' = launch,
         locks' = locks, Bf16!Mac(p)
  PROVE  Progress' /\ Bf16WaveInv'
<1> DEFINE to == IF OffsetInTile(start_iter[p]) # 0 THEN "put" ELSE "collect"
<1>1. /\ pc' = [pc EXCEPT ![p] = to]
      /\ start_iter[p] < FirstIter(p + 1)
      /\ acc' = [acc EXCEPT ![p] = Sum(p)]
      /\ next_pid' = [next_pid EXCEPT ![p] = p + 1]
      /\ end' = [end EXCEPT ![p] = EndIter(p)]
      /\ UNCHANGED <<C, P, slot_locks, start_iter>>
  BY Bf16Same DEF Bf16!Mac, Bf16!Goto
<1>2. launch \in Launches
  BY DEF MmTypeOK
<1>3. Progress'
  <2>1. to \in {"put", "collect"}
    OBVIOUS
  <2>. HIDE DEF to
  <2>. QED BY <1>1, <2>1, ProgressSame
<1>4. \A q \in Pids : /\ pc'[q] = IF q = p THEN to ELSE pc[q]
                      /\ acc'[q] = IF q = p THEN Sum(p) ELSE acc[q]
                      /\ next_pid'[q] = IF q = p THEN p + 1 ELSE next_pid[q]
                      /\ end'[q] = IF q = p THEN EndIter(p) ELSE end[q]
  BY <1>1 DEF MmTypeOK
<1>5. to = "put" => OffsetInTile(start_iter[p]) # 0 /\ Sum(p) = FirstSum(p)
  BY <1>1, FirstSegment
<1>6. to = "collect" =>
        /\ OffsetInTile(start_iter[p]) = 0
        /\ p + 1 \in p + 1 .. sm_count
        /\ start_iter[p] < EndIter(p)
        /\ EndIter(p) < start_iter[p] + iters_per_tile => EndIter(p) = FirstIter(p + 1)
        /\ \A k \in Slices : Sum(p)[k] = IF k < EndIter(p) - start_iter[p] THEN 1 ELSE 0
  <2>1. p + 1 \in p + 1 .. sm_count
    BY <1>2, PidFacts, LaunchFacts
  <2>2. start_iter[p] < EndIter(p)
    BY <1>1, AtSegment
  <2>. QED BY <1>1, <2>1, <2>2, TileSegment
<1>7. SlotMeans'
  BY <1>1, SlotsNext DEF Bf16WaveInv, SlotMeans
<1>8. SlotAtStatement'
  <2>1. to \in {"put", "collect"}
    OBVIOUS
  <2>. HIDE DEF to
  <2>. QED BY <1>1, <1>4, <1>5, <2>1, SlotsNext DEF Bf16WaveInv, SlotAtStatement
<1>9. Collecting'
  <2>. HIDE DEF to
  <2>. QED BY <1>1, <1>4, <1>6, SlotsNext DEF Bf16WaveInv, Collecting
<1>. QED BY <1>1, <1>3, <1>7, <1>8, <1>9, Static, CollectedSame DEF Bf16WaveInv

LEMMA SlotPutKept ==
  ASSUME MmTypeOK, Progress, Bf16WaveInv, NEW p \in Pids, launch' = launch,
         locks' = locks, Bf16!PutSlot(p)
  PROVE  Progress' /\ Bf16WaveInv'
<1>1. /\ pc[p] = "put"
      /\ pc' = [pc EXCEPT ![p] = "unlock"]
      /\ P' = [P EXCEPT ![p] = acc[p]]
      /\ UNCHANGED <<C, slot_locks, acc, start_iter, next_pid, end>>
  BY DEF Bf16!PutSlot, Bf16!Goto
<1>2. OffsetInTile(start_iter[p]) # 0 /\ acc[p] = FirstSum(p)
  BY <1>1 DEF Bf16WaveInv, SlotAtStatement
<1>3. Progress'
  BY <1>1, ProgressSame DEF Progress
<1>4. \A q \in Pids : /\ pc'[q] = IF q = p THEN "unlock" ELSE pc[q]
                      /\ P'[q] = IF q = p THEN FirstSum(p) ELSE P[q]
  BY <1>1, <1>2 DEF MmTypeOK
<1>5. SlotAtStatement' /\ SlotMeans' /\ Collecting'
  BY <1>1, <1>2, <1>4, SlotsNext DEF Bf16WaveInv, SlotAtStatement, SlotMeans, Collecting
<1>. QED BY <1>1, <1>3, <1>5, Static, CollectedSame DEF Bf16WaveInv

LEMMA SlotUnlockKept ==
  ASSUME MmTypeOK, Progress, Bf16WaveInv, NEW p \in Pids, launch' = launch,
         locks' = locks, Bf16!Unlock(p)
  PROVE  Progress' /\ Bf16WaveInv'
<1>1. /\ pc[p] = "unlock"
      /\ pc' = [pc EXCEPT ![p] = "loop"]
      /\ slot_locks' = [slot_locks EXCEPT ![p] = 1]
      /\ start_iter' = [start_iter EXCEPT ![p] = EndIter(p)]
      /\ UNCHANGED <<C, P, acc, next_pid, end>>
  BY Bf16Same DEF Bf16!Unlock, Bf16!Goto
<1>2. launch \in Launches
  BY DEF MmTypeOK
<1>3. /\ start_iter[p] < FirstIter(p + 1)
      /\ OffsetInTile(start_iter[p]) # 0 /\ P[p] = FirstSum(p)
  BY <1>1 DEF Bf16WaveInv, SlotAtStatement, Progress
<1>4. Progress'
  BY <1>1, <1>3, ProgressRound DEF NextRound
<1>5. \A q \in Pids : /\ pc'[q] = IF q = p THEN "loop" ELSE pc[q]
                      /\ slot_locks'[q] = IF q = p THEN 1 ELSE slot_locks[q]
                      /\ start_iter'[q] = IF q = p THEN EndIter(p) ELSE start_iter[q]
  BY <1>1 DEF MmTypeOK
<1>6. start_iter[p] = FirstIter(p) /\ FirstIter(p) < EndIter(p)
  BY <1>3, FirstSegment, AtSegment
<1>7. SlotAtStatement' /\ SlotMeans' /\ Collecting'
  BY <1>1, <1>3, <1>5, <1>6, SlotsNext
     DEF Bf16WaveInv, SlotAtStatement, SlotMeans, Collecting
<1>8. Collected'
  <2>1. ASSUME NEW t \in Tiles, Passed(start_iter', t * iters_per_tile)
        PROVE  Processed(t * iters_per_tile)
    <3>1. t * iters_per_tile \in Nat /\ OffsetInTile(t * iters_per_tile) = 0
      <4>1. 0 \in Slices /\ t * iters_per_tile \in Nat
        BY <1>2, LaunchFacts DEF Slices, Tiles
      <4>2. t * iters_per_tile + 0 = t * iters_per_tile
        BY <4>1
      <4>. QED BY <1>2, <4>1, <4>2, TileIters
    <3>2. ASSUME start_iter[p] <= t * iters_per_tile, t * iters_per_tile < EndIter(p)
          PROVE  FALSE
      <4> DEFINE i == t * iters_per_tile
      <4>1. i \in Nat /\ OffsetInTile(i) = 0 /\ start_iter[p] <= i /\ i < EndIter(p)
        BY <3>1, <3>2
      <4> HIDE DEF i
      <4>2. OffsetInTile(i) = OffsetInTile(start_iter[p]) + (i - start_iter[p])
        BY <1>2, <1>3, <4>1, Here, SegmentIters
      <4>3. OffsetInTile(start_iter[p]) \in Nat
        <5>1. OffsetInTile(start_iter[p]) \in Slices
          BY <1>2, Here, TileFacts
        <5>. QED BY <1>2, <5>1, LaunchFacts DEF Slices
      <4>. QED BY <1>3, <4>1, <4>2, <4>3, Here
    <3>. QED BY <1>1, <1>3, <2>1, <3>1, <3>2, RoundPassed DEF NextRound
  <2>. QED BY <1>1, <2>1, TilesNext DEF Bf16WaveInv, Collected
<1>. QED BY <1>4, <1>7, <1>8, Static DEF Bf16WaveInv

LEMMA SlotCollectKept ==
  ASSUME MmTypeOK, Progress, Bf16WaveInv, NEW p \in Pids, launch' = launch,
         locks' = locks, Bf16!Collect(p)
  PROVE  Progress' /\ Bf16WaveInv'
<1> DEFINE s == start_iter[p]
           n == next_pid[p]
           E == end[p]
           F == FirstIter(next_pid[p] + 1)
<1>1. launch \in Launches
  BY DEF MmTypeOK
<1>2. /\ pc[p] = "collect" /\ E < s + iters_per_tile /\ slot_locks[n] = 1
      /\ pc' = [pc EXCEPT ![p] = "collect"]
      /\ acc' = [acc EXCEPT ![p] = [k \in Slices |-> acc[p][k] + P[n][k]]]
      /\ end' = [end EXCEPT
           ![p] = end[p] + iters_per_pid + (IF n < iters_remaining THEN 1 ELSE 0)]
      /\ next_pid' = [next_pid EXCEPT ![p] = n + 1]
      /\ UNCHANGED <<C, P, slot_locks, start_iter>>
  BY Bf16Same DEF Bf16!Collect, Bf16!Goto, MmTypeOK
<1>3. /\ s < FirstIter(p + 1) /\ OffsetInTile(s) = 0 /\ n \in p + 1 .. sm_count
      /\ s < E /\ E = FirstIter(n)
      /\ \A k \in Slices : acc[p][k] = IF k < E - s THEN 1 ELSE 0
  BY <1>2 DEF Bf16WaveInv, Collecting, Progress
<1>4. /\ s = TileAt(p) * iters_per_tile /\ TileAt(p) \in Tiles
      /\ s + iters_per_tile <= TotalIters
  BY <1>3, TileSegment
<1>5. s \in Nat /\ E \in Nat /\ iters_per_tile \in Nat \ {0} /\ TotalIters \in Nat
      /\ sm_count \in Nat \ {0} /\ p \in Nat
  BY <1>1, Here, LaunchFacts, PidFacts DEF MmTypeOK
<1>6. n \in Pids
  <2>1. FirstIter(sm_count) = TotalIters
    BY <1>1, FirstIterFacts
  <2>. QED BY <1>2, <1>3, <1>4, <1>5, <2>1 DEF Pids
<1>7. /\ F = FirstIter(n) + iters_per_pid + (IF n < iters_remaining THEN 1 ELSE 0)
      /\ F \in Nat /\ E <= F
  BY <1>1, <1>3, <1>6, FirstIterFacts, PidFacts
<1>8. TileOf(E) = TileAt(p) /\ OffsetInTile(E) = E - s
  <2>0. E \in Nat /\ s \in Nat /\ s < E /\ E < s + iters_per_tile
    BY <1>2, <1>3, <1>5
  <2>1. E - s \in Slices /\ E = TileAt(p) * iters_per_tile + (E - s)
        /\ TileAt(p) \in Int
    <3>1. s = TileAt(p) * iters_per_tile /\ TileAt(p) \in Int
      BY <1>4 DEF Tiles
    <3>2. E - s \in Slices
      <4>. HIDE DEF E, s
      <4>. QED BY <1>5, <2>0 DEF Slices
    <3>3. E = s + (E - s)
      <4>. HIDE DEF E, s
      <4>. QED BY <2>0
    <3>. QED BY <3>1, <3>2, <3>3
  <2>. HIDE DEF E, s
  <2>. QED BY <1>1, <1>5, <2>1, TileUnique
<1>9. SegmentEnd(n, E) = MinOf(s + iters_per_tile, F)
  <2>1. E + (iters_per_tile - (E - s)) = s + iters_per_tile
    BY <1>5
  <2>. QED BY <1>8, <2>1 DEF SegmentEnd
<1>10. P[n] = FirstSum(n)
  BY <1>2, <1>6 DEF Bf16WaveInv, SlotMeans
<1>11. \A k \in Slices :
         P[n][k] = IF E - s <= k /\ k < E - s + MinOf(s + iters_per_tile, F) - E
                   THEN 1 ELSE 0
  BY <1>3, <1>8, <1>9, <1>10 DEF FirstSum, SegmentSum
<1> HIDE DEF F
<1>12. /\ acc'[p] = [k \in Slices |-> acc[p][k] + P[n][k]]
       /\ end'[p] = F /\ next_pid'[p] = n + 1 /\ pc'[p] = "collect"
       /\ \A q \in Pids \ {p} : /\ acc'[q] = acc[q] /\ end'[q] = end[q]
                                /\ next_pid'[q] = next_pid[q] /\ pc'[q] = pc[q]
  BY <1>2, <1>3, <1>7 DEF MmTypeOK
<1>13. \A k \in Slices : acc'[p][k] = IF k < F - s THEN 1 ELSE 0
  <2> SUFFICES ASSUME NEW k \in Slices
               PROVE  acc'[p][k] = IF k < F - s THEN 1 ELSE 0
    OBVIOUS
  <2>1. acc'[p][k] = acc[p][k] + P[n][k]
    BY <1>12
  <2>2. k \in Nat /\ k < iters_per_tile
    BY <1>5 DEF Slices
  <2>3. acc[p][k] = IF k < E - s THEN 1 ELSE 0
    BY <1>3
  <2>4. P[n][k] = IF E - s <= k /\ k < E - s + MinOf(s + iters_per_tile, F) - E
                  THEN 1 ELSE 0
    BY <1>11
  <2>. HIDE DEF s, E, n
  <2>. QED BY <1>3, <1>5, <1>7, <2>1, <2>2, <2>3, <2>4 DEF MinOf
<1>14. /\ next_pid'[p] \in p + 1 .. sm_count /\ s < end'[p]
       /\ end'[p] = FirstIter(next_pid'[p])
  <2>1. n + 1 \in p + 1 .. sm_count
    BY <1>3, <1>5, <1>6 DEF Pids
  <2>. QED BY <1>3, <1>5, <1>7, <1>12, <2>1 DEF F
<1>15. Progress'
  BY <1>2, <1>3, ProgressSame
<1>16. Collecting'
  <2> SUFFICES ASSUME NEW q \in Pids, pc'[q] = "collect"
        PROVE  /\ OffsetInTile(start_iter[q]) = 0
               /\ next_pid'[q] \in q + 1 .. sm_count
               /\ start_iter[q] < end'[q]
               /\ end'[q] < start_iter[q] + iters_per_tile =>
                    end'[q] = FirstIter(next_pid'[q])
               /\ \A k \in Slices :
                    acc'[q][k] = IF k < end'[q] - start_iter[q] THEN 1 ELSE 0
    BY <1>2, SlotsNext
  <2>1. CASE q = p
    BY <1>3, <1>12, <1>13, <1>14, <2>1
  <2>2. CASE q # p
    BY <1>12, <2>2 DEF Bf16WaveInv, Collecting
  <2>. QED BY <2>1, <2>2
<1>17. SlotAtStatement' /\ SlotMeans'
  BY <1>2, <1>12, SlotsNext DEF Bf16WaveInv, SlotAtStatement, SlotMeans
<1>. QED BY <1>2, <1>15, <1>16, <1>17, Static, CollectedSame DEF Bf16WaveInv

LEMMA SlotStoreKept ==
  ASSUME MmTypeOK, Progress, Bf16WaveInv, NEW p \in Pids, launch' = launch,
         locks' = locks, Bf16!StoreTile(p)
  PROVE  Progress' /\ Bf16WaveInv'
<1>1. launch \in Launches
  BY DEF MmTypeOK
<1>2. /\ pc[p] = "collect" /\ end[p] >= start_iter[p] + iters_per_tile
      /\ pc' = [pc EXCEPT ![p] = "loop"]
      /\ C' = [C EXCEPT ![BlockAt(p)] = acc[p]]
      /\ start_iter' = [start_iter EXCEPT ![p] = EndIter(p)]
      /\ UNCHANGED <<P, slot_locks, acc, next_pid, end>>
  BY Bf16Same DEF Bf16!StoreTile, Bf16!Goto, BlockAt
<1>3. /\ start_iter[p] < FirstIter(p + 1) /\ OffsetInTile(start_iter[p]) = 0
      /\ \A k \in Slices : acc[p][k] = IF k < end[p] - start_iter[p] THEN 1 ELSE 0
  BY <1>2 DEF Bf16WaveInv, Collecting, Progress
<1>4. /\ start_iter[p] = TileAt(p) * iters_per_tile /\ TileAt(p) \in Tiles
      /\ BlockAt(p) = swizzle_tile(TileAt(p))
      /\ start_iter[p] < EndIter(p)
      /\ \A i \in Nat : start_iter[p] <= i /\ i < EndIter(p) => TileOf(i) = TileAt(p)
  BY <1>3, TileSegment, AtSegment
<1>5. start_iter[p] \in Nat /\ end[p] \in Nat /\ iters_per_tile \in Nat \ {0}
      /\ FirstIter(p) <= start_iter[p] /\ FirstIter(p) \in Nat /\ EndIter(p) \in Nat
  BY <1>1, <1>3, Here, LaunchFacts, PidFacts, AtSegment DEF MmTypeOK
<1>6. \A k \in Slices : acc[p][k] = 1
  BY <1>2, <1>3, <1>5 DEF Slices
<1>7. \A q \in Pids : /\ pc'[q] = IF q = p THEN "loop" ELSE pc[q]
                      /\ start_iter'[q] = IF q = p THEN EndIter(p) ELSE start_iter[q]
  BY <1>2 DEF MmTypeOK
<1>8. Progress'
  BY <1>2, <1>3, ProgressRound DEF NextRound
<1>9. SlotMeans'
  <2>1. ASSUME OffsetInTile(FirstIter(p)) # 0
        PROVE  FirstIter(p) < start_iter[p]
    <3>1. FirstIter(p) # start_iter[p]
      BY <1>3, <2>1
    <3>. QED BY <1>5, <3>1
  <2>2. FirstIter(p) < EndIter(p)
    BY <1>4, <1>5
  <2>. QED BY <1>2, <1>7, <2>1, <2>2, SlotsNext DEF Bf16WaveInv, SlotMeans
<1>10. SlotAtStatement' /\ Collecting'
  BY <1>2, <1>7, SlotsNext DEF Bf16WaveInv, SlotAtStatement, Collecting
<1>11. Collected'
  <2>1. ASSUME NEW t \in Tiles, Passed(start_iter', t * iters_per_tile), NEW k \in Slices
        PROVE  C'[swizzle_tile(t)][k] = 1
    <3>1. CASE t = TileAt(p)
      BY <1>2, <1>4, <1>6, <3>1, BlockStored
    <3>2. CASE t # TileAt(p)
      <4>1. t * iters_per_tile \in Nat /\ TileOf(t * iters_per_tile) = t
        <5>1. 0 \in Slices /\ t * iters_per_tile \in Nat
          BY <1>1, LaunchFacts DEF Slices, Tiles
        <5>2. t * iters_per_tile + 0 = t * iters_per_tile
          BY <5>1
        <5>. QED BY <1>1, <5>1, <5>2, TileIters
      <4>2. Processed(t * iters_per_tile)
        BY <1>2, <1>3, <1>4, <2>1, <3>2, <4>1, RoundPassed DEF NextRound
      <4>3. C'[swizzle_tile(t)] = C[swizzle_tile(t)]
        BY <1>2, <1>4, <3>2, BlockStored
      <4>. QED BY <4>2, <4>3 DEF Bf16WaveInv, Collected
    <3>. QED BY <3>1, <3>2
  <2>. QED BY <2>1, TilesNext
<1>. QED BY <1>8, <1>9, <1>10, <1>11, Static DEF Bf16WaveInv

LEMMA Bf16WaveKept ==
  ASSUME MmTypeOK, Progress, Bf16WaveInv, NEW p \in Pids, locks' = locks,
         Bf16!Step(p)
  PROVE  Progress' /\ Bf16WaveInv'
<1>1. launch' = launch
  BY DEF Bf16!Step
<1>. QED BY <1>1, SlotExitKept, SlotMacKept, SlotPutKept, SlotUnlockKept,
            SlotCollectKept, SlotStoreKept DEF Bf16!Step

-----------------------------------------------------------------------------
(***************************************************************************)
(* The whole product                                                       *)
(***************************************************************************)
LEMMA SumType ==
  ASSUME NEW p
  PROVE  Sum(p) \in [Slices -> Nat]
BY DEF Sum

LEMMA WaveTypeKept ==
  ASSUME MmTypeOK, Progress, FirstWaveInv, NEW p \in Pids, Step(p),
         UNCHANGED <<dtype, stage, ran, bf16_vars>>
  PROVE  MmTypeOK'
<1>1. launch' = launch /\ launch \in Launches
  BY DEF Step, MmTypeOK
<1>2. /\ pc[p] \notin {"loop", "exited"} => start_iter[p] < FirstIter(p + 1)
      /\ start_iter[p] < FirstIter(p + 1) =>
           /\ TileAt(p) \in Tiles /\ EndIter(p) \in Nat
           /\ BlockAt(p) \in Blocks
  BY <1>1, AtSegment, TileBlock DEF Progress
<1>3. /\ start_iter' \in [Pids -> Nat]
      /\ pc' \in [Pids -> {"loop", "store", "unlock", "spin", "add", "put",
                           "collect", "exited"}]
      /\ locks' \in [Tiles -> {0, 1}]
      /\ C' \in [Blocks -> [Slices -> Nat]]
  <2>1. CASE Mac(p)
    BY <2>1 DEF Mac, Goto, MmTypeOK
  <2>2. CASE Exit(p)
    BY <2>2 DEF Exit, Goto, MmTypeOK
  <2>3. CASE StoreTile(p)
    <3>1. C' \in [Blocks -> [Slices -> Nat]]
      BY <2>3, SumType DEF StoreTile, MmTypeOK
    <3>2. start_iter' \in [Pids -> Nat]
      BY <1>2, <2>3 DEF StoreTile, NextRound, MmTypeOK
    <3>3. pc' \in [Pids -> {"loop", "store", "unlock", "spin", "add", "put",
                            "collect", "exited"}]
      BY <2>3 DEF StoreTile, MmTypeOK
    <3>. QED BY <2>3, <3>1, <3>2, <3>3 DEF StoreTile, MmTypeOK
  <2>4. CASE Unlock(p)
    BY <1>2, <2>4 DEF Unlock, Goto, NextRound, MmTypeOK
  <2>5. CASE Spin(p)
    BY <2>5 DEF Spin, Goto, MmTypeOK
  <2>6. CASE AddSegment(p)
    <3>1. C' \in [Blocks -> [Slices -> Nat]]
      <4>1. pc[p] = "add" /\ BlockAt(p) \in Blocks
        BY <1>2, <2>6 DEF AddSegment, Goto
      <4> DEFINE v == [k \in Slices |-> C[BlockAt(p)][k] + Sum(p)[k]]
      <4>2. v \in [Slices -> Nat]
        BY <4>1, SumType DEF MmTypeOK
      <4>3. C' = [C EXCEPT ![BlockAt(p)] = v]
        BY <2>6, <4>1 DEF AddSegment, MmTypeOK
      <4> HIDE DEF v
      <4>. QED BY <4>2, <4>3 DEF MmTypeOK
    <3>2. start_iter' \in [Pids -> Nat]
      BY <1>2, <2>6 DEF AddSegment, Goto, NextRound, MmTypeOK
    <3>. QED BY <2>6, <3>1, <3>2 DEF AddSegment, Goto, MmTypeOK
  <2>. QED BY <2>1, <2>2, <2>3, <2>4, <2>5, <2>6 DEF Step
<1>. QED BY <1>1, <1>3, Static DEF MmTypeOK, bf16_vars

\* A collector waits for a program of the launch, ...
LEMMA CollectsPid ==
  ASSUME MmTypeOK, Progress, Bf16WaveInv, NEW p \in Pids, pc[p] = "collect",
         end[p] < start_iter[p] + iters_per_tile
  PROVE  /\ next_pid[p] \in Pids
         /\ end[p] = FirstIter(next_pid[p])
         /\ OffsetInTile(end[p]) # 0
         /\ \A k \in Slices : acc[p][k] = IF k < end[p] - start_iter[p] THEN 1 ELSE 0
<1>1. launch \in Launches
  BY DEF MmTypeOK
<1>2. /\ start_iter[p] < FirstIter(p + 1) /\ OffsetInTile(start_iter[p]) = 0
      /\ next_pid[p] \in p + 1 .. sm_count /\ start_iter[p] < end[p]
      /\ end[p] = FirstIter(next_pid[p])
      /\ \A k \in Slices : acc[p][k] = IF k < end[p] - start_iter[p] THEN 1 ELSE 0
  BY DEF Bf16WaveInv, Collecting, Progress
<1>3. /\ start_iter[p] = TileAt(p) * iters_per_tile /\ TileAt(p) \in Tiles
      /\ start_iter[p] + iters_per_tile <= TotalIters
  BY <1>2, TileSegment
<1>4. /\ start_iter[p] \in Nat /\ end[p] \in Nat /\ iters_per_tile \in Nat \ {0}
      /\ TotalIters \in Nat /\ sm_count \in Nat \ {0} /\ p \in Nat
  BY <1>1, Here, LaunchFacts, PidFacts DEF MmTypeOK
<1>5. next_pid[p] \in Pids
  <2>1. FirstIter(sm_count) = TotalIters
    BY <1>1, FirstIterFacts
  <2>. QED BY <1>2, <1>3, <1>4, <2>1 DEF Pids
<1>6. OffsetInTile(end[p]) = end[p] - start_iter[p]
  <2> DEFINE s == start_iter[p]
             E == end[p]
  <2>1. E - s \in Slices /\ E = TileAt(p) * iters_per_tile + (E - s)
        /\ TileAt(p) \in Int /\ E \in Nat
    BY <1>2, <1>3, <1>4 DEF Slices, Tiles
  <2>. HIDE DEF E, s
  <2>2. OffsetInTile(E) = E - s
    BY <1>1, <2>1, TileUnique
  <2>. QED BY <2>2 DEF E, s
<1>. QED BY <1>2, <1>4, <1>5, <1>6

LEMMA SlotTypeKept ==
  ASSUME MmTypeOK, Progress, Bf16WaveInv, NEW p \in Pids, Bf16!Step(p),
         UNCHANGED <<dtype, stage, ran, locks>>
  PROVE  MmTypeOK'
<1>1. launch' = launch /\ launch \in Launches
  BY DEF Bf16!Step, MmTypeOK
<1>2. /\ pc[p] \notin {"loop", "exited"} => start_iter[p] < FirstIter(p + 1)
      /\ start_iter[p] < FirstIter(p + 1) => EndIter(p) \in Nat
      /\ p + 1 \in Nat /\ iters_per_pid \in Nat
  BY <1>1, AtSegment, PidFacts, LaunchFacts DEF Progress
<1> DEFINE Pcs == {"loop", "store", "unlock", "spin", "add", "put", "collect",
                   "exited"}
<1>3. /\ start_iter' \in [Pids -> Nat] /\ pc' \in [Pids -> Pcs]
      /\ C' \in [Blocks -> [Slices -> Nat]] /\ P' \in [Pids -> [Slices -> Nat]]
      /\ slot_locks' \in [Pids -> {0, 1}] /\ acc' \in [Pids -> [Slices -> Nat]]
      /\ next_pid' \in [Pids -> Nat] /\ end' \in [Pids -> Nat]
  <2>1. CASE Bf16!Exit(p)
    BY <2>1 DEF Bf16!Exit, Bf16!Goto, MmTypeOK
  <2>2. CASE Bf16!Mac(p)
    <3>1. EndIter(p) \in Nat
      BY <1>2, <2>2, Bf16Same DEF Bf16!Mac
    <3>. QED BY <1>2, <2>2, <3>1, Bf16Same, SumType DEF Bf16!Mac, Bf16!Goto, MmTypeOK
  <2>3. CASE Bf16!PutSlot(p)
    BY <2>3 DEF Bf16!PutSlot, Bf16!Goto, MmTypeOK
  <2>4. CASE Bf16!Unlock(p)
    BY <1>2, <2>4, Bf16Same DEF Bf16!Unlock, Bf16!Goto, MmTypeOK
  <2>5. CASE Bf16!Collect(p)
    <3>1. /\ acc' = [acc EXCEPT ![p] = [k \in Slices |-> acc[p][k] + P[next_pid[p]][k]]]
          /\ end' = [end EXCEPT ![p] = end[p] + iters_per_pid
                       + (IF next_pid[p] < iters_remaining THEN 1 ELSE 0)]
          /\ next_pid' = [next_pid EXCEPT ![p] = next_pid[p] + 1]
          /\ pc' = [pc EXCEPT ![p] = "collect"] /\ pc[p] = "collect"
          /\ end[p] < start_iter[p] + iters_per_tile
          /\ UNCHANGED <<C, P, slot_locks, start_iter>>
      BY <2>5, Bf16Same DEF Bf16!Collect, Bf16!Goto, MmTypeOK
    <3>2. next_pid[p] \in Pids
      BY <3>1, CollectsPid
    <3> DEFINE v == [k \in Slices |-> acc[p][k] + P[next_pid[p]][k]]
    <3>3. v \in [Slices -> Nat]
      BY <3>2 DEF MmTypeOK
    <3>4. acc' \in [Pids -> [Slices -> Nat]]
      <4>1. acc' = [acc EXCEPT ![p] = v]
        BY <3>1
      <4>. HIDE DEF v
      <4>. QED BY <3>3, <4>1 DEF MmTypeOK
    <3>. QED BY <1>2, <3>1, <3>4 DEF MmTypeOK
  <2>6. CASE Bf16!StoreTile(p)
    BY <1>2, <2>6, Bf16Same DEF Bf16!StoreTile, Bf16!Goto, MmTypeOK
  <2>. QED BY <2>1, <2>2, <2>3, <2>4, <2>5, <2>6 DEF Bf16!Step
<1>. QED BY <1>1, <1>3, Static DEF MmTypeOK

\* A step that leaves the first wave and its tiles alone.
LEMMA WaveSame ==
  ASSUME MmTypeOK, Progress, UNCHANGED <<launch, wave_vars, bf16_vars>>,
         \A t \in Tiles : C'[swizzle_tile(t)] = C[swizzle_tile(t)]
  PROVE  /\ Progress'
         /\ FirstWaveInv => FirstWaveInv'
         /\ Bf16WaveInv => Bf16WaveInv'
<1>1. launch' = launch /\ launch \in Launches
  BY DEF MmTypeOK
<1>2. /\ start_iter' = start_iter /\ pc' = pc /\ locks' = locks /\ P' = P
      /\ slot_locks' = slot_locks /\ acc' = acc /\ next_pid' = next_pid /\ end' = end
  BY DEF wave_vars, bf16_vars
<1>3. Progress'
  BY <1>1, <1>2, Static, Moved DEF Progress
<1>4. ASSUME FirstWaveInv PROVE FirstWaveInv'
  <2>1. AtStatement'
    <3>1. ASSUME NEW q \in Pids, pc[q] = "unlock"
          PROVE  C'[BlockAt(q)] = C[BlockAt(q)]
      BY <3>1, AtSegment DEF Progress
    <3>. QED BY <1>1, <1>2, <1>4, <3>1, Static, Moved, SumNow
             DEF FirstWaveInv, AtStatement, Finishes, EndIter, BlockAt, TileAt
  <2>2. LockMeans' /\ StoredFirst' /\ Raised'
    BY <1>1, <1>2, <1>4, TilesNext, PassedNow
       DEF FirstWaveInv, LockMeans, StoredFirst, Raised
  <2>3. Exact'
    <3>1. \A i \in Iters : C'[BlockOf(i)] = C[BlockOf(i)]
      BY <1>1, LaunchFacts, TileFacts DEF Iters, BlockOf
    <3>. QED BY <1>1, <1>2, <1>4, <3>1, TilesNext, PassedNow DEF FirstWaveInv, Exact
  <2>. QED BY <2>1, <2>2, <2>3 DEF FirstWaveInv
<1>5. ASSUME Bf16WaveInv PROVE Bf16WaveInv'
  <2>1. SlotAtStatement' /\ SlotMeans' /\ Collecting'
    BY <1>1, <1>2, <1>5, SlotsNext DEF Bf16WaveInv, SlotAtStatement, SlotMeans, Collecting
  <2>2. Collected'
    BY <1>1, <1>2, <1>5, TilesNext, PassedNow DEF Bf16WaveInv, Collected
  <2>. QED BY <1>1, <1>2, <1>5, <2>1, <2>2, Static DEF Bf16WaveInv
<1>. QED BY <1>3, <1>4, <1>5

\* When all programs have exited the cooperative tiles hold everything.
LEMMA FinishedTiles ==
  ASSUME MmInv, Finished, NEW t \in Tiles, NEW k \in Slices
  PROVE  C[swizzle_tile(t)][k] = 1
<1>1. launch \in Launches /\ dtype \in {"bf16", "other"}
  BY DEF MmInv, MmTypeOK
<1>2. \A i \in Iters : Processed(i)
  <2> SUFFICES ASSUME NEW i \in Iters PROVE Processed(i)
    OBVIOUS
  <2>1. PICK p \in Pids : FirstIter(p) <= i /\ i < FirstIter(p + 1)
    BY <1>1, HasOwner
  <2>2. start_iter[p] = FirstIter(p + 1)
    BY DEF Finished, MmInv, Progress
  <2>. QED BY <2>1, <2>2 DEF Processed
<1>3. CASE dtype = "other"
  <2> DEFINE i == t * iters_per_tile + k
  <2>1. i \in Iters /\ TileOf(i) = t /\ OffsetInTile(i) = k
    BY <1>1, TileIters
  <2> HIDE DEF i
  <2>2. LastIter(t) \in Iters
    BY <1>1, LastIterFacts
  <2>3. C[BlockOf(i)][OffsetInTile(i)] = 1
    BY <1>2, <1>3, <2>1, <2>2 DEF MmInv, FirstWaveInv, Exact
  <2>. QED BY <2>1, <2>3 DEF BlockOf
<1>4. CASE dtype = "bf16"
  <2>1. 0 \in Slices /\ t * iters_per_tile \in Nat
    BY <1>1, LaunchFacts DEF Slices, Tiles
  <2>2. t * iters_per_tile + 0 = t * iters_per_tile
    BY <2>1
  <2>3. t * iters_per_tile \in Iters
    BY <1>1, <2>1, <2>2, TileIters
  <2>. QED BY <1>2, <1>4, <2>3 DEF MmInv, Bf16WaveInv, Collected
<1>. QED BY <1>1, <1>3, <1>4

\* The tiles of classic_mm are the others.
LEMMA ClassicFacts ==
  ASSUME launch \in Launches, NEW pid \in Programs
  PROVE  /\ ClassicTile(pid) \in AllTiles
         /\ swizzle_tile(ClassicTile(pid)) \in Blocks
         /\ \A t \in Tiles : swizzle_tile(t) # swizzle_tile(ClassicTile(pid))
         /\ \A other \in Programs :
              swizzle_tile(ClassicTile(other)) = swizzle_tile(ClassicTile(pid)) =>
                other = pid
<1>1. \A n \in Programs : /\ n \in Nat /\ ClassicTile(n) = n + cooperative_tiles
                          /\ ClassicTile(n) \in AllTiles /\ ClassicTile(n) \notin Tiles
  BY LaunchFacts DEF Programs, ClassicTile, AllTiles, Tiles
<1>2. \A t \in Tiles : t \in AllTiles
  BY LastIterFacts
<1>3. \A t \in Tiles : swizzle_tile(t) # swizzle_tile(ClassicTile(pid))
  BY <1>1, <1>2, SwizzleInjective
<1>4. ASSUME NEW other \in Programs,
             swizzle_tile(ClassicTile(other)) = swizzle_tile(ClassicTile(pid))
      PROVE  other = pid
  <2>1. ClassicTile(other) = ClassicTile(pid)
    BY <1>1, <1>4, SwizzleInjective
  <2>2. other + cooperative_tiles = pid + cooperative_tiles
    BY <1>1, <2>1
  <2>3. other \in Nat /\ pid \in Nat /\ cooperative_tiles \in Nat
    BY <1>1, LaunchFacts
  <2>. QED BY <2>2, <2>3
<1>. QED BY <1>1, <1>3, <1>4, SwizzleInBlocks

LEMMA MmInitInv ==
  ASSUME MmInit
  PROVE  MmInv
<1>1. launch \in Launches
  BY DEF MmInit
<1>2. /\ C = [b \in Blocks |-> [k \in Slices |-> Stale]]
      /\ locks = [t \in Tiles |-> 0]
      /\ start_iter = [p \in Pids |-> FirstIter(p)]
      /\ pc = [p \in Pids |-> "loop"]
  BY DEF MmInit, Buffer, LaunchWave
<1>3. /\ P = [p \in Pids |-> [k \in Slices |-> Stale]]
      /\ slot_locks = [p \in Pids |-> 0]
      /\ acc = [p \in Pids |-> [k \in Slices |-> Stale]]
      /\ next_pid = [p \in Pids |-> p + 1]
      /\ end = [p \in Pids |-> 0]
  BY Bf16Same DEF MmInit, Bf16!LaunchWave, Bf16!Fresh, Bf16!Stale, Stale
<1>4. MmTypeOK
  <2>1. \A p \in Pids : FirstIter(p) \in Nat /\ p + 1 \in Nat
    BY <1>1, PidFacts
  <2>2. dtype \in {"bf16", "other"} /\ stage \in {"first_wave", "classic_mm"} /\ ran = {}
    BY DEF MmInit
  <2>. QED BY <1>1, <1>2, <1>3, <2>1, <2>2 DEF MmTypeOK, Stale
<1>5. Progress
  BY <1>1, <1>2, PidFacts DEF Progress
<1>6. \A i \in Nat : ~Processed(i)
  BY <1>1, <1>2, PidFacts DEF Processed
<1>7. FirstWaveInv
  <2>1. AtStatement /\ LockMeans
    BY <1>2 DEF AtStatement, LockMeans
  <2>2. \A i \in Iters : i \in Nat /\ LastIter(TileOf(i)) \in Nat
    BY <1>1, LaunchFacts, TileFacts, LastIterFacts DEF Iters
  <2>3. StoredFirst /\ Exact
    BY <1>6, <2>2 DEF StoredFirst, Exact
  <2>4. Raised
    BY <1>1, <1>2, PidFacts DEF Raised
  <2>. QED BY <2>1, <2>3, <2>4 DEF FirstWaveInv
<1>8. Bf16WaveInv
  <2>1. SlotAtStatement /\ Collecting
    BY <1>2 DEF SlotAtStatement, Collecting
  <2>2. SlotMeans
    BY <1>1, <1>2, <1>3, PidFacts DEF SlotMeans
  <2>3. \A t \in Tiles : t * iters_per_tile \in Nat
    BY <1>1, LaunchFacts DEF Tiles
  <2>4. Collected
    BY <1>6, <2>3 DEF Collected
  <2>. QED BY <1>2, <2>1, <2>2, <2>4 DEF Bf16WaveInv
<1>9. WaveDone
  <2>1. stage = "classic_mm" => cooperative_tiles = 0
    BY <1>1, LaunchFacts DEF MmInit
  <2>. QED BY <2>1 DEF WaveDone, Tiles
<1>10. RanDone
  BY DEF MmInit, RanDone
<1>. QED BY <1>4, <1>5, <1>7, <1>8, <1>9, <1>10 DEF MmInv

LEMMA MmNextInv ==
  ASSUME MmInv, [MmNext]_mm_vars
  PROVE  MmInv'
<1>1. /\ MmTypeOK /\ Progress /\ launch \in Launches
      /\ dtype = "other" => FirstWaveInv
      /\ dtype = "bf16" => Bf16WaveInv
      /\ WaveDone /\ RanDone
  BY DEF MmInv, MmTypeOK
<1>2. ASSUME NEW p \in Pids, WaveStep(p)
      PROVE  MmInv'
  <2>1. stage = "first_wave" /\ dtype' = dtype /\ stage' = stage /\ ran' = ran
    BY <1>2 DEF WaveStep
  <2>2. WaveDone'
    BY <2>1 DEF WaveDone
  <2>3. RanDone'
    BY <1>1, <2>1 DEF RanDone
  <2>4. CASE dtype = "other" /\ Step(p) /\ UNCHANGED bf16_vars
    <3>1. MmTypeOK'
      BY <1>1, <2>1, <2>4, WaveTypeKept
    <3>2. Progress' /\ FirstWaveInv'
      BY <1>1, <2>4, FirstWaveKept
    <3>. QED BY <2>1, <2>2, <2>3, <2>4, <3>1, <3>2 DEF MmInv
  <2>5. CASE dtype = "bf16" /\ Bf16!Step(p) /\ UNCHANGED locks
    <3>1. MmTypeOK'
      BY <1>1, <2>1, <2>5, SlotTypeKept
    <3>2. Progress' /\ Bf16WaveInv'
      BY <1>1, <2>5, Bf16WaveKept
    <3>. QED BY <2>1, <2>2, <2>3, <2>5, <3>1, <3>2 DEF MmInv
  <2>. QED BY <1>2, <2>4, <2>5 DEF WaveStep
<1>3. ASSUME EndWave
      PROVE  MmInv'
  <2>1. /\ launch' = launch /\ C' = C /\ dtype' = dtype /\ ran' = ran
        /\ stage = "first_wave" /\ stage' = "classic_mm" /\ Finished
        /\ UNCHANGED <<wave_vars, bf16_vars>>
    BY <1>3 DEF EndWave, vars
  <2>2. MmTypeOK'
    BY <1>1, <2>1, Static DEF MmTypeOK, wave_vars, bf16_vars
  <2>3. /\ Progress'
        /\ FirstWaveInv => FirstWaveInv'
        /\ Bf16WaveInv => Bf16WaveInv'
    BY <1>1, <2>1, WaveSame
  <2>4. WaveDone'
    BY <2>1, FinishedTiles, Static DEF WaveDone
  <2>5. RanDone'
    BY <1>1, <2>1 DEF RanDone
  <2>. QED BY <1>1, <2>1, <2>2, <2>3, <2>4, <2>5 DEF MmInv
<1>4. ASSUME NEW pid \in Programs, ClassicMm(pid)
      PROVE  MmInv'
  <2> DEFINE b == swizzle_tile(ClassicTile(pid))
  <2>1. /\ launch' = launch /\ dtype' = dtype /\ stage = "classic_mm" /\ stage' = stage
        /\ ran' = ran \cup {pid} /\ C' = [C EXCEPT ![b] = [k \in Slices |-> 1]]
        /\ UNCHANGED <<wave_vars, bf16_vars>>
    BY <1>4 DEF ClassicMm
  <2>2. b \in Blocks
    BY <1>1, ClassicFacts
  <2>3. \A t \in Tiles : C'[swizzle_tile(t)] = C[swizzle_tile(t)]
    BY <1>1, <2>1, <2>2, ClassicFacts, TileBlock DEF MmTypeOK
  <2>4. MmTypeOK'
    <3>1. C' \in [Blocks -> [Slices -> Nat]]
      BY <1>1, <2>1 DEF MmTypeOK
    <3>. QED BY <1>1, <2>1, <3>1, Static DEF MmTypeOK, wave_vars, bf16_vars
  <2>5. /\ Progress'
        /\ FirstWaveInv => FirstWaveInv'
        /\ Bf16WaveInv => Bf16WaveInv'
    BY <1>1, <2>1, <2>3, WaveSame
  <2>6. WaveDone'
    BY <1>1, <2>1, <2>3, Static DEF WaveDone
  <2>7. RanDone'
    <3>1. ASSUME NEW other \in ran \cup {pid}, NEW k \in Slices
          PROVE  C'[swizzle_tile(ClassicTile(other))][k] = 1
      <4>1. CASE other = pid
        BY <1>1, <2>1, <2>2, <4>1 DEF MmTypeOK
      <4>2. CASE other # pid
        <5>1. other \in ran /\ other \in Programs
          BY <1>1, <4>2 DEF MmTypeOK
        <5>2. /\ swizzle_tile(ClassicTile(other)) \in Blocks
              /\ swizzle_tile(ClassicTile(other)) # b
          BY <1>1, <4>2, <5>1, ClassicFacts
        <5>3. C'[swizzle_tile(ClassicTile(other))] = C[swizzle_tile(ClassicTile(other))]
          BY <1>1, <2>1, <5>2 DEF MmTypeOK
        <5>. QED BY <1>1, <5>1, <5>3 DEF RanDone
      <4>. QED BY <4>1, <4>2
    <3>2. cooperative_tiles' = cooperative_tiles
      BY <2>1 DEF grid_m, grid_n, cooperative_tiles, total_tiles, sm_count
    <3>3. \A n : swizzle_tile(ClassicTile(n))' = swizzle_tile(ClassicTile(n))
      BY <2>1, <3>2 DEF swizzle_tile, ClassicTile, grid_m, grid_n
    <3>. QED BY <2>1, <3>1, <3>3, Static DEF RanDone
  <2>. QED BY <1>1, <2>1, <2>4, <2>5, <2>6, <2>7 DEF MmInv
<1>5. ASSUME UNCHANGED mm_vars
      PROVE  MmInv'
  <2>1. /\ launch' = launch /\ C' = C /\ dtype' = dtype /\ ran' = ran /\ stage' = stage
        /\ UNCHANGED <<wave_vars, bf16_vars>>
    BY <1>5 DEF mm_vars, vars
  <2>2. MmTypeOK'
    BY <1>1, <2>1, Static DEF MmTypeOK, wave_vars, bf16_vars
  <2>3. /\ Progress'
        /\ FirstWaveInv => FirstWaveInv'
        /\ Bf16WaveInv => Bf16WaveInv'
    BY <1>1, <2>1, WaveSame
  <2>4. WaveDone'
    BY <1>1, <2>1, Static DEF WaveDone
  <2>5. RanDone'
    <3>1. \A n : swizzle_tile(ClassicTile(n))' = swizzle_tile(ClassicTile(n))
      BY <2>1 DEF swizzle_tile, ClassicTile, grid_m, grid_n, cooperative_tiles,
                  total_tiles, sm_count
    <3>. QED BY <1>1, <2>1, <3>1, Static DEF RanDone
  <2>. QED BY <1>1, <2>1, <2>2, <2>3, <2>4, <2>5 DEF MmInv
<1>. QED BY <1>2, <1>3, <1>4, <1>5 DEF MmNext

\* The invariant of streamk_mm, whichever kernel runs the first wave.
THEOREM MmInvariant == MmSpec => []MmInv
<1>1. MmInit => MmInv
  BY MmInitInv
<1>2. MmInv /\ [MmNext]_mm_vars => MmInv'
  BY MmNextInv
<1>. QED BY <1>1, <1>2, PTL DEF MmSpec

\* For every grid, every number of slices and of multiprocessors and every size
\* of a group: a tile of first_wave whose lock is raised holds exactly the
\* products that have been handed in, each once.
THEOREM LocksAreExact == MmSpec => []TileExact
<1>1. MmInv => TileExact
  <2> SUFFICES ASSUME MmInv, NEW i \in Iters, locks[TileOf(i)] = 1
      PROVE  C[BlockOf(i)][OffsetInTile(i)] = IF Processed(i) THEN 1 ELSE 0
    BY DEF TileExact
  <2>1. launch \in Launches /\ dtype \in {"bf16", "other"}
    BY DEF MmInv, MmTypeOK
  <2>2. TileOf(i) \in Tiles
    BY <2>1, LaunchFacts, TileFacts DEF Iters
  <2>3. dtype = "other"
    BY <2>1, <2>2 DEF MmInv, Bf16WaveInv
  <2>. QED BY <2>2, <2>3 DEF MmInv, FirstWaveInv, LockMeans, Exact
<1>. QED BY <1>1, MmInvariant, PTL

\* A program of first_wave that waits for a lock waits for a later one which is
\* in its first segment and does not wait: there is no circle of waiting.
THEOREM SpinsEnd == MmSpec => []SpinsOnWorking
<1>1. MmInv => SpinsOnWorking
  <2> SUFFICES ASSUME MmInv, NEW p \in Pids, pc[p] = "spin", locks[TileAt(p)] = 0
      PROVE  \E q \in Pids : /\ q > p
                             /\ start_iter[q] = FirstIter(q)
                             /\ TileAt(q) = TileAt(p)
                             /\ pc[q] \in {"loop", "store", "unlock"}
    BY DEF SpinsOnWorking
  <2>1. /\ MmTypeOK /\ Progress /\ launch \in Launches /\ dtype \in {"bf16", "other"}
    BY DEF MmInv, MmTypeOK
  <2>2. dtype = "other" /\ FirstWaveInv
    BY <2>1 DEF MmInv, Bf16WaveInv, SlotAtStatement
  <2>3. start_iter[p] < FirstIter(p + 1) /\ ~Finishes(p)
    BY <2>1, <2>2 DEF FirstWaveInv, AtStatement, Progress
  <2> DEFINE t == TileAt(p)
             last == LastIter(t)
  <2>4. /\ t \in Tiles /\ EndIter(p) <= last /\ EndIter(p) = FirstIter(p + 1)
        /\ start_iter[p] < EndIter(p)
    BY <2>1, <2>3, AtSegment
  <2>5. /\ last \in Iters /\ last \in Nat
        /\ last = t * iters_per_tile + (iters_per_tile - 1)
    BY <2>1, <2>4, LastIterFacts
  <2>6. PICK q \in Pids : FirstIter(q) <= last /\ last < FirstIter(q + 1)
    BY <2>1, <2>5, HasOwner
  <2>7. /\ start_iter[p] = t * iters_per_tile + OffsetInTile(start_iter[p])
        /\ OffsetInTile(start_iter[p]) \in Slices
        /\ t * iters_per_tile \in Nat /\ iters_per_tile \in Nat \ {0}
    <3>1. /\ start_iter[p] = t * iters_per_tile + OffsetInTile(start_iter[p])
          /\ OffsetInTile(start_iter[p]) \in Slices
      BY <2>1, Here, TileFacts DEF TileAt
    <3>. QED BY <2>1, <2>4, <3>1, LaunchFacts DEF Tiles
  <2> HIDE DEF t, last
  <2>8. q > p /\ FirstIter(p + 1) <= FirstIter(q)
    <3>1. q + 1 <= p + 1 => FirstIter(q + 1) <= FirstIter(p + 1)
      BY <2>1, PidFacts, FirstIterFacts
    <3>2. ~(q + 1 <= p + 1)
      BY <2>1, <2>4, <2>5, <2>6, <3>1, PidFacts
    <3>3. p + 1 <= q => FirstIter(p + 1) <= FirstIter(q)
      BY <2>1, PidFacts, FirstIterFacts
    <3>. QED BY <2>1, <3>2, <3>3, PidFacts
  <2>9. TileOf(FirstIter(q)) = t /\ OffsetInTile(FirstIter(q)) # 0
    <3> DEFINE f == FirstIter(q)
    <3>1. f \in Nat /\ start_iter[p] < f /\ f <= last
      BY <2>1, <2>4, <2>6, <2>8, Here, PidFacts
    <3> HIDE DEF f
    <3>2. start_iter[p] \in Nat /\ OffsetInTile(start_iter[p]) \in Nat
      BY <2>1, <2>7, Here DEF Slices
    <3>3. f - t * iters_per_tile \in Slices /\ f - t * iters_per_tile # 0
      BY <2>5, <2>7, <3>1, <3>2 DEF Slices
    <3>4. f = t * iters_per_tile + (f - t * iters_per_tile) /\ t \in Int
      BY <2>4, <2>7, <3>1 DEF Tiles
    <3>5. TileOf(f) = t /\ OffsetInTile(f) = f - t * iters_per_tile
      BY <2>1, <3>1, <3>3, <3>4, TileUnique
    <3>. QED BY <3>3, <3>5 DEF f
  <2>10. locks[t] = 0 /\ LastIter(t) = last
    BY DEF t, last
  <2>11. start_iter[q] = FirstIter(q)
    <3>1. ~(FirstIter(q) < start_iter[q])
      BY <2>2, <2>6, <2>9, <2>10 DEF FirstWaveInv, Raised
    <3>. QED BY <2>1, <3>1, Here, PidFacts
  <2>12. TileAt(q) = t
    BY <2>9, <2>11 DEF TileAt
  <2>13. start_iter[q] < FirstIter(q + 1)
    BY <2>1, <2>5, <2>6, <2>11, PidFacts
  <2>14. Finishes(q)
    <3>1. ~Finishes(q) => FirstIter(q + 1) <= last
      BY <2>1, <2>10, <2>12, <2>13, AtSegment
    <3>. QED BY <2>1, <2>5, <2>6, <3>1, PidFacts
  <2>15. pc[q] \in {"loop", "store", "unlock"}
    <3>1. pc[q] \in {"loop", "store", "unlock", "spin", "add", "put", "collect",
                     "exited"}
      BY <2>1 DEF MmTypeOK
    <3>2. pc[q] \notin {"put", "collect", "spin", "add"}
      BY <2>2, <2>14 DEF FirstWaveInv, AtStatement
    <3>3. pc[q] # "exited"
      BY <2>1, <2>13, PidFacts DEF Progress
    <3>. QED BY <3>1, <3>2, <3>3
  <2>. QED BY <2>8, <2>11, <2>12, <2>15 DEF t
<1>. QED BY <1>1, MmInvariant, PTL

\* The collector of first_wave_for_bf16 counts iterations by iters_per_pid and
\* iters_remaining as the programs do, and never waits for a program that is
\* not there.
THEOREM CollectorInStep == MmSpec => []CollectsInStep
<1>1. MmInv => CollectsInStep
  <2> SUFFICES ASSUME MmInv, NEW p \in Pids, pc[p] = "collect",
                      end[p] < start_iter[p] + iters_per_tile
      PROVE  /\ next_pid[p] \in Pids
             /\ end[p] = FirstIter(next_pid[p])
             /\ OffsetInTile(end[p]) # 0
             /\ \A k \in Slices :
                  acc[p][k] = IF k < end[p] - start_iter[p] THEN 1 ELSE 0
    BY Bf16Same DEF CollectsInStep, Bf16!CollectsInStep
  <2>1. MmTypeOK /\ Progress /\ dtype \in {"bf16", "other"}
    BY DEF MmInv, MmTypeOK
  <2>2. Bf16WaveInv
    BY <2>1 DEF MmInv, FirstWaveInv, AtStatement
  <2>. QED BY <2>1, <2>2, CollectsPid
<1>. QED BY <1>1, MmInvariant, PTL

\* Nobody writes to a slot of the scratch buffer that others may be reading.
THEOREM SlotsAreKept == MmSpec => SlotKept
<1>1. ASSUME MmInv, [MmNext]_mm_vars
      PROVE  [\A p \in Pids : slot_locks[p] = 1 => P'[p] = P[p]]_mm_vars
  <2>1. MmTypeOK /\ Progress /\ launch \in Launches
    BY <1>1 DEF MmInv, MmTypeOK
  <2>2. ASSUME NEW q \in Pids, WaveStep(q), NEW p \in Pids, slot_locks[p] = 1
        PROVE  P'[p] = P[p]
    <3>1. CASE UNCHANGED bf16_vars
      BY <3>1 DEF bf16_vars
    <3>2. CASE dtype = "bf16" /\ Bf16!Step(q)
      <4>1. Bf16WaveInv
        BY <1>1, <3>2 DEF MmInv
      <4>2. CASE Bf16!PutSlot(q)
        <5>1. /\ P' = [P EXCEPT ![q] = acc[q]] /\ pc[q] = "put"
          BY <4>2 DEF Bf16!PutSlot, Bf16!Goto
        <5>2. /\ OffsetInTile(start_iter[q]) # 0
              /\ start_iter[q] < FirstIter(q + 1)
          BY <2>1, <4>1, <5>1 DEF Bf16WaveInv, SlotAtStatement, Progress
        <5>3. start_iter[q] = FirstIter(q)
          BY <2>1, <5>2, FirstSegment
        <5>4. slot_locks[q] # 1
          BY <2>1, <4>1, <5>3, PidFacts DEF Bf16WaveInv, SlotMeans
        <5>5. p # q
          BY <2>2, <5>4
        <5>. QED BY <2>1, <5>1, <5>5 DEF MmTypeOK
      <4>3. CASE ~Bf16!PutSlot(q)
        <5>1. P' = P
          BY <3>2, <4>3 DEF Bf16!Step, Bf16!Exit, Bf16!Mac, Bf16!Unlock, Bf16!Collect,
                            Bf16!StoreTile
        <5>. QED BY <5>1
      <4>. QED BY <4>2, <4>3
    <3>. QED BY <2>2, <3>1, <3>2 DEF WaveStep
  <2>3. ASSUME UNCHANGED bf16_vars
        PROVE  P' = P
    BY <2>3 DEF bf16_vars
  <2>4. CASE EndWave \/ (\E pid \in Programs : ClassicMm(pid))
    BY <2>3, <2>4 DEF EndWave, ClassicMm
  <2>. QED BY <1>1, <2>2, <2>3, <2>4 DEF MmNext
<1>2. MmInv /\ [MmNext]_mm_vars =>
        [\A p \in Pids : slot_locks[p] = 1 => P'[p] = P[p]]_mm_vars
  BY <1>1
<1>. QED BY <1>2, MmInvariant, PTL DEF MmSpec, SlotKept

\* When streamk_mm returns, every block of the output holds every product
\* exactly once, for every grid, device and group size and in every order of
\* the programs' steps.
THEOREM ProductIsExact == MmSpec => []ProductExact
<1>1. MmInv => ProductExact
  <2> SUFFICES ASSUME MmInv, stage = "classic_mm", ran = Programs,
                      NEW m \in 0 .. grid_m - 1, NEW n \in 0 .. grid_n - 1,
                      NEW k \in Slices
      PROVE  C[<<m, n>>][k] = 1
    BY DEF ProductExact, Returned, Blocks
  <2>1. launch \in Launches /\ WaveDone /\ RanDone
    BY DEF MmInv, MmTypeOK
  <2>2. PICK t \in AllTiles : swizzle_tile(t) = <<m, n>>
    BY <2>1, SwizzleOnto
  <2>3. CASE t \in Tiles
    BY <2>1, <2>2, <2>3 DEF WaveDone
  <2>4. CASE t \notin Tiles
    <3>0. /\ cooperative_tiles \in Nat /\ total_tiles \in Nat /\ t \in Nat
          /\ t < total_tiles /\ cooperative_tiles <= t
      BY <2>1, <2>4, LaunchFacts DEF AllTiles, Tiles
    <3>1. t - cooperative_tiles \in Programs
      BY <3>0 DEF Programs
    <3>2. ClassicTile(t - cooperative_tiles) = t
      BY <2>1, LaunchFacts DEF ClassicTile, AllTiles
    <3>. QED BY <2>1, <2>2, <3>1, <3>2 DEF RanDone
  <2>. QED BY <2>3, <2>4
<1>. QED BY <1>1, MmInvariant, PTL

=============================================================================
