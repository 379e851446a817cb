------------------------- MODULE MarlinStripesProofs -------------------------
(***************************************************************************)
(* The Marlin kernel, for every set of geometries, every number of CTAs and *)
(* every interleaving: the reduction order, the locks, the workspace,       *)
(* whole_k, and that a launch implements TileGemm.  The first part says     *)
(* which tiles a CTA walks through, the second what the CTAs of one tile do *)
(* to its lock, its cell and its place in C; in the third a step of a CTA   *)
(* is a step of the one tile it has in hand.                                *)
(***************************************************************************)
EXTENDS MarlinStripes, SequenceTheorems, FiniteSetTheorems, TLAPS

-----------------------------------------------------------------------------
(***************************************************************************)
(* The partition, for every geometry: which CTAs take part in a tile, over *)
(* which K tiles, under which lock, and that the kernel's walk over its    *)
(* slices (init_slice, the step to the next column) visits exactly those.  *)
(***************************************************************************)

\* Multiplication by a positive factor is strictly monotone.
LEMMA MulMonotone ==
  ASSUME NEW k \in Nat \ {0}, NEW x \in Int, NEW y \in Int
  PROVE  /\ x <= y <=> k * x <= k * y
         /\ x < y <=> k * x < k * y
<1>1. x < y => k * x < k * y
  <2>1. ASSUME x < y PROVE k * (y - x) > 0
    <3>1. PICK d \in Nat \ {0} : d = y - x  BY <2>1
    <3>2. k * d > 0  OBVIOUS
    <3>3. QED  BY <3>1, <3>2
  <2>2. k * (y - x) = k * y - k * x  OBVIOUS
  <2>3. QED  BY <2>1, <2>2
<1>2. y < x => k * y < k * x
  <2>1. ASSUME y < x PROVE k * (x - y) > 0
    <3>1. PICK d \in Nat \ {0} : d = x - y  BY <2>1
    <3>2. k * d > 0  OBVIOUS
    <3>3. QED  BY <3>1, <3>2
  <2>2. k * (x - y) = k * x - k * y  OBVIOUS
  <2>3. QED  BY <2>1, <2>2
<1>3. k * x \in Int /\ k * y \in Int  OBVIOUS
<1>4. x = y => k * x = k * y  OBVIOUS
<1>5. QED  BY <1>1, <1>2, <1>3, <1>4

LEMMA DivMod ==
  ASSUME NEW n \in Nat, NEW d \in Nat \ {0}
  PROVE  /\ n \div d \in Nat /\ n % d \in 0 .. d - 1
         /\ n = d * (n \div d) + (n % d)
OBVIOUS

LEMMA DivModNat ==
  ASSUME NEW d \in Nat \ {0}
  PROVE  \A n \in Nat : n \div d \in Nat /\ n % d \in Nat
OBVIOUS

\* div_ceil returns the least multiple's factor.
LEMMA CeilBounds ==
  ASSUME NEW a \in Nat, NEW b \in Nat \ {0}
  PROVE  /\ DivCeil(a, b) \in Nat
         /\ a <= b * DivCeil(a, b)
         /\ b * DivCeil(a, b) < a + b
<1> DEFINE n == a + b - 1
<1>1. n \in Nat  OBVIOUS
<1>2. n = b * (n \div b) + (n % b) /\ n % b \in 0 .. b - 1 /\ n \div b \in Nat
  BY <1>1
<1>3. QED  BY <1>1, <1>2 DEF DivCeil

LEMMA DivMul ==
  ASSUME NEW k \in Nat \ {0}, NEW x \in Nat
  PROVE  (k * x) \div k = x /\ (k * x) % k = 0
<1> DEFINE n == k * x
           q == n \div k
<1>1. n \in Nat  OBVIOUS
<1>2. n = k * q + (n % k) /\ n % k \in 0 .. k - 1 /\ q \in Int
  BY <1>1
<1>3. k * q <= k * x /\ k * x < k * (q + 1)
  <2>1. k * (q + 1) = k * q + k  BY <1>2
  <2>2. k * q \in Int  BY <1>2
  <2>3. QED  BY <1>1, <1>2, <2>1, <2>2
<1>4. q <= x /\ x < q + 1
  BY <1>2, <1>3, MulMonotone
<1>5. q = x  BY <1>2, <1>4
<1>6. QED  BY <1>2, <1>5


\* Division against multiplication.
LEMMA DivGalois ==
  ASSUME NEW n \in Nat, NEW d \in Nat \ {0}, NEW q \in Nat
  PROVE  q <= n \div d <=> d * q <= n
<1> DEFINE m == n \div d
<1>1. m \in Nat /\ n % d \in 0 .. d - 1 /\ n = d * m + (n % d)
  BY DivMod
<1>2. ASSUME q <= m PROVE d * q <= n
  <2>1. d * q <= d * m  BY <1>1, <1>2, MulMonotone
  <2>2. d * q \in Nat /\ d * m \in Nat  BY <1>1
  <2>3. QED  BY <1>1, <2>1, <2>2
<1>3. ASSUME ~(q <= m) PROVE ~(d * q <= n)
  <2>1. m + 1 <= q  BY <1>1, <1>3
  <2>2. d * (m + 1) <= d * q  BY <1>1, <2>1, MulMonotone
  <2>3. d * (m + 1) = d * m + d  BY <1>1
  <2>4. d * q \in Nat /\ d * m \in Nat  BY <1>1
  <2>5. QED  BY <1>1, <2>2, <2>3, <2>4
<1>4. QED  BY <1>2, <1>3

\* A quotient is known by its multiples.
LEMMA DivIs ==
  ASSUME NEW d \in Nat \ {0}, NEW q \in Nat, NEW r \in 0 .. d - 1
  PROVE  (d * q + r) \div d = q /\ (d * q + r) % d = r
<1> DEFINE n == d * q + r
           m == n \div d
<1>1. n \in Nat /\ d * q \in Nat  OBVIOUS
<1>2. m \in Nat /\ n % d \in 0 .. d - 1 /\ n = d * m + (n % d)
  BY <1>1, DivMod
<1>3. q <= m
  BY <1>1, DivGalois
<1>4. ~(q + 1 <= m)
  <2>1. d * (q + 1) = d * q + d  OBVIOUS
  <2>2. ~(d * (q + 1) <= n)  BY <1>1, <2>1
  <2>3. QED  BY <1>1, <2>2, DivGalois
<1>5. m = q  BY <1>2, <1>3, <1>4
<1>6. QED  BY <1>1, <1>2, <1>5

-----------------------------------------------------------------------------
(* The partition of a launch. *)

LEMMA PartitionTypes ==
  ASSUME NEW g \in Geometry
  PROVE  /\ GlobalTiles(g) \in Nat
         /\ Part2Tiles(g) \in Nat
         /\ Part1Tiles(g) \in Nat
         /\ Part1Iters(g) \in Nat
         /\ EvenIters(g) \in Nat
         /\ GroupedIters(g) \in Nat
<1> DEFINE total == GlobalTiles(g)
<1>1. /\ g.grid \in Nat \ {0} /\ g.kTiles \in Nat \ {0}
      /\ g.nTiles \in Nat /\ g.parallel \in Nat /\ g.groupTiles \in Nat
  BY DEF Geometry
<1>2. total \in Nat
  BY <1>1 DEF GlobalTiles
<1>3. PICK quot \in Nat, rest \in 0 .. g.grid - 1 :
        total = g.grid * quot + rest /\ rest = total % g.grid
  BY <1>1, <1>2, DivMod
<1>4. Part2Tiles(g) \in Nat /\ Part1Tiles(g) \in Nat
  <2>1. CASE total > g.grid
    <3>1. quot >= 1
      <4>1. CASE quot = 0
        <5>1. total = rest  BY <1>1, <1>3, <4>1
        <5>2. QED  BY <1>1, <1>3, <2>1, <5>1
      <4>2. QED  BY <1>3, <4>1
    <3>2. g.grid * 1 <= g.grid * quot
      BY <1>1, <3>1, MulMonotone
    <3>3. g.grid * quot \in Nat  BY <1>1, <1>3
    <3>4. total >= rest + g.grid  BY <1>1, <1>3, <3>2, <3>3
    <3>5. Part2Tiles(g) \in {rest, rest + g.grid}
      BY <1>3, <2>1 DEF Part2Tiles
    <3>6. Part2Tiles(g) \in Nat /\ Part2Tiles(g) <= total
      BY <1>1, <1>2, <1>3, <3>4, <3>5
    <3>7. QED  BY <1>2, <3>6 DEF Part1Tiles
  <2>2. CASE ~(total > g.grid)
    <3>1. Part2Tiles(g) = total  BY <2>2 DEF Part2Tiles
    <3>2. QED  BY <1>2, <3>1 DEF Part1Tiles
  <2>3. QED  BY <2>1, <2>2
<1>5. Part1Iters(g) \in Nat
  <2>1. Part1Tiles(g) \div g.grid \in Nat  BY <1>1, <1>4
  <2>2. QED  BY <2>1 DEF Part1Iters, Part1Tiles
<1>6. EvenIters(g) \in Nat
  <2>1. g.kTiles * Part2Tiles(g) \in Nat  BY <1>1, <1>4
  <2>2. QED  BY <1>1, <2>1, CeilBounds DEF EvenIters
<1>7. GroupedIters(g) \in Nat
  <2>1. CASE g.groupTiles > 0
    <3>1. g.groupTiles \in Nat \ {0}  BY <1>1, <2>1
    <3>2. DivCeil(EvenIters(g), g.groupTiles) \in Nat
      BY <1>6, <3>1, CeilBounds
    <3>3. RoundUp(EvenIters(g), g.groupTiles) \in Nat
      BY <3>1, <3>2 DEF RoundUp
    <3>4. QED  BY <2>1, <3>3 DEF GroupedIters
  <2>2. CASE ~(g.groupTiles > 0)
    BY <1>6, <2>2 DEF GroupedIters
  <2>3. QED  BY <2>1, <2>2
<1>8. QED  BY <1>2, <1>4, <1>5, <1>6, <1>7


LEMMA GeometryTypes ==
  ASSUME NEW g \in Geometry
  PROVE  /\ g.grid \in Nat \ {0} /\ g.kTiles \in Nat \ {0}
         /\ g.nTiles \in Nat \ {0} /\ g.parallel \in Nat
         /\ g.groupTiles \in Nat
         /\ GlobalTiles(g) \in Nat
BY DEF Geometry, GlobalTiles

\* The tiles are part 1's, the same number for each CTA, and then part 2's.
LEMMA Partition ==
  ASSUME NEW g \in Geometry
  PROVE  /\ Part1Tiles(g) = g.grid * Part1Iters(g)
         /\ Part1Tiles(g) + Part2Tiles(g) = GlobalTiles(g)
         /\ GlobalTiles(g) > 0 => Part2Tiles(g) > 0
<1> DEFINE total == GlobalTiles(g)
           quot  == total \div g.grid
           rest  == total % g.grid
<1>1. g.grid \in Nat \ {0} /\ total \in Nat
  BY GeometryTypes
<1>2. quot \in Nat /\ rest \in 0 .. g.grid - 1 /\ total = g.grid * quot + rest
  BY <1>1, DivMod
<1>3. Part2Tiles(g) \in Nat /\ Part1Tiles(g) \in Nat
  BY PartitionTypes
<1>4. Part1Tiles(g) + Part2Tiles(g) = total
  BY <1>1, <1>3 DEF Part1Tiles
<1>5. CASE ~(total > g.grid)
  <2>1. Part2Tiles(g) = total /\ Part1Iters(g) = 0
    BY <1>5 DEF Part2Tiles, Part1Iters
  <2>2. QED  BY <1>1, <1>4, <2>1 DEF Part1Tiles
<1>6. CASE total > g.grid
  <2>1. quot >= 1  BY <1>1, <1>2, <1>6, DivGalois
  <2>2. Part1Iters(g) = Part1Tiles(g) \div g.grid
    BY <1>6 DEF Part1Iters, Part1Tiles
  <2>3. CASE rest * 3 <= g.grid
    <3>1. Part2Tiles(g) = rest + g.grid  BY <1>6, <2>3 DEF Part2Tiles
    <3>2. Part1Tiles(g) = g.grid * (quot - 1)
      <4>1. g.grid * (quot - 1) = g.grid * quot - g.grid  BY <1>1, <1>2
      <4>2. g.grid * quot \in Nat  BY <1>1, <1>2
      <4>3. QED  BY <1>1, <1>2, <3>1, <4>1, <4>2 DEF Part1Tiles
    <3>3. (g.grid * (quot - 1)) \div g.grid = quot - 1
      <4>1. quot - 1 \in Nat  BY <1>2, <2>1
      <4> HIDE DEF quot
      <4>2. QED  BY <1>1, <4>1, DivMul
    <3>4. QED  BY <1>1, <1>2, <1>4, <2>2, <3>1, <3>2, <3>3
  <2>4. CASE ~(rest * 3 <= g.grid)
    <3>1. Part2Tiles(g) = rest  BY <1>6, <2>4 DEF Part2Tiles
    <3>2. Part1Tiles(g) = g.grid * quot
      <4>1. g.grid * quot \in Nat  BY <1>1, <1>2
      <4>2. QED  BY <1>1, <1>2, <3>1, <4>1 DEF Part1Tiles
    <3>3. (g.grid * quot) \div g.grid = quot  BY <1>1, <1>2, DivMul
    <3>4. QED  BY <1>1, <1>2, <1>4, <2>2, <2>4, <3>1, <3>2, <3>3
  <2>5. QED  BY <2>3, <2>4
<1>7. QED  BY <1>5, <1>6

\* A stripe is long enough: grid of them cover part 2, and with a column or more
\* per CTA each is at least a column.
LEMMA StripeLength ==
  ASSUME NEW g \in Geometry, GlobalTiles(g) > 0
  PROVE  /\ Iters(g) \in Nat \ {0}
         /\ g.kTiles * Part2Tiles(g) <= Iters(g) * g.grid
         /\ Part2Tiles(g) >= g.grid => g.kTiles <= Iters(g)
<1> DEFINE k == g.kTiles
           p == Part2Tiles(g)
           e == EvenIters(g)
           n == Iters(g)
<1>1. /\ g.grid \in Nat \ {0} /\ k \in Nat \ {0} /\ g.groupTiles \in Nat
      /\ p \in Nat \ {0}
  BY GeometryTypes, PartitionTypes, Partition
<1>2. k * p \in Nat \ {0}
  <2>1. k * 0 < k * p  BY <1>1, MulMonotone
  <2>2. QED  BY <1>1, <2>1
<1>3. e \in Nat /\ k * p <= g.grid * e
  BY <1>1, <1>2, CeilBounds DEF EvenIters
<1>4. GroupedIters(g) \in Nat /\ e <= GroupedIters(g)
  BY <1>1, <1>3, CeilBounds, PartitionTypes DEF GroupedIters, RoundUp
<1>5. n \in Nat /\ GroupedIters(g) <= n
  <2>1. RoundUp(GroupedIters(g), k) \in Nat
        /\ GroupedIters(g) <= RoundUp(GroupedIters(g), k)
    <3>1. DivCeil(GroupedIters(g), k) \in Nat
          /\ GroupedIters(g) <= k * DivCeil(GroupedIters(g), k)
      BY <1>1, <1>4, CeilBounds
    <3>2. QED  BY <1>1, <3>1 DEF RoundUp
  <2>2. QED  BY <1>4, <2>1 DEF Iters
<1>6. g.grid * e <= g.grid * n
  BY <1>1, <1>3, <1>4, <1>5, MulMonotone
<1>7. g.grid * e \in Nat /\ g.grid * n \in Nat /\ g.grid * n = n * g.grid
  BY <1>1, <1>3, <1>5
<1>8. k * p <= n * g.grid
  BY <1>2, <1>3, <1>6, <1>7
<1>9. n # 0
  <2>1. n = 0 => n * g.grid = 0  BY <1>1
  <2>2. QED  BY <1>2, <1>8, <2>1
<1>10. ASSUME p >= g.grid PROVE k <= n
  <2>1. k * g.grid <= k * p  BY <1>1, <1>10, MulMonotone
  <2>2. k * g.grid \in Nat /\ k * g.grid = g.grid * k  BY <1>1
  <2>3. g.grid * k <= g.grid * n  BY <1>2, <1>7, <1>8, <2>1, <2>2
  <2>4. QED  BY <1>1, <1>5, <2>3, MulMonotone
<1>11. QED  BY <1>5, <1>8, <1>9, <1>10

-----------------------------------------------------------------------------
(* Who takes which part of a tile.  Tiles are numbered through, part 1's     *)
(* first; those of part 2 lie one after the other on a line of K tiles that  *)
(* the stripes cut every Iters(g).                                           *)

Tile(g) == 0 .. GlobalTiles(g) - 1

\* Where a tile of part 2 begins on that line.
Begin(g, t) == g.kTiles * (t - Part1Tiles(g))

\* The CTAs of a tile are an interval.
Low(g, t) ==
  IF t < Part1Tiles(g) THEN t % g.grid ELSE Begin(g, t) \div Iters(g)
High(g, t) ==
  IF t < Part1Tiles(g) THEN t % g.grid
  ELSE (Begin(g, t) + g.kTiles - 1) \div Iters(g)
Takes(g, b, t) == Low(g, t) <= b /\ b <= High(g, t)
Shared(g, t) == Low(g, t) < High(g, t)

\* The K tiles of CTA b's part.
From(g, b, t) == IF b = Low(g, t) THEN 0 ELSE Iters(g) * b - Begin(g, t)
To(g, b, t) ==
  IF b = High(g, t) THEN g.kTiles ELSE Iters(g) * (b + 1) - Begin(g, t)

\* The lock of a shared tile, and where a tile lies in C.
LockOf(g, t) ==
  IF Part2Tiles(g) >= g.grid THEN High(g, t) ELSE t - Part1Tiles(g)
TileAt(g, t) == <<t \div g.nTiles, t % g.nTiles>>

LEMMA Part1Low ==
  ASSUME NEW g \in Geometry, NEW t \in Tile(g), t < Part1Tiles(g)
  PROVE  /\ Low(g, t) \in 0 .. g.grid - 1 /\ High(g, t) = Low(g, t)
         /\ \A b \in Nat : Takes(g, b, t) => From(g, b, t) = 0 /\ To(g, b, t) = g.kTiles
<1>1. g.grid \in Nat \ {0} /\ t \in Nat
  BY GeometryTypes DEF Tile
<1>2. t % g.grid \in 0 .. g.grid - 1
  BY <1>1, DivMod
<1>3. QED  BY <1>2 DEF Low, High, Takes, From, To

\* The stripes against a tile of part 2: everything else is linear in these.
LEMMA Part2Cuts ==
  ASSUME NEW g \in Geometry, NEW t \in Tile(g), t >= Part1Tiles(g)
  PROVE  /\ Begin(g, t) \in Nat
         /\ Begin(g, t) + g.kTiles <= Iters(g) * g.grid
         /\ Iters(g) \in Nat \ {0}
         /\ Low(g, t) \in Nat /\ High(g, t) \in Nat
         /\ \A b \in Nat :
              /\ Iters(g) * b \in Nat
              /\ Iters(g) * (b + 1) = Iters(g) * b + Iters(g)
              /\ b <= Low(g, t) <=> Iters(g) * b <= Begin(g, t)
              /\ b <= High(g, t) <=> Iters(g) * b < Begin(g, t) + g.kTiles
<1> DEFINE k == g.kTiles
           n == Iters(g)
           c == t - Part1Tiles(g)
           x == Begin(g, t)
<1>1. /\ k \in Nat \ {0} /\ g.grid \in Nat \ {0} /\ t \in Nat
      /\ Part1Tiles(g) \in Nat /\ Part2Tiles(g) \in Nat
  BY GeometryTypes, PartitionTypes DEF Tile
<1>2. GlobalTiles(g) > 0
  BY GeometryTypes DEF Tile
<1>3. n \in Nat \ {0} /\ k * Part2Tiles(g) <= n * g.grid
  BY <1>2, StripeLength
<1>4. c \in Nat /\ c + 1 <= Part2Tiles(g)
  BY <1>1, Partition, GeometryTypes DEF Tile
<1>5. x \in Nat /\ x = k * c
  BY <1>1, <1>4 DEF Begin
<1>6. x + k <= n * g.grid
  <2>1. k * (c + 1) <= k * Part2Tiles(g)  BY <1>1, <1>4, MulMonotone
  <2>2. k * (c + 1) = x + k  BY <1>1, <1>4, <1>5
  <2>3. n * g.grid \in Nat /\ k * Part2Tiles(g) \in Nat  BY <1>1, <1>3
  <2>4. QED  BY <1>1, <1>3, <1>5, <2>1, <2>2, <2>3
<1>7. x + k - 1 \in Nat  BY <1>1, <1>5
<1>8. Low(g, t) = x \div n /\ High(g, t) = (x + k - 1) \div n
  BY <1>1 DEF Low, High
<1>9. Low(g, t) \in Nat /\ High(g, t) \in Nat
  BY <1>3, <1>5, <1>7, <1>8, DivMod
<1>10. ASSUME NEW b \in Nat
       PROVE  /\ n * b \in Nat /\ n * (b + 1) = n * b + n
              /\ b <= Low(g, t) <=> n * b <= x
              /\ b <= High(g, t) <=> n * b < x + k
  <2>1. n * b \in Nat /\ n * (b + 1) = n * b + n  BY <1>3
  <2>2. b <= x \div n <=> n * b <= x  BY <1>3, <1>5, DivGalois
  <2>3. b <= (x + k - 1) \div n <=> n * b <= x + k - 1
    <3> DEFINE y == x + k - 1
    <3> HIDE DEF y
    <3>1. y \in Nat  BY <1>7 DEF y
    <3>2. b <= y \div n <=> n * b <= y  BY <1>3, <3>1, DivGalois
    <3>3. QED  BY <3>2 DEF y
  <2>4. n * b <= x + k - 1 <=> n * b < x + k  BY <1>1, <1>5, <2>1
  <2>5. QED  BY <1>8, <2>1, <2>2, <2>3, <2>4
<1>11. QED  BY <1>3, <1>5, <1>6, <1>9, <1>10

\* A tile's CTAs are an interval of the grid, and their parts, laid end to end
\* from the lowest CTA to the highest, are the tile's K tiles.
LEMMA Parts ==
  ASSUME NEW g \in Geometry, NEW t \in Tile(g)
  PROVE  /\ Low(g, t) \in Nat /\ High(g, t) \in Nat
         /\ Low(g, t) <= High(g, t) /\ High(g, t) < g.grid
         /\ \A b \in Nat : Takes(g, b, t) =>
              /\ From(g, b, t) \in Nat /\ To(g, b, t) \in Nat
              /\ From(g, b, t) < To(g, b, t) /\ To(g, b, t) <= g.kTiles
              /\ b > Low(g, t) => From(g, b, t) = To(g, b - 1, t)
<1>1. g.grid \in Nat \ {0} /\ g.kTiles \in Nat \ {0}
  BY GeometryTypes
<1>2. CASE t < Part1Tiles(g)
  BY <1>1, <1>2, Part1Low DEF Takes
<1>3. CASE ~(t < Part1Tiles(g))
  <2> DEFINE k == g.kTiles
             n == Iters(g)
             x == Begin(g, t)
             low == Low(g, t)
             high == High(g, t)
  <2>1. /\ x \in Nat /\ x + k <= n * g.grid /\ n \in Nat \ {0}
        /\ low \in Nat /\ high \in Nat
        /\ \A b \in Nat : /\ n * b \in Nat /\ n * (b + 1) = n * b + n
                          /\ b <= low <=> n * b <= x
                          /\ b <= high <=> n * b < x + k
    <3>1. t >= Part1Tiles(g)
      BY <1>3, PartitionTypes DEF Tile
    <3>2. QED  BY <3>1, Part2Cuts
  <2>2. \A b \in Nat : /\ From(g, b, t) = IF b = low THEN 0 ELSE n * b - x
                       /\ To(g, b, t) = IF b = high THEN k ELSE n * (b + 1) - x
    BY DEF From, To
  <2> HIDE DEF k, n, x, low, high
  <2>3. k \in Nat \ {0}  BY <1>1 DEF k
  <2>4. low <= high  BY <2>1, <2>3
  <2>5. high < g.grid
    <3>1. n * g.grid \in Nat /\ (g.grid <= high <=> n * g.grid < x + k)
      BY <1>1, <2>1
    <3>2. ~(g.grid <= high)  BY <2>1, <2>3, <3>1
    <3>3. QED  BY <1>1, <2>1, <3>2
  <2>6. ASSUME NEW b \in Nat, low <= b, b <= high
        PROVE  /\ From(g, b, t) \in Nat /\ To(g, b, t) \in Nat
               /\ From(g, b, t) < To(g, b, t) /\ To(g, b, t) <= k
               /\ b > low => From(g, b, t) = To(g, b - 1, t)
    <3>1. From(g, b, t) \in Nat /\ From(g, b, t) < k
          /\ From(g, b, t) + n >= n * (b + 1) - x
          /\ n * (b + 1) - x > From(g, b, t)
      <4>1. CASE b = low
        <5>1. ~(b + 1 <= low)  BY <4>1, <2>1
        <5>2. n * (b + 1) > x  BY <5>1, <2>1
        <5>3. QED  BY <2>1, <2>2, <2>3, <4>1, <5>2
      <4>2. CASE b # low
        <5>1. n * b > x /\ n * b < x + k  BY <2>1, <2>6, <4>2
        <5>2. QED  BY <2>1, <2>2, <2>3, <4>2, <5>1
      <4>3. QED  BY <4>1, <4>2
    <3>2. To(g, b, t) \in Nat /\ From(g, b, t) < To(g, b, t)
          /\ To(g, b, t) <= k
      <4>1. CASE b = high  BY <2>2, <2>3, <3>1, <4>1
      <4>2. CASE b # high
        <5>1. b + 1 \in Nat /\ b + 1 <= high  BY <2>1, <2>6, <4>2
        <5>2. n * (b + 1) < x + k /\ n * (b + 1) \in Nat  BY <2>1, <5>1
        <5>3. QED  BY <2>1, <2>2, <2>3, <3>1, <4>2, <5>2
      <4>3. QED  BY <4>1, <4>2
    <3>3. ASSUME b > low PROVE From(g, b, t) = To(g, b - 1, t)
      <4> DEFINE a == b - 1
      <4>1. a \in Nat /\ a + 1 = b /\ a # high /\ b # low
        BY <2>1, <2>6, <3>3
      <4> HIDE DEF a
      <4>2. To(g, a, t) = n * b - x /\ From(g, b, t) = n * b - x
        BY <2>2, <4>1
      <4>3. QED  BY <4>2 DEF a
    <3>4. QED  BY <3>1, <3>2, <3>3
  <2>7. QED
    BY <2>1, <2>4, <2>5, <2>6 DEF Takes, low, high, k
<1>4. QED  BY <1>2, <1>3

\* Tiles of part 2 in their order: a CTA of an earlier one is no higher than
\* the CTAs of a later one.
LEMMA Ordered ==
  ASSUME NEW g \in Geometry, NEW t \in Tile(g), NEW u \in Tile(g),
         t >= Part1Tiles(g), t < u
  PROVE  /\ High(g, t) <= Low(g, u)
         /\ Begin(g, t) + g.kTiles <= Begin(g, u)
<1> DEFINE k == g.kTiles
           n == Iters(g)
<1>1. k \in Nat \ {0} /\ t \in Nat /\ u \in Nat /\ Part1Tiles(g) \in Nat
  BY GeometryTypes, PartitionTypes DEF Tile
<1>2. u >= Part1Tiles(g)  BY <1>1
<1>3. Begin(g, t) + k <= Begin(g, u)
  <2> DEFINE c == t - Part1Tiles(g)
             d == u - Part1Tiles(g)
  <2>1. c \in Nat /\ d \in Nat /\ c + 1 <= d  BY <1>1, <1>2
  <2> HIDE DEF c, d
  <2>2. k * (c + 1) <= k * d /\ k * (c + 1) = k * c + k
        /\ k * c \in Nat /\ k * d \in Nat
    BY <1>1, <2>1, MulMonotone
  <2>3. k * c + k <= k * d  BY <2>2
  <2>4. QED  BY <2>3 DEF Begin, c, d
<1>4. Begin(g, t) \in Nat /\ Begin(g, u) \in Nat /\ High(g, t) \in Nat
      /\ n * High(g, t) \in Nat /\ n * High(g, t) < Begin(g, t) + k
  <2>1. High(g, t) \in Nat  BY Part2Cuts
  <2>2. QED  BY <1>2, <2>1, Part2Cuts
<1>5. n * High(g, t) <= Begin(g, u)  BY <1>1, <1>3, <1>4
<1>6. QED  BY <1>2, <1>3, <1>4, <1>5, Part2Cuts

\* With a column or more per CTA a tile has at most two CTAs.
LEMMA TwoAtMost ==
  ASSUME NEW g \in Geometry, NEW t \in Tile(g), t >= Part1Tiles(g),
         Part2Tiles(g) >= g.grid
  PROVE  High(g, t) <= Low(g, t) + 1
<1> DEFINE n == Iters(g)
           x == Begin(g, t)
           low == Low(g, t)
<1>1. g.kTiles \in Nat \ {0} /\ g.kTiles <= n
  BY GeometryTypes, StripeLength DEF Tile
<1>2. /\ x \in Nat /\ n \in Nat \ {0} /\ low \in Nat /\ High(g, t) \in Nat
      /\ \A b \in Nat : /\ n * b \in Nat /\ n * (b + 1) = n * b + n
                        /\ b <= low <=> n * b <= x
                        /\ b <= High(g, t) <=> n * b < x + g.kTiles
  BY Part2Cuts
<1> HIDE DEF n, x, low
<1>3. low + 1 \in Nat /\ n * (low + 1) > x
  <2>1. low + 1 \in Nat /\ ~(low + 1 <= low)  BY <1>2
  <2>2. n * (low + 1) \in Nat /\ ~(n * (low + 1) <= x)  BY <1>2, <2>1
  <2>3. QED  BY <1>2, <2>1, <2>2
<1>4. n * ((low + 1) + 1) = n * (low + 1) + n /\ n * (low + 1) \in Nat
  BY <1>2, <1>3
<1>5. ~(n * ((low + 1) + 1) < x + g.kTiles)
  BY <1>1, <1>2, <1>3, <1>4
<1>6. ~((low + 1) + 1 <= High(g, t))
  BY <1>2, <1>5
<1>7. QED  BY <1>2, <1>6 DEF low

\* Different shared tiles have different locks, and the workspace has them.
LEMMA LocksOfTiles ==
  ASSUME NEW g \in Geometry, NEW t \in Tile(g), Shared(g, t)
  PROVE  /\ t >= Part1Tiles(g)
         /\ LockOf(g, t) \in 0 .. g.grid - 1
         /\ LockOf(g, t) < GlobalTiles(g)
         /\ \A u \in Tile(g) :
              Shared(g, u) /\ LockOf(g, u) = LockOf(g, t) => u = t
<1>1. /\ g.grid \in Nat \ {0} /\ t \in Nat /\ GlobalTiles(g) \in Nat
      /\ Part1Tiles(g) \in Nat /\ Part2Tiles(g) \in Nat
      /\ Part1Tiles(g) + Part2Tiles(g) = GlobalTiles(g)
      /\ t < GlobalTiles(g)
  BY GeometryTypes, PartitionTypes, Partition DEF Tile
<1>2. \A u \in Tile(g) : Shared(g, u) => u >= Part1Tiles(g) /\ u \in Nat
  <2> SUFFICES ASSUME NEW u \in Tile(g), Shared(g, u)
               PROVE  u >= Part1Tiles(g) /\ u \in Nat
    OBVIOUS
  <2>1. u < Part1Tiles(g) => High(g, u) = Low(g, u)  BY Part1Low
  <2>2. Low(g, u) \in Nat /\ High(g, u) \in Nat  BY Parts
  <2>3. QED  BY <1>1, <2>1, <2>2 DEF Shared, Tile
<1>3. High(g, t) \in Nat /\ High(g, t) < g.grid  BY Parts
<1>4. LockOf(g, t) \in 0 .. g.grid - 1 /\ LockOf(g, t) < GlobalTiles(g)
  BY <1>1, <1>2, <1>3 DEF LockOf
<1>5. ASSUME NEW u \in Tile(g), Shared(g, u), LockOf(g, u) = LockOf(g, t)
      PROVE  u = t
  <2>1. u \in Nat /\ u >= Part1Tiles(g) /\ t >= Part1Tiles(g)
    BY <1>2, <1>5
  <2>2. CASE Part2Tiles(g) >= g.grid
    <3>1. High(g, u) = High(g, t)  BY <1>5, <2>2 DEF LockOf
    <3>2. Low(g, u) \in Nat /\ High(g, u) \in Nat /\ Low(g, t) \in Nat
      BY Parts
    <3>3. ~(t < u)  BY <1>3, <1>5, <2>1, <3>1, <3>2, Ordered DEF Shared
    <3>4. ~(u < t)  BY <1>3, <2>1, <3>1, <3>2, Ordered DEF Shared
    <3>5. QED  BY <1>1, <2>1, <3>3, <3>4
  <2>3. CASE ~(Part2Tiles(g) >= g.grid)
    BY <1>1, <1>5, <2>1, <2>3 DEF LockOf
  <2>4. QED  BY <2>2, <2>3
<1>6. QED  BY <1>2, <1>4, <1>5

\* init_part2_slice's arithmetic (slice_count, slice_idx, slice_iters) names the
\* tile's CTAs, this CTA's place among them from the bottom of K, and its part.
LEMMA SliceNumbers ==
  ASSUME NEW g \in Geometry, NEW t \in Tile(g), t >= Part1Tiles(g),
         NEW b \in Nat, Takes(g, b, t)
  PROVE  /\ SliceCount(g, t - Part1Tiles(g)) = High(g, t) - Low(g, t) + 1
         /\ SliceIdx(g, b, t - Part1Tiles(g)) = High(g, t) - b
<1> DEFINE c == t - Part1Tiles(g)
           k == g.kTiles
           n == Iters(g)
           x == Begin(g, t)
           q == DivCeil(x, n)
           low == Low(g, t)
           high == High(g, t)
           off == n * q - x
           d == x + k - n * q
           D == DivCeil(d, n)
<1>1. k \in Nat \ {0}
  BY GeometryTypes
<1>2. /\ x \in Nat /\ n \in Nat \ {0} /\ low \in Nat /\ high \in Nat
      /\ \A a \in Nat : /\ n * a \in Nat /\ n * (a + 1) = n * a + n
                        /\ a <= low <=> n * a <= x
                        /\ a <= high <=> n * a < x + k
  BY Part2Cuts
<1>3. k * c = x /\ k * (c + 1) = x + k
  <2>1. t \in Nat /\ Part1Tiles(g) \in Nat  BY PartitionTypes DEF Tile
  <2>2. c \in Nat  BY <2>1
  <2>3. k * (c + 1) = k * c + k
    <3> HIDE DEF c, k
    <3>1. QED  BY <1>1, <2>2
  <2>4. QED  BY <2>3 DEF Begin
<1>4. q \in Nat /\ x <= n * q /\ n * q < x + n /\ n * q \in Nat
  BY <1>2, CeilBounds
<1>5. low <= b /\ b <= high /\ low <= high
  BY <1>2 DEF Takes
<1>6. low = IF off = 0 THEN q ELSE q - 1
  <2>1. CASE off = 0
    <3>1. q <= low /\ ~(q + 1 <= low)
      <4> HIDE DEF q, low, x, n
      <4>1. n * q = x  BY <1>2, <1>4, <2>1
      <4>2. n * (q + 1) = n * q + n  BY <1>2, <1>4
      <4>3. q + 1 \in Nat  BY <1>4
      <4>4. ~(n * (q + 1) <= x)  BY <1>2, <1>4, <4>1, <4>2
      <4>5. QED  BY <1>2, <1>4, <4>1, <4>3, <4>4
    <3> HIDE DEF q, low, off
    <3>2. low = q  BY <1>2, <1>4, <3>1
    <3>3. QED  BY <2>1, <3>2
  <2>2. CASE off # 0
    <3> HIDE DEF q, low, x, n
    <3>1. n * q > x  BY <1>2, <1>4, <2>2
    <3>2. ~(q <= low)
      <4>1. q <= low <=> n * q <= x  BY <1>2, <1>4
      <4>2. QED  BY <1>2, <1>4, <3>1, <4>1
    <3>3. q # 0
      <4>1. q = 0 => n * q = 0  BY <1>2
      <4>2. QED  BY <1>2, <3>1, <4>1
    <3>4. q - 1 \in Nat  BY <1>4, <3>3
    <3>5. n * ((q - 1) + 1) = n * (q - 1) + n /\ (q - 1) + 1 = q
          /\ n * (q - 1) \in Nat
      BY <1>2, <1>4, <3>4
    <3>6. n * (q - 1) <= x  BY <1>2, <1>4, <3>5
    <3>7. q - 1 <= low  BY <1>2, <3>4, <3>6
    <3>8. QED  BY <1>2, <1>4, <2>2, <3>2, <3>7
  <2>3. QED  BY <2>1, <2>2
<1>7. /\ ColFirst(g, c) = n * q
      /\ ColOff(g, c) = off
      /\ Divided(g, c) <=> n * q <= x + k
  BY <1>3 DEF ColFirst, ColOff, Divided
<1>8. CASE ~Divided(g, c)
  <2>1. SliceCount(g, c) = 1 /\ SliceIdx(g, b, c) = 0
    BY <1>8 DEF SliceCount, SliceIdx
  <2>2. ~(q <= high) /\ off # 0
    <3> HIDE DEF c, q, x, n, high, k
    <3>1. n * q > x + k  BY <1>1, <1>2, <1>4, <1>7, <1>8
    <3>2. QED  BY <1>1, <1>2, <1>4, <3>1
  <2>3. high = low /\ b = high
    <3> HIDE DEF q, high, low, off
    <3>1. QED  BY <1>2, <1>4, <1>5, <1>6, <2>2
  <2> HIDE DEF high, low, c
  <2>4. SliceCount(g, c) = high - low + 1 /\ SliceIdx(g, b, c) = high - b
    BY <1>2, <2>1, <2>3
  <2>5. QED  BY <2>4 DEF high, low, c
<1>9. CASE Divided(g, c)
  <2>1. d \in Nat
    <3> HIDE DEF c, q, x, n, k
    <3>1. QED  BY <1>1, <1>2, <1>4, <1>7, <1>9
  <2>2. D \in Nat /\ d <= n * D /\ n * D < d + n /\ n * D \in Nat
    <3> HIDE DEF d, n
    <3>1. QED  BY <1>2, <2>1, CeilBounds
  <2>3. n * (q + D) = n * q + n * D /\ n * (q + D) \in Nat
    <3> HIDE DEF q, D, n
    <3>1. QED  BY <1>2, <1>4, <2>2
  <2>4. ~(q + D <= high)
    <3> HIDE DEF q, D, n, x, k, high
    <3>1. ~(n * (q + D) < x + k)  BY <1>1, <1>2, <1>4, <2>1, <2>2, <2>3
    <3>2. q + D \in Nat  BY <1>4, <2>2
    <3>3. q + D <= high <=> n * (q + D) < x + k  BY <1>2, <3>2
    <3>4. QED  BY <3>1, <3>3
  <2>5. q + D # 0
    <3>1. ASSUME q = 0, D = 0 PROVE FALSE
      <4> HIDE DEF q, D, n, x, k
      <4>1. n * q = 0 /\ n * D = 0  BY <1>2, <3>1
      <4>2. QED  BY <1>1, <1>2, <1>4, <2>1, <2>2, <4>1
    <3>2. QED  BY <1>4, <2>2, <3>1
  <2>6. q + D - 1 <= high
    <3> DEFINE e == q + D - 1
    <3>1. e \in Nat /\ e + 1 = q + D  BY <1>4, <2>2, <2>5
    <3> HIDE DEF q, D, n, x, k, high, e
    <3>2. n * (q + D) = n * e + n /\ n * e \in Nat
      BY <1>2, <3>1
    <3>3. n * e < x + k  BY <1>1, <1>2, <1>4, <2>1, <2>2, <2>3, <3>2
    <3>4. e <= high  BY <1>2, <3>1, <3>3
    <3>5. QED  BY <3>4 DEF e
  <2>7. high = q + D - 1
    <3> HIDE DEF q, D, high
    <3>1. QED  BY <1>2, <1>4, <2>2, <2>4, <2>6
  <2>8. k - off = d
    <3> HIDE DEF q, n, x, k
    <3>1. QED  BY <1>1, <1>2, <1>4
  <2>9. SliceCount(g, c) = D + (IF off > 0 THEN 1 ELSE 0)
    BY <1>7, <1>9, <2>8 DEF SliceCount
  <2>10. off \in Nat
    <3> HIDE DEF q, n, x
    <3>1. QED  BY <1>2, <1>4
  <2>11. SliceCount(g, c) = high - low + 1
    <3> HIDE DEF q, D, high, low, off, c
    <3>1. CASE off = 0  BY <1>2, <1>4, <1>6, <2>2, <2>7, <2>9, <3>1
    <3>2. CASE off # 0
      <4>1. off > 0 /\ low = q - 1  BY <1>6, <2>10, <3>2
      <4>2. QED  BY <1>2, <1>4, <2>2, <2>7, <2>9, <4>1
    <3>3. QED  BY <3>1, <3>2
  <2> DEFINE delta == n * b - n * q
  <2>12. /\ b >= q => delta = n * (b - q) /\ delta \div n = b - q
         /\ delta < 0 <=> b < q
         /\ delta = 0 <=> b = q
    <3>1. n * b \in Nat
          /\ (b <= q <=> n * b <= n * q) /\ (b < q <=> n * b < n * q)
      <4> HIDE DEF q, n
      <4>1. QED  BY <1>2, <1>4, MulMonotone
    <3>2. delta < 0 <=> b < q
      <4> HIDE DEF q, n
      <4>1. QED  BY <1>2, <1>4, <3>1
    <3>3. delta = 0 <=> b = q
      <4> HIDE DEF q, n
      <4>1. QED  BY <1>2, <1>4, <3>1
    <3>4. ASSUME b >= q PROVE delta = n * (b - q) /\ delta \div n = b - q
      <4> DEFINE f == b - q
      <4>1. f \in Nat  BY <1>4, <3>4
      <4>2. delta = n * f
        <5> HIDE DEF q, n
        <5>1. QED  BY <1>2, <1>4
      <4> HIDE DEF delta, n, q, f
      <4>3. (n * f) \div n = f  BY <1>2, <4>1, DivMul
      <4>4. QED  BY <4>2, <4>3 DEF f
    <3>5. QED  BY <3>2, <3>3, <3>4
  <2>13. SliceIdx(g, b, c) =
           IF delta < 0 \/ (off = 0 /\ delta = 0) THEN high - low
           ELSE high - low - delta \div n - (IF off > 0 THEN 1 ELSE 0)
    <3>1. SliceIdx(g, b, c) =
            IF delta < 0 \/ (off = 0 /\ delta = 0) THEN SliceCount(g, c) - 1
            ELSE SliceCount(g, c) - 1 - delta \div n
                   - (IF off > 0 THEN 1 ELSE 0)
      BY <1>7, <1>9 DEF SliceIdx
    <3>2. SliceCount(g, c) - 1 = high - low
      <4> HIDE DEF high, low, c
      <4>1. QED  BY <1>2, <2>11
    <3>3. QED  BY <3>1, <3>2
  <2>14. SliceIdx(g, b, c) = high - b
    <3> HIDE DEF q, D, high, low, off, c, delta, n
    <3>1. CASE b < q
      <4>1. off # 0 /\ b = low  BY <1>2, <1>4, <1>5, <1>6, <3>1
      <4>2. QED  BY <2>12, <2>13, <3>1, <4>1
    <3>2. CASE b = q /\ off = 0
      BY <1>4, <1>6, <2>12, <2>13, <3>2
    <3>3. CASE b >= q /\ ~(b = q /\ off = 0)
      <4>1. ~(delta < 0) /\ ~(off = 0 /\ delta = 0) /\ delta \div n = b - q
        BY <1>4, <2>12, <3>3
      <4>2. SliceIdx(g, b, c) =
              high - low - (b - q) - (IF off > 0 THEN 1 ELSE 0)
        BY <2>13, <4>1
      <4>3. QED  BY <1>2, <1>4, <1>6, <2>10, <4>2
    <3>4. QED  BY <1>4, <3>1, <3>2, <3>3
  <2>15. QED  BY <2>11, <2>14
<1>10. QED  BY <1>8, <1>9

LEMMA SliceLength ==
  ASSUME NEW g \in Geometry, NEW t \in Tile(g), t >= Part1Tiles(g),
         NEW b \in Nat, Takes(g, b, t),
         NEW s, s.colPar = t - Part1Tiles(g), s.row = From(g, b, t)
  PROVE  SliceIters(g, b, s) = To(g, b, t) - From(g, b, t)
<1> DEFINE k == g.kTiles
           n == Iters(g)
           x == Begin(g, t)
           low == Low(g, t)
           high == High(g, t)
           from == From(g, b, t)
           to == To(g, b, t)
           left == n * (b + 1) - (x + from)
<1>1. /\ x \in Nat /\ n \in Nat \ {0} /\ low \in Nat /\ high \in Nat
      /\ n * b \in Nat /\ n * (b + 1) = n * b + n
      /\ b <= low <=> n * b <= x
      /\ b <= high <=> n * b < x + k
      /\ b + 1 <= high <=> n * (b + 1) < x + k
      /\ b + 1 <= low <=> n * (b + 1) <= x
  <2>1. b + 1 \in Nat  OBVIOUS
  <2>2. QED  BY <2>1, Part2Cuts
<1>2. k \in Nat \ {0}  BY GeometryTypes
<1>3. low <= b /\ b <= high  BY DEF Takes
<1>4. from \in Nat /\ to \in Nat /\ from < to /\ to <= k
  BY Parts
<1>5. /\ from = IF b = low THEN 0 ELSE n * b - x
      /\ to = IF b = high THEN k ELSE n * (b + 1) - x
  BY DEF From, To
<1>6. ~(s.colPar >= Part2Tiles(g))
  <2>1. t \in Nat /\ t < GlobalTiles(g)  BY GeometryTypes DEF Tile
  <2>2. QED  BY <2>1, Partition, PartitionTypes
<1>7. g.kTiles * s.colPar + s.row = x + from
  BY DEF Begin
<1>8. SliceIters(g, b, s) =
        IF left < 0 THEN 0
        ELSE IF from + left > k THEN k - from ELSE left
  BY <1>6, <1>7 DEF SliceIters
<1> HIDE DEF k, n, x, low, high, from, to
<1>9. from + left = n * b + n - x /\ ~(left < 0)
  BY <1>1, <1>2, <1>3, <1>4, <1>5
<1>10. QED
  <2>1. CASE b = high
    <3>1. ~(b + 1 <= high)  BY <1>1, <2>1
    <3>2. from + left >= k  BY <1>1, <1>2, <1>9, <3>1
    <3>3. SliceIters(g, b, s) = to - from
      BY <1>1, <1>2, <1>4, <1>5, <1>8, <1>9, <2>1, <3>2
    <3>4. QED  BY <3>3 DEF from, to
  <2>2. CASE b # high
    <3>1. b + 1 <= high  BY <1>1, <1>3, <2>2
    <3>2. from + left < k  BY <1>1, <1>2, <1>9, <3>1
    <3>3. SliceIters(g, b, s) = to - from
      BY <1>1, <1>2, <1>4, <1>5, <1>8, <1>9, <2>2, <3>2
    <3>4. QED  BY <3>3 DEF from, to
  <2>3. QED  BY <2>1, <2>2

\* A stripe that ends at or before the top of a column has nothing of it.
LEMMA SliceEnds ==
  ASSUME NEW g \in Geometry, NEW t \in Tile(g), t >= Part1Tiles(g),
         NEW b \in Nat, b < Low(g, t),
         NEW s, s.colPar = t - Part1Tiles(g), s.row = 0
  PROVE  SliceIters(g, b, s) = 0
<1> DEFINE left == Iters(g) * (b + 1) - (g.kTiles * s.colPar + s.row)
<1>1. /\ Begin(g, t) \in Nat
      /\ Iters(g) * (b + 1) \in Nat
      /\ b + 1 <= Low(g, t) <=> Iters(g) * (b + 1) <= Begin(g, t)
  <2>1. b + 1 \in Nat  OBVIOUS
  <2>2. QED  BY <2>1, Part2Cuts
<1>2. Iters(g) * (b + 1) <= Begin(g, t)
  <2>1. Low(g, t) \in Nat  BY Parts
  <2>2. QED  BY <1>1, <2>1
<1>3. left = Iters(g) * (b + 1) - Begin(g, t)
  BY <1>1 DEF Begin
<1>4. g.kTiles \in Nat \ {0}  BY GeometryTypes
<1>5. ~(s.row + left > g.kTiles) /\ (left < 0 \/ left = 0)
  BY <1>1, <1>2, <1>3, <1>4
<1>6. SliceIters(g, b, s) =
        IF left < 0 \/ s.colPar >= Part2Tiles(g) THEN 0
        ELSE IF s.row + left > g.kTiles THEN g.kTiles - s.row ELSE left
  BY DEF SliceIters
<1> HIDE DEF left
<1>7. QED  BY <1>5, <1>6

\* Where a tile lies in C: block by block, column by column.
LEMMA TilePlace ==
  ASSUME NEW g \in Geometry, NEW t \in Tile(g)
  PROVE  /\ t \in Nat
         /\ t \div g.nTiles \in 0 .. g.parallel - 1
         /\ t % g.nTiles \in 0 .. g.nTiles - 1
         /\ t = g.nTiles * (t \div g.nTiles) + (t % g.nTiles)
<1> DEFINE q == t \div g.nTiles
<1>1. /\ g.nTiles \in Nat \ {0} /\ g.parallel \in Nat /\ t \in Nat
      /\ t < g.parallel * g.nTiles
  BY GeometryTypes DEF Tile, GlobalTiles
<1>2. /\ q \in Nat /\ t % g.nTiles \in 0 .. g.nTiles - 1
      /\ t = g.nTiles * q + (t % g.nTiles)
  BY <1>1, DivMod
<1>3. ~(g.parallel <= q)
  <2> HIDE DEF q
  <2>1. g.parallel <= q => g.nTiles * g.parallel <= g.nTiles * q
    BY <1>1, <1>2, MulMonotone
  <2>2. g.nTiles * g.parallel = g.parallel * g.nTiles
        /\ g.nTiles * g.parallel \in Nat /\ g.nTiles * q \in Nat
    BY <1>1, <1>2
  <2>3. QED  BY <1>1, <1>2, <2>1, <2>2
<1>4. QED  BY <1>1, <1>2, <1>3

LEMMA PlaceIsTile ==
  ASSUME NEW g \in Geometry, NEW p \in Nat, NEW c \in 0 .. g.nTiles - 1,
         p * g.nTiles + c \in Tile(g)
  PROVE  TileAt(g, p * g.nTiles + c) = <<p, c>> /\ p < g.parallel
<1>1. g.nTiles \in Nat \ {0}  BY GeometryTypes
<1>2. p * g.nTiles + c = g.nTiles * p + c  BY <1>1
<1>3. (g.nTiles * p + c) \div g.nTiles = p /\ (g.nTiles * p + c) % g.nTiles = c
  BY <1>1, DivIs
<1>4. TileAt(g, p * g.nTiles + c) = <<p, c>>
  BY <1>2, <1>3 DEF TileAt
<1>5. p \in 0 .. g.parallel - 1
  BY <1>2, <1>3, TilePlace
<1>6. QED  BY <1>4, <1>5, GeometryTypes

-----------------------------------------------------------------------------
(* The walk.  A CTA holds the slice of a tile (InHand), has stepped past one *)
(* (Ready), or has come to the end of its stripe (Over).                     *)

\* locks_off before the first slice of part 2, and while b holds tile t.
FirstLock(g, b) ==
  IF Part2Tiles(g) >= g.grid THEN b ELSE (Iters(g) * b) \div g.kTiles - 1
WalkLock(g, b, t) ==
  IF Part2Tiles(g) >= g.grid THEN IF b < High(g, t) THEN b + 1 ELSE b
  ELSE t - Part1Tiles(g)

TileIx(g, s) == IF s.inPart2 THEN s.colPar + Part1Tiles(g) ELSE s.colPar

InHand(g, b, s) ==
  LET t == TileIx(g, s) IN
  /\ s \in SliceState
  /\ t \in Tile(g) /\ Takes(g, b, t)
  /\ s.count = High(g, t) - Low(g, t) + 1
  /\ s.idx = High(g, t) - b
  /\ s.row = From(g, b, t)
  /\ s.par = s.block /\ <<s.block, s.col>> = TileAt(g, t)
  /\ IF s.inPart2
     THEN ~s.firstInit /\ s.part1 = 0 /\ s.lock = WalkLock(g, b, t)
     ELSE /\ s.firstInit /\ s.lock = FirstLock(g, b)
          /\ s.colPar = b + g.grid * (Part1Iters(g) - s.part1 - 1)
          /\ s.part1 < Part1Iters(g)

Over(g, b, s) ==
  /\ s \in SliceState /\ s.inPart2 /\ s.iters = 0
  /\ \A t \in Tile(g) : Takes(g, b, t) => t < TileIx(g, s)

Ready(g, b, s) ==
  /\ s \in SliceState /\ s.row = 0
  /\ IF s.inPart2
     THEN LET t == TileIx(g, s) IN
          /\ t - 1 \in Tile(g) /\ s.colPar > 0 /\ Takes(g, b, t - 1)
          /\ ~s.firstInit /\ s.part1 = 0 /\ s.lock = WalkLock(g, b, t - 1)
          /\ s.par = s.block /\ s.col \in 1 .. g.nTiles
          /\ s.par * g.nTiles + s.col = t
     ELSE /\ s.firstInit /\ s.lock = FirstLock(g, b)
          /\ s.part1 <= Part1Iters(g)
          /\ s.count = 1 /\ s.idx = 0
          /\ s.colPar = b + g.grid * (Part1Iters(g) - s.part1)

\* The tiles of a ready CTA that lie behind it.
Reach(g, s) ==
  IF s.inPart2 THEN TileIx(g, s)
  ELSE IF s.part1 > 0 THEN s.colPar ELSE Part1Tiles(g)

\* The lock a CTA uses for a shared tile is the tile's.
LEMMA WalkLockIsLockOf ==
  ASSUME NEW g \in Geometry, NEW t \in Tile(g), Shared(g, t),
         NEW b \in Nat, Takes(g, b, t)
  PROVE  WalkLock(g, b, t) = LockOf(g, t)
<1>1. Low(g, t) \in Nat /\ High(g, t) \in Nat  BY Parts
<1>2. Low(g, t) <= b /\ b <= High(g, t) /\ Low(g, t) < High(g, t)
  BY DEF Takes, Shared
<1>3. CASE Part2Tiles(g) >= g.grid
  <2>1. High(g, t) <= Low(g, t) + 1  BY <1>3, LocksOfTiles, TwoAtMost
  <2>2. QED  BY <1>1, <1>2, <1>3, <2>1 DEF WalkLock, LockOf
<1>4. CASE ~(Part2Tiles(g) >= g.grid)
  BY <1>4 DEF WalkLock, LockOf
<1>5. QED  BY <1>3, <1>4

\* CTA b's stripe has reached its part of tile t.
AtPart(g, b, t, s) ==
  /\ s \in SliceState /\ s.inPart2 /\ s.part1 = 0
  /\ s.colPar = t - Part1Tiles(g) /\ s.row = From(g, b, t)
  /\ s.par = s.block /\ s.col \in 0 .. g.nTiles
  /\ s.par * g.nTiles + s.col = t
  /\ s.lock = IF Part2Tiles(g) >= g.grid THEN b ELSE t - Part1Tiles(g) - 1

\* init_slice() in part 2.
InitStripe(g, b, s) == [InitPart2Slice(g, b, s) EXCEPT !.firstInit = FALSE]

\* CTA b's slice is its part of tile t.
Holds(g, b, t, r) ==
  /\ r.inPart2 /\ TileIx(g, r) = t
  /\ InHand(g, b, r)
  /\ r.iters > 0 /\ r.row + r.iters = To(g, b, t)

\* init_part2_slice on a column the stripe reaches.
LEMMA CutSlice ==
  ASSUME NEW g \in Geometry, NEW t \in Tile(g), t >= Part1Tiles(g),
         NEW b \in Nat, Takes(g, b, t), NEW s, AtPart(g, b, t, s)
  PROVE  Holds(g, b, t, InitStripe(g, b, s))
<1> DEFINE r == InitStripe(g, b, s)
           n == SliceIters(g, b, s)
           count == SliceCount(g, s.colPar)
           idx == SliceIdx(g, b, s.colPar)
           lock == NextLock(g, s, count, idx)
           u == [s EXCEPT !.iters = n, !.count = count, !.idx = idx,
                          !.lock = lock]
           p == s.par + 1
           w == [u EXCEPT !.col = 0, !.par = @ + 1]
<1>0. /\ s \in SliceState /\ s.inPart2 /\ s.part1 = 0
      /\ s.colPar = t - Part1Tiles(g) /\ s.row = From(g, b, t)
      /\ s.par = s.block /\ s.col \in 0 .. g.nTiles
      /\ s.par * g.nTiles + s.col = t
      /\ s.lock = IF Part2Tiles(g) >= g.grid THEN b ELSE t - Part1Tiles(g) - 1
  BY DEF AtPart
<1>1. /\ g.nTiles \in Nat \ {0} /\ t \in Nat /\ Part1Tiles(g) \in Nat
      /\ g.parallel \in Nat
  BY GeometryTypes, PartitionTypes DEF Tile
<1>2. /\ Low(g, t) \in Nat /\ High(g, t) \in Nat
      /\ Low(g, t) <= b /\ b <= High(g, t)
      /\ From(g, b, t) \in Nat /\ To(g, b, t) \in Nat
      /\ From(g, b, t) < To(g, b, t)
  BY Parts DEF Takes
<1>3. n = To(g, b, t) - From(g, b, t)  BY <1>0, SliceLength
<1>4. n \in Nat /\ n > 0  BY <1>2, <1>3
<1>5. count = High(g, t) - Low(g, t) + 1 /\ idx = High(g, t) - b
  BY <1>0, SliceNumbers
<1>6. count \in Nat /\ idx \in Int
  <2> HIDE DEF count, idx
  <2>1. QED  BY <1>2, <1>5
<1>7. lock = WalkLock(g, b, t)
  <2> HIDE DEF count, idx
  <2>1. CASE Part2Tiles(g) >= g.grid
    <3>1. High(g, t) <= Low(g, t) + 1  BY <2>1, TwoAtMost
    <3>2. count > 1 /\ idx = count - 1 <=> b < High(g, t)
      BY <1>2, <1>5, <3>1
    <3>3. QED  BY <1>0, <2>1, <3>2 DEF NextLock, WalkLock
  <2>2. CASE ~(Part2Tiles(g) >= g.grid)
    <3>1. lock = (t - Part1Tiles(g) - 1) + 1  BY <1>0, <2>2 DEF NextLock
    <3>2. QED  BY <1>1, <2>2, <3>1 DEF WalkLock
  <2>3. QED  BY <2>1, <2>2
<1>8. lock \in Int
  <2>1. WalkLock(g, b, t) \in Int  BY <1>1 DEF WalkLock
  <2>2. QED  BY <1>7, <2>1
<1>9. InitPart2Slice(g, b, s) = WrapColumn(g, u)
  BY <1>4 DEF InitPart2Slice
<1> HIDE DEF n, count, idx, lock
<1>10. /\ u \in SliceState /\ u.inPart2 /\ u.part1 = 0
       /\ u.colPar = t - Part1Tiles(g) /\ u.row = From(g, b, t)
       /\ u.par = s.par /\ u.block = s.par /\ u.col = s.col
       /\ u.iters = n /\ u.count = count /\ u.idx = idx /\ u.lock = lock
  BY <1>0, <1>4, <1>6, <1>8 DEF SliceState
<1> HIDE DEF u
<1>11. s.par \in Nat /\ s.col \in Nat  BY <1>0 DEF SliceState
<1>12. PICK v : /\ v = WrapColumn(g, u)
                /\ v \in SliceState /\ v.inPart2 /\ v.part1 = 0
                /\ v.colPar = t - Part1Tiles(g) /\ v.row = From(g, b, t)
                /\ v.par = v.block /\ <<v.block, v.col>> = TileAt(g, t)
                /\ v.iters = n /\ v.count = count /\ v.idx = idx
                /\ v.lock = lock
  <2>1. CASE s.col # g.nTiles
    <3>1. WrapColumn(g, u) = u  BY <1>10, <2>1 DEF WrapColumn
    <3>2. s.col \in 0 .. g.nTiles - 1
      <4>1. s.col <= g.nTiles /\ s.col >= 0  BY <1>0, <1>1
      <4>2. QED  BY <1>1, <1>11, <2>1, <4>1
    <3>3. TileAt(g, t) = <<s.par, s.col>>  BY <1>0, <1>11, <3>2, PlaceIsTile
    <3>4. QED  BY <1>10, <3>1, <3>3
  <2>2. CASE s.col = g.nTiles
    <3>1. p \in Nat /\ p * g.nTiles + 0 = t
      <4>1. p * g.nTiles = s.par * g.nTiles + g.nTiles  BY <1>1, <1>11
      <4>2. QED  BY <1>0, <1>1, <1>11, <2>2, <4>1
    <3>2. 0 \in 0 .. g.nTiles - 1  BY <1>1
    <3>3. TileAt(g, t) = <<p, 0>> /\ p < g.parallel
      <4> HIDE DEF p
      <4>1. QED  BY <3>1, <3>2, PlaceIsTile
    <3>4. WrapColumn(g, u) = LoadBlock(g, w)
      BY <1>10, <2>2 DEF WrapColumn
    <3>5. /\ w = [u EXCEPT !.col = 0, !.par = p]
      BY <1>10
    <3> HIDE DEF p
    <3>6. /\ w \in SliceState /\ w.inPart2 /\ w.part1 = 0
          /\ w.colPar = t - Part1Tiles(g) /\ w.row = From(g, b, t)
          /\ w.par = p /\ w.col = 0
          /\ w.iters = n /\ w.count = count /\ w.idx = idx /\ w.lock = lock
      BY <1>10, <3>1, <3>5 DEF SliceState
    <3> HIDE DEF w
    <3> DEFINE z == [w EXCEPT !.block = p]
    <3>7. WrapColumn(g, u) = z
      <4>1. ~(p >= g.parallel)  BY <1>1, <3>1, <3>3
      <4>2. QED  BY <3>4, <3>6, <4>1 DEF LoadBlock
    <3>8. /\ z \in SliceState /\ z.inPart2 /\ z.part1 = 0
          /\ z.colPar = t - Part1Tiles(g) /\ z.row = From(g, b, t)
          /\ z.par = z.block /\ <<z.block, z.col>> = TileAt(g, t)
          /\ z.iters = n /\ z.count = count /\ z.idx = idx /\ z.lock = lock
      BY <3>1, <3>3, <3>6 DEF SliceState
    <3>9. QED  BY <3>7, <3>8
  <2>3. QED  BY <2>1, <2>2
<1>13. r = [v EXCEPT !.firstInit = FALSE]
  BY <1>9, <1>12 DEF InitStripe
<1> HIDE DEF r
<1>14. /\ r \in SliceState /\ r.inPart2 /\ r.part1 = 0 /\ ~r.firstInit
       /\ r.colPar = t - Part1Tiles(g) /\ r.row = From(g, b, t)
       /\ r.par = r.block /\ <<r.block, r.col>> = TileAt(g, t)
       /\ r.iters = n /\ r.count = count /\ r.idx = idx /\ r.lock = lock
  BY <1>12, <1>13 DEF SliceState
<1>15. TileIx(g, r) = t
  BY <1>1, <1>14 DEF TileIx
<1>16. InHand(g, b, r)
  BY <1>5, <1>7, <1>14, <1>15 DEF InHand
<1>17. r.row + r.iters = To(g, b, t)
  BY <1>2, <1>3, <1>14
<1>18. QED  BY <1>4, <1>14, <1>15, <1>16, <1>17 DEF Holds, r

\* What init_slice() makes of a CTA that is ready for its next slice: it holds
\* the first tile of its own that is not behind it, or there is none.
Walks(g, b, s, r) ==
  /\ \/ r.iters > 0 /\ InHand(g, b, r)
        /\ r.row + r.iters = To(g, b, TileIx(g, r))
     \/ r.iters = 0 /\ Over(g, b, r)
  /\ \A t \in Tile(g) :
       Takes(g, b, t) => (t < TileIx(g, r) <=> t < Reach(g, s))
  /\ ZeroesTile(g, s, r) <=>
       /\ r.iters > 0 /\ g.atomicAdd
       /\ Shared(g, TileIx(g, r)) /\ b = High(g, TileIx(g, r))

\* The tiles of part 1 that CTA b takes are b, b + grid, b + 2 grid, ...
LEMMA Part1Tile ==
  ASSUME NEW g \in Geometry, NEW b \in 0 .. g.grid - 1
  PROVE  /\ \A t \in Tile(g) : t < Part1Tiles(g) /\ Takes(g, b, t) =>
              \E j \in Nat : j < Part1Iters(g) /\ t = b + g.grid * j
         /\ \A j \in Nat : j < Part1Iters(g) =>
              /\ b + g.grid * j \in Tile(g) /\ b + g.grid * j < Part1Tiles(g)
              /\ Low(g, b + g.grid * j) = b /\ High(g, b + g.grid * j) = b
<1>1. /\ g.grid \in Nat \ {0} /\ Part1Iters(g) \in Nat
      /\ Part1Tiles(g) \in Nat /\ Part2Tiles(g) \in Nat
      /\ GlobalTiles(g) \in Nat
      /\ Part1Tiles(g) = g.grid * Part1Iters(g)
      /\ Part1Tiles(g) + Part2Tiles(g) = GlobalTiles(g)
  BY GeometryTypes, PartitionTypes, Partition
<1>2. ASSUME NEW t \in Tile(g), t < Part1Tiles(g), Takes(g, b, t)
      PROVE  \E j \in Nat : j < Part1Iters(g) /\ t = b + g.grid * j
  <2> DEFINE j == t \div g.grid
  <2>1. t \in Nat /\ t % g.grid = b
    BY <1>1, <1>2, DivModNat DEF Tile, Takes, Low, High
  <2>2. j \in Nat /\ t = g.grid * j + b
    BY <1>1, <2>1, DivMod
  <2> HIDE DEF j
  <2>3. g.grid * j \in Nat /\ g.grid * j < g.grid * Part1Iters(g)
    BY <1>1, <1>2, <2>2
  <2>4. j < Part1Iters(g)  BY <1>1, <2>2, <2>3, MulMonotone
  <2>5. QED  BY <2>2, <2>3, <2>4
<1>3. ASSUME NEW j \in Nat, j < Part1Iters(g)
      PROVE  /\ b + g.grid * j \in Tile(g) /\ b + g.grid * j < Part1Tiles(g)
             /\ Low(g, b + g.grid * j) = b /\ High(g, b + g.grid * j) = b
  <2> DEFINE t == b + g.grid * j
  <2>1. /\ g.grid * (j + 1) <= g.grid * Part1Iters(g)
        /\ g.grid * (j + 1) = g.grid * j + g.grid
        /\ g.grid * j \in Nat /\ g.grid * Part1Iters(g) \in Nat
    BY <1>1, <1>3, MulMonotone
  <2>2. t \in Nat /\ t < Part1Tiles(g) /\ t < GlobalTiles(g)
    BY <1>1, <2>1
  <2>3. t = g.grid * j + b  BY <1>1, <2>1
  <2>4. t % g.grid = b
    <3>1. (g.grid * j + b) % g.grid = b  BY <1>1, DivIs
    <3>2. QED  BY <2>3, <3>1
  <2> HIDE DEF t
  <2>5. t \in Tile(g) /\ Low(g, t) = b /\ High(g, t) = b
    BY <1>1, <2>2, <2>4 DEF Tile, Low, High
  <2>6. QED  BY <2>2, <2>5 DEF t
<1>4. QED  BY <1>2, <1>3

\* init_part1_slice: a whole tile.
LEMMA Part1Walk ==
  ASSUME NEW g \in Geometry, NEW b \in 0 .. g.grid - 1,
         NEW s, Ready(g, b, s), ~s.inPart2, s.part1 > 0
  PROVE  Walks(g, b, s, InitSlice(g, b, s))
<1> DEFINE r == InitSlice(g, b, s)
           t == s.colPar
           j == Part1Iters(g) - s.part1
           p == s.part1 - 1
           x == t \div g.nTiles
           y == t % g.nTiles
           u == [s EXCEPT !.part1 = p, !.par = x, !.col = y, !.iters = g.kTiles]
           w == [u EXCEPT !.block = x]
<1>1. /\ g.grid \in Nat \ {0} /\ g.kTiles \in Nat \ {0} /\ g.parallel \in Nat
      /\ Part1Iters(g) \in Nat /\ s \in SliceState /\ s.part1 \in Nat
      /\ s.part1 <= Part1Iters(g)
  BY GeometryTypes, PartitionTypes DEF Ready, SliceState
<1>2. j \in Nat /\ j < Part1Iters(g) /\ t = b + g.grid * j
  BY <1>1 DEF Ready
<1>3. /\ t \in Tile(g) /\ t < Part1Tiles(g) /\ Low(g, t) = b /\ High(g, t) = b
  BY <1>2, Part1Tile
<1>4. Takes(g, b, t) /\ From(g, b, t) = 0 /\ To(g, b, t) = g.kTiles
  BY <1>3 DEF Takes, From, To
<1>5. p \in Nat /\ p < Part1Iters(g) /\ t = b + g.grid * (Part1Iters(g) - p - 1)
  <2>1. Part1Iters(g) - p - 1 = j  BY <1>1
  <2>2. QED  BY <1>1, <1>2, <2>1
<1>6. x \in Nat /\ x < g.parallel /\ y \in Nat
  BY <1>1, <1>3, TilePlace, GeometryTypes
<1>7. r = LoadBlock(g, u)
  BY DEF InitSlice, InitPart1Slice
<1> HIDE DEF p, x, y
<1>8. /\ u \in SliceState /\ ~u.inPart2 /\ u.firstInit
      /\ u.lock = FirstLock(g, b) /\ u.part1 = p /\ u.colPar = t /\ u.row = 0
      /\ u.count = 1 /\ u.idx = 0 /\ u.iters = g.kTiles
      /\ u.par = x /\ u.col = y
  BY <1>1, <1>5, <1>6 DEF SliceState, Ready
<1> HIDE DEF u
<1>9. r = w
  BY <1>1, <1>6, <1>7, <1>8 DEF LoadBlock
<1>10. /\ w \in SliceState /\ ~w.inPart2 /\ w.firstInit
       /\ w.lock = FirstLock(g, b) /\ w.part1 = p /\ w.colPar = t /\ w.row = 0
       /\ w.count = 1 /\ w.idx = 0 /\ w.iters = g.kTiles
       /\ w.par = x /\ w.block = x /\ w.col = y
  BY <1>6, <1>8 DEF SliceState
<1> HIDE DEF w
<1>11. TileIx(g, w) = t  BY <1>10 DEF TileIx
<1>12. <<w.block, w.col>> = TileAt(g, t)
  BY <1>10 DEF TileAt, x, y
<1>13. w.count = High(g, t) - Low(g, t) + 1 /\ w.idx = High(g, t) - b
  BY <1>3, <1>10
<1>14. InHand(g, b, w)
  BY <1>3, <1>4, <1>5, <1>10, <1>11, <1>12, <1>13 DEF InHand
<1>15. w.iters > 0 /\ w.row + w.iters = To(g, b, TileIx(g, w))
  BY <1>1, <1>4, <1>10, <1>11
<1>16. Reach(g, s) = TileIx(g, w)
  BY <1>11 DEF Reach
<1>17. ~ZeroesTile(g, s, w) /\ ~Shared(g, TileIx(g, w))
  BY <1>1, <1>3, <1>10, <1>11, <1>15 DEF ZeroesTile, Shared
<1>18. QED
  BY <1>9, <1>14, <1>15, <1>16, <1>17 DEF Walks

\* The first column of a CTA's stripe of part 2.
LEMMA EnterWalk ==
  ASSUME NEW g \in Geometry, NEW b \in 0 .. g.grid - 1,
         NEW s, Ready(g, b, s), ~s.inPart2, s.part1 = 0
  PROVE  Walks(g, b, s, InitSlice(g, b, s))
<1> DEFINE r == InitSlice(g, b, s)
           k == g.kTiles
           n == Iters(g)
           start == n * b
           c == start \div k
           row == start % k
           t == c + Part1Tiles(g)
           x == t \div g.nTiles
           y == t % g.nTiles
           u == [s EXCEPT !.inPart2 = TRUE, !.colPar = c, !.row = row,
                          !.col = y, !.par = x]
           e == EnterPart2(g, b, s)
<1>1. /\ g.grid \in Nat \ {0} /\ k \in Nat \ {0} /\ g.parallel \in Nat
      /\ g.nTiles \in Nat \ {0} /\ GlobalTiles(g) \in Nat
      /\ Part1Tiles(g) \in Nat /\ Part2Tiles(g) \in Nat
      /\ Part1Tiles(g) + Part2Tiles(g) = GlobalTiles(g)
      /\ b \in Nat /\ s \in SliceState
  BY GeometryTypes, PartitionTypes, Partition DEF Ready
<1>2. n \in Nat
  <2>1. CASE GlobalTiles(g) > 0  BY <2>1, StripeLength
  <2>2. CASE ~(GlobalTiles(g) > 0)
    <3>1. Part2Tiles(g) = 0 /\ GroupedIters(g) \in Nat
      BY <1>1, <2>2, PartitionTypes
    <3>2. DivCeil(GroupedIters(g), k) \in Nat
      BY <1>1, <3>1, CeilBounds
    <3>3. QED  BY <1>1, <3>1, <3>2 DEF Iters, RoundUp
  <2>3. QED  BY <2>1, <2>2
<1>3. start \in Nat  BY <1>1, <1>2
<1>4. c \in Nat /\ row \in Nat /\ row \in 0 .. k - 1 /\ start = k * c + row
  <2> HIDE DEF start, k
  <2>1. c \in Nat /\ row \in 0 .. k - 1 /\ start = k * c + row
    BY <1>1, <1>3, DivMod
  <2> HIDE DEF c, row
  <2>2. QED  BY <1>1, <2>1
<1>5. t \in Nat /\ x \in Nat /\ y \in Nat /\ y \in 0 .. g.nTiles - 1
      /\ t = g.nTiles * x + y
  <2>1. t \in Nat  BY <1>1, <1>4
  <2> HIDE DEF t
  <2>2. x \in Nat /\ y \in 0 .. g.nTiles - 1 /\ t = g.nTiles * x + y
    BY <1>1, <2>1, DivMod
  <2> HIDE DEF x, y
  <2>3. QED  BY <1>1, <2>1, <2>2
<1>6. e = LoadBlock(g, u)
  BY DEF EnterPart2
<1>7. r = InitStripe(g, b, e)
  BY <1>1 DEF InitSlice, InitStripe
<1>8. s.lock = FirstLock(g, b) /\ s.firstInit /\ s.part1 = 0
  BY DEF Ready
<1>9. FirstLock(g, b) = IF Part2Tiles(g) >= g.grid THEN b ELSE c - 1
  BY DEF FirstLock
<1> HIDE DEF x, y, row, c, t, e, r
<1>10. /\ u \in SliceState /\ u.inPart2 /\ u.part1 = 0 /\ u.firstInit
       /\ u.colPar = c /\ u.row = row /\ u.col = y /\ u.par = x
       /\ u.lock = s.lock
  BY <1>1, <1>4, <1>5, <1>8 DEF SliceState
<1> HIDE DEF u
<1>11. /\ e \in SliceState /\ e.inPart2 /\ e.part1 = 0 /\ e.firstInit
       /\ e.colPar = c /\ e.row = row /\ e.col = y /\ e.par = x
       /\ e.lock = s.lock
       /\ x < g.parallel => e.block = x
  <2>1. CASE x >= g.parallel
    BY <1>1, <1>5, <1>6, <1>10, <2>1 DEF LoadBlock
  <2>2. CASE ~(x >= g.parallel)
    <3>1. e = [u EXCEPT !.block = x]  BY <1>6, <1>10, <2>2 DEF LoadBlock
    <3>2. QED  BY <1>5, <1>10, <3>1 DEF SliceState
  <2>3. QED  BY <2>1, <2>2
<1>12. Reach(g, s) = Part1Tiles(g)
  BY DEF Reach
<1>13. \A v \in Tile(g) :
         Takes(g, b, v) => (v < t <=> v < Part1Tiles(g))
  <2> SUFFICES ASSUME NEW v \in Tile(g), Takes(g, b, v), v < t
               PROVE  v < Part1Tiles(g)
    BY <1>1, <1>4, <1>5 DEF t, Tile
  <2>1. v \in Nat  BY DEF Tile
  <2>2. SUFFICES ASSUME v >= Part1Tiles(g) PROVE FALSE
    BY <1>1, <2>1
  <2> DEFINE d == v - Part1Tiles(g)
  <2>3. d \in Nat /\ d + 1 <= c
    BY <1>1, <1>4, <2>1, <2>2 DEF t
  <2>4. Begin(g, v) = k * d  BY DEF Begin
  <2> HIDE DEF d
  <2>5. k * (d + 1) <= k * c /\ k * (d + 1) = k * d + k
        /\ k * d \in Nat /\ k * c \in Nat
    BY <1>1, <1>4, <2>3, MulMonotone
  <2>6. Begin(g, v) + k <= start
    <3> HIDE DEF start, k
    <3>1. QED  BY <1>1, <1>3, <1>4, <2>4, <2>5
  <2>7. b <= High(g, v) <=> start < Begin(g, v) + k
    BY <1>1, <2>2, Part2Cuts
  <2>8. Begin(g, v) \in Nat  BY <2>2, Part2Cuts
  <2>9. QED
    <3> HIDE DEF start, k
    <3>1. QED  BY <1>1, <1>3, <2>6, <2>7, <2>8 DEF Takes
<1>14. CASE c >= Part2Tiles(g)
  <2>1. SliceIters(g, b, e) = 0
    BY <1>11, <1>14 DEF SliceIters
  <2>2. InitPart2Slice(g, b, e) = [e EXCEPT !.iters = 0]
    BY <2>1 DEF InitPart2Slice
  <2>3. r = [[e EXCEPT !.iters = 0] EXCEPT !.firstInit = FALSE]
    BY <1>7, <2>2 DEF InitStripe
  <2>4. /\ r \in SliceState /\ r.inPart2 /\ r.iters = 0 /\ r.colPar = c
    BY <1>11, <2>3 DEF SliceState
  <2>5. TileIx(g, r) = t  BY <2>4 DEF TileIx, t
  <2>6. \A v \in Tile(g) : v < t
    BY <1>1, <1>4, <1>14 DEF t, Tile
  <2>7. Over(g, b, r)  BY <2>4, <2>5, <2>6 DEF Over
  <2>8. ~ZeroesTile(g, s, r) /\ ~(r.iters > 0)
    BY <2>4 DEF ZeroesTile
  <2>9. QED
    BY <1>12, <1>13, <2>4, <2>5, <2>7, <2>8 DEF Walks, r
<1>15. CASE ~(c >= Part2Tiles(g))
  <2>1. t \in Tile(g) /\ t >= Part1Tiles(g) /\ t - Part1Tiles(g) = c
    BY <1>1, <1>4, <1>15 DEF t, Tile
  <2>2. Begin(g, t) = k * c  BY <2>1 DEF Begin
  <2>3. Low(g, t) \in Nat /\ High(g, t) \in Nat  BY Parts, <2>1
  <2>4. n # 0
    <3>1. GlobalTiles(g) > 0  BY <1>1, <1>4, <1>15
    <3>2. QED  BY <3>1, StripeLength
  <2>5. /\ b <= Low(g, t) <=> start <= Begin(g, t)
        /\ b <= High(g, t) <=> start < Begin(g, t) + k
        /\ b + 1 <= Low(g, t) <=> n * (b + 1) <= Begin(g, t)
        /\ n * (b + 1) = start + n
    <3>1. b + 1 \in Nat  BY <1>1
    <3>2. QED  BY <1>1, <2>1, <3>1, Part2Cuts
  <2>6. Begin(g, t) \in Nat  BY <2>1, Part2Cuts
  <2>7. Takes(g, b, t) /\ row = From(g, b, t)
    <3>1. From(g, b, t) = IF b = Low(g, t) THEN 0 ELSE start - Begin(g, t)
      BY DEF From
    <3> HIDE DEF start, k, n
    <3>2. start = Begin(g, t) + row  BY <1>4, <2>2
    <3>3. b <= High(g, t)  BY <1>1, <1>4, <2>5, <2>6, <3>2
    <3>4. ~(b + 1 <= Low(g, t))
      BY <1>2, <1>3, <1>4, <2>4, <2>5, <2>6, <3>2
    <3>5. Low(g, t) <= b  BY <1>1, <2>3, <3>4
    <3>6. b = Low(g, t) => row = 0
      BY <1>3, <1>4, <2>3, <2>5, <2>6, <3>2
    <3>7. QED  BY <1>4, <2>6, <3>1, <3>2, <3>3, <3>5, <3>6 DEF Takes
  <2>8. x < g.parallel
    <3>1. x = t \div g.nTiles  BY DEF x
    <3>2. t \div g.nTiles \in 0 .. g.parallel - 1  BY <2>1, TilePlace
    <3>3. QED  BY <1>1, <3>1, <3>2
  <2>9. e.par = e.block /\ e.par * g.nTiles + e.col = t /\ e.col \in 0 .. g.nTiles
    BY <1>1, <1>5, <1>11, <2>8
  <2>10. e.lock = IF Part2Tiles(g) >= g.grid THEN b ELSE t - Part1Tiles(g) - 1
    BY <1>8, <1>9, <1>11, <2>1
  <2>11. /\ r.inPart2 /\ TileIx(g, r) = t
         /\ InHand(g, b, r)
         /\ r.iters > 0 /\ r.row + r.iters = To(g, b, t)
    <3>1. AtPart(g, b, t, e)
      BY <1>11, <2>1, <2>7, <2>9, <2>10 DEF AtPart
    <3>2. Holds(g, b, t, r)
      BY <1>1, <1>7, <2>1, <2>7, <3>1, CutSlice
    <3>3. QED  BY <3>2 DEF Holds
  <2>12. (r.count > 1 <=> Shared(g, t)) /\ (r.idx = 0 <=> b = High(g, t))
    <3>1. r.count = High(g, t) - Low(g, t) + 1 /\ r.idx = High(g, t) - b
      BY <2>11 DEF InHand
    <3>2. QED  BY <1>1, <2>3, <3>1 DEF Shared
  <2>13. ZeroesTile(g, s, r) <=>
           g.atomicAdd /\ Shared(g, t) /\ b = High(g, t)
    BY <1>8, <2>11, <2>12 DEF ZeroesTile
  <2>14. QED
    BY <1>12, <1>13, <2>11, <2>13 DEF Walks, r
<1>16. QED  BY <1>14, <1>15

\* The next column of a CTA's stripe of part 2.
LEMMA StripeWalk ==
  ASSUME NEW g \in Geometry, NEW b \in 0 .. g.grid - 1,
         NEW s, Ready(g, b, s), s.inPart2
  PROVE  Walks(g, b, s, InitSlice(g, b, s))
<1> DEFINE r == InitSlice(g, b, s)
           t == TileIx(g, s)
           a == t - 1
<1>1. /\ g.grid \in Nat \ {0} /\ g.nTiles \in Nat \ {0}
      /\ GlobalTiles(g) \in Nat
      /\ Part1Tiles(g) \in Nat /\ Part2Tiles(g) \in Nat
      /\ Part1Tiles(g) + Part2Tiles(g) = GlobalTiles(g)
      /\ b \in Nat /\ s \in SliceState /\ s.colPar \in Nat
  BY GeometryTypes, PartitionTypes, Partition DEF Ready, SliceState
<1>2. t = s.colPar + Part1Tiles(g)
  BY DEF TileIx
<1>3. /\ a \in Tile(g) /\ s.colPar > 0 /\ Takes(g, b, a) /\ s.row = 0
      /\ ~s.firstInit /\ s.part1 = 0 /\ s.lock = WalkLock(g, b, a)
      /\ s.par = s.block /\ s.col \in 1 .. g.nTiles
      /\ s.par * g.nTiles + s.col = t
  BY DEF Ready
<1>4. r = InitStripe(g, b, s)
  BY DEF InitSlice, InitStripe
<1>5. Reach(g, s) = t
  BY DEF Reach
<1>6. t \in Nat /\ a \in Nat /\ a >= Part1Tiles(g) /\ a < t /\ a + 1 = t
      /\ t - Part1Tiles(g) = s.colPar
  BY <1>1, <1>2, <1>3
<1> HIDE DEF r, t, a
<1>7. Low(g, a) \in Nat /\ High(g, a) \in Nat /\ Low(g, a) <= b
      /\ b <= High(g, a)
  BY <1>3, Parts DEF Takes
<1>8. ASSUME SliceIters(g, b, s) = 0,
             \A v \in Tile(g) : Takes(g, b, v) => v < t
      PROVE  Walks(g, b, s, r)
  <2>1. InitPart2Slice(g, b, s) = [s EXCEPT !.iters = 0]
    BY <1>8 DEF InitPart2Slice
  <2>2. r = [[s EXCEPT !.iters = 0] EXCEPT !.firstInit = FALSE]
    BY <1>4, <2>1 DEF InitStripe
  <2>3. r \in SliceState /\ r.inPart2 /\ r.iters = 0 /\ r.colPar = s.colPar
    BY <1>1, <2>2 DEF SliceState
  <2>4. TileIx(g, r) = t  BY <1>2, <2>3 DEF TileIx
  <2>5. Over(g, b, r)  BY <1>8, <2>3, <2>4 DEF Over
  <2>6. ~ZeroesTile(g, s, r) /\ ~(r.iters > 0)
    BY <2>3 DEF ZeroesTile
  <2>7. QED  BY <1>5, <2>3, <2>4, <2>5, <2>6 DEF Walks
<1>9. CASE s.colPar >= Part2Tiles(g)
  <2>1. SliceIters(g, b, s) = 0  BY <1>9 DEF SliceIters
  <2>2. \A v \in Tile(g) : v < t
    BY <1>1, <1>2, <1>9 DEF Tile
  <2>3. QED  BY <1>8, <2>1, <2>2 DEF r
<1>10. CASE ~(s.colPar >= Part2Tiles(g))
  <2>1. t \in Tile(g) /\ t >= Part1Tiles(g)
    BY <1>1, <1>2, <1>10 DEF Tile
  <2>2. Low(g, t) \in Nat /\ High(g, t) \in Nat /\ Low(g, t) <= High(g, t)
    BY <2>1, Parts
  <2>3. High(g, a) <= Low(g, t)
    BY <1>3, <1>6, <2>1, Ordered
  <2>4. CASE b < Low(g, t)
    <3>1. SliceIters(g, b, s) = 0
      BY <1>1, <1>3, <1>6, <2>1, <2>4, SliceEnds
    <3>2. ASSUME NEW v \in Tile(g), Takes(g, b, v) PROVE v < t
      <4>1. v \in Nat /\ Low(g, v) \in Nat /\ High(g, v) \in Nat
        BY Parts DEF Tile
      <4>2. v # t  BY <1>1, <2>2, <2>4, <3>2 DEF Takes
      <4>3. ASSUME t < v PROVE FALSE
        <5>1. High(g, t) <= Low(g, v)  BY <2>1, <4>3, Ordered
        <5>2. QED  BY <1>1, <2>2, <2>4, <3>2, <4>1, <5>1 DEF Takes
      <4>4. QED  BY <1>6, <4>1, <4>2, <4>3
    <3>3. QED  BY <1>8, <3>1, <3>2 DEF r
  <2>5. CASE ~(b < Low(g, t))
    <3>1. b = Low(g, t) /\ b = High(g, a)
      BY <1>1, <1>7, <2>2, <2>3, <2>5
    <3>2. Takes(g, b, t) /\ From(g, b, t) = 0
      BY <2>2, <3>1 DEF Takes, From
    <3>3. s.lock = IF Part2Tiles(g) >= g.grid THEN b
                   ELSE t - Part1Tiles(g) - 1
      <4>1. CASE Part2Tiles(g) >= g.grid
        BY <1>3, <1>7, <3>1, <4>1 DEF WalkLock
      <4>2. CASE ~(Part2Tiles(g) >= g.grid)
        BY <1>1, <1>3, <1>6, <4>2 DEF WalkLock
      <4>3. QED  BY <4>1, <4>2
    <3>4. s.col \in 0 .. g.nTiles  BY <1>1, <1>3
    <3>5. /\ r.inPart2 /\ TileIx(g, r) = t
          /\ InHand(g, b, r)
          /\ r.iters > 0 /\ r.row + r.iters = To(g, b, t)
      <4>1. AtPart(g, b, t, s)
        BY <1>1, <1>3, <1>6, <3>2, <3>3, <3>4 DEF AtPart
      <4>2. Holds(g, b, t, r)
        BY <1>1, <1>4, <2>1, <3>2, <4>1, CutSlice
      <4>3. QED  BY <4>2 DEF Holds
    <3>6. ~(Shared(g, t) /\ b = High(g, t))
      BY <2>2, <3>1 DEF Shared
    <3>7. ~ZeroesTile(g, s, r)
      BY <1>3 DEF ZeroesTile
    <3>8. QED  BY <1>5, <3>5, <3>6, <3>7 DEF Walks, r
  <2>6. QED  BY <2>4, <2>5
<1>11. QED  BY <1>9, <1>10

LEMMA InitSliceWalk ==
  ASSUME NEW g \in Geometry, NEW b \in 0 .. g.grid - 1, NEW s, Ready(g, b, s)
  PROVE  Walks(g, b, s, InitSlice(g, b, s))
<1>1. s.part1 \in Nat  BY DEF Ready, SliceState
<1>2. QED  BY <1>1, Part1Walk, EnterWalk, StripeWalk

\* The end of the loop's body leaves the CTA ready, with the tile it held and
\* those before it behind.
LEMMA StepWalk ==
  ASSUME NEW g \in Geometry, NEW b \in 0 .. g.grid - 1, NEW s, InHand(g, b, s)
  PROVE  /\ Ready(g, b, StepColumn(g, s))
         /\ \A t \in Tile(g) : Takes(g, b, t) =>
              (t < Reach(g, StepColumn(g, s)) <=> t <= TileIx(g, s))
<1> DEFINE r == StepColumn(g, s)
           u == TileIx(g, s)
<1>1. /\ g.grid \in Nat \ {0} /\ g.nTiles \in Nat \ {0}
      /\ GlobalTiles(g) \in Nat
      /\ Part1Tiles(g) \in Nat /\ Part2Tiles(g) \in Nat
      /\ Part1Iters(g) \in Nat
      /\ Part1Tiles(g) + Part2Tiles(g) = GlobalTiles(g)
      /\ Part1Tiles(g) = g.grid * Part1Iters(g)
      /\ b \in Nat
  BY GeometryTypes, PartitionTypes, Partition
<1>2. /\ s \in SliceState /\ u \in Tile(g) /\ Takes(g, b, u)
      /\ s.par = s.block /\ <<s.block, s.col>> = TileAt(g, u)
  BY DEF InHand
<1>3. /\ s.colPar \in Nat /\ s.col \in Nat /\ s.par \in Nat /\ s.part1 \in Nat
  BY <1>2 DEF SliceState
<1>4. CASE s.inPart2
  <2> DEFINE c == s.colPar + 1
             y == s.col + 1
  <2>1. /\ ~s.firstInit /\ s.part1 = 0 /\ s.lock = WalkLock(g, b, u)
        /\ u = s.colPar + Part1Tiles(g)
    BY <1>4 DEF InHand, TileIx
  <2>2. r = [s EXCEPT !.row = 0, !.colPar = c, !.col = y]
    BY <1>4 DEF StepColumn
  <2>3. c \in Nat /\ y \in Nat  BY <1>3
  <2> HIDE DEF c, y, r
  <2>4. /\ r \in SliceState /\ r.row = 0 /\ r.inPart2
        /\ ~r.firstInit /\ r.part1 = 0 /\ r.lock = WalkLock(g, b, u)
        /\ r.colPar = c /\ r.col = y /\ r.par = s.par /\ r.block = s.block
    BY <1>2, <1>4, <2>1, <2>2, <2>3 DEF SliceState
  <2>5. TileIx(g, r) = u + 1 /\ u \in Nat
    BY <1>1, <1>3, <2>1, <2>4 DEF TileIx, c
  <2>6. (u + 1) - 1 = u  BY <2>5
  <2>7. s.par = u \div g.nTiles /\ s.col = u % g.nTiles
    BY <1>2 DEF TileAt
  <2>8. y \in 1 .. g.nTiles /\ s.par * g.nTiles + y = u + 1
    <3>1. s.col \in 0 .. g.nTiles - 1 /\ u = g.nTiles * s.par + s.col
      BY <1>2, <2>7, TilePlace
    <3>2. g.nTiles * s.par = s.par * g.nTiles /\ s.par * g.nTiles \in Nat
      BY <1>1, <1>3
    <3>3. QED  BY <1>1, <1>3, <3>1, <3>2 DEF y
  <2>9. c > 0  BY <1>3 DEF c
  <2>10. Ready(g, b, r)
    BY <1>2, <2>4, <2>5, <2>6, <2>8, <2>9 DEF Ready
  <2>11. Reach(g, r) = u + 1
    BY <2>4, <2>5 DEF Reach
  <2>12. QED  BY <2>5, <2>10, <2>11 DEF Tile, r
<1>5. CASE ~s.inPart2
  <2> DEFINE c == s.colPar + g.grid
             j == Part1Iters(g) - s.part1 - 1
  <2>1. /\ s.firstInit /\ s.lock = FirstLock(g, b)
        /\ s.colPar = b + g.grid * j /\ s.part1 < Part1Iters(g)
        /\ u = s.colPar
    BY <1>5 DEF InHand, TileIx
  <2>2. j \in Nat /\ j < Part1Iters(g)
    BY <1>1, <1>3, <2>1
  <2>3. /\ u \in Tile(g) /\ u < Part1Tiles(g)
        /\ Low(g, u) = b /\ High(g, u) = b
    <3> HIDE DEF j
    <3>1. QED  BY <2>1, <2>2, Part1Tile
  <2>4. s.count = 1 /\ s.idx = 0
    BY <1>1, <2>3 DEF InHand
  <2>5. r = [s EXCEPT !.row = 0, !.colPar = c]
    BY <1>5 DEF StepColumn
  <2>6. c \in Nat /\ c = b + g.grid * (Part1Iters(g) - s.part1)
    <3>1. Part1Iters(g) - s.part1 = j + 1  BY <1>1, <1>3
    <3>2. g.grid * (j + 1) = g.grid * j + g.grid /\ g.grid * j \in Nat
      <4> HIDE DEF j
      <4>1. QED  BY <1>1, <2>2
    <3>3. QED
      <4> HIDE DEF j
      <4>1. QED  BY <1>1, <1>3, <2>1, <3>1, <3>2
  <2> HIDE DEF c, r
  <2>7. /\ r \in SliceState /\ r.row = 0 /\ ~r.inPart2
        /\ r.firstInit /\ r.part1 = s.part1 /\ r.lock = FirstLock(g, b)
        /\ r.colPar = c /\ r.count = 1 /\ r.idx = 0
    BY <1>2, <1>5, <2>1, <2>4, <2>5, <2>6 DEF SliceState
  <2>8. Ready(g, b, r)
    BY <1>1, <1>3, <2>1, <2>6, <2>7 DEF Ready
  <2>9. Reach(g, r) = IF s.part1 > 0 THEN c ELSE Part1Tiles(g)
    BY <2>7 DEF Reach
  <2>10. ASSUME NEW t \in Tile(g), Takes(g, b, t)
         PROVE  t < Reach(g, r) <=> t <= u
    <3>1. t \in Nat /\ u \in Nat  BY <2>3 DEF Tile
    <3>2. c = u + g.grid  BY <2>1 DEF c
    <3>3. s.part1 > 0 => c < Part1Tiles(g)
      <4>1. ASSUME s.part1 > 0 PROVE c < Part1Tiles(g)
        <5> DEFINE i == Part1Iters(g) - s.part1
        <5>1. i \in Nat /\ i < Part1Iters(g)  BY <1>1, <1>3, <2>1, <4>1
        <5>2. c = b + g.grid * i  BY <2>6
        <5> HIDE DEF i
        <5>3. QED  BY <5>1, <5>2, Part1Tile
      <4>2. QED  BY <4>1
    <3>4. CASE t >= Part1Tiles(g)
      BY <1>1, <2>3, <2>6, <2>9, <3>1, <3>3, <3>4
    <3>5. CASE ~(t >= Part1Tiles(g))
      <4>1. PICK i \in Nat : i < Part1Iters(g) /\ t = b + g.grid * i
        BY <1>1, <2>10, <3>1, <3>5, Part1Tile
      <4>2. i <= j <=> g.grid * i <= g.grid * j
        BY <1>1, <2>2, MulMonotone
      <4>3. i < j + 1 <=> g.grid * i < g.grid * (j + 1)
        BY <1>1, <2>2, MulMonotone
      <4> HIDE DEF j
      <4>4. g.grid * (j + 1) = g.grid * j + g.grid /\ g.grid * j \in Nat
            /\ g.grid * i \in Nat
        BY <1>1, <2>2
      <4>5. t <= u <=> i <= j
        BY <1>1, <2>1, <4>1, <4>2, <4>4
      <4>6. t < c <=> i < j + 1
        BY <1>1, <2>1, <3>2, <4>1, <4>3, <4>4
      <4>7. i < j + 1 <=> i <= j  BY <2>2
      <4>8. CASE s.part1 > 0
        BY <2>9, <4>5, <4>6, <4>7, <4>8
      <4>9. CASE ~(s.part1 > 0)
        <5>1. j + 1 = Part1Iters(g)  BY <1>1, <1>3, <4>9 DEF j
        <5>2. i <= j  BY <2>2, <4>1, <5>1
        <5>3. t < Part1Tiles(g)  BY <1>1, <3>1, <3>5
        <5>4. QED  BY <2>9, <4>5, <4>9, <5>2, <5>3
      <4>10. QED  BY <4>8, <4>9
    <3>6. QED  BY <3>4, <3>5
  <2>11. QED  BY <2>8, <2>10 DEF r
<1>6. QED  BY <1>4, <1>5

\* The kernel's prologue: nothing is behind a CTA yet.
LEMMA PrologueReady ==
  ASSUME NEW g \in Geometry, NEW b \in 0 .. g.grid - 1
  PROVE  /\ Ready(g, b, Prologue(g, b))
         /\ \A t \in Tile(g) :
              Takes(g, b, t) => ~(t < Reach(g, Prologue(g, b)))
<1> DEFINE s == Prologue(g, b)
           x == (Iters(g) * b) \div g.kTiles - 1
           l == IF Part2Tiles(g) >= g.grid THEN b ELSE x
<1>1. /\ g.grid \in Nat \ {0} /\ g.kTiles \in Nat \ {0} /\ b \in Nat
      /\ Part1Tiles(g) \in Nat /\ Part1Iters(g) \in Nat
      /\ Part1Tiles(g) = g.grid * Part1Iters(g)
  BY GeometryTypes, PartitionTypes, Partition
<1>2. Iters(g) \in Nat
  <2>1. GroupedIters(g) \in Nat  BY PartitionTypes
  <2>2. DivCeil(GroupedIters(g), g.kTiles) \in Nat  BY <1>1, <2>1, CeilBounds
  <2>3. QED  BY <1>1, <2>1, <2>2 DEF Iters, RoundUp
<1>3. x \in Int
  <2>1. Iters(g) * b \in Nat  BY <1>1, <1>2
  <2>2. (Iters(g) * b) \div g.kTiles \in Nat  BY <1>1, <2>1, DivMod
  <2>3. QED  BY <2>2
<1>4. l \in Int /\ FirstLock(g, b) = l
  BY <1>1, <1>3 DEF FirstLock
<1>5. s = [inPart2 |-> FALSE, part1 |-> Part1Iters(g), colPar |-> b, row |-> 0,
           col |-> 0, par |-> 0, block |-> -1, iters |-> g.kTiles, count |-> 1,
           idx |-> 0, lock |-> l, firstInit |-> TRUE]
  BY DEF Prologue
<1> HIDE DEF l, x, s
<1>6. /\ s \in SliceState /\ ~s.inPart2 /\ s.part1 = Part1Iters(g)
      /\ s.colPar = b /\ s.row = 0 /\ s.count = 1 /\ s.idx = 0 /\ s.lock = l
      /\ s.firstInit
  BY <1>1, <1>4, <1>5 DEF SliceState
<1>7. Part1Iters(g) - Part1Iters(g) = 0 /\ b = b + g.grid * 0
  BY <1>1
<1>8. Ready(g, b, s)
  BY <1>1, <1>4, <1>6, <1>7 DEF Ready
<1>9. Reach(g, s) = IF Part1Iters(g) > 0 THEN b ELSE Part1Tiles(g)
  BY <1>6 DEF Reach
<1>10. ASSUME NEW t \in Tile(g), Takes(g, b, t), t < Reach(g, s)
       PROVE  FALSE
  <2>1. t \in Nat  BY DEF Tile
  <2>2. CASE Part1Iters(g) > 0
    <3>1. g.grid * 1 <= g.grid * Part1Iters(g)
      BY <1>1, <2>2, MulMonotone
    <3>2. t < b /\ t < Part1Tiles(g)
      BY <1>1, <1>9, <1>10, <2>1, <2>2, <3>1
    <3>3. PICK j \in Nat : t = b + g.grid * j
      BY <1>10, <3>2, Part1Tile
    <3>4. g.grid * j \in Nat  BY <1>1
    <3>5. QED  BY <1>1, <3>2, <3>3, <3>4
  <2>3. CASE ~(Part1Iters(g) > 0)
    <3>1. Part1Tiles(g) = 0  BY <1>1, <2>3
    <3>2. QED  BY <1>9, <1>10, <2>1, <2>3, <3>1
  <2>4. QED  BY <2>2, <2>3
<1>11. QED  BY <1>8, <1>10 DEF s

\* The places of C are the places of tiles.
LEMMA PlaceTotal ==
  ASSUME NEW g \in Geometry,
         NEW p \in 0 .. g.parallel - 1, NEW c \in 0 .. g.nTiles - 1
  PROVE  p * g.nTiles + c \in Tile(g) /\ TileAt(g, p * g.nTiles + c) = <<p, c>>
<1>1. g.nTiles \in Nat \ {0} /\ g.parallel \in Nat /\ p \in Nat /\ c \in Nat
  BY GeometryTypes
<1>2. /\ g.nTiles * (p + 1) <= g.nTiles * g.parallel
      /\ g.nTiles * (p + 1) = g.nTiles * p + g.nTiles
      /\ g.nTiles * p = p * g.nTiles /\ p * g.nTiles \in Nat
      /\ g.nTiles * g.parallel = g.parallel * g.nTiles
      /\ g.parallel * g.nTiles \in Nat
  BY <1>1, MulMonotone
<1>3. p * g.nTiles + c \in Nat
      /\ p * g.nTiles + c < g.parallel * g.nTiles
  BY <1>1, <1>2
<1>4. p * g.nTiles + c \in Tile(g)
  BY <1>2, <1>3 DEF Tile, GlobalTiles
<1>5. QED  BY <1>1, <1>4, PlaceIsTile

LEMMA TileAtInjective ==
  ASSUME NEW g \in Geometry, NEW t \in Tile(g), NEW u \in Tile(g),
         TileAt(g, t) = TileAt(g, u)
  PROVE  t = u
<1>1. t \div g.nTiles = u \div g.nTiles /\ t % g.nTiles = u % g.nTiles
  BY DEF TileAt
<1>2. /\ t = g.nTiles * (t \div g.nTiles) + (t % g.nTiles)
      /\ u = g.nTiles * (u \div g.nTiles) + (u % g.nTiles)
  BY TilePlace
<1>3. QED  BY <1>1, <1>2

\* With whole_k every stripe is a number of whole columns: no tile is shared.
LEMMA WholeKUnshared ==
  ASSUME NEW g \in Geometry, g.wholeK, NEW t \in Tile(g)
  PROVE  ~Shared(g, t)
<1> SUFFICES ASSUME Shared(g, t) PROVE FALSE
  OBVIOUS
<1> DEFINE k == g.kTiles
           n == Iters(g)
           m == DivCeil(GroupedIters(g), k)
           c == t - Part1Tiles(g)
           h == High(g, t)
<1>1. t >= Part1Tiles(g)  BY LocksOfTiles
<1>2. k \in Nat \ {0} /\ m \in Nat /\ n = k * m
  <2>1. k \in Nat \ {0} /\ GroupedIters(g) \in Nat
    BY GeometryTypes, PartitionTypes
  <2>2. QED  BY <2>1, CeilBounds DEF Iters, RoundUp
<1>3. c \in Nat /\ h \in Nat /\ Low(g, t) \in Nat
  BY <1>1, PartitionTypes, Parts DEF Tile
<1>4. n * h < k * c + k /\ ~(n * h <= k * c)
  <2>1. h <= High(g, t) /\ ~(h <= Low(g, t))
    BY <1>3 DEF Shared
  <2>2. Begin(g, t) = k * c  BY DEF Begin
  <2>3. QED  BY <1>1, <1>3, <2>1, <2>2, Part2Cuts
<1> HIDE DEF k, n, m, c, h
<1>5. n * h = k * (m * h) /\ m * h \in Nat /\ k * (c + 1) = k * c + k
  BY <1>2, <1>3
<1>6. m * h < c + 1 /\ ~(m * h <= c)
  BY <1>2, <1>3, <1>4, <1>5, MulMonotone
<1>7. QED  BY <1>3, <1>5, <1>6

\* With stripes rounded to quantisation groups, columns and stripes are a number
\* of groups long.
LEMMA GroupedStripes ==
  ASSUME NEW g \in Geometry, g.groupTiles > 0, g.kTiles % g.groupTiles = 0
  PROVE  \E l, m \in Nat :
           g.kTiles = g.groupTiles * l /\ Iters(g) = g.groupTiles * m
<1> DEFINE q == g.groupTiles
           k == g.kTiles
           n == Iters(g)
           l == k \div q
           e == DivCeil(EvenIters(g), q)
           w == DivCeil(GroupedIters(g), k)
<1>1. q \in Nat \ {0} /\ k \in Nat \ {0}
  BY GeometryTypes
<1>2. l \in Nat /\ k = q * l
  <2>1. l \in Nat /\ k = q * l + (k % q)  BY <1>1, DivMod
  <2>2. QED
    <3> HIDE DEF l
    <3>1. QED  BY <1>1, <2>1
<1>3. e \in Nat /\ GroupedIters(g) = q * e
  BY <1>1, PartitionTypes, CeilBounds DEF GroupedIters, RoundUp
<1>4. w \in Nat /\ (g.wholeK => n = k * w) /\ (~g.wholeK => n = q * e)
  <2>1. GroupedIters(g) \in Nat  BY PartitionTypes
  <2>2. w \in Nat  BY <1>1, <2>1, CeilBounds
  <2>3. QED  BY <1>3, <2>2 DEF Iters, RoundUp
<1> HIDE DEF l, e, w
<1>5. \E m \in Nat : n = q * m
  <2>1. CASE g.wholeK
    <3>1. l * w \in Nat /\ n = q * (l * w)
      <4> HIDE DEF q, k, n
      <4>1. (q * l) * w = q * (l * w) /\ l * w \in Nat  BY <1>1, <1>2, <1>4
      <4>2. QED  BY <1>2, <1>4, <2>1, <4>1
    <3>2. QED  BY <3>1
  <2>2. CASE ~g.wholeK  BY <1>3, <1>4, <2>2
  <2>3. QED  BY <2>1, <2>2
<1>6. QED  BY <1>2, <1>5

\* With stripes rounded to quantisation groups every part starts at a group.
LEMMA GroupedParts ==
  ASSUME NEW g \in Geometry, g.groupTiles > 0, g.kTiles % g.groupTiles = 0,
         NEW t \in Tile(g), NEW b \in Nat, Takes(g, b, t)
  PROVE  From(g, b, t) % g.groupTiles = 0
<1> DEFINE q == g.groupTiles
           k == g.kTiles
           n == Iters(g)
           c == t - Part1Tiles(g)
<1>1. q \in Nat \ {0} /\ k \in Nat \ {0}
  BY GeometryTypes
<1>2. PICK l \in Nat, m \in Nat : k = q * l /\ n = q * m
  BY GroupedStripes
<1>3. CASE b = Low(g, t)
  <2>1. From(g, b, t) = 0  BY <1>3 DEF From
  <2>2. 0 = q * 0  BY <1>1
  <2>3. (q * 0) % q = 0  BY <1>1, DivMul
  <2>4. QED  BY <2>1, <2>2, <2>3
<1>4. CASE b # Low(g, t)
  <2>1. t >= Part1Tiles(g)
    <3>1. t < Part1Tiles(g) => High(g, t) = Low(g, t) /\ High(g, t) \in Nat
      BY Part1Low
    <3>2. t \in Nat /\ Part1Tiles(g) \in Nat  BY PartitionTypes DEF Tile
    <3>3. QED  BY <1>4, <3>1, <3>2 DEF Takes
  <2>2. c \in Nat  BY <2>1, PartitionTypes DEF Tile
  <2>3. From(g, b, t) = n * b - k * c /\ From(g, b, t) \in Nat
    BY <1>4, Parts DEF From, Begin
  <2> HIDE DEF c
  <2>4. n * b = q * (m * b) /\ k * c = q * (l * c)
        /\ m * b \in Nat /\ l * c \in Nat
    <3> HIDE DEF q, k, n
    <3>1. (q * m) * b = q * (m * b) /\ (q * l) * c = q * (l * c)
          /\ m * b \in Nat /\ l * c \in Nat
      BY <1>1, <1>2, <2>2
    <3>2. QED  BY <1>2, <3>1
  <2> DEFINE i == m * b
             j == l * c
  <2> HIDE DEF i, j
  <2>5. i \in Nat /\ j \in Nat /\ From(g, b, t) = q * i - q * j
    BY <2>3, <2>4 DEF i, j
  <2>6. q * j <= q * i
    <3>1. q * i \in Nat /\ q * j \in Nat  BY <1>1, <2>5
    <3>2. QED  BY <2>3, <2>5, <3>1
  <2>7. j <= i  BY <1>1, <2>5, <2>6, MulMonotone
  <2>8. i - j \in Nat /\ From(g, b, t) = q * (i - j)
    <3>1. q * (i - j) = q * i - q * j  BY <1>1, <2>5
    <3>2. QED  BY <2>5, <2>7, <3>1
  <2>9. (q * (i - j)) % q = 0  BY <1>1, <2>8, DivMul
  <2>10. QED  BY <2>8, <2>9
<1>5. QED  BY <1>3, <1>4

\* init_slice moves the row only to where the CTA's stripe begins.
LEMMA GroupedRow ==
  ASSUME NEW g \in Geometry, g.groupTiles > 0, g.kTiles % g.groupTiles = 0,
         NEW b \in Nat, NEW s \in SliceState, s.row = 0
  PROVE  InitSlice(g, b, s).row % g.groupTiles = 0
<1> DEFINE q == g.groupTiles
           k == g.kTiles
           n == Iters(g)
           r == (n * b) % k
<1>1. q \in Nat \ {0} /\ k \in Nat \ {0}
  BY GeometryTypes
<1>2. PICK l \in Nat, m \in Nat : k = q * l /\ n = q * m
  BY GroupedStripes
<1>3. 0 % q = 0
  <2>1. 0 = q * 0  BY <1>1
  <2>2. (q * 0) % q = 0  BY <1>1, DivMul
  <2>3. QED  BY <2>1, <2>2
<1>4. r % q = 0
  <2> DEFINE d == (n * b) \div k
  <2> HIDE DEF q, k, n
  <2>1. n * b = q * (m * b) /\ m * b \in Nat /\ q * (m * b) \in Nat
    <3>1. (q * m) * b = q * (m * b) /\ m * b \in Nat /\ q * (m * b) \in Nat
      BY <1>1, <1>2
    <3>2. QED  BY <1>2, <3>1
  <2>2. d \in Nat /\ r \in Nat /\ n * b = k * d + r
    <3> DEFINE z == n * b
    <3>1. z \in Nat  BY <2>1
    <3> HIDE DEF z
    <3>2. z \div k \in Nat /\ z % k \in 0 .. k - 1
          /\ z = k * (z \div k) + (z % k)
      BY <1>1, <3>1, DivMod
    <3>3. QED  BY <3>2 DEF z
  <2> HIDE DEF d, r
  <2>3. k * d = q * (l * d) /\ l * d \in Nat
    <3>1. (q * l) * d = q * (l * d) /\ l * d \in Nat  BY <1>1, <1>2, <2>2
    <3>2. QED  BY <1>2, <3>1
  <2> DEFINE i == m * b
             j == l * d
  <2> HIDE DEF i, j
  <2>4. i \in Nat /\ j \in Nat /\ q * i = q * j + r
    BY <2>1, <2>2, <2>3 DEF i, j
  <2>5. q * j <= q * i
    <3>1. q * i \in Nat /\ q * j \in Nat  BY <1>1, <2>4
    <3>2. QED  BY <2>2, <2>4, <3>1
  <2>6. j <= i  BY <1>1, <2>4, <2>5, MulMonotone
  <2>7. i - j \in Nat /\ r = q * (i - j)
    <3>1. q * (i - j) = q * i - q * j /\ q * j \in Nat  BY <1>1, <2>4
    <3>2. QED  BY <2>2, <2>4, <2>6, <3>1
  <2>8. (q * (i - j)) % q = 0  BY <1>1, <2>7, DivMul
  <2>9. QED  BY <2>7, <2>8
<1> HIDE DEF r
<1>5. CASE ~s.inPart2 /\ s.part1 > 0
  <2> DEFINE x == [s EXCEPT !.part1 = @ - 1, !.par = s.colPar \div g.nTiles,
                            !.col = s.colPar % g.nTiles, !.iters = g.kTiles]
  <2>1. x.row = 0  BY DEF SliceState
  <2>2. LoadBlock(g, x).row = x.row
    <3> HIDE DEF x
    <3>1. QED  BY DEF LoadBlock, x, SliceState
  <2>3. InitSlice(g, b, s).row = 0
    BY <1>5, <2>1, <2>2 DEF InitSlice, InitPart1Slice
  <2>4. QED  BY <1>3, <2>3
<1>6. CASE ~(~s.inPart2 /\ s.part1 > 0)
  <2> DEFINE x == IF s.inPart2 THEN s ELSE EnterPart2(g, b, s)
  <2>1. /\ x.row = 0 \/ x.row = r
        /\ DOMAIN x = DOMAIN s
    BY DEF EnterPart2, LoadBlock, SliceState, r
  <2>2. "row" \in DOMAIN s /\ "iters" \in DOMAIN s /\ "firstInit" \in DOMAIN s
    BY DEF SliceState
  <2> HIDE DEF x
  <2>3. /\ InitPart2Slice(g, b, x).row = x.row
        /\ DOMAIN InitPart2Slice(g, b, x) = DOMAIN x
    BY <2>1, <2>2 DEF InitPart2Slice, WrapColumn, LoadBlock
  <2>4. InitSlice(g, b, s) = [InitPart2Slice(g, b, x) EXCEPT !.firstInit = FALSE]
    BY <1>6 DEF InitSlice, x
  <2>5. InitSlice(g, b, s).row = x.row
    BY <2>1, <2>2, <2>3, <2>4
  <2>6. QED  BY <1>3, <1>4, <2>1, <2>5
<1>7. QED  BY <1>5, <1>6

-----------------------------------------------------------------------------
(***************************************************************************)
(* One output tile: what the progress of its CTAs, its lock, the cell      *)
(* through which a barrier tile's partial sum travels and its place in C   *)
(* have to do with each other, and that each kind of step of one of its    *)
(* CTAs keeps it so.                                                       *)
(***************************************************************************)

\* The part of CTA b of tile t, and what is added up when b has had its turn.
Part(g, b, t) == <<From(g, b, t), To(g, b, t)>>
Partial(g, b, t) ==
  [i \in 1 .. High(g, t) - b + 1 |-> Part(g, High(g, t) - i + 1, t)]

CTAs(g, t) == Low(g, t) .. High(g, t)
Atomic(g, t) == g.atomicAdd /\ Shared(g, t)
Barrier(g, t) == ~g.atomicAdd /\ Shared(g, t)

-----------------------------------------------------------------------------
(* The tile's state: st[b], how far its CTA b is with it ("ahead", a label of *)
(* MarlinStripes, "done"), its lock lk, its cell and its place o in C.        *)

Stages == Labels \cup {"ahead", "done"}
Passed(st, b) == st[b] \in {"write", "done"}

\* A barrier's lock counts the CTAs of its tile that have had their turn, from
\* the highest down.
BarrierOK(g, t, st, lk) ==
  /\ lk \in 0 .. High(g, t) - Low(g, t)
  /\ \/ lk = 0 /\ \A b \in CTAs(g, t) : Passed(st, b)
     \/ \A b \in CTAs(g, t) : Passed(st, b) <=> High(g, t) - b < lk
  /\ \A b \in CTAs(g, t) :
       st[b] \in {"load", "store", "release"} => High(g, t) - b = lk

\* Their sum waits in the tile's cell for the next.
Stored(g, t, st, b) == st[b] = "release" /\ b > Low(g, t)
CellOK(g, t, st, lk, cell) ==
  /\ Stored(g, t, st, High(g, t) - lk) =>
       cell = Partial(g, High(g, t) - lk, t)
  /\ lk > 0 /\ ~Stored(g, t, st, High(g, t) - lk) =>
       cell = Partial(g, High(g, t) - lk + 1, t)

\* The lock of an atomicAdd tile is minus the number of CTAs still to add, once
\* the tile is zeroed.
Others(g, t) == CTAs(g, t) \ {High(g, t)}
Late(g, t, st) == {b \in Others(g, t) : ~Passed(st, b)}
Published(g, t, st) == st[High(g, t)] \notin {"ahead", "publish"}
CounterOK(g, t, st, lk) ==
  /\ lk = IF Published(g, t, st) THEN -Cardinality(Late(g, t, st)) ELSE 0
  /\ ~Published(g, t, st) => \A b \in Others(g, t) : st[b] \in {"ahead", "wait"}

\* What is in C, for a tile that is overwritten and for one that is added to.
SingleOK(g, t, st, o) ==
  IF st[Low(g, t)] = "done"
  THEN o = Append(Partial(g, Low(g, t), t), Bias)
  ELSE /\ \A i \in DOMAIN o : o[i] # Bias
       /\ ~Shared(g, t) => o = <<Stale>>
AddedOK(g, t, st, o) ==
  IF st[High(g, t)] = "ahead"
  THEN o = <<Stale>> /\ \A b \in CTAs(g, t) : st[b] # "done"
  ELSE /\ \A i \in DOMAIN o :
            \/ \E b \in CTAs(g, t) : st[b] = "done" /\ o[i] = Part(g, b, t)
            \/ o[i] = Bias /\ st[Low(g, t)] = "done"
       /\ \A b \in CTAs(g, t) :
            st[b] = "done" => \E i \in DOMAIN o : o[i] = Part(g, b, t)
       /\ st[Low(g, t)] = "done" => \E i \in DOMAIN o : o[i] = Bias
       /\ \A i, j \in DOMAIN o : o[i] = o[j] => i = j

TileOK(g, t, st, lk, cell, o) ==
  /\ Barrier(g, t) => BarrierOK(g, t, st, lk) /\ CellOK(g, t, st, lk, cell)
  /\ Atomic(g, t) => CounterOK(g, t, st, lk) /\ AddedOK(g, t, st, o)
  /\ ~Atomic(g, t) => SingleOK(g, t, st, o)

-----------------------------------------------------------------------------
(* Partial sums. *)

LEMMA CTAsType ==
  ASSUME NEW g \in Geometry, NEW t \in Tile(g)
  PROVE  /\ Low(g, t) \in Nat /\ High(g, t) \in Nat
         /\ Low(g, t) <= High(g, t) /\ High(g, t) < g.grid
         /\ Low(g, t) \in CTAs(g, t) /\ High(g, t) \in CTAs(g, t)
         /\ \A b \in CTAs(g, t) :
              /\ b \in Nat /\ Low(g, t) <= b /\ b <= High(g, t)
              /\ b < g.grid /\ Takes(g, b, t)
         /\ \A b \in Nat : Takes(g, b, t) => b \in CTAs(g, t)
<1>1. g.grid \in Nat  BY GeometryTypes
<1>2. QED  BY <1>1, Parts DEF CTAs, Takes

LEMMA PartTerm ==
  ASSUME NEW g \in Geometry, NEW t \in Tile(g), NEW b \in CTAs(g, t)
  PROVE  /\ Part(g, b, t) \in Term
         /\ Part(g, b, t) # Bias /\ Part(g, b, t) # Stale
         /\ Part(g, b, t)[1] = From(g, b, t) /\ Part(g, b, t)[2] = To(g, b, t)
<1>1. From(g, b, t) \in Nat /\ To(g, b, t) \in Nat
  BY CTAsType, Parts
<1>2. QED  BY <1>1 DEF Part, Term, Bias, Stale

LEMMA PartialSum ==
  ASSUME NEW g \in Geometry, NEW t \in Tile(g), NEW b \in CTAs(g, t)
  PROVE  /\ Partial(g, b, t) \in Sum
         /\ Len(Partial(g, b, t)) = High(g, t) - b + 1
         /\ DOMAIN Partial(g, b, t) = 1 .. High(g, t) - b + 1
         /\ \A i \in 1 .. High(g, t) - b + 1 :
              /\ High(g, t) - i + 1 \in CTAs(g, t)
              /\ Partial(g, b, t)[i] = Part(g, High(g, t) - i + 1, t)
<1> DEFINE n == High(g, t) - b + 1
           P == Partial(g, b, t)
<1>1. n \in Nat  BY CTAsType
<1>2. \A i \in 1 .. n : High(g, t) - i + 1 \in CTAs(g, t)
  BY CTAsType DEF CTAs
<1>3. \A i \in 1 .. n : P[i] = Part(g, High(g, t) - i + 1, t)
  BY DEF Partial
<1>4. P \in [1 .. n -> Term]
  BY <1>2, <1>3, PartTerm DEF Partial
<1>5. P \in Seq(Term) /\ Len(P) = n /\ DOMAIN P = 1 .. n
  BY <1>1, <1>4
<1>6. QED  BY <1>2, <1>3, <1>5 DEF Sum

LEMMA PartialHigh ==
  ASSUME NEW g \in Geometry, NEW t \in Tile(g)
  PROVE  Partial(g, High(g, t), t) = <<Part(g, High(g, t), t)>>
<1> DEFINE h == High(g, t)
           P == Partial(g, h, t)
           Q == <<Part(g, h, t)>>
<1>1. h \in Nat /\ h \in CTAs(g, t)  BY CTAsType
<1>2. h - h + 1 = 1 /\ h - 1 + 1 = h  BY <1>1
<1>3. P \in Seq(Term) /\ Len(P) = 1 /\ P[1] = Part(g, h, t)
  <2>1. /\ P \in Sum /\ Len(P) = h - h + 1
        /\ \A i \in 1 .. h - h + 1 : P[i] = Part(g, h - i + 1, t)
    BY <1>1, PartialSum
  <2> HIDE DEF P, h
  <2>2. P[1] = Part(g, h - 1 + 1, t)  BY <1>2, <2>1
  <2>3. QED  BY <1>2, <2>1, <2>2 DEF Sum
<1>4. Part(g, h, t) \in Term  BY <1>1, PartTerm
<1> HIDE DEF P, h
<1>5. Q \in Seq(Term) /\ Len(Q) = 1 /\ Q[1] = Part(g, h, t)
  BY <1>4
<1>6. P = Q  BY <1>3, <1>5, SeqEqual
<1>7. QED  BY <1>6 DEF P, h

\* A CTA adds its part to what those above it have added up.
LEMMA PartialNext ==
  ASSUME NEW g \in Geometry, NEW t \in Tile(g), NEW b \in CTAs(g, t),
         b < High(g, t)
  PROVE  /\ b + 1 \in CTAs(g, t)
         /\ Partial(g, b + 1, t) \o <<Part(g, b, t)>> = Partial(g, b, t)
<1> DEFINE h == High(g, t)
           n == h - b
           P == Partial(g, b + 1, t)
           Q == <<Part(g, b, t)>>
           R == Partial(g, b, t)
<1>1. h \in Nat /\ b \in Nat /\ b < h /\ n \in Nat  BY CTAsType
<1>2. b + 1 \in CTAs(g, t)  BY <1>1, CTAsType DEF CTAs
<1>3. h - (b + 1) + 1 = n /\ h - b + 1 = n + 1  BY <1>1
<1>4. /\ P \in Seq(Term) /\ Len(P) = n
      /\ \A i \in 1 .. n : P[i] = Part(g, h - i + 1, t)
  BY <1>2, <1>3, PartialSum DEF Sum
<1>5. /\ R \in Seq(Term) /\ Len(R) = n + 1
      /\ \A i \in 1 .. n + 1 : R[i] = Part(g, h - i + 1, t)
  BY <1>3, PartialSum DEF Sum
<1>6. Part(g, b, t) \in Term  BY PartTerm
<1>7. h - (n + 1) + 1 = b  BY <1>1
<1> HIDE DEF P, R, n, h
<1>8. Q \in Seq(Term) /\ Len(Q) = 1 /\ Q[1] = Part(g, b, t)
  BY <1>6
<1> HIDE DEF Q
<1>9. /\ P \o Q \in Seq(Term) /\ Len(P \o Q) = n + 1
      /\ \A i \in 1 .. n + 1 : (P \o Q)[i] = IF i <= n THEN P[i] ELSE Q[i - n]
  <2>1. /\ P \o Q \in Seq(Term) /\ Len(P \o Q) = Len(P) + Len(Q)
        /\ \A i \in 1 .. Len(P) + Len(Q) :
             (P \o Q)[i] = IF i <= Len(P) THEN P[i] ELSE Q[i - Len(P)]
    BY <1>4, <1>8, ConcatProperties
  <2>2. QED  BY <1>4, <1>8, <2>1
<1>10. \A i \in 1 .. n + 1 : (P \o Q)[i] = R[i]
  <2> SUFFICES ASSUME NEW i \in 1 .. n + 1 PROVE (P \o Q)[i] = R[i]
    OBVIOUS
  <2>0. n \in Nat  BY <1>1 DEF n, h
  <2>1. CASE i <= n
    <3>1. i \in 1 .. n  BY <2>0, <2>1
    <3>2. QED  BY <1>4, <1>5, <1>9, <2>1, <3>1
  <2>2. CASE ~(i <= n)
    <3>1. i = n + 1 /\ i - n = 1  BY <2>0, <2>2
    <3>2. (P \o Q)[i] = Part(g, b, t)  BY <1>8, <1>9, <2>2, <3>1
    <3>3. R[i] = Part(g, h - (n + 1) + 1, t)  BY <1>5, <3>1
    <3>4. QED  BY <1>7, <3>2, <3>3
  <2>3. QED  BY <2>1, <2>2
<1>11. P \o Q = R
  BY <1>5, <1>9, <1>10, SeqEqual
<1>12. QED  BY <1>2, <1>11 DEF P, Q, R

\* Different CTAs have different parts.
LEMMA PartsDiffer ==
  ASSUME NEW g \in Geometry, NEW t \in Tile(g),
         NEW a \in CTAs(g, t), NEW b \in CTAs(g, t), a < b
  PROVE  To(g, a, t) <= From(g, b, t)
<1>1. /\ a \in Nat /\ b \in Nat /\ High(g, t) \in Nat /\ Low(g, t) \in Nat
      /\ Low(g, t) <= a /\ a < b /\ b <= High(g, t)
  BY CTAsType
<1>2. t >= Part1Tiles(g)
  <2>1. t < Part1Tiles(g) => High(g, t) = Low(g, t)  BY Part1Low
  <2>2. t \in Nat /\ Part1Tiles(g) \in Nat  BY PartitionTypes DEF Tile
  <2>3. QED  BY <1>1, <2>1, <2>2
<1>3. /\ To(g, a, t) = Iters(g) * (a + 1) - Begin(g, t)
      /\ From(g, b, t) = Iters(g) * b - Begin(g, t)
  BY <1>1 DEF From, To
<1>4. Iters(g) \in Nat \ {0} /\ Begin(g, t) \in Nat  BY <1>2, Part2Cuts
<1>5. Iters(g) * (a + 1) <= Iters(g) * b
  BY <1>1, <1>4, MulMonotone
<1>6. Iters(g) * (a + 1) \in Nat /\ Iters(g) * b \in Nat
  BY <1>1, <1>4
<1>7. QED  BY <1>3, <1>4, <1>5, <1>6

-----------------------------------------------------------------------------
(* Steps of a CTA b of a barrier tile. *)

\* A move that neither takes nor ends the turn, nor writes the cell.
LEMMA BarrierQuiet ==
  ASSUME NEW g \in Geometry, NEW t \in Tile(g),
         NEW st \in [CTAs(g, t) -> Stages], NEW lk, NEW cell,
         BarrierOK(g, t, st, lk), CellOK(g, t, st, lk, cell),
         NEW b \in CTAs(g, t), NEW l \in Stages,
         l \in {"write", "done"} <=> Passed(st, b),
         l \in {"load", "store", "release"} => High(g, t) - b = lk,
         b > Low(g, t) => (l = "release" <=> st[b] = "release")
  PROVE  LET s == [st EXCEPT ![b] = l]
         IN  BarrierOK(g, t, s, lk) /\ CellOK(g, t, s, lk, cell)
<1> DEFINE s == [st EXCEPT ![b] = l]
<1>1. s[b] = l /\ \A a \in CTAs(g, t) : a # b => s[a] = st[a]
  OBVIOUS
<1>2. \A a \in CTAs(g, t) : Passed(s, a) <=> Passed(st, a)
  BY <1>1 DEF Passed
<1>3. BarrierOK(g, t, s, lk)
  BY <1>1, <1>2 DEF BarrierOK
<1>4. lk \in 0 .. High(g, t) - Low(g, t)  BY DEF BarrierOK
<1>5. High(g, t) - lk \in CTAs(g, t)
  BY <1>4, CTAsType DEF CTAs
<1>6. Stored(g, t, s, High(g, t) - lk) <=> Stored(g, t, st, High(g, t) - lk)
  BY <1>1, <1>5 DEF Stored
<1>7. CellOK(g, t, s, lk, cell)
  BY <1>6 DEF CellOK
<1>8. QED  BY <1>3, <1>7

\* What the CTA whose turn it is finds in the cell.
LEMMA BarrierLoad ==
  ASSUME NEW g \in Geometry, NEW t \in Tile(g),
         NEW st \in [CTAs(g, t) -> Stages], NEW lk, NEW cell,
         BarrierOK(g, t, st, lk), CellOK(g, t, st, lk, cell),
         NEW b \in CTAs(g, t), st[b] = "load", b < High(g, t)
  PROVE  cell = Partial(g, b + 1, t)
<1>1. High(g, t) - b = lk  BY DEF BarrierOK
<1>2. /\ b \in Nat /\ High(g, t) \in Nat  BY CTAsType
<1>3. lk > 0 /\ High(g, t) - lk = b  BY <1>1, <1>2
<1>4. ~Stored(g, t, st, High(g, t) - lk)  BY <1>3 DEF Stored
<1>5. cell = Partial(g, High(g, t) - lk + 1, t)  BY <1>3, <1>4 DEF CellOK
<1>6. QED  BY <1>3, <1>5

\* The store of the sum.
LEMMA BarrierStore ==
  ASSUME NEW g \in Geometry, NEW t \in Tile(g),
         NEW st \in [CTAs(g, t) -> Stages], NEW lk,
         BarrierOK(g, t, st, lk),
         NEW b \in CTAs(g, t), st[b] = "store", b > Low(g, t)
  PROVE  LET s == [st EXCEPT ![b] = "release"]
         IN  /\ BarrierOK(g, t, s, lk)
             /\ CellOK(g, t, s, lk, Partial(g, b, t))
             /\ st[Low(g, t)] # "done"
<1> DEFINE s == [st EXCEPT ![b] = "release"]
<1>1. s[b] = "release" /\ \A a \in CTAs(g, t) : a # b => s[a] = st[a]
  OBVIOUS
<1>2. \A a \in CTAs(g, t) : Passed(s, a) <=> Passed(st, a)
  BY <1>1 DEF Passed
<1>3. BarrierOK(g, t, s, lk)
  BY <1>1, <1>2 DEF BarrierOK
<1>4. /\ High(g, t) \in Nat /\ Low(g, t) \in CTAs(g, t) /\ b \in Nat
      /\ Low(g, t) \in Nat
  BY CTAsType
<1>5. High(g, t) - b = lk  BY DEF BarrierOK
<1>6. High(g, t) - lk = b  BY <1>4, <1>5
<1>7. CellOK(g, t, s, lk, Partial(g, b, t))
  BY <1>1, <1>6 DEF CellOK, Stored
<1>8. ~Passed(st, Low(g, t))
  <2>1. ~Passed(st, b)  BY DEF Passed
  <2>2. \A a \in CTAs(g, t) : Passed(st, a) <=> High(g, t) - a < lk
    BY <2>1 DEF BarrierOK
  <2>3. QED  BY <1>4, <1>5, <2>2
<1>9. QED  BY <1>3, <1>7, <1>8 DEF Passed

\* barrier_release passes the turn on, or back to the start.
LEMMA BarrierRelease ==
  ASSUME NEW g \in Geometry, NEW t \in Tile(g), Shared(g, t),
         NEW st \in [CTAs(g, t) -> Stages], NEW lk, NEW cell,
         BarrierOK(g, t, st, lk), CellOK(g, t, st, lk, cell),
         NEW b \in CTAs(g, t), st[b] = "release"
  PROVE  LET last == b = Low(g, t)
             s    == [st EXCEPT ![b] = IF last THEN "write" ELSE "done"]
             next == IF last THEN 0 ELSE lk + 1
         IN  BarrierOK(g, t, s, next) /\ CellOK(g, t, s, next, cell)
<1> DEFINE last == b = Low(g, t)
           l    == IF last THEN "write" ELSE "done"
           s    == [st EXCEPT ![b] = l]
           next == IF last THEN 0 ELSE lk + 1
           low  == Low(g, t)
           high == High(g, t)
           C    == CTAs(g, t)
<1>1. s[b] = l /\ \A a \in C : a # b => s[a] = st[a]
  OBVIOUS
<1>2. /\ low \in Nat /\ high \in Nat /\ low < high /\ b \in Nat
      /\ low <= b /\ b <= high /\ low \in C /\ high \in C
      /\ \A a \in C : a \in Nat /\ low <= a /\ a <= high
  BY CTAsType DEF Shared
<1>3. high - b = lk /\ ~Passed(st, b)
      /\ \A a \in C : st[a] \in {"load", "store", "release"} => high - a = lk
  BY DEF BarrierOK, Passed
<1>4. \A a \in C : Passed(st, a) <=> high - a < lk
  BY <1>3 DEF BarrierOK
<1>5. \A a \in C : Passed(s, a) <=> (Passed(st, a) \/ a = b)
  BY <1>1 DEF Passed
<1>6. \A a \in C : s[a] \notin {"load", "store", "release"}
  BY <1>1, <1>2, <1>3
<1>7. CASE last
  <2>1. \A a \in C : Passed(s, a)
    <3> SUFFICES ASSUME NEW a \in C, a # b PROVE high - a < lk
      BY <1>4, <1>5
    <3>1. low < a /\ lk = high - low  BY <1>2, <1>3, <1>7
    <3>2. QED  BY <1>2, <3>1
  <2>2. BarrierOK(g, t, s, next)
    <3>1. next = 0 /\ next \in 0 .. high - low  BY <1>2, <1>7
    <3>2. QED  BY <1>6, <2>1, <3>1 DEF BarrierOK
  <2>3. high - 0 = high /\ ~(0 > 0)  BY <1>2
  <2>4. CellOK(g, t, s, next, cell)
    <3>1. ~Stored(g, t, s, high)  BY <1>2, <1>6 DEF Stored
    <3>2. QED  BY <1>7, <2>3, <3>1 DEF CellOK
  <2>5. QED  BY <2>2, <2>4
<1>8. CASE ~last
  <2>1. next = lk + 1 /\ next \in 0 .. high - low /\ lk \in Nat
    BY <1>2, <1>3, <1>8
  <2>2. \A a \in C : Passed(s, a) <=> high - a < next
    <3> SUFFICES ASSUME NEW a \in C
                 PROVE  (high - a < lk \/ a = b) <=> high - a < next
      BY <1>4, <1>5
    <3>1. QED  BY <1>2, <1>3, <2>1
  <2>3. BarrierOK(g, t, s, next)
    BY <1>6, <2>1, <2>2 DEF BarrierOK
  <2>4. CellOK(g, t, s, next, cell)
    <3>1. high - lk = b /\ high - next \in C /\ high - next + 1 = b
      BY <1>2, <1>3, <1>8, <2>1 DEF CTAs
    <3>2. ~Stored(g, t, s, high - next)  BY <1>6, <3>1 DEF Stored
    <3>3. cell = Partial(g, b, t)
      <4>1. Stored(g, t, st, b)  BY <1>2, <1>8 DEF Stored
      <4>2. QED  BY <3>1, <4>1 DEF CellOK
    <3>4. QED  BY <3>1, <3>2, <3>3 DEF CellOK
  <2>5. QED  BY <2>3, <2>4
<1>9. QED  BY <1>7, <1>8

-----------------------------------------------------------------------------
(* Steps of a CTA b of an atomicAdd tile. *)

\* Once the lowest CTA has had its turn the tile's cell is no longer read.
LEMMA BarrierOver ==
  ASSUME NEW g \in Geometry, NEW t \in Tile(g), NEW st, NEW lk, NEW cell,
         BarrierOK(g, t, st, lk), Passed(st, Low(g, t))
  PROVE  lk = 0 /\ CellOK(g, t, st, lk, cell)
<1>1. /\ Low(g, t) \in CTAs(g, t) /\ High(g, t) \in CTAs(g, t)
      /\ Low(g, t) \in Nat /\ High(g, t) \in Nat
  BY CTAsType
<1>2. lk \in 0 .. High(g, t) - Low(g, t)  BY DEF BarrierOK
<1>3. ~(High(g, t) - Low(g, t) < lk)  BY <1>1, <1>2
<1>4. lk = 0 /\ \A b \in CTAs(g, t) : Passed(st, b)
  BY <1>1, <1>3 DEF BarrierOK
<1>5. High(g, t) - lk = High(g, t)  BY <1>1, <1>4
<1>6. ~Stored(g, t, st, High(g, t))
  BY <1>1, <1>4 DEF Stored, Passed
<1>7. QED  BY <1>4, <1>5, <1>6 DEF CellOK

LEMMA LateFinite ==
  ASSUME NEW g \in Geometry, NEW t \in Tile(g), NEW st
  PROVE  IsFiniteSet(Late(g, t, st))
<1>1. Low(g, t) \in Int /\ High(g, t) \in Int  BY CTAsType
<1>2. IsFiniteSet(CTAs(g, t))  BY <1>1, FS_Interval DEF CTAs
<1>3. Late(g, t, st) \in SUBSET CTAs(g, t)  BY DEF Late, Others
<1>4. QED  BY <1>2, <1>3, FS_Subset

\* A move that neither publishes the tile nor counts a CTA in.
LEMMA CounterQuiet ==
  ASSUME NEW g \in Geometry, NEW t \in Tile(g),
         NEW st \in [CTAs(g, t) -> Stages], NEW lk, CounterOK(g, t, st, lk),
         NEW b \in CTAs(g, t), NEW l \in Stages,
         b = High(g, t) =>
           (l \notin {"ahead", "publish"} <=> Published(g, t, st)),
         b # High(g, t) => (l \in {"write", "done"} <=> Passed(st, b)),
         b # High(g, t) /\ ~Published(g, t, st) => l \in {"ahead", "wait"}
  PROVE  CounterOK(g, t, [st EXCEPT ![b] = l], lk)
<1> DEFINE s == [st EXCEPT ![b] = l]
           h == High(g, t)
<1>0. h \in CTAs(g, t)  BY CTAsType
<1>1. s[b] = l /\ \A a \in CTAs(g, t) : a # b => s[a] = st[a]
  OBVIOUS
<1>2. Published(g, t, s) <=> Published(g, t, st)
  BY <1>0, <1>1 DEF Published
<1>3. \A a \in Others(g, t) : Passed(s, a) <=> Passed(st, a)
  BY <1>1 DEF Passed, Others
<1>4. Late(g, t, s) = Late(g, t, st)
  BY <1>3 DEF Late
<1>5. ~Published(g, t, s) => \A a \in Others(g, t) : s[a] \in {"ahead", "wait"}
  BY <1>1, <1>2 DEF CounterOK, Others
<1>6. QED  BY <1>2, <1>4, <1>5 DEF CounterOK

\* The highest CTA publishes the tile: everyone else is still to add.
LEMMA CounterPublish ==
  ASSUME NEW g \in Geometry, NEW t \in Tile(g), Shared(g, t),
         NEW st \in [CTAs(g, t) -> Stages], NEW lk, CounterOK(g, t, st, lk),
         st[High(g, t)] = "publish"
  PROVE  CounterOK(g, t, [st EXCEPT ![High(g, t)] = "loop"],
                   Low(g, t) - High(g, t))
<1> DEFINE h == High(g, t)
           s == [st EXCEPT ![h] = "loop"]
<1>1. /\ h \in CTAs(g, t) /\ h \in Nat /\ Low(g, t) \in Nat
      /\ Low(g, t) < h
  BY CTAsType DEF Shared
<1>2. s[h] = "loop" /\ \A a \in CTAs(g, t) : a # h => s[a] = st[a]
  BY <1>1
<1>3. ~Published(g, t, st)  BY DEF Published
<1>4. \A a \in Others(g, t) : ~Passed(s, a)
  BY <1>2, <1>3 DEF CounterOK, Others, Passed
<1>5. Late(g, t, s) = Low(g, t) .. h - 1
  <2>1. Others(g, t) = Low(g, t) .. h - 1
    BY <1>1 DEF Others, CTAs
  <2>2. QED  BY <1>4, <2>1 DEF Late
<1>6. Cardinality(Late(g, t, s)) = h - Low(g, t)
  <2>1. Cardinality(Low(g, t) .. h - 1) =
          IF Low(g, t) > h - 1 THEN 0 ELSE (h - 1) - Low(g, t) + 1
    BY <1>1, FS_Interval
  <2>2. QED  BY <1>1, <1>5, <2>1
<1>7. Published(g, t, s)  BY <1>2 DEF Published
<1>8. Low(g, t) - h = -(h - Low(g, t))  BY <1>1
<1>9. QED  BY <1>6, <1>7, <1>8 DEF CounterOK

\* A CTA counts itself in.
LEMMA CounterCountIn ==
  ASSUME NEW g \in Geometry, NEW t \in Tile(g),
         NEW st \in [CTAs(g, t) -> Stages], NEW lk, CounterOK(g, t, st, lk),
         NEW b \in Others(g, t), st[b] = "count"
  PROVE  CounterOK(g, t, [st EXCEPT ![b] = "write"], lk + 1)
<1> DEFINE h == High(g, t)
           s == [st EXCEPT ![b] = "write"]
<1>1. h \in CTAs(g, t) /\ b \in CTAs(g, t) /\ b # h
  BY CTAsType DEF Others
<1>2. s[b] = "write" /\ \A a \in CTAs(g, t) : a # b => s[a] = st[a]
  BY <1>1
<1>3. Published(g, t, st)  BY DEF CounterOK
<1>4. Published(g, t, s)  BY <1>1, <1>2, <1>3 DEF Published
<1>5. Late(g, t, s) = Late(g, t, st) \ {b}
  BY <1>2 DEF Late, Passed, Others
<1>6. b \in Late(g, t, st)  BY DEF Late, Passed
<1>7. Cardinality(Late(g, t, s)) = Cardinality(Late(g, t, st)) - 1
  BY <1>5, <1>6, LateFinite, FS_RemoveElement
<1>8. Cardinality(Late(g, t, st)) \in Nat  BY LateFinite, FS_CardinalityType
<1>9. -Cardinality(Late(g, t, st)) + 1 = -(Cardinality(Late(g, t, st)) - 1)
  BY <1>8
<1>10. lk = -Cardinality(Late(g, t, st))  BY <1>3 DEF CounterOK
<1>11. QED  BY <1>4, <1>7, <1>9, <1>10 DEF CounterOK

-----------------------------------------------------------------------------
(* What the steps do to the tile's place in C. *)

LEMMA SingleQuiet ==
  ASSUME NEW g \in Geometry, NEW t \in Tile(g),
         NEW st \in [CTAs(g, t) -> Stages], NEW o, SingleOK(g, t, st, o),
         NEW b \in CTAs(g, t), NEW l \in Stages,
         b = Low(g, t) => (l = "done" <=> st[b] = "done")
  PROVE  SingleOK(g, t, [st EXCEPT ![b] = l], o)
<1> DEFINE s == [st EXCEPT ![b] = l]
<1>1. Low(g, t) \in CTAs(g, t)  BY CTAsType
<1>2. s[Low(g, t)] = "done" <=> st[Low(g, t)] = "done"
  BY <1>1
<1>3. QED  BY <1>2 DEF SingleOK

\* The fp16 variant keeps the partial sum in C itself.
LEMMA SingleStore ==
  ASSUME NEW g \in Geometry, NEW t \in Tile(g), Shared(g, t),
         NEW st \in [CTAs(g, t) -> Stages],
         NEW b \in CTAs(g, t), st[Low(g, t)] # "done"
  PROVE  SingleOK(g, t, [st EXCEPT ![b] = "release"], Partial(g, b, t))
<1> DEFINE s == [st EXCEPT ![b] = "release"]
<1>1. Low(g, t) \in CTAs(g, t)  BY CTAsType
<1>2. s[Low(g, t)] # "done"  BY <1>1
<1>3. \A i \in DOMAIN Partial(g, b, t) : Partial(g, b, t)[i] # Bias
  BY PartialSum, PartTerm
<1>4. QED  BY <1>2, <1>3 DEF SingleOK

LEMMA SingleWrite ==
  ASSUME NEW g \in Geometry, NEW t \in Tile(g),
         NEW st \in [CTAs(g, t) -> Stages]
  PROVE  SingleOK(g, t, [st EXCEPT ![Low(g, t)] = "done"],
                  Append(Partial(g, Low(g, t), t), Bias))
<1>1. Low(g, t) \in CTAs(g, t)  BY CTAsType
<1>2. [st EXCEPT ![Low(g, t)] = "done"][Low(g, t)] = "done"  BY <1>1
<1>3. QED  BY <1>2 DEF SingleOK

LEMMA AddedQuiet ==
  ASSUME NEW g \in Geometry, NEW t \in Tile(g),
         NEW st \in [CTAs(g, t) -> Stages], NEW o, AddedOK(g, t, st, o),
         NEW b \in CTAs(g, t), NEW l \in Stages,
         l = "done" <=> st[b] = "done",
         b = High(g, t) => (l = "ahead" <=> st[b] = "ahead")
  PROVE  AddedOK(g, t, [st EXCEPT ![b] = l], o)
<1> DEFINE s == [st EXCEPT ![b] = l]
<1>1. Low(g, t) \in CTAs(g, t) /\ High(g, t) \in CTAs(g, t)  BY CTAsType
<1>2. \A a \in CTAs(g, t) : s[a] = "done" <=> st[a] = "done"
  OBVIOUS
<1>3. s[High(g, t)] = "ahead" <=> st[High(g, t)] = "ahead"
  BY <1>1
<1>4. s[Low(g, t)] = "done" <=> st[Low(g, t)] = "done"
  BY <1>1, <1>2
<1>5. CASE st[High(g, t)] = "ahead"
  BY <1>2, <1>3, <1>5 DEF AddedOK
<1>6. CASE st[High(g, t)] # "ahead"
  <2>1. /\ \A i \in DOMAIN o :
             \/ \E a \in CTAs(g, t) : st[a] = "done" /\ o[i] = Part(g, a, t)
             \/ o[i] = Bias /\ st[Low(g, t)] = "done"
        /\ \A a \in CTAs(g, t) :
             st[a] = "done" => \E i \in DOMAIN o : o[i] = Part(g, a, t)
        /\ st[Low(g, t)] = "done" => \E i \in DOMAIN o : o[i] = Bias
        /\ \A i, j \in DOMAIN o : o[i] = o[j] => i = j
    BY <1>6 DEF AddedOK
  <2> HIDE DEF s
  <2>2. \A i \in DOMAIN o :
           \/ \E a \in CTAs(g, t) : s[a] = "done" /\ o[i] = Part(g, a, t)
           \/ o[i] = Bias /\ s[Low(g, t)] = "done"
    BY <1>2, <1>4, <2>1
  <2>3. \A a \in CTAs(g, t) :
           s[a] = "done" => \E i \in DOMAIN o : o[i] = Part(g, a, t)
    BY <1>2, <2>1
  <2>4. AddedOK(g, t, s, o)
    BY <1>3, <1>4, <1>6, <2>1, <2>2, <2>3 DEF AddedOK
  <2>5. QED  BY <2>4 DEF s
<1>7. QED  BY <1>5, <1>6

\* The highest CTA zeroes the tile before anyone has added to it.
LEMMA AddedZero ==
  ASSUME NEW g \in Geometry, NEW t \in Tile(g),
         NEW st \in [CTAs(g, t) -> Stages], NEW o, AddedOK(g, t, st, o),
         st[High(g, t)] = "ahead"
  PROVE  AddedOK(g, t, [st EXCEPT ![High(g, t)] = "publish"], <<>>)
<1> DEFINE s == [st EXCEPT ![High(g, t)] = "publish"]
<1>1. Low(g, t) \in CTAs(g, t) /\ High(g, t) \in CTAs(g, t)  BY CTAsType
<1>2. \A a \in CTAs(g, t) : st[a] # "done"  BY DEF AddedOK
<1>3. s[High(g, t)] = "publish" /\ \A a \in CTAs(g, t) : s[a] # "done"
  BY <1>1, <1>2
<1>4. DOMAIN <<>> = {}  OBVIOUS
<1> HIDE DEF s
<1>5. AddedOK(g, t, s, <<>>)  BY <1>1, <1>3, <1>4 DEF AddedOK
<1>6. QED  BY <1>5 DEF s

\* A CTA adds its part, the lowest one the bias as well.
LEMMA AddedWrite ==
  ASSUME NEW g \in Geometry, NEW t \in Tile(g),
         NEW st \in [CTAs(g, t) -> Stages],
         NEW o \in Sum, AddedOK(g, t, st, o),
         NEW b \in CTAs(g, t), st[b] # "done", st[High(g, t)] # "ahead"
  PROVE  AddedOK(g, t, [st EXCEPT ![b] = "done"],
                 o \o (IF b = Low(g, t) THEN Append(<<Part(g, b, t)>>, Bias)
                       ELSE <<Part(g, b, t)>>))
<1> DEFINE s == [st EXCEPT ![b] = "done"]
           C == CTAs(g, t)
           low == Low(g, t)
           p == Part(g, b, t)
           add == IF b = low THEN Append(<<p>>, Bias) ELSE <<p>>
           n == Len(o)
           m == Len(add)
           q == o \o add
<1>1. low \in C /\ High(g, t) \in C  BY CTAsType
<1>2. /\ \A i \in DOMAIN o :
           \/ \E a \in C : st[a] = "done" /\ o[i] = Part(g, a, t)
           \/ o[i] = Bias /\ st[low] = "done"
      /\ \A a \in C :
           st[a] = "done" => \E i \in DOMAIN o : o[i] = Part(g, a, t)
      /\ st[low] = "done" => \E i \in DOMAIN o : o[i] = Bias
      /\ \A i, j \in DOMAIN o : o[i] = o[j] => i = j
  BY DEF AddedOK
<1>3. s[b] = "done" /\ \A a \in C : a # b => s[a] = st[a]
  OBVIOUS
<1>4. p \in Term /\ p # Bias /\ Bias \in Term
  BY PartTerm DEF Bias, Term
<1> HIDE DEF p
<1>5. /\ add \in Seq(Term) /\ m \in 1 .. 2 /\ add[1] = p
      /\ m = 2 <=> b = low
      /\ m = 2 => add[2] = Bias
  <2>1. <<p>> \in Seq(Term) /\ Len(<<p>>) = 1 /\ <<p>>[1] = p
    BY <1>4
  <2>2. CASE b = low
    <3>1. /\ Append(<<p>>, Bias) \in Seq(Term)
          /\ Len(Append(<<p>>, Bias)) = 2
          /\ Append(<<p>>, Bias)[1] = p /\ Append(<<p>>, Bias)[2] = Bias
      BY <1>4, <2>1, AppendProperties
    <3>2. QED  BY <2>2, <3>1
  <2>3. CASE b # low  BY <2>1, <2>3
  <2>4. QED  BY <2>2, <2>3
<1> HIDE DEF add, s, C, low
<1>6. o \in Seq(Term) /\ n \in Nat /\ DOMAIN o = 1 .. n
  BY DEF Sum
<1>7. /\ DOMAIN q = 1 .. n + m
      /\ \A i \in 1 .. n : q[i] = o[i]
      /\ q[n + 1] = p /\ (b = low => q[n + 2] = Bias)
  <2>1. /\ q \in Seq(Term) /\ Len(q) = n + m
        /\ \A i \in 1 .. n + m : q[i] = IF i <= n THEN o[i] ELSE add[i - n]
    BY <1>5, <1>6, ConcatProperties
  <2>2. (n + 1) - n = 1 /\ (n + 2) - n = 2  BY <1>6
  <2> HIDE DEF n, m, q
  <2>3. DOMAIN q = 1 .. n + m
    BY <2>1, LenProperties
  <2>4. \A i \in 1 .. n : q[i] = o[i]
    BY <1>5, <1>6, <2>1
  <2>5. q[n + 1] = p
    BY <1>5, <1>6, <2>1, <2>2
  <2>6. b = low => q[n + 2] = Bias
    BY <1>5, <1>6, <2>1, <2>2
  <2>7. QED  BY <2>3, <2>4, <2>5, <2>6
<1>8. \A i \in 1 .. n + m : i \in 1 .. n \/ i = n + 1 \/ (i = n + 2 /\ b = low)
  <2> HIDE DEF n, m
  <2>1. n \in Nat /\ (m = 1 \/ m = 2)  BY <1>5, <1>6
  <2>2. CASE m = 1  BY <2>1, <2>2
  <2>3. CASE m = 2  BY <1>5, <2>1, <2>3
  <2>4. QED  BY <2>1, <2>2, <2>3
<1>9. n + 1 \in 1 .. n + m /\ (b = low => n + 2 \in 1 .. n + m)
      /\ (\A i \in 1 .. n : i \in 1 .. n + m)
  BY <1>5, <1>6
<1> HIDE DEF n, m, q
<1>10. ASSUME NEW i \in 1 .. n PROVE o[i] # p
  <2>1. ASSUME NEW a \in C, st[a] = "done", o[i] = Part(g, a, t), o[i] = p
        PROVE  FALSE
    <3>1. a # b /\ a \in CTAs(g, t)  BY <2>1 DEF C
    <3>2. Part(g, a, t)[1] = Part(g, b, t)[1]
          /\ Part(g, a, t)[2] = Part(g, b, t)[2]
      BY <2>1 DEF p
    <3>3. From(g, a, t) = From(g, b, t) /\ To(g, a, t) = To(g, b, t)
      BY <3>1, <3>2, PartTerm
    <3>4. /\ From(g, a, t) \in Nat /\ From(g, b, t) \in Nat
          /\ To(g, a, t) \in Nat /\ To(g, b, t) \in Nat
          /\ From(g, a, t) < To(g, a, t) /\ From(g, b, t) < To(g, b, t)
      BY <3>1, CTAsType, Parts
    <3>5. a \in Nat /\ b \in Nat  BY <3>1, CTAsType
    <3>6. CASE a < b
      <4>1. To(g, a, t) <= From(g, b, t)  BY <3>1, <3>6, PartsDiffer
      <4>2. QED  BY <3>3, <3>4, <4>1
    <3>7. CASE b < a
      <4>1. To(g, b, t) <= From(g, a, t)  BY <3>1, <3>7, PartsDiffer
      <4>2. QED  BY <3>3, <3>4, <4>1
    <3>8. QED  BY <3>1, <3>5, <3>6, <3>7
  <2>2. QED  BY <1>2, <1>4, <1>6, <2>1
<1>11. ASSUME NEW i \in 1 .. n, b = low PROVE o[i] # Bias
  <2>1. \A a \in C : Part(g, a, t) # Bias  BY PartTerm DEF C
  <2>2. QED  BY <1>2, <1>6, <1>11, <2>1
<1>12. \A i \in DOMAIN q :
          \/ \E a \in C : s[a] = "done" /\ q[i] = Part(g, a, t)
          \/ q[i] = Bias /\ s[low] = "done"
  <2> SUFFICES ASSUME NEW i \in 1 .. n + m
               PROVE  \/ \E a \in C : s[a] = "done" /\ q[i] = Part(g, a, t)
                      \/ q[i] = Bias /\ s[low] = "done"
    BY <1>7
  <2>1. CASE i \in 1 .. n
    <3>1. \A a \in C : st[a] = "done" => s[a] = "done"  BY <1>3
    <3>2. QED  BY <1>1, <1>2, <1>6, <1>7, <2>1, <3>1
  <2>2. CASE i = n + 1  BY <1>3, <1>7, <2>2 DEF p, C
  <2>3. CASE i = n + 2 /\ b = low  BY <1>3, <1>7, <2>3
  <2>4. QED  BY <1>8, <2>1, <2>2, <2>3
<1>13. \A a \in C : s[a] = "done" => \E i \in DOMAIN q : q[i] = Part(g, a, t)
  <2> SUFFICES ASSUME NEW a \in C, s[a] = "done"
               PROVE  \E i \in DOMAIN q : q[i] = Part(g, a, t)
    OBVIOUS
  <2>1. CASE a = b  BY <1>7, <1>9, <2>1 DEF p
  <2>2. CASE a # b
    <3>1. PICK i \in 1 .. n : o[i] = Part(g, a, t)
      BY <1>2, <1>3, <1>6, <2>2
    <3>2. QED  BY <1>7, <1>9, <3>1
  <2>3. QED  BY <2>1, <2>2
<1>14. s[low] = "done" => \E i \in DOMAIN q : q[i] = Bias
  <2> SUFFICES ASSUME s[low] = "done" PROVE \E i \in DOMAIN q : q[i] = Bias
    OBVIOUS
  <2>1. CASE b = low  BY <1>7, <1>9, <2>1
  <2>2. CASE b # low
    <3>1. PICK i \in 1 .. n : o[i] = Bias  BY <1>1, <1>2, <1>3, <1>6, <2>2
    <3>2. QED  BY <1>7, <1>9, <3>1
  <2>3. QED  BY <2>1, <2>2
<1>15. \A i, j \in DOMAIN q : q[i] = q[j] => i = j
  <2> SUFFICES ASSUME NEW i \in 1 .. n + m, NEW j \in 1 .. n + m, q[i] = q[j]
               PROVE  i = j
    BY <1>7
  <2>1. \A x \in 1 .. n, y \in 1 .. n : q[x] = q[y] => x = y
    BY <1>2, <1>6, <1>7
  <2>2. \A x \in 1 .. n : q[x] # p /\ (b = low => q[x] # Bias)
    BY <1>7, <1>10, <1>11
  <2>3. QED  BY <1>4, <1>7, <1>8, <2>1, <2>2
<1>16. s[High(g, t)] # "ahead"
  BY <1>1, <1>3 DEF C
<1>17. AddedOK(g, t, s, q)
  BY <1>12, <1>13, <1>14, <1>15, <1>16 DEF AddedOK, C, low
<1>18. QED  BY <1>17 DEF s, q, add, p, low

\* A tile nobody has begun, and one whose CTAs are all done.
LEMMA FreshTile ==
  ASSUME NEW g \in Geometry, NEW t \in Tile(g), NEW st, NEW cell,
         \A b \in CTAs(g, t) : st[b] = "ahead"
  PROVE  TileOK(g, t, st, 0, cell, <<Stale>>)
<1>1. /\ Low(g, t) \in CTAs(g, t) /\ High(g, t) \in CTAs(g, t)
      /\ Low(g, t) \in Nat /\ High(g, t) \in Nat /\ Low(g, t) <= High(g, t)
      /\ \A b \in CTAs(g, t) : b \in Nat /\ b <= High(g, t)
  BY CTAsType
<1>2. \A b \in CTAs(g, t) : ~Passed(st, b)  BY DEF Passed
<1>3. BarrierOK(g, t, st, 0)
  <2>1. 0 \in 0 .. High(g, t) - Low(g, t)  BY <1>1
  <2>2. \A b \in CTAs(g, t) : ~(High(g, t) - b < 0)  BY <1>1
  <2>3. QED  BY <1>2, <2>1, <2>2 DEF BarrierOK
<1>4. CellOK(g, t, st, 0, cell)
  <2>1. High(g, t) - 0 = High(g, t)  BY <1>1
  <2>2. QED  BY <1>1, <2>1 DEF CellOK, Stored
<1>5. CounterOK(g, t, st, 0)
  BY <1>1 DEF CounterOK, Published, Others
<1>6. AddedOK(g, t, st, <<Stale>>)
  BY <1>1 DEF AddedOK
<1>7. SingleOK(g, t, st, <<Stale>>)
  <2>1. \A i \in DOMAIN <<Stale>> : <<Stale>>[i] # Bias
    BY DEF Stale, Bias
  <2>2. QED  BY <1>1, <2>1 DEF SingleOK
<1>8. QED  BY <1>3, <1>4, <1>5, <1>6, <1>7 DEF TileOK

LEMMA DoneTile ==
  ASSUME NEW g \in Geometry, NEW t \in Tile(g), Shared(g, t),
         NEW st, NEW lk, NEW cell, NEW o, TileOK(g, t, st, lk, cell, o),
         \A b \in CTAs(g, t) : st[b] = "done"
  PROVE  lk = 0
<1>1. Low(g, t) \in CTAs(g, t) /\ High(g, t) \in CTAs(g, t)  BY CTAsType
<1>2. \A b \in CTAs(g, t) : Passed(st, b)  BY DEF Passed
<1>3. CASE Barrier(g, t)
  <2>1. BarrierOK(g, t, st, lk)  BY <1>3 DEF TileOK
  <2>2. QED  BY <1>1, <1>2, <2>1, BarrierOver
<1>4. CASE Atomic(g, t)
  <2>1. CounterOK(g, t, st, lk)  BY <1>4 DEF TileOK
  <2>2. Published(g, t, st)  BY <1>1 DEF Published
  <2>3. Late(g, t, st) = {}  BY <1>2 DEF Late, Others
  <2>4. Cardinality(Late(g, t, st)) = 0  BY <2>3, FS_EmptySet
  <2> DEFINE n == Cardinality(Late(g, t, st))
  <2>5. lk = -n /\ n \in Int  BY <2>1, <2>2, <2>4 DEF CounterOK
  <2>6. n = 0  BY <2>4
  <2> HIDE DEF n
  <2>7. lk \in Int /\ lk + n = 0  BY <2>5
  <2>8. QED  BY <2>6, <2>7
<1>5. QED  BY <1>3, <1>4 DEF Barrier, Atomic

-----------------------------------------------------------------------------
(* The finished tile. *)

\* Each K tile lies in exactly one CTA's part.
LEMMA CoveredOnce ==
  ASSUME NEW g \in Geometry, NEW t \in Tile(g), NEW k \in 0 .. g.kTiles - 1
  PROVE  \E b \in CTAs(g, t) :
           \A a \in CTAs(g, t) :
             (From(g, a, t) <= k /\ k < To(g, a, t)) <=> a = b
<1>0. g.kTiles \in Nat \ {0} /\ t \in Nat /\ Part1Tiles(g) \in Nat /\ k \in Nat
  BY GeometryTypes, PartitionTypes DEF Tile
<1>1. PICK b \in CTAs(g, t) : From(g, b, t) <= k /\ k < To(g, b, t)
  <2>1. CASE t < Part1Tiles(g)
    <3>1. Low(g, t) \in CTAs(g, t) /\ Low(g, t) \in Nat
          /\ Takes(g, Low(g, t), t)
      BY CTAsType
    <3>2. From(g, Low(g, t), t) = 0 /\ To(g, Low(g, t), t) = g.kTiles
      BY <2>1, <3>1, Part1Low
    <3>3. QED  BY <1>0, <3>1, <3>2
  <2>2. CASE ~(t < Part1Tiles(g))
    <3> DEFINE n == Iters(g)
               x == Begin(g, t)
               low == Low(g, t)
               high == High(g, t)
               z == x + k
               b == z \div n
    <3>1. t >= Part1Tiles(g)  BY <1>0, <2>2
    <3>2. n \in Nat \ {0} /\ x \in Nat /\ low \in Nat /\ high \in Nat
          /\ \A a \in Nat : /\ n * a \in Nat /\ n * (a + 1) = n * a + n
                            /\ a <= low <=> n * a <= x
                            /\ a <= high <=> n * a < x + g.kTiles
      BY <3>1, Part2Cuts
    <3>3. z \in Nat
      <4>1. k \in Nat /\ x \in Nat  BY <1>0, <3>2
      <4> HIDE DEF x
      <4>2. QED  BY <4>1
    <3>4. b \in Nat /\ n * b <= z /\ z < n * b + n
      <4> HIDE DEF z, n
      <4>1. b \in Nat /\ z % n \in 0 .. n - 1 /\ z = n * b + (z % n)
        BY <3>2, <3>3, DivMod
      <4> HIDE DEF b
      <4>2. n * b \in Nat  BY <3>2, <4>1
      <4>3. QED  BY <3>2, <3>3, <4>1, <4>2
    <3> HIDE DEF b, n, x, low, high
    <3>5. n * b \in Nat /\ n * (b + 1) = n * b + n
          /\ (b <= low <=> n * b <= x)
          /\ (b <= high <=> n * b < x + g.kTiles)
          /\ (b + 1 <= low <=> n * (b + 1) <= x)
      <4>1. b + 1 \in Nat  BY <3>4
      <4>2. QED  BY <3>2, <3>4, <4>1
    <3>6. b <= high  BY <1>0, <3>2, <3>4, <3>5
    <3>7. low <= b  BY <1>0, <3>2, <3>4, <3>5
    <3>8. b \in CTAs(g, t)  BY <3>2, <3>4, <3>6, <3>7 DEF CTAs, low, high
    <3>9. /\ From(g, b, t) = IF b = low THEN 0 ELSE n * b - x
          /\ To(g, b, t) = IF b = high THEN g.kTiles ELSE n * (b + 1) - x
      BY DEF From, To, low, high, n, x
    <3>10. From(g, b, t) <= k /\ k < To(g, b, t)
      BY <1>0, <3>2, <3>4, <3>5, <3>9
    <3>11. QED  BY <3>8, <3>10
  <2>3. QED  BY <2>1, <2>2
<1>2. ASSUME NEW a \in CTAs(g, t), From(g, a, t) <= k, k < To(g, a, t), a # b
      PROVE  FALSE
  <2>1. /\ a \in Nat /\ b \in Nat
        /\ From(g, a, t) \in Nat /\ To(g, a, t) \in Nat
        /\ From(g, b, t) \in Nat /\ To(g, b, t) \in Nat
    BY CTAsType, Parts
  <2>2. a < b => To(g, a, t) <= From(g, b, t)  BY PartsDiffer
  <2>3. b < a => To(g, b, t) <= From(g, a, t)  BY PartsDiffer
  <2>4. QED  BY <1>0, <1>1, <1>2, <2>1, <2>2, <2>3
<1>3. QED  BY <1>1, <1>2

\* The parts begin where stripes are cut (Starts) and follow one another.
LEMMA PartsStart ==
  ASSUME NEW g \in Geometry, NEW t \in Tile(g)
  PROVE  {From(g, b, t) : b \in CTAs(g, t)} =
           {0} \cup {x \in 1 .. g.kTiles - 1 :
                      t - Part1Tiles(g) >= 0
                      /\ (g.kTiles * (t - Part1Tiles(g)) + x) % Iters(g) = 0}
<1> DEFINE n == Iters(g)
           c == t - Part1Tiles(g)
           S == {From(g, b, t) : b \in CTAs(g, t)}
           k == g.kTiles
           R == {x \in 1 .. k - 1 : c >= 0 /\ (k * c + x) % n = 0}
<1>1. k \in Nat \ {0} /\ t \in Nat /\ Part1Tiles(g) \in Nat
  BY GeometryTypes, PartitionTypes DEF Tile
<1>2. Low(g, t) \in CTAs(g, t) /\ From(g, Low(g, t), t) = 0
  BY CTAsType DEF From
<1>3. CASE t < Part1Tiles(g)
  <2>1. R = {}  BY <1>1, <1>3
  <2>2. High(g, t) = Low(g, t)  BY <1>3, Part1Low
  <2>3. \A b \in CTAs(g, t) : b = Low(g, t)  BY <2>2, CTAsType
  <2>4. S = {0}  BY <1>2, <2>3
  <2>5. QED  BY <2>1, <2>4
<1>4. CASE ~(t < Part1Tiles(g))
  <2>1. t >= Part1Tiles(g) /\ c >= 0 /\ c \in Nat  BY <1>1, <1>4
  <2>2. /\ n \in Nat \ {0} /\ k * c \in Nat /\ Begin(g, t) = k * c
        /\ \A a \in Nat : /\ n * a \in Nat
                          /\ a <= Low(g, t) <=> n * a <= k * c
                          /\ a <= High(g, t) <=> n * a < k * c + k
    BY <2>1, Part2Cuts DEF Begin
  <2> HIDE DEF n, c, k
  <2>3. ASSUME NEW b \in CTAs(g, t), b # Low(g, t)
        PROVE  From(g, b, t) \in R
    <3>1. b \in Nat /\ Low(g, t) \in Nat /\ Low(g, t) < b /\ b <= High(g, t)
      BY <2>3, CTAsType
    <3>2. From(g, b, t) = n * b - k * c
      BY <2>2, <2>3 DEF From, n
    <3>3. n * b \in Nat /\ n * b > k * c /\ n * b < k * c + k
      BY <2>2, <3>1
    <3>4. From(g, b, t) \in 1 .. k - 1 /\ k * c + From(g, b, t) = n * b
      BY <1>1, <2>2, <3>2, <3>3 DEF k
    <3>5. (n * b) % n = 0  BY <2>2, <3>1, DivMul
    <3>6. QED  BY <2>1, <3>4, <3>5
  <2>4. ASSUME NEW x \in R
        PROVE  \E b \in CTAs(g, t) : From(g, b, t) = x
    <3> DEFINE z == k * c + x
               b == z \div n
    <3>1. z \in Nat /\ z > k * c /\ z < k * c + k /\ z % n = 0
      BY <1>1, <2>2 DEF k
    <3>2. b \in Nat /\ z = n * b
      <4> HIDE DEF z
      <4>1. b \in Nat /\ z = n * b + (z % n)  BY <2>2, <3>1, DivMod
      <4> HIDE DEF b
      <4>2. QED  BY <2>2, <3>1, <4>1
    <3> HIDE DEF b
    <3>3. ~(b <= Low(g, t)) /\ b <= High(g, t)
      <4> HIDE DEF z
      <4>1. QED  BY <1>1, <2>2, <3>1, <3>2
    <3>4. b \in CTAs(g, t) /\ b # Low(g, t)
      BY <3>2, <3>3, CTAsType DEF CTAs
    <3>5. From(g, b, t) = n * b - k * c
      BY <2>2, <3>4 DEF From, n
    <3>6. From(g, b, t) = x
      <4>1. x \in Int  OBVIOUS
      <4>2. QED  BY <2>2, <3>1, <3>2, <3>5, <4>1
    <3>7. QED  BY <3>4, <3>6
  <2> HIDE DEF R
  <2>5. \A b \in CTAs(g, t) : From(g, b, t) = 0 \/ From(g, b, t) \in R
    BY <1>2, <2>3
  <2>6. S = {0} \cup R
    BY <1>2, <2>4, <2>5
  <2>7. QED  BY <2>6 DEF R, c, k, n
<1>5. QED  BY <1>3, <1>4

\* The sum a barrier leaves is in the kernel's order.
LEMMA FullSumInOrder ==
  ASSUME geo \in Geometry, NEW t \in Tile(geo)
  PROVE  BottomUp(TileAt(geo, t), Append(Partial(geo, Low(geo, t), t), Bias))
<1> DEFINE low == Low(geo, t)
           high == High(geo, t)
           P == Partial(geo, low, t)
           sum == Append(P, Bias)
           n == high - low + 1
<1>1. /\ low \in Nat /\ high \in Nat /\ n \in Nat /\ 1 <= n
      /\ low \in CTAs(geo, t) /\ high \in CTAs(geo, t)
  BY CTAsType
<1>2. /\ P \in Seq(Term) /\ Len(P) = n
      /\ \A i \in 1 .. n : high - i + 1 \in CTAs(geo, t)
                           /\ P[i] = Part(geo, high - i + 1, t)
  BY <1>1, PartialSum DEF Sum
<1>3. Bias \in Term  BY DEF Bias, Term
<1> HIDE DEF P, n
<1>4. /\ Len(sum) = n + 1 /\ sum[n + 1] = Bias
      /\ \A i \in 1 .. n : sum[i] = P[i]
  BY <1>2, <1>3, AppendProperties
<1> HIDE DEF sum
<1>5. \A i \in 1 .. n : /\ sum[i][1] = From(geo, high - i + 1, t)
                        /\ sum[i][2] = To(geo, high - i + 1, t)
  BY <1>2, <1>4, PartTerm
<1>6. Len(sum) - 1 = n  BY <1>1, <1>4
<1>7. {sum[i][1] : i \in 1 .. n} = Starts(TileAt(geo, t))
  <2>1. {sum[i][1] : i \in 1 .. n} = {From(geo, b, t) : b \in CTAs(geo, t)}
    <3>1. \A i \in 1 .. n : \E b \in CTAs(geo, t) :
            sum[i][1] = From(geo, b, t)
      BY <1>2, <1>5
    <3>2. ASSUME NEW b \in CTAs(geo, t)
          PROVE  \E i \in 1 .. n : sum[i][1] = From(geo, b, t)
      <4> DEFINE i == high - b + 1
      <4>1. b \in Nat /\ low <= b /\ b <= high  BY CTAsType
      <4>2. i \in 1 .. n /\ high - i + 1 = b
        BY <1>1, <4>1 DEF n
      <4> HIDE DEF i
      <4>3. sum[i][1] = From(geo, high - i + 1, t)  BY <1>5, <4>2
      <4>4. QED  BY <4>2, <4>3
    <3>3. QED  BY <3>1, <3>2
  <2>2. ColumnOf(TileAt(geo, t)) = t - Part1Tiles(geo)
    <3> DEFINE q == t \div geo.nTiles
               r == t % geo.nTiles
    <3>1. /\ q \in Nat /\ r \in Nat /\ t = geo.nTiles * q + r
          /\ geo.nTiles \in Nat
      BY TilePlace, GeometryTypes
    <3>2. TileAt(geo, t)[1] = q /\ TileAt(geo, t)[2] = r
      BY DEF TileAt
    <3> HIDE DEF q, r
    <3>3. q * geo.nTiles = geo.nTiles * q  BY <3>1
    <3>4. q * geo.nTiles + r = t  BY <3>1, <3>3
    <3> DEFINE p == TileAt(geo, t)
    <3>5. p[1] \in Nat /\ p[2] \in Nat /\ p[1] * geo.nTiles + p[2] = t
      BY <3>1, <3>2, <3>4
    <3> HIDE DEF p
    <3>6. ColumnOf(p) = p[1] * geo.nTiles + p[2] - Part1Tiles(geo)
      BY DEF ColumnOf
    <3>7. ColumnOf(p) = t - Part1Tiles(geo)
      BY <3>1, <3>5, <3>6, PartitionTypes
    <3>8. QED  BY <3>7 DEF p
  <2>3. Starts(TileAt(geo, t)) = {From(geo, b, t) : b \in CTAs(geo, t)}
    BY <2>2, PartsStart DEF Starts
  <2>4. QED  BY <2>1, <2>3
<1>8. sum[1][2] = geo.kTiles
  <2>1. 1 \in 1 .. n /\ high - 1 + 1 = high  BY <1>1
  <2>2. To(geo, high, t) = geo.kTiles  BY DEF To
  <2>3. sum[1][2] = To(geo, high - 1 + 1, t)  BY <1>5, <2>1
  <2>4. QED  BY <2>1, <2>2, <2>3
<1>9. \A i \in 1 .. n : sum[i][1] < sum[i][2]
  <2> SUFFICES ASSUME NEW i \in 1 .. n PROVE sum[i][1] < sum[i][2]
    OBVIOUS
  <2>1. high - i + 1 \in Nat /\ Takes(geo, high - i + 1, t)
    BY <1>2, CTAsType
  <2>2. QED  BY <1>5, <2>1, Parts
<1>10. \A i \in 1 .. n - 1 : sum[i + 1][2] = sum[i][1]
  <2> SUFFICES ASSUME NEW i \in 1 .. n - 1
               PROVE  sum[i + 1][2] = sum[i][1]
    OBVIOUS
  <2> DEFINE b == high - i + 1
  <2>1. i \in 1 .. n /\ i + 1 \in 1 .. n /\ high - (i + 1) + 1 = b - 1
    BY <1>1
  <2>2. b \in Nat /\ b > low /\ Takes(geo, b, t)
    <3>1. b \in Nat /\ Takes(geo, b, t)  BY <1>2, <2>1, CTAsType
    <3>2. b > low  BY <1>1 DEF n
    <3>3. QED  BY <3>1, <3>2
  <2>3. sum[i][1] = From(geo, b, t)  BY <1>5, <2>1
  <2>4. sum[i + 1][2] = To(geo, high - (i + 1) + 1, t)  BY <1>5, <2>1
  <2> HIDE DEF b
  <2>5. From(geo, b, t) = To(geo, b - 1, t)  BY <2>2, Parts
  <2>6. QED  BY <2>1, <2>3, <2>4, <2>5
<1>11. BottomUp(TileAt(geo, t), sum)
  BY <1>4, <1>6, <1>7, <1>8, <1>9, <1>10 DEF BottomUp
<1>12. QED  BY <1>11 DEF sum, P

LEMMA PartsInjective ==
  ASSUME NEW g \in Geometry, NEW t \in Tile(g),
         NEW a \in CTAs(g, t), NEW b \in CTAs(g, t),
         Part(g, a, t) = Part(g, b, t)
  PROVE  a = b
<1>1. /\ a \in Nat /\ b \in Nat
      /\ From(g, a, t) \in Nat /\ To(g, a, t) \in Nat
      /\ From(g, b, t) \in Nat /\ To(g, b, t) \in Nat
      /\ From(g, a, t) < To(g, a, t) /\ From(g, b, t) < To(g, b, t)
  BY CTAsType, Parts
<1>2. From(g, a, t) = From(g, b, t) /\ To(g, a, t) = To(g, b, t)
  BY PartTerm
<1>3. a < b => To(g, a, t) <= From(g, b, t)  BY PartsDiffer
<1>4. b < a => To(g, b, t) <= From(g, a, t)  BY PartsDiffer
<1>5. QED  BY <1>1, <1>2, <1>3, <1>4

\* A sum of every part and the bias, each once and nothing else, is final.
LEMMA FinalSum ==
  ASSUME geo \in Geometry, NEW t \in Tile(geo), NEW o \in Sum,
         \A i \in DOMAIN o :
           (\E b \in CTAs(geo, t) : o[i] = Part(geo, b, t)) \/ o[i] = Bias,
         \A b \in CTAs(geo, t) : \E i \in DOMAIN o : o[i] = Part(geo, b, t),
         \E i \in DOMAIN o : o[i] = Bias,
         \A i, j \in DOMAIN o : o[i] = o[j] => i = j
  PROVE  Final(o)
<1>1. ASSUME NEW k \in 0 .. geo.kTiles - 1
      PROVE  Cardinality({i \in DOMAIN o : Covers(o[i], k)}) = 1
  <2>1. PICK b \in CTAs(geo, t) :
          \A a \in CTAs(geo, t) :
            (From(geo, a, t) <= k /\ k < To(geo, a, t)) <=> a = b
    BY CoveredOnce
  <2>2. PICK i \in DOMAIN o : o[i] = Part(geo, b, t)  OBVIOUS
  <2>3. \A a \in CTAs(geo, t) : Covers(Part(geo, a, t), k) <=> a = b
    BY <2>1, PartTerm DEF Covers
  <2>4. ~Covers(Bias, k)
    <3>1. k \in Nat  BY GeometryTypes
    <3>2. QED  BY <3>1 DEF Covers, Bias
  <2>5. {j \in DOMAIN o : Covers(o[j], k)} = {i}
    <3>1. \A j \in DOMAIN o : Covers(o[j], k) <=> j = i
      <4> SUFFICES ASSUME NEW j \in DOMAIN o
                   PROVE  Covers(o[j], k) <=> j = i
        OBVIOUS
      <4>1. CASE o[j] = Bias
        <5>1. o[i] # Bias  BY <2>2, PartTerm
        <5>2. QED  BY <2>4, <4>1, <5>1
      <4>2. CASE \E a \in CTAs(geo, t) : o[j] = Part(geo, a, t)
        <5>1. PICK a \in CTAs(geo, t) : o[j] = Part(geo, a, t)  BY <4>2
        <5>2. Covers(o[j], k) <=> a = b  BY <2>3, <5>1
        <5>3. a = b => o[j] = o[i]  BY <2>2, <5>1
        <5>4. o[j] = o[i] => a = b  BY <2>2, <5>1, PartsInjective
        <5>5. QED  BY <5>2, <5>3, <5>4
      <4>3. QED  BY <4>1, <4>2
    <3>2. QED  BY <3>1
  <2>6. QED  BY <2>5, FS_Singleton
<1>2. Cardinality({i \in DOMAIN o : o[i] = Bias}) = 1
  <2>1. PICK i \in DOMAIN o : o[i] = Bias  OBVIOUS
  <2>2. {j \in DOMAIN o : o[j] = Bias} = {i}  BY <2>1
  <2>3. QED  BY <2>2, FS_Singleton
<1>3. \A i \in DOMAIN o : o[i] # Stale /\ o[i][2] <= geo.kTiles
  <2> SUFFICES ASSUME NEW i \in DOMAIN o
               PROVE  o[i] # Stale /\ o[i][2] <= geo.kTiles
    OBVIOUS
  <2>1. CASE o[i] = Bias
    <3>1. geo.kTiles \in Nat  BY GeometryTypes
    <3>2. QED  BY <2>1, <3>1 DEF Bias, Stale
  <2>2. CASE \E b \in CTAs(geo, t) : o[i] = Part(geo, b, t)
    <3>1. PICK b \in CTAs(geo, t) : o[i] = Part(geo, b, t)  BY <2>2
    <3>2. To(geo, b, t) <= geo.kTiles  BY CTAsType, Parts
    <3>3. QED  BY <3>1, <3>2, PartTerm
  <2>3. QED  BY <2>1, <2>2
<1>4. QED  BY <1>1, <1>2, <1>3 DEF Final

LEMMA UnbiasedNotFinal ==
  ASSUME NEW o, \A i \in DOMAIN o : o[i] # Bias
  PROVE  ~Final(o)
<1>1. {i \in DOMAIN o : o[i] = Bias} = {}  OBVIOUS
<1>2. Cardinality({i \in DOMAIN o : o[i] = Bias}) = 0
  BY <1>1, FS_EmptySet
<1>3. QED  BY <1>2 DEF Final

LEMMA UncoveredNotFinal ==
  ASSUME geo \in Geometry, NEW t \in Tile(geo), NEW o,
         NEW b \in CTAs(geo, t),
         \A i \in DOMAIN o :
           \/ \E a \in CTAs(geo, t) : a # b /\ o[i] = Part(geo, a, t)
           \/ o[i] = Bias
  PROVE  ~Final(o)
<1> DEFINE k == From(geo, b, t)
<1>1. /\ k \in Nat /\ To(geo, b, t) \in Nat /\ k < To(geo, b, t)
      /\ To(geo, b, t) <= geo.kTiles /\ geo.kTiles \in Nat
  BY CTAsType, Parts, GeometryTypes
<1>2. k \in 0 .. geo.kTiles - 1  BY <1>1
<1>3. \A a \in CTAs(geo, t) :
        (From(geo, a, t) <= k /\ k < To(geo, a, t)) => a = b
  <2>1. k <= k  BY <1>1
  <2>2. QED  BY <1>1, <1>2, <2>1, CoveredOnce
<1> HIDE DEF k
<1>4. ~Covers(Bias, k)  BY <1>1 DEF Covers, Bias
<1>5. \A i \in DOMAIN o : ~Covers(o[i], k)
  BY <1>3, <1>4, PartTerm DEF Covers
<1>6. {i \in DOMAIN o : Covers(o[i], k)} = {}  BY <1>5
<1>7. Cardinality({i \in DOMAIN o : Covers(o[i], k)}) = 0
  BY <1>6, FS_EmptySet
<1>8. QED  BY <1>2, <1>7 DEF Final

\* A tile is final exactly when its writers are done.
Complete(g, t, st) ==
  IF Atomic(g, t) THEN \A b \in CTAs(g, t) : st[b] = "done"
  ELSE st[Low(g, t)] = "done"

LEMMA FinalComplete ==
  ASSUME geo \in Geometry, NEW t \in Tile(geo), NEW o \in Sum, NEW st,
         Atomic(geo, t) => AddedOK(geo, t, st, o),
         ~Atomic(geo, t) => SingleOK(geo, t, st, o)
  PROVE  Final(o) <=> Complete(geo, t, st)
<1> DEFINE low == Low(geo, t)
           high == High(geo, t)
<1>0. /\ low \in CTAs(geo, t) /\ high \in CTAs(geo, t)
      /\ low \in Nat /\ high \in Nat /\ low <= high
  BY CTAsType
<1>1. CASE ~Atomic(geo, t) /\ st[low] # "done"
  <2>1. \A i \in DOMAIN o : o[i] # Bias  BY <1>1 DEF SingleOK
  <2>2. QED  BY <1>1, <2>1, UnbiasedNotFinal DEF Complete
<1>2. CASE ~Atomic(geo, t) /\ st[low] = "done"
  <2> DEFINE P == Partial(geo, low, t)
             n == high - low + 1
  <2>1. o = Append(P, Bias)  BY <1>2 DEF SingleOK
  <2>2. /\ P \in Seq(Term) /\ Len(P) = n /\ n \in Nat
        /\ \A i \in 1 .. n : /\ high - i + 1 \in CTAs(geo, t)
                             /\ P[i] = Part(geo, high - i + 1, t)
    BY <1>0, PartialSum DEF Sum
  <2>3. Bias \in Term  BY DEF Bias, Term
  <2> HIDE DEF P
  <2>4. /\ DOMAIN o = 1 .. n + 1 /\ o[n + 1] = Bias
        /\ \A i \in 1 .. n : o[i] = Part(geo, high - i + 1, t)
    <3> HIDE DEF n
    <3>1. Len(o) = n + 1 /\ o[n + 1] = Bias /\ \A i \in 1 .. n : o[i] = P[i]
      BY <2>1, <2>2, <2>3, AppendProperties
    <3>2. QED  BY <2>2, <3>1 DEF Sum
  <2>5. \A i \in DOMAIN o :
          (\E b \in CTAs(geo, t) : o[i] = Part(geo, b, t)) \/ o[i] = Bias
    <3> SUFFICES ASSUME NEW i \in 1 .. n + 1
                 PROVE  (\E b \in CTAs(geo, t) : o[i] = Part(geo, b, t))
                        \/ o[i] = Bias
      BY <2>4
    <3>1. i \in 1 .. n \/ i = n + 1  BY <2>2
    <3>2. QED  BY <2>2, <2>4, <3>1
  <2>6. ASSUME NEW b \in CTAs(geo, t)
        PROVE  \E i \in DOMAIN o : o[i] = Part(geo, b, t)
    <3> DEFINE i == high - b + 1
    <3>1. b \in Nat /\ low <= b /\ b <= high  BY CTAsType
    <3>2. i \in 1 .. n /\ high - i + 1 = b  BY <1>0, <3>1
    <3> HIDE DEF i, n
    <3>3. o[i] = Part(geo, b, t) /\ i \in 1 .. n + 1  BY <2>2, <2>4, <3>2
    <3>4. QED  BY <2>4, <3>3
  <2>7. \A i, j \in DOMAIN o : o[i] = o[j] => i = j
    <3> SUFFICES ASSUME NEW i \in 1 .. n + 1, NEW j \in 1 .. n + 1,
                        o[i] = o[j]
                 PROVE  i = j
      BY <2>4
    <3>1. i \in 1 .. n \/ i = n + 1  BY <2>2
    <3>2. j \in 1 .. n \/ j = n + 1  BY <2>2
    <3>3. \A x \in 1 .. n : o[x] # Bias  BY <2>2, <2>4, PartTerm
    <3>4. CASE i \in 1 .. n /\ j \in 1 .. n
      <4>1. high - i + 1 = high - j + 1
        BY <2>2, <2>4, <3>4, PartsInjective
      <4>2. QED  BY <1>0, <4>1
    <3>5. QED  BY <2>4, <3>1, <3>2, <3>3, <3>4
  <2>8. \E i \in DOMAIN o : o[i] = Bias  BY <2>2, <2>4
  <2>9. Final(o)  BY <2>5, <2>6, <2>7, <2>8, FinalSum
  <2>10. QED  BY <1>2, <2>9 DEF Complete
<1>3. CASE Atomic(geo, t) /\ st[high] = "ahead"
  <2>1. o = <<Stale>>  BY <1>3 DEF AddedOK
  <2>2. \A i \in DOMAIN o : o[i] # Bias
    <3>1. \A i \in DOMAIN o : o[i] = Stale  BY <2>1
    <3>2. QED  BY <3>1 DEF Stale, Bias
  <2>3. QED  BY <1>0, <1>3, <2>2, UnbiasedNotFinal DEF Complete
<1>4. CASE Atomic(geo, t) /\ st[high] # "ahead"
           /\ \E b \in CTAs(geo, t) : st[b] # "done"
  <2>1. PICK b \in CTAs(geo, t) : st[b] # "done"  BY <1>4
  <2>2. \A i \in DOMAIN o :
           \/ \E a \in CTAs(geo, t) : a # b /\ o[i] = Part(geo, a, t)
           \/ o[i] = Bias
    BY <1>4, <2>1 DEF AddedOK
  <2>3. ~Final(o)  BY <2>2, UncoveredNotFinal
  <2>4. QED  BY <1>4, <2>3 DEF Complete
<1>5. CASE Atomic(geo, t) /\ \A b \in CTAs(geo, t) : st[b] = "done"
  <2>1. st[high] # "ahead" /\ st[low] = "done"  BY <1>0, <1>5
  <2>2. /\ \A i \in DOMAIN o :
             (\E b \in CTAs(geo, t) : o[i] = Part(geo, b, t)) \/ o[i] = Bias
        /\ \A b \in CTAs(geo, t) : \E i \in DOMAIN o : o[i] = Part(geo, b, t)
        /\ \E i \in DOMAIN o : o[i] = Bias
        /\ \A i, j \in DOMAIN o : o[i] = o[j] => i = j
    BY <1>5, <2>1 DEF AddedOK
  <2>3. Final(o)  BY <2>2, FinalSum
  <2>4. QED  BY <1>5, <2>3 DEF Complete
<1>6. QED
  BY <1>0, <1>1, <1>2, <1>3, <1>4, <1>5 DEF Complete

-----------------------------------------------------------------------------
(***************************************************************************)
(* All CTAs and all tiles.                                                 *)
(***************************************************************************)

-----------------------------------------------------------------------------
(* The inductive invariant. *)

\* How far CTA b, with slice state s and label p, is with tile t.
Zeroes(g, b, t) == Atomic(g, t) /\ b = High(g, t)
StageAt(g, s, p, b, t) ==
  IF t < TileIx(g, s) \/ (t = TileIx(g, s) /\ p = "next") THEN "done"
  ELSE IF t > TileIx(g, s) \/ p = "zero" \/ (p = "loop" /\ ~Zeroes(g, b, t))
  THEN "ahead"
  ELSE p
StagesAt(g, c, p, t) ==
  [b \in CTAs(g, t) |-> StageAt(g, c[b], p[b], b, t)]

\* A CTA holds the slice it walked to; its label goes with the tile's kind, and
\* its accumulators with the label.
LabelOK(g, b, t, p) ==
  /\ p \in {"zero", "publish"} => Zeroes(g, b, t)
  /\ p \in {"acquire", "load", "store", "release"} => Barrier(g, t)
  /\ p \in {"wait", "count"} => Atomic(g, t) /\ b < High(g, t)
  /\ p = "load" => b < High(g, t)
  /\ p = "store" => b > Low(g, t)
  /\ p = "write" /\ ~Atomic(g, t) => b = Low(g, t)
AccOK(g, b, t, s, p, a) ==
  /\ p \in {"zero", "publish", "loop"} => s.row + s.iters = To(g, b, t)
  /\ p \in {"acquire", "load", "wait", "count"} => a = <<Part(g, b, t)>>
  /\ p \in {"store", "release"} => a = Partial(g, b, t)
  /\ p = "write" =>
       a = IF Atomic(g, t) THEN <<Part(g, b, t)>> ELSE Partial(g, b, t)
CTAOK(g, b, s, p, a) ==
  IF p = "exit" THEN Over(g, b, s)
  ELSE /\ InHand(g, b, s)
       /\ LabelOK(g, b, TileIx(g, s), p)
       /\ AccOK(g, b, TileIx(g, s), s, p, a)

\* The cell of a barrier tile: its slot of C_tmp or, in the fp16 variant, its
\* place in C.
CellAt(g, m, o, t) == IF g.fp32Reduce THEN m[LockOf(g, t)] ELSE o[TileAt(g, t)]

TilesOK(g, c, p, lk, m, o) ==
  \A t \in Tile(g) :
    TileOK(g, t, StagesAt(g, c, p, t), lk[LockOf(g, t)], CellAt(g, m, o, t),
           o[TileAt(g, t)])

\* A lock that no shared tile uses is free.
UnusedFree(g, lk) ==
  \A l \in Slot :
    (\A t \in Tile(g) : Shared(g, t) => LockOf(g, t) # l) => lk[l] = 0

\* A stripe starts, and stays, at a quantisation group.
RowsGrouped ==
  geo.groupTiles > 0 /\ geo.kTiles % geo.groupTiles = 0 =>
    \A b \in CTA : cta[b].row % geo.groupTiles = 0

IInv ==
  /\ TypeOK
  /\ \A b \in CTA : CTAOK(geo, b, cta[b], pc[b], acc[b])
  /\ TilesOK(geo, cta, pc, locks, tmp, out)
  /\ UnusedFree(geo, locks)
  /\ RowsGrouped
  /\ geo.wholeK => tmp = FreshTmp

-----------------------------------------------------------------------------
(* A CTA and the tile it has in hand. *)

LEMMA HeldTile ==
  ASSUME NEW g \in Geometry, NEW b \in 0 .. g.grid - 1, NEW s,
         InHand(g, b, s)
  PROVE  LET t == TileIx(g, s) IN
         /\ t \in Tile(g) /\ b \in CTAs(g, t)
         /\ s \in SliceState
         /\ <<s.block, s.col>> = TileAt(g, t)
         /\ s.count > 1 <=> Shared(g, t)
         /\ s.count = High(g, t) - Low(g, t) + 1
         /\ s.idx = High(g, t) - b
         /\ Last(s) <=> b = Low(g, t)
         /\ s.idx # 0 <=> b # High(g, t)
         /\ s.row = From(g, b, t)
         /\ Shared(g, t) => s.lock = LockOf(g, t)
<1> DEFINE t == TileIx(g, s)
           low == Low(g, t)
           high == High(g, t)
<1>1. /\ t \in Tile(g) /\ Takes(g, b, t) /\ s \in SliceState
      /\ s.count = high - low + 1 /\ s.idx = high - b
      /\ s.row = From(g, b, t) /\ <<s.block, s.col>> = TileAt(g, t)
  BY DEF InHand
<1>2. b \in Nat /\ b \in CTAs(g, t) /\ low \in Nat /\ high \in Nat
      /\ low <= b /\ b <= high
  BY <1>1, CTAsType, GeometryTypes
<1>3. s.count > 1 <=> Shared(g, t)
  <2> HIDE DEF t
  <2>1. s.count > 1 <=> low < high
    <3> HIDE DEF low, high
    <3>1. QED  BY <1>1, <1>2
  <2>2. QED  BY <2>1 DEF Shared
<1>4. (Last(s) <=> b = low) /\ (s.idx # 0 <=> b # high)
  <2> HIDE DEF t, low, high
  <2>1. QED  BY <1>1, <1>2 DEF Last
<1>5. ASSUME Shared(g, t) PROVE s.lock = LockOf(g, t)
  <2>1. t >= Part1Tiles(g)  BY <1>1, <1>5, LocksOfTiles
  <2>2. CASE s.inPart2
    <3>1. s.lock = WalkLock(g, b, t)  BY <2>2 DEF InHand
    <3>2. QED  BY <1>1, <1>2, <1>5, <3>1, WalkLockIsLockOf
  <2>3. CASE ~s.inPart2
    <3> DEFINE j == Part1Iters(g) - s.part1 - 1
    <3>1. t = b + g.grid * j /\ s.part1 < Part1Iters(g)
      BY <2>3 DEF InHand, TileIx
    <3>2. Part1Iters(g) \in Nat /\ s.part1 \in Nat
      BY <1>1, PartitionTypes DEF SliceState
    <3>3. j \in Nat /\ j < Part1Iters(g)  BY <3>1, <3>2
    <3>4. b + g.grid * j < Part1Tiles(g)  BY <3>3, Part1Tile
    <3>5. t \in Nat /\ Part1Tiles(g) \in Nat
      BY <1>1, PartitionTypes DEF Tile
    <3> HIDE DEF t, j
    <3>6. t < Part1Tiles(g)  BY <3>1, <3>4
    <3>7. QED  BY <2>1, <3>5, <3>6
  <2>4. QED  BY <2>2, <2>3
<1>6. QED  BY <1>1, <1>2, <1>3, <1>4, <1>5

LEMMA StagesType ==
  ASSUME NEW g \in Geometry, NEW t \in Tile(g), NEW c,
         NEW p \in [0 .. g.grid - 1 -> Labels]
  PROVE  /\ StagesAt(g, c, p, t) \in [CTAs(g, t) -> Stages]
         /\ \A b \in CTAs(g, t) :
              StagesAt(g, c, p, t)[b] = StageAt(g, c[b], p[b], b, t)
<1>1. \A b \in CTAs(g, t) : b \in 0 .. g.grid - 1
  BY CTAsType, GeometryTypes
<1>2. \A b \in CTAs(g, t) : p[b] \in Labels  BY <1>1
<1>3. \A b \in CTAs(g, t) : StageAt(g, c[b], p[b], b, t) \in Stages
  BY <1>2 DEF StageAt, Stages
<1>4. QED  BY <1>3 DEF StagesAt

\* How far a CTA is with the tile in hand.
LEMMA StageHere ==
  ASSUME NEW g \in Geometry, NEW s, NEW p, NEW b, TileIx(g, s) \in Tile(g)
  PROVE  StageAt(g, s, p, b, TileIx(g, s)) =
           IF p = "next" THEN "done"
           ELSE IF p = "zero" \/ (p = "loop" /\ ~Zeroes(g, b, TileIx(g, s)))
           THEN "ahead"
           ELSE p
<1>1. TileIx(g, s) \in Nat  BY GeometryTypes DEF Tile
<1>2. QED  BY <1>1 DEF StageAt

\* A step of a CTA inside its tile, to label l, is a step of that tile alone.
MoveOf(g, b, c, p, d, q, l) ==
  /\ InHand(g, b, c[b])
  /\ \A a \in 0 .. g.grid - 1 : a # b => d[a] = c[a] /\ q[a] = p[a]
  /\ TileIx(g, d[b]) = TileIx(g, c[b])
  /\ q[b] = l /\ l # "zero"
  /\ l = "loop" => Zeroes(g, b, TileIx(g, c[b]))

\* The tile's stages after the step.
Moved(g, c, p, b, l) ==
  [StagesAt(g, c, p, TileIx(g, c[b])) EXCEPT
     ![b] = IF l = "next" THEN "done" ELSE l]

LEMMA MoveStages ==
  ASSUME NEW g \in Geometry, NEW c, NEW p, NEW b \in 0 .. g.grid - 1,
         NEW d, NEW q, NEW l, MoveOf(g, b, c, p, d, q, l)
  PROVE  LET t == TileIx(g, c[b])
         IN  /\ \A u \in Tile(g) : u # t =>
                  StagesAt(g, d, q, u) = StagesAt(g, c, p, u)
             /\ StagesAt(g, d, q, t) = Moved(g, c, p, b, l)
<1> DEFINE t == TileIx(g, c[b])
<1>1. t \in Tile(g) /\ b \in CTAs(g, t)  BY HeldTile DEF MoveOf
<1>2. \A u \in Tile(g) : u \in Int  BY GeometryTypes DEF Tile
<1>3. /\ q[b] = l /\ l # "zero" /\ (l = "loop" => Zeroes(g, b, t))
      /\ TileIx(g, d[b]) = t
      /\ \A a \in 0 .. g.grid - 1 : a # b => q[a] = p[a] /\ d[a] = c[a]
  BY DEF MoveOf
<1>4. \A u \in Tile(g) : \A a \in CTAs(g, u) : a \in 0 .. g.grid - 1
  BY CTAsType, GeometryTypes
<1>5. ASSUME NEW u \in Tile(g), NEW a \in CTAs(g, u), a # b
      PROVE  StageAt(g, d[a], q[a], a, u) = StageAt(g, c[a], p[a], a, u)
  BY <1>3, <1>4, <1>5
<1>6. ASSUME NEW u \in Tile(g), u # t
      PROVE  StageAt(g, d[b], q[b], b, u) = StageAt(g, c[b], p[b], b, u)
  <2>1. TileIx(g, d[b]) = t  BY <1>3
  <2> HIDE DEF t
  <2>2. u < t \/ u > t  BY <1>1, <1>2, <1>6
  <2>3. ~(u = t)  BY <1>6
  <2>4. TileIx(g, c[b]) = t  BY DEF t
  <2>5. u < t => StageAt(g, d[b], q[b], b, u) = "done"
                 /\ StageAt(g, c[b], p[b], b, u) = "done"
    BY <2>1, <2>4 DEF StageAt
  <2>6. u > t => /\ StageAt(g, d[b], q[b], b, u) = "ahead"
                 /\ StageAt(g, c[b], p[b], b, u) = "ahead"
    <3>1. u > t => ~(u < t)  BY <1>1, <1>2
    <3>2. QED  BY <1>6, <2>1, <2>4, <3>1 DEF StageAt
  <2>7. QED  BY <2>2, <2>5, <2>6
<1>7. ASSUME NEW u \in Tile(g), u # t
      PROVE  StagesAt(g, d, q, u) = StagesAt(g, c, p, u)
  <2>1. \A a \in CTAs(g, u) :
          StageAt(g, d[a], q[a], a, u) = StageAt(g, c[a], p[a], a, u)
    BY <1>5, <1>6, <1>7
  <2>2. QED  BY <2>1 DEF StagesAt
<1>8. StageAt(g, d[b], q[b], b, t) = IF l = "next" THEN "done" ELSE l
  BY <1>1, <1>3, StageHere
<1>9. StagesAt(g, d, q, t) =
        [StagesAt(g, c, p, t) EXCEPT ![b] = IF l = "next" THEN "done" ELSE l]
  <2> DEFINE x == StageAt(g, d[b], q[b], b, t)
             F == [StagesAt(g, c, p, t) EXCEPT ![b] = x]
  <2> HIDE DEF t
  <2>1. StagesAt(g, d, q, t) = F  BY <1>1, <1>5 DEF StagesAt
  <2>2. QED  BY <1>8, <2>1
<1>10. QED  BY <1>7, <1>9 DEF Moved

\* init_slice leaves a CTA at the beginning of a tile, or at its end: the tiles
\* before it are done, that one and the rest are ahead.
LEMMA InitSliceStages ==
  ASSUME NEW g \in Geometry, NEW b \in 0 .. g.grid - 1, NEW s, Ready(g, b, s)
  PROVE  LET r == InitSlice(g, b, s)
             l == AfterInitSlice(g, s, r)
         IN  /\ r \in SliceState /\ l \in Labels
             /\ CTAOK(g, b, r, l, <<>>)
             /\ \A u \in Tile(g) : b \in CTAs(g, u) =>
                  StageAt(g, r, l, b, u) =
                    IF u < Reach(g, s) THEN "done" ELSE "ahead"
<1> DEFINE r == InitSlice(g, b, s)
           l == AfterInitSlice(g, s, r)
           t == TileIx(g, r)
<1> HIDE DEF r
<1>1. Walks(g, b, s, r)  BY InitSliceWalk DEF r
<1>2. r \in SliceState  BY <1>1 DEF Walks, InHand, Over
<1>3. l \in {"zero", "loop", "exit"}  BY DEF AfterInitSlice
<1>4. r.iters \in Nat  BY <1>2 DEF SliceState
<1>5. l = "exit" <=> r.iters = 0
  <2>1. r.iters = 0 => ~ZeroesTile(g, s, r)  BY <1>4 DEF ZeroesTile
  <2>2. QED  BY <1>4, <2>1 DEF AfterInitSlice
<1>6. l = "zero" <=> ZeroesTile(g, s, r)  BY DEF AfterInitSlice
<1>7. l # "exit" => /\ InHand(g, b, r) /\ r.row + r.iters = To(g, b, t)
                    /\ l = "zero" <=> Zeroes(g, b, t)
  <2> SUFFICES ASSUME l # "exit"
               PROVE  /\ InHand(g, b, r) /\ r.row + r.iters = To(g, b, t)
                      /\ l = "zero" <=> Zeroes(g, b, t)
    OBVIOUS
  <2>1. r.iters > 0  BY <1>4, <1>5
  <2>2. r.iters # 0  BY <1>5
  <2>3. InHand(g, b, r) /\ r.row + r.iters = To(g, b, t)
    BY <1>1, <2>2 DEF Walks
  <2>4. ZeroesTile(g, s, r) <=> Zeroes(g, b, t)
    BY <1>1, <2>1 DEF Walks, Zeroes, Atomic
  <2>5. QED  BY <1>6, <2>3, <2>4
<1>8. l = "exit" => Over(g, b, r)
  BY <1>1, <1>4, <1>5 DEF Walks
<1>9. CTAOK(g, b, r, l, <<>>)
  <2>1. CASE l = "exit"  BY <1>8, <2>1 DEF CTAOK
  <2>2. CASE l # "exit"
    <3> HIDE DEF t, l
    <3>1. LabelOK(g, b, t, l)  BY <1>3, <1>7, <2>2 DEF LabelOK
    <3>2. AccOK(g, b, t, r, l, <<>>)  BY <1>3, <1>7, <2>2 DEF AccOK
    <3>3. QED  BY <1>7, <2>2, <3>1, <3>2 DEF CTAOK, t
  <2>3. QED  BY <2>1, <2>2
<1>10. ASSUME NEW u \in Tile(g), b \in CTAs(g, u)
       PROVE  StageAt(g, r, l, b, u) =
                IF u < Reach(g, s) THEN "done" ELSE "ahead"
  <2>1. Takes(g, b, u)  BY <1>10, CTAsType
  <2>2. u < t <=> u < Reach(g, s)  BY <1>1, <2>1 DEF Walks
  <2>3. l = "exit" => u < t  BY <1>8, <2>1 DEF Over
  <2>4. u \in Int /\ t \in Int
    <3>1. u \in Int /\ Part1Tiles(g) \in Nat
      BY GeometryTypes, PartitionTypes DEF Tile
    <3>2. r.colPar \in Nat  BY <1>2 DEF SliceState
    <3>3. QED  BY <3>1, <3>2 DEF TileIx
  <2>5. l # "exit" /\ u = t => l = "zero" \/ (l = "loop" /\ ~Zeroes(g, b, u))
    BY <1>3, <1>7
  <2> HIDE DEF t, l
  <2>6. t = TileIx(g, r)  BY DEF t
  <2>7. CASE u < t  BY <2>2, <2>6, <2>7 DEF StageAt
  <2>8. CASE ~(u < t)
    <3>1. u > t \/ u = t  BY <2>4, <2>8
    <3>2. l # "next" /\ l # "exit"  BY <1>3, <2>3, <2>8
    <3>3. StageAt(g, r, l, b, u) = "ahead"
      BY <2>5, <2>6, <2>8, <3>1, <3>2 DEF StageAt
    <3>4. QED  BY <2>2, <2>8, <3>3
  <2>9. QED  BY <2>7, <2>8
<1>11. l \in Labels  BY <1>3 DEF Labels
<1>12. QED  BY <1>2, <1>9, <1>10, <1>11 DEF r

\* The step to the next tile changes nothing for any tile.
LEMMA NextSliceStages ==
  ASSUME NEW g \in Geometry, NEW c, NEW p \in [0 .. g.grid - 1 -> Labels],
         NEW b \in 0 .. g.grid - 1, InHand(g, b, c[b]), p[b] = "next",
         c \in [0 .. g.grid - 1 -> SliceState]
  PROVE  LET before == StepColumn(g, c[b])
             after  == InitSlice(g, b, before)
             l      == AfterInitSlice(g, before, after)
             d      == [c EXCEPT ![b] = after]
             q      == [p EXCEPT ![b] = l]
         IN  /\ after \in SliceState /\ l \in Labels
             /\ CTAOK(g, b, after, l, <<>>)
             /\ \A u \in Tile(g) : StagesAt(g, d, q, u) = StagesAt(g, c, p, u)
<1> DEFINE before == StepColumn(g, c[b])
           after  == InitSlice(g, b, before)
           l      == AfterInitSlice(g, before, after)
           d      == [c EXCEPT ![b] = after]
           q      == [p EXCEPT ![b] = l]
           t      == TileIx(g, c[b])
<1>1. /\ Ready(g, b, before)
      /\ \A u \in Tile(g) : Takes(g, b, u) => (u < Reach(g, before) <=> u <= t)
  BY StepWalk
<1> HIDE DEF before
<1>2. /\ after \in SliceState /\ l \in Labels
      /\ CTAOK(g, b, after, l, <<>>)
      /\ \A u \in Tile(g) : b \in CTAs(g, u) =>
           StageAt(g, after, l, b, u) =
             IF u < Reach(g, before) THEN "done" ELSE "ahead"
  BY <1>1, InitSliceStages
<1> HIDE DEF after, l
<1>3. d[b] = after /\ q[b] = l
      /\ \A a \in 0 .. g.grid - 1 : a # b => d[a] = c[a] /\ q[a] = p[a]
  OBVIOUS
<1> HIDE DEF d, q
<1>4. ASSUME NEW u \in Tile(g), NEW a \in CTAs(g, u)
      PROVE  StageAt(g, d[a], q[a], a, u) = StageAt(g, c[a], p[a], a, u)
  <2>1. a \in 0 .. g.grid - 1 /\ Takes(g, a, u)
    BY CTAsType, GeometryTypes
  <2>2. CASE a # b  BY <1>3, <2>1, <2>2
  <2>3. CASE a = b
    <3>1. u \in Int /\ t \in Int  BY HeldTile, GeometryTypes DEF Tile
    <3>2. u < Reach(g, before) <=> u <= t  BY <1>1, <2>1, <2>3
    <3>3. StageAt(g, d[b], q[b], b, u) =
            IF u <= t THEN "done" ELSE "ahead"
      BY <1>2, <1>3, <2>3, <3>2
    <3> HIDE DEF t
    <3>4. t = TileIx(g, c[b])  BY DEF t
    <3>5. StageAt(g, c[b], p[b], b, u) = IF u <= t THEN "done" ELSE "ahead"
      <4>1. CASE u <= t
        <5>1. u < t \/ u = t  BY <3>1, <4>1
        <5>2. QED  BY <3>4, <4>1, <5>1 DEF StageAt
      <4>2. CASE ~(u <= t)
        <5>1. u > t /\ ~(u < t) /\ u # t  BY <3>1, <4>2
        <5>2. QED  BY <3>4, <4>2, <5>1 DEF StageAt
      <4>3. QED  BY <4>1, <4>2
    <3>6. QED  BY <2>3, <3>3, <3>5
  <2>4. QED  BY <2>2, <2>3
<1>5. \A u \in Tile(g) : StagesAt(g, d, q, u) = StagesAt(g, c, p, u)
  BY <1>4 DEF StagesAt
<1>6. QED  BY <1>2, <1>5 DEF after, l, d, q, before

\* At the start of a launch every tile is ahead of every CTA.
LEMMA FirstStages ==
  ASSUME NEW g \in Geometry, NEW b \in 0 .. g.grid - 1
  PROVE  LET r == InitSlice(g, b, Prologue(g, b))
             l == AfterInitSlice(g, Prologue(g, b), r)
         IN  /\ r \in SliceState /\ l \in Labels
             /\ CTAOK(g, b, r, l, <<>>)
             /\ \A u \in Tile(g) :
                  b \in CTAs(g, u) => StageAt(g, r, l, b, u) = "ahead"
<1>1. /\ Ready(g, b, Prologue(g, b))
      /\ \A u \in Tile(g) :
           Takes(g, b, u) => ~(u < Reach(g, Prologue(g, b)))
  BY PrologueReady
<1>2. \A u \in Tile(g) : b \in CTAs(g, u) => Takes(g, b, u)
  BY CTAsType
<1>3. QED  BY <1>1, <1>2, InitSliceStages

-----------------------------------------------------------------------------
(* The start of a launch. *)

LEMMA Places ==
  ASSUME NEW g \in Geometry, NEW t \in Tile(g)
  PROVE  TileAt(g, t) \in Tiles(g)
BY TilePlace DEF TileAt, Tiles

LEMMA SharedLock ==
  ASSUME NEW g \in Geometries, NEW t \in Tile(g), Shared(g, t)
  PROVE  /\ g \in Geometry
         /\ LockOf(g, t) \in 0 .. g.grid - 1
         /\ LockOf(g, t) \in Slot
         /\ LockOf(g, t) < GlobalTiles(g)
<1>1. g \in Geometry  BY GeometriesAssumption
<1>2. g.grid \in Nat /\ g.grid <= Slots /\ Slots \in Nat
  BY <1>1, GeometryTypes, SlotsAssumption
<1>3. QED  BY <1>1, <1>2, LocksOfTiles DEF Slot

LEMMA UnsharedTile ==
  ASSUME NEW g, NEW t, ~Shared(g, t), NEW st, NEW lk, NEW cell, NEW o
  PROVE  TileOK(g, t, st, lk, cell, o) <=> SingleOK(g, t, st, o)
BY DEF TileOK, Barrier, Atomic

LEMMA Types ==
  /\ <<>> \in Sum /\ <<Stale>> \in Sum /\ Stale \in Term /\ Bias \in Term
  /\ FreshTmp \in [Slot -> Sum]
<1>1. Stale \in Term /\ Bias \in Term  BY DEF Stale, Bias, Term
<1>2. <<>> \in Sum /\ <<Stale>> \in Sum  BY <1>1 DEF Sum
<1>3. QED  BY <1>1, <1>2 DEF FreshTmp

Started(g, c, p, a, o) ==
  /\ c = [b \in 0 .. g.grid - 1 |-> InitSlice(g, b, Prologue(g, b))]
  /\ p = [b \in 0 .. g.grid - 1 |->
            AfterInitSlice(g, Prologue(g, b), InitSlice(g, b, Prologue(g, b)))]
  /\ a = [b \in 0 .. g.grid - 1 |-> <<>>]
  /\ o = [t \in Tiles(g) |-> <<Stale>>]

LEMMA StartOK ==
  ASSUME NEW g \in Geometries, NEW c, NEW p, NEW a, NEW o, NEW lk, NEW m,
         Started(g, c, p, a, o),
         \A l \in Slot : lk[l] = 0
  PROVE  /\ g \in Geometry
         /\ c \in [0 .. g.grid - 1 -> SliceState]
         /\ p \in [0 .. g.grid - 1 -> Labels]
         /\ a \in [0 .. g.grid - 1 -> Sum]
         /\ o \in [Tiles(g) -> Sum]
         /\ \A b \in 0 .. g.grid - 1 : CTAOK(g, b, c[b], p[b], a[b])
         /\ TilesOK(g, c, p, lk, m, o)
         /\ UnusedFree(g, lk)
         /\ g.groupTiles > 0 /\ g.kTiles % g.groupTiles = 0 =>
              \A b \in 0 .. g.grid - 1 : c[b].row % g.groupTiles = 0
<1>1. g \in Geometry  BY GeometriesAssumption
<1>2. \A b \in 0 .. g.grid - 1 :
        /\ c[b] = InitSlice(g, b, Prologue(g, b))
        /\ p[b] = AfterInitSlice(g, Prologue(g, b), c[b])
        /\ a[b] = <<>>
  BY DEF Started
<1>3. \A b \in 0 .. g.grid - 1 :
        /\ c[b] \in SliceState /\ p[b] \in Labels
        /\ CTAOK(g, b, c[b], p[b], <<>>)
        /\ \A u \in Tile(g) :
             b \in CTAs(g, u) => StageAt(g, c[b], p[b], b, u) = "ahead"
  BY <1>1, <1>2, FirstStages
<1>4. c \in [0 .. g.grid - 1 -> SliceState]
  <2>1. DOMAIN c = 0 .. g.grid - 1
        /\ c = [b \in 0 .. g.grid - 1 |-> c[b]]
    BY DEF Started
  <2>2. QED  BY <1>3, <2>1
<1>5. p \in [0 .. g.grid - 1 -> Labels]
  <2>1. p = [b \in 0 .. g.grid - 1 |-> p[b]]
    BY DEF Started
  <2>2. QED  BY <1>3, <2>1
<1>6. a \in [0 .. g.grid - 1 -> Sum] /\ o \in [Tiles(g) -> Sum]
  BY Types DEF Started
<1>7. TilesOK(g, c, p, lk, m, o)
  <2> SUFFICES ASSUME NEW t \in Tile(g)
               PROVE  TileOK(g, t, StagesAt(g, c, p, t), lk[LockOf(g, t)],
                             CellAt(g, m, o, t), o[TileAt(g, t)])
    BY DEF TilesOK
  <2> DEFINE st == StagesAt(g, c, p, t)
  <2>1. \A b \in CTAs(g, t) : st[b] = "ahead"
    <3>1. \A b \in CTAs(g, t) : b \in 0 .. g.grid - 1
      BY <1>1, CTAsType, GeometryTypes
    <3>2. \A b \in CTAs(g, t) : st[b] = StageAt(g, c[b], p[b], b, t)
      BY DEF StagesAt
    <3>3. QED  BY <1>3, <3>1, <3>2
  <2> HIDE DEF st
  <2>2. o[TileAt(g, t)] = <<Stale>>  BY <1>1, Places DEF Started
  <2>3. TileOK(g, t, st, 0, CellAt(g, m, o, t), <<Stale>>)
    BY <1>1, <2>1, FreshTile
  <2>4. CASE Shared(g, t)
    <3>1. lk[LockOf(g, t)] = 0  BY <2>4, SharedLock
    <3>2. QED  BY <2>2, <2>3, <3>1 DEF st
  <2>5. CASE ~Shared(g, t)
    BY <2>2, <2>3, <2>5, UnsharedTile DEF st
  <2>6. QED  BY <2>4, <2>5
<1>8. UnusedFree(g, lk)  BY DEF UnusedFree
<1>9. ASSUME g.groupTiles > 0, g.kTiles % g.groupTiles = 0,
             NEW b \in 0 .. g.grid - 1
      PROVE  c[b].row % g.groupTiles = 0
  <2>1. Prologue(g, b) \in SliceState /\ Prologue(g, b).row = 0
    BY <1>1, PrologueReady DEF Ready
  <2>2. b \in Nat  BY <1>1, GeometryTypes
  <2>3. InitSlice(g, b, Prologue(g, b)).row % g.groupTiles = 0
    BY <1>1, <1>9, <2>1, <2>2, GroupedRow
  <2>4. QED  BY <1>2, <2>3
<1>10. QED  BY <1>1, <1>3, <1>2, <1>4, <1>5, <1>6, <1>7, <1>8, <1>9

LEMMA InitInv == Init => IInv
<1> SUFFICES ASSUME Init PROVE IInv
  OBVIOUS
<1>1. /\ geo \in Geometries
      /\ Started(geo, cta, pc, acc, out)
      /\ locks = [l \in Slot |-> 0] /\ tmp = FreshTmp
  BY DEF Init, CTA, Started
<1>2. locks \in [Slot -> Int] /\ tmp \in [Slot -> Sum]
      /\ \A l \in Slot : locks[l] = 0
  BY <1>1, Types
<1>3. /\ cta \in [0 .. geo.grid - 1 -> SliceState]
      /\ pc \in [0 .. geo.grid - 1 -> Labels]
      /\ acc \in [0 .. geo.grid - 1 -> Sum]
      /\ out \in [Tiles(geo) -> Sum]
      /\ \A b \in 0 .. geo.grid - 1 : CTAOK(geo, b, cta[b], pc[b], acc[b])
      /\ TilesOK(geo, cta, pc, locks, tmp, out)
      /\ UnusedFree(geo, locks)
      /\ geo.groupTiles > 0 /\ geo.kTiles % geo.groupTiles = 0 =>
           \A b \in 0 .. geo.grid - 1 : cta[b].row % geo.groupTiles = 0
  BY <1>1, <1>2, StartOK
<1>4. QED  BY <1>1, <1>2, <1>3 DEF IInv, TypeOK, RowsGrouped, CTA

\* Between launches every lock is free.
LEMMA ExitedClean ==
  ASSUME IInv, \A b \in CTA : pc[b] = "exit"
  PROVE  /\ \A l \in Slot : locks[l] = 0
         /\ \A t \in Tile(geo) : \A b \in CTAs(geo, t) :
              StagesAt(geo, cta, pc, t)[b] = "done"
<1>1. geo \in Geometries /\ geo \in Geometry
      /\ pc \in [0 .. geo.grid - 1 -> Labels]
  BY GeometriesAssumption DEF IInv, TypeOK, CTA
<1>2. ASSUME NEW t \in Tile(geo), NEW b \in CTAs(geo, t)
      PROVE  StagesAt(geo, cta, pc, t)[b] = "done"
  <2>1. b \in CTA /\ Takes(geo, b, t)
    BY <1>1, CTAsType, GeometryTypes DEF CTA
  <2>2. Over(geo, b, cta[b])  BY <2>1 DEF IInv, CTAOK
  <2>3. t < TileIx(geo, cta[b])  BY <2>1, <2>2 DEF Over
  <2>4. QED  BY <2>3 DEF StagesAt, StageAt
<1>3. ASSUME NEW l \in Slot PROVE locks[l] = 0
  <2>1. CASE \E t \in Tile(geo) : Shared(geo, t) /\ LockOf(geo, t) = l
    <3>1. PICK t \in Tile(geo) : Shared(geo, t) /\ LockOf(geo, t) = l
      BY <2>1
    <3>2. TileOK(geo, t, StagesAt(geo, cta, pc, t), locks[l],
                 CellAt(geo, tmp, out, t), out[TileAt(geo, t)])
      BY <3>1 DEF IInv, TilesOK
    <3>3. QED  BY <1>1, <1>2, <3>1, <3>2, DoneTile
  <2>2. CASE ~\E t \in Tile(geo) : Shared(geo, t) /\ LockOf(geo, t) = l
    BY <2>2 DEF IInv, UnusedFree
  <2>3. QED  BY <2>1, <2>2
<1>4. QED  BY <1>2, <1>3

LEMMA LaunchInv ==
  ASSUME IInv, Launch
  PROVE  IInv'
<1>1. /\ geo' \in Geometries
      /\ Started(geo', cta', pc', acc', out')
      /\ locks' = locks /\ tmp' = FreshTmp
  BY DEF Launch, Start, Started
<1>2. \A b \in CTA : pc[b] = "exit"  BY DEF Launch
<1>3. locks' \in [Slot -> Int] /\ tmp' \in [Slot -> Sum]
      /\ \A l \in Slot : locks'[l] = 0
  BY <1>1, <1>2, ExitedClean, Types DEF IInv, TypeOK
<1>4. /\ cta' \in [0 .. geo'.grid - 1 -> SliceState]
      /\ pc' \in [0 .. geo'.grid - 1 -> Labels]
      /\ acc' \in [0 .. geo'.grid - 1 -> Sum]
      /\ out' \in [Tiles(geo') -> Sum]
      /\ \A b \in 0 .. geo'.grid - 1 : CTAOK(geo', b, cta'[b], pc'[b], acc'[b])
      /\ TilesOK(geo', cta', pc', locks', tmp', out')
      /\ UnusedFree(geo', locks')
      /\ geo'.groupTiles > 0 /\ geo'.kTiles % geo'.groupTiles = 0 =>
           \A b \in 0 .. geo'.grid - 1 : cta'[b].row % geo'.groupTiles = 0
  BY <1>1, <1>3, StartOK
<1>5. QED  BY <1>1, <1>3, <1>4 DEF IInv, TypeOK, RowsGrouped, CTA, Slot, FreshTmp

-----------------------------------------------------------------------------
(* A step of a CTA inside its tile. *)

SameBut(f, e, S, x) == \A y \in S : y # x => e[y] = f[y]

Moves(b, l) ==
  /\ pc[b] \notin {"next", "exit"} /\ InHand(geo, b, cta[b])
  /\ l \in Labels \ {"zero", "exit"}
  /\ l = "loop" => Zeroes(geo, b, TileIx(geo, cta[b]))
  /\ geo' = geo
  /\ pc' = [pc EXCEPT ![b] = l]
  /\ cta' \in [CTA -> SliceState] /\ SameBut(cta, cta', CTA, b)
  /\ TileIx(geo, cta'[b]) = TileIx(geo, cta[b])
  /\ cta'[b].row = cta[b].row

LEMMA MovesStages ==
  ASSUME IInv, NEW b \in CTA, NEW l, Moves(b, l)
  PROVE  LET t == TileIx(geo, cta[b])
         IN  /\ t \in Tile(geo) /\ b \in CTAs(geo, t)
             /\ \A u \in Tile(geo) : u # t =>
                  StagesAt(geo, cta', pc', u) = StagesAt(geo, cta, pc, u)
             /\ StagesAt(geo, cta', pc', t) = Moved(geo, cta, pc, b, l)
<1>1. geo \in Geometry /\ pc \in [0 .. geo.grid - 1 -> Labels]
      /\ b \in 0 .. geo.grid - 1
  BY GeometriesAssumption DEF IInv, TypeOK, CTA
<1>2. InHand(geo, b, cta[b])  BY DEF Moves
<1>3. TileIx(geo, cta[b]) \in Tile(geo) /\ b \in CTAs(geo, TileIx(geo, cta[b]))
  BY <1>1, <1>2, HeldTile
<1>4. MoveOf(geo, b, cta, pc, cta', pc', l)
  BY <1>1 DEF Moves, SameBut, CTA, MoveOf
<1>5. QED  BY <1>1, <1>2, <1>3, <1>4, MoveStages

\* Such a step keeps the invariant when it keeps its tile's and its CTA's part
\* of it and touches only the tile's lock, cell and place.
Touches(b) ==
  LET t == TileIx(geo, cta[b]) IN
  /\ acc' \in [CTA -> Sum] /\ SameBut(acc, acc', CTA, b)
  /\ locks' \in [Slot -> Int]
  /\ locks' = locks \/ (Shared(geo, t)
                        /\ SameBut(locks, locks', Slot, LockOf(geo, t)))
  /\ tmp' \in [Slot -> Sum]
  /\ tmp' = tmp \/ (Shared(geo, t)
                    /\ SameBut(tmp, tmp', Slot, LockOf(geo, t)))
  /\ out' \in [Tiles(geo) -> Sum]
  /\ SameBut(out, out', Tiles(geo), TileAt(geo, t))
TileKept(b, l) ==
  LET t == TileIx(geo, cta[b]) IN
  TileOK(geo, t, Moved(geo, cta, pc, b, l), locks'[LockOf(geo, t)],
         CellAt(geo, tmp', out', t), out'[TileAt(geo, t)])

LEMMA TileStep ==
  ASSUME IInv, NEW b \in CTA, NEW l, Moves(b, l), Touches(b),
         TileKept(b, l), CTAOK(geo, b, cta'[b], l, acc'[b])
  PROVE  IInv'
<1> DEFINE t == TileIx(geo, cta[b])
<1>1. /\ geo \in Geometries /\ geo \in Geometry /\ geo' = geo
      /\ pc \in [CTA -> Labels] /\ b \in CTA
  BY GeometriesAssumption DEF IInv, TypeOK, Moves
<1>2. /\ t \in Tile(geo) /\ b \in CTAs(geo, t)
      /\ \A u \in Tile(geo) : u # t =>
           StagesAt(geo, cta', pc', u) = StagesAt(geo, cta, pc, u)
      /\ StagesAt(geo, cta', pc', t) = Moved(geo, cta, pc, b, l)
  BY MovesStages
<1>3. TypeOK'
  <2>1. pc' \in [CTA -> Labels]  BY <1>1 DEF Moves
  <2>2. cta' \in [CTA -> SliceState]  BY DEF Moves
  <2>3. QED  BY <1>1, <2>1, <2>2 DEF TypeOK, Touches, CTA, Slot
<1>4. ASSUME NEW a \in CTA
      PROVE  CTAOK(geo, a, cta'[a], pc'[a], acc'[a])
  <2>1. CASE a = b
    <3>1. pc'[b] = l  BY <1>1 DEF Moves
    <3>2. QED  BY <2>1, <3>1
  <2>2. CASE a # b
    <3>1. cta'[a] = cta[a] /\ pc'[a] = pc[a] /\ acc'[a] = acc[a]
      BY <1>1, <2>2 DEF Moves, Touches, SameBut
    <3>2. CTAOK(geo, a, cta[a], pc[a], acc[a])  BY DEF IInv
    <3>3. QED  BY <3>1, <3>2
  <2>3. QED  BY <2>1, <2>2
<1> HIDE DEF t
<1>5. ASSUME NEW u \in Tile(geo)
      PROVE  TileOK(geo, u, StagesAt(geo, cta', pc', u), locks'[LockOf(geo, u)],
                    CellAt(geo, tmp', out', u), out'[TileAt(geo, u)])
  <2>1. CASE u = t  BY <1>2, <2>1 DEF TileKept, t
  <2>2. CASE u # t
    <3>1. TileOK(geo, u, StagesAt(geo, cta, pc, u), locks[LockOf(geo, u)],
                 CellAt(geo, tmp, out, u), out[TileAt(geo, u)])
      BY DEF IInv, TilesOK
    <3>2. out'[TileAt(geo, u)] = out[TileAt(geo, u)]
      <4>1. TileAt(geo, u) \in Tiles(geo)  BY <1>1, Places
      <4>2. TileAt(geo, u) # TileAt(geo, t)
        BY <1>1, <1>2, <2>2, TileAtInjective
      <4>3. QED  BY <4>1, <4>2 DEF Touches, SameBut, t
    <3>3. CASE Shared(geo, u)
      <4>1. LockOf(geo, u) \in Slot  BY <1>1, <3>3, SharedLock
      <4>2. Shared(geo, t) => LockOf(geo, u) # LockOf(geo, t)
        BY <1>1, <1>2, <2>2, <3>3, LocksOfTiles
      <4>3. locks'[LockOf(geo, u)] = locks[LockOf(geo, u)]
        BY <4>1, <4>2 DEF Touches, SameBut, t
      <4>4. tmp'[LockOf(geo, u)] = tmp[LockOf(geo, u)]
        BY <4>1, <4>2 DEF Touches, SameBut, t
      <4>5. CellAt(geo, tmp', out', u) = CellAt(geo, tmp, out, u)
        BY <3>2, <4>4 DEF CellAt
      <4>6. QED  BY <1>2, <2>2, <3>1, <3>2, <4>3, <4>5
    <3>4. CASE ~Shared(geo, u)
      <4>1. SingleOK(geo, u, StagesAt(geo, cta', pc', u), out'[TileAt(geo, u)])
        BY <1>2, <2>2, <3>1, <3>2, <3>4, UnsharedTile
      <4>2. QED  BY <3>4, <4>1, UnsharedTile
    <3>5. QED  BY <3>3, <3>4
  <2>3. QED  BY <2>1, <2>2
<1>6. UnusedFree(geo, locks')
  <2> SUFFICES ASSUME NEW k \in Slot,
                      \A u \in Tile(geo) : Shared(geo, u) => LockOf(geo, u) # k
               PROVE  locks'[k] = 0
    BY DEF UnusedFree
  <2>1. locks[k] = 0  BY DEF IInv, UnusedFree
  <2>2. Shared(geo, t) => k # LockOf(geo, t)  BY <1>2
  <2>3. QED  BY <2>1, <2>2 DEF Touches, SameBut, t
<1>7. RowsGrouped'
  <2>1. \A a \in CTA : cta'[a].row = cta[a].row
    BY DEF Moves, SameBut
  <2>2. QED  BY <1>1, <2>1 DEF IInv, RowsGrouped, CTA
<1>8. geo.wholeK => tmp' = FreshTmp
  <2>1. geo.wholeK => ~Shared(geo, t)  BY <1>1, <1>2, WholeKUnshared
  <2>2. QED  BY <2>1 DEF IInv, Touches, t
<1>9. QED
  <2>1. \A a \in CTA' : CTAOK(geo', a, cta'[a], pc'[a], acc'[a])
    BY <1>1, <1>4 DEF CTA
  <2>2. TilesOK(geo', cta', pc', locks', tmp', out')
    BY <1>1, <1>5 DEF TilesOK
  <2>3. geo'.wholeK => tmp' = FreshTmp'  BY <1>1, <1>8 DEF FreshTmp, Slot
  <2>4. UnusedFree(geo, locks)'  BY <1>1, <1>6 DEF UnusedFree, Slot
  <2>5. QED  BY <1>3, <1>7, <2>1, <2>2, <2>3, <2>4 DEF IInv

\* What a CTA b that has not exited knows of its tile t and the tile's stages.
InTile(b, t, st) ==
  /\ t = TileIx(geo, cta[b]) /\ st = StagesAt(geo, cta, pc, t)
  /\ geo \in Geometry /\ t \in Tile(geo) /\ b \in CTAs(geo, t)
  /\ b \in Nat /\ Low(geo, t) \in Nat /\ High(geo, t) \in Nat
  /\ Low(geo, t) <= b /\ b <= High(geo, t)
  /\ Low(geo, t) \in CTAs(geo, t) /\ High(geo, t) \in CTAs(geo, t)
  /\ InHand(geo, b, cta[b])
  /\ cta[b] \in SliceState
  /\ TileOf(b) = TileAt(geo, t) /\ TileAt(geo, t) \in Tiles(geo)
  /\ cta[b].count > 1 <=> Shared(geo, t)
  /\ cta[b].count = High(geo, t) - Low(geo, t) + 1
  /\ cta[b].idx = High(geo, t) - b
  /\ Last(cta[b]) <=> b = Low(geo, t)
  /\ cta[b].idx # 0 <=> b # High(geo, t)
  /\ cta[b].row = From(geo, b, t)
  /\ Shared(geo, t) =>
       cta[b].lock = LockOf(geo, t) /\ LockOf(geo, t) \in Slot
  /\ LabelOK(geo, b, t, pc[b])
  /\ AccOK(geo, b, t, cta[b], pc[b], acc[b])
  /\ st \in [CTAs(geo, t) -> Stages]
  /\ st[b] = IF pc[b] = "next" THEN "done"
             ELSE IF pc[b] = "zero" \/ (pc[b] = "loop" /\ ~Zeroes(geo, b, t))
             THEN "ahead"
             ELSE pc[b]
  /\ TileOK(geo, t, st, locks[LockOf(geo, t)], CellAt(geo, tmp, out, t),
            out[TileAt(geo, t)])

LEMMA Here ==
  ASSUME IInv, NEW b \in CTA, pc[b] # "exit"
  PROVE  \E t, st : InTile(b, t, st)
<1> DEFINE t == TileIx(geo, cta[b])
           st == StagesAt(geo, cta, pc, t)
<1>1. /\ geo \in Geometries /\ geo \in Geometry
      /\ pc \in [0 .. geo.grid - 1 -> Labels] /\ b \in 0 .. geo.grid - 1
  BY GeometriesAssumption DEF IInv, TypeOK, CTA
<1>2. /\ InHand(geo, b, cta[b])
      /\ LabelOK(geo, b, t, pc[b])
      /\ AccOK(geo, b, t, cta[b], pc[b], acc[b])
  BY DEF IInv, CTAOK
<1>3. /\ t \in Tile(geo) /\ b \in CTAs(geo, t)
      /\ cta[b] \in SliceState
      /\ <<cta[b].block, cta[b].col>> = TileAt(geo, t)
      /\ cta[b].count > 1 <=> Shared(geo, t)
      /\ cta[b].count = High(geo, t) - Low(geo, t) + 1
      /\ cta[b].idx = High(geo, t) - b
      /\ Last(cta[b]) <=> b = Low(geo, t)
      /\ cta[b].idx # 0 <=> b # High(geo, t)
      /\ cta[b].row = From(geo, b, t)
      /\ Shared(geo, t) => cta[b].lock = LockOf(geo, t)
  BY <1>1, <1>2, HeldTile
<1>4. /\ st \in [CTAs(geo, t) -> Stages]
      /\ st[b] = StageAt(geo, cta[b], pc[b], b, t)
  BY <1>1, <1>3, StagesType
<1>5. StageAt(geo, cta[b], pc[b], b, t) =
        IF pc[b] = "next" THEN "done"
        ELSE IF pc[b] = "zero" \/ (pc[b] = "loop" /\ ~Zeroes(geo, b, t))
        THEN "ahead"
        ELSE pc[b]
  BY <1>1, <1>3, StageHere
<1>6. TileOK(geo, t, st, locks[LockOf(geo, t)], CellAt(geo, tmp, out, t),
             out[TileAt(geo, t)])
  BY <1>3 DEF IInv, TilesOK
<1> HIDE DEF t, st
<1>7. /\ b \in Nat /\ Low(geo, t) \in Nat /\ High(geo, t) \in Nat
      /\ Low(geo, t) <= b /\ b <= High(geo, t)
      /\ Low(geo, t) \in CTAs(geo, t) /\ High(geo, t) \in CTAs(geo, t)
  BY <1>1, <1>3, CTAsType
<1>8. Shared(geo, t) => LockOf(geo, t) \in Slot
  BY <1>1, <1>3, SharedLock
<1>9. TileOf(b) = TileAt(geo, t) /\ TileAt(geo, t) \in Tiles(geo)
  BY <1>1, <1>3, Places DEF TileOf
<1>10. t = TileIx(geo, cta[b]) /\ st = StagesAt(geo, cta, pc, t)
  BY DEF t, st
<1>11. InTile(b, t, st)
  BY <1>1, <1>2, <1>3, <1>4, <1>5, <1>6, <1>7, <1>8, <1>9, <1>10 DEF InTile
<1>12. QED  BY <1>11

\* Most steps leave the CTA's slice alone.
LEMMA Stays ==
  ASSUME IInv, NEW b \in CTA, NEW t, NEW st, InTile(b, t, st),
         NEW l \in Labels \ {"zero", "exit"},
         pc[b] # "next", pc[b] # "exit", l = "loop" => Zeroes(geo, b, t),
         geo' = geo, cta' = cta, Goto(b, l)
  PROVE  Moves(b, l)
BY DEF Goto, Moves, InTile, SameBut, IInv, TypeOK

LEMMA Kept ==
  ASSUME NEW b, NEW t, NEW st, InTile(b, t, st), NEW l,
         TileOK(geo, t,
                [st EXCEPT ![b] = IF l = "next" THEN "done" ELSE l],
                locks'[LockOf(geo, t)],
                CellAt(geo, tmp', out', t), out'[TileAt(geo, t)])
  PROVE  TileKept(b, l)
BY DEF TileKept, Moved, InTile

LEMMA Held ==
  ASSUME IInv, NEW b \in CTA, NEW t, NEW st, InTile(b, t, st),
         NEW l, l # "exit", cta' = cta,
         LabelOK(geo, b, t, l), AccOK(geo, b, t, cta[b], l, acc'[b])
  PROVE  CTAOK(geo, b, cta'[b], l, acc'[b])
BY DEF CTAOK, InTile

\* Zero: the tile is zeroed by its highest CTA.
LEMMA ZeroStep ==
  ASSUME IInv, NEW b \in CTA, Zero(b)
  PROVE  IInv' /\ \E l : Moves(b, l)
<1>1. PICK t, st : InTile(b, t, st)  BY Here DEF Zero
<1> DEFINE o == out[TileAt(geo, t)]
<1>2. /\ pc[b] = "zero" /\ out' = [out EXCEPT ![TileAt(geo, t)] = <<>>]
      /\ Goto(b, "publish")
      /\ geo' = geo /\ cta' = cta /\ acc' = acc /\ locks' = locks /\ tmp' = tmp
  BY <1>1 DEF Zero, InTile
<1>3. Moves(b, "publish")  BY <1>1, <1>2, Stays DEF Labels
<1>4. Touches(b)
  BY <1>1, <1>2, Types DEF Touches, SameBut, InTile, IInv, TypeOK
<1>5. /\ Atomic(geo, t) /\ b = High(geo, t) /\ st[b] = "ahead"
      /\ out'[TileAt(geo, t)] = <<>>
  <2>1. Zeroes(geo, b, t)  BY <1>1, <1>2 DEF InTile, LabelOK
  <2>2. out'[TileAt(geo, t)] = <<>>
    BY <1>1, <1>2 DEF InTile, IInv, TypeOK
  <2>3. QED  BY <1>1, <1>2, <2>1, <2>2 DEF Zeroes, InTile
<1>6. /\ CounterOK(geo, t, st, locks[LockOf(geo, t)])
      /\ AddedOK(geo, t, st, o)
  BY <1>1, <1>5 DEF InTile, TileOK
<1>7. CounterOK(geo, t, [st EXCEPT ![b] = "publish"], locks[LockOf(geo, t)])
  BY <1>1, <1>5, <1>6, CounterQuiet DEF InTile, Stages, Labels, Published
<1>8. AddedOK(geo, t, [st EXCEPT ![b] = "publish"], <<>>)
  BY <1>1, <1>5, <1>6, AddedZero DEF InTile
<1>9. TileKept(b, "publish")
  <2>1. TileOK(geo, t, [st EXCEPT ![b] = "publish"], locks'[LockOf(geo, t)],
               CellAt(geo, tmp', out', t), out'[TileAt(geo, t)])
    BY <1>2, <1>5, <1>7, <1>8 DEF TileOK, Atomic, Barrier
  <2>2. QED  BY <1>1, <2>1, Kept
<1>10. CTAOK(geo, b, cta'[b], "publish", acc'[b])
  <2>1. LabelOK(geo, b, t, "publish")
    BY <1>5 DEF LabelOK, Zeroes
  <2>2. AccOK(geo, b, t, cta[b], "publish", acc'[b])
    BY <1>1, <1>2 DEF AccOK, InTile
  <2>3. QED  BY <1>1, <1>2, <2>1, <2>2, Held
<1>11. IInv'  BY <1>3, <1>4, <1>9, <1>10, TileStep
<1>12. QED  BY <1>3, <1>11

\* Publish: the lock becomes minus the number of the tile's other CTAs.
LEMMA PublishStep ==
  ASSUME IInv, NEW b \in CTA, Publish(b)
  PROVE  IInv' /\ \E l : Moves(b, l)
<1>1. PICK t, st : InTile(b, t, st)  BY Here DEF Publish
<1> DEFINE o == out[TileAt(geo, t)]
           k == LockOf(geo, t)
<1>2. /\ pc[b] = "publish"
      /\ locks' = [locks EXCEPT ![cta[b].lock] = 1 - cta[b].count]
      /\ Goto(b, "loop")
      /\ geo' = geo /\ cta' = cta /\ acc' = acc /\ out' = out /\ tmp' = tmp
  BY DEF Publish
<1>3. /\ Zeroes(geo, b, t) /\ Atomic(geo, t) /\ b = High(geo, t)
      /\ Shared(geo, t) /\ st[b] = "publish"
  BY <1>1, <1>2 DEF InTile, LabelOK, Zeroes, Atomic
<1>4. Moves(b, "loop")  BY <1>1, <1>2, <1>3, Stays DEF Labels
<1>5. /\ locks' = [locks EXCEPT ![k] = Low(geo, t) - High(geo, t)]
      /\ locks'[k] = Low(geo, t) - High(geo, t)
      /\ Low(geo, t) - High(geo, t) \in Int
  <2>1. 1 - cta[b].count = Low(geo, t) - High(geo, t)
    BY <1>1 DEF InTile
  <2>2. cta[b].lock = k /\ k \in Slot  BY <1>1, <1>3 DEF InTile
  <2>3. locks' = [locks EXCEPT ![k] = Low(geo, t) - High(geo, t)]
    BY <1>2, <2>1, <2>2
  <2>4. locks \in [Slot -> Int] /\ Low(geo, t) - High(geo, t) \in Int
    BY <1>1 DEF IInv, TypeOK, InTile
  <2>5. QED  BY <2>2, <2>3, <2>4
<1>6. Touches(b)
  <2>1. locks \in [Slot -> Int]  BY DEF IInv, TypeOK
  <2>2. locks' \in [Slot -> Int] /\ SameBut(locks, locks', Slot, k)
    BY <1>5, <2>1 DEF SameBut
  <2>3. QED
    BY <1>1, <1>2, <1>3, <2>2 DEF Touches, SameBut, InTile, IInv, TypeOK
<1>7. /\ CounterOK(geo, t, st, locks[k])
      /\ AddedOK(geo, t, st, o)
  BY <1>1, <1>3 DEF InTile, TileOK
<1>8. CounterOK(geo, t, [st EXCEPT ![b] = "loop"], Low(geo, t) - High(geo, t))
  BY <1>1, <1>3, <1>7, CounterPublish DEF InTile
<1>9. AddedOK(geo, t, [st EXCEPT ![b] = "loop"], o)
  BY <1>1, <1>3, <1>7, AddedQuiet DEF InTile, Stages, Labels
<1>10. TileKept(b, "loop")
  <2>1. TileOK(geo, t, [st EXCEPT ![b] = "loop"], locks'[k],
               CellAt(geo, tmp', out', t), out'[TileAt(geo, t)])
    BY <1>2, <1>3, <1>5, <1>8, <1>9 DEF TileOK, Atomic, Barrier
  <2>2. QED  BY <1>1, <2>1, Kept
<1>11. CTAOK(geo, b, cta'[b], "loop", acc'[b])
  <2>1. LabelOK(geo, b, t, "loop")
    BY DEF LabelOK
  <2>2. AccOK(geo, b, t, cta[b], "loop", acc'[b])
    BY <1>1, <1>2 DEF AccOK, InTile
  <2>3. QED  BY <1>1, <1>2, <2>1, <2>2, Held
<1>12. IInv'  BY <1>4, <1>6, <1>10, <1>11, TileStep
<1>13. QED  BY <1>4, <1>12

\* Compute: the part is accumulated, and the tile's kind says where it goes.
LEMMA ComputeStep ==
  ASSUME IInv, NEW b \in CTA, Compute(b)
  PROVE  IInv' /\ \E l : Moves(b, l)
<1>1. PICK t, st : InTile(b, t, st)  BY Here DEF Compute
<1> DEFINE o == out[TileAt(geo, t)]
           lk == locks[LockOf(geo, t)]
           cell == CellAt(geo, tmp, out, t)
           l == IF cta[b].count > 1 /\ ~geo.atomicAdd THEN "acquire"
                ELSE IF cta[b].count > 1 /\ cta[b].idx # 0 THEN "wait"
                ELSE IF Last(cta[b]) \/ geo.atomicAdd THEN "write" ELSE "next"
<1>2. /\ pc[b] = "loop"
      /\ acc' = [acc EXCEPT ![b] =
                   <<<<cta[b].row, cta[b].row + cta[b].iters>>>>]
      /\ cta' = [cta EXCEPT ![b].iters = 0]
      /\ Goto(b, l)
      /\ geo' = geo /\ locks' = locks /\ out' = out /\ tmp' = tmp
  BY DEF Compute
<1>3. l = IF Barrier(geo, t) THEN "acquire"
          ELSE IF Atomic(geo, t) /\ b # High(geo, t) THEN "wait" ELSE "write"
  <2>1. ~Shared(geo, t) => b = Low(geo, t)
    BY <1>1 DEF InTile, Shared
  <2>2. QED  BY <1>1, <2>1 DEF InTile, Barrier, Atomic
<1> HIDE DEF l
<1>4. cta \in [CTA -> SliceState] /\ acc \in [CTA -> Sum] /\ b \in CTA
  BY DEF IInv, TypeOK
<1>5. /\ cta'[b] \in SliceState /\ cta' \in [CTA -> SliceState]
      /\ cta'[b] = [cta[b] EXCEPT !.iters = 0]
  BY <1>2, <1>4 DEF SliceState
<1>6. /\ TileIx(geo, cta'[b]) = t /\ cta'[b].row = cta[b].row
      /\ InHand(geo, b, cta'[b])
  <2>1. /\ cta'[b].inPart2 = cta[b].inPart2 /\ cta'[b].colPar = cta[b].colPar
        /\ cta'[b].row = cta[b].row /\ cta'[b].count = cta[b].count
        /\ cta'[b].idx = cta[b].idx /\ cta'[b].par = cta[b].par
        /\ cta'[b].block = cta[b].block /\ cta'[b].col = cta[b].col
        /\ cta'[b].firstInit = cta[b].firstInit
        /\ cta'[b].part1 = cta[b].part1 /\ cta'[b].lock = cta[b].lock
    BY <1>1, <1>5 DEF InTile, SliceState
  <2>2. TileIx(geo, cta'[b]) = TileIx(geo, cta[b])  BY <2>1 DEF TileIx
  <2>3. InHand(geo, b, cta[b])  BY <1>1 DEF InTile
  <2>4. InHand(geo, b, cta'[b])
    BY <1>5, <2>1, <2>2, <2>3 DEF InHand
  <2>5. QED  BY <1>1, <2>1, <2>2, <2>4 DEF InTile
<1>7. Moves(b, l)
  <2>1. SameBut(cta, cta', CTA, b)  BY <1>2, <1>4 DEF SameBut
  <2>2. l \in {"acquire", "wait", "write"}  BY <1>3
  <2>3. l \in Labels \ {"zero", "exit"} /\ l # "loop"
    BY <2>2 DEF Labels
  <2>4. QED
    BY <1>1, <1>2, <1>5, <1>6, <2>1, <2>3 DEF Moves, Goto, InTile
<1>8. acc'[b] = <<Part(geo, b, t)>> /\ Part(geo, b, t) \in Term
  <2>1. cta[b].row = From(geo, b, t) /\ cta[b].row + cta[b].iters = To(geo, b, t)
    BY <1>1, <1>2 DEF InTile, AccOK
  <2>2. <<cta[b].row, cta[b].row + cta[b].iters>> = Part(geo, b, t)
    BY <2>1 DEF Part
  <2>3. acc'[b] = <<Part(geo, b, t)>>  BY <1>2, <1>4, <2>2
  <2>4. QED  BY <1>1, <2>3, PartTerm DEF InTile
<1>9. Touches(b)
  <2>1. /\ \A a \in CTA : a # b => acc'[a] = acc[a]
        /\ acc' = [acc EXCEPT ![b] = acc'[b]]
    BY <1>2, <1>4
  <2>2. acc'[b] \in Sum
    <3>1. <<Part(geo, b, t)>> \in Seq(Term)  BY <1>8
    <3>2. QED  BY <1>8, <3>1 DEF Sum
  <2>3. acc' \in [CTA -> Sum]  BY <1>4, <2>1, <2>2
  <2>4. QED  BY <1>2, <2>1, <2>3 DEF Touches, SameBut, IInv, TypeOK
<1>10. st[b] = IF Zeroes(geo, b, t) THEN "loop" ELSE "ahead"
  BY <1>1, <1>2 DEF InTile
<1>11. l \in Stages /\ l \in {"acquire", "wait", "write"}
  BY <1>3 DEF Stages, Labels
<1>12. TileKept(b, l)
  <2> DEFINE s == [st EXCEPT ![b] = l]
  <2>1. ASSUME Barrier(geo, t)
        PROVE  BarrierOK(geo, t, s, lk) /\ CellOK(geo, t, s, lk, cell)
    <3>1. BarrierOK(geo, t, st, lk) /\ CellOK(geo, t, st, lk, cell)
      BY <1>1, <2>1 DEF InTile, TileOK
    <3>2. l = "acquire" /\ st[b] = "ahead"
      BY <1>3, <1>10, <2>1 DEF Barrier, Zeroes, Atomic
    <3>3. QED  BY <1>1, <1>11, <3>1, <3>2, BarrierQuiet DEF InTile, Passed
  <2>2. ASSUME Atomic(geo, t)
        PROVE  CounterOK(geo, t, s, lk) /\ AddedOK(geo, t, s, o)
    <3>1. CounterOK(geo, t, st, lk) /\ AddedOK(geo, t, st, o)
      BY <1>1, <2>2 DEF InTile, TileOK
    <3>2. ~Barrier(geo, t)  BY <2>2 DEF Atomic, Barrier
    <3>3. CASE b = High(geo, t)
      <4>1. l = "write" /\ st[b] = "loop"
        BY <1>3, <1>10, <2>2, <3>2, <3>3 DEF Zeroes
      <4>2. Published(geo, t, st)  BY <3>3, <4>1 DEF Published
      <4>3. CounterOK(geo, t, s, lk)
        BY <1>1, <1>11, <3>1, <3>3, <4>1, <4>2, CounterQuiet DEF InTile
      <4>4. AddedOK(geo, t, s, o)
        BY <1>1, <1>11, <3>1, <4>1, AddedQuiet DEF InTile
      <4>5. QED  BY <4>3, <4>4
    <3>4. CASE b # High(geo, t)
      <4>1. l = "wait" /\ st[b] = "ahead"
        BY <1>3, <1>10, <2>2, <3>2, <3>4 DEF Zeroes
      <4>2. CounterOK(geo, t, s, lk)
        BY <1>1, <1>11, <3>1, <3>4, <4>1, CounterQuiet DEF InTile, Passed
      <4>3. AddedOK(geo, t, s, o)
        BY <1>1, <1>11, <3>1, <3>4, <4>1, AddedQuiet DEF InTile
      <4>4. QED  BY <4>2, <4>3
    <3>5. QED  BY <3>3, <3>4
  <2>3. ASSUME ~Atomic(geo, t)
        PROVE  SingleOK(geo, t, s, o)
    <3>1. SingleOK(geo, t, st, o)  BY <1>1, <2>3 DEF InTile, TileOK
    <3>2. l # "done" /\ st[b] # "done"  BY <1>10, <1>11
    <3>3. QED  BY <1>1, <1>11, <3>1, <3>2, SingleQuiet DEF InTile
  <2>4. TileOK(geo, t, s, lk, cell, o)  BY <2>1, <2>2, <2>3 DEF TileOK
  <2>5. l # "next"  BY <1>11
  <2>6. QED  BY <1>1, <1>2, <2>4, <2>5, Kept
<1>13. CTAOK(geo, b, cta'[b], l, acc'[b])
  <2>1. LabelOK(geo, b, t, l)
    <3>1. CASE Barrier(geo, t)  BY <1>3, <3>1 DEF LabelOK
    <3>2. CASE ~Barrier(geo, t) /\ Atomic(geo, t) /\ b # High(geo, t)
      <4>1. b < High(geo, t)  BY <1>1, <3>2 DEF InTile
      <4>2. QED  BY <1>3, <3>2, <4>1 DEF LabelOK
    <3>3. CASE ~Barrier(geo, t) /\ ~(Atomic(geo, t) /\ b # High(geo, t))
      <4>1. ~Atomic(geo, t) => b = Low(geo, t)
        BY <1>1, <3>3 DEF InTile, Barrier, Atomic, Shared
      <4>2. QED  BY <1>3, <3>3, <4>1 DEF LabelOK
    <3>4. QED  BY <3>1, <3>2, <3>3
  <2>2. AccOK(geo, b, t, cta'[b], l, acc'[b])
    <3>1. ~Barrier(geo, t) /\ ~Atomic(geo, t) =>
            Partial(geo, b, t) = <<Part(geo, b, t)>>
      <4>1. ~Barrier(geo, t) /\ ~Atomic(geo, t) => b = High(geo, t)
        BY <1>1 DEF InTile, Barrier, Atomic, Shared
      <4>2. QED  BY <1>1, <4>1, PartialHigh DEF InTile
    <3>2. QED  BY <1>3, <1>8, <1>11, <3>1 DEF AccOK
  <2>3. QED  BY <1>6, <1>11, <2>1, <2>2 DEF CTAOK
<1>14. IInv'  BY <1>7, <1>9, <1>12, <1>13, TileStep
<1>15. QED  BY <1>7, <1>14

\* Acquire: it is the CTA's turn.
LEMMA AcquireStep ==
  ASSUME IInv, NEW b \in CTA, Acquire(b)
  PROVE  IInv' /\ \E l : Moves(b, l)
<1>1. PICK t, st : InTile(b, t, st)  BY Here DEF Acquire
<1> DEFINE o == out[TileAt(geo, t)]
           lk == locks[LockOf(geo, t)]
           cell == CellAt(geo, tmp, out, t)
           l == IF b # High(geo, t) THEN "load" ELSE "store"
<1>2. /\ pc[b] = "acquire"
      /\ geo' = geo /\ cta' = cta /\ acc' = acc /\ locks' = locks
      /\ out' = out /\ tmp' = tmp
  BY DEF Acquire
<1>3. /\ Barrier(geo, t) /\ Shared(geo, t) /\ ~Atomic(geo, t)
      /\ st[b] = "acquire" /\ lk = High(geo, t) - b
  <2>1. Barrier(geo, t) /\ Shared(geo, t) /\ st[b] = "acquire"
    BY <1>1, <1>2 DEF InTile, LabelOK, Barrier
  <2>2. lk = High(geo, t) - b
    BY <1>1, <2>1 DEF InTile, Acquire
  <2>3. QED  BY <2>1, <2>2 DEF Barrier, Atomic
<1>4. Goto(b, l)
  <2>1. b = High(geo, t) => ~Last(cta[b])
    BY <1>1, <1>3 DEF InTile, Shared
  <2>2. QED  BY <1>1, <2>1 DEF InTile, Acquire
<1> HIDE DEF l
<1>5. l \in {"load", "store"} /\ l \in Labels /\ l \in Stages
  BY DEF l, Labels, Stages
<1>6. Moves(b, l)  BY <1>1, <1>2, <1>4, <1>5, Stays
<1>7. Touches(b)  BY <1>2 DEF Touches, SameBut, IInv, TypeOK
<1>8. TileKept(b, l)
  <2> DEFINE s == [st EXCEPT ![b] = l]
  <2>1. BarrierOK(geo, t, st, lk) /\ CellOK(geo, t, st, lk, cell)
        /\ SingleOK(geo, t, st, o)
    BY <1>1, <1>3 DEF InTile, TileOK
  <2>2. BarrierOK(geo, t, s, lk) /\ CellOK(geo, t, s, lk, cell)
    BY <1>1, <1>3, <1>5, <2>1, BarrierQuiet DEF InTile, Passed
  <2>3. SingleOK(geo, t, s, o)
    BY <1>1, <1>3, <1>5, <2>1, SingleQuiet DEF InTile
  <2>4. TileOK(geo, t, s, lk, cell, o)  BY <1>3, <2>2, <2>3 DEF TileOK
  <2>5. QED  BY <1>1, <1>2, <1>5, <2>4, Kept
<1>9. CTAOK(geo, b, cta'[b], l, acc'[b])
  <2>1. LabelOK(geo, b, t, l)
    <3>1. b # High(geo, t) => b < High(geo, t)  BY <1>1 DEF InTile
    <3>2. b = High(geo, t) => b > Low(geo, t)
      BY <1>1, <1>3 DEF InTile, Shared
    <3>3. QED  BY <1>3, <3>1, <3>2 DEF LabelOK, l
  <2>2. AccOK(geo, b, t, cta[b], l, acc'[b])
    <3>1. acc'[b] = <<Part(geo, b, t)>>
      BY <1>1, <1>2 DEF InTile, AccOK
    <3>2. b = High(geo, t) => Partial(geo, b, t) = <<Part(geo, b, t)>>
      BY <1>1, PartialHigh DEF InTile
    <3>3. QED  BY <3>1, <3>2 DEF AccOK, l
  <2>3. QED  BY <1>1, <1>2, <1>5, <2>1, <2>2, Held
<1>10. IInv'  BY <1>6, <1>7, <1>8, <1>9, TileStep
<1>11. QED  BY <1>6, <1>10

\* Load: the sum of the CTAs above waits in the cell.
LEMMA LoadStep ==
  ASSUME IInv, NEW b \in CTA, Load(b)
  PROVE  IInv' /\ \E l : Moves(b, l)
<1>1. PICK t, st : InTile(b, t, st)  BY Here DEF Load
<1> DEFINE o == out[TileAt(geo, t)]
           lk == locks[LockOf(geo, t)]
           cell == CellAt(geo, tmp, out, t)
           l == IF b = Low(geo, t) THEN "release" ELSE "store"
<1>2. /\ pc[b] = "load"
      /\ geo' = geo /\ cta' = cta /\ locks' = locks
      /\ out' = out /\ tmp' = tmp
  BY DEF Load
<1>3. /\ Barrier(geo, t) /\ Shared(geo, t) /\ ~Atomic(geo, t)
      /\ st[b] = "load" /\ b < High(geo, t)
  BY <1>1, <1>2 DEF InTile, LabelOK, Barrier, Atomic
<1>4. Goto(b, l)  BY <1>1 DEF InTile, Load
<1> HIDE DEF l
<1>5. l \in {"release", "store"} /\ l \in Labels /\ l \in Stages
  BY DEF l, Labels, Stages
<1>6. Moves(b, l)  BY <1>1, <1>2, <1>4, <1>5, Stays
<1>7. /\ BarrierOK(geo, t, st, lk) /\ CellOK(geo, t, st, lk, cell)
      /\ SingleOK(geo, t, st, o)
  BY <1>1, <1>3 DEF InTile, TileOK
<1>8. acc'[b] = Partial(geo, b, t)
  <2>1. cell = Partial(geo, b + 1, t)
    BY <1>1, <1>3, <1>7, BarrierLoad DEF InTile
  <2>2. acc[b] = <<Part(geo, b, t)>>
    BY <1>1, <1>2 DEF InTile, AccOK
  <2>3. acc' = [acc EXCEPT ![b] = cell \o acc[b]]
    BY <1>1, <1>3 DEF Load, InTile, CellAt
  <2>4. Partial(geo, b + 1, t) \o <<Part(geo, b, t)>> = Partial(geo, b, t)
    BY <1>1, <1>3, PartialNext DEF InTile
  <2>5. acc \in [CTA -> Sum]  BY DEF IInv, TypeOK
  <2> HIDE DEF cell
  <2>6. QED  BY <2>1, <2>2, <2>3, <2>4, <2>5
<1>9. Touches(b)
  <2>1. acc \in [CTA -> Sum]  BY DEF IInv, TypeOK
  <2>2. SameBut(acc, acc', CTA, b) /\ acc' = [acc EXCEPT ![b] = acc'[b]]
    BY <2>1 DEF Load, SameBut
  <2>3. acc'[b] \in Sum  BY <1>1, <1>8, PartialSum DEF InTile
  <2>4. acc' \in [CTA -> Sum]  BY <2>1, <2>2, <2>3
  <2>5. QED  BY <1>2, <2>2, <2>4 DEF Touches, SameBut, IInv, TypeOK
<1>10. TileKept(b, l)
  <2> DEFINE s == [st EXCEPT ![b] = l]
  <2>1. High(geo, t) - b = lk
    BY <1>1, <1>3, <1>7 DEF BarrierOK, InTile
  <2>2. b > Low(geo, t) => l = "store"
    BY <1>1 DEF l, InTile
  <2>3. BarrierOK(geo, t, s, lk) /\ CellOK(geo, t, s, lk, cell)
    BY <1>1, <1>3, <1>5, <1>7, <2>1, <2>2, BarrierQuiet DEF InTile, Passed
  <2>4. SingleOK(geo, t, s, o)
    BY <1>1, <1>3, <1>5, <1>7, SingleQuiet DEF InTile
  <2>5. TileOK(geo, t, s, lk, cell, o)  BY <1>3, <2>3, <2>4 DEF TileOK
  <2>6. QED  BY <1>1, <1>2, <1>5, <2>5, Kept
<1>11. CTAOK(geo, b, cta'[b], l, acc'[b])
  <2>1. LabelOK(geo, b, t, l)
    <3>1. b # Low(geo, t) => b > Low(geo, t)  BY <1>1 DEF InTile
    <3>2. QED  BY <1>3, <3>1 DEF LabelOK, l
  <2>2. AccOK(geo, b, t, cta[b], l, acc'[b])
    BY <1>5, <1>8 DEF AccOK
  <2>3. QED  BY <1>1, <1>2, <1>5, <2>1, <2>2, Held
<1>12. IInv'  BY <1>6, <1>9, <1>10, <1>11, TileStep
<1>13. QED  BY <1>6, <1>12

\* Store: the CTA's sum goes to the cell.
LEMMA StoreStep ==
  ASSUME IInv, NEW b \in CTA, Store(b)
  PROVE  IInv' /\ \E l : Moves(b, l)
<1>1. PICK t, st : InTile(b, t, st)  BY Here DEF Store
<1> DEFINE o == out[TileAt(geo, t)]
           k == LockOf(geo, t)
           lk == locks[k]
           P == Partial(geo, b, t)
           s == [st EXCEPT ![b] = "release"]
<1>2. /\ pc[b] = "store" /\ Goto(b, "release")
      /\ geo' = geo /\ cta' = cta /\ acc' = acc /\ locks' = locks
  BY DEF Store
<1>3. /\ Barrier(geo, t) /\ Shared(geo, t) /\ ~Atomic(geo, t)
      /\ st[b] = "store" /\ b > Low(geo, t) /\ acc[b] = P
      /\ cta[b].lock = k /\ k \in Slot
  BY <1>1, <1>2 DEF InTile, LabelOK, AccOK, Barrier, Atomic
<1>4. P \in Sum  BY <1>1, PartialSum DEF InTile
<1>5. tmp \in [Slot -> Sum] /\ out \in [Tiles(geo) -> Sum]
      /\ TileAt(geo, t) \in Tiles(geo)
  BY <1>1 DEF IInv, TypeOK, InTile
<1>6. /\ geo.fp32Reduce => tmp' = [tmp EXCEPT ![k] = P] /\ out' = out
      /\ ~geo.fp32Reduce => out' = [out EXCEPT ![TileAt(geo, t)] = P]
                            /\ tmp' = tmp
  BY <1>1, <1>3 DEF Store, InTile
<1> HIDE DEF P
<1>7. /\ tmp' \in [Slot -> Sum] /\ SameBut(tmp, tmp', Slot, k)
      /\ out' \in [Tiles(geo) -> Sum]
      /\ SameBut(out, out', Tiles(geo), TileAt(geo, t))
      /\ CellAt(geo, tmp', out', t) = P
      /\ geo.fp32Reduce => out' = out
      /\ ~geo.fp32Reduce => out'[TileAt(geo, t)] = P
  <2>1. CASE geo.fp32Reduce
    BY <1>3, <1>4, <1>5, <1>6, <2>1 DEF SameBut, CellAt
  <2>2. CASE ~geo.fp32Reduce
    BY <1>3, <1>4, <1>5, <1>6, <2>2 DEF SameBut, CellAt
  <2>3. QED  BY <2>1, <2>2
<1>8. Moves(b, "release")  BY <1>1, <1>2, Stays DEF Labels
<1>9. Touches(b)
  BY <1>1, <1>2, <1>3, <1>7 DEF Touches, SameBut, InTile, IInv, TypeOK
<1>10. TileKept(b, "release")
  <2>1. BarrierOK(geo, t, st, lk) /\ SingleOK(geo, t, st, o)
    BY <1>1, <1>3 DEF InTile, TileOK
  <2>2. /\ BarrierOK(geo, t, s, lk) /\ CellOK(geo, t, s, lk, P)
        /\ st[Low(geo, t)] # "done"
    BY <1>1, <1>3, <2>1, BarrierStore DEF InTile, P
  <2>3. "release" \in Stages  BY DEF Stages, Labels
  <2>4. SingleOK(geo, t, s, out'[TileAt(geo, t)])
    <3>1. CASE geo.fp32Reduce
      BY <1>1, <1>3, <1>7, <2>1, <2>2, <2>3, <3>1, SingleQuiet DEF InTile
    <3>2. CASE ~geo.fp32Reduce
      BY <1>1, <1>3, <1>7, <2>2, <3>2, SingleStore DEF InTile, P
    <3>3. QED  BY <3>1, <3>2
  <2>5. TileOK(geo, t, s, lk, CellAt(geo, tmp', out', t), out'[TileAt(geo, t)])
    BY <1>3, <1>7, <2>2, <2>4 DEF TileOK
  <2>6. QED  BY <1>1, <1>2, <2>5, Kept
<1>11. CTAOK(geo, b, cta'[b], "release", acc'[b])
  <2>1. LabelOK(geo, b, t, "release")  BY <1>3 DEF LabelOK
  <2>2. AccOK(geo, b, t, cta[b], "release", acc'[b])
    BY <1>2, <1>3 DEF AccOK, P
  <2>3. QED  BY <1>1, <1>2, <2>1, <2>2, Held
<1>12. IInv'  BY <1>8, <1>9, <1>10, <1>11, TileStep
<1>13. QED  BY <1>8, <1>12

\* Release: the turn passes on, or the last CTA resets the lock.
LEMMA ReleaseStep ==
  ASSUME IInv, NEW b \in CTA, Release(b)
  PROVE  IInv' /\ \E l : Moves(b, l)
<1>1. PICK t, st : InTile(b, t, st)  BY Here DEF Release
<1> DEFINE o == out[TileAt(geo, t)]
           k == LockOf(geo, t)
           lk == locks[k]
           cell == CellAt(geo, tmp, out, t)
           l == IF b = Low(geo, t) THEN "write" ELSE "next"
           n == IF b = Low(geo, t) THEN 0 ELSE lk + 1
           s == [st EXCEPT ![b] = IF b = Low(geo, t) THEN "write" ELSE "done"]
<1>2. /\ pc[b] = "release"
      /\ geo' = geo /\ cta' = cta /\ acc' = acc /\ out' = out /\ tmp' = tmp
  BY DEF Release
<1>3. /\ Barrier(geo, t) /\ Shared(geo, t) /\ ~Atomic(geo, t)
      /\ st[b] = "release" /\ acc[b] = Partial(geo, b, t)
      /\ cta[b].lock = k /\ k \in Slot
      /\ Last(cta[b]) <=> b = Low(geo, t)
  BY <1>1, <1>2 DEF InTile, LabelOK, AccOK, Barrier, Atomic
<1>4. Goto(b, l)  BY <1>3 DEF Release
<1>5. locks \in [Slot -> Int]  BY DEF IInv, TypeOK
<1>6. lk \in Int /\ n \in Int  BY <1>3, <1>5
<1>7. locks' = [locks EXCEPT ![k] = n]  BY <1>3 DEF Release
<1> HIDE DEF l, n
<1>8. locks' \in [Slot -> Int] /\ SameBut(locks, locks', Slot, k)
      /\ locks'[k] = n
  BY <1>3, <1>5, <1>6, <1>7 DEF SameBut
<1>9. l \in {"write", "next"} /\ l \in Labels
  BY DEF l, Labels
<1>10. Moves(b, l)  BY <1>1, <1>2, <1>4, <1>9, Stays
<1>11. Touches(b)
  BY <1>1, <1>2, <1>3, <1>8 DEF Touches, SameBut, InTile, IInv, TypeOK
<1>12. TileKept(b, l)
  <2>1. /\ BarrierOK(geo, t, st, lk) /\ CellOK(geo, t, st, lk, cell)
        /\ SingleOK(geo, t, st, o)
    BY <1>1, <1>3 DEF InTile, TileOK
  <2>2. BarrierOK(geo, t, s, n) /\ CellOK(geo, t, s, n, cell)
    BY <1>1, <1>3, <2>1, BarrierRelease DEF InTile, n
  <2>3. SingleOK(geo, t, s, o)
    <3> DEFINE x == IF b = Low(geo, t) THEN "write" ELSE "done"
    <3>1. x \in Stages /\ (b = Low(geo, t) => x # "done" /\ st[b] # "done")
      BY <1>3 DEF Stages, Labels
    <3> HIDE DEF x
    <3>2. SingleOK(geo, t, [st EXCEPT ![b] = x], o)
      BY <1>1, <2>1, <3>1, SingleQuiet DEF InTile
    <3>3. QED  BY <3>2 DEF x
  <2>4. TileOK(geo, t, s, locks'[k], CellAt(geo, tmp', out', t),
               out'[TileAt(geo, t)])
    BY <1>2, <1>3, <1>8, <2>2, <2>3 DEF TileOK
  <2>5. (IF l = "next" THEN "done" ELSE l) =
          IF b = Low(geo, t) THEN "write" ELSE "done"
    BY DEF l
  <2>6. QED  BY <1>1, <2>4, <2>5, Kept
<1>13. CTAOK(geo, b, cta'[b], l, acc'[b])
  <2>1. LabelOK(geo, b, t, l)  BY DEF LabelOK, l
  <2>2. AccOK(geo, b, t, cta[b], l, acc'[b])
    BY <1>2, <1>3, <1>9 DEF AccOK
  <2>3. QED  BY <1>1, <1>2, <1>9, <2>1, <2>2, Held
<1>14. IInv'  BY <1>10, <1>11, <1>12, <1>13, TileStep
<1>15. QED  BY <1>10, <1>14

\* SeeNegative: a negative lock means the tile is zeroed.
LEMMA SeeNegativeStep ==
  ASSUME IInv, NEW b \in CTA, SeeNegative(b)
  PROVE  IInv' /\ \E l : Moves(b, l)
<1>1. PICK t, st : InTile(b, t, st)  BY Here DEF SeeNegative
<1> DEFINE o == out[TileAt(geo, t)]
           lk == locks[LockOf(geo, t)]
<1>2. /\ pc[b] = "wait" /\ Goto(b, "count")
      /\ geo' = geo /\ cta' = cta /\ acc' = acc /\ locks' = locks
      /\ out' = out /\ tmp' = tmp
  BY DEF SeeNegative
<1>3. /\ Atomic(geo, t) /\ Shared(geo, t) /\ b # High(geo, t)
      /\ b < High(geo, t) /\ st[b] = "wait" /\ lk < 0
  <2>1. Atomic(geo, t) /\ b < High(geo, t) /\ Shared(geo, t)
    BY <1>1, <1>2 DEF InTile, LabelOK, Atomic
  <2>2. b # High(geo, t)  BY <1>1, <2>1 DEF InTile
  <2>3. QED  BY <1>1, <1>2, <2>1, <2>2 DEF InTile, SeeNegative
<1>4. Moves(b, "count")  BY <1>1, <1>2, Stays DEF Labels
<1>5. Touches(b)  BY <1>2 DEF Touches, SameBut, IInv, TypeOK
<1>6. TileKept(b, "count")
  <2> DEFINE s == [st EXCEPT ![b] = "count"]
  <2>1. CounterOK(geo, t, st, lk) /\ AddedOK(geo, t, st, o)
    BY <1>1, <1>3 DEF InTile, TileOK
  <2>2. Published(geo, t, st)
    <3>1. ~Published(geo, t, st) => lk = 0  BY <2>1 DEF CounterOK
    <3>2. QED  BY <1>3, <3>1
  <2>3. "count" \in Stages  BY DEF Stages, Labels
  <2>4. CounterOK(geo, t, s, lk)
    BY <1>1, <1>3, <2>1, <2>2, <2>3, CounterQuiet DEF InTile, Passed
  <2>5. AddedOK(geo, t, s, o)
    BY <1>1, <1>3, <2>1, <2>3, AddedQuiet DEF InTile
  <2>6. TileOK(geo, t, s, lk, CellAt(geo, tmp', out', t), out'[TileAt(geo, t)])
    BY <1>2, <1>3, <2>4, <2>5 DEF TileOK, Atomic, Barrier
  <2>7. QED  BY <1>1, <1>2, <2>6, Kept
<1>7. CTAOK(geo, b, cta'[b], "count", acc'[b])
  <2>1. LabelOK(geo, b, t, "count")  BY <1>3 DEF LabelOK
  <2>2. AccOK(geo, b, t, cta[b], "count", acc'[b])
    BY <1>1, <1>2 DEF AccOK, InTile
  <2>3. QED  BY <1>1, <1>2, <2>1, <2>2, Held
<1>8. IInv'  BY <1>4, <1>5, <1>6, <1>7, TileStep
<1>9. QED  BY <1>4, <1>8

\* CountIn: one CTA fewer still to add.
LEMMA CountInStep ==
  ASSUME IInv, NEW b \in CTA, CountIn(b)
  PROVE  IInv' /\ \E l : Moves(b, l)
<1>1. PICK t, st : InTile(b, t, st)  BY Here DEF CountIn
<1> DEFINE o == out[TileAt(geo, t)]
           k == LockOf(geo, t)
           lk == locks[k]
<1>2. /\ pc[b] = "count" /\ Goto(b, "write")
      /\ geo' = geo /\ cta' = cta /\ acc' = acc /\ out' = out /\ tmp' = tmp
  BY DEF CountIn
<1>3. /\ Atomic(geo, t) /\ Shared(geo, t) /\ b \in Others(geo, t)
      /\ st[b] = "count" /\ k \in Slot /\ cta[b].lock = k
  <2>1. Atomic(geo, t) /\ b < High(geo, t) /\ Shared(geo, t)
    BY <1>1, <1>2 DEF InTile, LabelOK, Atomic
  <2>2. b \in Others(geo, t)  BY <1>1, <2>1 DEF InTile, Others
  <2>3. QED  BY <1>1, <1>2, <2>1, <2>2 DEF InTile
<1>4. locks \in [Slot -> Int] /\ lk \in Int  BY <1>3 DEF IInv, TypeOK
<1>5. locks' = [locks EXCEPT ![k] = lk + 1]  BY <1>3 DEF CountIn
<1>6. locks' \in [Slot -> Int] /\ SameBut(locks, locks', Slot, k)
      /\ locks'[k] = lk + 1
  BY <1>3, <1>4, <1>5 DEF SameBut
<1>7. Moves(b, "write")  BY <1>1, <1>2, Stays DEF Labels
<1>8. Touches(b)
  BY <1>1, <1>2, <1>3, <1>6 DEF Touches, SameBut, InTile, IInv, TypeOK
<1>9. TileKept(b, "write")
  <2> DEFINE s == [st EXCEPT ![b] = "write"]
  <2>1. CounterOK(geo, t, st, lk) /\ AddedOK(geo, t, st, o)
    BY <1>1, <1>3 DEF InTile, TileOK
  <2>2. CounterOK(geo, t, s, lk + 1)
    BY <1>1, <1>3, <2>1, CounterCountIn DEF InTile
  <2>3. "write" \in Stages  BY DEF Stages, Labels
  <2>4. AddedOK(geo, t, s, o)
    BY <1>1, <1>3, <2>1, <2>3, AddedQuiet DEF InTile
  <2>5. TileOK(geo, t, s, locks'[k], CellAt(geo, tmp', out', t),
               out'[TileAt(geo, t)])
    BY <1>2, <1>3, <1>6, <2>2, <2>4 DEF TileOK, Atomic, Barrier
  <2>6. QED  BY <1>1, <2>5, Kept
<1>10. CTAOK(geo, b, cta'[b], "write", acc'[b])
  <2>1. LabelOK(geo, b, t, "write")  BY <1>3 DEF LabelOK
  <2>2. AccOK(geo, b, t, cta[b], "write", acc'[b])
    BY <1>1, <1>2, <1>3 DEF AccOK, InTile
  <2>3. QED  BY <1>1, <1>2, <2>1, <2>2, Held
<1>11. IInv'  BY <1>7, <1>8, <1>9, <1>10, TileStep
<1>12. QED  BY <1>7, <1>11

\* Write: the CTA's part, or the barrier's whole sum, goes to C.
LEMMA WriteStep ==
  ASSUME IInv, NEW b \in CTA, Write(b)
  PROVE  IInv' /\ \E l : Moves(b, l)
<1>1. PICK t, st : InTile(b, t, st)  BY Here DEF Write
<1> DEFINE o == out[TileAt(geo, t)]
           lk == locks[LockOf(geo, t)]
           low == Low(geo, t)
           sum == IF b = low THEN Append(acc[b], Bias) ELSE acc[b]
           new == IF Atomic(geo, t) THEN o \o sum ELSE sum
           s == [st EXCEPT ![b] = "done"]
<1>2. /\ pc[b] = "write" /\ Goto(b, "next") /\ st[b] = "write"
      /\ geo' = geo /\ cta' = cta /\ acc' = acc /\ locks' = locks /\ tmp' = tmp
  BY <1>1 DEF Write, InTile
<1>3. out' = [out EXCEPT ![TileAt(geo, t)] = new]
  BY <1>1 DEF Write, InTile, Atomic
<1>4. /\ acc[b] = IF Atomic(geo, t) THEN <<Part(geo, b, t)>>
                  ELSE Partial(geo, b, t)
      /\ ~Atomic(geo, t) => b = low
  BY <1>1, <1>2 DEF InTile, LabelOK, AccOK
<1>5. /\ out \in [Tiles(geo) -> Sum] /\ TileAt(geo, t) \in Tiles(geo)
      /\ o \in Seq(Term) /\ acc[b] \in Seq(Term)
  BY <1>1 DEF IInv, TypeOK, InTile, Sum
<1>6. new \in Sum
  <2>1. sum \in Seq(Term)
    <3>1. Append(acc[b], Bias) \in Seq(Term)  BY <1>5, Types, AppendProperties
    <3>2. QED  BY <1>5, <3>1
  <2> HIDE DEF sum
  <2>2. o \o sum \in Seq(Term)  BY <1>5, <2>1, ConcatProperties
  <2>3. QED  BY <2>1, <2>2 DEF Sum
<1> HIDE DEF new
<1>7. /\ out' \in [Tiles(geo) -> Sum]
      /\ SameBut(out, out', Tiles(geo), TileAt(geo, t))
      /\ out'[TileAt(geo, t)] = new
  BY <1>3, <1>5, <1>6 DEF SameBut
<1>8. Moves(b, "next")  BY <1>1, <1>2, Stays DEF Labels
<1>9. Touches(b)
  BY <1>1, <1>2, <1>7 DEF Touches, SameBut, InTile, IInv, TypeOK
<1>10. "done" \in Stages  BY DEF Stages
<1>11. ASSUME Atomic(geo, t)
       PROVE  CounterOK(geo, t, s, lk) /\ AddedOK(geo, t, s, new)
  <2>1. CounterOK(geo, t, st, lk) /\ AddedOK(geo, t, st, o) /\ o \in Sum
    BY <1>1, <1>5, <1>11 DEF InTile, TileOK, Sum
  <2>2. Published(geo, t, st)
    <3>1. CASE b = High(geo, t)  BY <1>2, <3>1 DEF Published
    <3>2. CASE b # High(geo, t)
      <4>1. b \in Others(geo, t)  BY <1>1, <3>2 DEF InTile, Others
      <4>2. QED  BY <1>2, <2>1, <4>1 DEF CounterOK
    <3>3. QED  BY <3>1, <3>2
  <2>3. CounterOK(geo, t, s, lk)
    BY <1>1, <1>2, <1>10, <2>1, <2>2, CounterQuiet DEF InTile, Passed
  <2>4. st[High(geo, t)] # "ahead"  BY <2>2 DEF Published
  <2>5. AddedOK(geo, t, s,
                o \o (IF b = low THEN Append(<<Part(geo, b, t)>>, Bias)
                      ELSE <<Part(geo, b, t)>>))
    BY <1>1, <1>2, <2>1, <2>4, AddedWrite DEF InTile
  <2>6. new = o \o (IF b = low THEN Append(<<Part(geo, b, t)>>, Bias)
                    ELSE <<Part(geo, b, t)>>)
    BY <1>4, <1>11 DEF new
  <2>7. QED  BY <2>3, <2>5, <2>6
<1>12. ASSUME ~Atomic(geo, t)
       PROVE  SingleOK(geo, t, s, new)
  <2>1. new = Append(Partial(geo, low, t), Bias) /\ b = low
    BY <1>4, <1>12 DEF new
  <2>2. SingleOK(geo, t, [st EXCEPT ![low] = "done"],
                 Append(Partial(geo, low, t), Bias))
    BY <1>1, SingleWrite DEF InTile
  <2>3. QED  BY <2>1, <2>2
<1>13. ASSUME Barrier(geo, t), NEW cell
       PROVE  BarrierOK(geo, t, s, lk) /\ CellOK(geo, t, s, lk, cell)
  <2>1. b = low  BY <1>4, <1>13 DEF Barrier, Atomic
  <2>2. BarrierOK(geo, t, st, lk)
        /\ CellOK(geo, t, st, lk, CellAt(geo, tmp, out, t))
    BY <1>1, <1>13 DEF InTile, TileOK
  <2>3. BarrierOK(geo, t, s, lk)
    BY <1>1, <1>2, <1>10, <2>1, <2>2, BarrierQuiet DEF InTile, Passed
  <2>4. Passed(s, low)
    BY <1>1, <2>1 DEF Passed, InTile
  <2>5. QED  BY <1>1, <2>3, <2>4, BarrierOver DEF InTile
<1>14. TileKept(b, "next")
  <2>1. TileOK(geo, t, s, locks'[LockOf(geo, t)], CellAt(geo, tmp', out', t),
               out'[TileAt(geo, t)])
    BY <1>2, <1>7, <1>11, <1>12, <1>13 DEF TileOK
  <2>2. QED  BY <1>1, <2>1, Kept
<1>15. CTAOK(geo, b, cta'[b], "next", acc'[b])
  <2>1. LabelOK(geo, b, t, "next")  BY DEF LabelOK
  <2>2. AccOK(geo, b, t, cta[b], "next", acc'[b])  BY DEF AccOK
  <2>3. QED  BY <1>1, <1>2, <2>1, <2>2, Held
<1>16. IInv'  BY <1>8, <1>9, <1>14, <1>15, TileStep
<1>17. QED  BY <1>8, <1>16

\* NextSlice: nothing any tile knows of changes.
LEMMA NextSliceStep ==
  ASSUME IInv, NEW b \in CTA, NextSlice(b)
  PROVE  /\ IInv'
         /\ geo' = geo /\ out' = out
         /\ \A u \in Tile(geo) :
              StagesAt(geo, cta', pc', u) = StagesAt(geo, cta, pc, u)
<1> DEFINE before == StepColumn(geo, cta[b])
           after  == InitSlice(geo, b, before)
           l      == AfterInitSlice(geo, before, after)
<1>1. /\ pc[b] = "next"
      /\ cta' = [cta EXCEPT ![b] = after]
      /\ acc' = [acc EXCEPT ![b] = <<>>]
      /\ pc' = [pc EXCEPT ![b] = l]
      /\ geo' = geo /\ locks' = locks /\ tmp' = tmp /\ out' = out
  BY DEF NextSlice, Goto
<1>2. /\ geo \in Geometries /\ geo \in Geometry
      /\ b \in 0 .. geo.grid - 1
      /\ cta \in [0 .. geo.grid - 1 -> SliceState]
      /\ pc \in [0 .. geo.grid - 1 -> Labels]
      /\ acc \in [0 .. geo.grid - 1 -> Sum]
  BY GeometriesAssumption DEF IInv, TypeOK, CTA
<1>3. InHand(geo, b, cta[b])  BY <1>1 DEF IInv, CTAOK
<1>4. /\ after \in SliceState /\ l \in Labels
      /\ CTAOK(geo, b, after, l, <<>>)
      /\ \A u \in Tile(geo) :
           StagesAt(geo, cta', pc', u) = StagesAt(geo, cta, pc, u)
  BY <1>1, <1>2, <1>3, NextSliceStages
<1>5. before \in SliceState /\ before.row = 0
  BY <1>2, <1>3, StepWalk DEF Ready
<1>6. ASSUME geo.groupTiles > 0, geo.kTiles % geo.groupTiles = 0
      PROVE  after.row % geo.groupTiles = 0
  <2>1. b \in Nat  BY <1>2, GeometryTypes
  <2>2. QED  BY <1>2, <1>5, <1>6, <2>1, GroupedRow
<1> HIDE DEF after, l, before
<1>7. TypeOK'
  <2>1. /\ cta' \in [0 .. geo.grid - 1 -> SliceState]
        /\ pc' \in [0 .. geo.grid - 1 -> Labels]
        /\ acc' \in [0 .. geo.grid - 1 -> Sum]
    BY <1>1, <1>2, <1>4, Types
  <2>2. QED  BY <1>1, <2>1 DEF IInv, TypeOK, CTA, Slot
<1>8. \A a \in CTA : CTAOK(geo, a, cta'[a], pc'[a], acc'[a])
  <2> SUFFICES ASSUME NEW a \in CTA
               PROVE  CTAOK(geo, a, cta'[a], pc'[a], acc'[a])
    OBVIOUS
  <2>1. CASE a = b
    <3>1. cta'[b] = after /\ pc'[b] = l /\ acc'[b] = <<>>
      BY <1>1, <1>2
    <3>2. QED  BY <1>4, <2>1, <3>1
  <2>2. CASE a # b
    <3>1. cta'[a] = cta[a] /\ pc'[a] = pc[a] /\ acc'[a] = acc[a]
      BY <1>1, <1>2, <2>2 DEF CTA
    <3>2. CTAOK(geo, a, cta[a], pc[a], acc[a])  BY DEF IInv
    <3>3. QED  BY <3>1, <3>2
  <2>3. QED  BY <2>1, <2>2
<1>9. TilesOK(geo, cta', pc', locks, tmp, out)
  BY <1>4 DEF IInv, TilesOK
<1>10. RowsGrouped'
  <2>1. \A a \in CTA : cta'[a].row = cta[a].row \/ cta'[a].row = after.row
    BY <1>1, <1>2 DEF CTA
  <2>2. QED  BY <1>1, <1>6, <2>1 DEF IInv, RowsGrouped, CTA
<1>11. UnusedFree(geo, locks)'  BY <1>1 DEF IInv, UnusedFree, Slot
<1>12. geo'.wholeK => tmp' = FreshTmp'
  BY <1>1 DEF IInv, FreshTmp, Slot
<1>13. IInv'
  BY <1>1, <1>7, <1>8, <1>9, <1>10, <1>11, <1>12 DEF IInv, CTA
<1>14. QED  BY <1>1, <1>4, <1>13

-----------------------------------------------------------------------------
(* The invariant, always. *)

\* A step of a CTA is a step of the tile it has in hand, or goes to the next.
LEMMA StepInv ==
  ASSUME IInv, NEW b \in CTA, Step(b)
  PROVE  IInv' /\ (NextSlice(b) \/ \E l : Moves(b, l))
BY ZeroStep, PublishStep, ComputeStep, AcquireStep, LoadStep, StoreStep,
   ReleaseStep, SeeNegativeStep, CountInStep, WriteStep, NextSliceStep DEF Step

LEMMA StutterInv ==
  ASSUME IInv, UNCHANGED vars
  PROVE  IInv'
<1>1. /\ geo' = geo /\ cta' = cta /\ pc' = pc /\ acc' = acc
      /\ locks' = locks /\ tmp' = tmp /\ out' = out
  BY DEF vars
<1>2. TypeOK'  BY <1>1 DEF IInv, TypeOK, CTA, Slot
<1>3. UnusedFree(geo, locks)'  BY <1>1 DEF IInv, UnusedFree, Slot
<1>4. RowsGrouped'  BY <1>1 DEF IInv, RowsGrouped, CTA
<1>5. geo'.wholeK => tmp' = FreshTmp'  BY <1>1 DEF IInv, FreshTmp, Slot
<1>6. \A b \in CTA' : CTAOK(geo', b, cta'[b], pc'[b], acc'[b])
  BY <1>1 DEF IInv, CTA
<1>7. TilesOK(geo', cta', pc', locks', tmp', out')  BY <1>1 DEF IInv
<1>8. QED  BY <1>2, <1>3, <1>4, <1>5, <1>6, <1>7 DEF IInv

LEMMA InvStep == IInv /\ [Next]_vars => IInv'
<1> SUFFICES ASSUME IInv, [Next]_vars PROVE IInv'
  OBVIOUS
<1>1. CASE Launch  BY <1>1, LaunchInv
<1>2. CASE SomeStep  BY <1>2, StepInv DEF SomeStep
<1>3. CASE UNCHANGED vars  BY <1>3, StutterInv
<1>4. QED  BY <1>1, <1>2, <1>3 DEF Next

LEMMA InvAlways == Spec => []IInv
<1>1. QED  BY InitInv, InvStep, PTL DEF Spec

-----------------------------------------------------------------------------
(* The properties. *)

\* The kernel's slice states, labels, partial sums and locks keep their types
\* through every launch: in particular no CTA gets a slice of negative length.
THEOREM TypeOKAlways == Spec => []TypeOK
<1>1. IInv => TypeOK  BY DEF IInv
<1>2. QED  BY <1>1, InvAlways, PTL

\* The lock barrier excludes: CTAs between barrier_acquire and barrier_release
\* are on different locks and tiles, a lock stands for one tile, and it is one of
\* the locks the host checked the workspace for.
THEOREM LocksGuardTilesAlways == Spec => []LocksGuardTiles
<1>1. ASSUME IInv, NEW a \in CTA, NEW b \in CTA, a # b,
             InBarrier(a), InBarrier(b)
      PROVE  cta[a].lock # cta[b].lock /\ TileOf(a) # TileOf(b)
  <2>1. PICK t, st : InTile(a, t, st)  BY <1>1, Here DEF InBarrier
  <2>2. PICK u, sv : InTile(b, u, sv)  BY <1>1, Here DEF InBarrier
  <2>3. /\ Barrier(geo, t) /\ Shared(geo, t) /\ cta[a].lock = LockOf(geo, t)
        /\ st[a] \in {"load", "store", "release"}
    BY <1>1, <2>1 DEF InBarrier, InTile, LabelOK, Barrier
  <2>4. /\ Barrier(geo, u) /\ Shared(geo, u) /\ cta[b].lock = LockOf(geo, u)
        /\ sv[b] \in {"load", "store", "release"}
    BY <1>1, <2>2 DEF InBarrier, InTile, LabelOK, Barrier
  <2>5. High(geo, t) - a = locks[LockOf(geo, t)]
    BY <2>1, <2>3 DEF InTile, TileOK, BarrierOK
  <2>6. High(geo, u) - b = locks[LockOf(geo, u)]
    BY <2>2, <2>4 DEF InTile, TileOK, BarrierOK
  <2>7. t # u
    <3> SUFFICES ASSUME t = u PROVE FALSE
      OBVIOUS
    <3>1. High(geo, t) - a = High(geo, t) - b  BY <2>5, <2>6
    <3>2. High(geo, t) \in Nat /\ a \in Nat /\ b \in Nat
      BY <2>1, <2>2 DEF InTile
    <3>3. QED  BY <1>1, <3>1, <3>2
  <2>8. cta[a].lock # cta[b].lock
    BY <2>1, <2>2, <2>3, <2>4, <2>7, LocksOfTiles DEF InTile
  <2>9. TileOf(a) # TileOf(b)
    BY <2>1, <2>2, <2>7, TileAtInjective DEF InTile
  <2>10. QED  BY <2>8, <2>9
<1>2. ASSUME IInv, NEW a \in CTA, NEW b \in CTA,
             Synchronises(a), Synchronises(b)
      PROVE  cta[a].lock = cta[b].lock <=> TileOf(a) = TileOf(b)
  <2>1. PICK t, st : InTile(a, t, st)  BY <1>2, Here DEF Synchronises
  <2>2. PICK u, sv : InTile(b, u, sv)  BY <1>2, Here DEF Synchronises
  <2>3. Shared(geo, t) /\ cta[a].lock = LockOf(geo, t)
    BY <1>2, <2>1 DEF Synchronises, InTile
  <2>4. Shared(geo, u) /\ cta[b].lock = LockOf(geo, u)
    BY <1>2, <2>2 DEF Synchronises, InTile
  <2>5. cta[a].lock = cta[b].lock <=> t = u
    BY <2>1, <2>2, <2>3, <2>4, LocksOfTiles DEF InTile
  <2>6. TileOf(a) = TileOf(b) <=> t = u
    BY <2>1, <2>2, TileAtInjective DEF InTile
  <2>7. QED  BY <2>5, <2>6
<1>3. ASSUME IInv, NEW b \in CTA, Synchronises(b)
      PROVE  cta[b].lock \in 0 .. geo.grid - 1 /\ cta[b].lock < GlobalTiles(geo)
  <2>1. PICK t, st : InTile(b, t, st)  BY <1>3, Here DEF Synchronises
  <2>2. Shared(geo, t) /\ cta[b].lock = LockOf(geo, t)
    BY <1>3, <2>1 DEF Synchronises, InTile
  <2>3. QED  BY <2>1, <2>2, LocksOfTiles DEF InTile
<1>4. IInv => LocksGuardTiles
  BY <1>1, <1>2, <1>3 DEF LocksGuardTiles
<1>5. QED  BY <1>4, InvAlways, PTL

\* Every launch hands the workspace on with all its locks at 0.
THEOREM WorkspaceCleanAlways == Spec => []WorkspaceClean
<1>1. IInv => WorkspaceClean  BY ExitedClean DEF WorkspaceClean
<1>2. QED  BY <1>1, InvAlways, PTL

\* A place of C belongs to one tile, and is as that tile's CTAs left it.
LEMMA PlaceOfTile ==
  ASSUME IInv, NEW p \in Tiles(geo)
  PROVE  \E t \in Tile(geo) :
           /\ TileAt(geo, t) = p
           /\ ~Atomic(geo, t) =>
                SingleOK(geo, t, StagesAt(geo, cta, pc, t), out[p])
<1>1. geo \in Geometry  BY GeometriesAssumption DEF IInv, TypeOK
<1>2. PICK x \in 0 .. geo.parallel - 1, y \in 0 .. geo.nTiles - 1 : p = <<x, y>>
  BY DEF Tiles
<1> DEFINE t == x * geo.nTiles + y
<1>3. t \in Tile(geo) /\ TileAt(geo, t) = p  BY <1>1, <1>2, PlaceTotal
<1> HIDE DEF t
<1>4. ~Atomic(geo, t) =>
        SingleOK(geo, t, StagesAt(geo, cta, pc, t), out[TileAt(geo, t)])
  BY <1>3 DEF IInv, TilesOK, TileOK
<1>5. QED  BY <1>3, <1>4

\* Without atomicAdd the terms of a finished tile are its stripes from the bottom
\* of K to the top, then the bias, whatever the interleaving; and no stripe
\* starts inside a quantisation group.
THEOREM FixedReductionOrderAlways == Spec => []FixedReductionOrder
<1>1. ASSUME IInv, ~geo.atomicAdd, NEW p \in Tiles(geo), Biased(out[p])
      PROVE  BottomUp(p, out[p])
  <2>1. PICK t \in Tile(geo) :
          /\ TileAt(geo, t) = p
          /\ ~Atomic(geo, t) =>
               SingleOK(geo, t, StagesAt(geo, cta, pc, t), out[p])
    BY <1>1, PlaceOfTile
  <2>2. SingleOK(geo, t, StagesAt(geo, cta, pc, t), out[p])
    BY <1>1, <2>1 DEF Atomic
  <2>3. out[p] = Append(Partial(geo, Low(geo, t), t), Bias)
    BY <1>1, <2>2 DEF SingleOK, Biased
  <2>4. geo \in Geometry  BY <1>1, GeometriesAssumption DEF IInv, TypeOK
  <2>5. QED  BY <2>1, <2>3, <2>4, FullSumInOrder
<1>2. IInv => FixedReductionOrder
  BY <1>1 DEF IInv, RowsGrouped, FixedReductionOrder
<1>3. QED  BY <1>2, InvAlways, PTL

LEMMA AppendToOne ==
  ASSUME NEW S, NEW x \in S, NEW y \in S
  PROVE  Append(<<x>>, y) = <<x, y>>
<1>1. <<x>> \in Seq(S) /\ Len(<<x>>) = 1 /\ <<x, y>> \in Seq(S)
      /\ Len(<<x, y>>) = 2
  OBVIOUS
<1>2. Append(<<x>>, y) \in Seq(S) /\ Len(Append(<<x>>, y)) = 2
  BY <1>1
<1>3. Append(<<x>>, y)[1] = x /\ Append(<<x>>, y)[2] = y
  BY <1>1
<1>4. \A i \in 1 .. 2 : Append(<<x>>, y)[i] = <<x, y>>[i]
  BY <1>3
<1>5. QED  BY <1>1, <1>2, <1>4, SeqEqual

\* What an unshared tile holds in the end: all of K in one part, and the bias.
LEMMA UnsharedSum ==
  ASSUME geo \in Geometry, NEW t \in Tile(geo), ~Shared(geo, t)
  PROVE  Append(Partial(geo, Low(geo, t), t), Bias) = WholeTile
<1>1. Low(geo, t) = High(geo, t) /\ High(geo, t) \in CTAs(geo, t)
  <2> DEFINE x == Low(geo, t)
             y == High(geo, t)
  <2> HIDE DEF x, y
  <2>1. x \in Nat /\ y \in Nat /\ x <= y /\ y \in CTAs(geo, t)
    BY CTAsType DEF x, y
  <2>2. ~(x < y)  BY DEF Shared, x, y
  <2>3. x = y  BY <2>1, <2>2
  <2>4. QED  BY <2>1, <2>3 DEF x, y
<1>2. Part(geo, High(geo, t), t) = <<0, geo.kTiles>>
  BY <1>1 DEF Part, From, To
<1>3. <<0, geo.kTiles>> \in Term  BY <1>1, <1>2, PartTerm
<1>4. Partial(geo, Low(geo, t), t) = <<<<0, geo.kTiles>>>>
  BY <1>1, <1>2, PartialHigh
<1>5. QED  BY <1>3, <1>4, Types, AppendToOne DEF WholeTile

\* With whole_k every output tile is either not yet written or holds the one
\* full reduction over K in a fixed order, in every launch of every stream and
\* for every grid and batch; no CTA ever synchronises.
THEOREM WholeKUniformAlways == Spec => []WholeKUniform
<1>1. ASSUME IInv, geo.wholeK, NEW p \in Tiles(geo)
      PROVE  out[p] \in {<<Stale>>, WholeTile}
  <2>1. geo \in Geometry  BY <1>1, GeometriesAssumption DEF IInv, TypeOK
  <2>2. PICK t \in Tile(geo) :
          /\ TileAt(geo, t) = p
          /\ ~Atomic(geo, t) =>
               SingleOK(geo, t, StagesAt(geo, cta, pc, t), out[p])
    BY <1>1, PlaceOfTile
  <2>3. ~Shared(geo, t)  BY <1>1, <2>1, WholeKUnshared
  <2>4. SingleOK(geo, t, StagesAt(geo, cta, pc, t), out[p])
    BY <2>2, <2>3 DEF Atomic
  <2>5. QED  BY <2>1, <2>3, <2>4, UnsharedSum DEF SingleOK
<1>2. ASSUME IInv, geo.wholeK, NEW b \in CTA
      PROVE  pc[b] \in {"loop", "write", "next", "exit"}
  <2>1. CASE pc[b] = "exit"  BY <2>1
  <2>2. CASE pc[b] # "exit"
    <3>1. PICK t, st : InTile(b, t, st)  BY <1>2, <2>2, Here
    <3>2. ~Shared(geo, t)  BY <1>2, <3>1, WholeKUnshared DEF InTile
    <3>3. pc[b] \in Labels  BY <1>2 DEF IInv, TypeOK
    <3>4. QED
      BY <3>1, <3>2, <3>3
         DEF InTile, LabelOK, Zeroes, Atomic, Barrier, Labels
  <2>3. QED  BY <2>1, <2>2
<1>3. IInv => WholeKUniform  BY <1>1, <1>2 DEF WholeKUniform
<1>4. QED  BY <1>3, InvAlways, PTL

\* A whole_k launch leaves the lock workspace and C_tmp as it found them.
THEOREM WholeKLeavesWorkspace == Spec => WholeKWorkspaceUntouched
<1>1. IInv /\ WholeKUniform /\ [Next]_vars
        => [geo.wholeK => UNCHANGED <<locks, tmp>>]_vars
  <2> SUFFICES ASSUME IInv, WholeKUniform, [Next]_vars, geo.wholeK
               PROVE  UNCHANGED <<locks, tmp>>
    OBVIOUS
  <2>1. CASE Launch  BY <2>1 DEF Launch, Start, IInv
  <2>2. ASSUME NEW b \in CTA, Step(b) PROVE UNCHANGED <<locks, tmp>>
    <3>1. pc[b] \in {"loop", "write", "next", "exit"}  BY DEF WholeKUniform
    <3>2. Compute(b) \/ Write(b) \/ NextSlice(b)
      BY <2>2, <3>1
         DEF Step, Zero, Publish, Acquire, Load, Store, Release, SeeNegative,
             CountIn
    <3>3. QED  BY <3>2 DEF Compute, Write, NextSlice
  <2>3. CASE UNCHANGED vars  BY <2>3 DEF vars
  <2>4. QED  BY <2>1, <2>2, <2>3 DEF Next, SomeStep
<1>2. QED
  BY <1>1, InvAlways, WholeKUniformAlways, PTL DEF Spec, WholeKWorkspaceUntouched

-----------------------------------------------------------------------------
(* The launches implement TileGemm. *)

DoneTiles == {p \in Tiles(geo) : Final(out[p])}

\* A place is final exactly when the CTAs of its tile have written their parts.
LEMMA FinalIff ==
  IInv => \A t \in Tile(geo) :
            Final(out[TileAt(geo, t)])
              <=> Complete(geo, t, StagesAt(geo, cta, pc, t))
<1> SUFFICES ASSUME IInv, NEW t \in Tile(geo)
             PROVE  Final(out[TileAt(geo, t)])
                      <=> Complete(geo, t, StagesAt(geo, cta, pc, t))
  OBVIOUS
<1>1. geo \in Geometry  BY GeometriesAssumption DEF IInv, TypeOK
<1>2. out[TileAt(geo, t)] \in Sum  BY <1>1, Places DEF IInv, TypeOK
<1>3. /\ Atomic(geo, t) => AddedOK(geo, t, StagesAt(geo, cta, pc, t),
                                   out[TileAt(geo, t)])
      /\ ~Atomic(geo, t) => SingleOK(geo, t, StagesAt(geo, cta, pc, t),
                                     out[TileAt(geo, t)])
  BY DEF IInv, TilesOK, TileOK
<1>4. QED  BY <1>1, <1>2, <1>3, FinalComplete

LEMMA FinalIffNext ==
  IInv' => \A t \in Tile(geo') :
             Final(out[TileAt(geo, t)])'
               <=> Complete(geo', t, StagesAt(geo', cta', pc', t))
<1>1. (IInv => \A t \in Tile(geo) :
                 Final(out[TileAt(geo, t)])
                   <=> Complete(geo, t, StagesAt(geo, cta, pc, t)))'
  BY FinalIff, PTL
<1>2. QED  BY <1>1

LEMMA FreshNotFinal ==
  ASSUME \A p \in Tiles(geo) : out[p] = <<Stale>>
  PROVE  DoneTiles = {}
BY DEF DoneTiles, Final

\* A CTA's step finishes its own tile or none, and undoes none.
LEMMA MovesFinish ==
  ASSUME IInv, IInv', NEW b \in CTA, NEW l, Moves(b, l)
  PROVE  /\ geo' = geo
         /\ \/ DoneTiles' = DoneTiles
            \/ \E p \in Tiles(geo) \ DoneTiles : DoneTiles' = DoneTiles \cup {p}
<1> DEFINE t == TileIx(geo, cta[b])
           st == StagesAt(geo, cta, pc, t)
<1>1. /\ geo \in Geometry /\ geo' = geo
      /\ pc \in [0 .. geo.grid - 1 -> Labels] /\ b \in 0 .. geo.grid - 1
  BY GeometriesAssumption DEF IInv, TypeOK, CTA, Moves
<1>2. /\ t \in Tile(geo) /\ b \in CTAs(geo, t)
      /\ \A u \in Tile(geo) : u # t =>
           StagesAt(geo, cta', pc', u) = StagesAt(geo, cta, pc, u)
      /\ StagesAt(geo, cta', pc', t) = Moved(geo, cta, pc, b, l)
  BY MovesStages
<1>3. st \in [CTAs(geo, t) -> Stages] /\ st[b] # "done"
  <2>1. /\ st \in [CTAs(geo, t) -> Stages]
        /\ st[b] = StageAt(geo, cta[b], pc[b], b, t)
    BY <1>1, <1>2, StagesType
  <2>2. pc[b] \in Labels /\ pc[b] # "next"  BY <1>1 DEF Moves
  <2>3. StageAt(geo, cta[b], pc[b], b, t) # "done"
    BY <1>1, <1>2, <2>2, StageHere DEF Labels
  <2>4. QED  BY <2>1, <2>3
<1>4. Complete(geo, t, st) => Complete(geo, t, Moved(geo, cta, pc, b, l))
  <2> SUFFICES ASSUME Complete(geo, t, st)
               PROVE  Complete(geo, t, Moved(geo, cta, pc, b, l))
    OBVIOUS
  <2>1. ~Atomic(geo, t) /\ st[Low(geo, t)] = "done" /\ b # Low(geo, t)
    BY <1>2, <1>3 DEF Complete
  <2>2. Low(geo, t) \in CTAs(geo, t)  BY <1>1, <1>2, CTAsType
  <2>3. Moved(geo, cta, pc, b, l) =
          [st EXCEPT ![b] = IF l = "next" THEN "done" ELSE l]
    BY DEF Moved
  <2> HIDE DEF st, t
  <2>4. Moved(geo, cta, pc, b, l)[Low(geo, t)] = "done"
    BY <1>3, <2>1, <2>2, <2>3
  <2>5. QED  BY <2>1, <2>4 DEF Complete
<1> HIDE DEF t, st
<1>5. ASSUME NEW p \in Tiles(geo)
      PROVE  \E u \in Tile(geo) :
               /\ TileAt(geo, u) = p
               /\ p \in DoneTiles <=> Complete(geo, u, StagesAt(geo, cta, pc, u))
               /\ p \in DoneTiles'
                    <=> Complete(geo, u, StagesAt(geo, cta', pc', u))
  <2>1. PICK u \in Tile(geo) : TileAt(geo, u) = p  BY PlaceOfTile
  <2>2. Final(out[p]) <=> Complete(geo, u, StagesAt(geo, cta, pc, u))
    BY <2>1, FinalIff
  <2>3. Final(out[TileAt(geo, u)])'
          <=> Complete(geo', u, StagesAt(geo', cta', pc', u))
    <3>1. u \in Tile(geo')  BY <1>1
    <3>2. QED  BY <3>1, FinalIffNext
  <2>4. p \in DoneTiles' <=> Final(out[TileAt(geo, u)])'
    <3>1. p \in Tiles(geo') /\ p = TileAt(geo', u)  BY <1>1, <2>1
    <3>2. p \in DoneTiles' <=> Final(out[p])'  BY <3>1 DEF DoneTiles
    <3>3. QED  BY <3>1, <3>2
  <2>5. QED  BY <1>1, <2>1, <2>2, <2>3, <2>4 DEF DoneTiles
<1> DEFINE q == TileAt(geo, t)
<1>6. q \in Tiles(geo)  BY <1>1, <1>2, Places
<1>7. ASSUME NEW p \in Tiles(geo), p # q
      PROVE  p \in DoneTiles' <=> p \in DoneTiles
  <2>1. PICK u \in Tile(geo) :
          /\ TileAt(geo, u) = p
          /\ p \in DoneTiles <=> Complete(geo, u, StagesAt(geo, cta, pc, u))
          /\ p \in DoneTiles'
               <=> Complete(geo, u, StagesAt(geo, cta', pc', u))
    BY <1>5
  <2>2. u # t  BY <1>7, <2>1
  <2>3. QED  BY <1>2, <2>1, <2>2
<1>8. q \in DoneTiles => q \in DoneTiles'
  <2>1. PICK u \in Tile(geo) :
          /\ TileAt(geo, u) = q
          /\ q \in DoneTiles <=> Complete(geo, u, StagesAt(geo, cta, pc, u))
          /\ q \in DoneTiles'
               <=> Complete(geo, u, StagesAt(geo, cta', pc', u))
    BY <1>5, <1>6
  <2>2. u = t  BY <1>1, <1>2, <2>1, TileAtInjective
  <2>3. QED  BY <1>2, <1>4, <2>1, <2>2 DEF st
<1>9. DoneTiles \subseteq Tiles(geo) /\ DoneTiles' \subseteq Tiles(geo)
  BY <1>1 DEF DoneTiles
<1> HIDE DEF q
<1>10. CASE q \in DoneTiles \/ q \notin DoneTiles'
  <2>1. DoneTiles' = DoneTiles
    BY <1>7, <1>8, <1>9, <1>10
  <2>2. QED  BY <1>1, <2>1
<1>11. CASE q \notin DoneTiles /\ q \in DoneTiles'
  <2>1. DoneTiles' = DoneTiles \cup {q}
    BY <1>6, <1>7, <1>9, <1>11
  <2>2. QED  BY <1>1, <1>6, <1>11, <2>1
<1>12. QED  BY <1>10, <1>11

LEMMA LaunchFinished ==
  ASSUME IInv, Launch
  PROVE  /\ DoneTiles = Tiles(geo) /\ DoneTiles' = {}
         /\ geo' \in Geometries
<1>1. ASSUME NEW p \in Tiles(geo) PROVE Final(out[p])
  <2>1. PICK t \in Tile(geo) : TileAt(geo, t) = p  BY PlaceOfTile
  <2>2. \A b \in CTAs(geo, t) : StagesAt(geo, cta, pc, t)[b] = "done"
    BY ExitedClean DEF Launch
  <2>3. geo \in Geometry  BY GeometriesAssumption DEF IInv, TypeOK
  <2>4. Complete(geo, t, StagesAt(geo, cta, pc, t))
    BY <2>2, <2>3, CTAsType DEF Complete
  <2>5. QED  BY <2>1, <2>4, FinalIff
<1>2. \A p \in Tiles(geo') : out'[p] = <<Stale>>  BY DEF Launch, Start
<1>3. DoneTiles' = {}  BY <1>2 DEF DoneTiles, Final
<1>4. QED  BY <1>1, <1>3 DEF DoneTiles, Launch

\* A stream of launches implements TileGemm: each output tile of a launch becomes
\* final once and stays so, one tile at a time, and all of them are final before
\* the next kernel starts.
THEOREM LaunchesImplementTileGemm == Spec => ImplementsTileGemm
<1>1. Init => Gemm!Init
  <2> SUFFICES ASSUME Init PROVE Gemm!Init
    OBVIOUS
  <2>1. geo \in Geometries /\ \A p \in Tiles(geo) : out[p] = <<Stale>>
    BY DEF Init
  <2>2. DoneTiles = {}  BY <2>1, FreshNotFinal
  <2>3. QED  BY <2>1, <2>2 DEF Gemm!Init, DoneTiles
<1>2. IInv /\ IInv' /\ [Next]_vars => [Gemm!Next]_Gemm!vars
  <2> SUFFICES ASSUME IInv, IInv', [Next]_vars PROVE [Gemm!Next]_Gemm!vars
    OBVIOUS
  <2>1. CASE Launch
    BY <2>1, LaunchFinished DEF Gemm!Next, Gemm!Launch, DoneTiles
  <2>2. ASSUME NEW b \in CTA, Step(b) PROVE [Gemm!Next]_Gemm!vars
    <3>1. CASE NextSlice(b)
      BY <3>1 DEF NextSlice, Final, Gemm!vars
    <3>2. ASSUME NEW l, Moves(b, l) PROVE [Gemm!Next]_Gemm!vars
      <4>1. geo' = geo  BY <3>2, MovesFinish
      <4>2. CASE DoneTiles' = DoneTiles
        BY <4>1, <4>2 DEF Gemm!vars, DoneTiles
      <4>3. ASSUME NEW p \in Tiles(geo) \ DoneTiles,
                   DoneTiles' = DoneTiles \cup {p}
            PROVE  Gemm!Next
        BY <4>1, <4>3 DEF Gemm!Next, Gemm!Finish, DoneTiles
      <4>4. QED  BY <3>2, <4>2, <4>3, MovesFinish
    <3>3. QED  BY <2>2, <3>1, <3>2, StepInv
  <2>3. CASE UNCHANGED vars
    BY <2>3 DEF vars, Final, Gemm!vars
  <2>4. QED  BY <2>1, <2>2, <2>3 DEF Next, SomeStep
<1>3. QED
  BY <1>1, <1>2, InvAlways, PTL DEF Spec, ImplementsTileGemm
=============================================================================
