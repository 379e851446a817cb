---------------------------- MODULE DiffKVProofs ----------------------------
(***************************************************************************)
(* For every call and every size of the constants: the split path never     *)
(* leaves the scratch buffers, the reducer combines nothing but what its    *)
(* own launch wrote for the same row, and the work of a call is divided     *)
(* exactly.  A row of a sequence has one lane (LaneOf) in a launch that     *)
(* takes the sequence and none in another; the tiles of its lane hold every *)
(* key it may see, and the segments of a 3D launch cut them into disjoint   *)
(* runs.  The second part compares with the kernels the overlay replaced.   *)
(***************************************************************************)
EXTENDS DiffKVPinned, WellFoundedInduction, FiniteSetTheorems, TLAPS

-----------------------------------------------------------------------------
(* Arithmetic.                                                             *)

LEMMA MulMonotone ==
  ASSUME NEW c \in Nat, NEW x \in Int, NEW y \in Int, x <= y
  PROVE  x * c <= y * c /\ x * c \in Int /\ y * c \in Int
<1>1. PICK d \in Nat : y = x + d  
  <2>1. y - x \in Nat  OBVIOUS
  <2>2. y = x + (y - x)  OBVIOUS
  <2>3. QED  BY <2>1, <2>2
<1>2. d * c \in Nat  OBVIOUS
<1>3. (x + d) * c = x * c + d * c  OBVIOUS
<1>4. x * c \in Int  OBVIOUS
<1>5. QED  BY <1>1, <1>2, <1>3, <1>4

LEMMA DivMod ==
  ASSUME NEW n \in Int, NEW d \in Nat \ {0}
  PROVE  /\ n \div d \in Int /\ n % d \in 0 .. d - 1
         /\ n = d * (n \div d) + (n % d)
OBVIOUS

LEMMA DivOfNat ==
  ASSUME NEW n \in Nat, NEW d \in Nat \ {0}
  PROVE  n \div d \in Nat
OBVIOUS

LEMMA DivOne == \A x \in Nat : x \div 1 = x
OBVIOUS

LEMMA DivSelf ==
  ASSUME NEW d \in Nat \ {0}
  PROVE  d \div d = 1 /\ (d - 1) \div d = 0
OBVIOUS

LEMMA DivMonotone ==
  ASSUME NEW x \in Nat, NEW y \in Nat, NEW d \in Nat \ {0}, x <= y
  PROVE  x \div d <= y \div d
<1> DEFINE qx == x \div d
           qy == y \div d
<1>1. x = d * qx + (x % d) /\ x % d \in 0 .. d - 1 /\ qx \in Int
  BY DivMod
<1>2. y = d * qy + (y % d) /\ y % d \in 0 .. d - 1 /\ qy \in Int
  BY DivMod
<1> HIDE DEF qx, qy
<1>3. SUFFICES ASSUME qy + 1 <= qx PROVE FALSE
  BY <1>1, <1>2 DEF qx, qy
<1>4. (qy + 1) * d <= qx * d
  BY <1>1, <1>2, <1>3, MulMonotone
<1>5. (qy + 1) * d = d * qy + d /\ qx * d = d * qx /\ d * qy \in Int /\ d * qx \in Int
  BY <1>1, <1>2
<1>6. QED  BY <1>1, <1>2, <1>4, <1>5

LEMMA CeilInt ==
  ASSUME NEW n \in Int, NEW d \in Nat \ {0}
  PROVE  CeilDiv(n, d) \in Int
BY DEF CeilDiv

\* x * d < n exactly when x is below the ceiling of n / d.
LEMMA CeilBelow ==
  ASSUME NEW n \in Int, NEW d \in Nat \ {0}, NEW x \in Int
  PROVE  x * d < n <=> x < CeilDiv(n, d)
<1> DEFINE m == n + d - 1
           q == m \div d
<1>0. m \in Int  OBVIOUS
<1>1. m = d * q + (m % d) /\ m % d \in 0 .. d - 1 /\ q \in Int /\ m \in Int
  <2> HIDE DEF m
  <2>1. QED  BY <1>0, DivMod
<1>2. CeilDiv(n, d) = q  BY DEF CeilDiv
<1>3. d * q = q * d /\ q * d \in Int /\ x * d \in Int
  BY <1>1
<1> HIDE DEF m, q
<1>4. n + d - 1 = q * d + (m % d) /\ m % d <= d - 1 /\ m % d >= 0 /\ m % d \in Int
  BY <1>1, <1>3 DEF m
<1>5. CASE x < q
  <2>1. (x + 1) * d <= q * d
    BY <1>1, <1>5, MulMonotone
  <2>2. (x + 1) * d = x * d + d  OBVIOUS
  <2>3. QED  BY <1>2, <1>3, <1>4, <1>1, <1>5, <2>1, <2>2
<1>6. CASE q <= x
  <2>1. q * d <= x * d
    BY <1>1, <1>6, MulMonotone
  <2>2. QED  BY <1>2, <1>3, <1>4, <1>1, <1>6, <2>1
<1>7. QED  BY <1>1, <1>5, <1>6

-----------------------------------------------------------------------------
(* Segments.                                                               *)

\* The reducer reads exactly the segments whose program does not return
\* early, for every row with at least one key.
LEMMA ReadSegmentsRun ==
  ASSUME NEW len \in Int, TilesPerSegment(len) > 0
  PROVE  \A seg \in SegmentsRead(len) : seg \in 0 .. Segs - 1 /\ SegmentRuns(seg, len)
<1> DEFINE tps == TilesPerSegment(len)
           act == CeilDiv(len, tps * SplitTile)
<1>1. Segs \in Nat \ {0} /\ SplitTile \in Nat \ {0}
  BY PartitionAssumption
<1>2. Segs * SplitTile \in Nat \ {0}
  BY <1>1
<1>3. tps \in Nat \ {0}
  BY <1>2, CeilInt DEF TilesPerSegment
<1>4. tps * SplitTile \in Nat \ {0}
  BY <1>1, <1>3
<1> SUFFICES ASSUME NEW seg \in SegmentsRead(len)
             PROVE  seg \in 0 .. Segs - 1 /\ SegmentRuns(seg, len)
  OBVIOUS
<1>5. act \in Int
  BY <1>4, CeilInt
<1>6. seg \in Int /\ 0 <= seg /\ seg < act /\ seg < Segs
  BY <1>1, <1>5 DEF SegmentsRead, Lesser
<1>7. seg * (tps * SplitTile) < len
  BY <1>4, <1>5, <1>6, CeilBelow
<1>8. seg * (tps * SplitTile) = seg * tps * SplitTile
  BY <1>1, <1>3, <1>6
<1>9. QED  BY <1>1, <1>6, <1>7, <1>8 DEF SegmentRuns

-----------------------------------------------------------------------------
(* Finding the sequence of a block or of a row.                             *)

Less == {pair \in Nat \X Nat : pair[1] < pair[2]}

LEMMA LessWellFounded == IsWellFoundedOn(Less, Nat)
<1>1. Less = OpToRel(<, Nat)  BY DEF Less, OpToRel
<1>2. QED  BY <1>1, NatLessThanWellFounded

LEMMA LastOf ==
  ASSUME NEW n \in Nat, NEW S \in SUBSET (0 .. n - 1), S # {}
  PROVE  \E i \in S : \A j \in i + 1 .. n - 1 : j \notin S
<1> DEFINE T == {n - 1 - i : i \in S}
<1>1. \A i \in S : i \in 0 .. n - 1 /\ n - 1 - i \in Nat
  OBVIOUS
<1>2. T \subseteq Nat /\ T # {}
  BY <1>1
<1>3. PICK x \in T : \A y \in T : ~ (<<y, x>> \in Less)
  BY <1>2, LessWellFounded, WFMin
<1>4. PICK i \in S : x = n - 1 - i
  BY <1>3
<1>5. \A j \in i + 1 .. n - 1 : j \notin S
  <2> SUFFICES ASSUME NEW j \in i + 1 .. n - 1, j \in S PROVE FALSE
    OBVIOUS
  <2>1. n - 1 - j \in T
    OBVIOUS
  <2>2. <<n - 1 - j, x>> \in Less
    BY <1>2, <1>4, <2>1 DEF Less
  <2>3. QED  BY <1>3, <2>1, <2>2
<1>6. QED  BY <1>5

\* The sequence found is one of the call's, the last that starts early enough.
LEMMA FindSeqExists ==
  ASSUME NEW b, IsCall(b), NEW bq \in Nat, NEW x \in Nat
  PROVE  LET i == FindSeq(b, bq, x)
         IN  /\ i \in 0 .. b.n - 1 /\ FirstBlock(b, bq, i) <= x
             /\ \A j \in i + 1 .. b.n - 1 : FirstBlock(b, bq, j) > x
<1> DEFINE S == {i \in 0 .. b.n - 1 : FirstBlock(b, bq, i) <= x}
<1>1. b.n \in Nat \ {0} /\ b.cu \in [0 .. b.n -> Nat] /\ b.cu[0] = 0
  BY DEF IsCall
<1>2. FirstBlock(b, bq, 0) = 0
  BY <1>1 DEF FirstBlock
<1>3. 0 \in S
  BY <1>1, <1>2
<1>4. PICK i \in S : \A j \in i + 1 .. b.n - 1 : j \notin S
  BY <1>1, <1>3, LastOf
<1>5. \A j \in i + 1 .. b.n - 1 : FirstBlock(b, bq, j) > x
  <2> TAKE j \in i + 1 .. b.n - 1
  <2>1. j \in 0 .. b.n - 1  BY <1>1
  <2>2. FirstBlock(b, bq, j) \in Int
    <3>1. b.cu[j] \in Nat  BY <1>1, <2>1
    <3>2. bq # 0 => b.cu[j] \div bq \in Nat  BY <3>1, DivOfNat
    <3>3. QED  BY <2>1, <3>1, <3>2 DEF FirstBlock
  <2>3. QED  BY <1>4, <2>1, <2>2
<1>6. QED  BY <1>5 DEF FindSeq

-----------------------------------------------------------------------------
(* The 3D launches and their lanes.                                        *)

SplitLaunch(b, l) ==
  \/ MixedShort(b) /\ l = Launch(TRUE, 2, RowsM, 1)
  \/ Use3D(b) /\ l = Launch(TRUE, 0, BlockM(b), BlockQ(b))

\* What the launcher's guards give the kernel: one row per block, or rows of
\* one-row sequences, and scratch for every row.
LEMMA LaunchFacts ==
  ASSUME NEW b, IsCall(b), NEW l, SplitLaunch(b, l)
  PROVE  /\ l.split /\ l.bm = RowsM /\ l.bq \in Nat \ {0} /\ l.mode \in {0, 2}
         /\ l.mode = 2 => l.bq = 1 /\ b.n * Short <= Capacity
         /\ l.mode = 0 => Rows(b) <= Capacity /\ l.bq = BlockQ(b)
         /\ (l.bq = 1 /\ b.qpk = RowsM) \/ (l.mode = 0 /\ b.maxq <= 1)
<1>1. /\ Short \in Nat \ {0} /\ RowsM \in Nat \ {0} /\ Capacity \in Nat
      /\ LongPrefill \in Nat /\ Short < LongPrefill
  BY PartitionAssumption
<1>2. /\ b.qpk \in 1 .. RowsM /\ RowsM % b.qpk = 0 /\ b.mimo \in BOOLEAN
      /\ b.mimo => b.qpk = RowsM
      /\ b.maxq \in Nat
  BY DEF IsCall
<1>3. CASE MixedShort(b) /\ l = Launch(TRUE, 2, RowsM, 1)
  BY <1>1, <1>2, <1>3 DEF MixedShort, Launch
<1>4. CASE Use3D(b) /\ l = Launch(TRUE, 0, BlockM(b), BlockQ(b))
  <2>1. BlockM(b) = RowsM
    BY <1>1, <1>2, <1>4 DEF Use3D, BlockM
  <2>2. BlockQ(b) = RowsM \div b.qpk
    BY <2>1 DEF BlockQ
  <2>3. BlockQ(b) \in Nat \ {0}
    <3>1. b.qpk \in Nat \ {0}  BY <1>1, <1>2
    <3>2. b.qpk \div b.qpk = 1  BY <3>1, DivSelf
    <3>3. b.qpk \div b.qpk <= RowsM \div b.qpk  BY <1>1, <1>2, <3>1, DivMonotone
    <3>4. RowsM \div b.qpk \in Nat  BY <1>1, <3>1, DivOfNat
    <3>5. QED  BY <2>2, <3>2, <3>3, <3>4
  <2>4. b.mimo => BlockQ(b) = 1
    BY <1>1, <1>2, <2>2, DivSelf
  <2>5. b.mimo \/ b.maxq <= 1
    BY <1>2, <1>4 DEF Use3D
  <2>6. l.split /\ l.mode = 0 /\ l.bm = RowsM /\ l.bq = BlockQ(b)
    BY <1>4, <2>1 DEF Launch
  <2>7. Rows(b) <= Capacity
    BY <1>4 DEF Use3D
  <2>8. QED  BY <1>2, <2>3, <2>4, <2>5, <2>6, <2>7
<1>5. QED  BY <1>3, <1>4 DEF SplitLaunch

LEMMA LaneElements ==
  ASSUME NEW b, NEW l
  PROVE  /\ \A lane \in Lanes(b, l) :
              /\ lane[1] \in Blocks(b, l) /\ BlockActive(b, l, lane[1])
              /\ lane[2] \in BlockPositions(b, l, lane[1])
         /\ \A g \in Blocks(b, l) : \A p \in BlockPositions(b, l, g) :
              BlockActive(b, l, g) =>
                <<g, p>> \in Lanes(b, l) /\ <<g, p>>[1] = g /\ <<g, p>>[2] = p
BY DEF Lanes

LEMMA CallFacts ==
  ASSUME NEW b, IsCall(b)
  PROVE  /\ b.n \in Nat \ {0} /\ b.maxq \in Nat
         /\ b.cu[0] = 0 /\ b.cu[b.n] \in Nat
         /\ RealRows(b) = b.cu[b.n] /\ Rows(b) \in Nat /\ RealRows(b) <= Rows(b)
         /\ \A i \in 0 .. b.n - 1 :
              /\ b.cu[i] \in Nat /\ b.cu[i + 1] \in Nat /\ b.k[i] \in Nat
              /\ QLen(b, i) \in Nat /\ QLen(b, i) <= b.maxq
              /\ b.cu[i + 1] = b.cu[i] + QLen(b, i)
              /\ b.cu[i + 1] <= b.cu[b.n]
              /\ \A j \in 0 .. b.n - 1 : i < j => b.cu[i + 1] <= b.cu[j]
<1>1. /\ b.n \in Nat \ {0} /\ b.cu \in [0 .. b.n -> Nat] /\ b.pad \in Nat
      /\ b.cu[0] = 0 /\ b.k \in [0 .. b.n - 1 -> Nat] /\ b.maxq \in Nat
      /\ \A i, j \in 0 .. b.n : i <= j => b.cu[i] <= b.cu[j]
      /\ \A i \in 0 .. b.n - 1 : QLen(b, i) <= b.maxq
  BY DEF IsCall
<1>2. b.n \in 0 .. b.n
  BY <1>1
<1>3. ASSUME NEW i \in 0 .. b.n - 1
      PROVE  /\ b.cu[i] \in Nat /\ b.cu[i + 1] \in Nat /\ b.k[i] \in Nat
             /\ QLen(b, i) \in Nat /\ QLen(b, i) <= b.maxq
             /\ b.cu[i + 1] = b.cu[i] + QLen(b, i)
             /\ b.cu[i + 1] <= b.cu[b.n]
             /\ \A j \in 0 .. b.n - 1 : i < j => b.cu[i + 1] <= b.cu[j]
  <2>1. i \in 0 .. b.n /\ i + 1 \in 0 .. b.n /\ i <= i + 1 /\ i + 1 <= b.n
    BY <1>1
  <2>2. b.cu[i] \in Nat /\ b.cu[i + 1] \in Nat /\ b.cu[i] <= b.cu[i + 1]
    BY <1>1, <2>1
  <2>3. b.cu[i + 1] <= b.cu[b.n]
    BY <1>1, <1>2, <2>1
  <2>4. \A j \in 0 .. b.n - 1 : i < j => b.cu[i + 1] <= b.cu[j]
    <3> SUFFICES ASSUME NEW j \in 0 .. b.n - 1, i < j PROVE b.cu[i + 1] <= b.cu[j]
      OBVIOUS
    <3>1. j \in 0 .. b.n /\ i + 1 <= j
      BY <1>1
    <3>2. QED  BY <1>1, <2>1, <3>1
  <2>5. QLen(b, i) \in Nat /\ b.cu[i + 1] = b.cu[i] + QLen(b, i)
    BY <2>2 DEF QLen
  <2>6. b.k[i] \in Nat /\ QLen(b, i) <= b.maxq
    BY <1>1
  <2>7. QED  BY <2>2, <2>3, <2>4, <2>5, <2>6
<1>4. QED  BY <1>1, <1>2, <1>3 DEF RealRows, Rows

LEMMA BlockFacts ==
  ASSUME NEW b, IsCall(b), NEW l, SplitLaunch(b, l), NEW g \in Blocks(b, l)
  PROVE  /\ g \in Nat
         /\ BlockSeq(b, l, g) \in 0 .. b.n - 1
         /\ BlockLocal(b, l, g) \in Nat
         /\ l.mode = 2 => /\ g = BlockSeq(b, l, g) * Short + BlockLocal(b, l, g)
                           /\ BlockLocal(b, l, g) < Short
<1>1. Short \in Nat \ {0}
  BY PartitionAssumption
<1>2. b.n \in Nat \ {0} /\ Rows(b) \in Nat
  BY CallFacts
<1>3. l.bq \in Nat \ {0} /\ l.mode \in {0, 2} /\ (l.mode = 0 => l.bq = BlockQ(b))
  BY LaunchFacts
<1>4. CASE l.mode = 2
  <2> DEFINE s == g \div Short
             t == g % Short
  <2>1. b.n * Short \in Nat
    BY <1>1, <1>2
  <2>2. g \in Nat /\ g < b.n * Short
    BY <1>4, <2>1 DEF Blocks
  <2>3. s \in Nat /\ t \in 0 .. Short - 1 /\ g = Short * s + t
    <3>1. s \in Nat  BY <1>1, <2>2, DivOfNat
    <3>2. g \in Int /\ Short \in Nat \ {0}  BY <1>1, <2>2
    <3>3. g % Short \in 0 .. Short - 1 /\ g = Short * (g \div Short) + (g % Short)
      BY <3>2, DivMod
    <3>4. QED  BY <3>1, <3>3
  <2>4. BlockSeq(b, l, g) = s /\ BlockLocal(b, l, g) = t
    BY <1>4 DEF BlockSeq, BlockLocal
  <2> HIDE DEF s, t
  <2>5. s < b.n
    <3> SUFFICES ASSUME b.n <= s PROVE FALSE
      BY <1>2, <2>3
    <3>1. b.n * Short <= s * Short
      BY <1>1, <1>2, <2>3, MulMonotone
    <3>2. s * Short = Short * s /\ Short * s \in Nat
      BY <1>1, <2>3
    <3>3. QED  BY <2>1, <2>2, <2>3, <3>1, <3>2, <1>1
  <2>6. s * Short = Short * s
    BY <1>1, <2>3
  <2>7. QED  BY <1>1, <1>2, <2>2, <2>3, <2>4, <2>5, <2>6
<1>5. CASE l.mode = 0
  <2>1. Rows(b) \div BlockQ(b) \in Nat
    BY <1>2, <1>3, <1>5, DivOfNat
  <2>2. g \in Nat
    BY <1>2, <1>5, <2>1 DEF Blocks
  <2>3. BlockSeq(b, l, g) = FindSeq(b, l.bq, g)
    BY <1>5 DEF BlockSeq
  <2>4. BlockSeq(b, l, g) \in 0 .. b.n - 1 /\ FirstBlock(b, l.bq, BlockSeq(b, l, g)) <= g
    BY <1>3, <2>2, <2>3, FindSeqExists
  <2>5. FirstBlock(b, l.bq, BlockSeq(b, l, g)) \in Nat
    <3>1. b.cu[BlockSeq(b, l, g)] \in Nat  BY <2>4, CallFacts
    <3>2. b.cu[BlockSeq(b, l, g)] \div l.bq \in Nat  BY <1>3, <3>1, DivOfNat
    <3>3. QED  BY <1>3, <2>4, <3>1, <3>2 DEF FirstBlock
  <2>6. BlockLocal(b, l, g) = g - FirstBlock(b, l.bq, BlockSeq(b, l, g))
    BY <1>5 DEF BlockLocal
  <2>7. QED  BY <1>5, <2>2, <2>4, <2>5, <2>6
<1>6. QED  BY <1>3, <1>4, <1>5

\* A lane answers for one row of one sequence; its block is that row's own.
LEMMA LaneFacts ==
  ASSUME NEW b, IsCall(b), NEW l, SplitLaunch(b, l), NEW lane \in Lanes(b, l)
  PROVE  LET s == BlockSeq(b, l, lane[1])
         IN  /\ s \in 0 .. b.n - 1
             /\ lane[2] \in 0 .. QLen(b, s) - 1
             /\ BlockLocal(b, l, lane[1]) = lane[2]
             /\ l.mode = 2 => QLen(b, s) <= Short /\ lane[1] = s * Short + lane[2]
<1> DEFINE g == lane[1]
           p == lane[2]
           s == BlockSeq(b, l, g)
           t == BlockLocal(b, l, g)
           q == QLen(b, s)
<1>1. g \in Blocks(b, l) /\ BlockActive(b, l, g) /\ p \in BlockPositions(b, l, g)
  BY LaneElements
<1>2. g \in Nat /\ s \in 0 .. b.n - 1 /\ t \in Nat /\ (l.mode = 2 => g = s * Short + t)
  BY <1>1, BlockFacts
<1>3. q \in Nat /\ q <= b.maxq
  BY <1>2, CallFacts
<1>4. t * l.bq < q /\ (l.mode = 2 => q <= Short)
  BY <1>1 DEF BlockActive
<1>5. /\ l.bm = RowsM /\ l.bq \in Nat \ {0}
      /\ (l.bq = 1 /\ b.qpk = RowsM) \/ (l.mode = 0 /\ b.maxq <= 1)
  BY LaunchFacts
<1>6. p \in t * l.bq .. Lesser(t * l.bq + (l.bm - 1) \div b.qpk, q - 1)
  BY <1>1 DEF BlockPositions
<1>7. RowsM \in Nat \ {0} /\ b.qpk \in Nat \ {0} /\ b.maxq \in Nat
  BY PartitionAssumption DEF IsCall
<1>8. (l.bm - 1) \div b.qpk \in Nat
  BY <1>5, <1>7, DivOfNat
<1> HIDE DEF g, p, s, t, q
<1>9. t * l.bq \in Nat
  BY <1>2, <1>5
<1>10. p \in Nat /\ t * l.bq <= p /\ p <= q - 1 /\ p <= t * l.bq + (l.bm - 1) \div b.qpk
  BY <1>3, <1>6, <1>8, <1>9 DEF Lesser
<1>11. p = t
  <2>1. CASE l.bq = 1 /\ b.qpk = RowsM
    <3>1. (l.bm - 1) \div b.qpk = 0  BY <1>5, <1>7, <2>1, DivSelf
    <3>2. t * l.bq = t  BY <1>2, <2>1
    <3>3. QED  BY <1>2, <1>10, <3>1, <3>2
  <2>2. CASE b.maxq <= 1
    <3>1. p = 0  BY <1>3, <1>7, <1>10, <2>2
    <3>2. t * l.bq <= 0  BY <1>9, <1>10, <3>1
    <3>3. CASE t = 0  BY <3>1, <3>3
    <3>4. CASE t > 0
      <4>1. t \in Int /\ 1 <= t /\ l.bq \in Nat  BY <1>2, <1>5, <3>4
      <4>2. 1 * l.bq <= t * l.bq  BY <4>1, MulMonotone
      <4>3. QED  BY <1>5, <3>2, <4>2, <1>9
    <3>5. QED  BY <1>2, <3>3, <3>4
  <2>3. QED  BY <1>5, <2>1, <2>2
<1>12. s \in 0 .. b.n - 1 /\ p \in 0 .. q - 1 /\ t = p
       /\ (l.mode = 2 => q <= Short /\ g = s * Short + p)
  BY <1>2, <1>3, <1>4, <1>10, <1>11
<1>13. QED  BY <1>12 DEF g, p, s, t, q

-----------------------------------------------------------------------------
(* What a 3D kernel leaves in scratch.                                     *)

LEMMA LaneScratchBound ==
  ASSUME NEW b, IsCall(b), NEW l, SplitLaunch(b, l), NEW lane \in Lanes(b, l)
  PROVE  LaneScratch(b, l, lane) \in 0 .. Capacity - 1
<1> DEFINE s == BlockSeq(b, l, lane[1])
           p == lane[2]
<1>1. /\ s \in 0 .. b.n - 1 /\ p \in 0 .. QLen(b, s) - 1
      /\ l.mode = 2 => QLen(b, s) <= Short
  BY LaneFacts
<1>2. /\ b.cu[s] \in Nat /\ QLen(b, s) \in Nat /\ b.n \in Nat
      /\ b.cu[s] + QLen(b, s) <= Rows(b) /\ Rows(b) \in Nat
  BY <1>1, CallFacts
<1>3. /\ l.mode \in {0, 2}
      /\ l.mode = 2 => b.n * Short <= Capacity
      /\ l.mode = 0 => Rows(b) <= Capacity
  BY LaunchFacts
<1>4. Short \in Nat \ {0} /\ Capacity \in Nat
  BY PartitionAssumption
<1>5. LaneScratch(b, l, lane) = IF l.mode = 2 THEN s * Short + p ELSE b.cu[s] + p
  BY DEF LaneScratch, ScratchRow
<1> HIDE DEF s, p
<1>6. CASE l.mode = 2
  <2>1. (s + 1) * Short <= b.n * Short
    BY <1>1, <1>2, <1>4, MulMonotone
  <2>2. (s + 1) * Short = s * Short + Short /\ s * Short \in Nat /\ b.n * Short \in Nat
    BY <1>1, <1>2, <1>4
  <2>3. p \in Nat /\ p < Short
    BY <1>1, <1>2, <1>4, <1>6
  <2>4. QED  BY <1>3, <1>4, <1>5, <1>6, <2>1, <2>2, <2>3
<1>7. CASE l.mode = 0
  BY <1>1, <1>2, <1>3, <1>4, <1>5, <1>7
<1>8. QED  BY <1>3, <1>6, <1>7

\* The row and the partition length of a reducer program agree with those of
\* every lane that shares its scratch row.
LEMMA ReducerMatchesLane ==
  ASSUME NEW b, IsCall(b), NEW l, SplitLaunch(b, l), NEW x \in ActiveReducers(b, l),
         l.mode = 2 \/ x < RealRows(b),
         NEW lane \in Lanes(b, l), LaneScratch(b, l, lane) = x
  PROVE  /\ LaneRow(b, l, lane) = ReducerRow(b, l, x)
         /\ PartitionLen(b, l, BlockSeq(b, l, lane[1]), BlockLocal(b, l, lane[1]))
              = ReducedLen(b, l, x)
<1> DEFINE s == BlockSeq(b, l, lane[1])
           p == lane[2]
<1>1. /\ s \in 0 .. b.n - 1 /\ p \in 0 .. QLen(b, s) - 1
      /\ BlockLocal(b, l, lane[1]) = p
      /\ l.mode = 2 => QLen(b, s) <= Short /\ lane[1] = s * Short + p
  BY LaneFacts
<1>2. /\ b.cu[s] \in Nat /\ QLen(b, s) \in Nat /\ b.n \in Nat /\ b.k[s] \in Nat
      /\ b.cu[s + 1] = b.cu[s] + QLen(b, s)
      /\ Rows(b) \in Nat
  BY <1>1, CallFacts
<1>3. l.mode \in {0, 2} /\ l.bq \in Nat \ {0}
  BY LaunchFacts
<1>4. Short \in Nat \ {0}
  BY PartitionAssumption
<1>5. x = IF l.mode = 2 THEN s * Short + p ELSE b.cu[s] + p
  BY DEF LaneScratch, ScratchRow
<1>6. LaneRow(b, l, lane) = b.cu[s] + p
  BY DEF LaneRow
<1>7. ReducerSeq(b, l, x) = s /\ ReducerRow(b, l, x) = b.cu[s] + p
  <2>1. CASE l.mode = 2
    <3>1. p < Short /\ p \in Nat /\ s \in Nat
      BY <1>1, <1>2, <1>4, <2>1
    <3>2. x \div Short = s /\ x % Short = p
      <4> HIDE DEF s, p
      <4> DEFINE d == x \div Short
                 r == x % Short
      <4>1. x = s * Short + p /\ x \in Nat
        BY <1>4, <1>5, <2>1, <3>1
      <4>2. d \in Nat /\ r \in 0 .. Short - 1 /\ x = Short * d + r
        <5>1. x \in Int /\ x \div Short \in Nat  BY <1>4, <4>1, DivOfNat
        <5>2. QED  BY <1>4, <5>1, DivMod
      <4> HIDE DEF d, r
      <4>3. d * Short = Short * d /\ d * Short \in Nat /\ s * Short \in Nat
        BY <1>4, <3>1, <4>2
      <4>4. ASSUME d < s PROVE FALSE
        <5>1. (d + 1) * Short <= s * Short  BY <1>4, <3>1, <4>2, <4>4, MulMonotone
        <5>2. (d + 1) * Short = d * Short + Short  BY <1>4, <4>2
        <5>3. QED  BY <1>4, <3>1, <4>1, <4>2, <4>3, <5>1, <5>2
      <4>5. ASSUME s < d PROVE FALSE
        <5>1. (s + 1) * Short <= d * Short  BY <1>4, <3>1, <4>2, <4>5, MulMonotone
        <5>2. (s + 1) * Short = s * Short + Short  BY <1>4, <3>1
        <5>3. QED  BY <1>4, <3>1, <4>1, <4>2, <4>3, <5>1, <5>2
      <4>6. d = s  BY <3>1, <4>2, <4>4, <4>5
      <4>7. r = p  BY <3>1, <4>1, <4>2, <4>3, <4>6
      <4>8. QED  BY <4>6, <4>7 DEF d, r
    <3>3. QED  BY <2>1, <3>2 DEF ReducerSeq, ReducerRow
  <2>2. CASE l.mode = 0
    <3> DEFINE t == FindSeq(b, 0, x)
    <3>1. x = b.cu[s] + p /\ x \in Nat
      BY <1>1, <1>2, <1>5, <2>2
    <3>2. /\ t \in 0 .. b.n - 1 /\ FirstBlock(b, 0, t) <= x
          /\ \A j \in t + 1 .. b.n - 1 : FirstBlock(b, 0, j) > x
      BY <3>1, FindSeqExists
    <3> HIDE DEF t
    <3>3. b.cu[t] <= x /\ \A j \in t + 1 .. b.n - 1 : b.cu[j] > x
      BY <3>2 DEF FirstBlock
    <3>4. ~ (s < t)
      <4>1. SUFFICES ASSUME s < t PROVE FALSE  OBVIOUS
      <4>2. b.cu[s + 1] <= b.cu[t]  BY <1>1, <3>2, <4>1, CallFacts
      <4>3. b.cu[t] \in Nat  BY <3>2, CallFacts
      <4>4. QED  BY <1>1, <1>2, <3>1, <3>3, <4>2, <4>3
    <3>5. ~ (t < s)
      <4>1. SUFFICES ASSUME t < s PROVE FALSE  OBVIOUS
      <4>2. s \in t + 1 .. b.n - 1  BY <1>1, <1>2, <3>2, <4>1
      <4>3. QED  BY <1>1, <1>2, <3>1, <3>3, <4>2
    <3>6. t = s  BY <1>1, <1>2, <3>2, <3>4, <3>5
    <3>7. QED  BY <2>2, <3>1, <3>6 DEF ReducerSeq, ReducerRow, t
  <2>3. QED  BY <1>3, <2>1, <2>2
<1>8. ReducedLen(b, l, x) = IF l.bq = 1 THEN b.k[s] - QLen(b, s) + ((b.cu[s] + p) - b.cu[s]) + 1
                            ELSE b.k[s]
  <2> DEFINE i == ReducerSeq(b, l, x)
             r == ReducerRow(b, l, x)
  <2>1. ReducedLen(b, l, x) = IF l.bq = 1
                              THEN b.k[i] - QLen(b, i) + (r - b.cu[i]) + 1
                              ELSE b.k[i]
    BY DEF ReducedLen
  <2>2. i = s /\ r = b.cu[s] + p
    BY <1>7
  <2> HIDE DEF i, r, s, p
  <2>3. QED  BY <2>1, <2>2
<1>9. PartitionLen(b, l, s, p) = IF l.bq = 1 THEN b.k[s] - QLen(b, s) + p + 1 ELSE b.k[s]
  BY DEF PartitionLen
<1>10. (b.cu[s] + p) - b.cu[s] = p
  BY <1>1, <1>2
<1>11. QED  BY <1>1, <1>6, <1>7, <1>8, <1>9, <1>10

\* Every row the reducer combines has a lane.
LEMMA ReducerHasLane ==
  ASSUME NEW b, IsCall(b), NEW l, SplitLaunch(b, l), NEW x \in ActiveReducers(b, l),
         l.mode = 2 \/ x < RealRows(b)
  PROVE  \E lane \in Lanes(b, l) : LaneScratch(b, l, lane) = x
<1>1. /\ l.split /\ l.bm = RowsM /\ l.mode \in {0, 2} /\ l.bq \in Nat \ {0}
      /\ l.mode = 2 => l.bq = 1 /\ b.n * Short <= Capacity
      /\ l.mode = 0 => Rows(b) <= Capacity /\ l.bq = BlockQ(b)
      /\ (l.bq = 1 /\ b.qpk = RowsM) \/ (l.mode = 0 /\ b.maxq <= 1)
  BY LaunchFacts
<1>2. Short \in Nat \ {0} /\ RowsM \in Nat \ {0} /\ b.qpk \in Nat \ {0}
  <2>1. Short \in Nat \ {0} /\ RowsM \in Nat \ {0}  BY PartitionAssumption
  <2>2. b.qpk \in 1 .. RowsM  BY DEF IsCall
  <2>3. QED  BY <2>1, <2>2
<1>3. b.n \in Nat \ {0} /\ Rows(b) \in Nat /\ RealRows(b) \in Nat /\ RealRows(b) <= Rows(b)
      /\ b.maxq \in Nat
  BY CallFacts
<1>4. (l.bm - 1) \div b.qpk \in Nat
  BY <1>1, <1>2, DivOfNat
<1>5. CASE l.mode = 2
  <2> DEFINE s == x \div Short
             p == x % Short
  <2>1. x \in Nat /\ x < b.n * Short /\ x \in Blocks(b, l)
    <3>1. b.n * Short \in Nat  BY <1>2, <1>3
    <3>2. QED  BY <1>5, <3>1 DEF ActiveReducers, ReducerRows, Blocks
  <2>2. BlockSeq(b, l, x) = s /\ BlockLocal(b, l, x) = p
    BY <1>5 DEF BlockSeq, BlockLocal
  <2>3. QLen(b, s) <= Short /\ p < QLen(b, s)
    BY <1>5 DEF ActiveReducers, ReducerActive
  <2>4. s \in 0 .. b.n - 1 /\ p \in Nat /\ x = s * Short + p
    BY <1>5, <2>1, <2>2, BlockFacts
  <2>5. QLen(b, s) \in Nat
    BY <2>4, CallFacts
  <2> HIDE DEF s, p
  <2>6. p * l.bq = p /\ l.bq = 1
    BY <1>1, <1>5, <2>4
  <2>7. BlockActive(b, l, x)
    BY <1>5, <2>2, <2>3, <2>6 DEF BlockActive
  <2>8. p \in BlockPositions(b, l, x)
    BY <1>4, <2>2, <2>3, <2>4, <2>5, <2>6 DEF BlockPositions, Lesser
  <2>9. <<x, p>> \in Lanes(b, l) /\ <<x, p>>[1] = x /\ <<x, p>>[2] = p
    BY <2>1, <2>7, <2>8, LaneElements
  <2>10. LaneScratch(b, l, <<x, p>>) = x
    BY <1>5, <2>2, <2>4, <2>9 DEF LaneScratch, ScratchRow
  <2>11. QED  BY <2>9, <2>10
<1>6. CASE l.mode = 0
  <2> DEFINE s == FindSeq(b, 0, x)
             p == x - b.cu[s]
             f == b.cu[s] \div l.bq + s
             g == f + p
  <2>1. x \in Nat /\ x < RealRows(b)
    BY <1>3, <1>6 DEF ActiveReducers, ReducerRows
  <2>2. /\ s \in 0 .. b.n - 1 /\ FirstBlock(b, 0, s) <= x
        /\ \A j \in s + 1 .. b.n - 1 : FirstBlock(b, 0, j) > x
    BY <2>1, FindSeqExists
  <2>3. b.cu[s] <= x /\ \A j \in s + 1 .. b.n - 1 : b.cu[j] > x
    BY <2>2 DEF FirstBlock
  <2>4. /\ b.cu[s] \in Nat /\ QLen(b, s) \in Nat /\ b.cu[s + 1] = b.cu[s] + QLen(b, s)
        /\ QLen(b, s) <= b.maxq
    BY <2>2, CallFacts
  <2>5. x < b.cu[s + 1]
    <3>1. CASE s = b.n - 1
      <4>1. b.cu[s + 1] = b.cu[b.n]  BY <1>3, <3>1
      <4>2. QED  BY <2>1, <4>1 DEF RealRows
    <3>2. CASE s # b.n - 1
      <4>1. s + 1 \in s + 1 .. b.n - 1  BY <1>3, <2>2, <3>2
      <4>2. QED  BY <2>3, <4>1
    <3>3. QED  BY <3>1, <3>2
  <2>6. p \in Nat /\ p < QLen(b, s) /\ x = b.cu[s] + p
    BY <2>1, <2>3, <2>4, <2>5
  <2>7. f \in Nat /\ f = FirstBlock(b, l.bq, s) /\ b.cu[s] \div l.bq \in Nat
    <3>1. b.cu[s] \div l.bq \in Nat  BY <1>1, <2>4, DivOfNat
    <3>2. QED  BY <1>1, <2>2, <3>1 DEF FirstBlock
  <2> HIDE DEF s
  <2>8. l.bq = 1 \/ p = 0
    BY <1>1, <1>3, <2>4, <2>6
  <2>9. p * l.bq = p
    BY <1>1, <2>6, <2>8
  <2>10. \A j \in 0 .. b.n - 1 : s < j => FirstBlock(b, l.bq, j) > g
    <3> SUFFICES ASSUME NEW j \in 0 .. b.n - 1, s < j PROVE FirstBlock(b, l.bq, j) > g
      OBVIOUS
    <3>1. b.cu[j] \in Nat /\ b.cu[s + 1] <= b.cu[j]
      BY <2>2, CallFacts
    <3>2. FirstBlock(b, l.bq, j) = b.cu[j] \div l.bq + j /\ b.cu[j] \div l.bq \in Nat
      BY <1>1, <3>1, DivOfNat DEF FirstBlock
    <3>3. CASE l.bq = 1
      <4>1. b.cu[j] \div l.bq = b.cu[j] /\ b.cu[s] \div l.bq = b.cu[s]
        BY <2>4, <3>1, <3>3, DivOne
      <4>2. QED  BY <2>2, <2>4, <2>6, <3>1, <3>2, <4>1
    <3>4. CASE p = 0
      <4>1. b.cu[s] <= b.cu[j]  BY <2>4, <3>1
      <4>2. b.cu[s] \div l.bq <= b.cu[j] \div l.bq
        BY <1>1, <2>4, <3>1, <4>1, DivMonotone
      <4>3. QED  BY <2>2, <2>7, <3>2, <3>4, <4>2
    <3>5. QED  BY <2>8, <3>3, <3>4
  <2>11. g \in Nat /\ g \in Blocks(b, l)
    <3>1. Rows(b) \div l.bq \in Nat  BY <1>1, <1>3, DivOfNat
    <3>2. b.cu[s] \div l.bq + p <= Rows(b) \div l.bq
      <4>1. CASE l.bq = 1
        <5>1. b.cu[s] \div l.bq = b.cu[s] /\ Rows(b) \div l.bq = Rows(b)
          BY <1>3, <2>4, <4>1, DivOne
        <5>2. QED  BY <1>3, <2>1, <2>4, <2>6, <5>1
      <4>2. CASE p = 0
        <5>1. b.cu[s] <= Rows(b)  BY <1>3, <2>1, <2>3, <2>4
        <5>2. b.cu[s] \div l.bq <= Rows(b) \div l.bq
          BY <1>1, <1>3, <2>4, <5>1, DivMonotone
        <5>3. QED  BY <2>7, <4>2, <5>2
      <4>3. QED  BY <2>8, <4>1, <4>2
    <3>3. g \in Nat /\ g < Rows(b) \div l.bq + b.n
      BY <1>3, <2>2, <2>6, <2>7, <3>1, <3>2
    <3>4. QED  BY <1>1, <1>3, <1>6, <3>1, <3>3 DEF Blocks
  <2>12. BlockSeq(b, l, g) = s
    <3> DEFINE t == FindSeq(b, l.bq, g)
    <3>1. /\ t \in 0 .. b.n - 1 /\ FirstBlock(b, l.bq, t) <= g
          /\ \A j \in t + 1 .. b.n - 1 : FirstBlock(b, l.bq, j) > g
      BY <1>1, <2>11, FindSeqExists
    <3>2. BlockSeq(b, l, g) = t
      BY <1>6 DEF BlockSeq
    <3> HIDE DEF t
    <3>3. f <= g
      BY <2>6, <2>7
    <3>4. ~ (t < s)
      <4>1. SUFFICES ASSUME t < s PROVE FALSE  OBVIOUS
      <4>2. s \in t + 1 .. b.n - 1  BY <1>3, <2>2, <3>1, <4>1
      <4>3. QED  BY <2>7, <2>11, <3>1, <3>3, <4>2
    <3>5. ~ (s < t)
      <4>1. SUFFICES ASSUME s < t PROVE FALSE  OBVIOUS
      <4>2. FirstBlock(b, l.bq, t) > g  BY <2>10, <3>1, <4>1
      <4>3. b.cu[t] \div l.bq \in Nat  BY <1>1, <3>1, CallFacts, DivOfNat
      <4>4. FirstBlock(b, l.bq, t) \in Nat  BY <1>1, <3>1, <4>3 DEF FirstBlock
      <4>5. QED  BY <2>11, <3>1, <4>2, <4>4
    <3>6. QED  BY <1>3, <2>2, <3>1, <3>2, <3>4, <3>5
  <2>13. BlockLocal(b, l, g) = p
    BY <1>6, <2>6, <2>7, <2>12 DEF BlockLocal
  <2> HIDE DEF g, p, f
  <2>14. BlockActive(b, l, g)
    BY <1>6, <2>6, <2>9, <2>12, <2>13 DEF BlockActive
  <2>15. p \in BlockPositions(b, l, g)
    BY <1>4, <2>4, <2>6, <2>9, <2>12, <2>13 DEF BlockPositions, Lesser
  <2>16. <<g, p>> \in Lanes(b, l) /\ <<g, p>>[1] = g /\ <<g, p>>[2] = p
    BY <2>11, <2>14, <2>15, LaneElements
  <2>17. LaneScratch(b, l, <<g, p>>) = x
    BY <1>6, <2>6, <2>12, <2>16 DEF LaneScratch, ScratchRow
  <2>18. QED  BY <2>16, <2>17
<1>7. QED  BY <1>1, <1>5, <1>6

-----------------------------------------------------------------------------
(* The reducer after the kernel of its own launch.                          *)

LEMMA WrittenScratchFacts ==
  ASSUME NEW b, IsCall(b), NEW l, SplitLaunch(b, l)
  PROVE  /\ \A x \in DOMAIN WrittenScratch(b, l) :
              /\ x \in 0 .. Capacity - 1
              /\ DOMAIN WrittenScratch(b, l)[x] \subseteq 0 .. Segs - 1
         /\ \A lane \in Lanes(b, l) :
              LaneScratch(b, l, lane) \in DOMAIN WrittenScratch(b, l)
         /\ \A x \in DOMAIN WrittenScratch(b, l) :
              \E lane \in Lanes(b, l) :
                LaneScratch(b, l, lane) = x /\ WrittenScratch(b, l)[x] = Partials(b, l, lane)
<1> DEFINE W == WrittenScratch(b, l)
<1>1. DOMAIN W = {LaneScratch(b, l, lane) : lane \in Lanes(b, l)}
  BY DEF WrittenScratch
<1>2. ASSUME NEW x \in DOMAIN W
      PROVE  \E lane \in Lanes(b, l) :
               LaneScratch(b, l, lane) = x /\ W[x] = Partials(b, l, lane)
  <2> DEFINE at == {lane \in Lanes(b, l) : LaneScratch(b, l, lane) = x}
             c == CHOOSE lane \in at : TRUE
  <2>1. at # {}
    BY <1>1, <1>2
  <2>2. c \in at
    BY <2>1
  <2>3. W[x] = Partials(b, l, c)
    BY <1>1, <1>2 DEF WrittenScratch
  <2>4. QED  BY <2>2, <2>3
<1>3. ASSUME NEW x \in DOMAIN W
      PROVE  x \in 0 .. Capacity - 1 /\ DOMAIN W[x] \subseteq 0 .. Segs - 1
  <2>1. PICK lane \in Lanes(b, l) :
          LaneScratch(b, l, lane) = x /\ W[x] = Partials(b, l, lane)
    BY <1>2, <1>3
  <2>2. DOMAIN Partials(b, l, lane) \subseteq 0 .. Segs - 1
    <3>1. l.split  BY LaunchFacts
    <3>2. QED  BY <3>1 DEF Partials, LaneSegments, SegmentsOf
  <2>3. QED  BY <2>1, <2>2, LaneScratchBound
<1>4. QED  BY <1>1, <1>2, <1>3

LEMMA CombinedIsFresh ==
  ASSUME NEW b, IsCall(b), NEW l, SplitLaunch(b, l), NEW x \in ActiveReducers(b, l),
         scratch = WrittenScratch(b, l)
  PROVE  \A seg \in DOMAIN Combined(b, l, x).parts :
           Combined(b, l, x).parts[seg].row = ReducerRow(b, l, x)
<1> DEFINE len == ReducedLen(b, l, x)
<1>1. CASE (l.mode # 2 /\ x >= RealRows(b)) \/ TilesPerSegment(len) <= 0
  <2>1. Combined(b, l, x) = Zero  BY <1>1 DEF Combined
  <2>2. DOMAIN Combined(b, l, x).parts = {}  BY <2>1 DEF Zero
  <2>3. QED  BY <2>2
<1>2. CASE ~ ((l.mode # 2 /\ x >= RealRows(b)) \/ TilesPerSegment(len) <= 0)
  <2>1. x \in Int /\ RealRows(b) \in Int
    <3>1. RealRows(b) \in Int  BY CallFacts
    <3>2. b.n * Short \in Nat /\ Rows(b) \in Nat
      BY CallFacts, PartitionAssumption
    <3>3. x \in Int  BY <3>2 DEF ActiveReducers, ReducerRows
    <3>4. QED  BY <3>1, <3>3
  <2>2. l.mode = 2 \/ x < RealRows(b)
    BY <1>2, <2>1
  <2>3. PICK any \in Lanes(b, l) : LaneScratch(b, l, any) = x
    BY <2>2, ReducerHasLane
  <2>4. x \in DOMAIN scratch
    BY <2>3, WrittenScratchFacts
  <2>5. PICK lane \in Lanes(b, l) :
          LaneScratch(b, l, lane) = x /\ scratch[x] = Partials(b, l, lane)
    BY <2>4, WrittenScratchFacts
  <2>6. /\ LaneRow(b, l, lane) = ReducerRow(b, l, x)
        /\ PartitionLen(b, l, BlockSeq(b, l, lane[1]), BlockLocal(b, l, lane[1])) = len
    BY <2>2, <2>5, ReducerMatchesLane
  <2>7. len \in Int
    <3> DEFINE s == BlockSeq(b, l, lane[1])
               t == BlockLocal(b, l, lane[1])
    <3>1. s \in 0 .. b.n - 1 /\ t \in Int
      BY LaneFacts
    <3>2. b.k[s] \in Int /\ QLen(b, s) \in Int
      BY <3>1, CallFacts
    <3>3. PartitionLen(b, l, s, t) \in Int
      BY <3>1, <3>2 DEF PartitionLen
    <3>4. QED  BY <2>6, <3>3
  <2> HIDE DEF len
  <2>8. TilesPerSegment(len) > 0
    <3>1. Segs * SplitTile \in Nat \ {0}  BY PartitionAssumption
    <3>2. TilesPerSegment(len) \in Int  BY <2>7, <3>1, CeilInt DEF TilesPerSegment
    <3>3. QED  BY <1>2, <3>2
  <2>9. \A seg \in SegmentsRead(len) : seg \in DOMAIN scratch[x]
    <3>1. l.split  BY LaunchFacts
    <3>2. \A seg \in SegmentsRead(len) : seg \in 0 .. Segs - 1 /\ SegmentRuns(seg, len)
      BY <2>7, <2>8, ReadSegmentsRun
    <3>3. \A seg \in SegmentsRead(len) : seg \in LaneSegments(b, l, lane)
      BY <2>6, <3>1, <3>2 DEF LaneSegments, SegmentsOf
    <3>4. QED  BY <2>5, <3>3 DEF Partials
  <2>10. \A seg \in DOMAIN scratch[x] : scratch[x][seg].row = ReducerRow(b, l, x)
    BY <2>5, <2>6 DEF Partials
  <2>11. Combined(b, l, x).parts = [seg \in SegmentsRead(len) |->
            IF x \in DOMAIN scratch /\ seg \in DOMAIN scratch[x]
            THEN scratch[x][seg] ELSE Stale]
    BY <1>2 DEF Combined, Result, len
  <2>12. QED  BY <2>4, <2>9, <2>10, <2>11
<1>3. QED  BY <1>1, <1>2

-----------------------------------------------------------------------------
(* The invariant: what can be left on the stream, and what scratch holds    *)
(* when the reducer is next.                                               *)

Plain(l) == l.split = FALSE

QueueOK(b, q) ==
  \/ q = <<>>
  \/ \E m : Plain(m) /\ q = <<Main(m)>>
  \/ \E l : SplitLaunch(b, l) /\ q \in {<<Reduction(l)>>, <<Main(l), Reduction(l)>>}
  \/ \E l, m : Plain(m) /\ SplitLaunch(b, l) /\ q = <<Main(m), Main(l), Reduction(l)>>

IInv ==
  /\ call = NoCall => queue = <<>> /\ scratch = <<>> /\ out = <<>>
  /\ call # NoCall => call \in Calls /\ QueueOK(call, queue)
  /\ \A l : queue = <<Reduction(l)>> => scratch = WrittenScratch(call, l)
  /\ ScratchInBounds
  /\ NoStalePartial

LEMMA KernelsOK ==
  ASSUME NEW b, IsCall(b)
  PROVE  QueueOK(b, Kernels(b))
<1> DEFINE P == Launch(FALSE, 1, BlockM(b), BlockQ(b))
           S == Launch(TRUE, 2, RowsM, 1)
           N == Launch(Use3D(b), 0, BlockM(b), BlockQ(b))
<1>1. CASE MixedShort(b)
  <2>1. Kernels(b) = <<Main(P), Main(S), Reduction(S)>>
    BY <1>1 DEF Kernels, Launches
  <2>2. SplitLaunch(b, S) /\ Plain(P)
    BY <1>1 DEF SplitLaunch, Plain, Launch
  <2>3. QED  BY <2>1, <2>2 DEF QueueOK
<1>2. CASE ~ MixedShort(b) /\ Use3D(b)
  <2>1. Kernels(b) = <<Main(N), Reduction(N)>>
    BY <1>2 DEF Kernels, Launches
  <2>2. SplitLaunch(b, N)
    BY <1>2 DEF SplitLaunch
  <2>3. QED  BY <2>1, <2>2 DEF QueueOK
<1>3. CASE ~ MixedShort(b) /\ ~ Use3D(b)
  <2>1. Kernels(b) = <<Main(N)>>
    BY <1>3 DEF Kernels, Launches
  <2>2. Plain(N)
    BY <1>3 DEF Plain, Launch, Use3D
  <2>3. QED  BY <2>1, <2>2 DEF QueueOK
<1>4. QED  BY <1>1, <1>2, <1>3

LEMMA QueueFacts ==
  ASSUME NEW b, NEW q, QueueOK(b, q), q # <<>>
  PROVE  /\ QueueOK(b, Tail(q))
         /\ Head(q).kind = "main" /\ Head(q).launch.split =>
              SplitLaunch(b, Head(q).launch) /\ Tail(q) = <<Reduction(Head(q).launch)>>
         /\ Head(q).kind = "main" /\ ~ Head(q).launch.split =>
              \A l : Tail(q) # <<Reduction(l)>>
         /\ Head(q).kind = "reduce" =>
              /\ Tail(q) = <<>> /\ q = <<Reduction(Head(q).launch)>>
              /\ SplitLaunch(b, Head(q).launch)
<1>1. ASSUME NEW m, Plain(m), q = <<Main(m)>>
      PROVE  /\ Tail(q) = <<>> /\ Head(q) = Main(m)
             /\ Head(q).kind = "main" /\ Head(q).launch = m
  BY <1>1 DEF Main
<1>2. ASSUME NEW l, SplitLaunch(b, l), q = <<Reduction(l)>>
      PROVE  Tail(q) = <<>> /\ Head(q).kind = "reduce" /\ Head(q).launch = l
  BY <1>2 DEF Reduction
<1>3. ASSUME NEW l, SplitLaunch(b, l), q = <<Main(l), Reduction(l)>>
      PROVE  /\ Tail(q) = <<Reduction(l)>> /\ Head(q).kind = "main" /\ Head(q).launch = l
             /\ l.split
  BY <1>3, SMT DEF Main, SplitLaunch, Launch
<1>4. ASSUME NEW l, NEW m, Plain(m), SplitLaunch(b, l), q = <<Main(m), Main(l), Reduction(l)>>
      PROVE  /\ Tail(q) = <<Main(l), Reduction(l)>> /\ Head(q).kind = "main"
             /\ Head(q).launch = m
  BY <1>4 DEF Main
<1>5. \A l : <<>> # <<Reduction(l)>>
  OBVIOUS
<1>6. \A l, m : <<Main(m), Reduction(m)>> # <<Reduction(l)>>
  OBVIOUS
<1>7. CASE \E m : Plain(m) /\ q = <<Main(m)>>
  BY <1>1, <1>5, <1>7 DEF QueueOK, Plain
<1>8. CASE \E l : SplitLaunch(b, l) /\ q = <<Reduction(l)>>
  BY <1>2, <1>8 DEF QueueOK
<1>9. CASE \E l : SplitLaunch(b, l) /\ q = <<Main(l), Reduction(l)>>
  BY <1>3, <1>9 DEF QueueOK
<1>10. CASE \E l, m : Plain(m) /\ SplitLaunch(b, l) /\ q = <<Main(m), Main(l), Reduction(l)>>
  BY <1>4, <1>6, <1>10 DEF QueueOK, Plain
<1>11. QED  BY <1>7, <1>8, <1>9, <1>10 DEF QueueOK

THEOREM InitIInv == Init => IInv
BY DEF Init, IInv, ScratchInBounds, NoStalePartial, QueueOK

THEOREM NextIInv == IInv /\ [Next]_vars => IInv'
<1> SUFFICES ASSUME IInv, [Next]_vars PROVE IInv'
  OBVIOUS
<1>1. CASE Call
  <2>1. call = NoCall /\ scratch = <<>> /\ out = <<>>
    BY <1>1 DEF Call, IInv
  <2>2. call' \in Calls /\ IsCall(call') /\ call' # NoCall
    BY <1>1, CallsAssumption DEF Call
  <2>3. queue' = Kernels(call') /\ scratch' = <<>> /\ out' = <<>>
    BY <1>1, <2>1 DEF Call
  <2>4. QueueOK(call', queue')
    BY <2>2, <2>3, KernelsOK
  <2>5. \A l : queue' # <<Reduction(l)>>
    BY <2>3 DEF Kernels, Main, Reduction
  <2>6. ScratchInBounds' /\ NoStalePartial'
    BY <2>3 DEF ScratchInBounds, NoStalePartial
  <2>7. QED  BY <2>2, <2>4, <2>5, <2>6 DEF IInv
<1>2. CASE Return
  <2>1. call' = NoCall /\ scratch' = <<>> /\ out' = <<>> /\ queue' = <<>>
    BY <1>2 DEF Return
  <2>2. ScratchInBounds' /\ NoStalePartial'
    BY <2>1 DEF ScratchInBounds, NoStalePartial
  <2>3. QED  BY <2>1, <2>2 DEF IInv
<1>3. CASE SplitKernel
  <2> DEFINE l == Head(queue).launch
  <2>1. /\ call # NoCall /\ call \in Calls /\ QueueOK(call, queue) /\ queue # <<>>
        /\ Head(queue).kind = "main" /\ l.split
    BY <1>3 DEF SplitKernel, IInv
  <2>2. SplitLaunch(call, l) /\ Tail(queue) = <<Reduction(l)>> /\ QueueOK(call, Tail(queue))
    BY <2>1, QueueFacts
  <2>3. /\ scratch' = WrittenScratch(call, l) /\ queue' = <<Reduction(l)>>
        /\ call' = call /\ out' = out
    BY <1>3, <2>2 DEF SplitKernel
  <2>4. IsCall(call)
    BY <2>1, CallsAssumption
  <2>5. ScratchInBounds'
    BY <2>2, <2>3, <2>4, WrittenScratchFacts DEF ScratchInBounds
  <2>6. NoStalePartial'
    BY <2>3 DEF NoStalePartial, IInv
  <2>7. \A m : queue' = <<Reduction(m)>> => scratch' = WrittenScratch(call', m)
    <3> SUFFICES ASSUME NEW m, queue' = <<Reduction(m)>>
                 PROVE  scratch' = WrittenScratch(call', m)
      OBVIOUS
    <3>1. Reduction(m) = Reduction(l)  BY <2>3
    <3>2. m = l  BY <3>1 DEF Reduction
    <3>3. QED  BY <2>3, <3>2
  <2>8. QED  BY <2>1, <2>2, <2>3, <2>5, <2>6, <2>7 DEF IInv
<1>4. CASE PlainKernel
  <2> DEFINE l == Head(queue).launch
             lanes == Lanes(call, l)
             rows == {LaneRow(call, l, lane) : lane \in lanes}
             by(r) == {lane \in lanes : LaneRow(call, l, lane) = r}
             value(r) == Result(PlainTile, Partials(call, l, CHOOSE lane \in by(r) : TRUE))
  <2>1. /\ call # NoCall /\ call \in Calls /\ QueueOK(call, queue) /\ queue # <<>>
        /\ Head(queue).kind = "main" /\ ~ l.split
    BY <1>4 DEF PlainKernel, IInv
  <2>2. QueueOK(call, Tail(queue)) /\ \A m : Tail(queue) # <<Reduction(m)>>
    BY <2>1, QueueFacts
  <2>3. /\ scratch' = scratch /\ queue' = Tail(queue) /\ call' = call
        /\ out' = [r \in DOMAIN out \cup rows |-> IF r \in rows THEN value(r) ELSE out[r]]
    BY <1>4 DEF PlainKernel
  <2>4. ScratchInBounds'
    BY <2>3 DEF ScratchInBounds, IInv
  <2>5. ASSUME NEW r \in rows, NEW seg \in DOMAIN value(r).parts
        PROVE  value(r).parts[seg].row = r
    <3>1. PICK any \in lanes : LaneRow(call, l, any) = r
      BY <2>5
    <3>2. (CHOOSE lane \in by(r) : TRUE) \in by(r)
      BY <3>1
    <3> DEFINE c == CHOOSE lane \in by(r) : TRUE
    <3> HIDE DEF c
    <3>3. c \in lanes /\ LaneRow(call, l, c) = r
      BY <3>2 DEF c
    <3>4. value(r).parts = Partials(call, l, c)
      BY DEF Result, c
    <3> HIDE DEF l, value
    <3>5. seg \in DOMAIN Partials(call, l, c)
      BY <2>5, <3>4
    <3>6. Partials(call, l, c)[seg].row = LaneRow(call, l, c)
      BY <3>5 DEF Partials
    <3>7. QED  BY <3>3, <3>4, <3>6
  <2>6. NoStalePartial'
    <3> SUFFICES ASSUME NEW r \in DOMAIN out', NEW seg \in DOMAIN out'[r].parts
                 PROVE  out'[r].parts[seg].row = r
      BY DEF NoStalePartial
    <3>1. CASE r \in rows
      <4>1. out'[r] = value(r)  BY <2>3, <3>1
      <4> HIDE DEF rows, value
      <4>2. QED  BY <2>5, <3>1, <4>1
    <3>2. CASE r \notin rows
      <4> HIDE DEF rows, value
      <4>1. r \in DOMAIN out /\ out'[r] = out[r]  BY <2>3, <3>2
      <4>2. QED  BY <4>1 DEF NoStalePartial, IInv
    <3>3. QED  BY <3>1, <3>2
  <2>7. QED  BY <2>1, <2>2, <2>3, <2>4, <2>6 DEF IInv
<1>5. CASE Reduce
  <2> DEFINE l == Head(queue).launch
             xs == ActiveReducers(call, l)
             rows == {ReducerRow(call, l, x) : x \in xs}
             by(r) == {x \in xs : ReducerRow(call, l, x) = r}
             value(r) == Combined(call, l, CHOOSE x \in by(r) : TRUE)
  <2>1. /\ call # NoCall /\ call \in Calls /\ QueueOK(call, queue) /\ queue # <<>>
        /\ Head(queue).kind = "reduce"
    BY <1>5 DEF Reduce, IInv
  <2>2. Tail(queue) = <<>> /\ queue = <<Reduction(l)>> /\ SplitLaunch(call, l)
    BY <2>1, QueueFacts
  <2>3. /\ scratch' = scratch /\ queue' = <<>> /\ call' = call
        /\ out' = [r \in DOMAIN out \cup rows |-> IF r \in rows THEN value(r) ELSE out[r]]
    BY <1>5, <2>2 DEF Reduce
  <2>4. scratch = WrittenScratch(call, l)
    BY <2>2 DEF IInv
  <2>5. IsCall(call)
    BY <2>1, CallsAssumption
  <2>6. ScratchInBounds'
    BY <2>3 DEF ScratchInBounds, IInv
  <2>7. ASSUME NEW r \in rows, NEW seg \in DOMAIN value(r).parts
        PROVE  value(r).parts[seg].row = r
    <3>1. PICK any \in xs : ReducerRow(call, l, any) = r
      BY <2>7
    <3>2. (CHOOSE x \in by(r) : TRUE) \in by(r)
      BY <3>1
    <3> DEFINE c == CHOOSE x \in by(r) : TRUE
    <3> HIDE DEF c
    <3>3. c \in xs /\ ReducerRow(call, l, c) = r
      BY <3>2 DEF c
    <3>4. value(r) = Combined(call, l, c)
      BY DEF c
    <3> HIDE DEF l, value
    <3>5. QED  BY <2>2, <2>4, <2>5, <2>7, <3>3, <3>4, CombinedIsFresh
  <2>8. NoStalePartial'
    <3> SUFFICES ASSUME NEW r \in DOMAIN out', NEW seg \in DOMAIN out'[r].parts
                 PROVE  out'[r].parts[seg].row = r
      BY DEF NoStalePartial
    <3>1. CASE r \in rows
      <4>1. out'[r] = value(r)  BY <2>3, <3>1
      <4> HIDE DEF rows, value
      <4>2. QED  BY <2>7, <3>1, <4>1
    <3>2. CASE r \notin rows
      <4> HIDE DEF rows, value
      <4>1. r \in DOMAIN out /\ out'[r] = out[r]  BY <2>3, <3>2
      <4>2. QED  BY <4>1 DEF NoStalePartial, IInv
    <3>3. QED  BY <3>1, <3>2
  <2>9. QueueOK(call', queue') /\ \A m : queue' # <<Reduction(m)>>
    BY <2>3 DEF QueueOK
  <2>10. QED  BY <2>1, <2>3, <2>6, <2>8, <2>9 DEF IInv
<1>6. CASE UNCHANGED vars
  BY <1>6 DEF vars, IInv, ScratchInBounds, NoStalePartial
<1>7. QED  BY <1>1, <1>2, <1>3, <1>4, <1>5, <1>6 DEF Next

\* Whatever mix of rows a call brings and however the constants are chosen, the
\* split path stays inside the softmax buffers (launcher lines 506-566).
THEOREM ScratchAlwaysInBounds == Spec => []ScratchInBounds
<1>1. IInv => ScratchInBounds
  BY DEF IInv
<1>2. QED  BY <1>1, InitIInv, NextIInv, PTL DEF Spec

\* The reducer combines only partials that its own launch wrote for the same
\* row: no value of an earlier call reaches an output (lines 140-153, 288-318,
\* 360-433).
THEOREM NeverStale == Spec => []NoStalePartial
<1>1. IInv => NoStalePartial
  BY DEF IInv
<1>2. QED  BY <1>1, InitIInv, NextIInv, PTL DEF Spec

-----------------------------------------------------------------------------
(* Why the work of a call is divided exactly: more arithmetic first.        *)

LEMMA DivUnique ==
  ASSUME NEW n \in Int, NEW d \in Nat \ {0}, NEW q \in Int, q * d <= n, n < q * d + d
  PROVE  n \div d = q
<1> DEFINE e == n \div d
<1>1. n = d * e + (n % d) /\ n % d \in 0 .. d - 1 /\ e \in Int  BY DivMod
<1> HIDE DEF e
<1>2. d * e = e * d /\ e * d \in Int /\ q * d \in Int  BY <1>1
<1>3. ~ (e < q)
  <2> SUFFICES ASSUME e + 1 <= q PROVE FALSE  BY <1>1
  <2>1. (e + 1) * d <= q * d  BY <1>1, MulMonotone
  <2>2. (e + 1) * d = e * d + d  BY <1>1
  <2>3. QED  BY <1>1, <1>2, <2>1, <2>2
<1>4. ~ (q < e)
  <2> SUFFICES ASSUME q + 1 <= e PROVE FALSE  BY <1>1
  <2>1. (q + 1) * d <= e * d  BY <1>1, MulMonotone
  <2>2. (q + 1) * d = q * d + d  OBVIOUS
  <2>3. QED  BY <1>1, <1>2, <2>1, <2>2
<1>5. QED  BY <1>1, <1>3, <1>4 DEF e

\* A quotient and what it brackets.
LEMMA DivBracket ==
  ASSUME NEW n \in Int, NEW d \in Nat \ {0}
  PROVE  /\ n \div d \in Int
         /\ (n \div d) * d <= n /\ n < (n \div d) * d + d /\ (n \div d) * d \in Int
<1> DEFINE e == n \div d
<1>1. n = d * e + (n % d) /\ n % d \in 0 .. d - 1 /\ e \in Int  BY DivMod
<1> HIDE DEF e
<1>2. d * e = e * d /\ e * d \in Int  BY <1>1
<1>3. e * d <= n /\ n < e * d + d  BY <1>1, <1>2
<1>4. QED  BY <1>1, <1>2, <1>3 DEF e

LEMMA DivLeq ==
  ASSUME NEW x \in Int, NEW y \in Int, NEW d \in Nat \ {0}, x <= y
  PROVE  x \div d <= y \div d
<1> DEFINE e == x \div d
           f == y \div d
<1>1. /\ e \in Int /\ e * d <= x /\ e * d \in Int
      /\ f \in Int /\ y < f * d + d /\ f * d \in Int
  BY DivBracket
<1> HIDE DEF e, f
<1>2. SUFFICES ASSUME f + 1 <= e PROVE FALSE  BY <1>1 DEF e, f
<1>3. (f + 1) * d <= e * d  BY <1>1, <1>2, MulMonotone
<1>4. (f + 1) * d = f * d + d  BY <1>1
<1>5. QED  BY <1>1, <1>3, <1>4

\* Blocks of a and of c elements do not need more than those of a + c.
LEMMA DivAdd ==
  ASSUME NEW a \in Nat, NEW c \in Nat, NEW d \in Nat \ {0}
  PROVE  /\ a \div d \in Nat /\ c \div d \in Nat /\ (a + c) \div d \in Nat
         /\ a \div d + c \div d <= (a + c) \div d
<1> DEFINE e == a \div d
           f == c \div d
           g == (a + c) \div d
<1>1. e \in Nat /\ f \in Nat /\ g \in Nat  BY DivOfNat
<1>2. /\ e * d <= a /\ f * d <= c /\ a + c < g * d + d
      /\ e * d \in Int /\ f * d \in Int /\ g * d \in Int
  BY DivBracket
<1> HIDE DEF e, f, g
<1>3. SUFFICES ASSUME g + 1 <= e + f PROVE FALSE  BY <1>1 DEF e, f, g
<1>4. (g + 1) * d <= (e + f) * d  BY <1>1, <1>3, MulMonotone
<1>5. (g + 1) * d = g * d + d /\ (e + f) * d = e * d + f * d  BY <1>1
<1>6. QED  BY <1>2, <1>4, <1>5

-----------------------------------------------------------------------------
(* The launches of a call.                                                  *)

HasPlain(b) == MixedShort(b) \/ ~ Use3D(b)
HasSplit(b) == MixedShort(b) \/ Use3D(b)

PlainOf(b) == Launch(FALSE, IF MixedShort(b) THEN 1 ELSE 0, BlockM(b), BlockQ(b))
SplitOf(b) == IF MixedShort(b) THEN Launch(TRUE, 2, RowsM, 1)
              ELSE Launch(TRUE, 0, BlockM(b), BlockQ(b))

OfCall(b, l) == (HasPlain(b) /\ l = PlainOf(b)) \/ (HasSplit(b) /\ l = SplitOf(b))

\* What is said of their blocks and rows holds of a 2D launch over all rows too.
Shaped(b, l) == OfCall(b, l) \/ l = Launch(FALSE, 0, BlockM(b), BlockQ(b))

\* BLOCK_M query lanes are BLOCK_Q rows of all the query heads of one KV head.
LEMMA BlockShape ==
  ASSUME NEW b, IsCall(b)
  PROVE  /\ BlockQ(b) \in Nat \ {0}
         /\ (BlockM(b) - 1) \div b.qpk = BlockQ(b) - 1
         /\ b.qpk = RowsM => (RowsM - 1) \div b.qpk = 0
<1> DEFINE m == b.qpk
           c == RowsM \div m
<1>1. m \in Nat \ {0} /\ RowsM \in Nat \ {0} /\ RowsM % m = 0
  <2>1. RowsM \in Nat \ {0} /\ b.qpk \in 1 .. RowsM /\ RowsM % b.qpk = 0
    BY PartitionAssumption DEF IsCall
  <2>2. QED  BY <2>1
<1>2. c \in Nat /\ RowsM = m * c /\ RowsM \in Int
  <2>1. c \in Nat  BY <1>1, DivOfNat
  <2>2. RowsM = m * c + (RowsM % m)
    <3>1. RowsM \in Int  BY <1>1
    <3>2. QED  BY <1>1, <3>1, DivMod
  <2>3. m * c \in Nat  BY <1>1, <2>1
  <2>4. QED  BY <1>1, <2>1, <2>2, <2>3
<1>3. BlockM(b) \in {RowsM, 2 * RowsM}  BY DEF BlockM
<1> HIDE DEF m, c
<1>4. PICK k \in Nat \ {0} : BlockM(b) = k * m
  <2>1. c # 0  BY <1>1, <1>2
  <2>2. RowsM = c * m /\ 2 * RowsM = (2 * c) * m /\ 2 * c \in Nat \ {0}
    BY <1>1, <1>2, <2>1
  <2>3. QED  BY <1>2, <1>3, <2>1, <2>2
<1>5. k * m \in Int  BY <1>1, <1>4
<1>6. BlockM(b) \div m = k
  BY <1>1, <1>4, <1>5, DivUnique
<1>7. (BlockM(b) - 1) \div m = k - 1
  <2>1. (k - 1) * m = k * m - m /\ k - 1 \in Int  BY <1>1, <1>4
  <2>2. (k - 1) * m <= BlockM(b) - 1 /\ BlockM(b) - 1 < (k - 1) * m + m
    BY <1>1, <1>4, <1>5, <2>1
  <2>3. BlockM(b) - 1 \in Int  BY <1>4, <1>5
  <2>4. QED  BY <1>1, <2>1, <2>2, <2>3, DivUnique
<1>8. m = RowsM => (RowsM - 1) \div m = 0  BY <1>1, DivSelf
<1>9. QED  BY <1>4, <1>6, <1>7, <1>8 DEF BlockQ, m

LEMMA LaunchShape ==
  ASSUME NEW b, IsCall(b), NEW l, Shaped(b, l)
  PROVE  /\ l.bq \in Nat \ {0} /\ (l.bm - 1) \div b.qpk = l.bq - 1
         /\ l.mode \in {0, 1, 2} /\ (l.mode = 2 => l.bq = 1) /\ (l.mode # 2 => l.bq = BlockQ(b))
         /\ l.split \in BOOLEAN /\ (l.mode = 2 => l.split) /\ (l.mode = 1 => ~ l.split)
         /\ l.split => SplitLaunch(b, l)
<1>1. /\ BlockQ(b) \in Nat \ {0} /\ (BlockM(b) - 1) \div b.qpk = BlockQ(b) - 1
      /\ b.qpk = RowsM => (RowsM - 1) \div b.qpk = 0
  BY BlockShape
<1>2. CASE HasPlain(b) /\ l = PlainOf(b)
  BY <1>1, <1>2 DEF PlainOf, Launch
<1>3. CASE HasSplit(b) /\ l = SplitOf(b) /\ MixedShort(b)
  <2>1. b.qpk = RowsM  BY <1>3 DEF MixedShort, IsCall
  <2>2. QED  BY <1>1, <1>3, <2>1 DEF SplitOf, Launch, SplitLaunch
<1>4. CASE HasSplit(b) /\ l = SplitOf(b) /\ ~ MixedShort(b)
  BY <1>1, <1>4 DEF SplitOf, Launch, SplitLaunch, HasSplit
<1>5. CASE l = Launch(FALSE, 0, BlockM(b), BlockQ(b))
  BY <1>1, <1>5 DEF Launch
<1>6. QED  BY <1>2, <1>3, <1>4, <1>5 DEF Shaped, OfCall

-----------------------------------------------------------------------------
(* Rows and their lanes.                                                    *)

\* Position p of sequence s is a query row of the call.
IsRow(b, s, p) == s \in 0 .. b.n - 1 /\ p \in 0 .. QLen(b, s) - 1

LEMMA RowFacts ==
  ASSUME NEW b, IsCall(b), NEW s, NEW p, IsRow(b, s, p)
  PROVE  /\ s \in Nat /\ p \in Nat /\ b.cu[s] \in Nat /\ QLen(b, s) \in Nat /\ p < QLen(b, s)
         /\ b.cu[s] + p \in 0 .. RealRows(b) - 1 /\ b.k[s] \in Nat /\ b.n \in Nat
<1>1. /\ b.n \in Nat /\ b.cu[s] \in Nat /\ QLen(b, s) \in Nat /\ b.k[s] \in Nat
      /\ b.cu[s + 1] = b.cu[s] + QLen(b, s) /\ b.cu[s + 1] <= b.cu[b.n]
      /\ RealRows(b) = b.cu[b.n] /\ b.cu[b.n] \in Nat
  BY CallFacts DEF IsRow
<1>2. QED  BY <1>1 DEF IsRow

\* find_seq_idx finds the sequence of every real row.
LEMMA FoundRow ==
  ASSUME NEW b, IsCall(b), NEW r \in 0 .. RealRows(b) - 1
  PROVE  LET s == FindSeq(b, 0, r)
             p == r - b.cu[s]
         IN  IsRow(b, s, p) /\ r = b.cu[s] + p
<1> DEFINE s == FindSeq(b, 0, r)
           p == r - b.cu[s]
<1>1. r \in Nat /\ r < RealRows(b) /\ RealRows(b) \in Nat /\ b.n \in Nat \ {0}
  <2>1. RealRows(b) \in Nat /\ b.n \in Nat \ {0}  BY CallFacts
  <2>2. QED  BY <2>1
<1>2. /\ s \in 0 .. b.n - 1 /\ FirstBlock(b, 0, s) <= r
      /\ \A j \in s + 1 .. b.n - 1 : FirstBlock(b, 0, j) > r
  BY <1>1, FindSeqExists
<1>3. b.cu[s] <= r /\ \A j \in s + 1 .. b.n - 1 : b.cu[j] > r
  BY <1>2 DEF FirstBlock
<1>4. /\ b.cu[s] \in Nat /\ QLen(b, s) \in Nat /\ b.cu[s + 1] = b.cu[s] + QLen(b, s)
  BY <1>2, CallFacts
<1>5. r < b.cu[s + 1]
  <2>1. CASE s = b.n - 1
    <3>1. b.cu[s + 1] = b.cu[b.n]  BY <1>1, <2>1
    <3>2. QED  BY <1>1, <3>1 DEF RealRows
  <2>2. CASE s # b.n - 1
    <3>1. s + 1 \in s + 1 .. b.n - 1  BY <1>1, <1>2, <2>2
    <3>2. QED  BY <1>3, <3>1
  <2>3. QED  BY <2>1, <2>2
<1>6. p \in 0 .. QLen(b, s) - 1 /\ r = b.cu[s] + p
  BY <1>1, <1>3, <1>4, <1>5
<1> HIDE DEF s, p
<1>7. IsRow(b, s, p)  BY <1>2, <1>6 DEF IsRow
<1>8. QED  BY <1>6, <1>7 DEF s, p

LEMMA RowOwner ==
  ASSUME NEW b, IsCall(b), NEW r \in 0 .. RealRows(b) - 1
  PROVE  \E s, p : IsRow(b, s, p) /\ r = b.cu[s] + p
<1> DEFINE s == FindSeq(b, 0, r)
           p == r - b.cu[s]
<1>1. IsRow(b, s, p) /\ r = b.cu[s] + p  BY FoundRow
<1> HIDE DEF s, p
<1>2. QED  BY <1>1

LEMMA RowUnique ==
  ASSUME NEW b, IsCall(b), NEW s, NEW p, IsRow(b, s, p), NEW t, NEW q, IsRow(b, t, q),
         b.cu[s] + p = b.cu[t] + q
  PROVE  s = t /\ p = q
<1>1. /\ s \in Nat /\ p \in Nat /\ b.cu[s] \in Nat /\ p < QLen(b, s) /\ QLen(b, s) \in Nat
      /\ t \in Nat /\ q \in Nat /\ b.cu[t] \in Nat /\ q < QLen(b, t) /\ QLen(b, t) \in Nat
  BY RowFacts
<1>2. /\ b.cu[s + 1] = b.cu[s] + QLen(b, s) /\ b.cu[t + 1] = b.cu[t] + QLen(b, t)
      /\ s < t => b.cu[s + 1] <= b.cu[t]
      /\ t < s => b.cu[t + 1] <= b.cu[s]
  BY CallFacts DEF IsRow
<1>3. s = t  BY <1>1, <1>2
<1>4. QED  BY <1>1, <1>3

\* The sequences a launch takes.
Taken(b, l, s) == /\ l.mode = 2 => QLen(b, s) <= Short
                  /\ l.mode = 1 => QLen(b, s) > Short

\* The block of a row.
BlockOf(b, l, s, p) ==
  IF l.mode = 2 THEN s * Short + p ELSE FirstBlock(b, l.bq, s) + p \div l.bq

LaneOf(b, l, s, p) == <<BlockOf(b, l, s, p), p>>

LEMMA FirstBlockFacts ==
  ASSUME NEW b, IsCall(b), NEW d \in Nat \ {0}, NEW s \in 0 .. b.n - 1
  PROVE  /\ FirstBlock(b, d, s) \in Nat /\ b.cu[s] \in Nat /\ b.cu[s] \div d \in Nat
         /\ FirstBlock(b, d, s) = b.cu[s] \div d + s
<1>1. b.n \in Nat /\ b.cu[s] \in Nat  BY CallFacts
<1>2. b.cu[s] \div d \in Nat  BY <1>1, DivOfNat
<1>3. QED  BY <1>1, <1>2 DEF FirstBlock

\* A row's block is one of the grid's, and find_seq_idx gives back its sequence.
LEMMA BlockOfRow ==
  ASSUME NEW b, IsCall(b), NEW l, Shaped(b, l), NEW s, NEW p, IsRow(b, s, p), Taken(b, l, s)
  PROVE  LET g == BlockOf(b, l, s, p) IN
         g \in Blocks(b, l) /\ BlockSeq(b, l, g) = s /\ BlockLocal(b, l, g) = p \div l.bq
<1>1. /\ s \in Nat /\ p \in Nat /\ b.cu[s] \in Nat /\ QLen(b, s) \in Nat /\ p < QLen(b, s)
      /\ b.n \in Nat /\ s \in 0 .. b.n - 1
      /\ b.cu[s] + p < RealRows(b) /\ RealRows(b) <= Rows(b) /\ Rows(b) \in Nat
      /\ RealRows(b) \in Nat
  <2>1. RealRows(b) <= Rows(b) /\ Rows(b) \in Nat /\ RealRows(b) \in Nat  BY CallFacts
  <2>2. b.cu[s] + p \in 0 .. RealRows(b) - 1  BY RowFacts
  <2>3. QED  BY <2>1, <2>2, RowFacts DEF IsRow
<1>2. /\ l.bq \in Nat \ {0} /\ l.mode \in {0, 1, 2} /\ (l.mode = 2 => l.bq = 1)
      /\ (l.mode # 2 => l.bq = BlockQ(b))
  BY LaunchShape
<1>3. Short \in Nat \ {0}  BY PartitionAssumption
<1> DEFINE g == BlockOf(b, l, s, p)
<1>4. CASE l.mode = 2
  <2>1. g = s * Short + p /\ p < Short /\ s * Short \in Nat
    BY <1>1, <1>3, <1>4 DEF BlockOf, Taken
  <2> HIDE DEF g
  <2>2. (s + 1) * Short <= b.n * Short /\ (s + 1) * Short = s * Short + Short
        /\ b.n * Short \in Nat
    BY <1>1, <1>3, MulMonotone
  <2>3. g \in Blocks(b, l)
    BY <1>1, <1>3, <1>4, <2>1, <2>2 DEF Blocks
  <2>4. g \in Int /\ g \div Short = s
    <3>1. g \in Int /\ s \in Int /\ s * Short <= g /\ g < s * Short + Short
      BY <1>1, <1>3, <2>1
    <3>2. QED  BY <1>3, <3>1, DivUnique
  <2>5. g % Short = p
    <3>1. g = Short * (g \div Short) + (g % Short) /\ g % Short \in 0 .. Short - 1
      BY <1>3, <2>4, DivMod
    <3>2. Short * s = s * Short  BY <1>1, <1>3
    <3>3. QED  BY <1>1, <1>3, <2>1, <2>4, <3>1, <3>2
  <2>6. p \div l.bq = p  BY <1>1, <1>2, <1>4, DivOne
  <2>7. QED  BY <1>4, <2>3, <2>4, <2>5, <2>6 DEF BlockSeq, BlockLocal, g
<1>5. CASE l.mode # 2
  <2> DEFINE f == FirstBlock(b, l.bq, s)
             x == p \div l.bq
             t == FindSeq(b, l.bq, g)
  <2>1. f \in Nat /\ f = b.cu[s] \div l.bq + s /\ b.cu[s] \div l.bq \in Nat
    BY <1>1, <1>2, FirstBlockFacts
  <2>2. /\ x \in Nat /\ (b.cu[s] + p) \div l.bq \in Nat
        /\ b.cu[s] \div l.bq + x <= (b.cu[s] + p) \div l.bq
    BY <1>1, <1>2, DivAdd
  <2>3. g = f + x  BY <1>5 DEF BlockOf
  <2> HIDE DEF f, x, g
  <2>4. g \in Nat /\ f <= g  BY <2>1, <2>2, <2>3
  <2>5. (b.cu[s] + p) \div l.bq <= Rows(b) \div l.bq /\ Rows(b) \div l.bq \in Nat
    <3>1. b.cu[s] + p \in Int /\ Rows(b) \in Int /\ b.cu[s] + p <= Rows(b)
      BY <1>1
    <3>2. QED  BY <1>1, <1>2, <3>1, DivLeq, DivOfNat
  <2>6. g \in Blocks(b, l)
    <3>1. g < Rows(b) \div BlockQ(b) + b.n
      BY <1>1, <1>2, <1>5, <2>1, <2>2, <2>3, <2>5
    <3>2. QED  BY <1>1, <1>2, <1>5, <2>4, <2>5, <3>1 DEF Blocks
  <2>7. \A j \in 0 .. b.n - 1 : s < j => FirstBlock(b, l.bq, j) > g
    <3> SUFFICES ASSUME NEW j \in 0 .. b.n - 1, s < j PROVE FirstBlock(b, l.bq, j) > g
      OBVIOUS
    <3>1. /\ FirstBlock(b, l.bq, j) = b.cu[j] \div l.bq + j /\ b.cu[j] \div l.bq \in Nat
          /\ b.cu[j] \in Nat
      BY <1>2, FirstBlockFacts
    <3>2. b.cu[s + 1] <= b.cu[j] /\ b.cu[s + 1] = b.cu[s] + QLen(b, s)
      BY <1>1, CallFacts
    <3>3. b.cu[s] + p <= b.cu[j] /\ b.cu[s] + p \in Int /\ b.cu[j] \in Int
      BY <1>1, <3>1, <3>2
    <3>4. (b.cu[s] + p) \div l.bq <= b.cu[j] \div l.bq
      BY <1>2, <3>1, <3>3, DivLeq
    <3>5. QED  BY <1>1, <2>1, <2>2, <2>3, <3>1, <3>4
  <2>8. /\ t \in 0 .. b.n - 1 /\ FirstBlock(b, l.bq, t) <= g
        /\ \A j \in t + 1 .. b.n - 1 : FirstBlock(b, l.bq, j) > g
    BY <1>2, <2>4, FindSeqExists
  <2>9. BlockSeq(b, l, g) = t  BY <1>5 DEF BlockSeq
  <2> HIDE DEF t
  <2>10. FirstBlock(b, l.bq, t) \in Nat  BY <1>2, <2>8, FirstBlockFacts
  <2>11. ~ (s < t)  BY <2>4, <2>7, <2>8, <2>10
  <2>12. ~ (t < s)
    <3> SUFFICES ASSUME t < s PROVE FALSE  OBVIOUS
    <3>1. s \in t + 1 .. b.n - 1  BY <1>1, <2>8
    <3>2. f > g  BY <2>8, <3>1 DEF f
    <3>3. QED  BY <2>1, <2>4, <3>2
  <2>13. t = s  BY <1>1, <2>8, <2>11, <2>12
  <2>14. BlockLocal(b, l, g) = x
    <3>1. BlockLocal(b, l, g) = g - f  BY <1>5, <2>9, <2>13 DEF BlockLocal, f
    <3>2. QED  BY <2>1, <2>2, <2>3, <3>1
  <2>15. QED  BY <2>6, <2>9, <2>13, <2>14 DEF g, x
<1>6. QED  BY <1>4, <1>5

\* A lane is that of one row of a sequence its launch takes.
LEMMA LaneIsRow ==
  ASSUME NEW b, IsCall(b), NEW l, Shaped(b, l), NEW lane \in Lanes(b, l)
  PROVE  LET s == BlockSeq(b, l, lane[1])
             p == lane[2]
         IN  IsRow(b, s, p) /\ Taken(b, l, s) /\ lane = LaneOf(b, l, s, p)
<1> DEFINE g == lane[1]
           p == lane[2]
           s == BlockSeq(b, l, g)
           t == BlockLocal(b, l, g)
           q == QLen(b, s)
<1>1. g \in Blocks(b, l) /\ BlockActive(b, l, g) /\ p \in BlockPositions(b, l, g)
  BY LaneElements
<1>a. lane = <<g, p>>
  BY DEF Lanes
<1>2. /\ l.bq \in Nat \ {0} /\ (l.bm - 1) \div b.qpk = l.bq - 1
      /\ l.mode \in {0, 1, 2} /\ (l.mode = 2 => l.bq = 1) /\ (l.mode # 2 => l.bq = BlockQ(b))
  BY LaunchShape
<1>3. Short \in Nat \ {0} /\ b.n \in Nat \ {0} /\ Rows(b) \in Nat
  BY PartitionAssumption, CallFacts
<1>4. /\ g \in Nat /\ s \in 0 .. b.n - 1 /\ t \in Nat
      /\ g = IF l.mode = 2 THEN s * Short + t ELSE FirstBlock(b, l.bq, s) + t
  <2>1. CASE l.mode = 2
    <3>1. b.n * Short \in Nat  BY <1>3
    <3>2. g \in Nat /\ g < b.n * Short  BY <1>1, <2>1, <3>1 DEF Blocks
    <3>3. s = g \div Short /\ t = g % Short  BY <2>1 DEF BlockSeq, BlockLocal
    <3>4. /\ s \in Nat /\ s * Short <= g /\ g = Short * s + t /\ t \in 0 .. Short - 1
      <4>1. g \in Int  BY <3>2
      <4>2. s \in Nat  BY <1>3, <3>2, <3>3, DivOfNat
      <4>3. s * Short <= g  BY <1>3, <3>3, <4>1, DivBracket
      <4>4. g = Short * s + t /\ t \in 0 .. Short - 1  BY <1>3, <3>3, <4>1, DivMod
      <4>5. QED  BY <4>2, <4>3, <4>4
    <3> HIDE DEF s, t, g
    <3>5. Short * s = s * Short /\ s * Short \in Nat  BY <1>3, <3>4
    <3>6. s < b.n
      <4> SUFFICES ASSUME b.n <= s PROVE FALSE  BY <1>3, <3>4
      <4>1. b.n * Short <= s * Short  BY <1>3, <3>4, MulMonotone
      <4>2. QED  BY <3>1, <3>2, <3>4, <3>5, <4>1
    <3>7. QED  BY <1>3, <2>1, <3>2, <3>4, <3>5, <3>6
  <2>2. CASE l.mode # 2
    <3>1. Rows(b) \div BlockQ(b) \in Nat  BY <1>2, <1>3, <2>2, DivOfNat
    <3>2. g \in Nat  BY <1>1, <1>3, <2>2, <3>1 DEF Blocks
    <3>3. s = FindSeq(b, l.bq, g)  BY <2>2 DEF BlockSeq
    <3>4. s \in 0 .. b.n - 1 /\ FirstBlock(b, l.bq, s) <= g
      BY <1>2, <3>2, <3>3, FindSeqExists
    <3>5. FirstBlock(b, l.bq, s) \in Nat  BY <1>2, <3>4, FirstBlockFacts
    <3>6. t = g - FirstBlock(b, l.bq, s)  BY <2>2 DEF BlockLocal
    <3> HIDE DEF s, t, g
    <3>7. t \in Nat /\ g = FirstBlock(b, l.bq, s) + t  BY <3>2, <3>4, <3>5, <3>6
    <3>8. QED  BY <2>2, <3>2, <3>4, <3>7
  <2>3. QED  BY <2>1, <2>2
<1>5. t * l.bq < q /\ Taken(b, l, s) /\ q \in Nat
  BY <1>1, <1>4, CallFacts DEF BlockActive, Taken
<1>6. p \in t * l.bq .. Lesser(t * l.bq + (l.bq - 1), q - 1)
  BY <1>1, <1>2 DEF BlockPositions
<1> HIDE DEF g, p, s, t, q
<1>7. t * l.bq \in Nat  BY <1>2, <1>4
<1>8. p \in Nat /\ t * l.bq <= p /\ p < t * l.bq + l.bq /\ p < q
  BY <1>2, <1>5, <1>6, <1>7 DEF Lesser
<1>9. p \div l.bq = t  BY <1>2, <1>4, <1>7, <1>8, DivUnique
<1>10. g = BlockOf(b, l, s, p)
  <2>1. l.mode = 2 => t = p
    <3>1. l.mode = 2 => t * l.bq = t  BY <1>2, <1>4
    <3>2. QED  BY <1>2, <1>4, <1>8, <3>1
  <2>2. QED  BY <1>4, <1>9, <2>1 DEF BlockOf
<1>11. IsRow(b, s, p)  BY <1>4, <1>5, <1>8 DEF IsRow, q
<1>12. QED  BY <1>a, <1>5, <1>10, <1>11 DEF LaneOf, g, p, s

\* And every such row has its lane.
LEMMA RowHasLane ==
  ASSUME NEW b, IsCall(b), NEW l, Shaped(b, l), NEW s, NEW p, IsRow(b, s, p), Taken(b, l, s)
  PROVE  /\ LaneOf(b, l, s, p) \in Lanes(b, l)
         /\ LaneRow(b, l, LaneOf(b, l, s, p)) = b.cu[s] + p
         /\ BlockSeq(b, l, LaneOf(b, l, s, p)[1]) = s
         /\ BlockLocal(b, l, LaneOf(b, l, s, p)[1]) = p \div l.bq
<1> DEFINE g == BlockOf(b, l, s, p)
           t == p \div l.bq
           d == l.bq
<1>1. g \in Blocks(b, l) /\ BlockSeq(b, l, g) = s /\ BlockLocal(b, l, g) = t
  BY BlockOfRow
<1>2. d \in Nat \ {0} /\ (l.bm - 1) \div b.qpk = d - 1
  BY LaunchShape
<1>3. p \in Nat /\ p < QLen(b, s) /\ QLen(b, s) \in Nat  BY RowFacts
<1>4. t \in Nat /\ t * d <= p /\ p < t * d + d /\ t * d \in Int
  <2>1. p \in Int  BY <1>3
  <2>2. QED  BY <1>2, <1>3, <2>1, DivOfNat, DivBracket
<1> HIDE DEF g, t
<1>5. BlockActive(b, l, g)
  BY <1>1, <1>2, <1>3, <1>4 DEF BlockActive, Taken
<1>6. p \in BlockPositions(b, l, g)
  BY <1>1, <1>2, <1>3, <1>4 DEF BlockPositions, Lesser
<1>7. <<g, p>> \in Lanes(b, l)
  BY <1>1, <1>5, <1>6, LaneElements
<1>8. QED  BY <1>1, <1>7 DEF LaneOf, LaneRow, g, t

\* The lanes of a row: one in a launch that takes its sequence, none in another.
LEMMA LanesOfRow ==
  ASSUME NEW b, IsCall(b), NEW l, Shaped(b, l), NEW s, NEW p, IsRow(b, s, p)
  PROVE  {lane \in Lanes(b, l) : LaneRow(b, l, lane) = b.cu[s] + p}
           = IF Taken(b, l, s) THEN {LaneOf(b, l, s, p)} ELSE {}
<1>1. ASSUME NEW lane \in Lanes(b, l), LaneRow(b, l, lane) = b.cu[s] + p
      PROVE  Taken(b, l, s) /\ lane = LaneOf(b, l, s, p)
  <2> DEFINE t == BlockSeq(b, l, lane[1])
             q == lane[2]
  <2>1. IsRow(b, t, q) /\ Taken(b, l, t) /\ lane = LaneOf(b, l, t, q)  BY LaneIsRow
  <2>2. b.cu[t] + q = b.cu[s] + p  BY <1>1 DEF LaneRow
  <2> HIDE DEF t, q
  <2>3. t = s /\ q = p  BY <2>1, <2>2, RowUnique
  <2>4. QED  BY <2>1, <2>3
<1>2. QED  BY <1>1, RowHasLane

LEMMA LaneRowsReal ==
  ASSUME NEW b, IsCall(b), NEW l, Shaped(b, l), NEW lane \in Lanes(b, l)
  PROVE  LaneRow(b, l, lane) \in 0 .. RealRows(b) - 1
<1> DEFINE s == BlockSeq(b, l, lane[1])
           p == lane[2]
<1>1. IsRow(b, s, p)  BY LaneIsRow
<1>2. LaneRow(b, l, lane) = b.cu[s] + p  BY DEF LaneRow
<1> HIDE DEF s, p
<1>3. QED  BY <1>1, <1>2, RowFacts

\* Two lanes of a 3D kernel have different scratch rows, and there are finitely many.
LEMMA ScratchOnce ==
  ASSUME NEW b, IsCall(b), HasSplit(b)
  PROVE  LET l == SplitOf(b) IN
         Cardinality({LaneScratch(b, l, lane) : lane \in Lanes(b, l)}) = Cardinality(Lanes(b, l))
<1> DEFINE l == SplitOf(b)
           L == Lanes(b, l)
           T == {LaneScratch(b, l, lane) : lane \in L}
           f == [lane \in L |-> LaneScratch(b, l, lane)]
<1>1. Shaped(b, l)  BY DEF Shaped, OfCall
<1> HIDE DEF l
<1>2. \A u, v \in L : LaneScratch(b, l, u) = LaneScratch(b, l, v) => u = v
  <2> SUFFICES ASSUME NEW u \in L, NEW v \in L, LaneScratch(b, l, u) = LaneScratch(b, l, v)
               PROVE  u = v
    OBVIOUS
  <2> DEFINE s == BlockSeq(b, l, u[1])
             p == u[2]
             t == BlockSeq(b, l, v[1])
             q == v[2]
  <2>1. /\ IsRow(b, s, p) /\ Taken(b, l, s) /\ u = LaneOf(b, l, s, p)
        /\ IsRow(b, t, q) /\ Taken(b, l, t) /\ v = LaneOf(b, l, t, q)
    BY <1>1, LaneIsRow
  <2>2. ScratchRow(b, l, s, p) = ScratchRow(b, l, t, q)  BY DEF LaneScratch
  <2>3. CASE l.mode = 2
    <3>1. u[1] = v[1]  BY <2>1, <2>2, <2>3 DEF LaneOf, BlockOf, ScratchRow
    <3>2. s = t  BY <3>1
    <3> HIDE DEF s, t, p, q
    <3>3. s * Short + p = s * Short + q  BY <2>2, <2>3, <3>2 DEF ScratchRow
    <3>4. s \in Nat /\ p \in Nat /\ q \in Nat /\ Short \in Nat
      BY <2>1, RowFacts, PartitionAssumption
    <3>5. s * Short \in Nat  BY <3>4
    <3>6. p = q  BY <3>3, <3>4, <3>5
    <3>7. QED  BY <2>1, <3>2, <3>6
  <2>4. CASE l.mode # 2
    <3> HIDE DEF s, t, p, q
    <3>1. b.cu[s] + p = b.cu[t] + q  BY <2>2, <2>4 DEF ScratchRow
    <3>2. s = t /\ p = q  BY <2>1, <3>1, RowUnique
    <3>3. QED  BY <2>1, <3>2
  <2>5. QED  BY <2>3, <2>4
<1>3. IsFiniteSet(L)
  <2> DEFINE B == Blocks(b, l)
             P == 0 .. RealRows(b) - 1
  <2>1. IsFiniteSet(B)
    <3>1. /\ b.n \in Nat /\ Short \in Nat /\ Rows(b) \in Nat /\ BlockQ(b) \in Nat \ {0}
      BY CallFacts, PartitionAssumption, BlockShape
    <3> DEFINE e == Rows(b) \div BlockQ(b) + b.n
               u == IF l.mode = 2 THEN b.n * Short ELSE e
    <3>2. e \in Int /\ b.n * Short \in Int
      <4>1. Rows(b) \div BlockQ(b) \in Nat  BY <3>1, DivOfNat
      <4>2. e \in Int  BY <3>1, <4>1
      <4>3. b.n * Short \in Int  BY <3>1
      <4>4. QED  BY <4>2, <4>3
    <3>3. B = 0 .. u - 1  BY DEF Blocks
    <3> HIDE DEF B, e
    <3>4. u - 1 \in Int  BY <3>2
    <3> HIDE DEF u
    <3>5. QED  BY <3>3, <3>4, FS_Interval
  <2>2. IsFiniteSet(P)
    <3>1. RealRows(b) - 1 \in Int  BY CallFacts
    <3>2. QED  BY <3>1, FS_Interval
  <2>3. L \in SUBSET (B \X P)
    <3> SUFFICES ASSUME NEW lane \in L PROVE lane \in B \X P  OBVIOUS
    <3>1. lane[1] \in B  BY LaneElements
    <3>2. lane[2] \in P
      <4> DEFINE s == BlockSeq(b, l, lane[1])
                 p == lane[2]
      <4>1. IsRow(b, s, p)  BY <1>1, LaneIsRow
      <4> HIDE DEF s, p
      <4>2. p \in Nat /\ b.cu[s] \in Nat /\ b.cu[s] + p \in 0 .. RealRows(b) - 1
            /\ RealRows(b) \in Nat
        BY <4>1, RowFacts, CallFacts
      <4>3. p \in P  BY <4>2
      <4>4. QED  BY <4>3 DEF p
    <3>3. lane = <<lane[1], lane[2]>>  BY DEF Lanes
    <3>4. QED  BY <3>1, <3>2, <3>3
  <2>4. QED  BY <2>1, <2>2, <2>3, FS_Product, FS_Subset
<1>4. f \in Bijection(L, T)
  BY <1>2 DEF Bijection, Injection, Surjection, IsInjective
<1>5. ExistsBijection(L, T)  BY <1>4 DEF ExistsBijection
<1>6. Cardinality(T) = Cardinality(L)  BY <1>3, <1>5, FS_Bijection
<1>7. QED  BY <1>6 DEF l

-----------------------------------------------------------------------------
(* The keys of a row.                                                       *)

\* A result uses every key the row may see, and none twice.
Covers(b, s, p, res) ==
  LET keys(seg) == KeysIn(b, s, p, res.tile, res.parts[seg].range)
      segs == DOMAIN res.parts
  IN  /\ VisibleKeys(b, s, p) = UNION {keys(seg) : seg \in segs}
      /\ \A s1, s2 \in segs : s1 # s2 => keys(s1) \cap keys(s2) = {}

LEMMA CeilAbove ==
  ASSUME NEW n \in Int, NEW d \in Nat \ {0}, NEW key \in Int, key < n
  PROVE  key \div d < CeilDiv(n, d) /\ key \div d \in Int
<1> DEFINE t == key \div d
<1>1. t \in Int /\ t * d <= key /\ t * d \in Int  BY DivBracket
<1> HIDE DEF t
<1>2. t * d < n  BY <1>1
<1>3. t < CeilDiv(n, d)  BY <1>1, <1>2, CeilBelow
<1>4. QED  BY <1>1, <1>3 DEF t

LEMMA KeyFacts ==
  ASSUME NEW b, IsCall(b), NEW s, NEW p, IsRow(b, s, p), NEW key \in VisibleKeys(b, s, p)
  PROVE  /\ key \in 0 .. b.k[s] - 1 /\ key <= Context(b, s) + p
         /\ b.window > 0 => Context(b, s) + p - key < b.window
<1>1. p \in Nat /\ Context(b, s) \in Int /\ b.k[s] \in Nat /\ b.window \in Nat
  BY RowFacts DEF Context, IsCall
<1>2. QED  BY <1>1 DEF VisibleKeys

\* The tiles of a row's block hold every key the row may see.
LEMMA TilesCover ==
  ASSUME NEW b, IsCall(b), NEW l, Shaped(b, l), NEW s, NEW p, IsRow(b, s, p),
         NEW key \in VisibleKeys(b, s, p)
  PROVE  LET x == p \div l.bq
             t == key \div Tile(l)
         IN  /\ t \in Int /\ FirstTile(b, l, s, x) \in Int /\ EndTile(b, l, s, x) \in Int
             /\ FirstTile(b, l, s, x) <= t /\ t < EndTile(b, l, s, x)
<1> DEFINE d == l.bq
           x == p \div d
           y == x * d
           c == Context(b, s)
           w == Tile(l)
           t == key \div w
           k == b.k[s]
           q == QLen(b, s)
           v == b.window
<1>1. /\ p \in Nat /\ q \in Nat /\ p < q /\ k \in Nat
  BY RowFacts
<1>2. d \in Nat \ {0} /\ (l.bm - 1) \div b.qpk = d - 1
  BY LaunchShape
<1>3. y \in Int /\ y <= p /\ p < y + d
  <2>1. p \in Int  BY <1>1
  <2>2. QED  BY <1>2, <2>1, DivBracket
<1>4. w \in Nat \ {0} /\ v \in Nat
  BY PartitionAssumption DEF Tile, IsCall
<1>5. c \in Int  BY <1>1 DEF Context
<1>6. key \in Nat /\ key < k /\ key <= c + p /\ (v > 0 => c + p - key < v)
  <2>1. key \in 0 .. k - 1  BY KeyFacts
  <2>2. key <= c + p /\ (v > 0 => c + p - key < v)  BY KeyFacts
  <2> HIDE DEF c, k, v
  <2>3. key \in Nat /\ key < k  BY <1>1, <2>1
  <2>4. QED  BY <2>2, <2>3
<1>7. PrefixLen(b, l, s, x) = Lesser(c + y + (d - 1) + 1, k)
  BY <1>2 DEF PrefixLen
<1>8. FirstTile(b, l, s, x) = IF v = 0 THEN 0 ELSE Greater(0, (c + y - v + 1) \div w)
  BY DEF FirstTile
<1>9. EndTile(b, l, s, x) =
        IF v = 0 THEN CeilDiv(PrefixLen(b, l, s, x), w)
        ELSE Lesser((c + Lesser(y + (d - 1), q - 1)) \div w + 1, CeilDiv(PrefixLen(b, l, s, x), w))
  BY <1>2 DEF EndTile
<1> HIDE DEF d, y, c, w, k, q, v
<1> DEFINE n == PrefixLen(b, l, s, x)
           a == c + y - v + 1
           z == c + Lesser(y + (d - 1), q - 1)
<1>10. n \in Int /\ key < n  BY <1>1, <1>2, <1>3, <1>5, <1>6, <1>7 DEF Lesser
<1>11. a \in Int /\ (v # 0 => a <= key)
  <2>1. a \in Int  BY <1>3, <1>4, <1>5
  <2>2. v # 0 => v > 0  BY <1>4
  <2>3. v # 0 => c + p - key < v  BY <1>6, <2>2
  <2>4. ASSUME c + p - key < v PROVE c + y - v + 1 <= key
    BY <1>1, <1>3, <1>4, <1>5, <1>6, <2>4
  <2>5. QED  BY <2>1, <2>3, <2>4
<1>12. z \in Int /\ key <= z  BY <1>1, <1>2, <1>3, <1>5, <1>6 DEF Lesser
<1> HIDE DEF n, a, z, x
<1>13. t \in Int /\ t < CeilDiv(n, w) /\ CeilDiv(n, w) \in Int /\ t \in Nat
  <2>1. key \in Int  BY <1>6
  <2>2. t \in Nat  BY <1>4, <1>6, DivOfNat
  <2>3. QED  BY <1>4, <1>10, <2>1, <2>2, CeilAbove, CeilInt
<1>14. a \div w \in Int /\ (v # 0 => a \div w <= t)
  <2>1. key \in Int  BY <1>6
  <2>2. a \div w \in Int  BY <1>4, <1>11, DivBracket
  <2>3. v # 0 => a \div w <= key \div w  BY <1>4, <1>11, <2>1, DivLeq
  <2>4. QED  BY <2>2, <2>3
<1>15. z \div w \in Int /\ t <= z \div w
  <2>1. key \in Int  BY <1>6
  <2>2. z \div w \in Int  BY <1>4, <1>12, DivBracket
  <2>3. key \div w <= z \div w  BY <1>4, <1>12, <2>1, DivLeq
  <2>4. QED  BY <2>2, <2>3
<1>16. FirstTile(b, l, s, x) = IF v = 0 THEN 0 ELSE Greater(0, a \div w)
  BY <1>8 DEF a
<1>17. EndTile(b, l, s, x) = IF v = 0 THEN CeilDiv(n, w)
                             ELSE Lesser(z \div w + 1, CeilDiv(n, w))
  BY <1>9 DEF n, z
<1> HIDE DEF t
<1>18. FirstTile(b, l, s, x) \in Int /\ FirstTile(b, l, s, x) <= t
  BY <1>13, <1>14, <1>16 DEF Greater
<1>19. EndTile(b, l, s, x) \in Int /\ t < EndTile(b, l, s, x)
  BY <1>13, <1>15, <1>17 DEF Lesser
<1>20. QED  BY <1>13, <1>18, <1>19 DEF t, x, d, w

\* What launch l makes of position p of sequence s: zeros when a 3D launch has no keys to
\* split, otherwise one partial per segment over that segment's tiles.
RowIs(b, l, s, p, res) ==
  LET x    == p \div l.bq
      len  == PartitionLen(b, l, s, x)
      segs == IF l.split THEN SegmentsRead(len) ELSE {0}
  IN  IF l.split /\ TilesPerSegment(len) <= 0 THEN res = Zero
      ELSE /\ res.tile = Tile(l) /\ DOMAIN res.parts = segs
           /\ \A seg \in segs : res.parts[seg].range = TileRange(b, l, s, x, seg)

\* The program of a 2D launch that answers for a row walks all its tiles.
LEMMA PlainRow ==
  ASSUME NEW b, IsCall(b), HasPlain(b), NEW l, l = PlainOf(b),
         NEW s, NEW p, IsRow(b, s, p), Taken(b, l, s)
  PROVE  RowIs(b, l, s, p, Result(PlainTile, Partials(b, l, LaneOf(b, l, s, p))))
<1> DEFINE lane == LaneOf(b, l, s, p)
           x == p \div l.bq
           P == Partials(b, l, lane)
           res == Result(PlainTile, P)
<1>1. Shaped(b, l) /\ l.split = FALSE  BY DEF Shaped, OfCall, PlainOf, Launch
<1>2. BlockSeq(b, l, lane[1]) = s /\ BlockLocal(b, l, lane[1]) = x
  BY <1>1, RowHasLane
<1> HIDE DEF lane
<1>3. DOMAIN P = {0}  BY <1>1 DEF Partials, LaneSegments, SegmentsOf
<1>4. P[0].range = TileRange(b, l, s, x, 0)
  BY <1>2, <1>3 DEF Partials
<1>5. res.tile = PlainTile /\ res.parts = P  BY DEF Result
<1>6. Tile(l) = PlainTile  BY <1>1 DEF Tile
<1> HIDE DEF P, res
<1>7. RowIs(b, l, s, p, res)
  BY <1>1, <1>3, <1>4, <1>5, <1>6 DEF RowIs
<1>8. QED  BY <1>7 DEF res, P, lane

LEMMA PlainRowCovers ==
  ASSUME NEW b, IsCall(b), NEW l, Shaped(b, l), ~ l.split,
         NEW s, NEW p, IsRow(b, s, p), NEW res, RowIs(b, l, s, p, res)
  PROVE  Covers(b, s, p, res)
<1> DEFINE x == p \div l.bq
<1>1. /\ res.tile = Tile(l) /\ DOMAIN res.parts = {0}
      /\ res.parts[0].range = TileRange(b, l, s, x, 0)
  BY DEF RowIs
<1>2. res.parts[0].range = <<FirstTile(b, l, s, x), EndTile(b, l, s, x)>>
  BY <1>1 DEF TileRange
<1>3. KeysIn(b, s, p, Tile(l), res.parts[0].range) = VisibleKeys(b, s, p)
  BY <1>2, TilesCover DEF KeysIn
<1>4. QED  BY <1>1, <1>3 DEF Covers

\* The segments of a 3D launch, seg * tps .. (seg + 1) * tps - 1 in tiles, cut the tiles
\* below len into runs, and those the reducer reads hold them all.
LEMMA SegmentOfTile ==
  ASSUME NEW len \in Int, NEW key \in Nat, key < len, NEW tps \in Nat \ {0},
         tps = TilesPerSegment(len)
  PROVE  \E seg \in SegmentsRead(len) :
           seg \in Nat /\ seg * tps <= key \div SplitTile /\ key \div SplitTile < (seg + 1) * tps
<1> DEFINE w == SplitTile
           t == key \div w
           seg == t \div tps
           act == CeilDiv(len, tps * w)
<1>1. w \in Nat \ {0} /\ Segs \in Nat \ {0}  BY PartitionAssumption
<1>2. t \in Nat /\ t * w <= key /\ t * w \in Int
  <2>1. key \in Int  OBVIOUS
  <2>2. QED  BY <1>1, <2>1, DivOfNat, DivBracket
<1> HIDE DEF w, t
<1>3. seg \in Nat /\ seg * tps <= t /\ t < seg * tps + tps /\ seg * tps \in Int
  <2>1. t \in Int  BY <1>2
  <2>2. QED  BY <1>2, <2>1, DivOfNat, DivBracket
<1> HIDE DEF seg
<1>4. tps * w \in Nat \ {0} /\ Segs * w \in Nat \ {0}  BY <1>1
<1>5. act \in Int  BY <1>4, CeilInt
<1>6. seg < act
  <2>1. (seg * tps) * w <= t * w /\ (seg * tps) * w \in Int
    <3>1. w \in Nat /\ seg * tps \in Int /\ t \in Int  BY <1>1, <1>2, <1>3
    <3>2. QED  BY <1>3, <3>1, MulMonotone
  <2>2. seg * (tps * w) = (seg * tps) * w  BY <1>1, <1>3
  <2>3. seg * (tps * w) < len  BY <1>2, <2>1, <2>2
  <2>4. seg \in Int  BY <1>3
  <2>5. QED  BY <1>4, <2>3, <2>4, CeilBelow
<1>7. seg < Segs
  <2> SUFFICES ASSUME Segs <= seg PROVE FALSE  BY <1>1, <1>3
  <2>1. ~ (tps * (Segs * w) < len) /\ tps * (Segs * w) \in Int
    <3>1. tps \in Int /\ ~ (tps < CeilDiv(len, Segs * w))
      <4>1. tps = CeilDiv(len, Segs * w)  BY DEF TilesPerSegment, w
      <4>2. QED  BY <4>1
    <3>2. QED  BY <1>4, <3>1, CeilBelow
  <2>2. Segs * tps <= seg * tps /\ Segs * tps \in Int
    <3>1. tps \in Nat /\ Segs \in Int /\ seg \in Int  BY <1>1, <1>3
    <3>2. QED  BY <3>1, MulMonotone
  <2>3. Segs * tps <= t  BY <1>2, <1>3, <2>2
  <2>4. (Segs * tps) * w <= t * w
    <3>1. w \in Nat /\ t \in Int  BY <1>1, <1>2
    <3>2. QED  BY <2>2, <2>3, <3>1, MulMonotone
  <2>5. (Segs * tps) * w = tps * (Segs * w)  BY <1>1
  <2>6. QED  BY <1>2, <2>1, <2>4, <2>5
<1>8. seg \in 0 .. Lesser(act, Segs) - 1  BY <1>1, <1>3, <1>5, <1>6, <1>7 DEF Lesser
<1>9. seg \in SegmentsRead(len)  BY <1>8 DEF SegmentsRead, act, w
<1>10. (seg + 1) * tps = seg * tps + tps  BY <1>3
<1>11. QED  BY <1>3, <1>9, <1>10 DEF t, w

\* What a program of a segment walks, tile by tile.
LEMMA TileInRange ==
  ASSUME NEW b, NEW l, l.split, NEW s, NEW x, NEW seg \in Int, NEW t \in Int, NEW tps \in Nat,
         FirstTile(b, l, s, x) \in Int, EndTile(b, l, s, x) \in Int,
         tps = TilesPerSegment(PartitionLen(b, l, s, x)),
         FirstTile(b, l, s, x) <= t, t < EndTile(b, l, s, x)
  PROVE  /\ TileRange(b, l, s, x, seg)[1] <= t <=> seg * tps <= t
         /\ t < TileRange(b, l, s, x, seg)[2] <=> t < (seg + 1) * tps
<1> DEFINE lo == FirstTile(b, l, s, x)
           hi == EndTile(b, l, s, x)
           c  == seg * tps
           d  == (seg + 1) * tps
           r  == TileRange(b, l, s, x, seg)
<1>1. r = <<Greater(c, lo), Lesser(d, hi)>>  BY DEF TileRange
<1>2. c \in Int /\ d \in Int /\ lo \in Int /\ hi \in Int /\ lo <= t /\ t < hi  OBVIOUS
<1> HIDE DEF c, d, lo, hi, r
<1>3. r[1] = Greater(c, lo) /\ r[2] = Lesser(d, hi)  BY <1>1
<1>4. QED  BY <1>2, <1>3 DEF Greater, Lesser, c, d, r

\* The keys a segment of a 3D launch contributes to a row.
LEMMA SegmentKeys ==
  ASSUME NEW b, IsCall(b), HasSplit(b), NEW l, l = SplitOf(b), NEW s, NEW p, IsRow(b, s, p),
         NEW x, x = p \div l.bq, NEW len, len = PartitionLen(b, l, s, x),
         NEW tps \in Nat, tps = TilesPerSegment(len),
         NEW key \in VisibleKeys(b, s, p), NEW seg \in Int
  PROVE  /\ key \div SplitTile \in Int
         /\ key \in KeysIn(b, s, p, SplitTile, TileRange(b, l, s, x, seg))
              <=> seg * tps <= key \div SplitTile /\ key \div SplitTile < (seg + 1) * tps
<1> DEFINE t == key \div SplitTile
<1>1. Shaped(b, l) /\ l.split /\ Tile(l) = SplitTile
  BY DEF Shaped, OfCall, SplitOf, Launch, Tile
<1>2. /\ t \in Int /\ FirstTile(b, l, s, x) \in Int /\ EndTile(b, l, s, x) \in Int
      /\ FirstTile(b, l, s, x) <= t /\ t < EndTile(b, l, s, x)
  BY <1>1, TilesCover
<1>3. key \in KeysIn(b, s, p, SplitTile, TileRange(b, l, s, x, seg)) <=>
        TileRange(b, l, s, x, seg)[1] <= t /\ t < TileRange(b, l, s, x, seg)[2]
  BY DEF KeysIn
<1> HIDE DEF t
<1>4. tps = TilesPerSegment(PartitionLen(b, l, s, x))  OBVIOUS
<1>5. /\ TileRange(b, l, s, x, seg)[1] <= t <=> seg * tps <= t
      /\ t < TileRange(b, l, s, x, seg)[2] <=> t < (seg + 1) * tps
  BY <1>1, <1>2, <1>4, TileInRange
<1>6. QED  BY <1>2, <1>3, <1>5 DEF t

LEMMA SegmentsCover ==
  ASSUME NEW b, IsCall(b), HasSplit(b), NEW s, NEW p, IsRow(b, s, p),
         NEW l, l = SplitOf(b), NEW x, x = p \div l.bq,
         NEW len \in Int, len = PartitionLen(b, l, s, x), TilesPerSegment(len) > 0,
         \A key \in VisibleKeys(b, s, p) : key < len,
         NEW res, res.tile = SplitTile, DOMAIN res.parts = SegmentsRead(len),
         \A seg \in SegmentsRead(len) : res.parts[seg].range = TileRange(b, l, s, x, seg)
  PROVE  Covers(b, s, p, res)
<1> DEFINE tps == TilesPerSegment(len)
           keys(seg) == KeysIn(b, s, p, res.tile, res.parts[seg].range)
           tile(key) == key \div SplitTile
<1>1. Shaped(b, l) /\ l.split /\ Tile(l) = SplitTile  BY DEF Shaped, OfCall, SplitOf, Launch, Tile
<1>2. tps \in Nat \ {0}
  <2>1. Segs * SplitTile \in Nat \ {0}  BY PartitionAssumption
  <2>2. tps \in Int  BY <2>1, CeilInt DEF TilesPerSegment
  <2>3. QED  BY <2>2
<1>3. \A seg \in SegmentsRead(len) : seg \in Int
  <2>1. tps * SplitTile \in Nat \ {0} /\ Segs \in Nat  BY <1>2, PartitionAssumption
  <2> HIDE DEF tps
  <2>2. CeilDiv(len, tps * SplitTile) \in Int  BY <2>1, CeilInt
  <2>3. QED  BY <2>1, <2>2 DEF SegmentsRead, Lesser, tps
<1> HIDE DEF tps
<1>4. ASSUME NEW key \in VisibleKeys(b, s, p), NEW seg \in SegmentsRead(len)
      PROVE  /\ tile(key) \in Int
             /\ key \in keys(seg) <=> seg * tps <= tile(key) /\ tile(key) < (seg + 1) * tps
  <2>1. tps \in Nat /\ seg \in Int  BY <1>2, <1>3
  <2>2. keys(seg) = KeysIn(b, s, p, SplitTile, TileRange(b, l, s, x, seg))  OBVIOUS
  <2>3. tps = TilesPerSegment(len)  BY DEF tps
  <2> HIDE DEF keys
  <2>4. QED  BY <2>1, <2>2, <2>3, SegmentKeys
<1>5. ASSUME NEW key \in VisibleKeys(b, s, p) PROVE \E seg \in SegmentsRead(len) : key \in keys(seg)
  <2>1. key \in Nat
    <3>1. b.k[s] \in Nat  BY RowFacts
    <3>2. key \in 0 .. b.k[s] - 1  BY KeyFacts
    <3>3. QED  BY <3>1, <3>2
  <2>2. PICK seg \in SegmentsRead(len) : seg * tps <= tile(key) /\ tile(key) < (seg + 1) * tps
    <3>1. key < len  OBVIOUS
    <3>2. QED  BY <1>2, <2>1, <3>1, SegmentOfTile DEF tps
  <2> HIDE DEF keys, tile
  <2>3. QED  BY <1>4, <2>2
<1>6. \A seg \in SegmentsRead(len) : keys(seg) \subseteq VisibleKeys(b, s, p)
  BY DEF KeysIn
<1>7. ASSUME NEW u \in SegmentsRead(len), NEW v \in SegmentsRead(len), u < v
      PROVE  keys(u) \cap keys(v) = {}
  <2> SUFFICES ASSUME NEW key \in keys(u) \cap keys(v) PROVE FALSE  OBVIOUS
  <2>1. key \in VisibleKeys(b, s, p)  BY <1>6
  <2> HIDE DEF keys, tile
  <2>2. /\ tile(key) \in Int /\ tile(key) < (u + 1) * tps /\ v * tps <= tile(key)
    BY <1>4, <2>1
  <2>3. u \in Int /\ v \in Int /\ u + 1 <= v  BY <1>3, <1>7
  <2>4. (u + 1) * tps <= v * tps /\ (u + 1) * tps \in Int /\ v * tps \in Int
    <3>1. u + 1 \in Int /\ tps \in Nat  BY <1>2, <2>3
    <3>2. QED  BY <2>3, <3>1, MulMonotone
  <2>5. QED  BY <2>2, <2>4
<1>8. \A u, v \in SegmentsRead(len) : u # v => keys(u) \cap keys(v) = {}
  <2> SUFFICES ASSUME NEW u \in SegmentsRead(len), NEW v \in SegmentsRead(len), u # v
               PROVE  keys(u) \cap keys(v) = {}
    OBVIOUS
  <2> HIDE DEF keys
  <2>1. u < v \/ v < u  BY <1>3
  <2>2. QED  BY <1>7, <2>1
<1> HIDE DEF keys
<1>9. VisibleKeys(b, s, p) = UNION {keys(seg) : seg \in SegmentsRead(len)}
  BY <1>5, <1>6
<1>10. QED  BY <1>8, <1>9 DEF Covers, keys

\* The reducer finds the partials of all segments it reads in a row's scratch.
LEMMA SplitRow ==
  ASSUME NEW b, IsCall(b), HasSplit(b), NEW l, l = SplitOf(b),
         NEW s, NEW p, IsRow(b, s, p), Taken(b, l, s),
         NEW x \in ActiveReducers(b, l), ReducerRow(b, l, x) = b.cu[s] + p,
         scratch = WrittenScratch(b, l)
  PROVE  RowIs(b, l, s, p, Combined(b, l, x))
<1> DEFINE y == p \div l.bq
           len == ReducedLen(b, l, x)
           res == Combined(b, l, x)
<1>1. Shaped(b, l) /\ l.split  BY DEF Shaped, OfCall, SplitOf, Launch
<1>2. SplitLaunch(b, l) /\ l.mode \in {0, 1, 2} /\ l.bq \in Nat \ {0} /\ l.mode # 1
  BY <1>1, LaunchShape
<1>3. /\ s \in 0 .. b.n - 1 /\ p \in Nat /\ QLen(b, s) \in Nat /\ p < QLen(b, s)
      /\ b.cu[s] + p \in 0 .. RealRows(b) - 1 /\ b.k[s] \in Nat /\ RealRows(b) \in Nat
  BY RowFacts, CallFacts DEF IsRow
<1>4. l.mode = 2 \/ x < RealRows(b)
  <2>1. CASE l.mode # 2
    <3>1. x = b.cu[s] + p  BY <2>1 DEF ReducerRow
    <3>2. x \in 0 .. RealRows(b) - 1  BY <1>3, <3>1
    <3>3. QED  BY <1>3, <3>2
  <2>2. QED  BY <2>1
<1>5. PICK lane \in Lanes(b, l) : LaneScratch(b, l, lane) = x /\ scratch[x] = Partials(b, l, lane)
  <2>1. PICK any \in Lanes(b, l) : LaneScratch(b, l, any) = x
    BY <1>2, <1>4, ReducerHasLane
  <2>2. x \in DOMAIN scratch  BY <1>2, <2>1, WrittenScratchFacts
  <2>3. QED  BY <1>2, <2>2, WrittenScratchFacts
<1>6. x \in DOMAIN scratch  BY <1>2, <1>5, WrittenScratchFacts
<1>7. /\ LaneRow(b, l, lane) = b.cu[s] + p
      /\ PartitionLen(b, l, BlockSeq(b, l, lane[1]), BlockLocal(b, l, lane[1])) = len
  BY <1>2, <1>4, <1>5, ReducerMatchesLane
<1>8. lane = LaneOf(b, l, s, p)
  <2>1. lane \in {m \in Lanes(b, l) : LaneRow(b, l, m) = b.cu[s] + p}  BY <1>7
  <2>2. QED  BY <1>1, <2>1, LanesOfRow
<1>9. BlockSeq(b, l, lane[1]) = s /\ BlockLocal(b, l, lane[1]) = y
  BY <1>1, <1>8, RowHasLane
<1>10. len = PartitionLen(b, l, s, y)  BY <1>7, <1>9
<1>11. y = p
  <2>1. BlockLocal(b, l, lane[1]) = lane[2]  BY <1>2, LaneFacts
  <2>2. lane[2] = p  BY <1>8 DEF LaneOf
  <2>3. QED  BY <1>9, <2>1, <2>2
<1> HIDE DEF y, len, res
<1>12. len \in Int
  <2>1. len = IF l.bq = 1 THEN Context(b, s) + p + 1 ELSE b.k[s]
    BY <1>10, <1>11 DEF PartitionLen, Context
  <2>2. Context(b, s) \in Int  BY <1>3 DEF Context
  <2>3. QED  BY <1>3, <2>1, <2>2
<1>13. ~ (~ (l.mode = 2) /\ x >= RealRows(b))
  <2>1. CASE l.mode # 2
    <3>1. x = b.cu[s] + p  BY <2>1 DEF ReducerRow
    <3>2. x \in 0 .. RealRows(b) - 1  BY <1>3, <3>1
    <3>3. QED  BY <1>3, <3>2
  <2>2. QED  BY <2>1
<1>14. TilesPerSegment(len) \in Int
  <2>1. Segs * SplitTile \in Nat \ {0}  BY PartitionAssumption
  <2>2. QED  BY <1>12, <2>1, CeilInt DEF TilesPerSegment
<1>15. CASE TilesPerSegment(len) <= 0
  <2>1. res = Zero  BY <1>15 DEF Combined, res, len
  <2>2. QED  BY <1>1, <1>10, <1>15, <2>1 DEF RowIs, y, res
<1>16. CASE ~ (TilesPerSegment(len) <= 0)
  <2>1. res = Result(SplitTile,
                [seg \in SegmentsRead(len) |->
                   IF x \in DOMAIN scratch /\ seg \in DOMAIN scratch[x]
                   THEN scratch[x][seg] ELSE Stale])
    BY <1>13, <1>16 DEF Combined, res, len
  <2>2. res.tile = SplitTile /\ DOMAIN res.parts = SegmentsRead(len)
    BY <2>1 DEF Result
  <2>3. TilesPerSegment(len) > 0  BY <1>14, <1>16
  <2>4. \A seg \in SegmentsRead(len) : seg \in 0 .. Segs - 1 /\ SegmentRuns(seg, len)
    BY <1>12, <2>3, ReadSegmentsRun
  <2>5. ASSUME NEW seg \in SegmentsRead(len)
        PROVE  res.parts[seg].range = TileRange(b, l, s, y, seg)
    <3>1. seg \in LaneSegments(b, l, lane)
      BY <1>1, <1>7, <2>4 DEF LaneSegments, SegmentsOf
    <3>2. seg \in DOMAIN scratch[x] /\ scratch[x][seg].range = TileRange(b, l, s, y, seg)
      BY <1>5, <1>9, <3>1 DEF Partials
    <3>3. res.parts[seg] = scratch[x][seg]
      BY <1>6, <2>1, <3>2 DEF Result
    <3>4. QED  BY <3>2, <3>3
  <2>6. Tile(l) = SplitTile  BY <1>1 DEF Tile
  <2>7. RowIs(b, l, s, p, res)
    BY <1>1, <1>10, <1>16, <2>2, <2>5, <2>6 DEF RowIs, y
  <2>8. QED  BY <2>7 DEF res
<1>17. QED  BY <1>15, <1>16 DEF res

\* The length a 3D launch partitions for a row: its prefix.
LEMMA RowLen ==
  ASSUME NEW b, IsCall(b), HasSplit(b), NEW l, l = SplitOf(b), NEW s, NEW p, IsRow(b, s, p)
  PROVE  LET len == PartitionLen(b, l, s, p \div l.bq) IN
         /\ p \div l.bq = p
         /\ len = Context(b, s) + p + 1 /\ len \in Int
         /\ \A key \in VisibleKeys(b, s, p) : key < len
<1> DEFINE y == p \div l.bq
           len == PartitionLen(b, l, s, y)
<1>1. Shaped(b, l) /\ l.split  BY DEF Shaped, OfCall, SplitOf, Launch
<1>2. /\ l.bq \in Nat \ {0} /\ (l.bq = 1 \/ b.maxq <= 1)
  <2>1. SplitLaunch(b, l)  BY <1>1, LaunchShape
  <2>2. QED  BY <2>1, LaunchFacts
<1>3. /\ s \in 0 .. b.n - 1 /\ p \in Nat /\ QLen(b, s) \in Nat /\ p < QLen(b, s)
      /\ b.k[s] \in Nat
  BY RowFacts DEF IsRow
<1>4. b.maxq <= 1 => p = 0 /\ QLen(b, s) = 1
  <2>1. QLen(b, s) <= b.maxq /\ b.maxq \in Nat  BY <1>3, CallFacts
  <2>2. QED  BY <1>3, <2>1
<1>5. y = p
  <2>1. CASE l.bq = 1  BY <1>3, <2>1, DivOne
  <2>2. CASE p = 0
    <3>1. 0 \div l.bq = 0
      <4>1. 0 \in Int /\ 0 * l.bq <= 0 /\ 0 < 0 * l.bq + l.bq  BY <1>2
      <4>2. QED  BY <1>2, <4>1, DivUnique
    <3>2. QED  BY <2>2, <3>1
  <2>3. QED  BY <1>2, <1>4, <2>1, <2>2
<1> HIDE DEF y
<1>6. Context(b, s) \in Int /\ Context(b, s) = b.k[s] - QLen(b, s)  BY <1>3 DEF Context
<1>7. len = Context(b, s) + p + 1
  <2>1. len = IF l.bq = 1 THEN Context(b, s) + p + 1 ELSE b.k[s]
    BY <1>5 DEF PartitionLen, Context
  <2>2. l.bq = 1 \/ b.k[s] = Context(b, s) + p + 1
    <3>1. b.maxq <= 1 => b.k[s] = Context(b, s) + p + 1  BY <1>3, <1>4, <1>6
    <3>2. QED  BY <1>2, <3>1
  <2>3. QED  BY <2>1, <2>2
<1> HIDE DEF len
<1>8. \A key \in VisibleKeys(b, s, p) : key < len
  <2> TAKE key \in VisibleKeys(b, s, p)
  <2>1. key \in 0 .. b.k[s] - 1 /\ key <= Context(b, s) + p  BY KeyFacts
  <2>2. QED  BY <1>3, <1>6, <1>7, <2>1
<1>9. len \in Int  BY <1>3, <1>6, <1>7
<1>10. QED  BY <1>5, <1>7, <1>8, <1>9 DEF len, y

\* A 3D launch splits a row's tiles over segments, and the reducer puts them together.
LEMMA SplitRowCovers ==
  ASSUME NEW b, IsCall(b), HasSplit(b), NEW l, l = SplitOf(b),
         NEW s, NEW p, IsRow(b, s, p), NEW res, RowIs(b, l, s, p, res)
  PROVE  Covers(b, s, p, res)
<1> DEFINE x == p \div l.bq
           len == PartitionLen(b, l, s, x)
<1>1. Shaped(b, l) /\ l.split  BY DEF Shaped, OfCall, SplitOf, Launch
<1>2. len \in Int /\ \A key \in VisibleKeys(b, s, p) : key < len  BY RowLen
<1>3. Tile(l) = SplitTile  BY <1>1 DEF Tile
<1>4. IF TilesPerSegment(len) <= 0 THEN res = Zero
      ELSE /\ res.tile = SplitTile /\ DOMAIN res.parts = SegmentsRead(len)
           /\ \A seg \in SegmentsRead(len) : res.parts[seg].range = TileRange(b, l, s, x, seg)
  BY <1>1, <1>3 DEF RowIs
<1>5. len = PartitionLen(b, l, s, x)  OBVIOUS
<1> HIDE DEF len
<1>6. TilesPerSegment(len) \in Int /\ (TilesPerSegment(len) <= 0 => len <= 0)
  <2>1. Segs * SplitTile \in Nat \ {0}  BY PartitionAssumption
  <2>2. TilesPerSegment(len) \in Int  BY <1>2, <2>1, CeilInt DEF TilesPerSegment
  <2>3. 0 * (Segs * SplitTile) < len <=> 0 < TilesPerSegment(len)
    BY <1>2, <2>1, CeilBelow DEF TilesPerSegment
  <2>4. 0 * (Segs * SplitTile) = 0  BY <2>1
  <2>5. QED  BY <1>2, <2>2, <2>3, <2>4
<1>7. CASE TilesPerSegment(len) <= 0
  <2>1. res = Zero  BY <1>4, <1>7
  <2>2. VisibleKeys(b, s, p) = {}
    <3> SUFFICES ASSUME NEW key \in VisibleKeys(b, s, p) PROVE FALSE  OBVIOUS
    <3>1. key \in 0 .. b.k[s] - 1  BY KeyFacts
    <3>2. b.k[s] \in Nat  BY RowFacts
    <3>3. key < len  BY <1>2
    <3>4. QED  BY <1>2, <1>6, <1>7, <3>1, <3>2, <3>3
  <2>3. DOMAIN res.parts = {}  BY <2>1 DEF Zero
  <2>4. QED  BY <2>2, <2>3 DEF Covers
<1>8. CASE ~ (TilesPerSegment(len) <= 0)
  <2>1. TilesPerSegment(len) > 0  BY <1>6, <1>8
  <2>2. QED  BY <1>2, <1>4, <1>5, <1>8, <2>1, SegmentsCover
<1>9. QED  BY <1>7, <1>8

LEMMA RowIsCovers ==
  ASSUME NEW b, IsCall(b), NEW l, Shaped(b, l), NEW s, NEW p, IsRow(b, s, p),
         NEW res, RowIs(b, l, s, p, res)
  PROVE  Covers(b, s, p, res)
<1>1. CASE l.split
  <2>1. HasSplit(b) /\ l = SplitOf(b)  BY <1>1 DEF Shaped, OfCall, PlainOf, Launch
  <2>2. QED  BY <2>1, SplitRowCovers
<1>2. CASE ~ l.split  BY <1>2, PlainRowCovers
<1>3. QED  BY <1>1, <1>2

-----------------------------------------------------------------------------
(* The reducers of a row.                                                   *)

\* With COMPACT_SHORT a reducer that does not return early has a row of its own.
LEMMA CompactReducer ==
  ASSUME NEW b, IsCall(b), HasSplit(b), NEW l, l = SplitOf(b), l.mode = 2,
         NEW x \in ActiveReducers(b, l)
  PROVE  \E t, q : /\ IsRow(b, t, q) /\ Taken(b, l, t)
                   /\ ReducerRow(b, l, x) = b.cu[t] + q /\ x = ScratchRow(b, l, t, q)
<1> DEFINE t == x \div Short
           q == x % Short
<1>1. Shaped(b, l) /\ l.split  BY DEF Shaped, OfCall, SplitOf, Launch
<1>2. SplitLaunch(b, l)  BY <1>1, LaunchShape
<1>3. x \in Blocks(b, l) /\ ReducerActive(b, l, x)
  BY DEF ActiveReducers, ReducerRows, Blocks
<1>4. BlockSeq(b, l, x) = t /\ BlockLocal(b, l, x) = q  BY DEF BlockSeq, BlockLocal
<1>5. t \in 0 .. b.n - 1 /\ q \in Nat /\ x = t * Short + q
  BY <1>2, <1>3, <1>4, BlockFacts
<1>6. QLen(b, t) <= Short /\ q < QLen(b, t)  BY <1>3 DEF ReducerActive
<1>7. ReducerRow(b, l, x) = b.cu[t] + q  BY DEF ReducerRow
<1> HIDE DEF t, q
<1>8. QLen(b, t) \in Nat  BY <1>5, CallFacts
<1>9. IsRow(b, t, q)  BY <1>5, <1>6, <1>8 DEF IsRow
<1>10. Taken(b, l, t)  BY <1>6 DEF Taken
<1>11. x = ScratchRow(b, l, t, q)  BY <1>5 DEF ScratchRow
<1>12. QED  BY <1>7, <1>9, <1>10, <1>11

LEMMA ReducersOfRow ==
  ASSUME NEW b, IsCall(b), HasSplit(b), NEW l, l = SplitOf(b), NEW s, NEW p, IsRow(b, s, p)
  PROVE  {x \in ActiveReducers(b, l) : ReducerRow(b, l, x) = b.cu[s] + p}
           = IF Taken(b, l, s) THEN {ScratchRow(b, l, s, p)} ELSE {}
<1>1. Shaped(b, l) /\ l.split  BY DEF Shaped, OfCall, SplitOf, Launch
<1>2. l.mode \in {0, 2} /\ (l.mode = 2 => l.bq = 1)  BY <1>1, LaunchShape
<1>3. CASE l.mode = 2
  <2>1. ASSUME NEW x \in ActiveReducers(b, l), ReducerRow(b, l, x) = b.cu[s] + p
        PROVE  Taken(b, l, s) /\ x = ScratchRow(b, l, s, p)
    <3>1. PICK t, q : /\ IsRow(b, t, q) /\ Taken(b, l, t)
                      /\ ReducerRow(b, l, x) = b.cu[t] + q /\ x = ScratchRow(b, l, t, q)
      BY <1>3, CompactReducer
    <3>2. b.cu[t] + q = b.cu[s] + p  BY <2>1, <3>1
    <3>3. t = s /\ q = p  BY <3>1, <3>2, RowUnique
    <3>4. QED  BY <3>1, <3>3
  <2>2. ASSUME Taken(b, l, s)
        PROVE  /\ ScratchRow(b, l, s, p) \in ActiveReducers(b, l)
               /\ ReducerRow(b, l, ScratchRow(b, l, s, p)) = b.cu[s] + p
    <3> DEFINE g == ScratchRow(b, l, s, p)
    <3>1. g = BlockOf(b, l, s, p)  BY <1>3 DEF ScratchRow, BlockOf
    <3>2. g \in Blocks(b, l) /\ BlockSeq(b, l, g) = s /\ BlockLocal(b, l, g) = p \div l.bq
      BY <1>1, <2>2, <3>1, BlockOfRow
    <3> HIDE DEF g
    <3>3. p \in Nat /\ p < QLen(b, s)  BY RowFacts
    <3>4. p \div l.bq = p  BY <1>2, <1>3, <3>3, DivOne
    <3>5. g \div Short = s /\ g % Short = p
      BY <1>3, <3>2, <3>4 DEF BlockSeq, BlockLocal
    <3>6. g \in ReducerRows(b, l)  BY <1>3, <3>2 DEF Blocks, ReducerRows
    <3>7. ReducerActive(b, l, g)  BY <1>3, <2>2, <3>3, <3>5 DEF ReducerActive, Taken
    <3>8. ReducerRow(b, l, g) = b.cu[s] + p  BY <1>3, <3>5 DEF ReducerRow
    <3>9. QED  BY <3>6, <3>7, <3>8 DEF ActiveReducers, g
  <2>3. QED  BY <2>1, <2>2
<1>4. CASE l.mode = 0
  <2>1. Taken(b, l, s)  BY <1>4 DEF Taken
  <2>2. ActiveReducers(b, l) = 0 .. Rows(b) - 1
    BY <1>4 DEF ActiveReducers, ReducerRows, ReducerActive
  <2>3. \A x \in ActiveReducers(b, l) : ReducerRow(b, l, x) = x  BY <1>4 DEF ReducerRow
  <2>4. b.cu[s] + p \in 0 .. Rows(b) - 1
    <3>1. b.cu[s] + p \in 0 .. RealRows(b) - 1  BY RowFacts
    <3>2. RealRows(b) \in Nat /\ Rows(b) \in Nat /\ RealRows(b) <= Rows(b)  BY CallFacts
    <3>3. QED  BY <3>1, <3>2
  <2>5. ScratchRow(b, l, s, p) = b.cu[s] + p  BY <1>4 DEF ScratchRow
  <2> DEFINE r == b.cu[s] + p
  <2> HIDE DEF r
  <2>6. {x \in 0 .. Rows(b) - 1 : x = r} = {r}  BY <2>4 DEF r
  <2>7. QED  BY <2>1, <2>2, <2>3, <2>5, <2>6 DEF r
<1>5. QED  BY <1>2, <1>3, <1>4

\* A padding row has a reducer only without COMPACT_SHORT, and that one stores zeros.
LEMMA ReducersOfPad ==
  ASSUME NEW b, IsCall(b), HasSplit(b), NEW l, l = SplitOf(b),
         NEW r \in 0 .. Rows(b) - 1, r >= RealRows(b)
  PROVE  /\ {x \in ActiveReducers(b, l) : ReducerRow(b, l, x) = r}
              = IF MixedShort(b) THEN {} ELSE {r}
         /\ ~ MixedShort(b) => Combined(b, l, r) = Zero
<1>1. l.mode = IF MixedShort(b) THEN 2 ELSE 0  BY DEF SplitOf, Launch
<1>2. RealRows(b) \in Nat /\ Rows(b) \in Nat  BY CallFacts
<1>3. CASE MixedShort(b)
  <2>1. l.mode = 2  BY <1>1, <1>3
  <2>2. ASSUME NEW x \in ActiveReducers(b, l), ReducerRow(b, l, x) = r PROVE FALSE
    <3>1. PICK t, q : IsRow(b, t, q) /\ ReducerRow(b, l, x) = b.cu[t] + q
      BY <2>1, CompactReducer
    <3>2. b.cu[t] + q \in 0 .. RealRows(b) - 1  BY <3>1, RowFacts
    <3>3. r \in 0 .. RealRows(b) - 1  BY <2>2, <3>1, <3>2
    <3>4. QED  BY <1>2, <3>3
  <2>3. QED  BY <1>3, <2>2
<1>4. CASE ~ MixedShort(b)
  <2>1. l.mode = 0  BY <1>1, <1>4
  <2>2. ActiveReducers(b, l) = 0 .. Rows(b) - 1
    BY <2>1 DEF ActiveReducers, ReducerRows, ReducerActive
  <2>3. \A x \in ActiveReducers(b, l) : ReducerRow(b, l, x) = x  BY <2>1 DEF ReducerRow
  <2>4. Combined(b, l, r) = Zero  BY <2>1 DEF Combined
  <2>5. QED  BY <1>4, <2>2, <2>3, <2>4
<1>5. QED  BY <1>3, <1>4

-----------------------------------------------------------------------------
(* Which programs write which rows.                                         *)

\* The rows the 2D and the 3D launch of a call answer for, and the padding rows the
\* reducer clears.
PlainTakes(b, r) ==
  HasPlain(b) /\ \E s, p : IsRow(b, s, p) /\ r = b.cu[s] + p /\ Taken(b, PlainOf(b), s)
SplitTakes(b, r) ==
  HasSplit(b) /\ \E s, p : IsRow(b, s, p) /\ r = b.cu[s] + p /\ Taken(b, SplitOf(b), s)
Cleared(b, r) == HasSplit(b) /\ ~ MixedShort(b) /\ r >= RealRows(b)

\* A real row belongs to one of the two launches and a padding row to none.
LEMMA RowTaken ==
  ASSUME NEW b, IsCall(b)
  PROVE  /\ \A r \in 0 .. RealRows(b) - 1 :
              /\ PlainTakes(b, r) <=> ~ SplitTakes(b, r)
              /\ ~ Cleared(b, r)
         /\ \A r \in Nat : r >= RealRows(b) => ~ PlainTakes(b, r) /\ ~ SplitTakes(b, r)
<1>1. RealRows(b) \in Nat  BY CallFacts
<1>2. ASSUME NEW r \in 0 .. RealRows(b) - 1
      PROVE  /\ PlainTakes(b, r) <=> ~ SplitTakes(b, r)
             /\ ~ Cleared(b, r)
  <2>1. PICK s, p : IsRow(b, s, p) /\ r = b.cu[s] + p  BY RowOwner
  <2>2. \A t, q : IsRow(b, t, q) /\ r = b.cu[t] + q => t = s
    <3> SUFFICES ASSUME NEW t, NEW q, IsRow(b, t, q), r = b.cu[t] + q PROVE t = s
      OBVIOUS
    <3>1. b.cu[s] + p = b.cu[t] + q  BY <2>1
    <3>2. QED  BY <2>1, <3>1, RowUnique
  <2>3. PlainTakes(b, r) <=> HasPlain(b) /\ Taken(b, PlainOf(b), s)
    BY <2>1, <2>2 DEF PlainTakes
  <2>4. SplitTakes(b, r) <=> HasSplit(b) /\ Taken(b, SplitOf(b), s)
    BY <2>1, <2>2 DEF SplitTakes
  <2>5. CASE MixedShort(b)
    <3>1. HasPlain(b) /\ HasSplit(b)  BY <2>5 DEF HasPlain, HasSplit
    <3>2. PlainOf(b).mode = 1 /\ SplitOf(b).mode = 2  BY <2>5 DEF PlainOf, SplitOf, Launch
    <3>3. QLen(b, s) \in Nat /\ Short \in Nat  BY <2>1, RowFacts, PartitionAssumption
    <3>4. Taken(b, PlainOf(b), s) <=> QLen(b, s) > Short  BY <3>2 DEF Taken
    <3>5. Taken(b, SplitOf(b), s) <=> QLen(b, s) <= Short  BY <3>2 DEF Taken
    <3>6. QLen(b, s) > Short <=> ~ (QLen(b, s) <= Short)  BY <3>3
    <3>7. PlainTakes(b, r) <=> ~ SplitTakes(b, r)  BY <2>3, <2>4, <3>1, <3>4, <3>5, <3>6
    <3>8. QED  BY <2>5, <3>7 DEF Cleared
  <2>6. CASE ~ MixedShort(b)
    <3>1. HasPlain(b) <=> ~ HasSplit(b)  BY <2>6 DEF HasPlain, HasSplit
    <3>2. PlainOf(b).mode = 0 /\ SplitOf(b).mode = 0  BY <2>6 DEF PlainOf, SplitOf, Launch
    <3>3. Taken(b, PlainOf(b), s) /\ Taken(b, SplitOf(b), s)  BY <3>2 DEF Taken
    <3>4. ~ (r >= RealRows(b))  BY <1>1
    <3>5. PlainTakes(b, r) <=> ~ SplitTakes(b, r)  BY <2>3, <2>4, <3>1, <3>3
    <3>6. QED  BY <3>4, <3>5 DEF Cleared
  <2>7. QED  BY <2>5, <2>6
<1>3. ASSUME NEW r \in Nat, r >= RealRows(b) PROVE ~ PlainTakes(b, r) /\ ~ SplitTakes(b, r)
  <2>1. ASSUME NEW s, NEW p, IsRow(b, s, p), r = b.cu[s] + p PROVE FALSE
    <3>1. r \in 0 .. RealRows(b) - 1  BY <2>1, RowFacts
    <3>2. QED  BY <1>1, <1>3, <3>1
  <2>2. QED  BY <2>1 DEF PlainTakes, SplitTakes
<1>4. QED  BY <1>2, <1>3

Times(P) == IF P THEN 1 ELSE 0

\* How many programs of the 2D kernel write a row.
LEMMA PlainCount ==
  ASSUME NEW b, IsCall(b), HasPlain(b), NEW l, l = PlainOf(b), NEW r \in 0 .. Rows(b) - 1
  PROVE  Cardinality({lane \in Lanes(b, l) : LaneRow(b, l, lane) = r}) = Times(PlainTakes(b, r))
<1>1. RealRows(b) \in Nat /\ Rows(b) \in Nat  BY CallFacts
<1>2. Shaped(b, l)  BY DEF Shaped, OfCall
<1>3. CASE r < RealRows(b)
  <2>1. PICK s, p : IsRow(b, s, p) /\ r = b.cu[s] + p
    <3>1. r \in 0 .. RealRows(b) - 1  BY <1>1, <1>3
    <3>2. QED  BY <3>1, RowOwner
  <2>2. {lane \in Lanes(b, l) : LaneRow(b, l, lane) = r}
          = IF Taken(b, l, s) THEN {LaneOf(b, l, s, p)} ELSE {}
    BY <1>2, <2>1, LanesOfRow
  <2>3. PlainTakes(b, r) <=> Taken(b, l, s)
    <3>1. ASSUME NEW t, NEW q, IsRow(b, t, q), r = b.cu[t] + q PROVE t = s
      <4>1. b.cu[s] + p = b.cu[t] + q  BY <2>1, <3>1
      <4>2. QED  BY <2>1, <3>1, <4>1, RowUnique
    <3>2. QED  BY <2>1, <3>1 DEF PlainTakes
  <2>4. QED  BY <2>2, <2>3, FS_Singleton, FS_EmptySet DEF Times
<1>4. CASE ~ (r < RealRows(b))
  <2>1. ~ PlainTakes(b, r)
    <3>1. r \in Nat /\ r >= RealRows(b)  BY <1>1, <1>4
    <3>2. QED  BY <3>1, RowTaken
  <2>2. {lane \in Lanes(b, l) : LaneRow(b, l, lane) = r} = {}
    <3> SUFFICES ASSUME NEW lane \in Lanes(b, l), LaneRow(b, l, lane) = r PROVE FALSE
      OBVIOUS
    <3>1. r \in 0 .. RealRows(b) - 1  BY <1>2, LaneRowsReal
    <3>2. QED  BY <1>1, <1>4, <3>1
  <2>3. QED  BY <2>1, <2>2, FS_EmptySet DEF Times
<1>5. QED  BY <1>3, <1>4

\* How many programs of the reducer write a row.
LEMMA SplitCount ==
  ASSUME NEW b, IsCall(b), HasSplit(b), NEW l, l = SplitOf(b), NEW r \in 0 .. Rows(b) - 1
  PROVE  Cardinality({x \in ActiveReducers(b, l) : ReducerRow(b, l, x) = r})
           = Times(SplitTakes(b, r) \/ Cleared(b, r))
<1>1. RealRows(b) \in Nat /\ Rows(b) \in Nat  BY CallFacts
<1>2. CASE r < RealRows(b)
  <2>1. PICK s, p : IsRow(b, s, p) /\ r = b.cu[s] + p
    <3>1. r \in 0 .. RealRows(b) - 1  BY <1>1, <1>2
    <3>2. QED  BY <3>1, RowOwner
  <2>2. {x \in ActiveReducers(b, l) : ReducerRow(b, l, x) = r}
          = IF Taken(b, l, s) THEN {ScratchRow(b, l, s, p)} ELSE {}
    BY <2>1, ReducersOfRow
  <2>3. SplitTakes(b, r) <=> Taken(b, l, s)
    <3>1. ASSUME NEW t, NEW q, IsRow(b, t, q), r = b.cu[t] + q PROVE t = s
      <4>1. b.cu[s] + p = b.cu[t] + q  BY <2>1, <3>1
      <4>2. QED  BY <2>1, <3>1, <4>1, RowUnique
    <3>2. QED  BY <2>1, <3>1 DEF SplitTakes
  <2>4. ~ Cleared(b, r)  BY <1>1, <1>2 DEF Cleared
  <2>5. QED  BY <2>2, <2>3, <2>4, FS_Singleton, FS_EmptySet DEF Times
<1>3. CASE ~ (r < RealRows(b))
  <2>1. r \in Nat /\ r >= RealRows(b)  BY <1>1, <1>3
  <2>2. ~ SplitTakes(b, r) /\ (Cleared(b, r) <=> ~ MixedShort(b))
    BY <2>1, RowTaken DEF Cleared
  <2>3. {x \in ActiveReducers(b, l) : ReducerRow(b, l, x) = r}
          = IF MixedShort(b) THEN {} ELSE {r}
    BY <2>1, ReducersOfPad
  <2>4. QED  BY <2>2, <2>3, FS_Singleton, FS_EmptySet DEF Times
<1>4. QED  BY <1>2, <1>3

-----------------------------------------------------------------------------
(* Where a call stands.                                                     *)

Stage(b, q) ==
  \/ q = Kernels(b)
  \/ MixedShort(b) /\ q = <<Main(SplitOf(b)), Reduction(SplitOf(b))>>
  \/ HasSplit(b) /\ q = <<Reduction(SplitOf(b))>>
  \/ q = <<>>

\* The 2D kernel, and the reducer, have run.
PlainDone(b, q) == HasPlain(b) /\ q # Kernels(b)
SplitDone(b, q) == HasSplit(b) /\ q = <<>>

LEMMA KernelsAre ==
  ASSUME NEW b
  PROVE  Kernels(b) =
           IF MixedShort(b)
           THEN <<Main(PlainOf(b)), Main(SplitOf(b)), Reduction(SplitOf(b))>>
           ELSE IF Use3D(b) THEN <<Main(SplitOf(b)), Reduction(SplitOf(b))>>
           ELSE <<Main(PlainOf(b))>>
<1>1. CASE MixedShort(b)
  BY <1>1 DEF Kernels, Launches, PlainOf, SplitOf
<1>2. CASE ~ MixedShort(b) /\ Use3D(b)
  <2>1. Launches(b) = <<SplitOf(b)>>  BY <1>2 DEF Launches, SplitOf
  <2>2. QED  BY <1>2, <2>1 DEF Kernels
<1>3. CASE ~ MixedShort(b) /\ ~ Use3D(b)
  <2>1. Use3D(b) = FALSE  BY <1>3 DEF Use3D
  <2>2. Launches(b) = <<PlainOf(b)>>  BY <1>3, <2>1 DEF Launches, PlainOf
  <2>3. QED  BY <1>3, <2>2 DEF Kernels
<1>4. QED  BY <1>1, <1>2, <1>3

LEMMA KernelKinds ==
  ASSUME NEW b
  PROVE  /\ Main(PlainOf(b)).kind = "main" /\ Main(PlainOf(b)).launch = PlainOf(b)
         /\ Main(SplitOf(b)).kind = "main" /\ Main(SplitOf(b)).launch = SplitOf(b)
         /\ Reduction(SplitOf(b)).kind = "reduce" /\ Reduction(SplitOf(b)).launch = SplitOf(b)
         /\ PlainOf(b).split = FALSE /\ SplitOf(b).split = TRUE
BY DEF Main, Reduction, PlainOf, SplitOf, Launch

LEMMA StageFacts ==
  ASSUME NEW b, NEW q, Stage(b, q), q # <<>>
  PROVE  LET l == Head(q).launch
             t == Tail(q)
         IN  /\ Stage(b, t) /\ ~ SplitDone(b, q)
             /\ Head(q).kind = "main" /\ ~ l.split =>
                  /\ HasPlain(b) /\ l = PlainOf(b)
                  /\ ~ PlainDone(b, q) /\ PlainDone(b, t) /\ ~ SplitDone(b, t)
             /\ Head(q).kind = "main" /\ l.split =>
                  /\ HasSplit(b) /\ l = SplitOf(b)
                  /\ PlainDone(b, t) <=> PlainDone(b, q)
                  /\ ~ SplitDone(b, t)
             /\ Head(q).kind = "reduce" =>
                  /\ HasSplit(b) /\ l = SplitOf(b) /\ q = <<Reduction(l)>>
                  /\ PlainDone(b, t) <=> PlainDone(b, q)
                  /\ SplitDone(b, t)
<1> DEFINE P == Main(PlainOf(b))
           S == Main(SplitOf(b))
           R == Reduction(SplitOf(b))
<1>1. /\ P.kind = "main" /\ P.launch = PlainOf(b) /\ P.launch.split = FALSE
      /\ S.kind = "main" /\ S.launch = SplitOf(b) /\ S.launch.split = TRUE
      /\ R.kind = "reduce" /\ R.launch = SplitOf(b) /\ R = Reduction(R.launch)
  BY KernelKinds
<1>2. Kernels(b) = IF MixedShort(b) THEN <<P, S, R>>
                   ELSE IF Use3D(b) THEN <<S, R>> ELSE <<P>>
  BY KernelsAre
<1> HIDE DEF P, S, R
<1>3. P # S /\ P # R /\ S # R  BY <1>1
<1>4. CASE MixedShort(b)
  <2>1. HasPlain(b) /\ HasSplit(b) /\ Kernels(b) = <<P, S, R>>
    BY <1>2, <1>4 DEF HasPlain, HasSplit
  <2>2. CASE q = <<P, S, R>>
    <3>1. Head(q) = P /\ Tail(q) = <<S, R>>  BY <2>2
    <3>2. QED  BY <1>1, <1>4, <2>1, <2>2, <3>1 DEF Stage, PlainDone, SplitDone, S, R
  <2>3. CASE q = <<S, R>>
    <3>1. Head(q) = S /\ Tail(q) = <<R>>  BY <2>3
    <3>2. QED  BY <1>1, <1>4, <2>1, <2>3, <3>1 DEF Stage, PlainDone, SplitDone, R
  <2>4. CASE q = <<R>>
    <3>1. Head(q) = R /\ Tail(q) = <<>>  BY <2>4
    <3>2. QED  BY <1>1, <1>4, <2>1, <2>4, <3>1 DEF Stage, PlainDone, SplitDone
  <2>5. QED  BY <2>1, <2>2, <2>3, <2>4 DEF Stage, S, R
<1>5. CASE ~ MixedShort(b) /\ Use3D(b)
  <2>1. ~ HasPlain(b) /\ HasSplit(b) /\ Kernels(b) = <<S, R>>
    BY <1>2, <1>5 DEF HasPlain, HasSplit
  <2>2. CASE q = <<S, R>>
    <3>1. Head(q) = S /\ Tail(q) = <<R>>  BY <2>2
    <3>2. QED  BY <1>1, <1>5, <2>1, <2>2, <3>1 DEF Stage, PlainDone, SplitDone, R
  <2>3. CASE q = <<R>>
    <3>1. Head(q) = R /\ Tail(q) = <<>>  BY <2>3
    <3>2. QED  BY <1>1, <1>5, <2>1, <2>3, <3>1 DEF Stage, PlainDone, SplitDone
  <2>4. QED  BY <1>5, <2>1, <2>2, <2>3 DEF Stage, S, R
<1>6. CASE ~ MixedShort(b) /\ ~ Use3D(b)
  <2>1. HasPlain(b) /\ ~ HasSplit(b) /\ Kernels(b) = <<P>>
    BY <1>2, <1>6 DEF HasPlain, HasSplit
  <2>2. q = <<P>>  BY <1>6, <2>1 DEF Stage
  <2>3. Head(q) = P /\ Tail(q) = <<>>  BY <2>2
  <2>4. QED  BY <1>1, <2>1, <2>2, <2>3 DEF Stage, PlainDone, SplitDone
<1>7. QED  BY <1>4, <1>5, <1>6

-----------------------------------------------------------------------------
(* The invariant.                                                           *)

\* How often row r has been written when q is left of call b.
WritesSoFar(b, q, r) ==
  Times(PlainDone(b, q) /\ PlainTakes(b, r))
    + Times(SplitDone(b, q) /\ (SplitTakes(b, r) \/ Cleared(b, r)))

RowsRight ==
  \A s, p : IsRow(call, s, p) /\ call.cu[s] + p \in DOMAIN out =>
              \E l : /\ OfCall(call, l) /\ Taken(call, l, s)
                     /\ RowIs(call, l, s, p, out[call.cu[s] + p])

RowsReached ==
  \A r \in 0 .. RealRows(call) - 1 :
    \/ PlainDone(call, queue) /\ PlainTakes(call, r)
    \/ SplitDone(call, queue) /\ SplitTakes(call, r)
    => r \in DOMAIN out

PadsZero == \A r \in DOMAIN out : r >= RealRows(call) => out[r] = Zero

OnceInv ==
  call # NoCall =>
    /\ Stage(call, queue)
    /\ writes = [r \in 0 .. Rows(call) - 1 |-> WritesSoFar(call, queue, r)]
    /\ RowsRight /\ RowsReached /\ PadsZero

LEMMA InitOnce == Init => OnceInv
BY DEF Init, OnceInv

LEMMA CallOnce ==
  ASSUME IInv, Call
  PROVE  OnceInv'
<1>1. out' = <<>> /\ queue' = Kernels(call')
  BY DEF Call, IInv
<1>2. DOMAIN out' = {}  BY <1>1
<1>3. Kernels(call') # <<>>
  BY DEF Kernels
<1>4. ~ PlainDone(call', queue') /\ ~ SplitDone(call', queue')
  BY <1>1, <1>3 DEF PlainDone, SplitDone
<1>5. \A r : WritesSoFar(call', queue', r) = 0
  BY <1>4 DEF WritesSoFar, Times
<1>6. writes' = [r \in 0 .. Rows(call') - 1 |-> WritesSoFar(call', queue', r)]
  BY <1>5 DEF Call
<1>7. Stage(call', queue')  BY <1>1 DEF Stage
<1>8. RowsRight' /\ PadsZero'  BY <1>2 DEF RowsRight, PadsZero
<1>9. RowsReached'  BY <1>4 DEF RowsReached
<1>10. QED  BY <1>6, <1>7, <1>8, <1>9 DEF OnceInv

LEMMA ReturnOnce ==
  ASSUME Return
  PROVE  OnceInv'
BY DEF Return, OnceInv

LEMMA SplitOnce ==
  ASSUME IInv, OnceInv, SplitKernel
  PROVE  OnceInv'
<1>1. /\ call # NoCall /\ queue # <<>> /\ Head(queue).kind = "main" /\ Head(queue).launch.split
      /\ call' = call /\ queue' = Tail(queue) /\ out' = out /\ writes' = writes
  BY DEF SplitKernel, IInv
<1>2. Stage(call, queue) /\ RowsRight /\ RowsReached /\ PadsZero
      /\ writes = [r \in 0 .. Rows(call) - 1 |-> WritesSoFar(call, queue, r)]
  BY <1>1 DEF OnceInv
<1>3. /\ Stage(call, queue') /\ ~ SplitDone(call, queue) /\ ~ SplitDone(call, queue')
      /\ PlainDone(call, queue') <=> PlainDone(call, queue)
  BY <1>1, <1>2, StageFacts
<1>4. \A r : WritesSoFar(call, queue', r) = WritesSoFar(call, queue, r)
  BY <1>3 DEF WritesSoFar
<1>5. writes' = [r \in 0 .. Rows(call') - 1 |-> WritesSoFar(call', queue', r)]
  BY <1>1, <1>2, <1>4
<1>6. RowsRight' /\ PadsZero'  BY <1>1, <1>2 DEF RowsRight, PadsZero
<1>7. RowsReached'  BY <1>1, <1>2, <1>3 DEF RowsReached
<1>8. QED  BY <1>1, <1>3, <1>5, <1>6, <1>7 DEF OnceInv

\* The call and its rows, wherever a call is in flight.
LEMMA InFlight ==
  ASSUME IInv, call # NoCall
  PROVE  IsCall(call) /\ RealRows(call) \in Nat /\ Rows(call) \in Nat
BY CallsAssumption, CallFacts DEF IInv

LEMMA PlainOnce ==
  ASSUME IInv, OnceInv, PlainKernel
  PROVE  OnceInv'
<1> DEFINE l == Head(queue).launch
           lanes == Lanes(call, l)
           rows == {LaneRow(call, l, lane) : lane \in lanes}
           by(r) == {lane \in lanes : LaneRow(call, l, lane) = r}
           value(r) == Result(PlainTile, Partials(call, l, CHOOSE lane \in by(r) : TRUE))
<1>1. /\ call # NoCall /\ queue # <<>> /\ Head(queue).kind = "main"
      /\ ~ Head(queue).launch.split /\ call' = call /\ queue' = Tail(queue)
  BY DEF PlainKernel, IInv
<1>2. Stage(call, queue) /\ RowsRight /\ RowsReached /\ PadsZero
      /\ writes = [r \in 0 .. Rows(call) - 1 |-> WritesSoFar(call, queue, r)]
  BY <1>1 DEF OnceInv
<1>3. /\ Stage(call, queue') /\ HasPlain(call) /\ l = PlainOf(call)
      /\ ~ PlainDone(call, queue) /\ PlainDone(call, queue')
      /\ ~ SplitDone(call, queue) /\ ~ SplitDone(call, queue')
  BY <1>1, <1>2, StageFacts
<1>4. IsCall(call) /\ RealRows(call) \in Nat /\ Rows(call) \in Nat  BY <1>1, InFlight
<1>5. /\ out' = [r \in DOMAIN out \cup rows |-> IF r \in rows THEN value(r) ELSE out[r]]
      /\ writes' = [r \in DOMAIN writes |-> writes[r] + Cardinality(by(r))]
  BY DEF PlainKernel
<1> HIDE DEF l
<1>6. OfCall(call, l) /\ Shaped(call, l)  BY <1>3 DEF OfCall, Shaped
<1>7. writes' = [r \in 0 .. Rows(call') - 1 |-> WritesSoFar(call', queue', r)]
  <2>1. ASSUME NEW r \in 0 .. Rows(call) - 1
        PROVE  writes[r] + Cardinality(by(r)) = WritesSoFar(call, queue', r)
    <3>1. writes[r] = 0  BY <1>2, <1>3 DEF WritesSoFar, Times
    <3>2. Cardinality(by(r)) = Times(PlainTakes(call, r))
      BY <1>3, <1>4, PlainCount
    <3>3. WritesSoFar(call, queue', r) = Times(PlainTakes(call, r)) + 0
      BY <1>3 DEF WritesSoFar, Times
    <3>4. QED  BY <3>1, <3>2, <3>3 DEF Times
  <2>2. DOMAIN writes = 0 .. Rows(call) - 1  BY <1>2
  <2> HIDE DEF by
  <2>3. QED  BY <1>1, <1>5, <2>1, <2>2
<1>8. \A r \in rows : r \in 0 .. RealRows(call) - 1
  BY <1>4, <1>6, LaneRowsReal
<1>9. ASSUME NEW s, NEW p, IsRow(call, s, p), call.cu[s] + p \in rows
      PROVE  Taken(call, l, s) /\ RowIs(call, l, s, p, value(call.cu[s] + p))
  <2> DEFINE r == call.cu[s] + p
             a == LaneOf(call, l, s, p)
  <2>1. by(r) = IF Taken(call, l, s) THEN {a} ELSE {}
    BY <1>4, <1>6, <1>9, LanesOfRow
  <2>2. by(r) # {}  BY <1>9
  <2>3. Taken(call, l, s) /\ by(r) = {a}  BY <2>1, <2>2
  <2> HIDE DEF by, a, r
  <2>4. (CHOOSE lane \in by(r) : TRUE) = a  BY <2>3
  <2>5. value(r) = Result(PlainTile, Partials(call, l, a))  BY <2>4
  <2> HIDE DEF value
  <2>6. RowIs(call, l, s, p, Result(PlainTile, Partials(call, l, a)))
    BY <1>3, <1>4, <1>9, <2>3, PlainRow DEF a
  <2>7. QED  BY <2>3, <2>5, <2>6 DEF r
<1> HIDE DEF value
<1>10. RowsRight'
  <2> SUFFICES ASSUME NEW s, NEW p, IsRow(call, s, p), call.cu[s] + p \in DOMAIN out'
               PROVE  \E m : /\ OfCall(call, m) /\ Taken(call, m, s)
                             /\ RowIs(call, m, s, p, out'[call.cu[s] + p])
    BY <1>1 DEF RowsRight
  <2>1. CASE call.cu[s] + p \in rows
    <3>1. Taken(call, l, s) /\ RowIs(call, l, s, p, value(call.cu[s] + p))  BY <1>9, <2>1
    <3> HIDE DEF rows
    <3>2. out'[call.cu[s] + p] = value(call.cu[s] + p)  BY <1>5, <2>1
    <3>3. QED  BY <1>6, <3>1, <3>2
  <2>2. CASE call.cu[s] + p \notin rows
    <3> HIDE DEF rows
    <3>1. call.cu[s] + p \in DOMAIN out /\ out'[call.cu[s] + p] = out[call.cu[s] + p]
      BY <1>5, <2>2
    <3>2. QED  BY <1>2, <3>1 DEF RowsRight
  <2>3. QED  BY <2>1, <2>2
<1>11. RowsReached'
  <2> SUFFICES ASSUME NEW r \in 0 .. RealRows(call) - 1, PlainTakes(call, r)
               PROVE  r \in DOMAIN out'
    BY <1>1, <1>3 DEF RowsReached
  <2>1. PICK s, p : IsRow(call, s, p) /\ r = call.cu[s] + p /\ Taken(call, l, s)
    BY <1>3 DEF PlainTakes
  <2>2. r \in rows
    <3>1. LaneOf(call, l, s, p) \in lanes /\ LaneRow(call, l, LaneOf(call, l, s, p)) = r
      BY <1>4, <1>6, <2>1, RowHasLane
    <3>2. QED  BY <3>1
  <2> HIDE DEF rows
  <2>3. QED  BY <1>5, <2>2
<1>12. PadsZero'
  <2> SUFFICES ASSUME NEW r \in DOMAIN out', r >= RealRows(call) PROVE out'[r] = Zero
    BY <1>1 DEF PadsZero
  <2> HIDE DEF rows
  <2>1. r \notin rows  BY <1>4, <1>8
  <2>2. r \in DOMAIN out /\ out'[r] = out[r]  BY <1>5, <2>1
  <2>3. QED  BY <1>2, <2>2 DEF PadsZero
<1>13. QED  BY <1>1, <1>3, <1>7, <1>10, <1>11, <1>12 DEF OnceInv

LEMMA ReduceOnce ==
  ASSUME IInv, OnceInv, Reduce
  PROVE  OnceInv'
<1> DEFINE l == Head(queue).launch
           xs == ActiveReducers(call, l)
           rows == {ReducerRow(call, l, x) : x \in xs}
           by(r) == {x \in xs : ReducerRow(call, l, x) = r}
           value(r) == Combined(call, l, CHOOSE x \in by(r) : TRUE)
<1>1. /\ call # NoCall /\ queue # <<>> /\ Head(queue).kind = "reduce"
      /\ call' = call /\ queue' = Tail(queue)
  BY DEF Reduce, IInv
<1>2. Stage(call, queue) /\ RowsRight /\ RowsReached /\ PadsZero
      /\ writes = [r \in 0 .. Rows(call) - 1 |-> WritesSoFar(call, queue, r)]
  BY <1>1 DEF OnceInv
<1>3. /\ Stage(call, queue') /\ HasSplit(call) /\ l = SplitOf(call)
      /\ queue = <<Reduction(l)>>
      /\ PlainDone(call, queue') <=> PlainDone(call, queue)
      /\ ~ SplitDone(call, queue) /\ SplitDone(call, queue')
  BY <1>1, <1>2, StageFacts
<1>4. IsCall(call) /\ RealRows(call) \in Nat /\ Rows(call) \in Nat  BY <1>1, InFlight
<1>5. scratch = WrittenScratch(call, l)  BY <1>3 DEF IInv
<1>6. /\ out' = [r \in DOMAIN out \cup rows |-> IF r \in rows THEN value(r) ELSE out[r]]
      /\ writes' = [r \in DOMAIN writes |-> writes[r] + Cardinality(by(r))]
  BY DEF Reduce
<1> HIDE DEF l
<1>7. writes' = [r \in 0 .. Rows(call') - 1 |-> WritesSoFar(call', queue', r)]
  <2>1. ASSUME NEW r \in 0 .. Rows(call) - 1
        PROVE  writes[r] + Cardinality(by(r)) = WritesSoFar(call, queue', r)
    <3>1. writes[r] = Times(PlainDone(call, queue) /\ PlainTakes(call, r)) + 0
      BY <1>2, <1>3 DEF WritesSoFar, Times
    <3>2. Cardinality(by(r)) = Times(SplitTakes(call, r) \/ Cleared(call, r))
      BY <1>3, <1>4, SplitCount
    <3>3. WritesSoFar(call, queue', r)
            = Times(PlainDone(call, queue) /\ PlainTakes(call, r))
                + Times(SplitTakes(call, r) \/ Cleared(call, r))
      BY <1>3 DEF WritesSoFar, Times
    <3> HIDE DEF by
    <3>4. QED  BY <3>1, <3>2, <3>3 DEF Times
  <2>2. DOMAIN writes = 0 .. Rows(call) - 1  BY <1>2
  <2> HIDE DEF by
  <2>3. QED  BY <1>1, <1>6, <2>1, <2>2
<1>8. ASSUME NEW s, NEW p, IsRow(call, s, p), call.cu[s] + p \in rows
      PROVE  Taken(call, l, s) /\ RowIs(call, l, s, p, value(call.cu[s] + p))
  <2> DEFINE r == call.cu[s] + p
             a == ScratchRow(call, l, s, p)
  <2>1. by(r) = IF Taken(call, l, s) THEN {a} ELSE {}
    BY <1>3, <1>4, <1>8, ReducersOfRow
  <2>2. by(r) # {}  BY <1>8
  <2>3. Taken(call, l, s) /\ by(r) = {a}  BY <2>1, <2>2
  <2>4. a \in xs /\ ReducerRow(call, l, a) = r  BY <2>3
  <2> HIDE DEF by, a, r
  <2>5. (CHOOSE x \in by(r) : TRUE) = a  BY <2>3
  <2>6. value(r) = Combined(call, l, a)  BY <2>5
  <2> HIDE DEF value
  <2>7. RowIs(call, l, s, p, Combined(call, l, a))
    BY <1>3, <1>4, <1>5, <1>8, <2>3, <2>4, SplitRow DEF r
  <2>8. QED  BY <2>3, <2>6, <2>7 DEF r
<1>9. ASSUME NEW r \in rows, r >= RealRows(call) PROVE value(r) = Zero
  <2>1. PICK x \in xs : ReducerRow(call, l, x) = r  BY <1>9
  <2>2. CASE MixedShort(call)
    <3>1. l.mode = 2  BY <1>3, <2>2 DEF SplitOf, Launch
    <3>2. PICK t, q : IsRow(call, t, q) /\ ReducerRow(call, l, x) = call.cu[t] + q
      BY <1>3, <1>4, <3>1, CompactReducer
    <3>3. r \in 0 .. RealRows(call) - 1  BY <1>4, <2>1, <3>2, RowFacts
    <3>4. QED  BY <1>4, <1>9, <3>3
  <2>3. CASE ~ MixedShort(call)
    <3>1. l.mode = 0  BY <1>3, <2>3 DEF SplitOf, Launch
    <3>2. r = x /\ x \in 0 .. Rows(call) - 1
      BY <2>1, <3>1 DEF ReducerRow, ActiveReducers, ReducerRows
    <3>3. by(r) = {r} /\ Combined(call, l, r) = Zero
      BY <1>3, <1>4, <1>9, <2>3, <3>2, ReducersOfPad
    <3> HIDE DEF by
    <3>4. (CHOOSE z \in by(r) : TRUE) = r  BY <3>3
    <3>5. QED  BY <3>3, <3>4
  <2>4. QED  BY <2>2, <2>3
<1> HIDE DEF value
<1>10. RowsRight'
  <2> SUFFICES ASSUME NEW s, NEW p, IsRow(call, s, p), call.cu[s] + p \in DOMAIN out'
               PROVE  \E m : /\ OfCall(call, m) /\ Taken(call, m, s)
                             /\ RowIs(call, m, s, p, out'[call.cu[s] + p])
    BY <1>1 DEF RowsRight
  <2>1. CASE call.cu[s] + p \in rows
    <3>1. Taken(call, l, s) /\ RowIs(call, l, s, p, value(call.cu[s] + p))  BY <1>8, <2>1
    <3> HIDE DEF rows
    <3>2. out'[call.cu[s] + p] = value(call.cu[s] + p)  BY <1>6, <2>1
    <3>3. OfCall(call, l)  BY <1>3 DEF OfCall
    <3>4. QED  BY <3>1, <3>2, <3>3
  <2>2. CASE call.cu[s] + p \notin rows
    <3> HIDE DEF rows
    <3>1. call.cu[s] + p \in DOMAIN out /\ out'[call.cu[s] + p] = out[call.cu[s] + p]
      BY <1>6, <2>2
    <3>2. QED  BY <1>2, <3>1 DEF RowsRight
  <2>3. QED  BY <2>1, <2>2
<1>11. RowsReached'
  <2> SUFFICES ASSUME NEW r \in 0 .. RealRows(call) - 1,
                      (PlainDone(call, queue) /\ PlainTakes(call, r)) \/ SplitTakes(call, r)
               PROVE  r \in DOMAIN out'
    BY <1>1, <1>3 DEF RowsReached
  <2>1. CASE SplitTakes(call, r)
    <3>1. PICK s, p : IsRow(call, s, p) /\ r = call.cu[s] + p /\ Taken(call, l, s)
      BY <1>3, <2>1 DEF SplitTakes
    <3>2. by(r) = {ScratchRow(call, l, s, p)}  BY <1>3, <1>4, <3>1, ReducersOfRow
    <3>3. ScratchRow(call, l, s, p) \in by(r)  BY <3>2
    <3>4. r \in rows  BY <3>3
    <3> HIDE DEF rows
    <3>5. QED  BY <1>6, <3>4
  <2>2. CASE PlainDone(call, queue) /\ PlainTakes(call, r)
    <3>1. r \in DOMAIN out  BY <1>2, <2>2 DEF RowsReached
    <3> HIDE DEF rows
    <3>2. QED  BY <1>6, <3>1
  <2>3. QED  BY <2>1, <2>2
<1>12. PadsZero'
  <2> SUFFICES ASSUME NEW r \in DOMAIN out', r >= RealRows(call) PROVE out'[r] = Zero
    BY <1>1 DEF PadsZero
  <2> HIDE DEF rows
  <2>1. CASE r \in rows
    <3>1. out'[r] = value(r)  BY <1>6, <2>1
    <3>2. QED  BY <1>9, <2>1, <3>1
  <2>2. CASE r \notin rows
    <3>1. r \in DOMAIN out /\ out'[r] = out[r]  BY <1>6, <2>2
    <3>2. QED  BY <1>2, <3>1 DEF PadsZero
  <2>3. QED  BY <2>1, <2>2
<1>13. QED  BY <1>1, <1>3, <1>7, <1>10, <1>11, <1>12 DEF OnceInv

LEMMA NextOnce == IInv /\ OnceInv /\ [Next]_vars => OnceInv'
<1> SUFFICES ASSUME IInv, OnceInv, [Next]_vars PROVE OnceInv'
  OBVIOUS
<1>1. CASE UNCHANGED vars
  BY <1>1 DEF vars, OnceInv, RowsRight, RowsReached, PadsZero
<1>2. QED  BY <1>1, CallOnce, ReturnOnce, SplitOnce, PlainOnce, ReduceOnce DEF Next

\* Scratch cells and output rows have one writer each, every key a row may see is
\* used exactly once and padding rows hold zeros, for any call, any tile sizes and any
\* number of segments (kernel lines 140-152 and 212-318, launcher lines 364-433 and
\* 664-668).
THEOREM DividedOnceAlways == Spec => []DividedOnce
<1>1. IInv /\ OnceInv => WritesDisjoint
  <2> SUFFICES ASSUME IInv, OnceInv,
                      queue # <<>>, Head(queue).kind = "main", Head(queue).launch.split
               PROVE  LET l == Head(queue).launch
                          lanes == Lanes(call, l)
                      IN  Cardinality({LaneScratch(call, l, lane) : lane \in lanes})
                            = Cardinality(lanes)
    BY DEF WritesDisjoint
  <2>1. call # NoCall  BY DEF IInv
  <2>2. Stage(call, queue)  BY <2>1 DEF OnceInv
  <2>3. HasSplit(call) /\ Head(queue).launch = SplitOf(call)  BY <2>2, StageFacts
  <2>4. IsCall(call)  BY <2>1, InFlight
  <2>5. QED  BY <2>3, <2>4, ScratchOnce
<1>2. IInv /\ OnceInv => RowsOnce
  <2> SUFFICES ASSUME IInv, OnceInv, call # NoCall, queue = <<>>, NEW r \in 0 .. Rows(call) - 1
               PROVE  IF r < RealRows(call) THEN writes[r] = 1
                      ELSE /\ writes[r] <= 1 /\ (r \in DOMAIN out => out[r] = Zero)
                           /\ MixedShort(call) => writes[r] = 0
    BY DEF RowsOnce, Finished
  <2>1. /\ writes = [z \in 0 .. Rows(call) - 1 |-> WritesSoFar(call, queue, z)]
        /\ PadsZero
    BY DEF OnceInv
  <2>2. IsCall(call) /\ RealRows(call) \in Nat /\ Rows(call) \in Nat  BY InFlight
  <2>3. PlainDone(call, queue) <=> HasPlain(call)  BY DEF PlainDone, Kernels
  <2>4. SplitDone(call, queue) <=> HasSplit(call)  BY DEF SplitDone
  <2>5. writes[r] = Times(PlainTakes(call, r)) + Times(SplitTakes(call, r) \/ Cleared(call, r))
    BY <2>1, <2>3, <2>4 DEF WritesSoFar, Times, PlainTakes, SplitTakes, Cleared
  <2>6. CASE r < RealRows(call)
    <3>1. r \in 0 .. RealRows(call) - 1  BY <2>2, <2>6
    <3>2. (PlainTakes(call, r) <=> ~ SplitTakes(call, r)) /\ ~ Cleared(call, r)
      BY <2>2, <3>1, RowTaken
    <3>3. QED  BY <2>5, <2>6, <3>2 DEF Times
  <2>7. CASE ~ (r < RealRows(call))
    <3>1. r \in Nat /\ r >= RealRows(call)  BY <2>2, <2>7
    <3>2. ~ PlainTakes(call, r) /\ ~ SplitTakes(call, r)  BY <2>2, <3>1, RowTaken
    <3>3. writes[r] = 0 \/ (~ MixedShort(call) /\ writes[r] = 1)
      BY <2>5, <3>2 DEF Times, Cleared
    <3>4. r \in DOMAIN out => out[r] = Zero  BY <2>1, <3>1 DEF PadsZero
    <3>5. QED  BY <2>7, <3>3, <3>4
  <2>8. QED  BY <2>6, <2>7
<1>3. IInv /\ OnceInv => CausalPrefixOnce
  <2> SUFFICES ASSUME IInv, OnceInv, call # NoCall, queue = <<>>, NEW ip \in RealPositions
               PROVE  Covers(call, ip[1], ip[2], out[call.cu[ip[1]] + ip[2]])
    BY DEF CausalPrefixOnce, Finished, Covers
  <2> DEFINE s == ip[1]
             p == ip[2]
             r == call.cu[s] + p
  <2>1. RowsRight /\ RowsReached  BY DEF OnceInv
  <2>2. IsCall(call) /\ RealRows(call) \in Nat  BY InFlight
  <2>3. s \in 0 .. call.n - 1 /\ p \in 0 .. RealRows(call) - 1 /\ p < QLen(call, s)
    BY DEF RealPositions
  <2> HIDE DEF s, p
  <2>4. IsRow(call, s, p)
    <3>1. QLen(call, s) \in Nat  BY <2>2, <2>3, CallFacts
    <3>2. QED  BY <2>2, <2>3, <3>1 DEF IsRow
  <2>5. r \in 0 .. RealRows(call) - 1  BY <2>2, <2>4, RowFacts
  <2>6. PlainTakes(call, r) <=> ~ SplitTakes(call, r)  BY <2>2, <2>5, RowTaken
  <2>7. (PlainTakes(call, r) => PlainDone(call, queue)) /\ (SplitTakes(call, r) => SplitDone(call, queue))
    BY DEF PlainDone, SplitDone, Kernels, PlainTakes, SplitTakes
  <2>8. r \in DOMAIN out  BY <2>1, <2>5, <2>6, <2>7 DEF RowsReached
  <2>9. PICK l : OfCall(call, l) /\ Taken(call, l, s) /\ RowIs(call, l, s, p, out[r])
    BY <2>1, <2>4, <2>8 DEF RowsRight
  <2>10. Covers(call, s, p, out[r])  BY <2>2, <2>4, <2>9, RowIsCovers DEF Shaped
  <2>11. QED  BY <2>10 DEF s, p
<1>4. IInv /\ OnceInv => DividedOnce
  BY <1>1, <1>2, <1>3 DEF DividedOnce
<1>5. QED  BY <1>4, InitIInv, InitOnce, NextIInv, NextOnce, PTL DEF Spec

-----------------------------------------------------------------------------
(***************************************************************************)
(* What the overlay's attention computes of a row is what one of the two   *)
(* kernels it replaced computes: the pinned one, given the row as a decode *)
(* of its own, for the rows of short sequences, and the candidate before the*)
(* mixed launch for all others.  Both sides are brought to the same form, a*)
(* tile range for each segment of the row.                                 *)
(***************************************************************************)

-----------------------------------------------------------------------------
(* What the kernel both replaced stores for a row.                           *)

RowCells(b, l, len, r) == {d \in Cells(b, l, len) : d.row = r}
SegSums(cells, r, seg) == {c.sum : c \in {d \in cells : d.row = r /\ d.seg = seg}}
RowSums(cells, r) == {c.sum : c \in {d \in cells : d.row = r}}

\* The cell of one segment of a row whose prefix is cut at z keys.
CellOf(b, l, s, p, z, seg) ==
  [row |-> b.cu[s] + p, seg |-> seg, sum |-> SegmentTiles(b, l, s, p \div l.bq, seg, z)]
CellSegments(l, z) == {seg \in SegmentsOf(l) : l.split => SegmentRuns(seg, z)}
CellsAre(b, l, s, p, z) == {CellOf(b, l, s, p, z, seg) : seg \in CellSegments(l, z)}

LEMMA CellsOfRow ==
  ASSUME NEW b, IsCall(b), NEW l, Shaped(b, l), NEW s, NEW p, IsRow(b, s, p), Taken(b, l, s),
         NEW len, NEW z, z = len[BlockOf(b, l, s, p)]
  PROVE  RowCells(b, l, len, b.cu[s] + p) = CellsAre(b, l, s, p, z)
<1> DEFINE g == BlockOf(b, l, s, p)
           x == p \div l.bq
           r == b.cu[s] + p
           cell(seg) == [row |-> r, seg |-> seg, sum |-> SegmentTiles(b, l, s, x, seg, z)]
           runs == {i \in SegmentsOf(l) : l.split => SegmentRuns(i, z)}
<1>1. /\ <<g, p>> \in Lanes(b, l) /\ LaneOf(b, l, s, p) = <<g, p>>
      /\ BlockSeq(b, l, g) = s /\ BlockLocal(b, l, g) = x
  BY RowHasLane DEF LaneOf
<1>2. g \in Blocks(b, l) /\ BlockActive(b, l, g) /\ p \in BlockPositions(b, l, g)
  BY <1>1 DEF Lanes
<1>3. ASSUME NEW d \in Cells(b, l, len), d.row = r PROVE d \in {cell(seg) : seg \in runs}
  <2>1. PICK h \in Blocks(b, l), seg \in SegmentsOf(l) : d \in ProgramCells(b, l, h, seg, len[h])
    BY DEF Cells
  <2>2. BlockActive(b, l, h) /\ (l.split => SegmentRuns(seg, len[h]))
    BY <2>1 DEF ProgramCells
  <2>3. PICK q \in BlockPositions(b, l, h) :
          d = [row |-> b.cu[BlockSeq(b, l, h)] + q, seg |-> seg,
               sum |-> SegmentTiles(b, l, BlockSeq(b, l, h), BlockLocal(b, l, h), seg, len[h])]
    BY <2>1, <2>2 DEF ProgramCells
  <2>4. <<h, q>> \in Lanes(b, l)  BY <2>2, LaneElements
  <2>5. LaneRow(b, l, <<h, q>>) = r  BY <1>3, <2>3 DEF LaneRow
  <2>6. <<h, q>> = <<g, p>>
    <3>1. <<h, q>> \in {lane \in Lanes(b, l) : LaneRow(b, l, lane) = b.cu[s] + p}
      BY <2>4, <2>5
    <3>2. QED  BY <1>1, <3>1, LanesOfRow
  <2>7. h = g /\ q = p  BY <2>6
  <2>8. seg \in runs  BY <2>2, <2>7
  <2>9. d = cell(seg)  BY <1>1, <2>3, <2>7
  <2>10. QED  BY <2>8, <2>9
<1>4. ASSUME NEW seg \in runs PROVE cell(seg) \in Cells(b, l, len) /\ cell(seg).row = r
  <2>1. seg \in SegmentsOf(l) /\ (l.split => SegmentRuns(seg, len[g]))  OBVIOUS
  <2>2. cell(seg) \in ProgramCells(b, l, g, seg, len[g])
    BY <1>1, <1>2, <2>1 DEF ProgramCells
  <2> HIDE DEF cell
  <2>3. cell(seg) \in Cells(b, l, len)  BY <1>2, <2>1, <2>2 DEF Cells
  <2>4. QED  BY <2>3 DEF cell
<1>5. QED  BY <1>3, <1>4 DEF RowCells, CellsAre, CellOf, CellSegments

\* The sums of one segment of a row, and of a row that is not split.
SumsAre(b, l, len, s, p, z) ==
  /\ l.split => \A seg \in SegmentsOf(l) : SegmentRuns(seg, z) =>
       SegSums(Cells(b, l, len), b.cu[s] + p, seg) = {TileRange(b, l, s, p \div l.bq, seg)}
  /\ ~ l.split =>
       RowSums(Cells(b, l, len), b.cu[s] + p) = {TileRange(b, l, s, p \div l.bq, 0)}

LEMMA SumsOfRow ==
  ASSUME NEW b, IsCall(b), NEW l, Shaped(b, l), NEW s, NEW p, IsRow(b, s, p), Taken(b, l, s),
         NEW len, NEW z, z = len[BlockOf(b, l, s, p)], z = PartitionLen(b, l, s, p \div l.bq)
  PROVE  SumsAre(b, l, len, s, p, z)
<1> DEFINE x == p \div l.bq
           r == b.cu[s] + p
           cells == Cells(b, l, len)
           cell(seg) == CellOf(b, l, s, p, z, seg)
           runs == CellSegments(l, z)
<1>1. RowCells(b, l, len, b.cu[s] + p) = CellsAre(b, l, s, p, z)
  BY CellsOfRow
<1>2. {d \in cells : d.row = r} = {cell(seg) : seg \in runs}
  BY <1>1 DEF RowCells, CellsAre
<1>3. \A seg : cell(seg).seg = seg /\ cell(seg).sum = TileRange(b, l, s, x, seg)
  BY DEF CellOf, SegmentTiles, TileRange
<1> HIDE DEF cell, cells
<1>4. ASSUME l.split, NEW seg \in SegmentsOf(l), SegmentRuns(seg, z)
      PROVE  SegSums(cells, r, seg) = {TileRange(b, l, s, x, seg)}
  <2>1. seg \in runs  BY <1>4 DEF CellSegments
  <2> HIDE DEF runs, r
  <2>2. {d \in cells : d.row = r /\ d.seg = seg} = {cell(seg)}  BY <1>2, <1>3, <2>1
  <2>3. QED  BY <1>3, <2>2 DEF SegSums
<1>5. ASSUME ~ l.split
      PROVE  RowSums(cells, r) = {TileRange(b, l, s, x, 0)}
  <2>1. runs = {0}  BY <1>5 DEF SegmentsOf, CellSegments
  <2> HIDE DEF runs, r
  <2>2. {d \in cells : d.row = r} = {cell(0)}  BY <1>2, <2>1
  <2>3. QED  BY <1>3, <2>2 DEF RowSums
<1>6. QED  BY <1>4, <1>5 DEF cells, SumsAre

\* And the result of a row: RowIs, as a set of sums per segment.
ResultIs(b, l, s, p, z, res) ==
  /\ res.tile = Tile(l)
  /\ res.parts = [seg \in IF l.split THEN SegmentsRead(z) ELSE {0} |->
                    {TileRange(b, l, s, p \div l.bq, seg)}]

LEMMA ResultOfRow ==
  ASSUME NEW b, IsCall(b), NEW l, Shaped(b, l), NEW s, NEW p, IsRow(b, s, p), Taken(b, l, s),
         l.split => HasSplit(b) /\ l = SplitOf(b),
         NEW len, NEW z, z = len[BlockOf(b, l, s, p)], z = PartitionLen(b, l, s, p \div l.bq),
         ~ (l.split /\ TilesPerSegment(z) <= 0),
         NEW y, l.split => y = z
  PROVE  ResultIs(b, l, s, p, z, RowResult(l, Cells(b, l, len), b.cu[s] + p, y))
<1> DEFINE x == p \div l.bq
           cells == Cells(b, l, len)
           r == b.cu[s] + p
           res == RowResult(l, cells, r, y)
<1>0. SumsAre(b, l, len, s, p, z)  BY SumsOfRow
<1>1. /\ l.split => \A seg \in SegmentsOf(l) : SegmentRuns(seg, z) =>
           SegSums(cells, r, seg) = {TileRange(b, l, s, x, seg)}
      /\ ~ l.split => RowSums(cells, r) = {TileRange(b, l, s, x, 0)}
  BY <1>0 DEF SumsAre
<1>2. res.tile = Tile(l)  BY DEF RowResult
<1>3. CASE l.split
  <2>1. z \in Int  BY <1>3, RowLen
  <2>2. TilesPerSegment(z) > 0
    <3>1. Segs * SplitTile \in Nat \ {0}  BY PartitionAssumption
    <3>2. TilesPerSegment(z) \in Int  BY <2>1, <3>1, CeilInt DEF TilesPerSegment
    <3>3. QED  BY <1>3, <3>2
  <2>3. \A seg \in SegmentsRead(z) : seg \in SegmentsOf(l) /\ SegmentRuns(seg, z)
    BY <1>3, <2>1, <2>2, ReadSegmentsRun DEF SegmentsOf
  <2>4. res.parts = [seg \in SegmentsRead(z) |-> SegSums(cells, r, seg)]
    BY <1>3 DEF RowResult, ReducedCells, SegSums
  <2> HIDE DEF res, cells, r, x
  <2>5. \A seg \in SegmentsRead(z) : SegSums(cells, r, seg) = {TileRange(b, l, s, x, seg)}
    BY <1>1, <1>3, <2>3
  <2>6. res.parts = [seg \in SegmentsRead(z) |-> {TileRange(b, l, s, x, seg)}]
    BY <2>4, <2>5
  <2>7. QED  BY <1>2, <1>3, <2>6 DEF ResultIs, res, cells, r, x
<1>4. CASE ~ l.split
  <2>1. res.parts = [seg \in {0} |-> RowSums(cells, r)]
    BY <1>4 DEF RowResult, RowSums
  <2> HIDE DEF res, cells, r, x
  <2>2. res.parts = [seg \in {0} |-> {TileRange(b, l, s, x, seg)}]
    BY <1>1, <1>4, <2>1
  <2>3. QED  BY <1>2, <1>4, <2>2 DEF ResultIs, res, cells, r, x
<1>5. QED  BY <1>3, <1>4

-----------------------------------------------------------------------------
(* What the two kernels are compared by: the keys of each segment of a row.  *)

OwnKeys(b, s, p, res) ==
  KeysBySegment(b, s, p, res.tile, [seg \in DOMAIN res.parts |-> {res.parts[seg].range}])

\* The keys of a row that launch l answers for, as RowIs says.
RowKeys(b, l, s, p) ==
  LET x    == p \div l.bq
      len  == PartitionLen(b, l, s, x)
      segs == IF l.split THEN SegmentsRead(len) ELSE {0}
  IN  IF l.split /\ TilesPerSegment(len) <= 0
      THEN KeysBySegment(b, s, p, Zero.tile, Zero.parts)
      ELSE KeysBySegment(b, s, p, Tile(l), [seg \in segs |-> {TileRange(b, l, s, x, seg)}])

LEMMA OwnKeysAre ==
  ASSUME NEW b, NEW l, NEW s, NEW p, NEW res, RowIs(b, l, s, p, res)
  PROVE  OwnKeys(b, s, p, res) = RowKeys(b, l, s, p)
<1> DEFINE x    == p \div l.bq
           len  == PartitionLen(b, l, s, x)
           segs == IF l.split THEN SegmentsRead(len) ELSE {0}
           parts == [seg \in DOMAIN res.parts |-> {res.parts[seg].range}]
<1>1. CASE l.split /\ TilesPerSegment(len) <= 0
  <2>1. res = Zero  BY <1>1 DEF RowIs
  <2>2. res.tile = Zero.tile /\ parts = Zero.parts  BY <2>1 DEF Zero
  <2>3. OwnKeys(b, s, p, res) = KeysBySegment(b, s, p, Zero.tile, Zero.parts)
    BY <2>2 DEF OwnKeys
  <2>4. QED  BY <1>1, <2>3 DEF RowKeys
<1>2. CASE ~ (l.split /\ TilesPerSegment(len) <= 0)
  <2>1. /\ res.tile = Tile(l) /\ DOMAIN res.parts = segs
        /\ \A seg \in segs : res.parts[seg].range = TileRange(b, l, s, x, seg)
    BY <1>2 DEF RowIs
  <2>2. parts = [seg \in segs |-> {TileRange(b, l, s, x, seg)}]
    <3> HIDE DEF segs, x
    <3>1. QED  BY <2>1
  <2>3. OwnKeys(b, s, p, res)
          = KeysBySegment(b, s, p, Tile(l), [seg \in segs |-> {TileRange(b, l, s, x, seg)}])
    BY <2>1, <2>2 DEF OwnKeys
  <2>4. RowKeys(b, l, s, p)
          = KeysBySegment(b, s, p, Tile(l), [seg \in segs |-> {TileRange(b, l, s, x, seg)}])
    BY <1>2 DEF RowKeys
  <2>5. QED  BY <2>3, <2>4
<1>3. QED  BY <1>1, <1>2

-----------------------------------------------------------------------------
(* The candidate before mixed launches.                                      *)

LEMMA BaselineIs ==
  ASSUME NEW b, IsCall(b)
  PROVE  LET m == BaselineLaunch(b) IN
         /\ m = Launch(Use3D(b), 0, BlockM(b), BlockQ(b))
         /\ Shaped(b, m) /\ (m.split => HasSplit(b) /\ m = SplitOf(b))
         /\ Use3D(b) => ~ MixedShort(b)
<1> DEFINE m == BaselineLaunch(b)
<1>1. m = Launch(Use3D(b), 0, BlockM(b), BlockQ(b))
  BY DEF BaselineLaunch, BaselineBlockM, Use3D, BlockM, BlockQ
<1>2. Use3D(b) => ~ MixedShort(b)
  <2>1. b.maxq \in Nat /\ Short \in Nat  BY PartitionAssumption DEF IsCall
  <2>2. QED  BY <2>1 DEF Use3D, MixedShort
<1>3. CASE Use3D(b)
  <2>1. m = SplitOf(b) /\ HasSplit(b)
    BY <1>1, <1>2, <1>3 DEF SplitOf, HasSplit, Launch
  <2>2. QED  BY <1>1, <1>2, <2>1 DEF Shaped, OfCall
<1>4. CASE ~ Use3D(b)
  <2>0. Use3D(b) = FALSE  BY <1>4 DEF Use3D
  <2>1. m = Launch(FALSE, 0, BlockM(b), BlockQ(b))
    BY <1>1, <2>0
  <2>2. ~ m.split  BY <2>1 DEF Launch
  <2>3. QED  BY <1>1, <1>2, <2>1, <2>2 DEF Shaped
<1>5. QED  BY <1>3, <1>4

LEMMA FoundIs ==
  ASSUME NEW b, IsCall(b), NEW s, NEW p, IsRow(b, s, p)
  PROVE  FindSeq(b, 0, b.cu[s] + p) = s
<1> DEFINE r == b.cu[s] + p
           t == FindSeq(b, 0, r)
           q == r - b.cu[t]
<1>1. r \in 0 .. RealRows(b) - 1  BY RowFacts
<1>2. IsRow(b, t, q) /\ r = b.cu[t] + q  BY <1>1, FoundRow
<1> HIDE DEF t, q
<1>3. QED  BY <1>2, RowUnique DEF t

\* The row of the baseline, in the form of its own launch.
LEMMA BaselineRow ==
  ASSUME NEW b, IsCall(b), NEW s, NEW p, IsRow(b, s, p), NEW m, m = BaselineLaunch(b)
  PROVE  LET res == BaselineOut(b)[b.cu[s] + p] IN
         KeysBySegment(b, s, p, res.tile, res.parts) = RowKeys(b, m, s, p)
<1> DEFINE r   == b.cu[s] + p
           x   == p \div m.bq
           g   == BlockOf(b, m, s, p)
           len == [h \in Blocks(b, m) |-> BaselineLen(b, m, h)]
           z   == PartitionLen(b, m, s, x)
           y   == BaselineReducedLen(b, r)
           res == BaselineOut(b)[r]
           row == RowResult(m, Cells(b, m, len), r, y)
<1>1. /\ Shaped(b, m) /\ (m.split => HasSplit(b) /\ m = SplitOf(b)) /\ m.mode = 0
  BY BaselineIs DEF Launch
<1>2. Taken(b, m, s)  BY <1>1 DEF Taken
<1>3. r \in 0 .. RealRows(b) - 1 /\ b.cu[s] \in Nat /\ p \in Nat
  BY RowFacts
<1>4. g \in Blocks(b, m) /\ BlockSeq(b, m, g) = s /\ BlockLocal(b, m, g) = x
  BY <1>1, <1>2, BlockOfRow
<1>5. len[g] = z
  BY <1>4 DEF BaselineLen, PartitionLen
<1>6. m.split => y = z
  <2>1. FindSeq(b, 0, r) = s  BY FoundIs
  <2>2. y = IF m.bq = 1 THEN b.k[s] - QLen(b, s) + (r - b.cu[s]) + 1 ELSE b.k[s]
    BY <2>1 DEF BaselineReducedLen
  <2>3. r - b.cu[s] = p  BY <1>3
  <2>4. m.split => x = p  BY <1>1, RowLen
  <2>5. QED  BY <2>2, <2>3, <2>4 DEF PartitionLen
<1>7. res = IF m.split /\ TilesPerSegment(y) <= 0 THEN Zero ELSE row
  BY <1>3 DEF BaselineOut, BaselineCells
<1>8. CASE m.split /\ TilesPerSegment(z) <= 0
  <2>1. res = Zero  BY <1>6, <1>7, <1>8
  <2>2. QED  BY <1>8, <2>1 DEF RowKeys
<1>9. CASE ~ (m.split /\ TilesPerSegment(z) <= 0)
  <2>1. res = row  BY <1>6, <1>7, <1>9
  <2> HIDE DEF len, y
  <2>a. ResultIs(b, m, s, p, z, row)
    BY <1>1, <1>2, <1>5, <1>6, <1>9, ResultOfRow
  <2> HIDE DEF res
  <2>2. /\ row.tile = Tile(m)
        /\ row.parts = [seg \in IF m.split THEN SegmentsRead(z) ELSE {0} |->
                          {TileRange(b, m, s, x, seg)}]
    BY <2>a DEF ResultIs
  <2>3. KeysBySegment(b, s, p, res.tile, res.parts) = RowKeys(b, m, s, p)
    BY <1>9, <2>1, <2>2 DEF RowKeys
  <2>4. QED  BY <2>3 DEF res
<1>10. QED  BY <1>8, <1>9

\* Which is the form of the launch that takes the row in the overlay, unless that is the
\* compact one.
LEMMA BaselineSame ==
  ASSUME NEW b, IsCall(b), NEW s, NEW p, IsRow(b, s, p), ~ MixedShort(b) \/ QLen(b, s) > Short,
         NEW l, OfCall(b, l), Taken(b, l, s), NEW m, m = BaselineLaunch(b)
  PROVE  RowKeys(b, l, s, p) = RowKeys(b, m, s, p)
<1>1. m = Launch(Use3D(b), 0, BlockM(b), BlockQ(b)) /\ (Use3D(b) => ~ MixedShort(b))
  BY BaselineIs
<1>2. CASE ~ MixedShort(b)
  <2>0. \/ l = Launch(FALSE, 0, BlockM(b), BlockQ(b)) /\ ~ Use3D(b)
        \/ l = Launch(TRUE, 0, BlockM(b), BlockQ(b)) /\ Use3D(b)
    BY <1>2 DEF OfCall, HasPlain, HasSplit, PlainOf, SplitOf
  <2>1. l = m
    <3>1. Use3D(b) = TRUE \/ Use3D(b) = FALSE  BY DEF Use3D
    <3>2. QED  BY <1>1, <2>0, <3>1
  <2>2. QED  BY <2>1
<1>3. CASE MixedShort(b)
  <2>1. QLen(b, s) > Short /\ QLen(b, s) \in Nat /\ Short \in Nat
    BY <1>3, RowFacts, PartitionAssumption
  <2>2. l = PlainOf(b)
    <3>1. SplitOf(b).mode = 2  BY <1>3 DEF SplitOf, Launch
    <3>2. l # SplitOf(b)  BY <2>1, <3>1 DEF Taken
    <3>3. QED  BY <3>2 DEF OfCall
  <2>3. l.split = FALSE /\ l.bm = BlockM(b) /\ l.bq = BlockQ(b)
    BY <2>2 DEF PlainOf, Launch
  <2>4. m.split = FALSE /\ m.bm = BlockM(b) /\ m.bq = BlockQ(b)
    BY <1>1, <1>3 DEF Launch
  <2>5. Tile(l) = Tile(m)  BY <2>3, <2>4 DEF Tile
  <2>6. \A x, seg : TileRange(b, l, s, x, seg) = TileRange(b, m, s, x, seg)
    <3>1. \A x : FirstTile(b, l, s, x) = FirstTile(b, m, s, x)
      BY <2>3, <2>4, <2>5 DEF FirstTile
    <3>2. \A x : PrefixLen(b, l, s, x) = PrefixLen(b, m, s, x)
      BY <2>3, <2>4 DEF PrefixLen
    <3>3. \A x : EndTile(b, l, s, x) = EndTile(b, m, s, x)
      BY <2>3, <2>4, <2>5, <3>2 DEF EndTile
    <3>4. QED  BY <2>3, <2>4, <3>1, <3>3 DEF TileRange
  <2>7. [seg \in {0} |-> {TileRange(b, l, s, p \div l.bq, seg)}]
          = [seg \in {0} |-> {TileRange(b, m, s, p \div m.bq, seg)}]
    BY <2>3, <2>4, <2>6
  <2>8. QED  BY <2>3, <2>4, <2>5, <2>7 DEF RowKeys
<1>4. QED  BY <1>2, <1>3

-----------------------------------------------------------------------------
(* The pinned kernel, given a row as a decode of its own.                    *)

\* Where a call has room for the split path, its short rows take it.
LEMMA ShortRowSplits ==
  ASSUME NEW b, IsCall(b), Fits(b), NEW s, NEW p, IsRow(b, s, p), QLen(b, s) <= Short,
         NEW l, OfCall(b, l), Taken(b, l, s)
  PROVE  HasSplit(b) /\ l = SplitOf(b)
<1>1. /\ b.maxq \in Nat /\ b.n \in Nat \ {0} /\ Short \in Nat \ {0} /\ Threshold \in Nat
      /\ Capacity \in Nat /\ QLen(b, s) \in Nat /\ s \in 0 .. b.n - 1
  BY RowFacts, PartitionAssumption DEF IsCall, IsRow
<1>2. b.n <= b.n * Short /\ b.n * Short \in Nat
  <2>1. 1 * b.n <= Short * b.n  BY <1>1, MulMonotone
  <2>2. 1 * b.n = b.n /\ Short * b.n = b.n * Short /\ b.n * Short \in Nat  BY <1>1
  <2>3. QED  BY <2>1, <2>2
<1>3. CASE b.maxq <= Short
  <2>1. b.n <= Threshold  BY <1>1, <1>2 DEF Fits
  <2>2. b.maxq > 1 => b.mimo  BY DEF Fits
  <2>3. Use3D(b)  BY <1>3, <2>1, <2>2 DEF Fits, Use3D
  <2>4. ~ MixedShort(b)  BY <1>1, <1>3 DEF MixedShort
  <2>5. QED  BY <2>3, <2>4 DEF OfCall, HasPlain, HasSplit
<1>4. CASE ~ (b.maxq <= Short)
  <2>1. b.maxq > Short /\ b.maxq # 1  BY <1>1, <1>4
  <2>2. b.n > 1
    <3>1. CASE b.n = 1
      <4>1. s = 0  BY <1>1, <3>1
      <4>2. ~ (QLen(b, 0) > Short)  BY <1>1, <4>1
      <4>3. QED  BY <2>1, <4>2 DEF Fits
    <3>2. CASE b.n # 1  BY <1>1, <3>2
    <3>3. QED  BY <3>1, <3>2
  <2>3. MixedShort(b)  BY <2>1, <2>2 DEF Fits, MixedShort
  <2>4. l # PlainOf(b)
    <3>1. PlainOf(b).mode = 1  BY <2>3 DEF PlainOf, Launch
    <3>2. QED  BY <1>1, <3>1 DEF Taken
  <2>5. QED  BY <2>4 DEF OfCall
<1>5. QED  BY <1>3, <1>4

\* The decode of one row is a call of one row, which the pinned kernel splits.
LEMMA AloneFacts ==
  ASSUME NEW b, IsCall(b), Fits(b), NEW s, NEW p, IsRow(b, s, p), Context(b, s) + p >= 0,
         NEW a, a = OneRow(b, s, p)
  PROVE  /\ IsCall(a) /\ IsRow(a, 0, 0) /\ RealRows(a) = 1 /\ a.cu[0] = 0
         /\ a.k[0] = Context(b, s) + p + 1 /\ Context(a, 0) = Context(b, s) + p
         /\ Context(b, s) + p \in Nat /\ a.window = b.window
         /\ HasSplit(a) /\ PinnedLaunch(a) = SplitOf(a)
<1> DEFINE len == Context(b, s) + p + 1
<1>1. /\ Context(b, s) + p \in Nat /\ len \in Nat
  <2>1. Context(b, s) \in Int /\ p \in Nat  BY RowFacts DEF Context
  <2>2. QED  BY <2>1
<1>2. /\ Short \in Nat \ {0} /\ Threshold \in Nat /\ Capacity \in Nat /\ LongPrefill \in Nat
      /\ Short < LongPrefill /\ b.n \in Nat \ {0}
  BY PartitionAssumption DEF IsCall
<1>3. 1 <= Threshold /\ 1 <= Capacity
  <2>1. 1 <= b.n * Short /\ b.n * Short \in Int
    <3>1. 1 * Short <= b.n * Short /\ b.n * Short \in Int  BY <1>2, MulMonotone
    <3>2. 1 * Short = Short  BY <1>2
    <3>3. QED  BY <1>2, <3>1, <3>2
  <2>2. QED  BY <1>2, <2>1 DEF Fits
<1> HIDE DEF len
<1>4. /\ a.n = 1 /\ a.cu = [j \in 0 .. 1 |-> j] /\ a.k = [j \in {0} |-> len] /\ a.pad = 0
      /\ a.maxq = 1 /\ a.qpk = b.qpk /\ a.window = b.window /\ a.mimo = b.mimo
      /\ a.buffers = b.buffers
  BY DEF OneRow, len
<1>5. /\ a.cu[0] = 0 /\ a.cu[1] = 1 /\ a.k[0] = len  BY <1>4
<1>6. QLen(a, 0) = 1  BY <1>5 DEF QLen
<1>7. RealRows(a) = 1 /\ Rows(a) = 1  BY <1>4, <1>5 DEF RealRows, Rows
<1>8. IsCall(a)
  <2>1. a.n \in Nat \ {0} /\ 0 .. a.n - 1 = {0} /\ 0 .. a.n = 0 .. 1  BY <1>4
  <2>2. a.cu \in [0 .. a.n -> Nat]  BY <1>4, <2>1
  <2>3. \A i, j \in 0 .. a.n : i <= j => a.cu[i] <= a.cu[j]  BY <1>4, <2>1
  <2>4. a.k \in [0 .. a.n - 1 -> Nat]  BY <1>1, <1>4, <2>1
  <2>5. a.maxq \in Nat /\ \A i \in 0 .. a.n - 1 : QLen(a, i) <= a.maxq
    BY <1>4, <1>6, <2>1
  <2>6. /\ b.window \in Nat /\ b.qpk \in 1 .. RowsM /\ RowsM % b.qpk = 0 /\ b.mimo \in BOOLEAN
        /\ b.buffers \in BOOLEAN /\ (b.mimo => b.qpk = RowsM)
    BY DEF IsCall
  <2>7. a.pad \in Nat  BY <1>4
  <2>8. QED  BY <1>4, <1>5, <2>1, <2>2, <2>3, <2>4, <2>5, <2>6, <2>7 DEF IsCall
<1>9. IsRow(a, 0, 0)  BY <1>4, <1>6 DEF IsRow
<1>10. Context(a, 0) = Context(b, s) + p
  BY <1>1, <1>5, <1>6 DEF Context, len
<1>11. Use3D(a) /\ ~ MixedShort(a)
  BY <1>2, <1>3, <1>4, <1>7 DEF Use3D, MixedShort, Fits
<1>12. PinnedLaunch(a) = Launch(TRUE, 0, RowsM, RowsM \div a.qpk)
  <2>1. b.buffers = TRUE  BY DEF Fits, IsCall
  <2>2. (a.buffers /\ a.maxq <= 1 /\ a.n <= Threshold) = TRUE  BY <1>2, <1>3, <1>4, <2>1
  <2>3. QED  BY <2>2 DEF PinnedLaunch
<1>13. SplitOf(a) = Launch(TRUE, 0, RowsM, RowsM \div a.qpk)
  <2>1. ~ (a.maxq >= LongPrefill)  BY <1>2, <1>4
  <2>2. BlockM(a) = RowsM  BY <2>1 DEF BlockM
  <2>3. QED  BY <1>11, <2>2 DEF SplitOf, BlockQ
<1>14. QED
  BY <1>1, <1>4, <1>5, <1>7, <1>8, <1>9, <1>10, <1>11, <1>12, <1>13 DEF HasSplit, len

\* One or more keys make one or more tiles per segment.
LEMMA SomeTiles ==
  ASSUME NEW len \in Nat, len > 0
  PROVE  TilesPerSegment(len) \in Nat \ {0}
<1>1. Segs * SplitTile \in Nat \ {0}  BY PartitionAssumption
<1>2. TilesPerSegment(len) \in Int  BY <1>1, CeilInt DEF TilesPerSegment
<1>3. 0 * (Segs * SplitTile) < len <=> 0 < TilesPerSegment(len)
  BY <1>1, CeilBelow DEF TilesPerSegment
<1>4. 0 * (Segs * SplitTile) = 0  BY <1>1
<1>5. QED  BY <1>2, <1>3, <1>4

\* Its result, in the form of that launch.
LEMMA PinnedRow ==
  ASSUME NEW a, IsCall(a), IsRow(a, 0, 0), RealRows(a) = 1, a.cu[0] = 0, a.k[0] \in Nat,
         a.k[0] > 0, Context(a, 0) + 1 = a.k[0], HasSplit(a), NEW m, m = PinnedLaunch(a),
         m = SplitOf(a)
  PROVE  LET res == PinnedOut(a)[0] IN
         KeysBySegment(a, 0, 0, res.tile, res.parts) = RowKeys(a, m, 0, 0)
<1> DEFINE x   == 0 \div m.bq
           g   == BlockOf(a, m, 0, 0)
           len == [h \in Blocks(a, m) |-> PinnedLen(a, m, h)]
           z   == PartitionLen(a, m, 0, x)
           y   == PinnedReducedLen(a, 0)
           row == RowResult(m, Cells(a, m, len), 0, y)
<1>1. Shaped(a, m) /\ m.split  BY DEF Shaped, OfCall, SplitOf, Launch
<1>2. Taken(a, m, 0)
  <2>1. QLen(a, 0) = 1
    <3>1. a.k[0] - QLen(a, 0) + 1 = a.k[0] /\ QLen(a, 0) \in Nat  BY RowFacts DEF Context
    <3>2. QED  BY <3>1
  <2>2. m.mode # 1 /\ Short \in Nat \ {0}
    BY PartitionAssumption DEF SplitOf, Launch
  <2>3. QED  BY <2>1, <2>2 DEF Taken
<1>3. g \in Blocks(a, m) /\ BlockSeq(a, m, g) = 0  BY <1>1, <1>2, BlockOfRow
<1>4. z = a.k[0]
  <2>1. z = Context(a, 0) + 0 + 1  BY RowLen
  <2>2. Context(a, 0) \in Int  BY RowFacts DEF Context
  <2>3. QED  BY <2>1, <2>2
<1>5. len[g] = z  BY <1>3, <1>4 DEF PinnedLen
<1>6. y = z
  <2>1. FindSeq(a, 0, a.cu[0] + 0) = 0  BY FoundIs
  <2>2. a.cu[0] + 0 = 0  OBVIOUS
  <2>3. QED  BY <1>4, <2>1, <2>2 DEF PinnedReducedLen
<1>7. PinnedOut(a)[0] = row
  <2>1. 0 \in 0 .. RealRows(a) - 1  OBVIOUS
  <2>2. QED  BY <2>1 DEF PinnedOut, PinnedCells
<1>8. ~ (TilesPerSegment(z) <= 0)
  <2>1. TilesPerSegment(z) \in Nat \ {0}  BY <1>4, SomeTiles
  <2>2. QED  BY <2>1
<1> HIDE DEF len, y
<1>9. ResultIs(a, m, 0, 0, z, row)
  <2>1. a.cu[0] + 0 = 0  OBVIOUS
  <2>2. ResultIs(a, m, 0, 0, z, RowResult(m, Cells(a, m, len), a.cu[0] + 0, y))
    BY <1>1, <1>2, <1>5, <1>6, <1>8, ResultOfRow
  <2>3. QED  BY <2>1, <2>2
<1> HIDE DEF row
<1>10. /\ row.tile = Tile(m)
       /\ row.parts = [seg \in SegmentsRead(z) |-> {TileRange(a, m, 0, x, seg)}]
  BY <1>1, <1>9 DEF ResultIs
<1>11. QED  BY <1>1, <1>7, <1>8, <1>10 DEF RowKeys

-----------------------------------------------------------------------------
(* The same keys under the same segments.                                    *)

\* A row on its own sees the keys it sees in its call.
LEMMA SameVisible ==
  ASSUME NEW b, IsCall(b), NEW s, NEW p, IsRow(b, s, p), NEW a, IsCall(a), IsRow(a, 0, 0),
         a.window = b.window, a.k[0] = Context(b, s) + p + 1,
         Context(a, 0) = Context(b, s) + p, Context(b, s) + p \in Nat
  PROVE  VisibleKeys(a, 0, 0) = VisibleKeys(b, s, p)
<1> DEFINE last == Context(b, s) + p
<1>1. /\ p \in Nat /\ QLen(b, s) \in Nat /\ p < QLen(b, s) /\ b.k[s] \in Nat
      /\ Context(b, s) \in Int
  BY RowFacts DEF Context
<1>2. last < b.k[s]  BY <1>1 DEF Context
<1>3. Context(a, 0) + 0 = last /\ a.k[0] = last + 1 /\ last \in Nat  OBVIOUS
<1> HIDE DEF last
<1>4. VisibleKeys(a, 0, 0)
        = {key \in 0 .. (last + 1) - 1 : key <= last /\ (b.window > 0 => last - key < b.window)}
  BY <1>3 DEF VisibleKeys
<1>5. VisibleKeys(b, s, p)
        = {key \in 0 .. b.k[s] - 1 : key <= last /\ (b.window > 0 => last - key < b.window)}
  BY DEF VisibleKeys, last
<1>6. \A key : key \in 0 .. (last + 1) - 1 /\ key <= last <=> key \in 0 .. b.k[s] - 1 /\ key <= last
  BY <1>1, <1>2, <1>3
<1>7. QED  BY <1>4, <1>5, <1>6

\* The keys of a split row, as a function of its prefix alone.
SegmentCut(visible, len) ==
  [tile |-> SplitTile,
   keys |-> [seg \in SegmentsRead(len) |->
               {key \in visible : /\ seg * TilesPerSegment(len) <= key \div SplitTile
                                  /\ key \div SplitTile < (seg + 1) * TilesPerSegment(len)}]]

LEMMA SplitRowKeys ==
  ASSUME NEW b, IsCall(b), HasSplit(b), NEW l, l = SplitOf(b), NEW s, NEW p, IsRow(b, s, p),
         NEW len, len = Context(b, s) + p + 1, len \in Nat, len > 0
  PROVE  RowKeys(b, l, s, p) = SegmentCut(VisibleKeys(b, s, p), len)
<1> DEFINE x   == p \div l.bq
           tps == TilesPerSegment(len)
           V   == VisibleKeys(b, s, p)
           range(seg) == TileRange(b, l, s, x, seg)
           parts == [seg \in SegmentsRead(len) |-> {range(seg)}]
           cut(seg) == {key \in V : /\ seg * tps <= key \div SplitTile
                                    /\ key \div SplitTile < (seg + 1) * tps}
<1>1. l.split /\ Tile(l) = SplitTile  BY DEF SplitOf, Launch, Tile
<1>2. len = PartitionLen(b, l, s, x)  BY RowLen
<1>3. tps \in Nat \ {0}  BY SomeTiles
<1>4. ~ (TilesPerSegment(len) <= 0)  BY <1>3
<1>5. RowKeys(b, l, s, p) = KeysBySegment(b, s, p, SplitTile, parts)
  <2> HIDE DEF tps
  <2>1. QED  BY <1>1, <1>2, <1>4 DEF RowKeys
<1>6. \A seg \in SegmentsRead(len) : seg \in Int
  <2>1. tps * SplitTile \in Nat \ {0} /\ Segs \in Nat  BY <1>3, PartitionAssumption
  <2>2. CeilDiv(len, tps * SplitTile) \in Int  BY <2>1, CeilInt
  <2>3. QED  BY <2>1, <2>2 DEF SegmentsRead, Lesser
<1>7. ASSUME NEW seg \in SegmentsRead(len)
      PROVE  KeysIn(b, s, p, SplitTile, range(seg)) = cut(seg)
  <2>1. KeysIn(b, s, p, SplitTile, range(seg)) \subseteq V  BY DEF KeysIn
  <2>2. \A key \in V : key \in KeysIn(b, s, p, SplitTile, range(seg)) <=> key \in cut(seg)
    <3> SUFFICES ASSUME NEW key \in V
                 PROVE  key \in KeysIn(b, s, p, SplitTile, range(seg)) <=> key \in cut(seg)
      OBVIOUS
    <3>1. seg \in Int /\ tps \in Nat /\ x = p \div l.bq  BY <1>3, <1>6
    <3>2. tps = TilesPerSegment(len)  OBVIOUS
    <3> HIDE DEF tps, x
    <3>3. key \in KeysIn(b, s, p, SplitTile, range(seg)) <=>
            seg * tps <= key \div SplitTile /\ key \div SplitTile < (seg + 1) * tps
      BY <1>2, <3>1, <3>2, SegmentKeys
    <3>4. QED  BY <3>3
  <2>3. cut(seg) \subseteq V  OBVIOUS
  <2> HIDE DEF cut, range, V
  <2>4. QED  BY <2>1, <2>2, <2>3
<1> DEFINE used(seg) == UNION {KeysIn(b, s, p, SplitTile, r) : r \in parts[seg]}
<1>8. ASSUME NEW seg \in SegmentsRead(len) PROVE used(seg) = cut(seg)
  <2>1. parts[seg] = {range(seg)}  OBVIOUS
  <2> HIDE DEF parts, range, cut
  <2>2. used(seg) = KeysIn(b, s, p, SplitTile, range(seg))  BY <2>1
  <2>3. QED  BY <1>7, <2>2
<1>9. [seg \in SegmentsRead(len) |-> used(seg)] = [seg \in SegmentsRead(len) |-> cut(seg)]
  <2> HIDE DEF used, cut
  <2>1. QED  BY <1>8
<1>10. DOMAIN parts = SegmentsRead(len)  OBVIOUS
<1>11. KeysBySegment(b, s, p, SplitTile, parts)
         = [tile |-> SplitTile, keys |-> [seg \in SegmentsRead(len) |-> used(seg)]]
  BY <1>10 DEF KeysBySegment
<1>12. SegmentCut(V, len) = [tile |-> SplitTile, keys |-> [seg \in SegmentsRead(len) |-> cut(seg)]]
  BY DEF SegmentCut
<1> HIDE DEF used, cut, parts
<1>13. QED  BY <1>5, <1>9, <1>11, <1>12

-----------------------------------------------------------------------------
(* The theorems.                                                             *)

\* When a call is over, each of its rows is what its launch makes of it.
LEMMA FinishedRow ==
  ASSUME IInv, OnceInv, Finished, NEW ip \in RealPositions
  PROVE  /\ IsCall(call) /\ IsRow(call, ip[1], ip[2])
         /\ \E l : /\ OfCall(call, l) /\ Taken(call, l, ip[1])
                   /\ Done(ip[1], ip[2]) = RowKeys(call, l, ip[1], ip[2])
<1> DEFINE s == ip[1]
           p == ip[2]
           r == call.cu[s] + p
<1>1. RowsRight /\ RowsReached /\ queue = <<>>  BY DEF OnceInv, Finished
<1>2. IsCall(call) /\ RealRows(call) \in Nat  BY InFlight DEF Finished
<1>3. s \in 0 .. call.n - 1 /\ p \in 0 .. RealRows(call) - 1 /\ p < QLen(call, s)
  BY DEF RealPositions
<1> HIDE DEF s, p
<1>4. IsRow(call, s, p)
  <2>1. QLen(call, s) \in Nat  BY <1>2, <1>3, CallFacts
  <2>2. QED  BY <1>2, <1>3, <2>1 DEF IsRow
<1>5. r \in 0 .. RealRows(call) - 1  BY <1>2, <1>4, RowFacts
<1>6. PlainTakes(call, r) <=> ~ SplitTakes(call, r)  BY <1>2, <1>5, RowTaken
<1>7. (PlainTakes(call, r) => PlainDone(call, queue)) /\ (SplitTakes(call, r) => SplitDone(call, queue))
  BY <1>1 DEF PlainDone, SplitDone, Kernels, PlainTakes, SplitTakes
<1>8. r \in DOMAIN out  BY <1>1, <1>5, <1>6, <1>7 DEF RowsReached
<1>9. PICK l : OfCall(call, l) /\ Taken(call, l, s) /\ RowIs(call, l, s, p, out[r])
  BY <1>1, <1>4, <1>8 DEF RowsRight
<1>10. OwnKeys(call, s, p, out[r]) = RowKeys(call, l, s, p)  BY <1>9, OwnKeysAre
<1>11. Done(s, p) = OwnKeys(call, s, p, out[r])  BY DEF Done, OwnKeys
<1>12. QED  BY <1>2, <1>4, <1>9, <1>10, <1>11 DEF s, p

\* A row of a short sequence, in any call with room for the split path and beside any
\* other sequences, is what the pinned kernel computes in a decode of that row (drafts
\* and mixed prefill, lines 141-142 and 538-540).
THEOREM ShortRowsSequentialAlways == Spec => []ShortRowsSequential
<1>1. IInv /\ OnceInv => ShortRowsSequential
  <2> SUFFICES ASSUME IInv, OnceInv, Finished, Fits(call), NEW ip \in RealPositions,
                      QLen(call, ip[1]) <= Short, Context(call, ip[1]) + ip[2] >= 0
               PROVE  LET alone == OneRow(call, ip[1], ip[2])
                          res   == PinnedOut(alone)[0]
                      IN  Done(ip[1], ip[2]) = KeysBySegment(alone, 0, 0, res.tile, res.parts)
    BY DEF ShortRowsSequential
  <2> DEFINE s == ip[1]
             p == ip[2]
             a == OneRow(call, s, p)
             m == PinnedLaunch(a)
             res == PinnedOut(a)[0]
             len == Context(call, s) + p + 1
  <2>1. IsCall(call) /\ IsRow(call, s, p)  BY FinishedRow
  <2>2. PICK l : /\ OfCall(call, l) /\ Taken(call, l, s)
                 /\ Done(s, p) = RowKeys(call, l, s, p)
    BY FinishedRow
  <2>3. QLen(call, s) <= Short /\ Context(call, s) + p >= 0  OBVIOUS
  <2> HIDE DEF s, p
  <2>4. HasSplit(call) /\ l = SplitOf(call)  BY <2>1, <2>2, <2>3, ShortRowSplits
  <2>5. /\ IsCall(a) /\ IsRow(a, 0, 0) /\ RealRows(a) = 1 /\ a.cu[0] = 0
        /\ a.k[0] = Context(call, s) + p + 1 /\ Context(a, 0) = Context(call, s) + p
        /\ Context(call, s) + p \in Nat /\ a.window = call.window
        /\ HasSplit(a) /\ PinnedLaunch(a) = SplitOf(a)
    BY <2>1, <2>3, AloneFacts
  <2> HIDE DEF a, res, m
  <2>6. len \in Nat /\ len > 0  BY <2>5
  <2>7. RowKeys(call, l, s, p) = SegmentCut(VisibleKeys(call, s, p), len)
    BY <2>1, <2>4, <2>6, SplitRowKeys
  <2>8. m = SplitOf(a)  BY <2>5 DEF m
  <2>9. KeysBySegment(a, 0, 0, res.tile, res.parts) = RowKeys(a, m, 0, 0)
    <3>1. a.k[0] \in Nat /\ a.k[0] > 0 /\ Context(a, 0) + 1 = a.k[0]  BY <2>5
    <3>2. QED  BY <2>5, <2>8, <3>1, PinnedRow DEF res, m
  <2>10. RowKeys(a, m, 0, 0) = SegmentCut(VisibleKeys(a, 0, 0), len)
    <3>1. len = Context(a, 0) + 0 + 1  BY <2>5
    <3> HIDE DEF len
    <3>2. QED  BY <2>5, <2>6, <2>8, <3>1, SplitRowKeys
  <2>11. VisibleKeys(a, 0, 0) = VisibleKeys(call, s, p)  BY <2>1, <2>5, SameVisible
  <2>12. Done(s, p) = KeysBySegment(a, 0, 0, res.tile, res.parts)
    BY <2>2, <2>7, <2>9, <2>10, <2>11
  <2>13. QED  BY <2>12 DEF s, p, a, res
<1>2. QED  BY <1>1, InitIInv, InitOnce, NextIInv, NextOnce, PTL DEF Spec

\* All other rows are what the candidate before the mixed launch computed, so that
\* launch changes nothing for long sequences or for calls it does not take.
THEOREM LongRowsAsBaselineAlways == Spec => []LongRowsAsBaseline
<1>1. IInv /\ OnceInv => LongRowsAsBaseline
  <2> SUFFICES ASSUME IInv, OnceInv, Finished, NEW ip \in RealPositions,
                      ~ MixedShort(call) \/ QLen(call, ip[1]) > Short
               PROVE  LET res == BaselineOut(call)[call.cu[ip[1]] + ip[2]]
                      IN  Done(ip[1], ip[2]) = KeysBySegment(call, ip[1], ip[2], res.tile, res.parts)
    BY DEF LongRowsAsBaseline
  <2> DEFINE s == ip[1]
             p == ip[2]
             m == BaselineLaunch(call)
             res == BaselineOut(call)[call.cu[s] + p]
  <2>1. IsCall(call) /\ IsRow(call, s, p)  BY FinishedRow
  <2>2. PICK l : /\ OfCall(call, l) /\ Taken(call, l, s)
                 /\ Done(s, p) = RowKeys(call, l, s, p)
    BY FinishedRow
  <2>3. ~ MixedShort(call) \/ QLen(call, s) > Short  OBVIOUS
  <2> HIDE DEF s, p
  <2>4. RowKeys(call, l, s, p) = RowKeys(call, m, s, p)
    BY <2>1, <2>2, <2>3, BaselineSame
  <2>5. KeysBySegment(call, s, p, res.tile, res.parts) = RowKeys(call, m, s, p)
    BY <2>1, BaselineRow
  <2>6. QED  BY <2>2, <2>4, <2>5 DEF s, p
<1>2. QED  BY <1>1, InitIInv, InitOnce, NextIInv, NextOnce, PTL DEF Spec
=============================================================================
