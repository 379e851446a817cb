---------------------------- MODULE LayerProofs ----------------------------
(***************************************************************************)
(* The dense product of the router and of attention's output, and the model *)
(* it is a part of: for any shape, blocks, programs and batches, and for    *)
(* any geometry, checkpoint, number of ranks, stages and layers.            *)
(*                                                                         *)
(* The product.  ComputePid maps the tiles one to one onto the blocks of    *)
(* the output, also in a short last group, where t % size runs through the  *)
(* rows rotated.  And a program's two counters name the same tile whenever  *)
(* it stores, so an element is stored exactly when the program its tile     *)
(* belongs to has gone past that tile.                                      *)
(*                                                                         *)
(* The projections.  The rows of a rank are cut out of the checkpoint's     *)
(* chunks, which are its heads in order, so the row that lands at i is      *)
(* computed from i alone (QRowIs, KRowIs, VRowIs); its scale is the one of  *)
(* its block in the checkpoint (ScaleIs).  While the tensors arrive, a      *)
(* layer holds both parts of a projection or neither, and half a pair waits *)
(* in the entry of its own layer (LoadInv).  A part of a parameter is there  *)
(* exactly when the tensor it is made of has come, and for every tensor one *)
(* loader takes it to the parts it makes (Arrives, Fits); so at the end     *)
(* nothing is missing that the checkpoint held (OrderInv).                  *)
(*                                                                         *)
(* The stages.  Between two layers, hidden and residual together are the    *)
(* sum of all sublayers before, on whichever stage they are (PassInv).      *)
(***************************************************************************)
EXTENDS BatchInvariant, MimoModel, DataLemmas, SequenceTheorems

-----------------------------------------------------------------------------
(* Rounding up. *)

LEMMA CDivBounds ==
  ASSUME NEW a \in Nat \ {0}, NEW b \in Nat \ {0}
  PROVE  /\ CDiv(a, b) \in Nat \ {0}
         /\ \A x \in 0 .. a - 1 :
              /\ x \div b \in 0 .. CDiv(a, b) - 1 /\ x % b \in 0 .. b - 1
              /\ x = b * (x \div b) + (x % b)
<1>1. PICK n \in Nat : n = a + b - 1  OBVIOUS
<1>2. PICK c \in Nat : c = n \div b  BY <1>1, DivMod
<1>3. n = b * c + (n % b) /\ n % b \in 0 .. b - 1 /\ b * c \in Nat
  BY <1>1, <1>2, DivMod
<1>4. a <= b * c  BY <1>1, <1>3
<1>5. c # 0  BY <1>4
<1>6. ASSUME NEW x \in 0 .. a - 1
      PROVE  /\ x \div b \in 0 .. c - 1 /\ x % b \in 0 .. b - 1
             /\ x = b * (x \div b) + (x % b)
  <2>1. PICK q \in Nat : q = x \div b  BY DivMod
  <2>2. x = b * q + (x % b) /\ x % b \in 0 .. b - 1 /\ b * q \in Nat
    BY <2>1, DivMod
  <2>3. b * q < b * c  BY <1>3, <1>4, <2>2
  <2>4. q < c  BY <2>1, <2>3, MulMonotone
  <2>5. QED  BY <2>1, <2>2, <2>4
<1>7. CDiv(a, b) = c  BY <1>1, <1>2 DEF CDiv
<1>8. QED  BY <1>5, <1>6, <1>7

-----------------------------------------------------------------------------
(* The tiles. *)

\* ComputePid, of P blocks of rows and Q of columns.
Pid(P, Q, t) ==
    LET inGroup == GroupSizeM * Q
        first   == (t \div inGroup) * GroupSizeM
        size    == AtMost(P - first, GroupSizeM)
    IN  <<first + (t % size), (t % inGroup) \div size>>

\* Tile t is tile r of group g, whose rows begin at f and are s.
InGroup(P, Q, t, g, r, f, s) ==
    /\ g \in Nat /\ r \in Nat /\ f \in Nat /\ s \in Nat \ {0}
    /\ f = g * GroupSizeM /\ f < P
    /\ s <= GroupSizeM /\ f + s <= P /\ (s < GroupSizeM => f + s = P)
    /\ t = (GroupSizeM * Q) * g + r /\ r < s * Q
    /\ Pid(P, Q, t) = <<f + (t % s), r \div s>>

LEMMA GroupOf ==
  ASSUME NEW P \in Nat \ {0}, NEW Q \in Nat \ {0}, NEW t \in 0 .. P * Q - 1
  PROVE  \E g, r, f, s : InGroup(P, Q, t, g, r, f, s)
<1> DEFINE S == GroupSizeM
<1>0. S \in Nat \ {0}  BY DenseAssumption
<1>1. PICK i \in Nat \ {0} : i = S * Q  BY <1>0
<1>0a. t \in Nat /\ t < P * Q /\ P * Q \in Nat  OBVIOUS
<1>2. PICK g \in Nat, r \in 0 .. i - 1 :
        t \div i = g /\ t % i = r /\ t = i * g + r /\ i * g \in Nat
  BY <1>0a, <1>1, Divide
<1>3. r \in Nat /\ r < i  BY <1>1, <1>2
<1>4. t = i * g + r /\ i * g \in Nat  BY <1>2
<1>5. PICK f \in Nat : f = g * S  BY <1>0
<1>6. i * g = Q * f  BY <1>0, <1>1, <1>5
<1>7. f < P
  <2>1. Q * f < Q * P  BY <1>0a, <1>4, <1>6
  <2>2. QED  BY <2>1, <1>5, MulMonotone
<1>8a. PICK e \in Nat \ {0} : e = P - f  BY <1>5, <1>7
<1>8. PICK s \in Nat \ {0} : s = AtMost(P - f, S)
  BY <1>0, <1>8a DEF AtMost
<1>9. s <= S /\ f + s <= P /\ (s < S => f + s = P)
  BY <1>0, <1>5, <1>7, <1>8 DEF AtMost
<1>10. r < s * Q
  <2>1. CASE s = S  BY <2>1, <1>1, <1>3
  <2>2. CASE s # S
    <3>1. P = f + s  BY <2>2, <1>0, <1>9
    <3>2. P * Q = Q * f + s * Q  BY <3>1, <1>5, <1>8
    <3>3. s * Q \in Nat /\ Q * f \in Nat  BY <1>5, <1>8
    <3>4. QED  BY <1>0a, <1>4, <1>6, <3>2, <3>3
  <2>3. QED  BY <2>1, <2>2
<1>11. Pid(P, Q, t) = <<f + (t % s), r \div s>>
  BY <1>1, <1>2, <1>3, <1>5, <1>8 DEF Pid
<1>12. t = (S * Q) * g + r  BY <1>1, <1>4
<1>13. InGroup(P, Q, t, g, r, f, s)
  BY <1>2, <1>3, <1>5, <1>7, <1>8, <1>9, <1>10, <1>11, <1>12 DEF InGroup
<1>14. QED  BY <1>13

\* What a tile's place says of it.
LEMMA PlaceOf ==
  ASSUME NEW P \in Nat \ {0}, NEW Q \in Nat \ {0}, NEW t \in Nat,
         NEW g, NEW r, NEW f, NEW s, InGroup(P, Q, t, g, r, f, s)
  PROVE  /\ Pid(P, Q, t) \in (0 .. P - 1) \X (0 .. Q - 1)
         /\ Pid(P, Q, t)[1] \div GroupSizeM = g
         /\ t % s \in 0 .. s - 1
<1>0. /\ g \in Nat /\ r \in Nat /\ f \in Nat /\ s \in Nat \ {0}
      /\ f = g * GroupSizeM /\ s <= GroupSizeM /\ f + s <= P /\ r < s * Q
      /\ Pid(P, Q, t) = <<f + (t % s), r \div s>>
  BY DEF InGroup
<1>1. GroupSizeM \in Nat \ {0}  BY DenseAssumption
<1>2. PICK w \in 0 .. s - 1 : w = t % s  BY <1>0, DivMod
<1>3. PICK c \in Nat : c = r \div s  BY <1>0, DivMod
<1>4. c < Q
  <2>1. s * c <= r /\ s * c \in Nat /\ s * Q \in Nat  BY <1>0, <1>3, DivMod
  <2>2. s * c < s * Q  BY <1>0, <2>1
  <2>3. QED  BY <1>0, <1>3, <2>2, MulMonotone
<1>5. f + w \in 0 .. P - 1  BY <1>0, <1>2
<1>6. (f + w) \div GroupSizeM = g
  <2>1. f + w = GroupSizeM * g + w  BY <1>0, <1>1
  <2>2. w \in 0 .. GroupSizeM - 1  BY <1>0, <1>1, <1>2
  <2>3. QED  BY <1>0, <1>1, <2>1, <2>2, DivIs
<1>7. QED  BY <1>0, <1>2, <1>3, <1>4, <1>5, <1>6

\* Two tiles never have the same place.
LEMMA PidInjective ==
  ASSUME NEW P \in Nat \ {0}, NEW Q \in Nat \ {0},
         NEW t \in 0 .. P * Q - 1, NEW u \in 0 .. P * Q - 1,
         Pid(P, Q, t) = Pid(P, Q, u)
  PROVE  t = u
<1>0. GroupSizeM \in Nat \ {0} /\ t \in Nat /\ u \in Nat  BY DenseAssumption
<1>1. PICK g, r, f, s : InGroup(P, Q, t, g, r, f, s)  BY GroupOf
<1>2. PICK g2, r2, f2, s2 : InGroup(P, Q, u, g2, r2, f2, s2)  BY GroupOf
<1>3. g2 = g
  BY <1>0, <1>1, <1>2, PlaceOf
<1>4. /\ g \in Nat /\ r \in Nat /\ f \in Nat /\ s \in Nat \ {0}
      /\ t = (GroupSizeM * Q) * g + r /\ Pid(P, Q, t) = <<f + (t % s), r \div s>>
      /\ t % s \in 0 .. s - 1
  BY <1>0, <1>1, PlaceOf DEF InGroup
<1>5. /\ r2 \in Nat /\ f2 = f /\ s2 = s
      /\ u = (GroupSizeM * Q) * g + r2 /\ Pid(P, Q, u) = <<f + (u % s), r2 \div s>>
      /\ u % s \in 0 .. s - 1
  <2>1. r2 \in Nat /\ f2 = g * GroupSizeM /\ f = g * GroupSizeM /\ u = (GroupSizeM * Q) * g + r2
    BY <1>1, <1>2, <1>3 DEF InGroup
  <2>2. /\ s2 \in Nat \ {0} /\ s2 <= GroupSizeM /\ f2 + s2 <= P /\ (s2 < GroupSizeM => f2 + s2 = P)
        /\ s <= GroupSizeM /\ f + s <= P /\ (s < GroupSizeM => f + s = P)
    BY <1>1, <1>2 DEF InGroup
  <2>3. s2 = s  BY <1>0, <1>4, <2>1, <2>2
  <2>4. Pid(P, Q, u) = <<f2 + (u % s2), r2 \div s2>> /\ u % s2 \in 0 .. s2 - 1
    BY <1>0, <1>2, PlaceOf DEF InGroup
  <2>5. QED  BY <2>1, <2>3, <2>4
<1>6. t % s = u % s /\ r \div s = r2 \div s
  BY <1>4, <1>5
<1>6a. s \in Nat \ {0} /\ r \in Nat /\ r2 \in Nat  BY <1>4, <1>5
<1>7. PICK a \in Nat, w \in 0 .. s - 1 :
        t \div s = a /\ t % s = w /\ t = s * a + w /\ s * a \in Nat
  BY <1>0, <1>6a, Divide, Zenon
<1>8. PICK b \in Nat, w2 \in 0 .. s - 1 :
        u \div s = b /\ u % s = w2 /\ u = s * b + w2 /\ s * b \in Nat
  BY <1>0, <1>6a, Divide, Zenon
<1>10. t = s * a + w /\ u = s * b + w
  BY <1>6, <1>7, <1>8
<1>11. PICK c \in Nat, x \in 0 .. s - 1 :
         r \div s = c /\ r % s = x /\ r = s * c + x /\ s * c \in Nat
  BY <1>6a, Divide, Zenon
<1>12. PICK c2 \in Nat, y \in 0 .. s - 1 :
         r2 \div s = c2 /\ r2 % s = y /\ r2 = s * c2 + y /\ s * c2 \in Nat
  BY <1>6a, Divide, Zenon
<1>13. r2 = s * c + y  BY <1>6, <1>11, <1>12
<1>14. t - u = x - y
  <2>1. PICK h \in Nat : h = (GroupSizeM * Q) * g  BY <1>0, <1>4
  <2>2. r = s * c + x /\ r2 = s * c + y /\ s * c \in Nat  BY <1>11, <1>13
  <2>2a. r - r2 = x - y  BY <2>2
  <2>3. t = h + r /\ u = h + r2  BY <2>1, <1>4, <1>5
  <2>4. QED  BY <2>1, <2>2a, <2>3, <1>6a
<1>15. s * a \in Nat /\ s * b \in Nat /\ s * (a + 1) = s * a + s /\ s * (b + 1) = s * b + s
  BY <1>4, <1>7, <1>8
<1>16. s * a < s * (b + 1) /\ s * b < s * (a + 1)
  BY <1>0, <1>4, <1>7, <1>10, <1>11, <1>12, <1>14, <1>15
<1>17. a < b + 1 /\ b < a + 1
  BY <1>4, <1>7, <1>8, <1>16, MulMonotone
<1>18. a = b  BY <1>7, <1>8, <1>17
<1>19. QED  BY <1>10, <1>18

\* Every block has a tile.
LEMMA PidSurjective ==
  ASSUME NEW P \in Nat \ {0}, NEW Q \in Nat \ {0}, NEW i \in 0 .. P - 1, NEW j \in 0 .. Q - 1
  PROVE  \E t \in 0 .. P * Q - 1 : Pid(P, Q, t) = <<i, j>>
<1> DEFINE S == GroupSizeM
<1>0. S \in Nat \ {0} /\ i \in Nat /\ j \in Nat  BY DenseAssumption
<1>1. PICK g \in Nat, v \in 0 .. S - 1 : i \div S = g /\ i = S * g + v
  BY <1>0, Divide
<1>2. i = S * g + v /\ v \in Nat  BY <1>0, <1>1
<1>3. PICK f \in Nat : f = g * S  BY <1>0
<1>4. i = f + v  BY <1>0, <1>2, <1>3
<1>5. PICK s \in Nat \ {0} : s = AtMost(P - f, S)
  BY <1>0, <1>2, <1>3, <1>4 DEF AtMost
<1>6. s <= S /\ f + s <= P /\ v < s
  BY <1>0, <1>2, <1>3, <1>4, <1>5 DEF AtMost
<1>7. PICK n \in Nat \ {0} : n = S * Q  BY <1>0
<1>8. PICK base \in Nat : base = n * g + s * j  BY <1>0
<1>9. PICK c \in Nat, b \in 0 .. s - 1 :
        base \div s = c /\ base % s = b /\ base = s * c + b /\ s * c \in Nat
  BY <1>8, Divide, Zenon
<1>10. base = s * c + b /\ s * c \in Nat /\ b \in Nat /\ b < s  BY <1>9
<1>11. PICK off \in 0 .. s - 1 : off = IF v >= b THEN v - b ELSE v - b + s
  <2>1. CASE v >= b
    <3>1. v - b \in 0 .. s - 1  BY <2>1, <1>2, <1>6, <1>10
    <3>2. QED  BY <3>1, <2>1
  <2>2. CASE ~(v >= b)
    <3>1. v - b + s \in 0 .. s - 1  BY <2>2, <1>2, <1>6, <1>10
    <3>2. QED  BY <3>1, <2>2
  <2>3. QED  BY <2>1, <2>2
<1>12. PICK t \in Nat : t = base + off  BY <1>8, <1>11
<1>13. t % s = v
  <2>1. v \in 0 .. s - 1  BY <1>2, <1>6
  <2>2. CASE v >= b
    <3>1. t = s * c + v  BY <2>2, <1>9, <1>10, <1>11, <1>12, <2>1
    <3>2. QED  BY <3>1, <2>1, <1>10, DivIs
  <2>3. CASE ~(v >= b)
    <3>1. t = s * c + s + v  BY <2>3, <1>9, <1>10, <1>11, <1>12, <2>1
    <3>2. s * (c + 1) = s * c + s /\ c + 1 \in Nat  BY <1>10
    <3>3. t = s * (c + 1) + v  BY <3>1, <3>2
    <3>4. QED  BY <3>2, <3>3, <2>1, DivIs
  <2>4. QED  BY <2>2, <2>3
<1>14. PICK r \in Nat : r = s * j + off  BY <1>0, <1>11
<1>15. r < s * Q
  <2>1. s * (j + 1) = s * j + s /\ s * j \in Nat /\ s * Q \in Nat  BY <1>0
  <2>2. s * (j + 1) <= s * Q  BY <1>0, MulMonotone
  <2>3. QED  BY <1>11, <1>14, <2>1, <2>2
<1>16. s * Q <= n
  <2>1. Q * s <= Q * S  BY <1>0, <1>6, MulMonotone
  <2>2. Q * s = s * Q /\ Q * S = n  BY <1>0, <1>7
  <2>3. QED  BY <2>1, <2>2
<1>17. r \in 0 .. n - 1
  <2>1. s * Q \in Nat  OBVIOUS
  <2>2. QED  BY <1>14, <1>15, <1>16, <1>7, <2>1
<1>18. t = n * g + r
  <2>1. n * g \in Nat /\ s * j \in Nat  BY <1>0
  <2>2. QED  BY <2>1, <1>8, <1>11, <1>12, <1>14
<1>19. t \div n = g /\ t % n = r
  BY <1>17, <1>18, DivIs
<1>20. r \div s = j
  BY <1>0, <1>11, <1>14, DivIs
<1>21. t < P * Q
  <2>1. n * g = f * Q  BY <1>0, <1>3, <1>7
  <2>2. Q * (f + s) <= Q * P  BY <1>3, <1>6, MulMonotone
  <2>3. Q * (f + s) = f * Q + s * Q /\ f * Q \in Nat /\ s * Q \in Nat /\ Q * P = P * Q /\ P * Q \in Nat
    BY <1>3
  <2>4. QED  BY <1>14, <1>15, <1>18, <2>1, <2>2, <2>3
<1>22. Pid(P, Q, t) = <<i, j>>
  BY <1>0, <1>3, <1>4, <1>5, <1>7, <1>13, <1>19, <1>20 DEF Pid
<1>23. t \in 0 .. P * Q - 1
  <2>1. P * Q \in Nat  OBVIOUS
  <2>2. QED  BY <1>12, <1>21, <2>1
<1>24. QED  BY <1>22, <1>23

-----------------------------------------------------------------------------
(* What a launch l on m rows computes. *)

Launches == [kernel : {"pointer", "descriptor"}, m : Nat \ {0}, n : Nat \ {0},
             k : Nat \ {0}, bias : BOOLEAN]

TilesOf(m, l) == CDiv(m, l.m) * CDiv(N, l.n)
PidAt(m, l, t) == Pid(CDiv(m, l.m), CDiv(N, l.n), t)

\* Element e lies in tile t.
Covers(m, l, t, e) == PidAt(m, l, t) = <<e[1] \div l.m, e[2] \div l.n>>

TermsOf(l) == [ki \in 1 .. CDiv(K, l.k) |->
                 {k \in (ki - 1) * l.k .. ki * l.k - 1 : k < K}]
ProductOf(l, e) == [row |-> e[1], col |-> e[2], terms |-> TermsOf(l)]
StoredItem(l, e) == [product |-> ProductOf(l, e), bias |-> IF l.bias THEN e[2] ELSE Zeros]

\* An accumulator with the products of tile t.
HoldsTile(a, m, l, t) ==
    /\ a # << >>
    /\ \A e \in Elements(m) :
         Covers(m, l, t, e) =>
           a[<<e[1] - PidAt(m, l, t)[1] * l.m, e[2] - PidAt(m, l, t)[2] * l.n>>] = ProductOf(l, e)

DenseTypes ==
    /\ rows \in Nat /\ (rows > 0 => launch \in Launches) /\ (rows = 0 => out = << >>)
    /\ tileId \in [Programs -> Nat] /\ tileIdC \in [Programs -> Int] /\ DOMAIN acc = Programs

\* The two counters name the same tile while the accumulator is full, and are one step
\* apart while it is empty.
Counters(m, l, id, idC, a, p) ==
    /\ id % NumSMs = p
    /\ \/ a = << >> /\ idC = id - NumSMs
       \/ HoldsTile(a, m, l, id) /\ idC = id /\ id < TilesOf(m, l)

ProgramInv(p) ==
    /\ Running(p) => Counters(rows, launch, tileId[p], tileIdC[p], acc[p], p)
    /\ ~Running(p) => acc[p] = << >>

\* An element is stored exactly when its tile's program has gone past the tile.
Stored(m, l, o, ids) ==
    /\ DOMAIN o = Elements(m)
    /\ \A e \in Elements(m) : \A t \in 0 .. TilesOf(m, l) - 1 :
         Covers(m, l, t, e) =>
           o[e] = IF t < ids[t % NumSMs] THEN <<StoredItem(l, e)>> ELSE << >>

DenseInv ==
    /\ DenseTypes /\ (\A p \in Programs : ProgramInv(p))
    /\ rows > 0 => Stored(rows, launch, out, tileId)

\* The module's operators, of the launch under way.
LEMMA AsLaunched ==
  /\ NumTiles = TilesOf(rows, launch)
  /\ \A t : ComputePid(t) = PidAt(rows, launch, t)
  /\ Terms = TermsOf(launch)
BY DEF NumTiles, NumPidM, NumPidN, TilesOf, ComputePid, PidAt, Pid, Terms, TermsOf

LEMMA LaunchShape ==
  ASSUME NEW m \in Nat \ {0}, NEW l \in Launches
  PROVE  /\ CDiv(m, l.m) \in Nat \ {0} /\ CDiv(N, l.n) \in Nat \ {0}
         /\ TilesOf(m, l) \in Nat \ {0}
<1>1. l.m \in Nat \ {0} /\ l.n \in Nat \ {0} /\ N \in Nat \ {0}
  BY DenseAssumption DEF Launches
<1>2. CDiv(m, l.m) \in Nat \ {0} /\ CDiv(N, l.n) \in Nat \ {0}
  BY <1>1, CDivBounds
<1>3. \A a, b \in Nat \ {0} : a * b \in Nat \ {0}  OBVIOUS
<1>4. QED  BY <1>2, <1>3 DEF TilesOf

\* Every element lies in exactly one tile.
LEMMA OneTile ==
  ASSUME NEW m \in Nat \ {0}, NEW l \in Launches, NEW e \in Elements(m)
  PROVE  /\ \E t \in 0 .. TilesOf(m, l) - 1 : Covers(m, l, t, e)
         /\ \A t, u \in 0 .. TilesOf(m, l) - 1 :
              Covers(m, l, t, e) /\ Covers(m, l, u, e) => t = u
<1>1. l.m \in Nat \ {0} /\ l.n \in Nat \ {0} /\ N \in Nat \ {0}
  BY DenseAssumption DEF Launches
<1>2. PICK P \in Nat \ {0} : P = CDiv(m, l.m)  BY LaunchShape
<1>3. PICK Q \in Nat \ {0} : Q = CDiv(N, l.n)  BY LaunchShape
<1>4. e[1] \in 0 .. m - 1 /\ e[2] \in 0 .. N - 1  BY DEF Elements
<1>5. e[1] \div l.m \in 0 .. P - 1 /\ e[2] \div l.n \in 0 .. Q - 1
  BY <1>1, <1>2, <1>3, <1>4, CDivBounds
<1>6. TilesOf(m, l) = P * Q  BY <1>2, <1>3 DEF TilesOf
<1>7. \A t : PidAt(m, l, t) = Pid(P, Q, t)  BY <1>2, <1>3 DEF PidAt
<1>8. \E t \in 0 .. P * Q - 1 : Pid(P, Q, t) = <<e[1] \div l.m, e[2] \div l.n>>
  BY <1>5, PidSurjective
<1>9. \A t, u \in 0 .. P * Q - 1 : Pid(P, Q, t) = Pid(P, Q, u) => t = u
  BY PidInjective
<1>10. QED  BY <1>6, <1>7, <1>8, <1>9, Zenon DEF Covers

\* The test of the store is that the tile covers the element.
LEMMA CoversBounds ==
  ASSUME NEW l \in Launches, NEW x \in Nat, NEW i \in Nat, NEW w \in Nat \ {0}
  PROVE  x - i * w \in 0 .. w - 1 <=> i = x \div w
<1>1. PICK q \in Nat, r \in 0 .. w - 1 :
        x \div w = q /\ x % w = r /\ x = w * q + r /\ w * q \in Nat
  BY Divide, Zenon
<1>2. ASSUME i = q PROVE x - i * w \in 0 .. w - 1
  <2>1. i * w = w * q  BY <1>2
  <2>2. QED  BY <1>1, <2>1
<1>3. ASSUME x - i * w \in 0 .. w - 1 PROVE i = q
  <2>1. PICK y \in 0 .. w - 1 : y = x - i * w  BY <1>3
  <2>2. w * i = i * w /\ w * i \in Nat  OBVIOUS
  <2>3. x = w * i + y  BY <2>1, <2>2
  <2>4. x \div w = i  BY <2>3, DivIs
  <2>5. QED  BY <1>1, <2>4
<1>4. QED  BY <1>1, <1>2, <1>3

-----------------------------------------------------------------------------
(* The sum over K. *)

LEMMA TermsWhole ==
  ASSUME NEW l \in Launches
  PROVE  WholeK(TermsOf(l))
<1>1. PICK b \in Nat \ {0} : b = l.k  BY DEF Launches
<1>2. K \in Nat \ {0}  BY DenseAssumption
<1>3. PICK n \in Nat \ {0} : n = CDiv(K, b)  BY <1>2, CDivBounds
<1> DEFINE T == TermsOf(l)
<1>4. DOMAIN T = 1 .. n  BY <1>1, <1>3 DEF TermsOf
<1>5. ASSUME NEW i \in 1 .. n
      PROVE  T[i] = {k \in (i - 1) * b .. i * b - 1 : k < K}
  BY <1>1, <1>3 DEF TermsOf
<1> HIDE DEF T
<1>6. ASSUME NEW k \in 0 .. K - 1, NEW i \in 1 .. n
      PROVE  k \in T[i] <=> i = (k \div b) + 1
  <2>1. PICK j \in Nat : j = i - 1  OBVIOUS
  <2>2. k - j * b \in 0 .. b - 1 <=> j = k \div b  BY CoversBounds
  <2>3. i * b = j * b + b /\ j * b \in Nat  BY <2>1
  <2>4. k \in T[i] <=> k \in j * b .. j * b + b - 1
    BY <1>2, <1>5, <2>1, <2>3
  <2>5. k \in j * b .. j * b + b - 1 <=> k - j * b \in 0 .. b - 1
    BY <1>2, <2>3
  <2>6. QED  BY <2>1, <2>2, <2>4, <2>5
<1>7. ASSUME NEW k \in 0 .. K - 1
      PROVE  Cardinality({i \in DOMAIN T : k \in T[i]}) = 1
  <2>1. PICK q \in 0 .. n - 1 : q = k \div b  BY <1>2, <1>3, CDivBounds
  <2>2. q + 1 \in 1 .. n  BY <2>1
  <2>3. {i \in DOMAIN T : k \in T[i]} = {q + 1}  BY <1>4, <1>6, <2>1, <2>2
  <2>4. QED  BY <2>3, FS_Singleton
<1>8. ASSUME NEW i \in 1 .. n, NEW x \in T[i]
      PROVE  x \in 0 .. K - 1 /\ (i - 1) * b <= x /\ x < i * b
  <2>1. (i - 1) * b \in Nat /\ i * b \in Nat  OBVIOUS
  <2>2. QED  BY <1>2, <1>5, <2>1
<1>9. ASSUME NEW i \in 1 .. n, NEW j \in 1 .. n, i < j, NEW x \in T[i], NEW y \in T[j]
      PROVE  x < y
  <2>1. b * i <= b * (j - 1)  BY <1>9, MulMonotone
  <2>2. b * i = i * b /\ b * (j - 1) = (j - 1) * b /\ i * b \in Int /\ (j - 1) * b \in Int
    OBVIOUS
  <2>3. QED  BY <1>2, <1>8, <2>1, <2>2
<1>10. UNION Range(T) \subseteq 0 .. K - 1
  BY <1>4, <1>8 DEF Range
<1>11. QED  BY <1>4, <1>7, <1>9, <1>10 DEF WholeK, T

\* The invariant says that every element is its own product.
LEMMA InvOwnProducts == DenseInv => OwnProducts
<1> SUFFICES ASSUME DenseInv, NEW e \in DOMAIN out
    PROVE  /\ Len(out[e]) <= 1
           /\ out[e] # << >> =>
                /\ out[e][1].product.row = e[1] /\ out[e][1].product.col = e[2]
                /\ WholeK(out[e][1].product.terms)
                /\ out[e][1].bias = IF launch.bias THEN e[2] ELSE Zeros
           /\ Finished => out[e] # << >>
  BY DEF OwnProducts
<1>1. rows \in Nat \ {0} /\ launch \in Launches
  BY DEF DenseInv, DenseTypes
<1>2. Stored(rows, launch, out, tileId)  BY <1>1 DEF DenseInv
<1>3. e \in Elements(rows)  BY <1>2 DEF Stored
<1>4. PICK t \in 0 .. TilesOf(rows, launch) - 1 : Covers(rows, launch, t, e)
  BY <1>1, <1>3, OneTile
<1>5. out[e] = IF t < tileId[t % NumSMs] THEN <<StoredItem(launch, e)>> ELSE << >>
  BY <1>2, <1>3, <1>4 DEF Stored
<1>6. WholeK(TermsOf(launch))  BY <1>1, TermsWhole
<1>7. ASSUME Finished PROVE t < tileId[t % NumSMs]
  <2>1. TilesOf(rows, launch) \in Nat \ {0}  BY <1>1, LaunchShape
  <2>2. NumSMs \in Nat \ {0} /\ t \in Nat  BY <2>1, DenseAssumption
  <2>3. PICK q \in Nat, p \in 0 .. NumSMs - 1 :
          t \div NumSMs = q /\ t % NumSMs = p /\ t = NumSMs * q + p /\ NumSMs * q \in Nat
    BY <2>2, Divide, Zenon
  <2>4. p <= t  BY <2>2, <2>3
  <2>5. p < GridOf(rows, launch)
    BY <2>1, <2>2, <2>4 DEF GridOf, AtMost, TilesOf
  <2>6. p \in Programs /\ Running(p)  BY <1>1, <2>3, <2>5 DEF Programs, Running
  <2>7. tileId[p] >= TilesOf(rows, launch)  BY <1>7, <2>6, AsLaunched DEF Finished
  <2>8. tileId[p] \in Nat  BY <2>6 DEF DenseInv, DenseTypes
  <2>9. QED  BY <2>1, <2>2, <2>3, <2>7, <2>8
<1>8. CASE t < tileId[t % NumSMs]
  <2>1. out[e] = <<StoredItem(launch, e)>>  BY <1>5, <1>8
  <2>2. Len(out[e]) = 1 /\ out[e] # << >> /\ out[e][1] = StoredItem(launch, e)  BY <2>1
  <2>3. QED  BY <1>6, <2>2 DEF StoredItem, ProductOf
<1>9. CASE ~(t < tileId[t % NumSMs])
  <2>1. out[e] = << >>  BY <1>5, <1>9
  <2>2. QED  BY <2>1, <1>7, <1>9
<1>10. QED  BY <1>8, <1>9

-----------------------------------------------------------------------------
(* The steps of the kernel. *)

LEMMA DenseInitInv == DenseInit => DenseInv
<1> SUFFICES ASSUME DenseInit PROVE DenseInv  OBVIOUS
<1>1. DenseTypes  BY DEF DenseInit, DenseTypes
<1>2. \A p \in Programs : ProgramInv(p)  BY DEF DenseInit, ProgramInv, Running
<1>3. ~(rows > 0)  BY DEF DenseInit
<1>4. QED  BY <1>1, <1>2, <1>3 DEF DenseInv

\* Residues of a program's tiles.
LEMMA Residues ==
  ASSUME NEW n \in Nat \ {0}
  PROVE  /\ \A p \in 0 .. n - 1 : p % n = p
         /\ \A t \in Nat : t % n \in 0 .. n - 1 /\ t % n <= t /\ (t + n) % n = t % n
         /\ \A t, u \in Nat : t % n = u % n /\ t < u + n => t <= u
<1>1. ASSUME NEW p \in 0 .. n - 1 PROVE p % n = p
  <2>1. p = n * 0 + p  OBVIOUS
  <2>2. (n * 0 + p) % n = p  BY DivIs
  <2>3. QED  BY <2>1, <2>2
<1>2. ASSUME NEW t \in Nat
      PROVE  t % n \in 0 .. n - 1 /\ t % n <= t /\ (t + n) % n = t % n
  <2>1. PICK q \in Nat, r \in 0 .. n - 1 :
          t \div n = q /\ t % n = r /\ t = n * q + r /\ n * q \in Nat
    BY Divide, Zenon
  <2>2. n * (q + 1) = n * q + n /\ q + 1 \in Nat  OBVIOUS
  <2>3. t + n = n * (q + 1) + r  BY <2>1, <2>2
  <2>4. (t + n) % n = r  BY <2>2, <2>3, DivIs
  <2>5. r <= t  BY <2>1
  <2>6. QED  BY <2>1, <2>4, <2>5
<1>3. ASSUME NEW t \in Nat, NEW u \in Nat, t % n = u % n, t < u + n
      PROVE  t <= u
  <2>1. PICK q \in Nat, r \in 0 .. n - 1 :
          t \div n = q /\ t % n = r /\ t = n * q + r /\ n * q \in Nat
    BY Divide, Zenon
  <2>2. PICK v \in Nat, z \in 0 .. n - 1 :
          u \div n = v /\ u % n = z /\ u = n * v + z /\ n * v \in Nat
    BY Divide, Zenon
  <2>3. r = z  BY <1>3, <2>1, <2>2
  <2>4. n * (v + 1) = n * v + n /\ v + 1 \in Nat  OBVIOUS
  <2>5. n * q < n * (v + 1)  BY <1>3, <2>1, <2>2, <2>3, <2>4
  <2>6. q <= v  BY <2>4, <2>5, MulMonotone
  <2>7. n * q <= n * v  BY <2>6, MulMonotone
  <2>8. QED  BY <2>1, <2>2, <2>3, <2>7
<1>4. QED  BY <1>1, <1>2, <1>3

LEMMA LaunchKeeps ==
  ASSUME DenseInv, NEW m \in Nat \ {0}, NEW l \in Launches, Launch(m, l)
  PROVE  DenseInv'
<1>1. /\ rows = 0 /\ rows' = m /\ launch' = l /\ acc' = acc
      /\ tileId' = [p \in Programs |-> p] /\ tileIdC' = [p \in Programs |-> p - NumSMs]
      /\ out' = [e \in Elements(m) |-> << >>]
  BY DEF Launch, StartTileC
<1>2. NumSMs \in Nat \ {0} /\ Programs \subseteq Nat
  BY DenseAssumption DEF Programs
<1>3. \A p \in Programs : acc[p] = << >>
  BY <1>1 DEF DenseInv, ProgramInv, Running
<1>4. DenseTypes'
  BY <1>1, <1>2 DEF DenseInv, DenseTypes
<1>5. ASSUME NEW p \in Programs PROVE ProgramInv(p)'
  <2>1. p % NumSMs = p  BY <1>2, Residues DEF Programs
  <2>2. tileId'[p] = p /\ tileIdC'[p] = p - NumSMs /\ acc'[p] = << >>
    BY <1>1, <1>3
  <2>3. Counters(rows', launch', tileId'[p], tileIdC'[p], acc'[p], p)
    BY <2>1, <2>2 DEF Counters
  <2>4. QED  BY <2>2, <2>3 DEF ProgramInv
<1>6. Stored(m, l, out', tileId')
  <2>1. DOMAIN out' = Elements(m)  BY <1>1
  <2>2. ASSUME NEW e \in Elements(m), NEW t \in 0 .. TilesOf(m, l) - 1
        PROVE  out'[e] = << >> /\ ~(t < tileId'[t % NumSMs])
    <3>1. t \in Nat  BY LaunchShape
    <3>2. t % NumSMs \in Programs /\ t % NumSMs <= t  BY <1>2, <3>1, Residues DEF Programs
    <3>3. tileId'[t % NumSMs] = t % NumSMs  BY <1>1, <3>2
    <3>4. QED  BY <1>1, <1>2, <3>1, <3>2, <3>3
  <2>3. QED  BY <2>1, <2>2 DEF Stored
<1>7. QED  BY <1>1, <1>4, <1>5, <1>6 DEF DenseInv

\* The loads of a tile bring each element its own row and column.
LEMMA ProductsHeld ==
  ASSUME NEW t, rows \in Nat \ {0}, launch \in Launches, t \in 0 .. NumTiles - 1
  PROVE  HoldsTile(Products(t), rows, launch, t)
<1>1. PICK b \in Nat \ {0} : b = launch.m  BY DEF Launches
<1>2. PICK c \in Nat \ {0} : c = launch.n  BY DEF Launches
<1>3. PICK pid : pid = ComputePid(t)  OBVIOUS
<1>4. Products(t) = [x \in (0 .. b - 1) \X (0 .. c - 1) |->
          [row |-> RowRead(pid[1], x[1]), col |-> ColRead(pid[2], x[2]), terms |-> Terms]]
  BY <1>1, <1>2, <1>3 DEF Products
<1>5. Products(t) # << >>
  <2>1. <<0, 0>> \in DOMAIN Products(t)  BY <1>4
  <2>2. <<0, 0>> \notin DOMAIN << >>  OBVIOUS
  <2>3. QED  BY <2>1, <2>2
<1>6. pid = PidAt(rows, launch, t)  BY <1>3, AsLaunched
<1>7. ASSUME NEW e \in Elements(rows), Covers(rows, launch, t, e)
      PROVE  Products(t)[<<e[1] - pid[1] * b, e[2] - pid[2] * c>>] = ProductOf(launch, e)
  <2>1. e[1] \in 0 .. rows - 1 /\ e[2] \in 0 .. N - 1 /\ N \in Nat
    BY DenseAssumption DEF Elements
  <2>2. e[1] \in Nat /\ e[2] \in Nat  BY <2>1
  <2>3. PICK q \in Nat, r \in 0 .. b - 1 :
          e[1] \div b = q /\ e[1] % b = r /\ e[1] = b * q + r /\ b * q \in Nat
    BY <2>2, Divide, Zenon
  <2>4. PICK v \in Nat, z \in 0 .. c - 1 :
          e[2] \div c = v /\ e[2] % c = z /\ e[2] = c * v + z /\ c * v \in Nat
    BY <2>2, Divide, Zenon
  <2>5. pid[1] = q /\ pid[2] = v
    BY <1>1, <1>2, <1>6, <1>7, <2>3, <2>4 DEF Covers
  <2>6. e[1] - pid[1] * b = r /\ e[2] - pid[2] * c = z
    <3>1. b * q = q * b /\ c * v = v * c  OBVIOUS
    <3>2. QED  BY <2>3, <2>4, <2>5, <3>1
  <2>7. RowRead(pid[1], r) = e[1]
    <3>1. pid[1] * b + r = e[1]  BY <2>3, <2>5
    <3>2. QED  BY <1>1, <2>1, <3>1 DEF RowRead
  <2>8. ColRead(pid[2], z) = e[2]
    <3>1. pid[2] * c + z = e[2]  BY <2>4, <2>5
    <3>2. QED  BY <1>2, <2>1, <3>1 DEF ColRead
  <2>9. Products(t)[<<r, z>>] = [row |-> e[1], col |-> e[2], terms |-> Terms]
    BY <1>4, <2>7, <2>8
  <2>10. QED  BY <2>6, <2>9, AsLaunched DEF ProductOf
<1>8. QED  BY <1>1, <1>2, <1>5, <1>6, <1>7 DEF HoldsTile

LEMMA AccumulateKeeps ==
  ASSUME DenseInv, NEW p \in Programs, Accumulate(p)
  PROVE  DenseInv'
<1>1. /\ Running(p) /\ acc[p] = << >> /\ tileId[p] < NumTiles
      /\ acc' = [acc EXCEPT ![p] = Products(tileId[p])]
      /\ tileIdC' = [tileIdC EXCEPT ![p] = @ + NumSMs]
      /\ rows' = rows /\ launch' = launch /\ tileId' = tileId /\ out' = out
  BY DEF Accumulate
<1>2. rows \in Nat \ {0} /\ launch \in Launches /\ NumSMs \in Nat \ {0}
  BY <1>1, DenseAssumption DEF Running, DenseInv, DenseTypes
<1>3. DenseTypes'
  BY <1>1, <1>2 DEF DenseInv, DenseTypes
<1>4. ProgramInv(p)'
  <2>1. tileId[p] \in 0 .. NumTiles - 1
    <3>1. tileId[p] \in Nat /\ NumTiles \in Nat
      BY <1>2, LaunchShape, AsLaunched DEF DenseInv, DenseTypes
    <3>2. QED  BY <1>1, <3>1
  <2>2. HoldsTile(Products(tileId[p]), rows, launch, tileId[p])
    BY <1>2, <2>1, ProductsHeld
  <2>3. Counters(rows, launch, tileId[p], tileIdC[p], acc[p], p)
    BY <1>1 DEF DenseInv, ProgramInv
  <2>4. tileId[p] % NumSMs = p /\ tileIdC[p] = tileId[p] - NumSMs
    BY <1>1, <2>3 DEF Counters, HoldsTile
  <2>5. acc'[p] = Products(tileId[p]) /\ tileIdC'[p] = tileIdC[p] + NumSMs
    BY <1>1 DEF DenseInv, DenseTypes
  <2>6. tileIdC'[p] = tileId[p]
    BY <1>2, <2>4, <2>5 DEF DenseInv, DenseTypes
  <2>7. Counters(rows', launch', tileId'[p], tileIdC'[p], acc'[p], p)
    BY <1>1, <2>2, <2>4, <2>5, <2>6, AsLaunched DEF Counters
  <2>8. Running(p)'  BY <1>1 DEF Running
  <2>9. QED  BY <2>7, <2>8 DEF ProgramInv
<1>5. ASSUME NEW q \in Programs, q # p PROVE ProgramInv(q)'
  <2>1. acc'[q] = acc[q] /\ tileIdC'[q] = tileIdC[q] /\ tileId'[q] = tileId[q]
    BY <1>1, <1>5 DEF DenseInv, DenseTypes
  <2>2. QED  BY <1>1, <2>1 DEF DenseInv, ProgramInv, Running
<1>6. Stored(rows', launch', out', tileId')
  BY <1>1, <1>2 DEF DenseInv
<1>7. QED  BY <1>3, <1>4, <1>5, <1>6 DEF DenseInv

\* A store writes exactly the elements its tile covers.
LEMMA StoreWrites ==
  ASSUME DenseInv, NEW p \in Programs, Store(p), NEW e \in Elements(rows)
  PROVE  out'[e] = IF Covers(rows, launch, tileId[p], e)
                   THEN Append(out[e], StoredItem(launch, e)) ELSE out[e]
<1>1. Running(p) /\ acc[p] # << >>  BY DEF Store
<1>2. rows \in Nat \ {0} /\ launch \in Launches /\ DOMAIN out = Elements(rows)
  BY <1>1 DEF Running, DenseInv, DenseTypes, Stored
<1>3. Counters(rows, launch, tileId[p], tileIdC[p], acc[p], p)
  BY <1>1 DEF DenseInv, ProgramInv
<1>4. /\ HoldsTile(acc[p], rows, launch, tileId[p]) /\ tileIdC[p] = tileId[p]
      /\ tileId[p] < TilesOf(rows, launch)
  BY <1>1, <1>3 DEF Counters
<1>5. PICK b \in Nat \ {0} : b = launch.m  BY <1>2 DEF Launches
<1>6. PICK c \in Nat \ {0} : c = launch.n  BY <1>2 DEF Launches
<1>7. PICK pid : pid = PidAt(rows, launch, tileId[p])  OBVIOUS
<1>8. pid \in Nat \X Nat
  <2>1. tileId[p] \in 0 .. TilesOf(rows, launch) - 1 /\ tileId[p] \in Nat
    <3>1. tileId[p] \in Nat /\ TilesOf(rows, launch) \in Nat
      BY <1>2, LaunchShape DEF DenseInv, DenseTypes
    <3>2. QED  BY <1>4, <3>1
  <2>2. PICK P \in Nat \ {0} : P = CDiv(rows, launch.m)  BY <1>2, LaunchShape
  <2>3. PICK Q \in Nat \ {0} : Q = CDiv(N, launch.n)  BY <1>2, LaunchShape
  <2>4. tileId[p] \in 0 .. P * Q - 1  BY <2>1, <2>2, <2>3 DEF TilesOf
  <2>5. pid = Pid(P, Q, tileId[p])  BY <1>7, <2>2, <2>3 DEF PidAt
  <2>6. PICK g, r, f, s : InGroup(P, Q, tileId[p], g, r, f, s)  BY <2>4, GroupOf
  <2>7. pid \in (0 .. P - 1) \X (0 .. Q - 1)  BY <2>1, <2>5, <2>6, PlaceOf
  <2>8. QED  BY <2>7
<1>9. out'[e] = IF e[1] - pid[1] * b \in 0 .. b - 1 /\ e[2] - pid[2] * c \in 0 .. c - 1
                THEN Append(out[e],
                            [product |-> acc[p][<<e[1] - pid[1] * b, e[2] - pid[2] * c>>],
                             bias |-> IF launch.bias THEN e[2] ELSE Zeros])
                ELSE out[e]
  <2>1. ComputePid(tileIdC[p]) = pid  BY <1>4, <1>7, AsLaunched
  <2>2. QED  BY <1>2, <1>5, <1>6, <2>1 DEF Store
<1>10. e[1] \in Nat /\ e[2] \in Nat /\ pid[1] \in Nat /\ pid[2] \in Nat
       /\ pid = <<pid[1], pid[2]>>
  <2>1. N \in Nat  BY DenseAssumption
  <2>2. QED  BY <1>2, <1>8, <2>1 DEF Elements
<1>11. /\ e[1] - pid[1] * b \in 0 .. b - 1 <=> pid[1] = e[1] \div b
       /\ e[2] - pid[2] * c \in 0 .. c - 1 <=> pid[2] = e[2] \div c
  BY <1>2, <1>10, CoversBounds
<1>12. Covers(rows, launch, tileId[p], e) <=>
         e[1] - pid[1] * b \in 0 .. b - 1 /\ e[2] - pid[2] * c \in 0 .. c - 1
  <2>1. Covers(rows, launch, tileId[p], e) <=> pid = <<e[1] \div b, e[2] \div c>>
    BY <1>5, <1>6, <1>7 DEF Covers
  <2>2. pid = <<e[1] \div b, e[2] \div c>> <=> pid[1] = e[1] \div b /\ pid[2] = e[2] \div c
    BY <1>10
  <2>3. QED  BY <1>11, <2>1, <2>2
<1>13. ASSUME Covers(rows, launch, tileId[p], e)
       PROVE  acc[p][<<e[1] - pid[1] * b, e[2] - pid[2] * c>>] = ProductOf(launch, e)
  BY <1>4, <1>5, <1>6, <1>7, <1>13 DEF HoldsTile
<1>14. QED  BY <1>9, <1>12, <1>13 DEF StoredItem

LEMMA StoreKeeps ==
  ASSUME DenseInv, NEW p \in Programs, Store(p)
  PROVE  DenseInv'
<1>1. /\ Running(p) /\ acc[p] # << >>
      /\ acc' = [acc EXCEPT ![p] = << >>]
      /\ tileId' = [tileId EXCEPT ![p] = @ + NumSMs]
      /\ rows' = rows /\ launch' = launch /\ tileIdC' = tileIdC /\ DOMAIN out' = DOMAIN out
  BY DEF Store
<1>2. /\ rows \in Nat \ {0} /\ launch \in Launches /\ NumSMs \in Nat \ {0}
      /\ Stored(rows, launch, out, tileId) /\ tileId \in [Programs -> Nat]
      /\ DOMAIN acc = Programs /\ tileIdC \in [Programs -> Int]
  BY <1>1, DenseAssumption DEF Running, DenseInv, DenseTypes
<1>3. Counters(rows, launch, tileId[p], tileIdC[p], acc[p], p)
  BY <1>1 DEF DenseInv, ProgramInv
<1>4. /\ tileId[p] % NumSMs = p /\ tileIdC[p] = tileId[p]
      /\ tileId[p] < TilesOf(rows, launch) /\ tileId[p] \in Nat
      /\ TilesOf(rows, launch) \in Nat
  BY <1>1, <1>2, <1>3, LaunchShape DEF Counters
<1>5. tileId'[p] = tileId[p] + NumSMs /\ acc'[p] = << >>
  BY <1>1, <1>2
<1>6. DenseTypes'
  <2>1. tileId' \in [Programs -> Nat]  BY <1>1, <1>2
  <2>2. QED  BY <1>1, <1>2, <2>1 DEF DenseTypes
<1>7. ProgramInv(p)'
  <2>1. tileId'[p] % NumSMs = p  BY <1>2, <1>4, <1>5, Residues
  <2>2. tileIdC'[p] = tileId'[p] - NumSMs  BY <1>1, <1>2, <1>4, <1>5
  <2>3. Counters(rows', launch', tileId'[p], tileIdC'[p], acc'[p], p)
    BY <1>5, <2>1, <2>2 DEF Counters
  <2>4. QED  BY <1>5, <2>3 DEF ProgramInv
<1>8. ASSUME NEW q \in Programs, q # p PROVE ProgramInv(q)'
  <2>1. acc'[q] = acc[q] /\ tileIdC'[q] = tileIdC[q] /\ tileId'[q] = tileId[q]
    BY <1>1, <1>2, <1>8
  <2>2. QED  BY <1>1, <2>1 DEF DenseInv, ProgramInv, Running
<1>9. ASSUME NEW e \in Elements(rows), NEW t \in 0 .. TilesOf(rows, launch) - 1,
             Covers(rows, launch, t, e)
      PROVE  out'[e] = IF t < tileId'[t % NumSMs] THEN <<StoredItem(launch, e)>> ELSE << >>
  <2>1. tileId[p] \in 0 .. TilesOf(rows, launch) - 1 /\ t \in Nat  BY <1>4
  <2>2. out[e] = IF t < tileId[t % NumSMs] THEN <<StoredItem(launch, e)>> ELSE << >>
    BY <1>2, <1>9 DEF Stored
  <2>3. CASE t = tileId[p]
    <3>1. t % NumSMs = p /\ t < tileId'[p] /\ ~(t < tileId[p])
      BY <1>2, <1>4, <1>5, <2>3
    <3>2. out[e] = << >>  BY <2>2, <3>1
    <3>3. out'[e] = Append(out[e], StoredItem(launch, e))  BY <1>9, <2>3, StoreWrites
    <3>4. out'[e] = <<StoredItem(launch, e)>>  BY <3>2, <3>3
    <3>5. QED  BY <3>1, <3>4
  <2>4. CASE t # tileId[p]
    <3>1. ~Covers(rows, launch, tileId[p], e)  BY <1>2, <1>9, <2>1, <2>4, OneTile
    <3>2. out'[e] = out[e]  BY <3>1, StoreWrites
    <3>3. t % NumSMs \in Programs  BY <1>2, <2>1, Residues DEF Programs
    <3>4. t < tileId'[t % NumSMs] <=> t < tileId[t % NumSMs]
      <4>1. CASE t % NumSMs = p
        <5>1. t < tileId[p] + NumSMs => t <= tileId[p]
          BY <1>2, <1>4, <2>1, <4>1, Residues
        <5>2. QED  BY <1>2, <1>4, <1>5, <2>1, <2>4, <4>1, <5>1
      <4>2. CASE t % NumSMs # p
        BY <1>1, <1>2, <3>3, <4>2
      <4>3. QED  BY <4>1, <4>2
    <3>5. QED  BY <2>2, <3>2, <3>4
  <2>5. QED  BY <2>3, <2>4
<1>10. DOMAIN out' = Elements(rows)  BY <1>1, <1>2 DEF Stored
<1>11. Stored(rows', launch', out', tileId')
  BY <1>1, <1>9, <1>10 DEF Stored
<1>12. QED  BY <1>6, <1>7, <1>8, <1>11 DEF DenseInv

LEMMA DoneKeeps ==
  ASSUME DenseInv, Done
  PROVE  DenseInv'
<1>1. /\ Finished /\ rows' = 0 /\ out' = << >>
      /\ tileId' = tileId /\ tileIdC' = tileIdC /\ acc' = acc
  BY DEF Done
<1>2. \A p \in Programs : acc[p] = << >>
  BY <1>1 DEF Finished, DenseInv, ProgramInv
<1>3. DenseTypes'  BY <1>1 DEF DenseInv, DenseTypes
<1>4. \A p \in Programs : ProgramInv(p)'  BY <1>1, <1>2 DEF ProgramInv, Running
<1>5. QED  BY <1>1, <1>3, <1>4 DEF DenseInv

-----------------------------------------------------------------------------
(* The calls of the layers, and the mode. *)

LEMMA WitnessLaunches ==
  ASSUME NEW m \in 0 .. MaxRows, CallWitness(m)
  PROVE  m \in Nat \ {0} /\ \E l \in Launches : Launch(m, l)
<1>1. MaxRows \in Nat  BY DenseAssumption
<1>2. m >= 1 /\ Witness(m)  BY DEF CallWitness, Witness
<1>3. PICK l : l = [kernel |-> "pointer", m |-> WitnessBlockM(m), n |-> BlockN,
                    k |-> BlockK, bias |-> FALSE]
  OBVIOUS
<1>4. l \in Launches  BY <1>3, DenseAssumption DEF Launches, WitnessBlockM
<1>5. Launch(m, l)  BY <1>2, <1>3 DEF Witness
<1>6. QED  BY <1>1, <1>2, <1>4, <1>5

LEMMA MmLaunches ==
  ASSUME NEW m \in 1 .. MaxRows, NEW blocks \in Configs, NEW bias \in BOOLEAN,
         MmBatchInvariant(m, blocks, bias)
  PROVE  m \in Nat \ {0} /\ \E l \in Launches : Launch(m, l)
<1>1. MaxRows \in Nat  BY DenseAssumption
<1>2. blocks.m \in Nat \ {0} /\ blocks.n \in Nat \ {0} /\ blocks.k \in Nat \ {0}
  <2>1. blocks \in [m : Nat \ {0}, n : Nat \ {0}, k : Nat \ {0}]  BY DenseAssumption
  <2>2. QED  BY <2>1
<1>3. \A kernel \in {"pointer", "descriptor"} :
        [kernel |-> kernel, m |-> blocks.m, n |-> blocks.n, k |-> blocks.k, bias |-> bias]
          \in Launches
  BY <1>2 DEF Launches
<1>4. \E kernel \in {"pointer", "descriptor"} :
        Launch(m, [kernel |-> kernel, m |-> blocks.m, n |-> blocks.n, k |-> blocks.k,
                   bias |-> bias])
  BY Zenon DEF MmBatchInvariant, MatmulPersistent, MatmulDescriptor
<1>5. \E l \in Launches : Launch(m, l)  BY <1>3, <1>4, Zenon
<1>6. m \in Nat \ {0}  BY <1>1
<1>7. QED  BY <1>5, <1>6

LEMMA DenseInvStep == DenseInv /\ [OpsNext]_opsVars => DenseInv'
<1> SUFFICES ASSUME DenseInv, [OpsNext]_opsVars PROVE DenseInv'  OBVIOUS
<1>1. ASSUME UNCHANGED denseVars PROVE DenseInv'
  BY <1>1 DEF denseVars, DenseInv, DenseTypes, ProgramInv, Running
<1>2. CASE EnableBatchInvariantMode  BY <1>1, <1>2 DEF EnableBatchInvariantMode
<1>3. CASE InitBatchInvariance  BY <1>1, <1>3 DEF InitBatchInvariance
<1>4. CASE BuildWitness  BY <1>1, <1>4 DEF BuildWitness
<1>5. CASE \E m \in 0 .. MaxRows : CallWitness(m)
  <2>1. PICK m \in 0 .. MaxRows : CallWitness(m)  BY <1>5
  <2>2. m \in Nat \ {0} /\ \E l \in Launches : Launch(m, l)  BY <2>1, WitnessLaunches
  <2>3. QED  BY <2>2, LaunchKeeps
<1>6. CASE \E m \in 1 .. MaxRows, blocks \in Configs, bias \in BOOLEAN :
             MmBatchInvariant(m, blocks, bias)
  <2>1. PICK m \in 1 .. MaxRows, blocks \in Configs, bias \in BOOLEAN :
          MmBatchInvariant(m, blocks, bias)
    BY <1>6
  <2>2. m \in Nat \ {0} /\ \E l \in Launches : Launch(m, l)  BY <2>1, MmLaunches
  <2>3. QED  BY <2>2, LaunchKeeps
<1>7. CASE DenseStep
  BY <1>7, DoneKeeps, AccumulateKeeps, StoreKeeps DEF DenseStep
<1>8. CASE \E o \in Operations : Operate(o)  BY <1>1, <1>8 DEF Operate
<1>9. CASE Forget  BY <1>1, <1>9 DEF Forget
<1>10. CASE UNCHANGED opsVars  BY <1>1, <1>10 DEF opsVars
<1>11. QED
  BY <1>2, <1>3, <1>4, <1>5, <1>6, <1>7, <1>8, <1>9, <1>10 DEF OpsNext

\* Whatever the shape, the blocks, the number of programs and the batches, every
\* element the persistent product stores is that of its own row and column, once, and
\* at the end of the kernel all are stored (StableDenseWitness, matmul_persistent).
THEOREM AlwaysOwnProducts == OpsSpec => []OwnProducts
<1>1. OpsInit => DenseInv  BY DenseInitInv DEF OpsInit
<1>2. DenseInv /\ [OpsNext]_opsVars => DenseInv'  BY DenseInvStep
<1>3. DenseInv => OwnProducts  BY InvOwnProducts
<1>4. QED  BY <1>1, <1>2, <1>3, PTL DEF OpsSpec

\* The mode is off until the first call of an entry, and the overrides are in place
\* exactly when it is on.
ModeInv ==
    /\ mode \in BOOLEAN /\ inits \in Nat \X Nat
    /\ DOMAIN impls = MatmulOps \cup RowOps
    /\ inits = <<0, 0>> => ~mode
    /\ OverridesOnce

LEMMA EnabledKeeps ==
  ASSUME ModeInv, NEW env, Enabled(env), platform' = platform
  PROVE  /\ mode' \in BOOLEAN /\ DOMAIN impls' = DOMAIN impls
         /\ \A o \in DOMAIN impls' : impls'[o] = IF mode' /\ o \in Overrides' THEN 1 ELSE 0
         /\ ~mode /\ platform = "cuda" => cublas' = ":16:8"
<1>1. Overrides' = Overrides  BY DEF Overrides
<1>2. CASE mode
  <2>1. mode' = mode /\ impls' = impls  BY <1>2 DEF Enabled, Enters
  <2>2. QED  BY <1>1, <1>2, <2>1 DEF ModeInv, OverridesOnce
<1>3. CASE ~mode
  <2>1. /\ mode' = TRUE /\ cublas' = WorkspaceConfig(env)
        /\ impls' = [o \in DOMAIN impls |->
                       IF o \in Overrides THEN impls[o] + 1 ELSE impls[o]]
    BY <1>3 DEF Enabled, Enters
  <2>2. \A o \in DOMAIN impls : impls[o] = 0  BY <1>3 DEF ModeInv, OverridesOnce
  <2>3. QED  BY <1>1, <2>1, <2>2 DEF WorkspaceConfig
<1>4. QED  BY <1>2, <1>3 DEF ModeInv

LEMMA ModeInvStep == ModeInv /\ [OpsNext]_opsVars => ModeInv'
<1> SUFFICES ASSUME ModeInv, [OpsNext]_opsVars PROVE ModeInv'  OBVIOUS
<1>1. ASSUME platform' = platform, mode' = mode, impls' = impls, cublas' = cublas,
             inits' = inits
      PROVE  ModeInv'
  BY <1>1 DEF ModeInv, OverridesOnce, Overrides
<1>2. CASE EnableBatchInvariantMode
  <2>1. Enabled(cublas) /\ platform' = platform /\ inits' = [inits EXCEPT ![2] = @ + 1]
    BY <1>2 DEF EnableBatchInvariantMode
  <2>2. inits' \in Nat \X Nat /\ inits' # <<0, 0>> /\ inits' # <<1, 0>>
    BY <2>1 DEF ModeInv
  <2>3. QED  BY <2>1, <2>2, EnabledKeeps DEF ModeInv, OverridesOnce
<1>3. CASE InitBatchInvariance
  <2>1. platform' = platform /\ inits' = [inits EXCEPT ![1] = @ + 1]
    BY <1>3 DEF InitBatchInvariance
  <2>2. inits' \in Nat \X Nat /\ inits' # <<0, 0>> /\ (inits' = <<1, 0>> => inits = <<0, 0>>)
    BY <2>1 DEF ModeInv
  <2>3. CASE flag
    <3>1. Enabled(":4096:8")  BY <1>3, <2>3 DEF InitBatchInvariance
    <3>2. QED  BY <2>1, <2>2, <3>1, EnabledKeeps DEF ModeInv, OverridesOnce
  <2>4. CASE ~flag
    <3>1. mode' = mode /\ impls' = impls  BY <1>3, <2>4 DEF InitBatchInvariance
    <3>2. QED  BY <2>1, <2>2, <3>1 DEF ModeInv, OverridesOnce, Overrides
  <2>5. QED  BY <2>3, <2>4
<1>4. CASE BuildWitness  BY <1>1, <1>4 DEF BuildWitness
<1>5. CASE \E m \in 0 .. MaxRows : CallWitness(m)  BY <1>1, <1>5 DEF CallWitness, modeVars
<1>6. CASE \E m \in 1 .. MaxRows, blocks \in Configs, bias \in BOOLEAN :
             MmBatchInvariant(m, blocks, bias)
  BY <1>1, <1>6 DEF MmBatchInvariant, modeVars
<1>7. CASE DenseStep /\ UNCHANGED <<modeVars, result>>  BY <1>1, <1>7 DEF modeVars
<1>8. CASE \E o \in Operations : Operate(o)  BY <1>1, <1>8 DEF Operate, modeVars
<1>9. CASE Forget  BY <1>1, <1>9 DEF Forget, modeVars
<1>10. CASE UNCHANGED opsVars  BY <1>1, <1>10 DEF opsVars, modeVars
<1>11. QED
  BY <1>2, <1>3, <1>4, <1>5, <1>6, <1>7, <1>8, <1>9, <1>10 DEF OpsNext

\* However often and by whichever entry the mode is asked for, torch's operations are
\* overridden once, and not before; and the one call of init_batch_invariance leaves
\* its workspace setting in force (enable_batch_invariant_mode).
THEOREM OverridesAlwaysOnce == OpsSpec => []OverridesOnce
<1>1. OpsInit => ModeInv
  <2> SUFFICES ASSUME OpsInit PROVE ModeInv  OBVIOUS
  <2>1. ~mode /\ mode = FALSE /\ inits = <<0, 0>>  BY DEF OpsInit
  <2>2. DOMAIN impls = MatmulOps \cup RowOps /\ \A o \in DOMAIN impls : impls[o] = 0
    BY DEF OpsInit
  <2>3. OverridesOnce  BY <2>1, <2>2 DEF OverridesOnce
  <2>4. QED  BY <2>1, <2>2, <2>3 DEF ModeInv
<1>2. ModeInv /\ [OpsNext]_opsVars => ModeInv'  BY ModeInvStep
<1>3. ModeInv => OverridesOnce  BY DEF ModeInv
<1>4. QED  BY <1>1, <1>2, <1>3, PTL DEF OpsSpec

\* A factor that divides.
LEMMA Exact ==
  ASSUME NEW n \in Nat \ {0}, NEW b \in Nat \ {0}, n % b = 0
  PROVE  n \div b \in Nat \ {0} /\ n = b * (n \div b)
<1>1. PICK q \in Nat, r \in 0 .. b - 1 :
        n \div b = q /\ n % b = r /\ n = b * q + r /\ b * q \in Nat
  BY Divide, Zenon
<1>2. r = 0 /\ n = b * q  BY <1>1
<1>3. q # 0  BY <1>2
<1>4. QED  BY <1>1, <1>2, <1>3

LEMMA MulCancel ==
  ASSUME NEW k \in Nat \ {0}, NEW x \in Int, NEW y \in Int, k * x = k * y
  PROVE  x = y
<1>1. ~(x < y) /\ ~(y < x)
  <2>1. k * x \in Int /\ k * y \in Int  OBVIOUS
  <2>2. QED  BY <2>1, MulMonotone
<1>2. QED  BY <1>1

\* Row x of head a among heads of H rows.
LEMMA HeadRows ==
  ASSUME NEW n \in Nat \ {0}, NEW H \in Nat \ {0}, NEW a \in 0 .. n - 1, NEW x \in 0 .. H - 1
  PROVE  /\ a * H + x \in 0 .. n * H - 1
         /\ (a * H + x) \div H = a /\ (a * H + x) % H = x
<1>1. a \in Nat /\ x \in Nat /\ a * H \in Nat /\ n * H \in Nat /\ a * H = H * a  OBVIOUS
<1>2. (H * a + x) \div H = a /\ (H * a + x) % H = x  BY <1>1, DivIs
<1>3. H * (a + 1) <= H * n  BY <1>1, MulMonotone
<1>4. H * (a + 1) = a * H + H /\ H * n = n * H  BY <1>1
<1>5. a * H + x <= n * H - 1  BY <1>1, <1>3, <1>4
<1>6. QED  BY <1>1, <1>2, <1>5

\* The head and the row of a place.
LEMMA PlaceRows ==
  ASSUME NEW n \in Nat \ {0}, NEW H \in Nat \ {0}, NEW i \in 0 .. n * H - 1
  PROVE  /\ i \div H \in 0 .. n - 1 /\ i % H \in 0 .. H - 1
         /\ i = (i \div H) * H + (i % H)
<1>1. n * H \in Nat /\ i \in Nat  OBVIOUS
<1>2. PICK q \in Nat, r \in 0 .. H - 1 :
        i \div H = q /\ i % H = r /\ i = H * q + r /\ H * q \in Nat
  BY <1>1, Divide, Zenon
<1>3. H * n = n * H  OBVIOUS
<1>4. H * q < H * n  BY <1>1, <1>2, <1>3
<1>5. q < n  BY <1>2, <1>4, MulMonotone
<1>6. H * q = q * H  BY <1>2
<1>7. QED  BY <1>2, <1>5, <1>6

-----------------------------------------------------------------------------
(* The checkpoint's rows. *)

\* What a geometry that is accepted has: q query and k kv heads in a chunk of R rows.
Chunks(g, q, k, R) ==
    /\ g.hd \in Nat \ {0} /\ g.vd \in Nat \ {0} /\ g.ckpt \in Nat \ {0}
    /\ q \in Nat \ {0} /\ k \in Nat \ {0} /\ R \in Nat \ {0}
    /\ QHeadsPerChunk(g) = q /\ KvHeadsPerChunk(g) = k /\ RowsPerChunk(g) = R
    /\ QPerChunk(g) = q * g.hd /\ KPerChunk(g) = k * g.hd
    /\ R = q * g.hd + k * g.hd + k * g.vd
    /\ g.heads = g.ckpt * q /\ g.kv = g.ckpt * k

Positive(g) ==
    /\ g.heads \in Nat \ {0} /\ g.kv \in Nat \ {0} /\ g.hd \in Nat \ {0} /\ g.vd \in Nat \ {0}
    /\ g.ckpt \in Nat \ {0} /\ g.tp \in Nat \ {0} /\ g.block \in Nat \ {0}
    /\ g.heads % g.kv = 0

LEMMA ChunksOf ==
  ASSUME NEW g, Positive(g), Accepts(g)
  PROVE  \E q, k, R : Chunks(g, q, k, R)
<1>1. /\ g.heads \in Nat \ {0} /\ g.kv \in Nat \ {0} /\ g.hd \in Nat \ {0} /\ g.vd \in Nat \ {0}
      /\ g.ckpt \in Nat \ {0}
  BY DEF Positive
<1>2. g.heads % g.ckpt = 0 /\ g.kv % g.ckpt = 0  BY DEF Accepts, ChunksDivide
<1>3a. g.heads \div g.ckpt \in Nat \ {0} /\ g.heads = g.ckpt * (g.heads \div g.ckpt)
  BY <1>1, <1>2, Exact, Zenon
<1>3. PICK q \in Nat \ {0} : g.heads \div g.ckpt = q /\ g.heads = g.ckpt * q
  BY <1>3a, Zenon
<1>4a. g.kv \div g.ckpt \in Nat \ {0} /\ g.kv = g.ckpt * (g.kv \div g.ckpt)
  BY <1>1, <1>2, Exact, Zenon
<1>4. PICK k \in Nat \ {0} : g.kv \div g.ckpt = k /\ g.kv = g.ckpt * k
  BY <1>4a, Zenon
<1>5. /\ QHeadsPerChunk(g) = q /\ KvHeadsPerChunk(g) = k
      /\ QPerChunk(g) = q * g.hd /\ KPerChunk(g) = k * g.hd /\ VPerChunk(g) = k * g.vd
  BY <1>3, <1>4 DEF QHeadsPerChunk, KvHeadsPerChunk, QPerChunk, KPerChunk, VPerChunk
<1>6. RowsPerChunk(g) = q * g.hd + k * g.hd + k * g.vd
  BY <1>5 DEF Accepts, RowsMatch
<1>7. q * g.hd + k * g.hd + k * g.vd \in Nat \ {0}
  <2>1. \A a, b \in Nat \ {0} : a * b \in Nat \ {0}  OBVIOUS
  <2>2. q * g.hd \in Nat \ {0} /\ k * g.hd \in Nat \ {0} /\ k * g.vd \in Nat \ {0}
    BY <1>1, <2>1
  <2>3. QED  BY <2>2
<1>8. Chunks(g, q, k, RowsPerChunk(g))
  BY <1>1, <1>3, <1>4, <1>5, <1>6, <1>7 DEF Chunks
<1>9. QED  BY <1>8

\* A head's chunk and its place there.
LEMMA HeadPlace ==
  ASSUME NEW c \in Nat \ {0}, NEW n \in Nat \ {0}, NEW h \in 0 .. c * n - 1
  PROVE  /\ h \div n \in 0 .. c - 1 /\ h % n \in 0 .. n - 1
         /\ (h \div n) * n + (h % n) = h
BY PlaceRows

\* Row o of chunk b.
LEMMA ChunkRow ==
  ASSUME NEW R \in Nat \ {0}, NEW b \in Nat, NEW o \in 0 .. R - 1
  PROVE  (b * R + o) \div R = b /\ (b * R + o) % R = o
<1>1. b * R = R * b  OBVIOUS
<1>2. QED  BY <1>1, DivIs

\* The docstring's layout has the rows where index looks for them.
LEMMA QRowIs ==
  ASSUME NEW g, NEW q, NEW k, NEW R, Chunks(g, q, k, R),
         NEW h \in 0 .. g.heads - 1, NEW x \in 0 .. g.hd - 1
  PROVE  /\ CkptRow(g, QRow(g, h, x)) = Row("q", h, x)
         /\ QRow(g, h, x) \in Nat /\ QRow(g, h, x) \div R < g.ckpt
<1>1. /\ g.hd \in Nat \ {0} /\ g.vd \in Nat \ {0} /\ g.ckpt \in Nat \ {0}
      /\ q \in Nat \ {0} /\ k \in Nat \ {0} /\ R \in Nat \ {0}
  BY DEF Chunks
<1>2. /\ QHeadsPerChunk(g) = q /\ RowsPerChunk(g) = R /\ QPerChunk(g) = q * g.hd
      /\ R = q * g.hd + k * g.hd + k * g.vd /\ g.heads = g.ckpt * q
  BY DEF Chunks
<1>3. PICK b \in 0 .. g.ckpt - 1 : b = h \div q  BY <1>1, <1>2, HeadPlace
<1>3a. b \in Nat  BY <1>1
<1>4. PICK a \in 0 .. q - 1 : a = h % q  BY <1>1, <1>2, HeadPlace
<1>5. b * q + a = h  BY <1>1, <1>2, <1>3, <1>4, HeadPlace
<1>6a. /\ a * g.hd + x \in 0 .. q * g.hd - 1
      /\ (a * g.hd + x) \div g.hd = a /\ (a * g.hd + x) % g.hd = x
  <2>1. PICK H \in Nat \ {0} : H = g.hd  BY <1>1
  <2>2. q \in Nat \ {0} /\ a \in 0 .. q - 1 /\ x \in 0 .. H - 1
    BY <1>1, <2>1
  <2>3. /\ a * H + x \in 0 .. q * H - 1
        /\ (a * H + x) \div H = a /\ (a * H + x) % H = x
    BY <2>2, HeadRows
  <2>4. QED  BY <2>1, <2>3
<1>6. PICK o \in 0 .. q * g.hd - 1 : o = a * g.hd + x /\ o \div g.hd = a /\ o % g.hd = x
  BY <1>6a, Zenon
<1>7. o \in 0 .. R - 1
  <2>1. q * g.hd \in Nat /\ k * g.hd \in Nat /\ k * g.vd \in Nat  BY <1>1
  <2>2. QED  BY <1>2, <1>6, <2>1
<1>8. QRow(g, h, x) = b * R + o
  <2>1. QRow(g, h, x) = b * R + a * g.hd + x  BY <1>2, <1>3, <1>4 DEF QRow
  <2>2. b * R \in Nat /\ a * g.hd \in Nat /\ x \in Nat  BY <1>1, <1>3, <1>4
  <2>3. QED  BY <1>6, <2>1, <2>2
<1>9. (b * R + o) \div R = b /\ (b * R + o) % R = o /\ b * R + o \in Nat
  <2>1. (b * R + o) \div R = b /\ (b * R + o) % R = o
    <3>1. R \in Nat \ {0} /\ b \in Nat /\ o \in 0 .. R - 1  BY <1>1, <1>3a, <1>7
    <3>2. QED  BY <3>1, ChunkRow, Zenon
  <2>2. b * R + o \in Nat  BY <1>1, <1>3a
  <2>3. QED  BY <2>1, <2>2
<1>10. o < q * g.hd
  <2>1. q * g.hd \in Nat  BY <1>1
  <2>2. QED  BY <1>6, <2>1
<1>11. CkptRow(g, b * R + o) = Row("q", b * q + a, x)
  BY <1>2, <1>6, <1>9, <1>10 DEF CkptRow
<1>12. QED  BY <1>1, <1>3, <1>5, <1>8, <1>9, <1>11

LEMMA KRowIs ==
  ASSUME NEW g, NEW q, NEW k, NEW R, Chunks(g, q, k, R),
         NEW h \in 0 .. g.kv - 1, NEW x \in 0 .. g.hd - 1
  PROVE  /\ CkptRow(g, KRow(g, h, x)) = Row("k", h, x)
         /\ KRow(g, h, x) \in Nat /\ KRow(g, h, x) \div R < g.ckpt
<1>1. /\ g.hd \in Nat \ {0} /\ g.vd \in Nat \ {0} /\ g.ckpt \in Nat \ {0}
      /\ q \in Nat \ {0} /\ k \in Nat \ {0} /\ R \in Nat \ {0}
  BY DEF Chunks
<1>2. /\ KvHeadsPerChunk(g) = k /\ RowsPerChunk(g) = R /\ QPerChunk(g) = q * g.hd
      /\ KPerChunk(g) = k * g.hd
      /\ R = q * g.hd + k * g.hd + k * g.vd /\ g.kv = g.ckpt * k
  BY DEF Chunks
<1>3. PICK b \in 0 .. g.ckpt - 1 : b = h \div k  BY <1>1, <1>2, HeadPlace
<1>3a. b \in Nat  BY <1>1
<1>4. PICK a \in 0 .. k - 1 : a = h % k  BY <1>1, <1>2, HeadPlace
<1>5. b * k + a = h  BY <1>1, <1>2, <1>3, <1>4, HeadPlace
<1>6a. /\ a * g.hd + x \in 0 .. k * g.hd - 1
      /\ (a * g.hd + x) \div g.hd = a /\ (a * g.hd + x) % g.hd = x
  <2>1. PICK H \in Nat \ {0} : H = g.hd  BY <1>1
  <2>2. k \in Nat \ {0} /\ a \in 0 .. k - 1 /\ x \in 0 .. H - 1
    BY <1>1, <2>1
  <2>3. /\ a * H + x \in 0 .. k * H - 1
        /\ (a * H + x) \div H = a /\ (a * H + x) % H = x
    BY <2>2, HeadRows
  <2>4. QED  BY <2>1, <2>3
<1>6. PICK y \in 0 .. k * g.hd - 1 : y = a * g.hd + x /\ y \div g.hd = a /\ y % g.hd = x
  BY <1>6a, Zenon
<1>p. PICK s, u, v \in Nat : s = q * g.hd /\ u = k * g.hd /\ v = k * g.vd  BY <1>1
<1>7. PICK o \in 0 .. R - 1 : o = s + y  BY <1>2, <1>6, <1>p
<1>8. KRow(g, h, x) = b * R + o
  <2>1. KRow(g, h, x) = b * R + s + a * g.hd + x  BY <1>2, <1>3, <1>4, <1>p DEF KRow
  <2>2. b * R \in Nat /\ a * g.hd \in Nat /\ x \in Nat  BY <1>1, <1>3, <1>4
  <2>3. QED  BY <1>6, <1>7, <1>p, <2>1, <2>2
<1>9. (b * R + o) \div R = b /\ (b * R + o) % R = o /\ b * R + o \in Nat
  <2>1. (b * R + o) \div R = b /\ (b * R + o) % R = o
    BY <1>1, <1>3a, ChunkRow, Zenon
  <2>2. b * R + o \in Nat  BY <1>1, <1>3a
  <2>3. QED  BY <2>1, <2>2
<1>10. ~(o < s) /\ o - s = y /\ y < u  BY <1>6, <1>7, <1>p
<1>11. CkptRow(g, b * R + o) = Row("k", b * k + a, x)
  BY <1>2, <1>6, <1>9, <1>10, <1>p DEF CkptRow
<1>12. QED  BY <1>1, <1>3, <1>5, <1>8, <1>9, <1>11

LEMMA VRowIs ==
  ASSUME NEW g, NEW q, NEW k, NEW R, Chunks(g, q, k, R),
         NEW h \in 0 .. g.kv - 1, NEW x \in 0 .. g.vd - 1
  PROVE  /\ CkptRow(g, VRow(g, h, x)) = Row("v", h, x)
         /\ VRow(g, h, x) \in Nat /\ VRow(g, h, x) \div R < g.ckpt
<1>1. /\ g.hd \in Nat \ {0} /\ g.vd \in Nat \ {0} /\ g.ckpt \in Nat \ {0}
      /\ q \in Nat \ {0} /\ k \in Nat \ {0} /\ R \in Nat \ {0}
  BY DEF Chunks
<1>2. /\ KvHeadsPerChunk(g) = k /\ RowsPerChunk(g) = R /\ QPerChunk(g) = q * g.hd
      /\ KPerChunk(g) = k * g.hd
      /\ R = q * g.hd + k * g.hd + k * g.vd /\ g.kv = g.ckpt * k
  BY DEF Chunks
<1>3. PICK b \in 0 .. g.ckpt - 1 : b = h \div k  BY <1>1, <1>2, HeadPlace
<1>3a. b \in Nat  BY <1>1
<1>4. PICK a \in 0 .. k - 1 : a = h % k  BY <1>1, <1>2, HeadPlace
<1>5. b * k + a = h  BY <1>1, <1>2, <1>3, <1>4, HeadPlace
<1>6a. /\ a * g.vd + x \in 0 .. k * g.vd - 1
      /\ (a * g.vd + x) \div g.vd = a /\ (a * g.vd + x) % g.vd = x
  <2>1. PICK H \in Nat \ {0} : H = g.vd  BY <1>1
  <2>2. k \in Nat \ {0} /\ a \in 0 .. k - 1 /\ x \in 0 .. H - 1
    BY <1>1, <2>1
  <2>3. /\ a * H + x \in 0 .. k * H - 1
        /\ (a * H + x) \div H = a /\ (a * H + x) % H = x
    BY <2>2, HeadRows
  <2>4. QED  BY <2>1, <2>3
<1>6. PICK y \in 0 .. k * g.vd - 1 : y = a * g.vd + x /\ y \div g.vd = a /\ y % g.vd = x
  BY <1>6a, Zenon
<1>p. PICK s, u, v \in Nat : s = q * g.hd /\ u = k * g.hd /\ v = k * g.vd  BY <1>1
<1>7. PICK o \in 0 .. R - 1 : o = s + u + y  BY <1>2, <1>6, <1>p
<1>8. VRow(g, h, x) = b * R + o
  <2>1. VRow(g, h, x) = b * R + s + u + a * g.vd + x  BY <1>2, <1>3, <1>4, <1>p DEF VRow
  <2>2. b * R \in Nat /\ a * g.vd \in Nat /\ x \in Nat  BY <1>1, <1>3, <1>4
  <2>3. QED  BY <1>6, <1>7, <1>p, <2>1, <2>2
<1>9. (b * R + o) \div R = b /\ (b * R + o) % R = o /\ b * R + o \in Nat
  <2>1. (b * R + o) \div R = b /\ (b * R + o) % R = o
    BY <1>1, <1>3a, ChunkRow, Zenon
  <2>2. b * R + o \in Nat  BY <1>1, <1>3a
  <2>3. QED  BY <2>1, <2>2
<1>10. ~(o < s) /\ ~(o - s < u) /\ o - s - u = y  BY <1>6, <1>7, <1>p
<1>11. CkptRow(g, b * R + o) = Row("v", b * k + a, x)
  BY <1>2, <1>6, <1>9, <1>10, <1>p DEF CkptRow
<1>12. QED  BY <1>1, <1>3, <1>5, <1>8, <1>9, <1>11

-----------------------------------------------------------------------------
(* The scales. *)

LEMMA CeilIs ==
  ASSUME NEW n \in Nat \ {0}, NEW b \in Nat \ {0}
  PROVE  /\ CeilDivide(n, b) \in Nat \ {0}
         /\ n <= b * CeilDivide(n, b) /\ b * CeilDivide(n, b) < n + b
<1>1. PICK m \in Nat : m = n + b - 1  OBVIOUS
<1>2. PICK q \in Nat, r \in 0 .. b - 1 :
        m \div b = q /\ m % b = r /\ m = b * q + r /\ b * q \in Nat
  BY <1>1, Divide, Zenon
<1>3. CeilDivide(n, b) = q  BY <1>1, <1>2 DEF CeilDivide
<1>4. n <= b * q /\ b * q < n + b  BY <1>1, <1>2
<1>5. q # 0  BY <1>2, <1>4
<1>6. QED  BY <1>2, <1>3, <1>4, <1>5

LEMMA CeilWithin ==
  ASSUME NEW n \in Nat \ {0}, NEW b \in Nat \ {0}, NEW x \in 0 .. n - 1
  PROVE  x \div b \in 0 .. CeilDivide(n, b) - 1
<1>1. PICK c \in Nat \ {0} : CeilDivide(n, b) = c /\ n <= b * c  BY CeilIs, Zenon
<1>2. x \in Nat  OBVIOUS
<1>3. PICK q \in Nat, r \in 0 .. b - 1 :
        x \div b = q /\ x % b = r /\ x = b * q + r /\ b * q \in Nat
  BY <1>2, Divide, Zenon
<1>4. b * c \in Nat  OBVIOUS
<1>5. b * q < b * c  BY <1>1, <1>3, <1>4
<1>6. q < c  BY <1>1, <1>3, <1>5, MulMonotone
<1>7. QED  BY <1>1, <1>3, <1>6

\* All chunks together are the tensor.
LEMMA AllRows ==
  ASSUME NEW g, NEW q, NEW k, NEW R, Chunks(g, q, k, R),
         g.rows = g.heads * g.hd + g.kv * (g.hd + g.vd)
  PROVE  g.rows = g.ckpt * R
<1>1. PICK c, H, V \in Nat \ {0} : c = g.ckpt /\ H = g.hd /\ V = g.vd  BY DEF Chunks
<1>2. /\ q \in Nat \ {0} /\ k \in Nat \ {0} /\ R = q * H + k * H + k * V
      /\ g.heads = c * q /\ g.kv = c * k
  BY <1>1 DEF Chunks
<1>3. g.rows = (c * q) * H + (c * k) * (H + V)  BY <1>1, <1>2
<1>4. c * (q * H + k * H + k * V) = (c * q) * H + (c * k) * (H + V)  BY <1>2
<1>5. QED  BY <1>1, <1>2, <1>3, <1>4

\* How many scales there are says how they are laid out.
Scales(g) ==
    /\ g.chunked => PerChunkScales(g)
    /\ ~g.chunked => /\ OneGrid(g)
                     /\ \/ g.ckpt = 1 \/ RowsPerChunk(g) % g.block = 0
                        \/ g.ckpt * ChunkScaleRows(g) # CeilDivide(g.rows, g.block)

\* A chunk of whole blocks has the scales of one grid.
Tiled(R, B, row) == (row \div R) * CeilDivide(R, B) + (row % R) \div B
Divides(R, B) == R % B = 0
LEMMA WholeBlocks ==
  ASSUME NEW R \in Nat \ {0}, NEW B \in Nat \ {0}, Divides(R, B), NEW row \in Nat
  PROVE  Tiled(R, B, row) = row \div B
<1>1. PICK r \in Nat \ {0} : R = B * r
  <2>1. R \div B \in Nat \ {0} /\ R = B * (R \div B)  BY Exact, Zenon DEF Divides
  <2>2. QED  BY <2>1, Zenon
<1>2. CeilDivide(R, B) = r
  <2>1. PICK z \in 0 .. B - 1 : z = B - 1  OBVIOUS
  <2>2. R + B - 1 = B * r + z
    <3>1. B * r \in Nat  OBVIOUS
    <3>2. QED  BY <1>1, <2>1, <3>1
  <2>3. (B * r + z) \div B = r  BY <1>1, <2>1, DivIs
  <2>4. QED  BY <2>2, <2>3 DEF CeilDivide
<1>3. PICK b \in Nat, o \in 0 .. R - 1 :
        row \div R = b /\ row % R = o /\ row = R * b + o /\ R * b \in Nat
  BY Divide, Zenon
<1>4. o \in Nat  OBVIOUS
<1>5. PICK p \in Nat, s \in 0 .. B - 1 :
        o \div B = p /\ o % B = s /\ o = B * p + s /\ B * p \in Nat
  BY <1>4, Divide, Zenon
<1>6. PICK m \in Nat : m = b * r + p  BY <1>1, <1>3, <1>5
<1>7. row = B * m + s
  <2>1. (B * r) * b + B * p = B * (b * r + p)  BY <1>1, <1>3, <1>5
  <2>2. s \in Nat /\ (B * r) * b \in Nat  BY <1>1, <1>3, <1>5
  <2>3. QED  BY <1>1, <1>3, <1>5, <1>6, <2>1, <2>2
<1>8. row \div B = m  BY <1>5, <1>6, <1>7, DivIs
<1>9. QED  BY <1>2, <1>3, <1>5, <1>6, <1>8 DEF Tiled

\* scale_index is the scale a row was quantised with.
LEMMA ScaleIs ==
  ASSUME NEW g, NEW R \in Nat \ {0}, RowsPerChunk(g) = R, g.ckpt \in Nat \ {0},
         g.block \in Nat \ {0}, g.rows = g.ckpt * R, Scales(g),
         NEW row \in Nat, row \div R < g.ckpt
  PROVE  ScaleIndex(g, row) = CkptScale(g, row) /\ ScaleIndex(g, row) \in Nat
<1>1. PICK B \in Nat \ {0} : B = g.block  OBVIOUS
<1>2. PICK c \in Nat \ {0} : c = CeilDivide(R, B)  BY <1>1, CeilIs
<1>3. ChunkScaleRows(g) = c  BY <1>1, <1>2 DEF ChunkScaleRows
<1>4. PICK b \in Nat, o \in 0 .. R - 1 :
        row \div R = b /\ row % R = o /\ row = R * b + o /\ R * b \in Nat
  BY Divide, Zenon
<1>5. PICK p \in Nat : p = o \div B
  <2>1. o \in Nat  OBVIOUS
  <2>2. QED  BY <1>1, <2>1, DivMod
<1>6. PICK w \in Nat : w = row \div B  BY <1>1, DivMod
<1>7. b * c + p \in Nat  BY <1>2, <1>4, <1>5
<1>8. ScaleIndex(g, row) = IF PerChunkScales(g) THEN b * c + p ELSE w
  BY <1>1, <1>3, <1>4, <1>5, <1>6 DEF ScaleIndex
<1>9. CkptScale(g, row) = IF g.chunked THEN b * c + p ELSE w
  BY <1>1, <1>3, <1>4, <1>5, <1>6 DEF CkptScale
<1>10. CASE g.chunked  BY <1>7, <1>8, <1>9, <1>10 DEF Scales
<1>11. CASE ~g.chunked /\ ~PerChunkScales(g)  BY <1>6, <1>8, <1>9, <1>11
<1>12. CASE ~g.chunked /\ PerChunkScales(g)
  <2>1. g.ckpt = 1 \/ R % B = 0
    BY <1>1, <1>3, <1>12 DEF Scales, OneGrid, PerChunkScales
  <2>2. CASE R % B = 0
    <3>1. b * c + p = w
      <4>1. Tiled(R, B, row) = row \div B
        <5>1. Divides(R, B)  BY <2>2 DEF Divides
        <5>2. QED  BY <1>1, <5>1, WholeBlocks, Zenon
      <4>2. row \div R = b /\ row % R = o /\ o \div B = p /\ row \div B = w /\ CeilDivide(R, B) = c
        BY <1>2, <1>4, <1>5, <1>6, Zenon
      <4>3. QED  BY <4>1, <4>2, Zenon DEF Tiled
    <3>2. QED  BY <1>7, <1>8, <1>9, <1>12, <3>1
  <2>3. CASE g.ckpt = 1
    <3>1. b = 0  BY <1>4, <2>3
    <3>2. o = row /\ b * c = 0  BY <1>2, <1>4, <3>1
    <3>3. QED  BY <1>5, <1>6, <1>7, <1>8, <1>9, <1>12, <3>2
  <2>4. QED  BY <2>1, <2>2, <2>3
<1>13. QED  BY <1>10, <1>11, <1>12

-----------------------------------------------------------------------------
(* The heads of a rank. *)

\* A query heads and C kv heads of a rank.
Shares(g, A, C) ==
    /\ g.heads \in Nat \ {0} /\ g.kv \in Nat \ {0} /\ g.tp \in Nat \ {0}
    /\ A \in Nat \ {0} /\ C \in Nat \ {0}
    /\ QHeadsPerRank(g) = A /\ KvHeadsPerRank(g) = C
    /\ g.heads = g.tp * A /\ g.heads % g.kv = 0
    /\ g.tp <= g.kv => g.kv = g.tp * C /\ g.kv \div g.tp = C
    /\ g.tp > g.kv => C = 1 /\ g.tp % g.kv = 0

LEMMA SharesOf ==
  ASSUME NEW g, Positive(g), RanksDivide(g)
  PROVE  \E A, C : Shares(g, A, C)
<1>1. PICK h, k, t \in Nat \ {0} : h = g.heads /\ k = g.kv /\ t = g.tp  BY DEF Positive
<1>2. h % t = 0 /\ h % k = 0 /\ (t <= k => k % t = 0) /\ (t > k => t % k = 0)
  BY <1>1 DEF RanksDivide, Positive
<1>3. h \div t \in Nat \ {0} /\ h = t * (h \div t)  BY <1>1, <1>2, Exact, Zenon
<1>4. CASE t <= k
  <2>1. k \div t \in Nat \ {0} /\ k = t * (k \div t)  BY <1>1, <1>2, <1>4, Exact, Zenon
  <2>2. KvHeadsPerRank(g) = k \div t  BY <1>1, <1>4 DEF KvHeadsPerRank
  <2>3. Shares(g, h \div t, k \div t)
    BY <1>1, <1>2, <1>3, <1>4, <2>1, <2>2 DEF Shares, QHeadsPerRank
  <2>4. QED  BY <2>3
<1>5. CASE t > k
  <2>1. KvHeadsPerRank(g) = 1  BY <1>1, <1>5 DEF KvHeadsPerRank
  <2>2. Shares(g, h \div t, 1)
    BY <1>1, <1>2, <1>3, <1>5, <2>1 DEF Shares, QHeadsPerRank
  <2>3. QED  BY <2>2
<1>6. QED  BY <1>1, <1>4, <1>5

LEMMA GroupWithin ==
  ASSUME NEW C \in Nat \ {0}, NEW G \in Nat \ {0}, NEW r \in Nat, NEW a \in 0 .. C - 1,
         NEW h \in a * G .. (a + 1) * G - 1
  PROVE  (r * (C * G) + h) \div G = r * C + a
<1>1. a \in Nat /\ a * G \in Nat /\ (a + 1) * G = a * G + G  OBVIOUS
<1>2. PICK s \in 0 .. G - 1 : s = h - a * G  BY <1>1
<1>3. PICK m \in Nat : m = r * C + a  BY <1>1
<1>4. G * m = r * (C * G) + a * G  BY <1>1, <1>3
<1>5. h \in Int /\ r * (C * G) \in Nat  BY <1>1
<1>6. r * (C * G) + h = G * m + s  BY <1>1, <1>2, <1>4, <1>5
<1>7. QED  BY <1>3, <1>6, DivIs

LEMMA GroupReplicated ==
  ASSUME NEW P \in Nat \ {0}, NEW A \in Nat \ {0}, NEW r \in Nat, NEW h \in 0 .. A - 1
  PROVE  (r * A + h) \div (P * A) = r \div P
<1>1. PICK b \in Nat, s \in 0 .. P - 1 :
        r \div P = b /\ r % P = s /\ r = P * b + s /\ P * b \in Nat
  BY Divide, Zenon
<1>2. s * A + h \in 0 .. P * A - 1  BY HeadRows
<1>3. PICK z \in 0 .. P * A - 1 : z = s * A + h  BY <1>2
<1>4. P * A \in Nat \ {0}
  <2>1. \A x, y \in Nat \ {0} : x * y \in Nat \ {0}  OBVIOUS
  <2>2. QED  BY <2>1
<1>5. r * A = (P * A) * b + s * A
  <2>1. (P * b + s) * A = (P * A) * b + s * A  BY <1>1
  <2>2. QED  BY <1>1, <2>1
<1>6. r * A + h = (P * A) * b + z
  <2>1. s * A \in Nat /\ h \in Nat /\ (P * A) * b \in Nat  BY <1>1
  <2>2. QED  BY <1>3, <1>5, <2>1
<1>7. QED  BY <1>1, <1>3, <1>4, <1>6, DivIs

Group(A, C) == A \div C

\* The kv heads that a rank's query heads h1 .. h2 attend to.
AttendedBy(g, q, h1, h2) == {(q + h) \div (g.heads \div g.kv) : h \in h1 .. h2}

\* The query heads of a local group attend to the kv head the rank holds for it.
LEMMA AttendsOne ==
  ASSUME NEW g, NEW A, NEW C, Shares(g, A, C), NEW rank \in Nat, rank < g.tp,
         NEW a \in 0 .. C - 1
  PROVE  /\ FirstKvHead(g, rank) + a \in 0 .. g.kv - 1
         /\ AttendedBy(g, rank * A, a * Group(A, C), (a + 1) * Group(A, C) - 1)
              = {FirstKvHead(g, rank) + a}
<1>1. PICK k, t, n \in Nat \ {0} : k = g.kv /\ t = g.tp /\ n = g.heads  BY DEF Shares
<1>2. /\ A \in Nat \ {0} /\ C \in Nat \ {0} /\ n = t * A /\ n % k = 0
      /\ t <= k => k = t * C /\ k \div t = C
      /\ t > k => C = 1 /\ t % k = 0
  BY <1>1 DEF Shares
<1>3. n \div k \in Nat \ {0} /\ n = k * (n \div k)  BY <1>1, <1>2, Exact, Zenon
<1>4. PICK G \in Nat \ {0} : G = n \div k /\ n = k * G  BY <1>3, Zenon
<1>5. CASE t <= k
  <2>1. FirstKvHead(g, rank) = rank * C  BY <1>1, <1>2, <1>5 DEF FirstKvHead
  <2>2. A = C * G
    <3>1. t * A = t * (C * G)  BY <1>1, <1>2, <1>4, <1>5
    <3>2. A \in Int /\ C * G \in Int  BY <1>2
    <3>3. QED  BY <1>1, <3>1, <3>2, MulCancel
  <2>3. Group(A, C) = G
    <3>1. 0 \in 0 .. C - 1 /\ C * G = C * G + 0  BY <1>2
    <3>2. (C * G + 0) \div C = G  BY <1>2, <3>1, DivIs
    <3>3. QED  BY <2>2, <3>1, <3>2 DEF Group
  <2>4. \A h \in a * G .. (a + 1) * G - 1 : (rank * A + h) \div G = rank * C + a
    BY <1>2, <2>2, GroupWithin
  <2>5. a * G \in a * G .. (a + 1) * G - 1
    <3>1. a \in Nat /\ a * G \in Nat /\ (a + 1) * G = a * G + G  BY <1>2
    <3>2. QED  BY <3>1
  <2>6. AttendedBy(g, rank * A, a * G, (a + 1) * G - 1) = {rank * C + a}
    BY <1>1, <1>4, <2>4, <2>5 DEF AttendedBy
  <2>7. rank * C + a \in 0 .. k - 1
    <3>1. rank \in 0 .. t - 1  BY <1>1
    <3>2. rank * C + a \in 0 .. t * C - 1  BY <1>2, <3>1, HeadRows
    <3>3. QED  BY <1>2, <1>5, <3>2
  <2>8. QED  BY <1>1, <2>1, <2>3, <2>6, <2>7
<1>6. CASE t > k
  <2>1. t \div k \in Nat \ {0} /\ t = k * (t \div k)  BY <1>1, <1>2, <1>6, Exact, Zenon
  <2>2. PICK P \in Nat \ {0} : P = t \div k /\ t = k * P  BY <2>1, Zenon
  <2>3. FirstKvHead(g, rank) = rank \div P  BY <1>1, <1>6, <2>2 DEF FirstKvHead
  <2>4. C = 1 /\ a = 0  BY <1>2, <1>6
  <2>5. G = P * A
    <3>1. k * G = k * (P * A)  BY <1>1, <1>2, <1>4, <2>2
    <3>2. G \in Int /\ P * A \in Int  BY <1>2
    <3>3. QED  BY <1>1, <3>1, <3>2, MulCancel
  <2>6. Group(A, C) = A  BY <1>2, <2>4 DEF Group
  <2>7. a * A = 0 /\ (a + 1) * A - 1 = A - 1  BY <1>2, <2>4
  <2>8. \A h \in 0 .. A - 1 : (rank * A + h) \div G = rank \div P
    BY <1>2, <2>5, GroupReplicated
  <2>9. AttendedBy(g, rank * A, 0, A - 1) = {rank \div P}
    <3>1. 0 \in 0 .. A - 1  BY <1>2
    <3>2. QED  BY <1>1, <1>4, <2>8, <3>1 DEF AttendedBy
  <2>10. rank \div P \in 0 .. k - 1
    <3>1. rank \in 0 .. k * P - 1  BY <1>1, <2>2
    <3>2. QED  BY <3>1, PlaceRows
  <2>11. QED  BY <1>1, <2>3, <2>4, <2>6, <2>7, <2>9, <2>10
<1>7. QED  BY <1>1, <1>5, <1>6

-----------------------------------------------------------------------------
(* The rows of a rank. *)

\* Row i of the rank is checkpoint row src: the row that forward() splits off there.
RightRow(g, A, C, rank, src, i) ==
    LET k == i - A * g.hd
        v == k - C * g.hd
    IN  /\ src \in Nat /\ src \div RowsPerChunk(g) < g.ckpt
        /\ IF i < A * g.hd THEN CkptRow(g, src) = Row("q", rank * A + i \div g.hd, i % g.hd)
           ELSE IF v < 0
             THEN CkptRow(g, src) = Row("k", FirstKvHead(g, rank) + k \div g.hd, k % g.hd)
           ELSE CkptRow(g, src) = Row("v", FirstKvHead(g, rank) + v \div g.vd, v % g.vd)

LEMMA Sizes ==
  ASSUME NEW g, NEW A, NEW C, Shares(g, A, C), g.hd \in Nat \ {0}, g.vd \in Nat \ {0}
  PROVE  /\ QSize(g) = A * g.hd /\ KSize(g) = C * g.hd /\ VSize(g) = C * g.vd
         /\ RankRows(g) = A * g.hd + C * g.hd + C * g.vd
         /\ A * g.hd \in Nat \ {0} /\ C * g.hd \in Nat \ {0} /\ C * g.vd \in Nat \ {0}
<1>1. A \in Nat \ {0} /\ C \in Nat \ {0} /\ QHeadsPerRank(g) = A /\ KvHeadsPerRank(g) = C
  BY DEF Shares
<1>2. \A x, y \in Nat \ {0} : x * y \in Nat \ {0}  OBVIOUS
<1>3. QED  BY <1>1, <1>2 DEF QSize, KSize, VSize, RankRows

\* The rows gathered from the chunks.
LEMMA GatheredRows ==
  ASSUME NEW g, NEW q, NEW k, NEW R, Chunks(g, q, k, R), NEW A, NEW C, Shares(g, A, C),
         NEW rank \in Nat, rank < g.tp, NEW i \in 0 .. RankRows(g) - 1
  PROVE  RightRow(g, A, C, rank, RowIndex(g, rank, i), i)
<1>1. /\ g.hd \in Nat \ {0} /\ g.vd \in Nat \ {0} /\ RowsPerChunk(g) = R
  BY DEF Chunks
<1>2. PICK H, V \in Nat \ {0} : H = g.hd /\ V = g.vd  BY <1>1
<1>3. PICK s, u, v \in Nat \ {0} : s = A * H /\ u = C * H /\ v = C * V
  BY <1>2, Sizes
<1>4. QSize(g) = s /\ KSize(g) = u /\ RankRows(g) = s + u + v  BY <1>2, <1>3, Sizes
<1>5. A \in Nat \ {0} /\ C \in Nat \ {0} /\ g.tp \in Nat \ {0} /\ g.heads = g.tp * A
      /\ QHeadsPerRank(g) = A
  BY DEF Shares
<1>6. CASE i < s
  <2>1. PICK a \in 0 .. A - 1, x \in 0 .. H - 1 : a = i \div H /\ x = i % H
    <3>1. i \in 0 .. A * H - 1  BY <1>3, <1>6
    <3>2. QED  BY <1>5, <3>1, PlaceRows
  <2>2. rank * A + a \in 0 .. g.tp * A - 1
    <3>1. rank \in 0 .. g.tp - 1  BY <1>5
    <3>2. QED  BY <1>5, <3>1, HeadRows
  <2>3. PICK h \in 0 .. g.heads - 1 : h = rank * A + a  BY <1>5, <2>2
  <2>4. RowIndex(g, rank, i) = QRow(g, h, x)
    BY <1>2, <1>4, <1>5, <1>6, <2>1, <2>3 DEF RowIndex, FirstQHead
  <2>5. /\ CkptRow(g, QRow(g, h, x)) = Row("q", h, x)
        /\ QRow(g, h, x) \in Nat /\ QRow(g, h, x) \div R < g.ckpt
    BY <1>2, QRowIs
  <2>6. QED  BY <1>1, <1>2, <1>3, <1>6, <2>1, <2>3, <2>4, <2>5 DEF RightRow
<1>7. CASE ~(i < s) /\ i - s < u
  <2>1. PICK y \in 0 .. C * H - 1 : y = i - s  BY <1>3, <1>7
  <2>2. PICK a \in 0 .. C - 1, x \in 0 .. H - 1 : a = y \div H /\ x = y % H
    BY <1>5, <2>1, PlaceRows
  <2>3. PICK h \in 0 .. g.kv - 1 : h = FirstKvHead(g, rank) + a
    BY AttendsOne
  <2>4. RowIndex(g, rank, i) = KRow(g, h, x)
    BY <1>2, <1>4, <1>7, <2>1, <2>2, <2>3 DEF RowIndex
  <2>5. /\ CkptRow(g, KRow(g, h, x)) = Row("k", h, x)
        /\ KRow(g, h, x) \in Nat /\ KRow(g, h, x) \div R < g.ckpt
    BY <1>2, KRowIs
  <2>6. i - A * g.hd = y /\ y - C * g.hd < 0 /\ ~(i < A * g.hd)
    BY <1>2, <1>3, <1>7, <2>1
  <2>7. QED  BY <1>1, <1>2, <2>2, <2>3, <2>4, <2>5, <2>6 DEF RightRow
<1>8. CASE ~(i < s) /\ ~(i - s < u)
  <2>1. PICK y \in 0 .. C * V - 1 : y = i - s - u  BY <1>3, <1>4, <1>8
  <2>2. PICK a \in 0 .. C - 1, x \in 0 .. V - 1 : a = y \div V /\ x = y % V
    BY <1>5, <2>1, PlaceRows
  <2>3. PICK h \in 0 .. g.kv - 1 : h = FirstKvHead(g, rank) + a
    BY AttendsOne
  <2>4. RowIndex(g, rank, i) = VRow(g, h, x)
    BY <1>2, <1>4, <1>8, <2>1, <2>2, <2>3 DEF RowIndex
  <2>5. /\ CkptRow(g, VRow(g, h, x)) = Row("v", h, x)
        /\ VRow(g, h, x) \in Nat /\ VRow(g, h, x) \div R < g.ckpt
    BY <1>2, VRowIs
  <2>6. i - A * g.hd - C * g.hd = y /\ ~(y < 0) /\ ~(i < A * g.hd)
    BY <1>2, <1>3, <1>8, <2>1
  <2>7. QED  BY <1>1, <1>2, <2>2, <2>3, <2>4, <2>5, <2>6 DEF RightRow
<1>9. QED  BY <1>6, <1>7, <1>8

\* As many ranks as chunks: a rank's heads are its chunk's.
LEMMA ChunkIsRank ==
  ASSUME NEW g, NEW q, NEW k, NEW R, Chunks(g, q, k, R), NEW A, NEW C, Shares(g, A, C),
         g.tp = g.ckpt
  PROVE  A = q /\ C = k /\ g.tp <= g.kv /\ g.kv \div g.tp = C /\ RankRows(g) = R
<1>1. PICK t \in Nat \ {0} : t = g.tp /\ t = g.ckpt  BY DEF Shares
<1>2. /\ A \in Nat \ {0} /\ C \in Nat \ {0} /\ q \in Nat \ {0} /\ k \in Nat \ {0}
      /\ g.heads = t * A /\ g.heads = t * q /\ g.kv = t * k
      /\ (t <= g.kv => g.kv = t * C /\ g.kv \div t = C)
      /\ R = q * g.hd + k * g.hd + k * g.vd /\ g.hd \in Nat \ {0} /\ g.vd \in Nat \ {0}
  BY <1>1 DEF Chunks, Shares
<1>3. A = q  BY <1>1, <1>2, MulCancel
<1>4. t <= t * k
  <2>1. t * 1 <= t * k  BY <1>1, <1>2, MulMonotone
  <2>2. QED  BY <1>1, <2>1
<1>5. C = k
  <2>1. t * C = t * k  BY <1>2, <1>4
  <2>2. QED  BY <1>1, <1>2, <2>1, MulCancel
<1>6. RankRows(g) = R  BY <1>2, <1>3, <1>5, Sizes
<1>7. QED  BY <1>1, <1>2, <1>3, <1>4, <1>5, <1>6

\* A chunk taken whole.
LEMMA ChunkRows ==
  ASSUME NEW g, NEW q, NEW k, NEW R, Chunks(g, q, k, R), NEW A, NEW C, Shares(g, A, C),
         g.tp = g.ckpt, NEW rank \in Nat, rank < g.tp, NEW i \in 0 .. R - 1
  PROVE  RightRow(g, A, C, rank, rank * R + i, i)
<1>1. A = q /\ C = k /\ g.tp <= g.kv /\ g.kv \div g.tp = C  BY ChunkIsRank
<1>2. /\ q \in Nat \ {0} /\ k \in Nat \ {0} /\ R \in Nat \ {0}
      /\ QHeadsPerChunk(g) = q /\ KvHeadsPerChunk(g) = k /\ RowsPerChunk(g) = R
      /\ QPerChunk(g) = q * g.hd /\ KPerChunk(g) = k * g.hd
      /\ g.hd \in Nat \ {0} /\ g.vd \in Nat \ {0} /\ g.ckpt \in Nat \ {0}
  BY DEF Chunks
<1>3. FirstKvHead(g, rank) = rank * k  BY <1>1 DEF FirstKvHead
<1>4. (rank * R + i) \div R = rank /\ (rank * R + i) % R = i  BY <1>2, ChunkRow
<1>5. rank * R + i \in Nat  BY <1>2
<1>6. PICK src \in Nat : src = rank * R + i /\ src \div R = rank /\ src % R = i
  BY <1>4, <1>5
<1>7. PICK s, u \in Nat : s = q * g.hd /\ u = k * g.hd  BY <1>2
<1>8. CkptRow(g, src) =
        IF i < s THEN Row("q", rank * q + i \div g.hd, i % g.hd)
        ELSE IF i - s < u
          THEN Row("k", rank * k + (i - s) \div g.hd, (i - s) % g.hd)
        ELSE Row("v", rank * k + (i - s - u) \div g.vd, (i - s - u) % g.vd)
  BY <1>2, <1>6, <1>7 DEF CkptRow
<1>9. i - s < u <=> i - s - u < 0  BY <1>7
<1>10. QED  BY <1>1, <1>2, <1>3, <1>6, <1>7, <1>8, <1>9 DEF RightRow

-----------------------------------------------------------------------------
(* The tensors of a rank. *)

\* A geometry that is accepted, with its shares.
Sound(g, rank) ==
    /\ Positive(g) /\ Accepts(g) /\ Scales(g) /\ rank \in Nat /\ rank < g.tp
    /\ g.rows = g.heads * g.hd + g.kv * (g.hd + g.vd)

WeightRows(g, rank) == Cut(ShardWeight(g, rank), RankRows(g))
ScaleRows(g, rank)  == Cut(ShardScales(g, rank), CeilDivide(RankRows(g), g.block))

RightScale(g, w, s, i) ==
    LET b == i \div g.block
    IN  IF w[i].deq = NoScale THEN s[b].src = CkptScale(g, w[i].src)
        ELSE /\ w[i].deq = CkptScale(g, w[i].src)
             /\ s[b].src = NoScale
             /\ s[b].over = {j \in DOMAIN w : j \div g.block = b}

LEMMA ChunkTaken ==
  ASSUME NEW g, NEW rank, Sound(g, rank), NEW q, NEW k, NEW R, Chunks(g, q, k, R),
         NEW A, NEW C, Shares(g, A, C), TakesChunk(g)
  PROVE  /\ DOMAIN WeightRows(g, rank) = 0 .. RankRows(g) - 1
         /\ \A i \in 0 .. RankRows(g) - 1 :
              /\ RightRow(g, A, C, rank, WeightRows(g, rank)[i].src, i)
              /\ RightScale(g, WeightRows(g, rank), ScaleRows(g, rank), i)
<1>1. g.tp = g.ckpt /\ PerChunkScales(g)  BY DEF TakesChunk
<1>2. RankRows(g) = R /\ RowsPerChunk(g) = R /\ R \in Nat \ {0} /\ g.ckpt \in Nat \ {0}
  BY <1>1, ChunkIsRank DEF Chunks
<1>3. rank \in Nat /\ rank < g.tp /\ Scales(g) /\ g.block \in Nat \ {0}
  BY DEF Sound, Positive
<1>4. PICK B \in Nat \ {0} : B = g.block  BY <1>3
<1>5. PICK c \in Nat \ {0} : c = CeilDivide(R, B)  BY <1>2, CeilIs
<1>6. ChunkScaleRows(g) = c  BY <1>2, <1>4, <1>5 DEF ChunkScaleRows
<1>7. ShardWeight(g, rank) = [i \in 0 .. R - 1 |-> [src |-> rank * R + i, deq |-> NoScale]]
  BY <1>2 DEF ShardWeight
<1>8. ShardScales(g, rank) = [b \in 0 .. c - 1 |-> [src |-> rank * c + b, over |-> {}]]
  BY <1>6 DEF ShardScales
<1>9. WeightRows(g, rank) = [i \in 0 .. R - 1 |-> [src |-> rank * R + i, deq |-> NoScale]]
  BY <1>2, <1>7 DEF WeightRows, Cut
<1>10. ScaleRows(g, rank) = [b \in 0 .. c - 1 |-> [src |-> rank * c + b, over |-> {}]]
  BY <1>2, <1>4, <1>5, <1>8 DEF ScaleRows, Cut
<1>11. ASSUME NEW i \in 0 .. R - 1
       PROVE  /\ RightRow(g, A, C, rank, WeightRows(g, rank)[i].src, i)
              /\ RightScale(g, WeightRows(g, rank), ScaleRows(g, rank), i)
  <2>1. WeightRows(g, rank)[i] = [src |-> rank * R + i, deq |-> NoScale]  BY <1>9
  <2>2. PICK b \in 0 .. c - 1 : b = i \div B  BY <1>2, <1>5, CeilWithin
  <2>3. ScaleRows(g, rank)[b].src = rank * c + b  BY <1>10
  <2>4. (rank * R + i) \div R = rank /\ (rank * R + i) % R = i  BY <1>2, <1>3, ChunkRow
  <2>5. PICK src \in Nat : src = rank * R + i /\ src \div R = rank /\ src % R = i
    BY <1>2, <1>3, <2>4
  <2>6. ScaleIndex(g, src) = rank * c + b
    BY <1>1, <1>2, <1>4, <1>6, <2>2, <2>5 DEF ScaleIndex
  <2>7. g.rows = g.ckpt * R  BY AllRows DEF Sound
  <2>8. ScaleIndex(g, src) = CkptScale(g, src)
    BY <1>1, <1>2, <1>3, <2>5, <2>7, ScaleIs
  <2>9. RightScale(g, WeightRows(g, rank), ScaleRows(g, rank), i)
    BY <1>4, <2>1, <2>2, <2>3, <2>5, <2>6, <2>8 DEF RightScale
  <2>10. RightRow(g, A, C, rank, rank * R + i, i)  BY <1>1, <1>3, ChunkRows
  <2>11. QED  BY <2>1, <2>9, <2>10
<1>12. QED  BY <1>2, <1>9, <1>11

LEMMA ChunksGathered ==
  ASSUME NEW g, NEW rank, Sound(g, rank), NEW q, NEW k, NEW R, Chunks(g, q, k, R),
         NEW A, NEW C, Shares(g, A, C), ~TakesChunk(g)
  PROVE  /\ DOMAIN WeightRows(g, rank) = 0 .. RankRows(g) - 1
         /\ \A i \in 0 .. RankRows(g) - 1 :
              /\ RightRow(g, A, C, rank, WeightRows(g, rank)[i].src, i)
              /\ RightScale(g, WeightRows(g, rank), ScaleRows(g, rank), i)
<1>1. rank \in Nat /\ rank < g.tp /\ Scales(g) /\ g.block \in Nat \ {0}
  BY DEF Sound, Positive
<1>2. RowsPerChunk(g) = R /\ R \in Nat \ {0} /\ g.ckpt \in Nat \ {0}
      /\ g.hd \in Nat \ {0} /\ g.vd \in Nat \ {0}
  BY DEF Chunks
<1>3. PICK n \in Nat \ {0} : n = RankRows(g)
  <2>1. PICK s, u, v \in Nat \ {0} : s = A * g.hd /\ u = C * g.hd /\ v = C * g.vd
    BY <1>2, Sizes
  <2>2. RankRows(g) = s + u + v  BY <1>2, <2>1, Sizes
  <2>3. QED  BY <2>2
<1>4. PICK B \in Nat \ {0} : B = g.block  BY <1>1
<1>5. PICK c \in Nat \ {0} : c = CeilDivide(n, B)  BY CeilIs
<1>6. ShardWeight(g, rank) =
        [i \in 0 .. n - 1 |-> [src |-> RowIndex(g, rank, i),
                               deq |-> ScaleIndex(g, RowIndex(g, rank, i))]]
  BY <1>3 DEF ShardWeight
<1>7. ShardScales(g, rank) =
        [b \in 0 .. c - 1 |-> [src |-> NoScale,
                               over |-> {i \in b * B .. (b + 1) * B - 1 : i < n}]]
  BY <1>3, <1>4, <1>5 DEF ShardScales, RequantizedScales
<1>8. WeightRows(g, rank) =
        [i \in 0 .. n - 1 |-> [src |-> RowIndex(g, rank, i),
                               deq |-> ScaleIndex(g, RowIndex(g, rank, i))]]
  BY <1>3, <1>6 DEF WeightRows, Cut
<1>9. ScaleRows(g, rank) =
        [b \in 0 .. c - 1 |-> [src |-> NoScale,
                               over |-> {i \in b * B .. (b + 1) * B - 1 : i < n}]]
  BY <1>3, <1>4, <1>5, <1>7 DEF ScaleRows, Cut
<1>10. ASSUME NEW i \in 0 .. n - 1
       PROVE  /\ RightRow(g, A, C, rank, WeightRows(g, rank)[i].src, i)
              /\ RightScale(g, WeightRows(g, rank), ScaleRows(g, rank), i)
  <2>1. RightRow(g, A, C, rank, RowIndex(g, rank, i), i)  BY <1>1, <1>3, GatheredRows
  <2>2. PICK src \in Nat : src = RowIndex(g, rank, i) /\ src \div R < g.ckpt
    BY <1>2, <2>1 DEF RightRow
  <2>3. WeightRows(g, rank)[i] = [src |-> src, deq |-> ScaleIndex(g, src)]  BY <1>8, <2>2
  <2>4. g.rows = g.ckpt * R  BY AllRows DEF Sound
  <2>5. ScaleIndex(g, src) = CkptScale(g, src) /\ ScaleIndex(g, src) \in Nat
    BY <1>1, <1>2, <2>2, <2>4, ScaleIs
  <2>6. PICK b \in 0 .. c - 1 : b = i \div B  BY <1>5, CeilWithin
  <2>7. /\ ScaleRows(g, rank)[b].src = NoScale
        /\ ScaleRows(g, rank)[b].over = {j \in b * B .. (b + 1) * B - 1 : j < n}
    BY <1>9
  <2>8. {j \in b * B .. (b + 1) * B - 1 : j < n} = {j \in 0 .. n - 1 : j \div B = b}
    <3>1. b \in Nat /\ B * b \in Nat /\ b * B = B * b /\ (b + 1) * B = B * b + B  OBVIOUS
    <3>2. ASSUME NEW j \in 0 .. n - 1, j \div B = b
          PROVE  j \in b * B .. (b + 1) * B - 1
      <4>1. j \in Nat  OBVIOUS
      <4>2. PICK m \in Nat, r \in 0 .. B - 1 :
              j \div B = m /\ j % B = r /\ j = B * m + r /\ B * m \in Nat
        BY <4>1, Divide, Zenon
      <4>3. m = b  BY <3>2, <4>2
      <4>4. j = B * b + r  BY <4>2, <4>3
      <4>5. QED  BY <3>1, <4>4
    <3>3. ASSUME NEW j \in b * B .. (b + 1) * B - 1, j < n
          PROVE  j \in 0 .. n - 1 /\ j \div B = b
      <4>1. PICK r \in 0 .. B - 1 : j = B * b + r
        <5>1. j - B * b \in 0 .. B - 1 /\ j = B * b + (j - B * b)  BY <3>1
        <5>2. QED  BY <5>1
      <4>2. (B * b + r) \div B = b  BY <3>1, DivIs
      <4>3. QED  BY <3>1, <3>3, <4>1, <4>2
    <3>4. QED  BY <3>2, <3>3
  <2>9. DOMAIN WeightRows(g, rank) = 0 .. n - 1  BY <1>8
  <2>10. ScaleIndex(g, src) # NoScale  BY <2>5 DEF NoScale
  <2>11. RightScale(g, WeightRows(g, rank), ScaleRows(g, rank), i)
    BY <1>4, <2>3, <2>5, <2>6, <2>7, <2>8, <2>9, <2>10 DEF RightScale
  <2>12. QED  BY <2>1, <2>2, <2>3, <2>11
<1>11. QED  BY <1>3, <1>8, <1>10

-----------------------------------------------------------------------------
(* A layer. *)

LEMMA DeploymentOf ==
  ASSUME d \in Deployments
  PROVE  /\ d.tp \in Nat \ {0} /\ d.rank \in Nat /\ d.rank < d.tp
         /\ d.pp \in Nat \ {0} /\ d.stage \in Nat /\ d.stage < d.pp
         /\ NumLayers % d.pp = 0 /\ d.scales \in {"chunked", "grid", "bad"}
<1>1. d \in Deployment  BY ModelAssumption
<1>2. d.rank < d.tp /\ d.stage < d.pp /\ NumLayers % d.pp = 0  BY ModelAssumption
<1>3. QED  BY <1>1, <1>2 DEF Deployment

LEMMA FusedFields ==
  ASSUME NEW l, d \in Deployments
  PROVE  /\ Kind(l) \in {"swa", "ga"} /\ Geo(l) = Geometry[Kind(l)]
         /\ Fused(l).heads = Geo(l).heads /\ Fused(l).kv = Geo(l).kv
         /\ Fused(l).hd = Geo(l).hd /\ Fused(l).vd = Geo(l).vd
         /\ Fused(l).tp = d.tp /\ Fused(l).ckpt = CkptTP /\ Fused(l).block = Block
         /\ Fused(l).rows = FusedRows(Geo(l)) /\ Fused(l).chunked = (d.scales = "chunked")
         /\ Positive(Fused(l))
<1>1. Kind(l) \in {"swa", "ga"}  BY DEF Kind
<1>2. Geo(l) = Geometry[Kind(l)]  BY DEF Geo
<1>3. Geo(l) \in [heads : Nat \ {0}, kv : Nat \ {0}, hd : Nat \ {0}, vd : Nat \ {0},
                  sink : BOOLEAN]
  BY <1>1, <1>2, GeometryAssumption
<1>4. Geo(l).heads % Geo(l).kv = 0  BY <1>1, <1>2, GeometryAssumption
<1>5. CkptTP \in Nat \ {0} /\ Block \in Nat \ {0}  BY ModelAssumption
<1>6. /\ Fused(l).heads = Geo(l).heads /\ Fused(l).kv = Geo(l).kv
      /\ Fused(l).hd = Geo(l).hd /\ Fused(l).vd = Geo(l).vd
      /\ Fused(l).tp = d.tp /\ Fused(l).ckpt = CkptTP /\ Fused(l).block = Block
      /\ Fused(l).rows = FusedRows(Geo(l)) /\ Fused(l).chunked = (d.scales = "chunked")
  BY DEF Fused
<1>7. Positive(Fused(l))  BY <1>3, <1>4, <1>5, <1>6, DeploymentOf DEF Positive
<1>8. QED  BY <1>1, <1>2, <1>6, <1>7

\* What is accepted is laid out as its number of scales says; a number that fits no
\* layout is refused.
LEMMA LayerSound ==
  ASSUME NEW l, d \in Deployments, Accepts(Fused(l))
  PROVE  Sound(Fused(l), d.rank)
<1>1. PICK g : g = Fused(l)  OBVIOUS
<1>2. Positive(g) /\ Accepts(g) /\ g.ckpt = CkptTP /\ g.block = Block /\ g.tp = d.tp
      /\ g.rows = FusedRows(Geo(l)) /\ g.chunked = (d.scales = "chunked")
      /\ g.rows = g.heads * g.hd + g.kv * (g.hd + g.vd)
  BY <1>1, FusedFields DEF FusedRows
<1>3. PICK q, k, R : Chunks(g, q, k, R)  BY <1>2, ChunksOf
<1>4. R \in Nat \ {0} /\ RowsPerChunk(g) = R /\ g.ckpt \in Nat \ {0} /\ g.block \in Nat \ {0}
  BY <1>2, <1>3 DEF Chunks, Positive
<1>5. g.rows = g.ckpt * R  BY <1>2, <1>3, AllRows
<1>6. FusedRows(Geo(l)) \div CkptTP = R  BY <1>2, <1>4 DEF RowsPerChunk
<1>7. PICK c \in Nat \ {0} : CeilDivide(R, Block) = c /\ R <= Block * c
  BY <1>2, <1>4, CeilIs
<1>8. ChunkScaleRows(g) = c  BY <1>2, <1>4, <1>7 DEF ChunkScaleRows
<1>9. g.srows = CASE d.scales = "chunked" -> c * CkptTP
                  [] d.scales = "grid" -> CeilDivide(g.rows, Block)
                  [] d.scales = "bad" -> c * CkptTP + 1
  BY <1>1, <1>2, <1>6, <1>7 DEF Fused
<1>10. Scales(g)
  <2>1. CASE d.scales = "chunked"
    <3>1. g.srows = g.ckpt * c  BY <1>2, <1>4, <1>7, <1>9, <2>1
    <3>2. QED  BY <1>2, <1>8, <2>1, <3>1 DEF Scales, PerChunkScales
  <2>2. CASE d.scales = "grid"
    <3>1. OneGrid(g)  BY <1>2, <1>9, <2>2 DEF OneGrid
    <3>2. \/ CkptTP = 1 \/ R % Block = 0
          \/ CkptTP * CeilDivide(R, Block) # CeilDivide(FusedRows(Geo(l)), Block)
      BY <1>6, <2>2, FusedFields, GeometryAssumption
    <3>3. QED  BY <1>2, <1>4, <1>7, <1>8, <2>2, <3>1, <3>2 DEF Scales
  <2>3. CASE d.scales = "bad"
    <3>1. PICK t, B \in Nat \ {0} : t = g.ckpt /\ B = g.block  BY <1>4
    <3>2. g.srows = t * c + 1  BY <1>2, <1>7, <1>9, <2>3, <3>1
    <3>3. ~PerChunkScales(g)  BY <1>7, <1>8, <3>1, <3>2 DEF PerChunkScales
    <3>4. ~OneGrid(g)
      <4>1. PICK n \in Nat \ {0} : n = t * R /\ n = g.rows
        <5>1. \A x, y \in Nat \ {0} : x * y \in Nat \ {0}  OBVIOUS
        <5>2. QED  BY <1>4, <1>5, <3>1, <5>1
      <4>2. PICK z \in Nat \ {0} : z = CeilDivide(n, B) /\ B * z < n + B
        BY <3>1, CeilIs
      <4>3. t * R <= t * (B * c)  BY <1>2, <1>4, <1>7, <3>1, MulMonotone
      <4>4. B * (t * c + 1) = t * (B * c) + B  BY <1>7, <3>1
      <4>5. z # t * c + 1
        <5>1. t * (B * c) \in Nat  BY <1>7
        <5>2. QED  BY <4>1, <4>2, <4>3, <4>4, <5>1
      <4>6. QED  BY <3>1, <3>2, <4>1, <4>2, <4>5 DEF OneGrid
    <3>5. QED  BY <1>2, <3>3, <3>4 DEF Accepts
  <2>4. QED  BY <2>1, <2>2, <2>3, DeploymentOf
<1>11. QED  BY <1>1, <1>2, <1>10, DeploymentOf DEF Sound

\* The layer's own rows and scales.
LEMMA LayerRows ==
  ASSUME NEW l, d \in Deployments, Accepts(Fused(l)), layers[l].attn = Attn(l),
         NEW w, NEW s, w = WeightRows(Fused(l), d.rank), s = ScaleRows(Fused(l), d.rank)
  PROVE  /\ DOMAIN w = 0 .. layers[l].attn.numHeads * Geo(l).hd
                            + layers[l].attn.numKvHeads * (Geo(l).hd + Geo(l).vd) - 1
         /\ \A i \in DOMAIN w : OwnHead(l, w[i].src, i) /\ OwnScale(l, w, s, i)
<1>1. PICK g : g = Fused(l)  OBVIOUS
<1>2. Sound(g, d.rank) /\ Positive(g) /\ Accepts(g)  BY <1>1, LayerSound DEF Sound
<1>3. /\ g.heads = Geo(l).heads /\ g.kv = Geo(l).kv /\ g.hd = Geo(l).hd
      /\ g.vd = Geo(l).vd /\ g.tp = d.tp /\ g.block = Block
  BY <1>1, FusedFields
<1>4. PICK q, k, R : Chunks(g, q, k, R)  BY <1>2, ChunksOf
<1>5. PICK A, C : Shares(g, A, C)  BY <1>2, SharesOf DEF Accepts
<1>6. /\ DOMAIN w = 0 .. RankRows(g) - 1
      /\ \A i \in 0 .. RankRows(g) - 1 :
           RightRow(g, A, C, d.rank, w[i].src, i) /\ RightScale(g, w, s, i)
  BY <1>1, <1>2, <1>4, <1>5, ChunkTaken, ChunksGathered
<1>7. layers[l].attn.numHeads = A /\ layers[l].attn.numKvHeads = C
  BY <1>3, <1>5 DEF Attn, Shares, QHeadsPerRank, KvHeadsPerRank
<1>8. /\ A \in Nat \ {0} /\ C \in Nat \ {0} /\ g.hd \in Nat \ {0} /\ g.vd \in Nat \ {0}
  BY <1>2, <1>5 DEF Shares, Positive
<1>9. RankRows(g) = A * Geo(l).hd + C * (Geo(l).hd + Geo(l).vd)
  <2>1. PICK H, V \in Nat \ {0} : H = g.hd /\ V = g.vd  BY <1>8
  <2>2. RankRows(g) = A * H + C * H + C * V  BY <1>5, <1>8, <2>1, Sizes
  <2>3. C * (H + V) = C * H + C * V /\ C * H \in Nat /\ C * V \in Nat /\ A * H \in Nat
    BY <1>8
  <2>4. QED  BY <1>3, <2>1, <2>2, <2>3
<1>10. ASSUME NEW i \in 0 .. RankRows(g) - 1
       PROVE  OwnHead(l, w[i].src, i) /\ OwnScale(l, w, s, i)
  <2>1. RightRow(g, A, C, d.rank, w[i].src, i) /\ RightScale(g, w, s, i)  BY <1>6
  <2>2. OwnScale(l, w, s, i)
    BY <1>1, <1>3, <2>1 DEF OwnScale, RightScale
  <2>3. PICK u, v, z \in Nat \ {0} : u = A * g.hd /\ v = C * g.hd /\ z = C * g.vd
    BY <1>5, <1>8, Sizes
  <2>4. RankRows(g) = u + v + z  BY <1>5, <1>8, <2>3, Sizes
  <2>5. d.rank \in Nat /\ d.rank < g.tp  BY <1>2 DEF Sound
  <2>6. ASSUME NEW a \in 0 .. C - 1
        PROVE  {(d.rank * A + h) \div (g.heads \div g.kv) :
                  h \in a * (A \div C) .. (a + 1) * (A \div C) - 1}
                 = {FirstKvHead(g, d.rank) + a}
    <3>1. AttendedBy(g, d.rank * A, a * Group(A, C), (a + 1) * Group(A, C) - 1)
            = {FirstKvHead(g, d.rank) + a}
      BY <1>5, <2>5, AttendsOne
    <3>2. QED  BY <3>1 DEF AttendedBy, Group
  <2>7. CASE i < u
    <3>1. CkptRow(g, w[i].src) = Row("q", d.rank * A + i \div g.hd, i % g.hd)
      BY <2>1, <2>3, <2>7 DEF RightRow
    <3>2. QED  BY <1>1, <1>7, <2>2, <2>3, <2>7, <3>1 DEF OwnHead
  <2>8. CASE ~(i < u) /\ i - u < v
    <3>1. PICK y \in 0 .. C * g.hd - 1 : y = i - u  BY <2>3, <2>8
    <3>2. PICK a \in 0 .. C - 1 : a = y \div g.hd
      BY <1>8, <3>1, PlaceRows
    <3>3. CkptRow(g, w[i].src) = Row("k", FirstKvHead(g, d.rank) + a, y % g.hd)
      BY <2>1, <2>3, <2>8, <3>1, <3>2 DEF RightRow
    <3>4. PICK r : r = CkptRow(g, w[i].src)  OBVIOUS
    <3>5. r.kind = "k" /\ r.head = FirstKvHead(g, d.rank) + a /\ r.x = y % g.hd
      BY <3>3, <3>4 DEF Row
    <3>6. i - A * g.hd = y /\ y - C * g.hd < 0 /\ ~(i < A * g.hd)
      BY <2>3, <2>8, <3>1
    <3>7. QED  BY <1>1, <1>7, <2>2, <2>6, <3>2, <3>4, <3>5, <3>6 DEF OwnHead
  <2>9. CASE ~(i < u) /\ ~(i - u < v)
    <3>1. PICK y \in 0 .. C * g.vd - 1 : y = i - u - v  BY <2>3, <2>4, <2>9
    <3>2. PICK a \in 0 .. C - 1 : a = y \div g.vd
      BY <1>8, <3>1, PlaceRows
    <3>3. CkptRow(g, w[i].src) = Row("v", FirstKvHead(g, d.rank) + a, y % g.vd)
      BY <2>1, <2>3, <2>9, <3>1, <3>2 DEF RightRow
    <3>4. PICK r : r = CkptRow(g, w[i].src)  OBVIOUS
    <3>5. r.kind = "v" /\ r.head = FirstKvHead(g, d.rank) + a /\ r.x = y % g.vd
      BY <3>3, <3>4 DEF Row
    <3>6. i - A * g.hd - C * g.hd = y /\ ~(y < 0) /\ ~(i < A * g.hd)
      BY <2>3, <2>9, <3>1
    <3>7. QED  BY <1>1, <1>7, <2>2, <2>6, <3>2, <3>4, <3>5, <3>6 DEF OwnHead
  <2>10. QED  BY <2>7, <2>8, <2>9
<1>11. DOMAIN w = 0 .. RankRows(g) - 1  BY <1>6
<1>12. DOMAIN w = 0 .. layers[l].attn.numHeads * Geo(l).hd
                       + layers[l].attn.numKvHeads * (Geo(l).hd + Geo(l).vd) - 1
  <2>1. PICK u, v \in Nat : u = A * Geo(l).hd /\ v = C * (Geo(l).hd + Geo(l).vd)
    BY <1>3, <1>8
  <2>2. RankRows(g) = u + v  BY <1>9, <2>1
  <2>3. DOMAIN w = 0 .. u + v - 1
    <3>1. PICK n : n = RankRows(g)  OBVIOUS
    <3>2. n = u + v /\ DOMAIN w = 0 .. n - 1  BY <1>11, <2>2, <3>1
    <3>3. QED  BY <3>2
  <2>4. u = layers[l].attn.numHeads * Geo(l).hd
        /\ v = layers[l].attn.numKvHeads * (Geo(l).hd + Geo(l).vd)
    BY <1>7, <2>1, Zenon
  <2>5. QED  BY <2>3, <2>4, Zenon
<1>13. \A i \in DOMAIN w : OwnHead(l, w[i].src, i) /\ OwnScale(l, w, s, i)
  <2>1. ASSUME NEW i \in DOMAIN w PROVE OwnHead(l, w[i].src, i) /\ OwnScale(l, w, s, i)
    <3>1. i \in 0 .. RankRows(g) - 1  BY <1>11, Zenon
    <3>2. QED  BY <1>10, <3>1, Zenon
  <2>2. QED  BY <2>1, Zenon
<1>14. QED  BY <1>12, <1>13, Zenon

-----------------------------------------------------------------------------
(* Loading. *)

Weight(l) == Plain(l, "qkv_proj.weight")
Scale(l)  == Plain(l, "qkv_proj.weight_scale_inv")
Both(l)   == {Weight(l), Scale(l)}
Fp8 == d.style \in {"fp8", "torn"}

\* A projection of layer l as it is loaded.
LoadedWeight(l) == [of |-> Both(l), rows |-> WeightRows(Fused(l), d.rank)]
LoadedScale(l)  == [of |-> Both(l), rows |-> ScaleRows(Fused(l), d.rank)]

\* A name the checkpoint may hold: a fused projection is a layer's, and no expert's.
Given(n) ==
    /\ n \in Names
    /\ n.key \in {"qkv_proj.weight", "qkv_proj.weight_scale_inv"} =>
         n.layer # -1 /\ n.expert = -1

FileInv ==
    /\ d \in Deployments
    /\ \A n \in todo : Given(n)
    /\ phase = "load" => file \in 1 .. Len(Files[d.style])

LayerInv == \A l \in DOMAIN layers : layers[l] = [attn |-> Attn(l)]

PendingInv ==
    /\ DOMAIN pending = 0 .. NumLayers - 1
    /\ \A l \in 0 .. NumLayers - 1 : pending[l] \subseteq Both(l)

\* A fused projection of a layer is there whole or not at all.
ProjectionInv ==
    /\ phase = "build" => DOMAIN params = {}
    /\ DOMAIN params # {} \/ phase = "load" => Own \subseteq DOMAIN layers
    /\ Fp8 /\ DOMAIN params # {} => \A l \in Own : Both(l) \subseteq DOMAIN params
    /\ Fp8 => \A l \in Own : Has(l, "qkv_proj.weight") =>
         /\ Accepts(Fused(l))
         /\ Part(l, "qkv_proj.weight") = LoadedWeight(l)
         /\ Part(l, "qkv_proj.weight_scale_inv") = LoadedScale(l)
         /\ Has(l, "qkv_proj.weight_scale_inv")

LoadInv == FileInv /\ LayerInv /\ PendingInv /\ ProjectionInv

LEMMA LoadInvRows == LoadInv => QkvRowsOwn
<1> SUFFICES ASSUME LoadInv, NEW l \in Fp8Loaded
             PROVE  LET w == Part(l, "qkv_proj.weight").rows
                        s == Part(l, "qkv_proj.weight_scale_inv").rows
                        a == layers[l].attn
                    IN  /\ Part(l, "qkv_proj.weight").of =
                              {Plain(l, "qkv_proj.weight"), Plain(l, "qkv_proj.weight_scale_inv")}
                        /\ DOMAIN w = 0 .. a.numHeads * Geo(l).hd
                                           + a.numKvHeads * (Geo(l).hd + Geo(l).vd) - 1
                        /\ \A i \in DOMAIN w : OwnHead(l, w[i].src, i) /\ OwnScale(l, w, s, i)
  BY Zenon DEF QkvRowsOwn
<1>1. l \in Own /\ Fp8 /\ Has(l, "qkv_proj.weight")  BY DEF Fp8Loaded, Fp8
<1>2. /\ Accepts(Fused(l)) /\ d \in Deployments
      /\ Part(l, "qkv_proj.weight") = LoadedWeight(l)
      /\ Part(l, "qkv_proj.weight_scale_inv") = LoadedScale(l)
  BY <1>1 DEF LoadInv, ProjectionInv, FileInv
<1>3. DOMAIN params # {}  BY <1>1 DEF Has
<1>4. layers[l].attn = Attn(l)
  BY <1>1, <1>3 DEF LoadInv, ProjectionInv, LayerInv
<1>5. PICK w, s : w = WeightRows(Fused(l), d.rank) /\ s = ScaleRows(Fused(l), d.rank)
  OBVIOUS
<1>6. /\ Part(l, "qkv_proj.weight").rows = w /\ Part(l, "qkv_proj.weight_scale_inv").rows = s
      /\ Part(l, "qkv_proj.weight").of = Both(l)
  BY <1>2, <1>5 DEF LoadedWeight, LoadedScale
<1>7. /\ DOMAIN w = 0 .. layers[l].attn.numHeads * Geo(l).hd
                         + layers[l].attn.numKvHeads * (Geo(l).hd + Geo(l).vd) - 1
      /\ \A i \in DOMAIN w : OwnHead(l, w[i].src, i) /\ OwnScale(l, w, s, i)
  BY <1>2, <1>4, <1>5, LayerRows, Zenon
<1>8. QED  BY <1>6, <1>7, Zenon DEF Both, Weight, Scale

LEMMA LoadInit == Init => LoadInv
<1> SUFFICES ASSUME Init PROVE LoadInv  OBVIOUS
<1>1. FileInv  BY DEF Init, FileInv
<1>2. LayerInv  BY DEF Init, LayerInv
<1>3. PendingInv  BY DEF Init, PendingInv
<1>4. ProjectionInv  BY DEF Init, ProjectionInv, Has
<1>5. QED  BY <1>1, <1>2, <1>3, <1>4 DEF LoadInv

\* Parameter m holds the same whole tensor, if any, in p and in r.
SameWhole(p, r, m) ==
    /\ "all" \in DOMAIN r[m] <=> "all" \in DOMAIN p[m]
    /\ "all" \in DOMAIN p[m] => r[m]["all"] = p[m]["all"]

LEMMA SameProjections ==
  ASSUME LoadInv, d' = d, layers' = layers, DOMAIN params' = DOMAIN params,
         phase' = "build" => phase = "build", phase' = "load" => phase = "load",
         Fp8 => \A l \in Own : \A m \in Both(l) :
                  m \in DOMAIN params => SameWhole(params, params', m)
  PROVE  ProjectionInv'
<1>1. ProjectionInv  BY DEF LoadInv
<1>2. Own' = Own /\ Fp8' = Fp8  BY DEF Own, StageLayers, Fp8
<1>3. \A l : Fused(l)' = Fused(l)
  BY DEF Fused
<1>4. \A l : /\ Accepts(Fused(l))' = Accepts(Fused(l))
             /\ LoadedWeight(l)' = LoadedWeight(l) /\ LoadedScale(l)' = LoadedScale(l)
  BY <1>3 DEF LoadedWeight, LoadedScale
<1>5. ASSUME Fp8, NEW l \in Own, Has(l, "qkv_proj.weight")'
      PROVE  /\ Accepts(Fused(l))'
             /\ Part(l, "qkv_proj.weight")' = LoadedWeight(l)'
             /\ Part(l, "qkv_proj.weight_scale_inv")' = LoadedScale(l)'
             /\ Has(l, "qkv_proj.weight_scale_inv")'
  <2>a. Weight(l) \in DOMAIN params /\ Scale(l) \in DOMAIN params
    <3>1. Weight(l) \in DOMAIN params  BY <1>5 DEF Has, Weight
    <3>2. Both(l) \subseteq DOMAIN params  BY <1>1, <1>5, <3>1 DEF ProjectionInv
    <3>3. QED  BY <3>2 DEF Both
  <2>1. SameWhole(params, params', Weight(l)) /\ SameWhole(params, params', Scale(l))
    BY <1>5, <2>a DEF Both
  <2>2. Weight(l) \in DOMAIN params /\ "all" \in DOMAIN params[Weight(l)]
    BY <1>5, <2>1 DEF Has, Weight, SameWhole
  <2>3. Has(l, "qkv_proj.weight")  BY <2>2 DEF Has, Weight
  <2>4. /\ Accepts(Fused(l)) /\ Has(l, "qkv_proj.weight_scale_inv")
        /\ Part(l, "qkv_proj.weight") = LoadedWeight(l)
        /\ Part(l, "qkv_proj.weight_scale_inv") = LoadedScale(l)
    BY <1>1, <1>5, <2>3 DEF ProjectionInv
  <2>5. Part(l, "qkv_proj.weight")' = Part(l, "qkv_proj.weight")
    BY <2>1, <2>2 DEF SameWhole, Part, Weight
  <2>6. /\ Part(l, "qkv_proj.weight_scale_inv")' = Part(l, "qkv_proj.weight_scale_inv")
        /\ Has(l, "qkv_proj.weight_scale_inv")'
    BY <2>1, <2>4 DEF SameWhole, Part, Scale, Has
  <2>7. QED  BY <1>4, <2>4, <2>5, <2>6
<1>6. /\ phase' = "build" => DOMAIN params' = {}
      /\ DOMAIN params' # {} \/ phase' = "load" => Own \subseteq DOMAIN layers
      /\ Fp8 /\ DOMAIN params' # {} => \A l \in Own : Both(l) \subseteq DOMAIN params'
  BY <1>1 DEF ProjectionInv
<1>7. QED  BY <1>2, <1>5, <1>6 DEF ProjectionInv, Both, Weight, Scale

LEMMA UnchangedProjections ==
  ASSUME LoadInv, d' = d, layers' = layers, params' = params,
         phase' = "build" => phase = "build", phase' = "load" => phase = "load"
  PROVE  ProjectionInv'
<1>1. \A m : SameWhole(params, params', m)  BY DEF SameWhole
<1>2. QED  BY <1>1, SameProjections

LEMMA SameLayers ==
  ASSUME LoadInv, d' = d, layers' = layers
  PROVE  LayerInv'
<1>1. \A l : Attn(l)' = Attn(l)  BY DEF Attn, Backend
<1>2. QED  BY <1>1 DEF LoadInv, LayerInv

LEMMA FilesGiven ==
  ASSUME d \in Deployments, NEW i \in 1 .. Len(Files[d.style])
  PROVE  \A n \in Files[d.style][i] : Given(n)
<1>1. d.style \in Styles  BY ModelAssumption DEF Deployment
<1>2. PICK f : f = Files[d.style]  OBVIOUS
<1>3. /\ f \in Seq(SUBSET Names)
      /\ \A j \in DOMAIN f : \A n \in f[j] :
           n.key \in {"qkv_proj.weight", "qkv_proj.weight_scale_inv"} =>
             n.layer # -1 /\ n.expert = -1
  BY <1>1, <1>2, FilesAssumption
<1>4. i \in DOMAIN f /\ f[i] \subseteq Names  BY <1>2, <1>3
<1>5. QED  BY <1>2, <1>3, <1>4 DEF Given

LEMMA BuildLayerKeeps == LoadInv /\ BuildLayer => LoadInv'
<1> SUFFICES ASSUME LoadInv, BuildLayer PROVE LoadInv'  OBVIOUS
<1>1. /\ phase = "build" /\ d' = d /\ phase' \in {"build", "raised"}
      /\ file' = file /\ todo' = todo /\ pending' = pending /\ params' = params
  BY DEF BuildLayer, loadVars
<1>2. FileInv'  BY <1>1 DEF LoadInv, FileInv, Given
<1>3. PendingInv'  BY <1>1 DEF LoadInv, PendingInv, Both, Weight, Scale
<1>4. ProjectionInv'
  <2>1. DOMAIN params' = {} /\ phase' # "load"  BY <1>1 DEF LoadInv, ProjectionInv
  <2>2. \A l : ~Has(l, "qkv_proj.weight")'  BY <2>1 DEF Has
  <2>3. QED  BY <2>1, <2>2 DEF ProjectionInv
<1>5. LayerInv'
  <2>1. PICK l : layers' = layers \/ layers' = With(layers, l, [attn |-> Attn(l)])
    BY DEF BuildLayer
  <2>2. \A m : Attn(m)' = Attn(m)  BY <1>1 DEF Attn, Backend
  <2>3. CASE layers' = layers  BY <2>2, <2>3 DEF LoadInv, LayerInv
  <2>4. CASE layers' = With(layers, l, [attn |-> Attn(l)])
    <3>1. \A m \in DOMAIN layers' : layers'[m] = [attn |-> Attn(m)]
      <4>1. /\ DOMAIN layers' = DOMAIN layers \cup {l}
            /\ \A y \in DOMAIN layers \ {l} : layers'[y] = layers[y]
            /\ layers'[l] = [attn |-> Attn(l)]
        BY <2>4 DEF With
      <4>2. \A y \in DOMAIN layers : layers[y] = [attn |-> Attn(y)]  BY DEF LoadInv, LayerInv
      <4>3. QED  BY <4>1, <4>2
    <3>2. QED  BY <2>2, <3>1 DEF LayerInv
  <2>5. QED  BY <2>1, <2>3, <2>4
<1>6. QED  BY <1>2, <1>3, <1>4, <1>5 DEF LoadInv

LEMMA StartLoadingKeeps == LoadInv /\ StartLoading => LoadInv'
<1> SUFFICES ASSUME LoadInv, StartLoading PROVE LoadInv'  OBVIOUS
<1>1. /\ d' = d /\ layers' = layers /\ pending' = pending /\ phase' = "load"
      /\ Own \subseteq DOMAIN layers /\ file' = 1 /\ todo' = Files[d.style][1]
  BY DEF StartLoading, buildVars
<1>2. d \in Deployments  BY DEF LoadInv, FileInv
<1>3. 1 \in 1 .. Len(Files[d.style])
  <2>1. d.style \in Styles  BY <1>2, ModelAssumption DEF Deployment
  <2>2. PICK f : f = Files[d.style]  OBVIOUS
  <2>3. f \in Seq(SUBSET Names) /\ f # << >>  BY <2>1, <2>2, FilesAssumption
  <2>4. QED  BY <2>2, <2>3
<1>4. FileInv'
  <2>1. \A n \in Files[d.style][1] : Given(n)  BY <1>2, <1>3, FilesGiven
  <2>2. QED  BY <1>1, <1>2, <1>3, <2>1 DEF FileInv, Given
<1>5. PendingInv'  BY <1>1 DEF LoadInv, PendingInv, Both, Weight, Scale
<1>6. LayerInv'  BY <1>1, SameLayers
<1>7. ProjectionInv'
  <2>1. PICK Q : /\ params' = [n \in Q |-> << >>]
                 /\ \A l \in Own : LayerParams(l) \subseteq Q
    BY DEF StartLoading, ParamNames, OwnParams
  <2>2. \A l \in Own : Fp8 => Both(l) \subseteq Q
    BY <2>1 DEF Fp8, Both, Weight, Scale, LayerParams, AttnParams
  <2>3. \A l : ~Has(l, "qkv_proj.weight")'
    <3>1. \A n \in Q : DOMAIN (params')[n] = {}  BY <2>1
    <3>2. QED  BY <2>1, <3>1 DEF Has
  <2>4. Own' = Own /\ Fp8' = Fp8 /\ DOMAIN params' = Q  BY <1>1, <2>1 DEF Own, StageLayers, Fp8
  <2>5. QED  BY <1>1, <2>2, <2>3, <2>4 DEF ProjectionInv, Both, Weight, Scale
<1>8. QED  BY <1>4, <1>5, <1>6, <1>7 DEF LoadInv

LEMMA ExpertParameters ==
  \A k \in DOMAIN ExpertShard :
    ExpertShard[k][1] \in {"experts.w13_weight", "experts.w2_weight"}
BY DEF ExpertShard

LEMMA StackedParts ==
  \A k \in DOMAIN StackedShard : StackedShard[k][2] \in {"q", "k", "v", "0", "1"}
BY DEF StackedShard

LEMMA PutKeeps ==
  ASSUME NEW name, NEW part, NEW value, Put(name, part, value), NEW m,
         name # m \/ part # "all"
  PROVE  DOMAIN params' = DOMAIN params /\ (m \in DOMAIN params => SameWhole(params, params', m))
<1>1. params' = [params EXCEPT ![name] = With(params[name], part, value)]  BY DEF Put
<1>2. DOMAIN params' = DOMAIN params  BY <1>1
<1>3. CASE name # m \/ name \notin DOMAIN params
  <2>1. m \in DOMAIN params => (params')[m] = params[m]  BY <1>1, <1>3
  <2>2. QED  BY <1>2, <2>1 DEF SameWhole
<1>4. CASE name = m /\ name \in DOMAIN params
  <2>1. PICK h : h = With(params[m], part, value)  OBVIOUS
  <2>2. (params')[m] = h  BY <1>1, <1>4, <2>1
  <2>3. part # "all"  BY <1>4
  <2>4. /\ DOMAIN h = DOMAIN params[m] \cup {part}
        /\ \A y \in DOMAIN params[m] \ {part} : h[y] = params[m][y]
    BY <2>1 DEF With
  <2>5. QED  BY <1>2, <2>2, <2>3, <2>4 DEF SameWhole
<1>5. QED  BY <1>3, <1>4

LEMMA BothFused ==
  ASSUME NEW l, NEW m \in Both(l)
  PROVE  /\ m.key \in {"qkv_proj.weight", "qkv_proj.weight_scale_inv"}
         /\ m.layer = l /\ m.expert = -1
BY DEF Both, Weight, Scale, Plain, Name

LEMMA FusedName ==
  ASSUME NEW n, Given(n), IsFp8Qkv(n)
  PROVE  n.layer \in 0 .. NumLayers - 1 /\ n.layer # -1 /\ n \in Both(n.layer)
<1>1. n.key \in {"qkv_proj.weight", "qkv_proj.weight_scale_inv"}  BY DEF IsFp8Qkv
<1>2. n.expert = -1 /\ n \in Names /\ n.layer # -1  BY <1>1 DEF Given
<1>3. n.layer \in 0 .. NumLayers - 1
  <2>1. NumLayers \in Nat  BY ModelAssumption
  <2>2. n.layer \in -1 .. NumLayers - 1  BY <1>2 DEF Names
  <2>3. QED  BY <1>2, <2>1, <2>2
<1>4. n \in Both(n.layer)
  BY <1>1, <1>2 DEF Both, Weight, Scale, Plain, Name, Names
<1>5. QED  BY <1>2, <1>3, <1>4

LEMMA LoadExpertKeeps ==
  ASSUME NEW n, LoadExpert(n)
  PROVE  /\ DOMAIN params' = DOMAIN params
         /\ \A l \in Own : \A m \in Both(l) :
              m \in DOMAIN params => SameWhole(params, params', m)
<1>1. CASE LocalExpert(n.expert)
  <2>1. PICK part, value : Put(ExpertTarget(n), part, value)  BY <1>1 DEF LoadExpert
  <2>2. ASSUME NEW l \in Own, NEW m \in Both(l)
        PROVE  m \in DOMAIN params => SameWhole(params, params', m)
    <3>1. n.key \in DOMAIN ExpertShard  BY DEF LoadExpert, IsExpert
    <3>2. ExpertTarget(n).key \in {"experts.w13_weight", "experts.w2_weight"}
      BY <3>1, ExpertParameters DEF ExpertTarget, Plain, Name
    <3>3. ExpertTarget(n) # m  BY <3>2, BothFused
    <3>4. QED  BY <2>1, <3>3, PutKeeps
  <2>3. DOMAIN params' = DOMAIN params  BY <2>1 DEF Put
  <2>4. QED  BY <2>2, <2>3
<1>2. CASE ~LocalExpert(n.expert)
  <2>1. params' = params  BY <1>2 DEF LoadExpert
  <2>2. QED  BY <2>1 DEF SameWhole
<1>3. QED  BY <1>1, <1>2

LEMMA LoadStackedKeeps ==
  ASSUME NEW n, LoadStacked(n)
  PROVE  /\ DOMAIN params' = DOMAIN params
         /\ \A l \in Own : \A m \in Both(l) :
              m \in DOMAIN params => SameWhole(params, params', m)
<1>1. PICK value : Put(StackedTarget(n), StackedShard[n.key][2], value)
  BY DEF LoadStacked
<1>2. StackedShard[n.key][2] # "all"  BY StackedParts DEF LoadStacked, IsStacked
<1>3. DOMAIN params' = DOMAIN params  BY <1>1 DEF Put
<1>4. QED  BY <1>1, <1>2, <1>3, PutKeeps

LEMMA LoadPlainKeeps ==
  ASSUME NEW n, LoadPlain(n)
  PROVE  /\ DOMAIN params' = DOMAIN params
         /\ Fp8 => \A l \in Own : \A m \in Both(l) :
                     m \in DOMAIN params => SameWhole(params, params', m)
<1>1. CASE n \in DOMAIN params
  <2>1. PICK value : Put(n, "all", value)  BY <1>1 DEF LoadPlain
  <2>2. ASSUME Fp8, NEW l \in Own, NEW m \in Both(l) PROVE n # m
    <3>1. n.key \notin {"qkv_proj.weight", "qkv_proj.weight_scale_inv"}
      BY <2>2 DEF LoadPlain, IsFp8Qkv, Fp8
    <3>2. QED  BY <3>1, BothFused
  <2>3. DOMAIN params' = DOMAIN params  BY <2>1 DEF Put
  <2>4. QED  BY <2>1, <2>2, <2>3, PutKeeps
<1>2. CASE n \notin DOMAIN params
  <2>1. params' = params  BY <1>2 DEF LoadPlain
  <2>2. QED  BY <2>1 DEF SameWhole
<1>3. QED  BY <1>1, <1>2

\* Once both have come, they are the two tensors of the layer.
LEMMA EntryIsBoth ==
  ASSUME NEW n, NEW l, PendingInv, l \in 0 .. NumLayers - 1, n \in Both(l),
         {m.key : m \in Entry(l) \cup {n}} = {Weight(l).key, Scale(l).key}
  PROVE  Entry(l) \cup {n} = Both(l)
<1>1. Entry(l) \cup {n} \subseteq Both(l)  BY DEF PendingInv, Entry
<1>2. Weight(l).key = "qkv_proj.weight" /\ Scale(l).key = "qkv_proj.weight_scale_inv"
  BY DEF Weight, Scale, Plain, Name
<1>3. \A m \in Both(l) : m = Weight(l) \/ m = Scale(l)  BY DEF Both
<1>4. PICK m1 \in Entry(l) \cup {n} : m1.key = Weight(l).key  OBVIOUS
<1>5. PICK m2 \in Entry(l) \cup {n} : m2.key = Scale(l).key  OBVIOUS
<1>6. m1 = Weight(l) /\ m2 = Scale(l)  BY <1>1, <1>2, <1>3, <1>4, <1>5
<1>7. QED  BY <1>1, <1>4, <1>5, <1>6 DEF Both

\* A projection is loaded.
LEMMA ProjectionLoaded ==
  ASSUME LoadInv, phase = "load", phase' = phase, d' = d, layers' = layers,
         NEW l \in Own, Accepts(Fused(l)),
         params' = [params EXCEPT ![Weight(l)] = With(<< >>, "all", LoadedWeight(l)),
                                  ![Scale(l)]  = With(<< >>, "all", LoadedScale(l))]
  PROVE  ProjectionInv'
<1>1. ProjectionInv  BY DEF LoadInv
<1>2. Own' = Own /\ Fp8' = Fp8  BY DEF Own, StageLayers, Fp8
<1>3. \A m : Fused(m)' = Fused(m)  BY DEF Fused
<1>4. \A m : /\ Accepts(Fused(m))' = Accepts(Fused(m))
             /\ LoadedWeight(m)' = LoadedWeight(m) /\ LoadedScale(m)' = LoadedScale(m)
  BY <1>3 DEF LoadedWeight, LoadedScale
<1>5. DOMAIN params' = DOMAIN params  OBVIOUS
<1>6. /\ phase' = "load"
      /\ Own \subseteq DOMAIN layers
      /\ Fp8 /\ DOMAIN params' # {} => \A m \in Own : Both(m) \subseteq DOMAIN params'
  BY <1>1, <1>5 DEF ProjectionInv
<1>7. Weight(l) # Scale(l)  BY DEF Weight, Scale, Plain, Name
<1>8. \A m : m # l => /\ Weight(m) \notin {Weight(l), Scale(l)}
                      /\ Scale(m) \notin {Weight(l), Scale(l)}
  BY DEF Weight, Scale, Plain, Name
<1>9. ASSUME Fp8, NEW m \in Own, Has(m, "qkv_proj.weight")'
      PROVE  /\ Accepts(Fused(m))'
             /\ Part(m, "qkv_proj.weight")' = LoadedWeight(m)'
             /\ Part(m, "qkv_proj.weight_scale_inv")' = LoadedScale(m)'
             /\ Has(m, "qkv_proj.weight_scale_inv")'
  <2>1. Weight(m) \in DOMAIN params /\ "all" \in DOMAIN (params')[Weight(m)]
    BY <1>5, <1>9 DEF Has, Weight
  <2>2. Scale(m) \in DOMAIN params
    <3>1. Both(m) \subseteq DOMAIN params  BY <1>1, <1>9, <2>1 DEF ProjectionInv
    <3>2. QED  BY <3>1 DEF Both
  <2>3. CASE m = l
    <3>1. /\ (params')[Weight(l)] = With(<< >>, "all", LoadedWeight(l))
          /\ (params')[Scale(l)] = With(<< >>, "all", LoadedScale(l))
      BY <1>7, <2>1, <2>2, <2>3
    <3>2. \A v : "all" \in DOMAIN With(<< >>, "all", v) /\ With(<< >>, "all", v)["all"] = v
      BY DEF With
    <3>3. /\ Part(m, "qkv_proj.weight")' = LoadedWeight(m)
          /\ Part(m, "qkv_proj.weight_scale_inv")' = LoadedScale(m)
          /\ Has(m, "qkv_proj.weight_scale_inv")'
      BY <1>5, <2>2, <2>3, <3>1, <3>2 DEF Part, Has, Weight, Scale
    <3>4. QED  BY <1>4, <2>3, <3>3
  <2>4. CASE m # l
    <3>1. (params')[Weight(m)] = params[Weight(m)] /\ (params')[Scale(m)] = params[Scale(m)]
      BY <1>8, <2>1, <2>2, <2>4
    <3>2. Has(m, "qkv_proj.weight")  BY <2>1, <3>1 DEF Has, Weight
    <3>3. /\ Accepts(Fused(m)) /\ Has(m, "qkv_proj.weight_scale_inv")
          /\ Part(m, "qkv_proj.weight") = LoadedWeight(m)
          /\ Part(m, "qkv_proj.weight_scale_inv") = LoadedScale(m)
      BY <1>1, <1>9, <3>2 DEF ProjectionInv
    <3>4. /\ Part(m, "qkv_proj.weight")' = Part(m, "qkv_proj.weight")
          /\ Part(m, "qkv_proj.weight_scale_inv")' = Part(m, "qkv_proj.weight_scale_inv")
          /\ Has(m, "qkv_proj.weight_scale_inv")'
      BY <1>5, <3>1, <3>3 DEF Part, Has, Weight, Scale
    <3>5. QED  BY <1>4, <3>3, <3>4
  <2>5. QED  BY <2>3, <2>4
<1>10. QED  BY <1>2, <1>6, <1>9 DEF ProjectionInv, Both, Weight, Scale

LEMMA LoadFp8QkvKeeps ==
  ASSUME LoadInv, NEW n, Given(n), LoadFp8Qkv(n), phase = "load", d' = d, layers' = layers
  PROVE  PendingInv' /\ ProjectionInv' /\ phase' \in {"load", "raised"}
<1>1. PendingInv /\ ProjectionInv /\ d \in Deployments  BY DEF LoadInv, FileInv
<1>2. n.layer \in 0 .. NumLayers - 1 /\ n.layer # -1 /\ n \in Both(n.layer)
  BY FusedName DEF LoadFp8Qkv
<1>3. n.layer \in 0 .. NumLayers - 1 /\ n.layer # -1  BY <1>2
<1>4. PICK l \in 0 .. NumLayers - 1 : l = n.layer  BY <1>3
<1>5. n \in Both(l)  BY <1>2, <1>4
<1>6. PICK entry : entry = Entry(l) \cup {n}  OBVIOUS
<1>7. entry \subseteq Both(l)  BY <1>1, <1>5, <1>6 DEF PendingInv, Entry
<1>8. CASE pending' = pending /\ params' = params /\ phase' \in {"load", "raised"}
  <2>1. PendingInv'  BY <1>1, <1>8 DEF PendingInv, Both, Weight, Scale
  <2>2. ProjectionInv'  BY <1>8, UnchangedProjections
  <2>3. QED  BY <1>8, <2>1, <2>2
<1>9. CASE pending' = [pending EXCEPT ![l] = entry] /\ params' = params /\ phase' = phase
  <2>1. PendingInv'  BY <1>1, <1>7, <1>9 DEF PendingInv, Both, Weight, Scale
  <2>2. ProjectionInv'  BY <1>9, UnchangedProjections
  <2>3. QED  BY <1>9, <2>1, <2>2
<1>10. CASE /\ ~PPMissing(n) /\ {m.key : m \in entry} = {Weight(l).key, Scale(l).key}
            /\ Accepts(Fused(l)) /\ pending' = [pending EXCEPT ![l] = {}] /\ phase' = phase
            /\ params' = [params EXCEPT
                 ![Weight(l)] = With(<< >>, "all",
                    [of |-> entry, rows |-> Cut(ShardWeight(Fused(l), d.rank),
                                                RankRows(Fused(l)))]),
                 ![Scale(l)]  = With(<< >>, "all",
                    [of |-> entry, rows |-> Cut(ShardScales(Fused(l), d.rank),
                                                CeilDivide(RankRows(Fused(l)), Block))])]
  <2>1. PendingInv'  BY <1>1, <1>10 DEF PendingInv, Both, Weight, Scale
  <2>2. entry = Both(l)  BY <1>1, <1>5, <1>6, <1>10, EntryIsBoth
  <2>3. /\ LoadedWeight(l) = [of |-> entry, rows |-> Cut(ShardWeight(Fused(l), d.rank),
                                                         RankRows(Fused(l)))]
        /\ LoadedScale(l) = [of |-> entry, rows |-> Cut(ShardScales(Fused(l), d.rank),
                                                CeilDivide(RankRows(Fused(l)), Block))]
    <3>1. Fused(l).block = Block  BY <1>1, FusedFields
    <3>2. QED  BY <2>2, <3>1 DEF LoadedWeight, LoadedScale, WeightRows, ScaleRows
  <2>4. l \in Own  BY <1>3, <1>4, <1>10 DEF PPMissing
  <2>5. params' = [params EXCEPT ![Weight(l)] = With(<< >>, "all", LoadedWeight(l)),
                                 ![Scale(l)]  = With(<< >>, "all", LoadedScale(l))]
    BY <1>10, <2>3
  <2>6. ProjectionInv'  BY <1>10, <2>4, <2>5, ProjectionLoaded
  <2>7. QED  BY <1>10, <2>1, <2>6
<1>11. QED
  BY <1>4, <1>6, <1>8, <1>9, <1>10 DEF LoadFp8Qkv, Weight, Scale

LEMMA YieldKeeps ==
  ASSUME LoadInv, NEW n, Yield(n)
  PROVE  LoadInv'
<1>1. /\ phase = "load" /\ n \in todo /\ todo' = todo \ {n}
      /\ d' = d /\ layers' = layers /\ file' = file
  BY DEF Yield, buildVars
<1>2. Given(n) /\ d \in Deployments  BY <1>1 DEF LoadInv, FileInv
<1>3. ASSUME pending' = pending /\ phase' = phase /\ DOMAIN params' = DOMAIN params,
             Fp8 => \A l \in Own : \A m \in Both(l) :
                      m \in DOMAIN params => SameWhole(params, params', m)
      PROVE  PendingInv' /\ ProjectionInv' /\ phase' \in {"load", "raised"}
  <2>1. ProjectionInv'  BY <1>1, <1>3, SameProjections
  <2>2. PendingInv'  BY <1>3 DEF LoadInv, PendingInv, Both, Weight, Scale
  <2>3. QED  BY <1>1, <1>3, <2>1, <2>2
<1>4. ASSUME LoadFp8Qkv(n)
      PROVE  PendingInv' /\ ProjectionInv' /\ phase' \in {"load", "raised"}
  BY <1>1, <1>2, <1>4, LoadFp8QkvKeeps
<1>5. /\ PendingInv' /\ ProjectionInv' /\ phase' \in {"load", "raised"}
  <2>1. CASE Ignored(n) /\ UNCHANGED <<pending, params, loaded, phase>>
    <3>1. pending' = pending /\ params' = params /\ phase' = phase  BY <2>1
    <3>2. PendingInv'  BY <3>1 DEF LoadInv, PendingInv, Both, Weight, Scale
    <3>3. ProjectionInv'  BY <1>1, <3>1, UnchangedProjections
    <3>4. QED  BY <1>1, <3>1, <3>2, <3>3
  <2>2. CASE LoadExpert(n)
    <3>1. pending' = pending /\ phase' = phase  BY <2>2 DEF LoadExpert
    <3>2. QED  BY <1>1, <1>3, <2>2, <3>1, LoadExpertKeeps
  <2>3. CASE LoadStacked(n)
    <3>1. pending' = pending /\ phase' = phase  BY <2>3 DEF LoadStacked
    <3>2. QED  BY <1>1, <1>3, <2>3, <3>1, LoadStackedKeeps
  <2>4. CASE LoadPlain(n)
    <3>1. pending' = pending /\ phase' = phase  BY <2>4 DEF LoadPlain
    <3>2. QED  BY <1>1, <1>3, <2>4, <3>1, LoadPlainKeeps
  <2>5. QED  BY <1>4, <2>1, <2>2, <2>3, <2>4, Zenon DEF Yield
<1>6. FileInv'  BY <1>1, <1>5 DEF LoadInv, FileInv, Given
<1>7. LayerInv'  BY <1>1, SameLayers
<1>8. QED  BY <1>5, <1>6, <1>7 DEF LoadInv

LEMMA FilesKeep ==
  ASSUME LoadInv, NextFile \/ EndLoading
  PROVE  LoadInv'
<1>1. d' = d /\ layers' = layers /\ params' = params /\ phase = "load"
      /\ phase' \in {"load", "forward"}
  BY DEF NextFile, EndLoading, buildVars
<1>2. LayerInv' /\ ProjectionInv'  BY <1>1, SameLayers, UnchangedProjections
<1>3. PendingInv'
  <2>1. CASE NextFile  BY <2>1 DEF NextFile, LoadInv, PendingInv, Both, Weight, Scale
  <2>2. CASE EndLoading  BY <2>2 DEF EndLoading, LoadInv, PendingInv, Both, Weight, Scale
  <2>3. QED  BY <2>1, <2>2
<1>4. FileInv'
  <2>1. d \in Deployments /\ file \in 1 .. Len(Files[d.style])  BY <1>1 DEF LoadInv, FileInv
  <2>2. CASE NextFile
    <3>1. file' = file + 1 /\ todo' = Files[d.style][file + 1] /\ file < Len(Files[d.style])
      BY <2>2 DEF NextFile
    <3>2. file + 1 \in 1 .. Len(Files[d.style])  BY <2>1, <3>1
    <3>3. \A n \in Files[d.style][file + 1] : Given(n)  BY <2>1, <3>2, FilesGiven
    <3>4. QED  BY <1>1, <2>1, <3>1, <3>2, <3>3 DEF FileInv, Given
  <2>3. CASE EndLoading
    <3>1. todo' = todo /\ phase' = "forward"  BY <2>3 DEF EndLoading
    <3>2. QED  BY <1>1, <2>1, <3>1 DEF LoadInv, FileInv, Given
  <2>4. QED  BY <2>2, <2>3
<1>5. QED  BY <1>2, <1>3, <1>4 DEF LoadInv

LEMMA SameLoad ==
  ASSUME LoadInv, UNCHANGED buildVars, UNCHANGED loadVars, phase' = phase \/ phase' = "done"
  PROVE  LoadInv'
<1>1. /\ d' = d /\ layers' = layers /\ params' = params /\ pending' = pending
      /\ file' = file /\ todo' = todo
  BY DEF buildVars, loadVars
<1>2. LayerInv' /\ ProjectionInv'  BY <1>1, SameLayers, UnchangedProjections
<1>3. PendingInv'  BY <1>1 DEF LoadInv, PendingInv, Both, Weight, Scale
<1>4. FileInv'  BY <1>1 DEF LoadInv, FileInv, Given
<1>5. QED  BY <1>2, <1>3, <1>4 DEF LoadInv

LEMMA LoadStep == LoadInv /\ [Next]_vars => LoadInv'
<1> SUFFICES ASSUME LoadInv, [Next]_vars PROVE LoadInv'  OBVIOUS
<1>1. CASE BuildLayer  BY <1>1, BuildLayerKeeps
<1>2. CASE StartLoading  BY <1>2, StartLoadingKeeps
<1>3. CASE \E n \in todo : Yield(n)  BY <1>3, YieldKeeps
<1>4. CASE NextFile \/ EndLoading  BY <1>4, FilesKeep
<1>5. CASE EnterStage  BY <1>5, SameLoad DEF EnterStage
<1>6. CASE LayerForward  BY <1>6, SameLoad DEF LayerForward
<1>7. CASE LeaveStage  BY <1>7, SameLoad DEF LeaveStage
<1>8. CASE UNCHANGED vars  BY <1>8, SameLoad DEF vars
<1>9. QED  BY <1>1, <1>2, <1>3, <1>4, <1>5, <1>6, <1>7, <1>8 DEF Next

\* Every row of a fused projection that a rank loads is the one its attention splits off
\* there, with its own scale, whatever the geometry, the ranks, the chunks, the scales and
\* the order of the tensors (_shard_fp8_qkv_proj, _try_load_fp8_qkv_proj).
THEOREM QkvRowsAlwaysOwn == Spec => []QkvRowsOwn
<1>1. LoadInv /\ [Next]_vars => LoadInv'  BY LoadStep
<1>2. QED  BY LoadInit, <1>1, LoadInvRows, PTL DEF Spec

-----------------------------------------------------------------------------
(* How far a load has come. *)

FromFused(n) == Fp8 /\ n.key \in {"qkv_proj.weight", "qkv_proj.weight_scale_inv"}

\* The tensor that a part of a parameter is loaded from.
Source(n, part) ==
    CASE n.key = "gate_up_proj.weight" ->
           Plain(n.layer, IF part = "0" THEN "gate_proj.weight" ELSE "up_proj.weight")
      [] n.key = "qkv_proj.weight" /\ d.style = "split" ->
           Plain(n.layer, CASE part = "q" -> "q_proj.weight"
                            [] part = "k" -> "k_proj.weight"
                            [] part = "v" -> "v_proj.weight")
      [] n.key = "experts.w13_weight" ->
           Name(n.layer, IF part[1] = "w1" THEN "gate_proj.weight" ELSE "up_proj.weight", part[2])
      [] n.key = "experts.w2_weight" -> Name(n.layer, "down_proj.weight", part[2])
      [] OTHER -> n

\* What has been yielded.
Came ==
    {n \in Checkpoint(d.style) : n \notin todo /\ \E i \in 1 .. file : n \in Files[d.style][i]}

Loading == phase \in {"load", "forward"}

\* Nothing is written but parts a parameter has, nothing unreported, and what came is
\* there, unless it waits for its partner.
PartsInv ==
    /\ \A n \in DOMAIN params :
         /\ DOMAIN params[n] \subseteq Parts(n)
         /\ n \notin loaded => params[n] = << >>
    /\ \A n \in DOMAIN params : ~FromFused(n) =>
         \A part \in Parts(n) : Source(n, part) \in Came => part \in DOMAIN params[n]

PairInv ==
    Fp8 => \A l \in Own :
      /\ Weight(l) \in loaded <=> Scale(l) \in loaded
      /\ \A n \in Both(l) :
           /\ n \in loaded => "all" \in DOMAIN params[n]
           /\ phase = "load" /\ n \in Came => n \in loaded \/ n \in pending[l]
      /\ Both(l) \subseteq Came => Weight(l) \in loaded

SinkInv ==
    \A l \in Own : Has(l, "attention_sink_bias") =>
      Part(l, "attention_sink_bias") = NarrowSinks(l)

WholeInv ==
    Loading => DOMAIN params = ParamNames /\ PartsInv /\ PairInv /\ SinkInv

\* The last layer that was built with a backend set its value width.
WidthInv ==
    /\ DOMAIN headSizeV = {"FA", "TRITON"}
    /\ \A l \in DOMAIN layers :
         Backend(l) # "default" => headSizeV[Backend(l)] = Geo(l).vd

OrderInv ==
    /\ LoadInv /\ WholeInv /\ WidthInv
    /\ \A l \in DOMAIN layers : IsMoeLayer(l) => d.tp <= NumExperts
    /\ phase = "build" => loaded = {}
    /\ Fp8 \/ \A l \in 0 .. NumLayers - 1 : Weight(l) \notin pending[l]
    /\ phase = "load" => todo \subseteq Files[d.style][file]
    /\ phase = "forward" => todo = {} /\ file = Len(Files[d.style])

LEMMA StyleOf ==
  ASSUME d \in Deployments
  PROVE  /\ d.style \in Styles
         /\ Files[d.style] \in Seq(SUBSET Names) /\ Files[d.style] # << >>
<1>1. d.style \in Styles  BY ModelAssumption DEF Deployment
<1>2. QED  BY <1>1, FilesAssumption

PerStage == NumLayers \div d.pp

LEMMA StagesAre ==
  ASSUME d \in Deployments
  PROVE  /\ d.pp \in Nat \ {0} /\ PerStage \in Nat /\ d.pp * PerStage = NumLayers
         /\ \A s \in Nat : s * PerStage \in Nat /\ (s + 1) * PerStage = s * PerStage + PerStage
<1>1. PICK p \in Nat \ {0} : p = d.pp  BY DeploymentOf
<1>2. PICK z \in Nat : z = NumLayers /\ z % p = 0
  BY <1>1, ModelAssumption
<1>3. PICK q \in Nat, r \in 0 .. p - 1 :
        z \div p = q /\ z % p = r /\ z = p * q + r /\ p * q \in Nat
  BY Divide
<1>4. PerStage = q /\ p * q = z  BY <1>1, <1>2, <1>3 DEF PerStage
<1>5. \A s \in Nat : s * q \in Nat /\ (s + 1) * q = s * q + q  OBVIOUS
<1>6. QED  BY <1>1, <1>2, <1>4, <1>5

LEMMA OwnLayers ==
  ASSUME d \in Deployments
  PROVE  Own \subseteq 0 .. NumLayers - 1
<1>1. PICK p \in Nat, z \in Nat, s \in Nat :
        /\ p = d.pp /\ z = PerStage /\ s = d.stage
        /\ p * z = NumLayers /\ s + 1 <= p
  <2>1. d.pp \in Nat /\ d.stage \in Nat /\ d.stage + 1 <= d.pp  BY DeploymentOf
  <2>2. QED  BY <2>1, StagesAre
<1>2. (s + 1) * z <= p * z /\ s * z \in Nat /\ (s + 1) * z \in Nat
  <2>1. PICK e \in Nat : p = (s + 1) + e
    <3>1. p - (s + 1) \in Nat /\ p = (s + 1) + (p - (s + 1))  BY <1>1
    <3>2. QED  BY <3>1
  <2>2. p * z = (s + 1) * z + e * z /\ e * z \in Nat /\ (s + 1) * z \in Nat  BY <2>1
  <2>3. QED  BY <2>2
<1>3. Own = s * z .. (s + 1) * z - 1  BY <1>1 DEF Own, StageLayers, PerStage
<1>4. PICK lo, hi \in Nat : lo = s * z /\ hi = (s + 1) * z /\ hi <= NumLayers
  BY <1>1, <1>2
<1>5. QED  BY <1>3, <1>4, ModelAssumption

LEMMA ParamShape ==
  ASSUME NEW n \in ParamNames
  PROVE  /\ n = Plain(n.layer, n.key) /\ n.expert = -1
         /\ \/ n.layer = -1 /\ n.key \in {"embed_tokens.weight", "norm.weight", "lm_head.weight"}
            \/ /\ n.layer \in Own
               /\ n.key \in AttnParams(n.layer) \cup MlpParams(n.layer) \cup NormParams
<1>1. CASE n \in EndParams \cup HeadParams
  BY <1>1 DEF EndParams, HeadParams, Plain, Name
<1>2. CASE \E l \in Own : n \in LayerParams(l)
  <2>1. PICK l \in Own : \E k \in AttnParams(l) \cup MlpParams(l) \cup NormParams : n = Plain(l, k)
    BY <1>2 DEF LayerParams
  <2>4. PICK k \in AttnParams(l) \cup MlpParams(l) \cup NormParams : n = Plain(l, k)  BY <2>1
  <2>2. n.layer = l /\ n.key = k /\ n.expert = -1  BY <2>4 DEF Plain, Name
  <2>3. QED  BY <2>2, <2>4, Zenon
<1>3. n \in EndParams \cup HeadParams \/ \E l \in Own : n \in LayerParams(l)
  <2>1. CASE n \in UNION {LayerParams(l) : l \in Own}
    <3>1. PICK Q \in {LayerParams(l) : l \in Own} : n \in Q  BY <2>1
    <3>2. PICK l \in Own : Q = LayerParams(l)  OBVIOUS
    <3>3. QED  BY <3>1, <3>2
  <2>2. n \in OwnParams \/ n \in EndParams \cup HeadParams  BY DEF ParamNames
  <2>3. QED  BY <2>1, <2>2 DEF OwnParams
<1>4. QED  BY <1>1, <1>2, <1>3

LayerKeys ==
    {"qkv_proj.weight", "o_proj.weight", "qkv_proj.weight_scale_inv", "attention_sink_bias",
     "gate.weight", "gate.e_score_correction_bias", "experts.w13_weight",
     "experts.w2_weight", "gate_up_proj.weight", "down_proj.weight",
     "input_layernorm.weight", "post_attention_layernorm.weight"}
MoeKeys == {"gate.weight", "gate.e_score_correction_bias", "experts.w13_weight",
            "experts.w2_weight"}

LEMMA KeysOf ==
  ASSUME NEW l, NEW k \in AttnParams(l) \cup MlpParams(l) \cup NormParams
  PROVE  /\ k \in LayerKeys
         /\ k = "qkv_proj.weight_scale_inv" => Fp8
         /\ k = "attention_sink_bias" => Geo(l).sink
         /\ k \in MoeKeys => IsMoeLayer(l)
         /\ k \in {"gate_up_proj.weight", "down_proj.weight"} => ~IsMoeLayer(l)
<1>1. k \in AttnParams(l) =>
        /\ k \in {"qkv_proj.weight", "o_proj.weight", "qkv_proj.weight_scale_inv",
                  "attention_sink_bias"}
        /\ k = "qkv_proj.weight_scale_inv" => Fp8
        /\ k = "attention_sink_bias" => Geo(l).sink
  BY DEF AttnParams, Fp8
<1>2. k \in MlpParams(l) =>
        \/ IsMoeLayer(l) /\ k \in MoeKeys
        \/ ~IsMoeLayer(l) /\ k \in {"gate_up_proj.weight", "down_proj.weight"}
  BY DEF MlpParams, MoeKeys
<1>3. QED  BY <1>1, <1>2 DEF LayerKeys, MoeKeys, NormParams

LEMMA SameRank ==
  ASSUME d' = d
  PROVE  /\ Own' = Own /\ Fp8' = Fp8 /\ ParamNames' = ParamNames
         /\ \A n : Parts(n)' = Parts(n) /\ FromFused(n)' = FromFused(n)
         /\ \A n, part : Source(n, part)' = Source(n, part)
         /\ \A l : NarrowSinks(l)' = NarrowSinks(l) /\ Backend(l)' = Backend(l)
<1>1. Own' = Own /\ Fp8' = Fp8  BY DEF Own, StageLayers, Fp8
<1>2. ParamNames' = ParamNames
  <2>1. \A l : LayerParams(l)' = LayerParams(l)
    BY DEF LayerParams, AttnParams, MlpParams, NormParams
  <2>2. EndParams' = EndParams /\ HeadParams' = HeadParams  BY DEF EndParams, HeadParams, Embeds
  <2>3. QED  BY <1>1, <2>1, <2>2 DEF ParamNames, OwnParams
<1>3. \A n : Parts(n)' = Parts(n)  BY DEF Parts, LocalExpert
<1>4. \A n : FromFused(n)' = FromFused(n)  BY <1>1 DEF FromFused
<1>5. \A n, part : Source(n, part)' = Source(n, part)  BY DEF Source
<1>6. \A l : NarrowSinks(l)' = NarrowSinks(l)  BY DEF NarrowSinks
<1>7. \A l : Backend(l)' = Backend(l)  BY DEF Backend
<1>8. QED  BY <1>1, <1>2, <1>3, <1>4, <1>5, <1>6, <1>7
LEMMA ExpertShardIs ==
  /\ DOMAIN ExpertShard = {"gate_proj.weight", "up_proj.weight", "down_proj.weight"}
  /\ ExpertShard["gate_proj.weight"] = <<"experts.w13_weight", "w1">>
  /\ ExpertShard["up_proj.weight"] = <<"experts.w13_weight", "w3">>
  /\ ExpertShard["down_proj.weight"] = <<"experts.w2_weight", "w2">>
BY DEF ExpertShard

LEMMA StackedShardIs ==
  /\ DOMAIN StackedShard = {"q_proj.weight", "k_proj.weight", "v_proj.weight",
                            "qkv_proj.weight", "gate_proj.weight", "up_proj.weight"}
  /\ StackedShard["q_proj.weight"] = <<"qkv_proj.weight", "q">>
  /\ StackedShard["k_proj.weight"] = <<"qkv_proj.weight", "k">>
  /\ StackedShard["v_proj.weight"] = <<"qkv_proj.weight", "v">>
  /\ StackedShard["qkv_proj.weight"] = <<"qkqkv_proj.weight", "v">>
  /\ StackedShard["gate_proj.weight"] = <<"gate_up_proj.weight", "0">>
  /\ StackedShard["up_proj.weight"] = <<"gate_up_proj.weight", "1">>
BY DEF StackedShard

LocalExperts == {e \in 0 .. NumExperts - 1 : LocalExpert(e)}
Apart(n) == n.key = "qkv_proj.weight" /\ d.style = "split"

LEMMA PartsAre ==
  ASSUME NEW n
  PROVE  /\ n.key = "gate_up_proj.weight" => Parts(n) = {"0", "1"}
         /\ Apart(n) => Parts(n) = {"q", "k", "v"}
         /\ n.key = "experts.w13_weight" => Parts(n) = {"w1", "w3"} \X LocalExperts
         /\ n.key = "experts.w2_weight" => Parts(n) = {"w2"} \X LocalExperts
         /\ n.key \notin {"gate_up_proj.weight", "experts.w13_weight", "experts.w2_weight"}
              /\ ~Apart(n) => Parts(n) = {"all"}
BY DEF Parts, Apart, LocalExperts

LEMMA SourceIs ==
  ASSUME NEW n, NEW part
  PROVE  /\ n.key = "gate_up_proj.weight" =>
              Source(n, part) = Plain(n.layer, IF part = "0" THEN "gate_proj.weight"
                                               ELSE "up_proj.weight")
         /\ Apart(n) => /\ part = "q" => Source(n, part) = Plain(n.layer, "q_proj.weight")
                        /\ part = "k" => Source(n, part) = Plain(n.layer, "k_proj.weight")
                        /\ part = "v" => Source(n, part) = Plain(n.layer, "v_proj.weight")
         /\ n.key = "experts.w13_weight" =>
              Source(n, part) = Name(n.layer, IF part[1] = "w1" THEN "gate_proj.weight"
                                              ELSE "up_proj.weight", part[2])
         /\ n.key = "experts.w2_weight" =>
              Source(n, part) = Name(n.layer, "down_proj.weight", part[2])
         /\ n.key \notin {"gate_up_proj.weight", "experts.w13_weight", "experts.w2_weight"}
              /\ ~Apart(n) => Source(n, part) = n
BY DEF Source, Apart

\* Tensor n is put into part of parameter m by the loader of experts, of stacked
\* parameters, and of the others.
ByExpert(n, m, part) ==
    /\ IsExpert(n) /\ LocalExpert(n.expert)
    /\ m = ExpertTarget(n) /\ part = <<ExpertShard[n.key][2], n.expert>>
ByStacked(n, m, part) ==
    /\ ~IsExpert(n) /\ ~IsFp8Qkv(n) /\ IsStacked(n)
    /\ m = StackedTarget(n) /\ part = StackedShard[n.key][2]
ByName(n, m, part) ==
    /\ ~IsExpert(n) /\ ~IsFp8Qkv(n) /\ ~IsStacked(n)
    /\ m = n /\ part = "all"

\* What a part is made of is put there.
LEMMA Arrives ==
  ASSUME d \in Deployments, DOMAIN params = ParamNames, NEW m \in ParamNames, ~FromFused(m),
         NEW part \in Parts(m), NEW n, n = Source(m, part)
  PROVE  /\ ~Ignored(n)
         /\ ByExpert(n, m, part) \/ ByStacked(n, m, part) \/ ByName(n, m, part)
<1>1. /\ m = Plain(m.layer, m.key) /\ m.expert = -1
      /\ \/ m.layer = -1 /\ m.key \in {"embed_tokens.weight", "norm.weight", "lm_head.weight"}
         \/ /\ m.layer \in Own
            /\ m.key \in AttnParams(m.layer) \cup MlpParams(m.layer) \cup NormParams
  BY ParamShape
<1>2. m.layer \in Own => m.layer # -1  BY OwnLayers, ModelAssumption
<1>3. m.layer \in Own => m.key \in LayerKeys
                         /\ (m.key = "qkv_proj.weight_scale_inv" => Fp8)
  BY <1>1, <1>2, KeysOf
<1>4. ASSUME NEW key, n = Plain(m.layer, key), m.layer \in Own,
             key \in {"q_proj.weight", "k_proj.weight", "v_proj.weight",
                      "gate_proj.weight", "up_proj.weight"},
             m.key = StackedShard[key][1], part = StackedShard[key][2]
      PROVE  ~Ignored(n) /\ ByStacked(n, m, part)
  <2>1. n.layer = m.layer /\ n.key = key /\ n.expert = -1  BY <1>4 DEF Plain, Name
  <2>2. ~Ignored(n) /\ ~IsExpert(n) /\ ~IsFp8Qkv(n)
    BY <1>4, <2>1 DEF Ignored, IsExpert, IsFp8Qkv
  <2>3. StackedTarget(n) = m  BY <1>1, <1>4, <2>1 DEF StackedTarget, Plain
  <2>4. ~PPMissing(n)  BY <1>2, <1>4, <2>1 DEF PPMissing
  <2>5. key \in DOMAIN StackedShard  BY <1>4, StackedShardIs
  <2>6. QED  BY <1>4, <2>1, <2>2, <2>3, <2>4, <2>5 DEF ByStacked, IsStacked
<1>5. ASSUME NEW key \in DOMAIN ExpertShard, NEW e \in LocalExperts, n = Name(m.layer, key, e),
             m.layer \in Own, m.key = ExpertShard[key][1], part = <<ExpertShard[key][2], e>>
      PROVE  ~Ignored(n) /\ ByExpert(n, m, part)
  <2>1. n.layer = m.layer /\ n.key = key /\ n.expert = e  BY <1>5 DEF Name
  <2>2. LocalExpert(e) /\ e # -1  BY ModelAssumption DEF LocalExperts
  <2>3. ExpertTarget(n) = m  BY <1>1, <1>5, <2>1 DEF ExpertTarget
  <2>4. ~PPMissing(n)  BY <1>2, <1>5, <2>1 DEF PPMissing
  <2>5. ~Ignored(n)  BY <2>1, ExpertShardIs DEF Ignored
  <2>6. QED  BY <1>5, <2>1, <2>2, <2>3, <2>4, <2>5 DEF ByExpert, IsExpert
<1>6. CASE m.key = "gate_up_proj.weight"
  <2>1. m.layer \in Own  BY <1>1, <1>6
  <2>2. part \in {"0", "1"}  BY <1>6, PartsAre
  <2>3. CASE part = "0"
    <3>1. n = Plain(m.layer, "gate_proj.weight")  BY <1>6, <2>3, SourceIs
    <3>2. QED  BY <1>4, <1>6, <2>1, <2>3, <3>1, StackedShardIs
  <2>4. CASE part = "1"
    <3>1. n = Plain(m.layer, "up_proj.weight")  BY <1>6, <2>4, SourceIs
    <3>2. QED  BY <1>4, <1>6, <2>1, <2>4, <3>1, StackedShardIs
  <2>5. QED  BY <2>2, <2>3, <2>4
<1>7. CASE Apart(m)
  <2>1. m.layer \in Own  BY <1>1, <1>7 DEF Apart
  <2>2. part \in {"q", "k", "v"} /\ m.key = "qkv_proj.weight"  BY <1>7, PartsAre DEF Apart
  <2>3. CASE part = "q"
    <3>1. n = Plain(m.layer, "q_proj.weight")  BY <1>7, <2>3, SourceIs
    <3>2. QED  BY <1>4, <2>1, <2>2, <2>3, <3>1, StackedShardIs
  <2>4. CASE part = "k"
    <3>1. n = Plain(m.layer, "k_proj.weight")  BY <1>7, <2>4, SourceIs
    <3>2. QED  BY <1>4, <2>1, <2>2, <2>4, <3>1, StackedShardIs
  <2>5. CASE part = "v"
    <3>1. n = Plain(m.layer, "v_proj.weight")  BY <1>7, <2>5, SourceIs
    <3>2. QED  BY <1>4, <2>1, <2>2, <2>5, <3>1, StackedShardIs
  <2>6. QED  BY <2>2, <2>3, <2>4, <2>5
<1>8. CASE m.key = "experts.w13_weight"
  <2>1. m.layer \in Own  BY <1>1, <1>8
  <2>2. part \in {"w1", "w3"} \X LocalExperts  BY <1>8, PartsAre
  <2>3. PICK w \in {"w1", "w3"}, e \in LocalExperts : part = <<w, e>>  BY <2>2
  <2>4. part[1] = w /\ part[2] = e  BY <2>3
  <2>5. CASE w = "w1"
    <3>1. n = Name(m.layer, "gate_proj.weight", e)  BY <1>8, <2>4, <2>5, SourceIs
    <3>2. /\ "gate_proj.weight" \in DOMAIN ExpertShard
          /\ ExpertShard["gate_proj.weight"][1] = "experts.w13_weight"
          /\ ExpertShard["gate_proj.weight"][2] = w
      BY <2>3, <2>5, ExpertShardIs
    <3>3. QED  BY <1>5, <1>8, <2>1, <2>3, <3>1, <3>2, Zenon
  <2>6. CASE w = "w3"
    <3>1. n = Name(m.layer, "up_proj.weight", e)  BY <1>8, <2>4, <2>6, SourceIs
    <3>2. /\ "up_proj.weight" \in DOMAIN ExpertShard
          /\ ExpertShard["up_proj.weight"][1] = "experts.w13_weight"
          /\ ExpertShard["up_proj.weight"][2] = w
      BY <2>3, <2>6, ExpertShardIs
    <3>3. QED  BY <1>5, <1>8, <2>1, <2>3, <3>1, <3>2, Zenon
  <2>7. QED  BY <2>5, <2>6
<1>9. CASE m.key = "experts.w2_weight"
  <2>1. m.layer \in Own  BY <1>1, <1>9
  <2>2. part \in {"w2"} \X LocalExperts  BY <1>9, PartsAre
  <2>3. PICK e \in LocalExperts : part = <<"w2", e>>  BY <2>2
  <2>4. part[2] = e  BY <2>3
  <2>5. n = Name(m.layer, "down_proj.weight", e)  BY <1>9, <2>4, SourceIs
  <2>6. /\ "down_proj.weight" \in DOMAIN ExpertShard
        /\ ExpertShard["down_proj.weight"][1] = "experts.w2_weight"
        /\ ExpertShard["down_proj.weight"][2] = "w2"
    BY ExpertShardIs
  <2>7. QED  BY <1>5, <1>9, <2>1, <2>3, <2>5, <2>6, Zenon
<1>10. CASE /\ m.key \notin {"gate_up_proj.weight", "experts.w13_weight", "experts.w2_weight"}
            /\ ~Apart(m)
  <2>1. n = m /\ part = "all"  BY <1>10, PartsAre, SourceIs
  <2>2. m.key \in LayerKeys \cup {"embed_tokens.weight", "norm.weight", "lm_head.weight"}
    BY <1>1, <1>3
  <2>3. ~Ignored(n) /\ ~IsExpert(n)  BY <1>1, <2>1, <2>2 DEF Ignored, IsExpert, LayerKeys
  <2>4. ~IsFp8Qkv(n)
    <3>1. m.key = "qkv_proj.weight_scale_inv" => Fp8  BY <1>1, <1>3
    <3>2. QED  BY <2>1, <3>1 DEF IsFp8Qkv, FromFused, Fp8
  <2>5. ~IsStacked(n)
    <3>1. ASSUME m.key \in DOMAIN StackedShard
          PROVE  StackedTarget(n) \notin DOMAIN params
      <4>1. m.key = "qkv_proj.weight"
        BY <2>2, <3>1, StackedShardIs DEF LayerKeys
      <4>2. StackedTarget(n).key = "qkqkv_proj.weight"
        BY <2>1, <4>1, StackedShardIs DEF StackedTarget, Name
      <4>3. \A q \in ParamNames : q.key # "qkqkv_proj.weight"
        BY ParamShape, KeysOf DEF LayerKeys
      <4>4. QED  BY <4>2, <4>3
    <3>2. QED  BY <2>1, <3>1 DEF IsStacked
  <2>6. QED  BY <2>1, <2>3, <2>4, <2>5 DEF ByName
<1>11. QED  BY <1>6, <1>7, <1>8, <1>9, <1>10

\* What the loaders put is a part that the parameter has.
LEMMA Fits ==
  ASSUME d \in Deployments, NEW n, n \in Names, n \in Checkpoint(d.style),
         DOMAIN params = ParamNames, NEW m \in ParamNames, NEW part,
         ByExpert(n, m, part) \/ ByStacked(n, m, part) \/ ByName(n, m, part)
  PROVE  part \in Parts(m) /\ ~FromFused(m)
<1>1. /\ n.key \notin {"gate_up_proj.weight", "experts.w13_weight", "experts.w2_weight"}
      /\ n.key \in {"q_proj.weight", "k_proj.weight", "v_proj.weight"} => d.style = "split"
      /\ n.key = "qkv_proj.weight" => d.style # "split"
  BY StyleOf, CheckpointAssumption
<1>2. CASE ByExpert(n, m, part)
  <2>1. /\ n.key \in DOMAIN ExpertShard /\ LocalExpert(n.expert) /\ n.expert # -1
        /\ m.key = ExpertShard[n.key][1] /\ part = <<ExpertShard[n.key][2], n.expert>>
    BY <1>2 DEF ByExpert, IsExpert, ExpertTarget, Plain, Name
  <2>2. n.expert \in LocalExperts
    <3>1. n.expert \in -1 .. NumExperts - 1 /\ NumExperts \in Nat
      BY ModelAssumption DEF Names
    <3>2. QED  BY <2>1, <3>1 DEF LocalExperts
  <2>3. \/ m.key = "experts.w13_weight" /\ part \in {"w1", "w3"} \X LocalExperts
        \/ m.key = "experts.w2_weight" /\ part \in {"w2"} \X LocalExperts
    BY <2>1, <2>2, ExpertShardIs
  <2>4. QED  BY <2>3, PartsAre DEF FromFused
<1>3. CASE ByStacked(n, m, part)
  <2>1. /\ n.key \in DOMAIN StackedShard
        /\ m.key = StackedShard[n.key][1] /\ part = StackedShard[n.key][2]
    BY <1>3 DEF ByStacked, IsStacked, StackedTarget, Name
  <2>2. m.key # "qkqkv_proj.weight"  BY ParamShape, KeysOf DEF LayerKeys
  <2>3. \/ m.key = "gate_up_proj.weight" /\ part \in {"0", "1"}
        \/ m.key = "qkv_proj.weight" /\ d.style = "split" /\ part \in {"q", "k", "v"}
    BY <1>1, <2>1, <2>2, StackedShardIs
  <2>4. QED  BY <2>3, PartsAre DEF FromFused, Fp8, Apart
<1>4. CASE ByName(n, m, part)
  <2>1. m = n /\ part = "all" /\ ~IsFp8Qkv(n)  BY <1>4 DEF ByName
  <2>2. ~Apart(m)  BY <1>1, <2>1 DEF Apart
  <2>3. QED  BY <1>1, <2>1, <2>2, PartsAre DEF FromFused, Fp8, IsFp8Qkv
<1>5. QED  BY <1>2, <1>3, <1>4
LEMMA PutAdds ==
  ASSUME NEW t \in DOMAIN params, NEW part, NEW value, Put(t, part, value)
  PROVE  /\ DOMAIN params' = DOMAIN params /\ loaded' = loaded \cup {t}
         /\ \A m \in DOMAIN params : m # t => (params')[m] = params[m]
         /\ DOMAIN (params')[t] = DOMAIN params[t] \cup {part}
         /\ (params')[t][part] = value
         /\ \A y \in DOMAIN params[t] : y # part => (params')[t][y] = params[t][y]
<1>1. PICK h : h = With(params[t], part, value)  OBVIOUS
<1>2. params' = [params EXCEPT ![t] = h] /\ loaded' = loaded \cup {t}
  BY <1>1 DEF Put
<1>3. /\ DOMAIN h = DOMAIN params[t] \cup {part} /\ h[part] = value
      /\ \A y \in DOMAIN params[t] : y # part => h[y] = params[t][y]
  BY <1>1 DEF With
<1>4. (params')[t] = h  BY <1>2
<1>5. QED  BY <1>2, <1>3, <1>4

\* Tensor n is put into the parts it belongs to and no parameter loses any; what is
\* written is reported.
Adds(n) ==
    /\ DOMAIN params' = DOMAIN params
    /\ \A m \in DOMAIN params :
         /\ DOMAIN params[m] \subseteq DOMAIN (params')[m]
         /\ DOMAIN (params')[m] \subseteq Parts(m)
         /\ m \notin loaded' => (params')[m] = << >>
         /\ ~FromFused(m) => \A part \in Parts(m) :
              Source(m, part) = n => part \in DOMAIN (params')[m]

\* Fused projections are left alone.
LeavesFused ==
    \A m \in ParamNames : FromFused(m) =>
      (params')[m] = params[m] /\ (m \in loaded' <=> m \in loaded)

LEMMA PutFits ==
  ASSUME PartsInv, d \in Deployments, DOMAIN params = ParamNames, NEW n \in Names,
         n \in Checkpoint(d.style), NEW t \in ParamNames, NEW p, NEW value, Put(t, p, value),
         ByExpert(n, t, p) \/ ByStacked(n, t, p) \/ ByName(n, t, p)
  PROVE  Adds(n) /\ LeavesFused
<1>1. p \in Parts(t) /\ ~FromFused(t)  BY Fits
<1>2. /\ DOMAIN params' = DOMAIN params /\ loaded' = loaded \cup {t}
      /\ \A m \in DOMAIN params : m # t => (params')[m] = params[m]
      /\ DOMAIN (params')[t] = DOMAIN params[t] \cup {p}
  BY PutAdds
<1>3. LeavesFused  BY <1>1, <1>2 DEF LeavesFused
<1>4. ASSUME NEW m \in DOMAIN params
      PROVE  /\ DOMAIN params[m] \subseteq DOMAIN (params')[m]
             /\ DOMAIN (params')[m] \subseteq Parts(m)
             /\ m \notin loaded' => (params')[m] = << >>
             /\ ~FromFused(m) => \A part \in Parts(m) :
                  Source(m, part) = n => part \in DOMAIN (params')[m]
  <2>1. DOMAIN params[m] \subseteq Parts(m) /\ (m \notin loaded => params[m] = << >>)
    BY DEF PartsInv
  <2>2. ASSUME ~FromFused(m), NEW part \in Parts(m), Source(m, part) = n
        PROVE  part \in DOMAIN (params')[m]
    <3>1. ByExpert(n, m, part) \/ ByStacked(n, m, part) \/ ByName(n, m, part)
      BY <2>2, Arrives
    <3>2. m = t /\ part = p
      BY <3>1, ExpertShardIs DEF ByExpert, ByStacked, ByName
    <3>3. QED  BY <1>2, <3>2
  <2>3. QED  BY <1>1, <1>2, <2>1, <2>2
<1>5. QED  BY <1>2, <1>3, <1>4 DEF Adds

LEMMA NothingFits ==
  ASSUME PartsInv, d \in Deployments, DOMAIN params = ParamNames, NEW n,
         params' = params, loaded \subseteq loaded',
         \A m \in ParamNames : \A part \in Parts(m) :
           ~(ByExpert(n, m, part) \/ ByStacked(n, m, part) \/ ByName(n, m, part)) \/ Ignored(n)
  PROVE  Adds(n)
<1>1. ASSUME NEW m \in DOMAIN params, ~FromFused(m), NEW part \in Parts(m),
             Source(m, part) = n
      PROVE  FALSE
  BY <1>1, Arrives
<1>2. \A m \in DOMAIN params :
        DOMAIN params[m] \subseteq Parts(m) /\ (m \notin loaded => params[m] = << >>)
  BY DEF PartsInv
<1>3. QED  BY <1>1, <1>2 DEF Adds

\* A sink is written by its own name only.
LEMMA SinksKeep ==
  ASSUME SinkInv, d' = d, DOMAIN params = ParamNames, NEW t \in ParamNames, NEW p, NEW value,
         Put(t, p, value),
         p = "all" /\ t.key = "attention_sink_bias" => value = NarrowSinks(t.layer)
  PROVE  SinkInv'
<1>1. Own' = Own /\ \A l : NarrowSinks(l)' = NarrowSinks(l)  BY SameRank
<1>2. /\ DOMAIN params' = DOMAIN params
      /\ \A m \in DOMAIN params : m # t => (params')[m] = params[m]
      /\ DOMAIN (params')[t] = DOMAIN params[t] \cup {p} /\ (params')[t][p] = value
      /\ \A y \in DOMAIN params[t] : y # p => (params')[t][y] = params[t][y]
  BY PutAdds
<1>3. ASSUME NEW l \in Own, Has(l, "attention_sink_bias")'
      PROVE  Part(l, "attention_sink_bias")' = NarrowSinks(l)
  <2>1. PICK m : m = Plain(l, "attention_sink_bias")  OBVIOUS
  <2>2. m \in DOMAIN params /\ "all" \in DOMAIN (params')[m]
    BY <1>2, <1>3, <2>1 DEF Has
  <2>3. m.layer = l /\ m.key = "attention_sink_bias"  BY <2>1 DEF Plain, Name
  <2>4. Part(l, "attention_sink_bias")' = (params')[m]["all"]  BY <2>1 DEF Part
  <2>5. CASE m = t /\ p = "all"  BY <1>2, <2>3, <2>4, <2>5
  <2>6. CASE ~(m = t /\ p = "all")
    <3>1. "all" \in DOMAIN params[m] /\ (params')[m]["all"] = params[m]["all"]
      BY <1>2, <2>2, <2>6
    <3>2. Has(l, "attention_sink_bias")  BY <2>1, <2>2, <3>1 DEF Has
    <3>3. params[m]["all"] = NarrowSinks(l)  BY <2>1, <3>2 DEF SinkInv, Part
    <3>4. QED  BY <2>4, <3>1, <3>3
  <2>7. QED  BY <2>5, <2>6
<1>4. QED  BY <1>1, <1>3 DEF SinkInv

\* The loaders of experts, of stacked parameters and of the others.
LEMMA LoadersAdd ==
  ASSUME PartsInv, SinkInv, d \in Deployments, d' = d, DOMAIN params = ParamNames,
         NEW n \in Names, n \in Checkpoint(d.style),
         LoadExpert(n) \/ LoadStacked(n) \/ LoadPlain(n)
  PROVE  Adds(n) /\ LeavesFused /\ SinkInv'
<1>1. CASE LoadExpert(n)
  <2>1. IsExpert(n) /\ ExpertTarget(n) \in ParamNames /\ n.key \in DOMAIN ExpertShard
    BY <1>1 DEF LoadExpert, IsExpert
  <2>2. ExpertTarget(n).key \in {"experts.w13_weight", "experts.w2_weight"}
    BY <2>1, ExpertParameters DEF ExpertTarget, Plain, Name
  <2>3. CASE LocalExpert(n.expert)
    <3>1. PICK part, value : /\ Put(ExpertTarget(n), part, value)
                             /\ part = <<ExpertShard[n.key][2], n.expert>>
      BY <1>1, <2>3 DEF LoadExpert
    <3>2. ByExpert(n, ExpertTarget(n), part)  BY <2>1, <2>3, <3>1 DEF ByExpert
    <3>3. SinkInv'  BY <2>1, <2>2, <3>1, SinksKeep
    <3>4. QED  BY <2>1, <3>1, <3>2, <3>3, PutFits
  <2>4. CASE ~LocalExpert(n.expert)
    <3>1. params' = params /\ loaded' = loaded \cup {ExpertTarget(n)}
      BY <1>1, <2>4 DEF LoadExpert
    <3>2. \A m \in ParamNames : \A part \in Parts(m) :
            ~(ByExpert(n, m, part) \/ ByStacked(n, m, part) \/ ByName(n, m, part))
      BY <2>1, <2>4 DEF ByExpert, ByStacked, ByName
    <3>3. Adds(n)  BY <3>1, <3>2, NothingFits
    <3>4. LeavesFused  BY <2>2, <3>1 DEF LeavesFused, FromFused
    <3>5. SinkInv'  BY <3>1, SameRank DEF SinkInv, Has, Part
    <3>6. QED  BY <3>3, <3>4, <3>5
  <2>5. QED  BY <2>3, <2>4
<1>2. CASE LoadStacked(n)
  <2>1. PICK part, value : Put(StackedTarget(n), part, value) /\ part = StackedShard[n.key][2]
    BY <1>2 DEF LoadStacked
  <2>2. ByStacked(n, StackedTarget(n), part) /\ StackedTarget(n) \in ParamNames /\ part # "all"
    BY <1>2, <2>1, StackedParts DEF LoadStacked, ByStacked, IsStacked
  <2>3. SinkInv'  BY <2>1, <2>2, SinksKeep
  <2>4. QED  BY <2>1, <2>2, <2>3, PutFits
<1>3. CASE LoadPlain(n)
  <2>1. ~IsExpert(n) /\ ~IsFp8Qkv(n) /\ ~IsStacked(n)  BY <1>3 DEF LoadPlain
  <2>2. CASE n \in DOMAIN params
    <3>1. PICK value : /\ Put(n, "all", value)
                       /\ n.key = "attention_sink_bias" => value = NarrowSinks(n.layer)
      BY <1>3, <2>2 DEF LoadPlain
    <3>2. ByName(n, n, "all")  BY <2>1 DEF ByName
    <3>3. SinkInv'  BY <2>2, <3>1, SinksKeep
    <3>4. QED  BY <2>2, <3>1, <3>2, <3>3, PutFits
  <2>3. CASE n \notin DOMAIN params
    <3>1. params' = params /\ loaded' = loaded  BY <1>3, <2>3 DEF LoadPlain
    <3>2. \A m \in ParamNames : \A part \in Parts(m) :
            ~(ByExpert(n, m, part) \/ ByStacked(n, m, part) \/ ByName(n, m, part))
      BY <2>1, <2>3 DEF ByExpert, ByStacked, ByName
    <3>3. Adds(n)  BY <3>1, <3>2, NothingFits
    <3>4. SinkInv'  BY <3>1, SameRank DEF SinkInv, Has, Part
    <3>5. QED  BY <3>1, <3>3, <3>4 DEF LeavesFused
  <2>4. QED  BY <2>2, <2>3
<1>4. QED  BY <1>1, <1>2, <1>3
LEMMA PartsKeep ==
  ASSUME PartsInv, d' = d, NEW n, Adds(n), Came' \subseteq Came \cup {n}
  PROVE  PartsInv'
<1>1. /\ \A m : Parts(m)' = Parts(m) /\ FromFused(m)' = FromFused(m)
      /\ \A m, part : Source(m, part)' = Source(m, part)
  BY SameRank
<1>2. \A m \in DOMAIN params' :
        /\ DOMAIN (params')[m] \subseteq Parts(m)
        /\ m \notin loaded' => (params')[m] = << >>
  BY DEF Adds
<1>3. ASSUME NEW m \in DOMAIN params', ~FromFused(m), NEW part \in Parts(m),
             Source(m, part) \in Came'
      PROVE  part \in DOMAIN (params')[m]
  <2>1. m \in DOMAIN params  BY DEF Adds
  <2>2. CASE Source(m, part) = n  BY <1>3, <2>1, <2>2 DEF Adds
  <2>3. CASE Source(m, part) \in Came
    <3>1. part \in DOMAIN params[m]  BY <1>3, <2>1, <2>3 DEF PartsInv
    <3>2. QED  BY <2>1, <3>1 DEF Adds
  <2>4. QED  BY <1>3, <2>2, <2>3
<1>4. QED  BY <1>1, <1>2, <1>3 DEF PartsInv

LEMMA BothOwn ==
  ASSUME Fp8, NEW l \in Own
  PROVE  Both(l) \subseteq ParamNames /\ \A m \in Both(l) : FromFused(m)
<1>1. Both(l) \subseteq LayerParams(l)
  BY DEF Fp8, Both, Weight, Scale, LayerParams, AttnParams
<1>2. LayerParams(l) \subseteq ParamNames  BY DEF ParamNames, OwnParams
<1>3. QED  BY <1>1, <1>2, BothFused DEF FromFused

LEMMA PairKeeps ==
  ASSUME PairInv, DOMAIN params = ParamNames, d' = d, LeavesFused, phase = "load",
         phase' = "load", pending' = pending, NEW n, Came' \subseteq Came \cup {n},
         Fp8 => \A l \in Own : n \notin Both(l)
  PROVE  PairInv'
<1>1. Own' = Own /\ Fp8' = Fp8  BY SameRank
<1>2. SUFFICES ASSUME Fp8, NEW l \in Own
               PROVE  /\ Weight(l) \in loaded' <=> Scale(l) \in loaded'
                      /\ \A m \in Both(l) :
                           /\ m \in loaded' => "all" \in DOMAIN (params')[m]
                           /\ m \in Came' => m \in loaded' \/ m \in pending[l]
                      /\ Both(l) \subseteq Came' => Weight(l) \in loaded'
  BY <1>1 DEF PairInv, Both, Weight, Scale
<1>3. \A m \in Both(l) : /\ (params')[m] = params[m] /\ (m \in loaded' <=> m \in loaded)
                         /\ m \in Came' => m \in Came
  BY <1>2, BothOwn DEF LeavesFused
<1>4. /\ Weight(l) \in loaded <=> Scale(l) \in loaded
      /\ \A m \in Both(l) : /\ m \in loaded => "all" \in DOMAIN params[m]
                            /\ m \in Came => m \in loaded \/ m \in pending[l]
      /\ Both(l) \subseteq Came => Weight(l) \in loaded
  BY <1>2 DEF PairInv
<1>5. Weight(l) \in Both(l) /\ Scale(l) \in Both(l)  BY DEF Both
<1>6. QED  BY <1>3, <1>4, <1>5

\* A fused tensor waits, or it is put with its partner.
LEMMA FusedKeeps ==
  ASSUME LoadInv, PartsInv, PairInv, SinkInv, DOMAIN params = ParamNames, NEW n, Given(n),
         d' = d, phase = "load", phase' = "load", Came' \subseteq Came \cup {n}, LoadFp8Qkv(n),
         Fp8 \/ \A l \in 0 .. NumLayers - 1 : Weight(l) \notin pending[l]
  PROVE  /\ Adds(n) /\ PairInv' /\ SinkInv'
         /\ Fp8 \/ \A l \in 0 .. NumLayers - 1 : Weight(l) \notin (pending')[l]
<1>1. IsFp8Qkv(n) /\ ~IsExpert(n)  BY DEF LoadFp8Qkv
<1>2. PICK l \in 0 .. NumLayers - 1 : l = n.layer  BY <1>1, FusedName
<1>3. n \in Both(l) /\ n.layer # -1 /\ PendingInv /\ d \in Deployments
  BY <1>1, <1>2, FusedName DEF LoadInv, FileInv
<1>4. PICK entry : entry = Entry(l) \cup {n}  OBVIOUS
<1>5. entry \subseteq Both(l) /\ entry = pending[l] \cup {n}
  BY <1>3, <1>4 DEF PendingInv, Entry
<1>6. \A m \in ParamNames : \A part \in Parts(m) :
        ~(ByExpert(n, m, part) \/ ByStacked(n, m, part) \/ ByName(n, m, part))
  BY <1>1 DEF ByExpert, ByStacked, ByName
<1>7. ~Fp8 => n = Scale(l)
  <2>1. ~Fp8 => n.key = "qkv_proj.weight_scale_inv"  BY <1>1 DEF IsFp8Qkv, Fp8
  <2>2. QED  BY <1>3, <2>1 DEF Both, Weight, Plain, Name
<1>8. Own' = Own /\ Fp8' = Fp8 /\ \A y : NarrowSinks(y)' = NarrowSinks(y)  BY SameRank
<1>9. ASSUME params' = params, loaded' = loaded
      PROVE  Adds(n) /\ SinkInv' /\ LeavesFused
  <2>1. Adds(n)  BY <1>3, <1>6, <1>9, NothingFits
  <2>2. SinkInv'  BY <1>8, <1>9 DEF SinkInv, Has, Part
  <2>3. QED  BY <1>9, <2>1, <2>2 DEF LeavesFused
<1>10. CASE PPMissing(n) /\ UNCHANGED <<pending, params, loaded, phase>>
  <2>1. l \notin Own  BY <1>2, <1>3, <1>10 DEF PPMissing
  <2>2. \A y \in Own : n \notin Both(y)  BY <1>2, <2>1, BothFused
  <2>3. PairInv'  BY <1>9, <1>10, <2>2, PairKeeps
  <2>4. QED  BY <1>9, <1>10, <2>3
<1>11. CASE /\ ~PPMissing(n) /\ {m.key : m \in entry} # {Weight(l).key, Scale(l).key}
            /\ pending' = [pending EXCEPT ![l] = entry]
            /\ params' = params /\ loaded' = loaded
  <2>1. entry # Both(l)
    <3>1. entry = Both(l) => {m.key : m \in entry} = {Weight(l).key, Scale(l).key}
      BY DEF Both
    <3>2. QED  BY <1>11, <3>1
  <2>2. /\ (pending')[l] = entry /\ DOMAIN pending = 0 .. NumLayers - 1
        /\ \A y \in 0 .. NumLayers - 1 : y # l => (pending')[y] = pending[y]
    BY <1>3, <1>11 DEF PendingInv
  <2>3. Fp8 \/ \A y \in 0 .. NumLayers - 1 : Weight(y) \notin (pending')[y]
    <3>1. Weight(l) # Scale(l)  BY DEF Weight, Scale, Plain, Name
    <3>2. QED  BY <1>5, <1>7, <2>2, <3>1
  <2>4. ASSUME Fp8, NEW y \in Own
        PROVE  /\ Weight(y) \in loaded <=> Scale(y) \in loaded
               /\ \A m \in Both(y) :
                    /\ m \in loaded => "all" \in DOMAIN params[m]
                    /\ m \in Came' => m \in loaded \/ m \in (pending')[y]
               /\ Both(y) \subseteq Came' => Weight(y) \in loaded
    <3>1. /\ Weight(y) \in loaded <=> Scale(y) \in loaded
          /\ \A m \in Both(y) : /\ m \in loaded => "all" \in DOMAIN params[m]
                                /\ m \in Came => m \in loaded \/ m \in pending[y]
          /\ Both(y) \subseteq Came => Weight(y) \in loaded
      BY <2>4 DEF PairInv
    <3>2. y \in 0 .. NumLayers - 1  BY <1>3, OwnLayers
    <3>3. CASE y = l
      <4>1. \A m \in Both(y) : m \in Came' => m \in loaded \/ m \in (pending')[y]
        BY <1>5, <2>2, <3>1, <3>3
      <4>2. ASSUME Both(y) \subseteq Came' PROVE Weight(y) \in loaded
        <5>1. PICK o \in Both(l) : o \notin entry  BY <1>5, <2>1
        <5>2. o \in loaded  BY <2>2, <3>3, <4>1, <4>2, <5>1
        <5>3. QED  BY <3>1, <3>3, <5>2 DEF Both
      <4>3. QED  BY <3>1, <4>1, <4>2
    <3>4. CASE y # l
      <4>1. n \notin Both(y)  BY <1>2, <3>4, BothFused
      <4>2. (pending')[y] = pending[y]  BY <2>2, <3>2, <3>4
      <4>3. \A m \in Both(y) : m \in Came' => m \in Came  BY <4>1
      <4>4. QED  BY <3>1, <4>2, <4>3
    <3>5. QED  BY <3>3, <3>4
  <2>5. PairInv'  BY <1>8, <1>11, <2>4 DEF PairInv, Both, Weight, Scale
  <2>6. QED  BY <1>9, <1>11, <2>3, <2>5
<1>12. CASE /\ ~PPMissing(n) /\ {m.key : m \in entry} = {Weight(l).key, Scale(l).key}
            /\ pending' = [pending EXCEPT ![l] = {}]
            /\ \E v, w : params' = [params EXCEPT ![Weight(l)] = With(<< >>, "all", v),
                                                  ![Scale(l)] = With(<< >>, "all", w)]
            /\ loaded' = loaded \cup {Weight(l), Scale(l)}
  <2>1. entry = Both(l)  BY <1>3, <1>4, <1>12, EntryIsBoth
  <2>2. Fp8
    <3>1. Weight(l) # Scale(l)  BY DEF Weight, Scale, Plain, Name
    <3>2. ~Fp8 => Weight(l) \in pending[l]  BY <1>5, <1>7, <2>1, <3>1 DEF Both
    <3>3. QED  BY <3>2
  <2>3. l \in Own  BY <1>2, <1>3, <1>12 DEF PPMissing
  <2>4. Both(l) \subseteq DOMAIN params /\ \A m \in Both(l) : FromFused(m)
    BY <2>2, <2>3, BothOwn
  <2>5. PICK v, w : params' = [params EXCEPT ![Weight(l)] = With(<< >>, "all", v),
                                             ![Scale(l)] = With(<< >>, "all", w)]
    BY <1>12
  <2>6. Weight(l) \in DOMAIN params /\ Scale(l) \in DOMAIN params /\ Weight(l) # Scale(l)
    BY <2>4 DEF Both, Weight, Scale, Plain, Name
  <2>7. \A x : DOMAIN With(<< >>, "all", x) = {"all"}  BY DEF With
  <2>8. /\ DOMAIN params' = DOMAIN params
        /\ \A m \in Both(l) : DOMAIN (params')[m] = {"all"}
        /\ \A m \in DOMAIN params : m \notin Both(l) => (params')[m] = params[m]
    BY <2>5, <2>6, <2>7 DEF Both
  <2>9. \A m \in Both(l) : Parts(m) = {"all"}
    BY <2>2, BothFused, PartsAre DEF Fp8, Apart
  <2>10. loaded' = loaded \cup Both(l)  BY <1>12 DEF Both
  <2>11. Adds(n)
    <3>1. ASSUME NEW m \in DOMAIN params
          PROVE  /\ DOMAIN params[m] \subseteq DOMAIN (params')[m]
                 /\ DOMAIN (params')[m] \subseteq Parts(m)
                 /\ m \notin loaded' => (params')[m] = << >>
                 /\ ~FromFused(m) => \A part \in Parts(m) :
                      Source(m, part) = n => part \in DOMAIN (params')[m]
      <4>1. DOMAIN params[m] \subseteq Parts(m) /\ (m \notin loaded => params[m] = << >>)
        BY DEF PartsInv
      <4>2. ASSUME ~FromFused(m), NEW part \in Parts(m), Source(m, part) = n PROVE FALSE
        BY <1>3, <1>6, <4>2, Arrives
      <4>3. QED  BY <2>8, <2>9, <2>10, <4>1, <4>2
    <3>2. QED  BY <2>8, <3>1 DEF Adds
  <2>12. SinkInv'
    <3>1. ASSUME NEW y PROVE Plain(y, "attention_sink_bias") \notin Both(l)
      BY BothFused DEF Plain, Name
    <3>2. QED  BY <1>8, <2>8, <3>1 DEF SinkInv, Has, Part
  <2>13. /\ DOMAIN pending = 0 .. NumLayers - 1
         /\ \A y \in 0 .. NumLayers - 1 : y # l => (pending')[y] = pending[y]
    BY <1>3, <1>12 DEF PendingInv
  <2>14. ASSUME NEW y \in Own
         PROVE  /\ Weight(y) \in loaded' <=> Scale(y) \in loaded'
                /\ \A m \in Both(y) :
                     /\ m \in loaded' => "all" \in DOMAIN (params')[m]
                     /\ m \in Came' => m \in loaded' \/ m \in (pending')[y]
                /\ Both(y) \subseteq Came' => Weight(y) \in loaded'
    <3>1. CASE y = l  BY <2>8, <2>10, <3>1 DEF Both
    <3>2. CASE y # l
      <4>1. y \in 0 .. NumLayers - 1  BY <1>3, OwnLayers
      <4>2. /\ Weight(y) \in loaded <=> Scale(y) \in loaded
            /\ \A m \in Both(y) : /\ m \in loaded => "all" \in DOMAIN params[m]
                                  /\ m \in Came => m \in loaded \/ m \in pending[y]
            /\ Both(y) \subseteq Came => Weight(y) \in loaded
        BY <2>2 DEF PairInv
      <4>3. \A m \in Both(y) : m \notin Both(l) /\ m # n /\ m \in DOMAIN params
        BY <1>3, <2>2, <3>2, BothFused, BothOwn
      <4>4. \A m \in Both(y) : /\ (params')[m] = params[m] /\ (m \in loaded' <=> m \in loaded)
                               /\ m \in Came' => m \in Came
        BY <2>8, <2>10, <4>3
      <4>5. Weight(y) \in Both(y) /\ Scale(y) \in Both(y)  BY DEF Both
      <4>6. QED  BY <2>13, <3>2, <4>1, <4>2, <4>4, <4>5
    <3>3. QED  BY <3>1, <3>2
  <2>15. PairInv'  BY <1>8, <2>14 DEF PairInv, Both, Weight, Scale
  <2>16. QED  BY <2>2, <2>11, <2>12, <2>15
<1>13. PPMissing(n) => UNCHANGED <<pending, params, loaded, phase>>
  BY DEF LoadFp8Qkv
<1>14. ~PPMissing(n) /\ {m.key : m \in entry} # {Weight(l).key, Scale(l).key} =>
         pending' = [pending EXCEPT ![l] = entry] /\ params' = params /\ loaded' = loaded
  BY <1>2, <1>4 DEF LoadFp8Qkv, Weight, Scale
<1>15. ~PPMissing(n) /\ {m.key : m \in entry} = {Weight(l).key, Scale(l).key} =>
         /\ pending' = [pending EXCEPT ![l] = {}]
         /\ \E v, w : params' = [params EXCEPT ![Weight(l)] = With(<< >>, "all", v),
                                               ![Scale(l)] = With(<< >>, "all", w)]
         /\ loaded' = loaded \cup {Weight(l), Scale(l)}
  BY <1>2, <1>4 DEF LoadFp8Qkv, Weight, Scale
<1>16. QED  BY <1>10, <1>11, <1>12, <1>13, <1>14, <1>15
LEMMA YieldAdds ==
  ASSUME OrderInv, NEW n, Yield(n)
  PROVE  OrderInv'
<1>1. /\ phase = "load" /\ n \in todo /\ todo' = todo \ {n} /\ file' = file
      /\ d' = d /\ layers' = layers /\ headSizeV' = headSizeV
  BY DEF Yield, buildVars
<1>2. LoadInv /\ LoadInv'  BY YieldKeeps DEF OrderInv
<1>3. d \in Deployments /\ Given(n) /\ file \in 1 .. Len(Files[d.style])
  BY <1>1, <1>2 DEF LoadInv, FileInv
<1>4. n \in Checkpoint(d.style)
  <2>1. n \in Files[d.style][file] /\ file \in DOMAIN Files[d.style]
    BY <1>1, <1>3, StyleOf DEF OrderInv
  <2>2. QED  BY <2>1 DEF Checkpoint
<1>5. /\ PartsInv /\ PairInv /\ SinkInv /\ DOMAIN params = ParamNames /\ n \in Names
      /\ Fp8 \/ \A l \in 0 .. NumLayers - 1 : Weight(l) \notin pending[l]
  BY <1>1, <1>3 DEF OrderInv, WholeInv, Loading, Given
<1>6. Came' \subseteq Came \cup {n}
  BY <1>1 DEF Came
<1>7. phase' \in {"load", "raised"}
  BY <1>1, Zenon DEF Yield, LoadExpert, LoadFp8Qkv, LoadStacked, LoadPlain
<1>8. ParamNames' = ParamNames /\ Fp8' = Fp8  BY <1>1, SameRank
<1>9. phase' = "load" =>
        /\ Adds(n) /\ PairInv' /\ SinkInv'
        /\ Fp8 \/ \A l \in 0 .. NumLayers - 1 : Weight(l) \notin (pending')[l]
  <2>1. SUFFICES ASSUME phase' = "load"
                 PROVE  /\ Adds(n) /\ PairInv' /\ SinkInv'
                        /\ Fp8 \/ \A l \in 0 .. NumLayers - 1 : Weight(l) \notin (pending')[l]
    OBVIOUS
  <2>2. CASE LoadFp8Qkv(n)
    BY <1>1, <1>2, <1>3, <1>5, <1>6, <2>1, <2>2, FusedKeeps
  <2>3. ASSUME Adds(n), LeavesFused, SinkInv', pending' = pending, ~IsFp8Qkv(n) \/ Ignored(n)
        PROVE  /\ Adds(n) /\ PairInv' /\ SinkInv'
               /\ Fp8 \/ \A l \in 0 .. NumLayers - 1 : Weight(l) \notin (pending')[l]
    <3>1. Fp8 => \A l \in Own : n \notin Both(l)
      BY <2>3, BothFused DEF IsFp8Qkv, Fp8, Ignored
    <3>2. PairInv'  BY <1>1, <1>5, <1>6, <2>1, <2>3, <3>1, PairKeeps
    <3>3. QED  BY <1>5, <2>3, <3>2
  <2>4. CASE Ignored(n) /\ UNCHANGED <<pending, params, loaded, phase>>
    <3>1. Adds(n)  BY <1>3, <1>5, <2>4, NothingFits
    <3>2. SinkInv'  BY <1>1, <1>5, <2>4, SameRank DEF SinkInv, Has, Part
    <3>3. QED  BY <2>3, <2>4, <3>1, <3>2 DEF LeavesFused
  <2>5. CASE LoadExpert(n) \/ LoadStacked(n) \/ LoadPlain(n)
    <3>1. Adds(n) /\ LeavesFused /\ SinkInv'
      BY <1>1, <1>3, <1>4, <1>5, <2>5, LoadersAdd
    <3>2. pending' = pending  BY <2>5 DEF LoadExpert, LoadStacked, LoadPlain
    <3>3. ~IsFp8Qkv(n)
      BY <2>5, ExpertShardIs DEF LoadExpert, LoadStacked, LoadPlain, IsExpert, IsFp8Qkv
    <3>4. QED  BY <2>3, <3>1, <3>2, <3>3
  <2>6. QED  BY <2>2, <2>4, <2>5, Zenon DEF Yield
<1>10. WholeInv'
  <2>1. CASE phase' = "load"
    <3>1. PartsInv'  BY <1>1, <1>5, <1>6, <1>9, <2>1, PartsKeep
    <3>2. DOMAIN params' = ParamNames'  BY <1>5, <1>8, <1>9, <2>1 DEF Adds
    <3>3. QED  BY <1>9, <2>1, <3>1, <3>2 DEF WholeInv
  <2>2. CASE phase' = "raised"  BY <2>2 DEF WholeInv, Loading
  <2>3. QED  BY <1>7, <2>1, <2>2
<1>11. WidthInv'  BY <1>1, SameRank DEF OrderInv, WidthInv, Geo, Kind
<1>12. Fp8 \/ \A l \in 0 .. NumLayers - 1 : Weight(l) \notin (pending')[l]
  <2>1. CASE phase' = "load"  BY <1>9, <2>1
  <2>2. CASE phase' = "raised"
    <3>1. pending' = pending
      BY <1>1, <2>2, Zenon DEF Yield, LoadExpert, LoadFp8Qkv, LoadStacked, LoadPlain
    <3>2. QED  BY <1>5, <3>1
  <2>3. QED  BY <1>7, <2>1, <2>2
<1>13. QED
  BY <1>1, <1>2, <1>7, <1>8, <1>10, <1>11, <1>12 DEF OrderInv, Weight, IsMoeLayer

LEMMA BuildLayerOrder ==
  ASSUME OrderInv, BuildLayer
  PROVE  OrderInv'
<1>1. /\ phase = "build" /\ d' = d /\ file' = file /\ todo' = todo /\ pending' = pending
      /\ params' = params /\ loaded' = loaded /\ phase' \in {"build", "raised"}
  BY DEF BuildLayer, loadVars
<1>2. LoadInv'  BY BuildLayerKeeps DEF OrderInv
<1>3. WholeInv'  BY <1>1 DEF WholeInv, Loading
<1>4. Fp8' = Fp8  BY <1>1, SameRank
<1>5. \/ layers' = layers /\ headSizeV' = headSizeV
      \/ \E l \in Own : /\ ~Refused(l) /\ layers' = With(layers, l, [attn |-> Attn(l)])
                        /\ headSizeV' = IF Backend(l) = "default" THEN headSizeV
                                        ELSE [headSizeV EXCEPT ![Backend(l)] = Geo(l).vd]
  <2>1. PICK l : l = CHOOSE k \in Own \ DOMAIN layers :
                       \A m \in Own \ DOMAIN layers : k <= m
    OBVIOUS
  <2>2. l \in Own
    <3>1. Own \ DOMAIN layers # {} /\ Own \ DOMAIN layers \in SUBSET Nat
      BY OwnLayers DEF BuildLayer, OrderInv, LoadInv, FileInv
    <3>2. \E y \in Own \ DOMAIN layers : \A m \in Own \ DOMAIN layers : y <= m
      BY <3>1, LeastOf
    <3>3. QED  BY <2>1, <3>2
  <2>3. QED  BY <2>1, <2>2 DEF BuildLayer
<1>6. CASE layers' = layers /\ headSizeV' = headSizeV
  <2>1. WidthInv'  BY <1>1, <1>6, SameRank DEF OrderInv, WidthInv, Geo, Kind
  <2>2. QED  BY <1>1, <1>2, <1>3, <1>4, <1>6, <2>1 DEF OrderInv, Weight, IsMoeLayer
<1>7. ASSUME NEW l \in Own, ~Refused(l), layers' = With(layers, l, [attn |-> Attn(l)]),
             headSizeV' = IF Backend(l) = "default" THEN headSizeV
                          ELSE [headSizeV EXCEPT ![Backend(l)] = Geo(l).vd]
      PROVE  OrderInv'
  <2>1. DOMAIN layers' = DOMAIN layers \cup {l}  BY <1>7 DEF With
  <2>2. IsMoeLayer(l) => d.tp <= NumExperts
    <3>1. d.tp \in Nat /\ NumExperts \in Nat
      BY DeploymentOf, ModelAssumption DEF OrderInv, LoadInv, FileInv
    <3>2. QED  BY <1>7, <3>1 DEF Refused, MoeRefused
  <2>3. Backend(l) \in {"default", "FA", "TRITON"}  BY DEF Backend
  <2>4. WidthInv  BY DEF OrderInv
  <2>5. DOMAIN headSizeV' = {"FA", "TRITON"}  BY <1>7, <2>4 DEF WidthInv
  <2>6. ASSUME NEW y \in DOMAIN layers', Backend(y) # "default"
        PROVE  (headSizeV')[Backend(y)] = Geo(y).vd
    <3>1. Backend(y) \in {"FA", "TRITON"}  BY <2>6 DEF Backend
    <3>2. CASE Backend(l) = "default"
      BY <1>7, <2>1, <2>4, <2>6, <3>2 DEF WidthInv
    <3>3. CASE Backend(l) # "default" /\ Backend(y) # Backend(l)
      <4>1. y \in DOMAIN layers  BY <2>1, <3>3
      <4>2. headSizeV[Backend(y)] = Geo(y).vd  BY <2>4, <2>6, <4>1 DEF WidthInv
      <4>3. QED  BY <1>7, <2>4, <3>1, <3>3, <4>2 DEF WidthInv
    <3>4. CASE Backend(l) # "default" /\ Backend(y) = Backend(l)
      <4>1. (headSizeV')[Backend(y)] = Geo(l).vd
        BY <1>7, <2>4, <3>1, <3>4 DEF WidthInv
      <4>2. Geo(l).vd # Geo(l).hd /\ Geo(y).vd # Geo(y).hd  BY <3>4, <2>6 DEF Backend
      <4>3. /\ Kind(l) \in {"swa", "ga"} /\ Kind(y) \in {"swa", "ga"}
            /\ Geo(l) = Geometry[Kind(l)] /\ Geo(y) = Geometry[Kind(y)]
        BY DEF Kind, Geo
      <4>4. Geo(l).vd = Geo(y).vd  BY <4>2, <4>3, ValueWidthAssumption
      <4>5. QED  BY <4>1, <4>4
    <3>5. QED  BY <3>2, <3>3, <3>4
  <2>7. WidthInv'  BY <1>1, <2>5, <2>6, SameRank DEF WidthInv, Geo, Kind
  <2>8. QED  BY <1>1, <1>2, <1>3, <1>4, <2>1, <2>2, <2>7 DEF OrderInv, Weight, IsMoeLayer
<1>8. QED  BY <1>5, <1>6, <1>7

LEMMA StartLoadingOrder ==
  ASSUME OrderInv, StartLoading
  PROVE  OrderInv'
<1>1. /\ phase = "build" /\ phase' = "load" /\ d' = d /\ layers' = layers
      /\ headSizeV' = headSizeV /\ pending' = pending /\ loaded' = loaded
      /\ file' = 1 /\ todo' = Files[d.style][1]
  BY DEF StartLoading, buildVars
<1>2. LoadInv'  BY StartLoadingKeeps DEF OrderInv
<1>3. loaded = {}  BY <1>1 DEF OrderInv
<1>4. DOMAIN params' = ParamNames /\ \A n \in ParamNames : (params')[n] = << >>
  BY DEF StartLoading
<1>5. Came' = {}
  <2>1. \A x \in Came' : FALSE
    <3>1. SUFFICES ASSUME NEW x \in Came' PROVE FALSE  OBVIOUS
    <3>2. PICK i \in 1 .. 1 : x \in Files[d.style][i] /\ x \notin Files[d.style][1]
      BY <1>1 DEF Came
    <3>3. i = 1  OBVIOUS
    <3>4. QED  BY <3>2, <3>3
  <2>2. QED  BY <2>1
<1>6. ParamNames' = ParamNames /\ Own' = Own /\ Fp8' = Fp8  BY <1>1, SameRank
<1>7. DOMAIN << >> = {}  OBVIOUS
<1>8. PartsInv'  BY <1>4, <1>5, <1>7 DEF PartsInv
<1>9. PairInv'
  <2>1. ASSUME NEW l, Both(l) \subseteq {} PROVE FALSE  BY <2>1 DEF Both
  <2>2. QED  BY <1>1, <1>3, <1>5, <2>1 DEF PairInv, Both, Weight, Scale
<1>10. SinkInv'  BY <1>4, <1>7 DEF SinkInv, Has
<1>11. WholeInv'  BY <1>4, <1>6, <1>8, <1>9, <1>10 DEF WholeInv
<1>12. WidthInv'  BY <1>1, SameRank DEF OrderInv, WidthInv, Geo, Kind
<1>13. QED  BY <1>1, <1>2, <1>6, <1>11, <1>12 DEF OrderInv, Weight, IsMoeLayer

\* Between the tensors nothing changes.
LEMMA SameOrder ==
  ASSUME OrderInv, LoadInv', d' = d, layers' = layers, headSizeV' = headSizeV, params' = params,
         loaded' = loaded, Loading' => Loading /\ Came' \subseteq Came,
         phase' = "build" => phase = "build",
         phase' = "load" => phase = "load" /\ todo' \subseteq Files[d.style][file'],
         \A l \in 0 .. NumLayers - 1 : (pending')[l] \subseteq pending[l],
         phase' = "load" => pending' = pending,
         phase' = "forward" => todo' = {} /\ file' = Len(Files[d.style])
  PROVE  OrderInv'
<1>1. /\ ParamNames' = ParamNames /\ Own' = Own /\ Fp8' = Fp8
      /\ \A n : Parts(n)' = Parts(n) /\ FromFused(n)' = FromFused(n)
      /\ \A n, part : Source(n, part)' = Source(n, part)
      /\ \A l : NarrowSinks(l)' = NarrowSinks(l)
  BY SameRank
<1>2. WholeInv'
  <2>1. SUFFICES ASSUME Loading' PROVE DOMAIN params' = ParamNames' /\ PartsInv' /\ PairInv'
                                       /\ SinkInv'
    BY DEF WholeInv
  <2>2. /\ DOMAIN params = ParamNames /\ PartsInv /\ PairInv /\ SinkInv
        /\ Came' \subseteq Came
    BY <2>1 DEF OrderInv, WholeInv
  <2>3. PartsInv'
    <3>1. \A n \in DOMAIN params : ~FromFused(n) =>
            \A part \in Parts(n) : Source(n, part) \in Came' => part \in DOMAIN params[n]
      BY <2>2 DEF PartsInv
    <3>2. QED  BY <1>1, <2>2, <3>1 DEF PartsInv
  <2>4. PairInv'
    <3>1. ASSUME Fp8, NEW l \in Own
          PROVE  /\ Weight(l) \in loaded <=> Scale(l) \in loaded
                 /\ \A n \in Both(l) :
                      /\ n \in loaded => "all" \in DOMAIN params[n]
                      /\ phase' = "load" /\ n \in Came' => n \in loaded \/ n \in (pending')[l]
                 /\ Both(l) \subseteq Came' => Weight(l) \in loaded
      BY <2>2, <3>1 DEF PairInv
    <3>2. QED  BY <1>1, <3>1 DEF PairInv, Both, Weight, Scale
  <2>5. SinkInv'  BY <1>1, <2>2 DEF SinkInv, Has, Part
  <2>6. QED  BY <1>1, <2>2, <2>3, <2>4, <2>5
<1>3. WidthInv'  BY SameRank DEF OrderInv, WidthInv, Geo, Kind
<1>4. Fp8' \/ \A l \in 0 .. NumLayers - 1 : Weight(l) \notin (pending')[l]
  BY <1>1 DEF OrderInv
<1>5. QED  BY <1>2, <1>3, <1>4 DEF OrderInv, Weight, IsMoeLayer

LEMMA NextFileOrder ==
  ASSUME OrderInv, NextFile
  PROVE  OrderInv'
<1>1. /\ phase = "load" /\ phase' = "load" /\ todo = {} /\ d' = d /\ layers' = layers
      /\ headSizeV' = headSizeV /\ params' = params /\ loaded' = loaded /\ pending' = pending
      /\ file' = file + 1 /\ todo' = Files[d.style][file + 1]
  BY DEF NextFile, buildVars
<1>2. LoadInv'  BY FilesKeep DEF OrderInv
<1>3. file \in Nat  BY <1>1 DEF OrderInv, LoadInv, FileInv
<1>4. Came' \subseteq Came
  <2>1. SUFFICES ASSUME NEW x \in Came' PROVE x \in Came  OBVIOUS
  <2>2. PICK i \in 1 .. file + 1 :
          x \in Files[d.style][i] /\ x \notin Files[d.style][file + 1]
    BY <1>1 DEF Came
  <2>3. i \in 1 .. file  BY <1>3, <2>2
  <2>4. QED  BY <1>1, <2>2, <2>3 DEF Came
<1>5. Loading' => Loading  BY <1>1 DEF Loading
<1>6. QED  BY <1>1, <1>2, <1>4, <1>5, SameOrder

LEMMA EndLoadingOrder ==
  ASSUME OrderInv, EndLoading
  PROVE  OrderInv'
<1>1. /\ phase = "load" /\ phase' = "forward" /\ todo = {} /\ todo' = todo /\ file' = file
      /\ d' = d /\ layers' = layers /\ file = Len(Files[d.style])
      /\ headSizeV' = headSizeV /\ params' = params /\ loaded' = loaded
      /\ pending' = [l \in DOMAIN pending |-> {}]
  BY DEF EndLoading, buildVars
<1>2. LoadInv'  BY FilesKeep DEF OrderInv
<1>3. Came' = Came  BY <1>1 DEF Came
<1>4. \A l \in 0 .. NumLayers - 1 : (pending')[l] \subseteq pending[l]
  BY <1>1 DEF OrderInv, LoadInv, PendingInv
<1>5. Loading' => Loading  BY <1>1 DEF Loading
<1>6. QED  BY <1>1, <1>2, <1>3, <1>4, <1>5, SameOrder

LEMMA ForwardOrder ==
  ASSUME OrderInv, UNCHANGED buildVars, UNCHANGED loadVars, phase' = phase \/ phase' = "done"
  PROVE  OrderInv'
<1>1. LoadInv'  BY SameLoad DEF OrderInv
<1>2. /\ d' = d /\ layers' = layers /\ headSizeV' = headSizeV /\ params' = params
      /\ loaded' = loaded /\ pending' = pending /\ file' = file /\ todo' = todo
  BY DEF buildVars, loadVars
<1>3. Came' = Came /\ (Loading' => Loading)  BY <1>2 DEF Came, Loading
<1>4. QED  BY <1>1, <1>2, <1>3, SameOrder DEF OrderInv

LEMMA OrderInit == Init => OrderInv
<1> SUFFICES ASSUME Init PROVE OrderInv  OBVIOUS
<1>1. LoadInv  BY LoadInit
<1>2. WholeInv  BY DEF Init, WholeInv, Loading
<1>3. WidthInv  BY DEF Init, WidthInv
<1>4. QED  BY <1>1, <1>2, <1>3 DEF Init, OrderInv

LEMMA OrderStep == OrderInv /\ [Next]_vars => OrderInv'
<1> SUFFICES ASSUME OrderInv, [Next]_vars PROVE OrderInv'  OBVIOUS
<1>1. CASE BuildLayer  BY <1>1, BuildLayerOrder
<1>2. CASE StartLoading  BY <1>2, StartLoadingOrder
<1>3. CASE \E n \in todo : Yield(n)  BY <1>3, YieldAdds
<1>4. CASE NextFile  BY <1>4, NextFileOrder
<1>5. CASE EndLoading  BY <1>5, EndLoadingOrder
<1>6. CASE EnterStage  BY <1>6, ForwardOrder DEF EnterStage
<1>7. CASE LayerForward  BY <1>7, ForwardOrder DEF LayerForward
<1>8. CASE LeaveStage  BY <1>8, ForwardOrder DEF LeaveStage
<1>9. CASE UNCHANGED vars  BY <1>9, ForwardOrder DEF vars
<1>10. QED  BY <1>1, <1>2, <1>3, <1>4, <1>5, <1>6, <1>7, <1>8, <1>9 DEF Next
\* At the end all has come.
LEMMA AllCame ==
  ASSUME OrderInv, phase = "forward"
  PROVE  Came = Checkpoint(d.style)
<1>1. d \in Deployments /\ todo = {} /\ file = Len(Files[d.style])
  BY DEF OrderInv, LoadInv, FileInv
<1>2. DOMAIN Files[d.style] = 1 .. file  BY <1>1, StyleOf
<1>3. ASSUME NEW n \in Checkpoint(d.style)
      PROVE  n \in Came
  <2>1. PICK Q \in {Files[d.style][i] : i \in DOMAIN Files[d.style]} : n \in Q
    BY DEF Checkpoint
  <2>2. PICK i \in DOMAIN Files[d.style] : Q = Files[d.style][i]  OBVIOUS
  <2>3. QED  BY <1>1, <1>2, <2>1, <2>2 DEF Came
<1>4. QED  BY <1>3 DEF Came

\* Whatever a parameter is made of is in the checkpoint.
LEMMA SourcesAre ==
  ASSUME d \in Deployments, NEW n \in ParamNames, ~FromFused(n), NEW part \in Parts(n)
  PROVE  Source(n, part) \in Checkpoint(d.style)
<1>1. /\ n = Plain(n.layer, n.key) /\ n.expert = -1
      /\ \/ n.layer = -1 /\ n.key \in {"embed_tokens.weight", "norm.weight", "lm_head.weight"}
         \/ /\ n.layer \in Own
            /\ n.key \in AttnParams(n.layer) \cup MlpParams(n.layer) \cup NormParams
  BY ParamShape
<1>2. PICK C : C = Checkpoint(d.style)  OBVIOUS
<1>3. CASE n.layer = -1
  <2>1. n.key \in {"embed_tokens.weight", "norm.weight", "lm_head.weight"}
    BY <1>1, <1>3, OwnLayers, ModelAssumption
  <2>2. Source(n, part) = n  BY <2>1, SourceIs DEF Apart
  <2>3. {Plain(-1, "embed_tokens.weight"), Plain(-1, "norm.weight"),
         Plain(-1, "lm_head.weight")} \subseteq C
    BY <1>2, StyleOf, CheckpointAssumption
  <2>4. QED  BY <1>1, <1>2, <1>3, <2>1, <2>2, <2>3
<1>4. CASE n.layer # -1
  <2>1. PICK l \in 0 .. NumLayers - 1 : l = n.layer  BY <1>1, <1>4, OwnLayers
  <2>2. /\ n.key \in LayerKeys
        /\ n.key = "qkv_proj.weight_scale_inv" => Fp8
        /\ n.key = "attention_sink_bias" => Geo(l).sink
        /\ n.key \in MoeKeys => IsMoeLayer(l)
        /\ n.key \in {"gate_up_proj.weight", "down_proj.weight"} => ~IsMoeLayer(l)
    BY <1>1, <1>4, <2>1, KeysOf
  <2>3. /\ Plain(l, "o_proj.weight") \in C
        /\ {Plain(l, "input_layernorm.weight"),
            Plain(l, "post_attention_layernorm.weight")} \subseteq C
        /\ Geo(l).sink => Plain(l, "attention_sink_bias") \in C
        /\ IF IsMoeLayer(l)
             THEN /\ Plain(l, "gate.weight") \in C
                  /\ Plain(l, "gate.e_score_correction_bias") \in C
                  /\ \A e \in 0 .. NumExperts - 1 :
                       {Name(l, "gate_proj.weight", e), Name(l, "up_proj.weight", e),
                        Name(l, "down_proj.weight", e)} \subseteq C
             ELSE /\ Plain(l, "gate_proj.weight") \in C /\ Plain(l, "up_proj.weight") \in C
                  /\ Plain(l, "down_proj.weight") \in C
        /\ d.style = "bf16" => Plain(l, "qkv_proj.weight") \in C
        /\ d.style = "split" => /\ Plain(l, "q_proj.weight") \in C
                                /\ Plain(l, "k_proj.weight") \in C
                                /\ Plain(l, "v_proj.weight") \in C
    BY <1>2, StyleOf, CheckpointAssumption DEF Geo, Kind, IsCompressedSoftmax, IsMoeLayer
  <2>4. LocalExperts \subseteq 0 .. NumExperts - 1  BY DEF LocalExperts
  <2>5. CASE n.key = "gate_up_proj.weight"
    <3>1. \/ Source(n, part) = Plain(l, "gate_proj.weight")
          \/ Source(n, part) = Plain(l, "up_proj.weight")
      BY <2>1, <2>5, SourceIs
    <3>2. QED  BY <1>2, <2>2, <2>3, <2>5, <3>1
  <2>6. CASE Apart(n)
    <3>1. part \in {"q", "k", "v"}  BY <2>6, PartsAre
    <3>2. Source(n, part) \in {Plain(l, "q_proj.weight"), Plain(l, "k_proj.weight"),
                               Plain(l, "v_proj.weight")}
      BY <2>1, <2>6, <3>1, SourceIs
    <3>3. d.style = "split"  BY <2>6 DEF Apart
    <3>4. QED  BY <1>2, <2>3, <3>2, <3>3
  <2>7. CASE n.key = "experts.w13_weight"
    <3>1. PICK w \in {"w1", "w3"}, e \in LocalExperts : part = <<w, e>>  BY <2>7, PartsAre
    <3>2. Source(n, part) \in {Name(l, "gate_proj.weight", e), Name(l, "up_proj.weight", e)}
      <4>1. part[2] = e  BY <3>1
      <4>2. QED  BY <2>1, <2>7, <4>1, SourceIs
    <3>3. QED  BY <1>2, <2>2, <2>3, <2>4, <2>7, <3>2 DEF MoeKeys
  <2>8. CASE n.key = "experts.w2_weight"
    <3>1. PICK e \in LocalExperts : part = <<"w2", e>>  BY <2>8, PartsAre
    <3>2. Source(n, part) = Name(l, "down_proj.weight", e)
      <4>1. part[2] = e  BY <3>1
      <4>2. QED  BY <2>1, <2>8, <4>1, SourceIs
    <3>3. QED  BY <1>2, <2>2, <2>3, <2>4, <2>8, <3>2 DEF MoeKeys
  <2>9. CASE /\ n.key \notin {"gate_up_proj.weight", "experts.w13_weight", "experts.w2_weight"}
             /\ ~Apart(n)
    <3>1. Source(n, part) = n /\ n = Plain(l, n.key)  BY <1>1, <2>1, <2>9, SourceIs
    <3>2. n.key = "qkv_proj.weight" => d.style = "bf16"
      BY <2>9, StyleOf DEF Apart, FromFused, Fp8, Styles
    <3>3. n.key \in {"o_proj.weight", "qkv_proj.weight", "attention_sink_bias", "gate.weight",
                     "gate.e_score_correction_bias", "down_proj.weight",
                     "input_layernorm.weight", "post_attention_layernorm.weight"}
      BY <2>2, <2>9 DEF LayerKeys, FromFused
    <3>4. QED  BY <1>2, <2>2, <2>3, <3>1, <3>2, <3>3 DEF MoeKeys
  <2>10. QED  BY <2>5, <2>6, <2>7, <2>8, <2>9
<1>5. QED  BY <1>3, <1>4

\* Every rank has experts, so every parameter has parts.
LEMMA HasParts ==
  ASSUME OrderInv, DOMAIN params = ParamNames, NEW n \in ParamNames
  PROVE  Parts(n) # {}
<1>1. d \in Deployments /\ ProjectionInv  BY DEF OrderInv, LoadInv, FileInv
<1>2. CASE n.key \in {"experts.w13_weight", "experts.w2_weight"}
  <2>1. n.layer \in Own /\ IsMoeLayer(n.layer)
    <3>1. n.layer \in Own /\ n.key \in AttnParams(n.layer) \cup MlpParams(n.layer) \cup NormParams
      BY <1>2, ParamShape
    <3>2. QED  BY <1>2, <3>1, KeysOf DEF MoeKeys
  <2>2. n.layer \in DOMAIN layers  BY <1>1, <2>1 DEF ProjectionInv
  <2>3. d.tp <= NumExperts  BY <2>1, <2>2 DEF OrderInv
  <2>4. PICK t \in Nat \ {0}, r \in Nat, E \in Nat :
          t = d.tp /\ r = d.rank /\ E = NumExperts /\ r < t /\ t <= E
    BY <1>1, <2>3, DeploymentOf, ModelAssumption
  <2>5. PICK q \in Nat, z \in 0 .. t - 1 : E \div t = q /\ E = t * q + z /\ t * q \in Nat
    BY <2>4, Divide
  <2>6. q # 0
    <3>1. ASSUME q = 0 PROVE FALSE
      <4>1. t * q = 0  BY <3>1
      <4>2. QED  BY <2>4, <2>5, <4>1
    <3>2. QED  BY <3>1
  <2>7. q * r + q <= q * t
    <3>1. q \in Nat \ {0} /\ r + 1 \in Int /\ t \in Int /\ r + 1 <= t  BY <2>4, <2>6
    <3>2. q * (r + 1) <= q * t  BY <3>1, MulMonotone
    <3>3. q * (r + 1) = q * r + q  BY <2>4
    <3>4. QED  BY <3>2, <3>3
  <2>8. PICK e \in Nat : e = q * r /\ e <= E - 1
    <3>1. PICK x \in Nat, y \in Nat : x = q * r /\ y = q * t  BY <2>4
    <3>2. y = t * q  BY <2>4, <3>1
    <3>3. x <= E - 1  BY <2>4, <2>5, <2>6, <2>7, <3>1, <3>2
    <3>4. QED  BY <3>1, <3>3
  <2>9. e \div q = r  BY <2>5, <2>6, <2>8, DivIs
  <2>10. e \in LocalExperts
    BY <2>4, <2>5, <2>8, <2>9 DEF LocalExperts, LocalExpert
  <2>11. <<"w1", e>> \in Parts(n) \/ <<"w2", e>> \in Parts(n)  BY <1>2, <2>10, PartsAre
  <2>12. QED  BY <2>11
<1>3. CASE n.key \notin {"experts.w13_weight", "experts.w2_weight"}
  BY <1>3, PartsAre
<1>4. QED  BY <1>2, <1>3

\* At the end of loading a parameter is whole, but for the projections of a torn
\* checkpoint.
LEMMA WholeAtEnd ==
  ASSUME OrderInv, phase = "forward", NEW n \in DOMAIN params
  PROVE  /\ n \in loaded <=> DOMAIN params[n] = Parts(n)
         /\ n \notin loaded => d.style = "torn" /\ params[n] = << >>
<1>1. DOMAIN params = ParamNames /\ PartsInv /\ PairInv /\ d \in Deployments
  BY DEF OrderInv, WholeInv, Loading, LoadInv, FileInv
<1>2. DOMAIN params[n] \subseteq Parts(n) /\ (n \notin loaded => params[n] = << >>)
  BY <1>1 DEF PartsInv
<1>3. Parts(n) # {} /\ DOMAIN << >> = {}  BY <1>1, HasParts
<1>4. Came = Checkpoint(d.style)  BY AllCame
<1>5. CASE ~FromFused(n)
  <2>1. \A part \in Parts(n) : part \in DOMAIN params[n]
    BY <1>1, <1>4, <1>5, SourcesAre DEF PartsInv
  <2>2. QED  BY <1>2, <1>3, <2>1
<1>6. CASE FromFused(n)
  <2>1. Fp8 /\ n.layer \in Own /\ n \in Both(n.layer)
    <3>1. Fp8 /\ n.key \in {"qkv_proj.weight", "qkv_proj.weight_scale_inv"}
      BY <1>6 DEF FromFused
    <3>2. n = Plain(n.layer, n.key) /\ n.layer \in Own
      BY <1>1, <3>1, ParamShape
    <3>3. QED  BY <3>1, <3>2 DEF Both, Weight, Scale
  <2>2. PICK l \in Own : l = n.layer  BY <2>1
  <2>3. /\ Weight(l) \in loaded <=> Scale(l) \in loaded
        /\ n \in loaded => "all" \in DOMAIN params[n]
        /\ Both(l) \subseteq Came => Weight(l) \in loaded
    BY <1>1, <2>1, <2>2 DEF PairInv
  <2>4. Parts(n) = {"all"}  BY <2>1, <1>6, PartsAre DEF FromFused, Fp8, Apart
  <2>5. d.style = "fp8" => n \in loaded
    <3>1. l \in 0 .. NumLayers - 1  BY <1>1, OwnLayers
    <3>2. d.style = "fp8" => Both(l) \subseteq Checkpoint(d.style)
      BY <1>1, <3>1, StyleOf, CheckpointAssumption DEF Both, Weight, Scale
    <3>3. QED  BY <1>4, <2>1, <2>2, <2>3, <3>2 DEF Both
  <2>6. QED  BY <1>2, <1>3, <2>1, <2>3, <2>4, <2>5 DEF Fp8
<1>7. QED  BY <1>5, <1>6

LEMMA InvOrderIndependent == OrderInv => OrderIndependentLoad
<1> SUFFICES ASSUME OrderInv PROVE OrderIndependentLoad  OBVIOUS
<1>1. LoadInv /\ ProjectionInv /\ LayerInv /\ d \in Deployments
  BY DEF OrderInv, LoadInv, FileInv
<1>2. ASSUME NEW l \in Own, phase = "load", d.style = "fp8"
      PROVE  Has(l, "qkv_proj.weight") <=> Has(l, "qkv_proj.weight_scale_inv")
  <2>1. Fp8 /\ DOMAIN params = ParamNames /\ PartsInv /\ PairInv
    BY <1>2 DEF Fp8, OrderInv, WholeInv, Loading
  <2>2. Has(l, "qkv_proj.weight") => Has(l, "qkv_proj.weight_scale_inv")
    BY <1>1, <2>1 DEF ProjectionInv
  <2>3. ASSUME Has(l, "qkv_proj.weight_scale_inv") PROVE Has(l, "qkv_proj.weight")
    <3>1. Scale(l) \in DOMAIN params /\ "all" \in DOMAIN params[Scale(l)]
      BY <2>3 DEF Has, Scale
    <3>2. Scale(l) \in loaded
      <4>1. DOMAIN << >> = {}  OBVIOUS
      <4>2. Scale(l) \notin loaded => params[Scale(l)] = << >>  BY <2>1, <3>1 DEF PartsInv
      <4>3. QED  BY <3>1, <4>1, <4>2
    <3>3. Weight(l) \in loaded /\ Weight(l) \in Both(l)  BY <2>1, <3>2 DEF PairInv, Both
    <3>4. "all" \in DOMAIN params[Weight(l)]  BY <2>1, <3>3 DEF PairInv
    <3>5. Weight(l) \in DOMAIN params  BY <2>1, <3>3, BothOwn
    <3>6. QED  BY <3>4, <3>5 DEF Has, Weight
  <2>4. QED  BY <2>2, <2>3
<1>3. ASSUME NEW l \in Own, phase \in {"load", "forward"}, Has(l, "attention_sink_bias"),
             NEW i \in 0 .. layers[l].attn.numHeads - 1
      PROVE  Part(l, "attention_sink_bias")[i] = d.rank * layers[l].attn.numHeads + i
  <2>1. Part(l, "attention_sink_bias") = NarrowSinks(l)
    BY <1>3 DEF OrderInv, WholeInv, Loading, SinkInv
  <2>2. l \in DOMAIN layers
    <3>1. DOMAIN params # {}  BY <1>3 DEF Has
    <3>2. QED  BY <1>1, <3>1 DEF ProjectionInv
  <2>3. layers[l].attn.numHeads = Geo(l).heads \div d.tp  BY <1>1, <2>2 DEF LayerInv, Attn
  <2>4. QED  BY <1>3, <2>1, <2>3 DEF NarrowSinks
<1>4. ASSUME NEW l \in DOMAIN layers, layers[l].attn.backend # "default"
      PROVE  headSizeV[layers[l].attn.backend] = layers[l].attn.vd
  <2>1. layers[l].attn.backend = Backend(l) /\ layers[l].attn.vd = Geo(l).vd
    BY <1>1 DEF LayerInv, Attn
  <2>2. QED  BY <1>4, <2>1 DEF OrderInv, WidthInv
<1>5. ASSUME phase = "forward", NEW n \in DOMAIN params
      PROVE  /\ n \in loaded <=> DOMAIN params[n] = Parts(n)
             /\ n \notin loaded => d.style = "torn" /\ params[n] = << >>
  BY <1>5, WholeAtEnd
<1>6. QED  BY <1>2, <1>3, <1>4, <1>5, Zenon DEF OrderIndependentLoad

\* Whatever the order of the tensors, their files, the ranks, the stages and the layers:
\* a fused projection's two tensors land together, each parameter ends whole and reported
\* or, in a torn checkpoint, empty and unreported, sinks are those of the rank's own heads
\* and the attention backend has its layers' value width (load_weights,
\* _try_load_fp8_qkv_proj, MiMoV2Attention.__init__).
THEOREM LoadsInAnyOrder == Spec => []OrderIndependentLoad
<1>1. OrderInv /\ [Next]_vars => OrderInv'  BY OrderStep
<1>2. QED  BY OrderInit, <1>1, InvOrderIndependent, PTL DEF Spec

-----------------------------------------------------------------------------
(* The forward pass. *)

Items == {"embed"} \cup {<<k, l>> : k \in {"attn", "mlp"}, l \in Nat}

LEMMA Prefix ==
  ASSUME NEW S, NEW s, NEW m \in Nat, \A i \in 1 .. m : s[i] \in S,
         NEW x, x = SubSeq(s, 1, m)
  PROVE  x \in Seq(S) /\ Len(x) = m /\ \A i \in 1 .. m : x[i] = s[i]
BY SubSeqProperties

LEMMA ItemsAre ==
  ASSUME NEW l \in Nat
  PROVE  /\ Attention(l) \in Items /\ Mlp(l) \in Items /\ "embed" \in Items
         /\ Attention(l) # Mlp(l) /\ Attention(l)[2] = l /\ Mlp(l)[2] = l
BY DEF Items, Attention, Mlp

\* Sublayer i of a model, the embedding not counted.
Sublayer(i) == IF i % 2 = 1 THEN Attention((i - 1) \div 2) ELSE Mlp((i - 1) \div 2)

LEMMA SublayersAre ==
  ASSUME NEW l \in Nat
  PROVE  /\ Sublayers(l) \in Seq(Items) /\ Len(Sublayers(l)) = 2 * l + 1
         /\ Sublayers(l)[1] = "embed"
         /\ \A i \in 1 .. 2 * l : Sublayers(l)[i + 1] = Sublayer(i)
<1>1. PICK s : s = [i \in 1 .. 2 * l |-> Sublayer(i)]  OBVIOUS
<1>2. \A i \in 1 .. 2 * l : Sublayer(i) \in Items
  <2>1. ASSUME NEW i \in 1 .. 2 * l PROVE Sublayer(i) \in Items
    <3>1. (i - 1) \div 2 \in Nat  OBVIOUS
    <3>2. QED  BY <3>1, ItemsAre DEF Sublayer
  <2>2. QED  BY <2>1
<1>3. s \in Seq(Items) /\ Len(s) = 2 * l  BY <1>1, <1>2
<1>4. Sublayers(l) = <<"embed">> \o s  BY <1>1 DEF Sublayers, Sublayer
<1>5. <<"embed">> \in Seq(Items) /\ Len(<<"embed">>) = 1 /\ <<"embed">>[1] = "embed"
  BY DEF Items
<1>6. QED  BY <1>1, <1>3, <1>4, <1>5

\* One layer more.
LEMMA SublayersNext ==
  ASSUME NEW l \in Nat
  PROVE  /\ Sublayers(l + 1) = Append(Append(Sublayers(l), Attention(l)), Mlp(l))
         /\ SubSeq(Sublayers(l + 1), 1, Len(Sublayers(l + 1)) - 1)
              = Append(Sublayers(l), Attention(l))
<1>1. PICK s, t \in Seq(Items) : s = Sublayers(l) /\ t = Sublayers(l + 1)
  BY SublayersAre
<1>2. PICK u \in Seq(Items) :
        /\ u = Append(s, Attention(l)) /\ Len(u) = Len(s) + 1
        /\ \A i \in 1 .. Len(s) : u[i] = s[i]
        /\ u[Len(s) + 1] = Attention(l)
  <2>1. Attention(l) \in Items  BY ItemsAre
  <2>2. QED  BY <2>1, AppendProperties, Zenon
<1>3. PICK v \in Seq(Items) :
        /\ v = Append(u, Mlp(l)) /\ Len(v) = Len(u) + 1
        /\ \A i \in 1 .. Len(u) : v[i] = u[i]
        /\ v[Len(u) + 1] = Mlp(l)
  <2>1. Mlp(l) \in Items  BY ItemsAre
  <2>2. QED  BY <2>1, AppendProperties, Zenon
<1>4. /\ Len(s) = 2 * l + 1 /\ s[1] = "embed" /\ \A i \in 1 .. 2 * l : s[i + 1] = Sublayer(i)
  BY <1>1, SublayersAre
<1>5. /\ Len(t) = 2 * l + 3 /\ t[1] = "embed"
      /\ \A i \in 1 .. 2 * l + 2 : t[i + 1] = Sublayer(i)
  <2>1. PICK k \in Nat : k = l + 1 /\ 2 * k = 2 * l + 2  OBVIOUS
  <2>2. /\ Len(t) = 2 * k + 1 /\ t[1] = "embed" /\ \A i \in 1 .. 2 * k : t[i + 1] = Sublayer(i)
    BY <1>1, <2>1, SublayersAre
  <2>3. QED  BY <2>1, <2>2
<1>6. Sublayer(2 * l + 1) = Attention(l) /\ Sublayer(2 * l + 2) = Mlp(l)
  <2>1. (2 * l + 1) % 2 = 1 /\ (2 * l + 2) % 2 = 0  OBVIOUS
  <2>2. PICK i \in Nat, j \in Nat : i = 2 * l + 1 /\ j = 2 * l + 2  OBVIOUS
  <2>3. (i - 1) \div 2 = l /\ (j - 1) \div 2 = l /\ i % 2 = 1 /\ j % 2 = 0  BY <2>2
  <2>4. Sublayer(i) = Attention(l) /\ Sublayer(j) = Mlp(l)  BY <2>3 DEF Sublayer
  <2>5. QED  BY <2>2, <2>4
<1>7. Len(u) = 2 * l + 2 /\ Len(v) = 2 * l + 3  BY <1>2, <1>3, <1>4
<1>8. \A i \in 1 .. 2 * l + 2 : u[i] = t[i]
  <2>1. ASSUME NEW i \in 1 .. 2 * l + 2 PROVE u[i] = t[i]
    <3>1. CASE i = 1  BY <1>2, <1>4, <1>5, <3>1
    <3>2. CASE i \in 2 .. 2 * l + 1
      <4>1. PICK j \in 1 .. 2 * l : j + 1 = i
        <5>1. i - 1 \in 1 .. 2 * l /\ (i - 1) + 1 = i  BY <3>2
        <5>2. QED  BY <5>1
      <4>2. s[j + 1] = Sublayer(j) /\ t[j + 1] = Sublayer(j)  BY <1>4, <1>5
      <4>3. u[i] = s[i]  BY <1>2, <1>4, <3>2
      <4>4. QED  BY <4>1, <4>2, <4>3
    <3>3. CASE i = 2 * l + 2
      <4>1. u[i] = Attention(l)  BY <1>2, <1>4, <3>3
      <4>2. t[(2 * l + 1) + 1] = Sublayer(2 * l + 1)
        <5>1. 2 * l + 1 \in 1 .. 2 * l + 2  OBVIOUS
        <5>2. QED  BY <1>5, <5>1
      <4>3. QED  BY <1>6, <3>3, <4>1, <4>2
    <3>4. i = 1 \/ i \in 2 .. 2 * l + 1 \/ i = 2 * l + 2  OBVIOUS
    <3>5. QED  BY <3>1, <3>2, <3>3, <3>4, Zenon
  <2>2. QED  BY <2>1, Zenon
<1>9. t[2 * l + 3] = Mlp(l)
  <2>1. t[(2 * l + 2) + 1] = Sublayer(2 * l + 2)
    <3>1. 2 * l + 2 \in 1 .. 2 * l + 2  OBVIOUS
    <3>2. QED  BY <1>5, <3>1
  <2>2. QED  BY <1>6, <2>1
<1>10. t = v
  <2>1. ASSUME NEW i \in 1 .. 2 * l + 3 PROVE v[i] = t[i]
    <3>1. CASE i \in 1 .. 2 * l + 2
      <4>1. i \in 1 .. Len(u)  BY <1>7, <3>1
      <4>2. QED  BY <1>3, <1>8, <3>1, <4>1
    <3>2. CASE i = 2 * l + 3
      <4>1. Len(u) + 1 = i  BY <1>7, <3>2
      <4>2. QED  BY <1>3, <1>9, <3>2, <4>1
    <3>3. QED  BY <3>1, <3>2
  <2>2. QED  BY <1>5, <1>7, <2>1, SeqEqual
<1>11. SubSeq(t, 1, Len(t) - 1) = u
  <2>0. \A i \in 1 .. 2 * l + 2 : t[i] \in Items  BY <1>5, ElementOfSeq
  <2>1. PICK m \in Nat : m = 2 * l + 2  OBVIOUS
  <2>2. \A i \in 1 .. m : t[i] \in Items  BY <2>0, <2>1
  <2>3. PICK x : x = SubSeq(t, 1, m)  OBVIOUS
  <2>4. x \in Seq(Items) /\ Len(x) = m /\ \A i \in 1 .. m : x[i] = t[i]
    BY <2>2, <2>3, Prefix, SMT
  <2>5. x = u  BY <1>7, <1>8, <2>1, <2>4, SeqEqual
  <2>6. Len(t) - 1 = m  BY <1>5, <2>1
  <2>7. QED  BY <2>3, <2>5, <2>6
<1>12. QED  BY <1>1, <1>2, <1>3, <1>10, <1>11

\* The padded parts of all ranks, gathered and cut, are the rows that were dealt out.
LEMMA RowsGathered ==
  ASSUME d \in Deployments, NEW toks, NEW S, toks \in Seq(S)
  PROVE  MoeRows(toks) = toks
<1>1. PICK t \in Nat \ {0} : t = d.tp  BY DeploymentOf
<1>2. PICK m \in Nat : m = Len(toks)  OBVIOUS
<1>3. PICK n \in Nat : n = CeilDivide(m, t) /\ m <= n * t
  <2>1. PICK y \in Nat : y = m + t - 1  OBVIOUS
  <2>2. PICK q \in Nat, r \in 0 .. t - 1 :
          y \div t = q /\ y % t = r /\ y = t * q + r /\ t * q \in Nat
    BY <2>1, Divide, Zenon
  <2>3. m <= q * t  BY <2>1, <2>2
  <2>4. QED  BY <2>1, <2>2, <2>3 DEF CeilDivide
<1>4. n * t \in Nat  OBVIOUS
<1>5. PICK f : f = [i \in 1 .. n * t |-> Chunk(toks, (i - 1) \div n)[((i - 1) % n) + 1]]
  OBVIOUS
<1>6. Gathered(toks) = f  BY <1>1, <1>2, <1>3, <1>5 DEF Gathered
<1>7. \A i \in 1 .. m : f[i] = toks[i]
  <2>1. ASSUME NEW i \in 1 .. m PROVE f[i] = toks[i]
    <3>1. n # 0 /\ i \in 1 .. n * t  BY <1>3, <1>4
    <3>2. PICK z \in Nat : z = i - 1  OBVIOUS
    <3>3. PICK q \in Nat, r \in 0 .. n - 1 :
            z \div n = q /\ z % n = r /\ z = n * q + r /\ n * q \in Nat
      BY <3>1, <3>2, Divide
    <3>4. f[i] = Chunk(toks, q)[r + 1]  BY <1>5, <3>1, <3>2, <3>3
    <3>5. q * n + (r + 1) = i  BY <3>2, <3>3
    <3>6. Chunk(toks, q) = [j \in 1 .. n |-> IF q * n + j <= m THEN toks[q * n + j] ELSE 0]
      BY <1>1, <1>2, <1>3 DEF Chunk
    <3>7. Chunk(toks, q)[r + 1] = IF q * n + (r + 1) <= m THEN toks[q * n + (r + 1)] ELSE 0
      BY <3>6
    <3>8. QED  BY <3>4, <3>5, <3>7
  <2>2. QED  BY <2>1
<1>8. SubSeq(f, 1, m) = toks
  <2>1. \A i \in 1 .. m : f[i] \in S  BY <1>2, <1>7, ElementOfSeq
  <2>2. PICK x : x = SubSeq(f, 1, m)  OBVIOUS
  <2>3. x \in Seq(S) /\ Len(x) = m /\ \A i \in 1 .. m : x[i] = f[i]
    BY <2>1, <2>2, Prefix, SMT
  <2>4. x = toks  BY <1>2, <1>7, <2>3, SeqEqual
  <2>5. QED  BY <2>2, <2>4
<1>9. QED  BY <1>2, <1>6, <1>8 DEF MoeRows

-----------------------------------------------------------------------------
(* What is true of the pass through the stages. *)

\* What a sublayer of layer l may be given, and an auxiliary state of a model that is
\* not split.
Inputs == {<<Attention(l), Sublayers(l)>> : l \in Nat}
            \cup {<<Mlp(l), Append(Sublayers(l), Attention(l))>> : l \in Nat}
AuxStates == {<<i, Sublayers(i)>> : i \in Nat}
InOrder == [t \in 1 .. Tokens |-> t]

Passes ==
    [stage : Nat, at : Nat, entered : BOOLEAN, hidden : Items \cup {"none"},
     residual : Seq(Items), inputs : Seq(Inputs), aux : Seq(Nat \X Seq(Items)),
     rows : Seq(Nat), out : Seq(Items)]

\* All sublayers before layer l have been added, each once.
Composed(f, l) ==
    /\ f.hidden \in Items /\ Append(f.residual, f.hidden) = Sublayers(l)
    /\ f.rows = InOrder

InStage(f) ==
    /\ f.stage \in 0 .. d.pp - 1
    /\ f.entered => /\ f.at \in f.stage * PerStage .. (f.stage + 1) * PerStage
                    /\ Composed(f, f.at)
    /\ ~f.entered /\ f.stage # 0 => Composed(f, f.stage * PerStage)
    /\ d.pp = 1 => f.aux \in Seq(AuxStates)

PassInv ==
    /\ d \in Deployments
    /\ fwd \in Passes
    /\ phase \in {"build", "load"} => fwd = NoPass
    /\ phase = "forward" => InStage(fwd)
    /\ phase = "done" => /\ fwd.out = Sublayers(NumLayers) /\ fwd.rows = InOrder
                         /\ d.pp = 1 => fwd.aux \in Seq(AuxStates)

LEMMA InOrderIs == InOrder \in Seq(Nat)
<1>1. Tokens \in Nat  BY ModelAssumption
<1>2. QED  BY <1>1 DEF InOrder

LEMMA NoPassIs == NoPass \in Passes /\ (d \in Deployments => InStage(NoPass))
<1>1. PICK e : e = << >>  OBVIOUS
<1>2. e \in Seq(Items) /\ e \in Seq(Inputs) /\ e \in Seq(Nat \X Seq(Items)) /\ e \in Seq(Nat)
      /\ e \in Seq(AuxStates)
  BY <1>1, EmptySeq
<1>3. NoPass = [stage |-> 0, at |-> 0, entered |-> FALSE, hidden |-> "none",
                residual |-> e, inputs |-> e, aux |-> e, rows |-> e, out |-> e]
  BY <1>1 DEF NoPass
<1>4. NoPass \in Passes  BY <1>2, <1>3 DEF Passes
<1>5. ASSUME d \in Deployments PROVE InStage(NoPass)
  <2>1. 0 \in 0 .. d.pp - 1
    <3>1. PICK p \in Nat \ {0} : p = d.pp  BY <1>5, StagesAre
    <3>2. 0 \in 0 .. p - 1  OBVIOUS
    <3>3. QED  BY <3>1, <3>2
  <2>2. /\ NoPass.stage = 0 /\ NoPass.entered = FALSE /\ NoPass.aux = e  BY <1>3
  <2>3. QED  BY <1>2, <2>1, <2>2 DEF InStage
<1>6. QED  BY <1>4, <1>5

LEMMA PassInit == Init => PassInv
<1> SUFFICES ASSUME Init PROVE PassInv  OBVIOUS
<1>1. d \in Deployments /\ phase = "build" /\ fwd = NoPass  BY DEF Init
<1>2. fwd \in Passes  BY <1>1, NoPassIs
<1>3. QED  BY <1>1, <1>2 DEF PassInv

\* What every step before the pass leaves alone.
LEMMA SamePass ==
  ASSUME PassInv, d' = d, fwd' = fwd,
         \/ phase' \in {phase, "raised"}
         \/ phase \in {"build", "load"} /\ phase' \in {"load", "forward"}
  PROVE  PassInv'
<1>1. d' \in Deployments /\ fwd' \in Passes  BY DEF PassInv
<1>2. PerStage' = PerStage  BY DEF PerStage
<1>3. InStage(fwd)' <=> InStage(fwd)  BY <1>2 DEF InStage, Composed
<1>4. CASE phase' = phase  BY <1>1, <1>3, <1>4 DEF PassInv
<1>5. CASE phase' = "raised"  BY <1>1, <1>5 DEF PassInv
<1>6. CASE phase \in {"build", "load"} /\ phase' \in {"load", "forward"}
  <2>1. fwd = NoPass  BY <1>6 DEF PassInv
  <2>2. InStage(fwd)  BY <2>1, NoPassIs DEF PassInv
  <2>3. QED  BY <1>1, <1>3, <1>6, <2>1, <2>2 DEF PassInv
<1>7. QED  BY <1>4, <1>5, <1>6

LEMMA BeforePass ==
  ASSUME PassInv,
         BuildLayer \/ StartLoading \/ (\E n \in todo : Yield(n)) \/ NextFile \/ EndLoading
  PROVE  PassInv'
<1>1. CASE BuildLayer
  <2>1. d' = d /\ fwd' = fwd /\ phase' \in {phase, "raised"}
    BY <1>1 DEF BuildLayer
  <2>2. QED  BY <2>1, SamePass
<1>2. CASE StartLoading
  <2>1. d' = d /\ fwd' = fwd /\ phase = "build" /\ phase' = "load"
    BY <1>2 DEF StartLoading, buildVars
  <2>2. QED  BY <2>1, SamePass
<1>3. ASSUME NEW n \in todo, Yield(n) PROVE PassInv'
  <2>1. d' = d /\ fwd' = fwd  BY <1>3 DEF Yield, buildVars
  <2>2. phase' \in {phase, "raised"}
    BY <1>3 DEF Yield, LoadExpert, LoadFp8Qkv, LoadStacked, LoadPlain
  <2>3. QED  BY <2>1, <2>2, SamePass
<1>4. CASE NextFile
  <2>1. d' = d /\ fwd' = fwd /\ phase' \in {phase, "raised"}  BY <1>4 DEF NextFile, buildVars
  <2>2. QED  BY <2>1, SamePass
<1>5. CASE EndLoading
  <2>1. d' = d /\ fwd' = fwd /\ phase = "load" /\ phase' = "forward"
    BY <1>5 DEF EndLoading, buildVars
  <2>2. QED  BY <2>1, SamePass
<1>6. QED  BY <1>1, <1>2, <1>3, <1>4, <1>5

LEMMA AuxAdded ==
  ASSUME NEW S, NEW aux \in Seq(S), NEW i, NEW hidden, NEW residual,
         <<i, Append(residual, hidden)>> \in S
  PROVE  AuxAdd(aux, i, hidden, residual) \in Seq(S)
<1>1. PICK e \in S : e = <<i, Append(residual, hidden)>>  OBVIOUS
<1>2. Append(aux, e) \in Seq(S)  BY AppendProperties
<1>3. AuxAdd(aux, i, hidden, residual) = IF i \in AuxLayers THEN Append(aux, e) ELSE aux
  BY <1>1 DEF AuxAdd
<1>4. QED  BY <1>2, <1>3

\* The rows stay as they are, whatever the layer.
LEMMA RowsStay ==
  ASSUME d \in Deployments, NEW toks \in Seq(Nat)
  PROVE  MoeRows(toks) = toks
BY RowsGathered

LEMMA EnterStageKeeps ==
  ASSUME PassInv, EnterStage
  PROVE  PassInv'
<1>1. d \in Deployments /\ fwd \in Passes /\ phase = "forward" /\ InStage(fwd) /\ ~fwd.entered
  BY DEF PassInv, EnterStage
<1>2. PICK s \in Nat, n \in Nat, a \in Nat :
        s = fwd.stage /\ n = PerStage /\ a = s * n /\ (s + 1) * n = a + n /\ s \in 0 .. d.pp - 1
  BY <1>1, StagesAre DEF Passes, InStage
<1>3. PICK h, r, toks :
        /\ h = IF s = 0 THEN "embed" ELSE fwd.hidden
        /\ r = ResidualFrom(s, fwd.residual)
        /\ toks = IF s = 0 THEN InOrder ELSE fwd.rows
  OBVIOUS
<1>4. PICK aux : aux = AuxAdd(<< >>, a, h, r)  OBVIOUS
<1>5. fwd' = [fwd EXCEPT !.entered = TRUE, !.at = a, !.hidden = h, !.residual = r,
                !.rows = toks, !.aux = aux]
  BY <1>2, <1>3, <1>4 DEF EnterStage, PerStage, InOrder
<1>6. h \in Items /\ r \in Seq(Items) /\ Append(r, h) = Sublayers(a) /\ toks = InOrder
  <2>1. CASE s = 0
    <3>1. h = "embed" /\ r = << >> /\ toks = InOrder  BY <1>3, <2>1 DEF ResidualFrom
    <3>2. h \in Items /\ r \in Seq(Items)  BY <3>1, EmptySeq DEF Items
    <3>3. PICK x : x = Append(r, h)  OBVIOUS
    <3>4. x \in Seq(Items) /\ Len(x) = 1 /\ x[1] = "embed"
      <4>1. Len(r) = 0  BY <3>1
      <4>2. QED  BY <3>1, <3>2, <3>3, <4>1, AppendProperties
    <3>5. PICK z, y : z \in Nat /\ z = 0 /\ y = Sublayers(z)  OBVIOUS
    <3>6. y \in Seq(Items) /\ Len(y) = 2 * z + 1 /\ y[1] = "embed"
      BY <3>5, SublayersAre
    <3>7. x = y
      <4>1. 2 * z + 1 = 1  BY <3>5
      <4>2. QED  BY <3>4, <3>6, <4>1, SeqEqual
    <3>8. a = 0  BY <1>2, <2>1
    <3>9. QED  BY <3>1, <3>2, <3>3, <3>5, <3>7, <3>8
  <2>2. CASE s # 0
    <3>1. Composed(fwd, a)  BY <1>1, <1>2, <2>2 DEF InStage
    <3>2. h = fwd.hidden /\ r = fwd.residual /\ toks = fwd.rows
      BY <1>3, <2>2 DEF ResidualFrom
    <3>3. QED  BY <1>1, <3>1, <3>2 DEF Composed, Passes
  <2>3. QED  BY <2>1, <2>2
<1>7. <<a, Append(r, h)>> \in Nat \X Seq(Items) /\ <<a, Append(r, h)>> \in AuxStates
  <2>1. PICK y \in Seq(Items) : y = Sublayers(a)  BY SublayersAre
  <2>2. <<a, y>> \in AuxStates  BY <2>1 DEF AuxStates
  <2>3. QED  BY <1>6, <2>1, <2>2
<1>8. aux \in Seq(Nat \X Seq(Items)) /\ aux \in Seq(AuxStates)
  <2>1. << >> \in Seq(Nat \X Seq(Items)) /\ << >> \in Seq(AuxStates)  BY EmptySeq
  <2>2. QED  BY <1>4, <1>7, <2>1, AuxAdded, Zenon
<1>9. /\ fwd'.stage = s /\ fwd'.at = a /\ fwd'.entered = TRUE /\ fwd'.hidden = h
      /\ fwd'.residual = r /\ fwd'.inputs = fwd.inputs /\ fwd'.aux = aux
      /\ fwd'.rows = toks /\ fwd'.out = fwd.out
  BY <1>1, <1>2, <1>5 DEF Passes
<1>10. fwd' \in Passes
  <2>1. toks \in Seq(Nat)  BY <1>6, InOrderIs
  <2>2. QED  BY <1>1, <1>5, <1>6, <1>8, <2>1 DEF Passes
<1>11. d' = d /\ phase' = phase /\ PerStage' = n
  BY <1>2 DEF EnterStage, buildVars, PerStage
<1>12. Composed(fwd, a)'
  BY <1>6, <1>9 DEF Composed
<1>13. InStage(fwd)'
  <2>1. a \in s * n .. (s + 1) * n  BY <1>2
  <2>2. QED  BY <1>2, <1>8, <1>9, <1>11, <1>12, <2>1 DEF InStage
<1>14. QED  BY <1>1, <1>10, <1>11, <1>13 DEF PassInv

LEMMA LayerForwardKeeps ==
  ASSUME PassInv, LayerForward
  PROVE  PassInv'
<1>1. d \in Deployments /\ fwd \in Passes /\ phase = "forward" /\ InStage(fwd) /\ fwd.entered
  BY DEF PassInv, LayerForward
<1>2. PICK s \in Nat, n \in Nat, a \in Nat :
        s = fwd.stage /\ n = PerStage /\ a = s * n /\ (s + 1) * n = a + n /\ s \in 0 .. d.pp - 1
  BY <1>1, StagesAre DEF Passes, InStage
<1>3. PICK l \in Nat : l = fwd.at /\ l \in a .. a + n - 1
  <2>1. fwd.at \in Nat  BY <1>1 DEF Passes
  <2>2. fwd.at \in s * n .. (s + 1) * n - 1
    BY <1>2 DEF LayerForward, StageLayers, PerStage
  <2>3. QED  BY <1>2, <2>1, <2>2
<1>4. Composed(fwd, l)  BY <1>1, <1>3 DEF InStage
<1>5. PICK before \in Seq(Items) :
        before = Append(fwd.residual, fwd.hidden) /\ before = Sublayers(l)
  BY <1>4, SublayersAre DEF Composed
<1>6. PICK after \in Seq(Items) :
        /\ after = Append(before, Attention(l)) /\ after = Append(Sublayers(l), Attention(l))
  <2>1. Attention(l) \in Items  BY ItemsAre
  <2>2. QED  BY <1>5, <2>1, AppendProperties
<1>7. PICK x, y : x = <<Attention(l), before>> /\ y = <<Mlp(l), after>>  OBVIOUS
<1>8. x \in Inputs /\ y \in Inputs  BY <1>5, <1>6, <1>7 DEF Inputs
<1>9. PICK ins \in Seq(Inputs) : ins = Append(Append(fwd.inputs, x), y)
  <2>1. fwd.inputs \in Seq(Inputs)  BY <1>1 DEF Passes
  <2>2. Append(fwd.inputs, x) \in Seq(Inputs)  BY <1>8, <2>1, AppendProperties
  <2>3. QED  BY <1>8, <2>2, AppendProperties
<1>10. PICK toks : toks = IF IsMoeLayer(l) THEN MoeRows(fwd.rows) ELSE fwd.rows  OBVIOUS
<1>11. toks = InOrder
  <2>1. fwd.rows = InOrder /\ fwd.rows \in Seq(Nat)  BY <1>4, InOrderIs DEF Composed
  <2>2. MoeRows(fwd.rows) = fwd.rows  BY <1>1, <2>1, RowsStay
  <2>3. QED  BY <1>10, <2>1, <2>2
<1>12. PICK i \in Nat, k \in Nat : i = l - a + 1 /\ k = l + 1  BY <1>3
<1>13. PICK aux : aux = AuxAdd(fwd.aux, i, Mlp(l), after)  OBVIOUS
<1>14. fwd' = [fwd EXCEPT !.at = k, !.hidden = Mlp(l), !.residual = after,
                 !.inputs = ins, !.rows = toks, !.aux = aux]
  <2>1. fwd' = [fwd EXCEPT !.at = l + 1, !.hidden = Mlp(l), !.residual = after,
                  !.inputs = Append(Append(@, x), y),
                  !.rows = IF IsMoeLayer(l) THEN MoeRows(@) ELSE @,
                  !.aux = AuxAdd(@, l - a + 1, Mlp(l), after)]
    BY <1>2, <1>3, <1>5, <1>6, <1>7 DEF LayerForward, PerStage
  <2>2. QED  BY <1>9, <1>10, <1>12, <1>13, <2>1
<1>15. Mlp(l) \in Items /\ Append(after, Mlp(l)) = Sublayers(k)
  BY <1>6, <1>12, ItemsAre, SublayersNext
<1>16. aux \in Seq(Nat \X Seq(Items))
  <2>1. fwd.aux \in Seq(Nat \X Seq(Items))  BY <1>1 DEF Passes
  <2>2. Append(after, Mlp(l)) \in Seq(Items)  BY <1>15, AppendProperties
  <2>3. <<i, Append(after, Mlp(l))>> \in Nat \X Seq(Items)  BY <2>2
  <2>4. QED  BY <1>13, <2>1, <2>3, AuxAdded, Zenon
<1>17. d.pp = 1 => aux \in Seq(AuxStates)
  <2> SUFFICES ASSUME d.pp = 1 PROVE aux \in Seq(AuxStates)  OBVIOUS
  <2>1. s = 0  BY <1>2
  <2>2. a = 0  BY <1>2, <2>1
  <2>3. i = k  BY <1>12, <2>2
  <2>4. <<i, Append(after, Mlp(l))>> \in AuxStates  BY <1>15, <2>3 DEF AuxStates
  <2>5. fwd.aux \in Seq(AuxStates)  BY <1>1 DEF InStage
  <2>6. QED  BY <1>13, <2>4, <2>5, AuxAdded, Zenon
<1>18. /\ fwd'.stage = s /\ fwd'.at = k /\ fwd'.entered = TRUE /\ fwd'.hidden = Mlp(l)
       /\ fwd'.residual = after /\ fwd'.inputs = ins /\ fwd'.aux = aux
       /\ fwd'.rows = toks /\ fwd'.out = fwd.out
  BY <1>1, <1>2, <1>14 DEF Passes
<1>19. fwd' \in Passes
  <2>1. toks \in Seq(Nat)  BY <1>11, InOrderIs
  <2>2. QED  BY <1>1, <1>14, <1>15, <1>16, <2>1 DEF Passes
<1>20. d' = d /\ phase' = phase /\ PerStage' = n
  BY <1>2 DEF LayerForward, buildVars, PerStage
<1>21. Composed(fwd, k)'  BY <1>11, <1>15, <1>18 DEF Composed
<1>22. InStage(fwd)'
  <2>0. PICK b \in Nat : b = a + n  OBVIOUS
  <2>1. k \in a .. b /\ s * n = a /\ (s + 1) * n = b
    <3>1. k \in a .. b  BY <1>3, <1>12, <2>0
    <3>2. QED  BY <1>2, <2>0, <3>1
  <2>2. QED  BY <1>2, <1>17, <1>18, <1>20, <1>21, <2>1 DEF InStage
<1>23. QED  BY <1>1, <1>19, <1>20, <1>22 DEF PassInv

LEMMA LeaveStageKeeps ==
  ASSUME PassInv, LeaveStage
  PROVE  PassInv'
<1>1. d \in Deployments /\ fwd \in Passes /\ phase = "forward" /\ InStage(fwd) /\ fwd.entered
  BY DEF PassInv, LeaveStage
<1>2. PICK s \in Nat, n \in Nat, a \in Nat, p \in Nat \ {0} :
        /\ s = fwd.stage /\ n = PerStage /\ a = s * n /\ (s + 1) * n = a + n
        /\ p = d.pp /\ s \in 0 .. p - 1 /\ p * n = NumLayers
  BY <1>1, StagesAre DEF Passes, InStage
<1>3. PICK l \in Nat : l = fwd.at /\ l = a + n
  <2>1. fwd.at \in Nat /\ fwd.at \in s * n .. (s + 1) * n  BY <1>1, <1>2 DEF Passes, InStage
  <2>2. fwd.at \notin s * n .. (s + 1) * n - 1
    BY <1>2 DEF LeaveStage, StageLayers, PerStage
  <2>3. QED  BY <1>2, <2>1, <2>2
<1>4. Composed(fwd, l)  BY <1>1, <1>3 DEF InStage
<1>5. d' = d /\ PerStage' = n  BY <1>2 DEF LeaveStage, buildVars, PerStage
<1>6. CASE s < p - 1
  <2>1. PICK t \in Nat : t = s + 1 /\ t \in 0 .. p - 1 /\ t # 0  BY <1>2, <1>6
  <2>2. fwd' = [fwd EXCEPT !.stage = t, !.entered = FALSE] /\ phase' = phase
    BY <1>2, <1>6, <2>1 DEF LeaveStage
  <2>3. /\ fwd'.stage = t /\ fwd'.entered = FALSE /\ fwd'.hidden = fwd.hidden
        /\ fwd'.residual = fwd.residual /\ fwd'.rows = fwd.rows /\ fwd'.aux = fwd.aux
    BY <1>1, <2>2 DEF Passes
  <2>4. fwd' \in Passes  BY <1>1, <2>1, <2>2 DEF Passes
  <2>5. Composed(fwd, l)'  BY <1>4, <1>3, <2>3 DEF Composed
  <2>6. t * n = l  BY <1>2, <1>3, <2>1
  <2>7. InStage(fwd)'
    BY <1>1, <1>2, <1>5, <2>1, <2>3, <2>5, <2>6 DEF InStage
  <2>8. QED  BY <1>1, <1>5, <2>2, <2>4, <2>7 DEF PassInv
<1>7. CASE ~(s < p - 1)
  <2>1. fwd' = [fwd EXCEPT !.out = Append(fwd.residual, fwd.hidden)] /\ phase' = "done"
    BY <1>2, <1>7 DEF LeaveStage
  <2>2. s + 1 = p  BY <1>2, <1>7
  <2>3. l = NumLayers  BY <1>2, <1>3, <2>2
  <2>4. PICK last \in Seq(Items) :
          last = Sublayers(NumLayers) /\ last = Append(fwd.residual, fwd.hidden)
    BY <1>4, <2>3, SublayersAre DEF Composed
  <2>5. fwd' = [fwd EXCEPT !.out = last]  BY <2>1, <2>4
  <2>6. fwd'.out = last /\ fwd'.rows = fwd.rows /\ fwd'.aux = fwd.aux
    BY <1>1, <2>5 DEF Passes
  <2>7. fwd' \in Passes  BY <1>1, <2>5 DEF Passes
  <2>8. fwd.rows = InOrder /\ (d.pp = 1 => fwd.aux \in Seq(AuxStates))
    BY <1>1, <1>4 DEF Composed, InStage
  <2>9. QED  BY <1>1, <1>5, <2>1, <2>4, <2>6, <2>7, <2>8 DEF PassInv
<1>8. QED  BY <1>6, <1>7

LEMMA PassStep == PassInv /\ [Next]_vars => PassInv'
<1> SUFFICES ASSUME PassInv, [Next]_vars PROVE PassInv'  OBVIOUS
<1>1. CASE BuildLayer \/ StartLoading \/ (\E n \in todo : Yield(n)) \/ NextFile
           \/ EndLoading
  BY <1>1, BeforePass
<1>2. CASE EnterStage  BY <1>2, EnterStageKeeps
<1>3. CASE LayerForward  BY <1>3, LayerForwardKeeps
<1>4. CASE LeaveStage  BY <1>4, LeaveStageKeeps
<1>5. CASE UNCHANGED vars
  <2>1. d' = d /\ fwd' = fwd /\ phase' \in {phase, "raised"}
    BY <1>5 DEF vars, buildVars
  <2>2. QED  BY <2>1, SamePass
<1>6. QED  BY <1>1, <1>2, <1>3, <1>4, <1>5 DEF Next

LEMMA PassInvComposes == PassInv => StagesCompose
<1> SUFFICES ASSUME PassInv PROVE StagesCompose  OBVIOUS
<1>1. fwd.inputs \in Seq(Inputs) /\ fwd.aux \in Seq(Nat \X Seq(Items))
  BY DEF PassInv, Passes
<1>2. ASSUME NEW j \in DOMAIN fwd.inputs, NEW l, l = fwd.inputs[j][1][2]
      PROVE  fwd.inputs[j][2] =
               IF fwd.inputs[j][1] = Attention(l) THEN Sublayers(l)
               ELSE SubSeq(Sublayers(l + 1), 1, Len(Sublayers(l + 1)) - 1)
  <2>1. PICK e \in Inputs : e = fwd.inputs[j]
    <3>1. j \in 1 .. Len(fwd.inputs)  BY <1>1, LenProperties
    <3>2. QED  BY <1>1, <3>1, ElementOfSeq
  <2>2. CASE \E k \in Nat : e = <<Attention(k), Sublayers(k)>>
    <3>1. PICK k \in Nat : e = <<Attention(k), Sublayers(k)>>  BY <2>2
    <3>2. PICK y : y = Sublayers(k)  OBVIOUS
    <3>3. e[1] = Attention(k) /\ e[2] = y  BY <3>1, <3>2
    <3>4. l = k  BY <1>2, <2>1, <3>3, ItemsAre
    <3>5. QED  BY <2>1, <3>2, <3>3, <3>4, Zenon
  <2>3. CASE \E k \in Nat : e = <<Mlp(k), Append(Sublayers(k), Attention(k))>>
    <3>1. PICK k \in Nat : e = <<Mlp(k), Append(Sublayers(k), Attention(k))>>  BY <2>3
    <3>2. PICK y : y = Append(Sublayers(k), Attention(k))  OBVIOUS
    <3>3. e[1] = Mlp(k) /\ e[2] = y  BY <3>1, <3>2
    <3>4. l = k /\ e[1] # Attention(k)  BY <1>2, <2>1, <3>3, ItemsAre
    <3>5. SubSeq(Sublayers(k + 1), 1, Len(Sublayers(k + 1)) - 1) = y
      BY <3>2, SublayersNext, Zenon
    <3>6. QED  BY <2>1, <3>3, <3>4, <3>5, Zenon
  <2>4. QED  BY <2>2, <2>3 DEF Inputs
<1>3. ASSUME phase = "done", d.pp = 1, NEW j \in DOMAIN fwd.aux
      PROVE  fwd.aux[j][2] = Sublayers(fwd.aux[j][1])
  <2>1. fwd.aux \in Seq(AuxStates)  BY <1>3 DEF PassInv
  <2>2. j \in 1 .. Len(fwd.aux)  BY <2>1, LenProperties
  <2>3. PICK e \in AuxStates : e = fwd.aux[j]  BY <2>1, <2>2, ElementOfSeq
  <2>4. PICK i \in Nat : e = <<i, Sublayers(i)>>  BY DEF AuxStates
  <2>5. PICK y : y = Sublayers(i)  OBVIOUS
  <2>6. e[1] = i /\ e[2] = y  BY <2>4, <2>5
  <2>7. QED  BY <2>3, <2>5, <2>6, Zenon
<1>4. phase = "done" => fwd.out = Sublayers(NumLayers) /\ fwd.rows = [t \in 1 .. Tokens |-> t]
  BY DEF PassInv, InOrder
<1>5. QED  BY <1>2, <1>3, <1>4, Zenon DEF StagesCompose

\* However many pipeline stages share the layers, and however many ranks share the rows
\* of an MoE layer, every sublayer is given the sum of all before it, each added once,
\* the last norm all of them, and the tokens leave in the order they came
\* (MiMoV2Model.forward, MiMoV2MoE.forward).
THEOREM StagesAlwaysCompose == Spec => []StagesCompose
<1>1. PassInv /\ [Next]_vars => PassInv'  BY PassStep
<1>2. QED  BY PassInit, <1>1, PassInvComposes, PTL DEF Spec

=============================================================================
