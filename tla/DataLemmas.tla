------------------------------- MODULE DataLemmas -------------------------------
(***************************************************************************)
(* What proofs of several components say of their data: products and        *)
(* quotients, induction over a set of naturals, and finite sets put into a   *)
(* sequence by a strict order.                                              *)
(***************************************************************************)
EXTENDS Integers, Sequences, SequencesExt, FiniteSets, WellFoundedInduction,
        FiniteSetTheorems, TLAPS

(* Arithmetic. *)

\* Multiplication by a positive factor is strictly monotone.
LEMMA MulMonotone ==
  ASSUME NEW k \in Nat \ {0}, NEW x \in Int, NEW y \in Int
  PROVE  /\ x <= y <=> k * x <= k * y
         /\ x < y <=> k * x < k * y
<1>1. ASSUME NEW a \in Int, NEW b \in Int, a < b PROVE k * a < k * b
  <2>1. PICK e \in Nat \ {0} : e = b - a  BY <1>1
  <2>2. k * e > 0 /\ k * e \in Int  OBVIOUS
  <2>3. k * e = k * b - k * a  BY <2>1
  <2>4. k * a \in Int /\ k * b \in Int  OBVIOUS
  <2>5. QED  BY <2>2, <2>3, <2>4
<1>2. x < y => k * x < k * y  BY <1>1
<1>3. y < x => k * y < k * x  BY <1>1
<1>4. k * x \in Int /\ k * y \in Int  OBVIOUS
<1>5. x = y => k * x = k * y  OBVIOUS
<1>6. QED  BY <1>2, <1>3, <1>4, <1>5

LEMMA DivMod ==
  ASSUME NEW n \in Nat, NEW b \in Nat \ {0}
  PROVE  /\ n \div b \in Nat /\ n % b \in 0 .. b - 1
         /\ n = b * (n \div b) + (n % b) /\ b * (n \div b) \in Nat
<1>1. n \div b \in Nat /\ n % b \in 0 .. b - 1 /\ n = b * (n \div b) + (n % b)
  OBVIOUS
<1>4. b * (n \div b) \in Nat
  <2>1. \A q \in Nat : b * q \in Nat  OBVIOUS
  <2>2. QED  BY <1>1, <2>1
<1>5. QED  BY <1>1, <1>4

LEMMA Divide ==
  ASSUME NEW n \in Nat, NEW b \in Nat \ {0}
  PROVE  \E q \in Nat, r \in 0 .. b - 1 :
           n \div b = q /\ n % b = r /\ n = b * q + r /\ b * q \in Nat
BY DivMod

\* A quotient and a remainder are known by their sum.
LEMMA DivIs ==
  ASSUME NEW b \in Nat \ {0}, NEW q \in Nat, NEW r \in 0 .. b - 1
  PROVE  (b * q + r) \div b = q /\ (b * q + r) % b = r
<1>1. PICK n \in Nat : n = b * q + r  OBVIOUS
<1>2. PICK m \in Nat, s \in 0 .. b - 1 :
        n \div b = m /\ n % b = s /\ n = b * m + s /\ b * m \in Nat
  BY Divide, Zenon
<1>3. b * q \in Nat  OBVIOUS
<1>4. ~(q + 1 <= m)
  <2>1. b * (q + 1) = b * q + b  OBVIOUS
  <2>2. q + 1 <= m => b * (q + 1) <= b * m  BY MulMonotone
  <2>3. QED  BY <1>1, <1>2, <1>3, <2>1, <2>2
<1>5. ~(m + 1 <= q)
  <2>1. b * (m + 1) = b * m + b  OBVIOUS
  <2>2. m + 1 <= q => b * (m + 1) <= b * q  BY MulMonotone
  <2>3. QED  BY <1>1, <1>2, <1>3, <2>1, <2>2
<1>6. m = q  BY <1>4, <1>5
<1>7. s = r
  <2>1. b * m = b * q  BY <1>6
  <2>2. QED  BY <1>1, <1>2, <1>3, <2>1
<1>8. QED  BY <1>1, <1>2, <1>6, <1>7

-----------------------------------------------------------------------------
(* Induction over a set of naturals.                                         *)

Less == {pair \in Nat \X Nat : pair[1] < pair[2]}

LEMMA LessWellFounded == IsWellFoundedOn(Less, Nat)
<1>1. Less = OpToRel(<, Nat)  BY DEF Less, OpToRel
<1>2. QED  BY <1>1, NatLessThanWellFounded

Inductive(S) == 0 \in S /\ \A n \in Nat : n \in S => n + 1 \in S

\* Induction over the naturals, of a set.
LEMMA SetInduction ==
  ASSUME NEW S, Inductive(S)
  PROVE  \A n \in Nat : n \in S
<1> SUFFICES ASSUME Nat \ S # {} PROVE FALSE
  OBVIOUS
<1> USE DEF Inductive
<1>1. PICK x \in Nat \ S : \A y \in Nat \ S : ~ (<<y, x>> \in Less)
  BY LessWellFounded, WFMin
<1>2. x # 0 /\ x - 1 \in Nat /\ <<x - 1, x>> \in Less
  BY <1>1 DEF Less
<1>3. x - 1 \in S /\ (x - 1) + 1 = x
  BY <1>1, <1>2
<1>4. QED  BY <1>1, <1>2, <1>3

\* A set of naturals has a least member.
LEMMA LeastOf ==
  ASSUME NEW S \in SUBSET Nat, S # {}
  PROVE  \E x \in S : \A y \in S : x <= y
<1>1. PICK x \in S : \A y \in S : ~ (<<y, x>> \in Less)
  BY LessWellFounded, WFMin, Zenon
<1>2. ASSUME NEW y \in S PROVE x <= y
  <2>1. x \in Nat /\ y \in Nat /\ ~ (y < x)  BY <1>1 DEF Less
  <2>2. QED  BY <2>1
<1>3. QED  BY <1>2

LEMMA MaxOf ==
  ASSUME NEW n \in Nat, NEW S \in SUBSET (1 .. n), n \in S
  PROVE  Max(S) = n
<1>1. \A y \in S : n >= y  OBVIOUS
<1>2. \A x \in S : (\A y \in S : x >= y) => x = n  BY <1>1
<1>3. QED  BY <1>1, <1>2 DEF Max

-----------------------------------------------------------------------------
(* A finite set in a strict total order.                                     *)

\* R is a strict total order on S.
StrictOrder(R, S) ==
  /\ \A x \in S : <<x, x>> \notin R
  /\ \A x, y \in S : x # y => <<x, y>> \in R \/ <<y, x>> \in R
  /\ \A x, y, z \in S : <<x, y>> \in R /\ <<y, z>> \in R => <<x, z>> \in R

\* The place of x in S.
Place(x, S, R) == Cardinality({y \in S : <<y, x>> \in R}) + 1

LEMMA PlaceRises ==
  ASSUME NEW S, IsFiniteSet(S), NEW R, StrictOrder(R, S)
  PROVE  /\ \A x \in S : Place(x, S, R) \in 1 .. Cardinality(S)
         /\ \A x, y \in S : <<x, y>> \in R => Place(x, S, R) < Place(y, S, R)
<1> DEFINE B(x) == {y \in S : <<y, x>> \in R}
<1>1. \A x \in S : IsFiniteSet(B(x)) /\ Cardinality(B(x)) \in Nat
  BY FS_Subset, FS_CardinalityType
<1>2. ASSUME NEW x \in S PROVE Place(x, S, R) \in 1 .. Cardinality(S)
  <2>1. B(x) \subseteq S \ {x}  BY DEF StrictOrder
  <2>2. IsFiniteSet(S \ {x}) /\ Cardinality(S \ {x}) = Cardinality(S) - 1
    BY FS_RemoveElement
  <2> HIDE DEF B
  <2>a. Cardinality(B(x)) <= Cardinality(S \ {x})  BY <2>1, <2>2, FS_Subset
  <2>3. Cardinality(B(x)) <= Cardinality(S) - 1  BY <2>2, <2>a
  <2> USE DEF B
  <2>4. Cardinality(S) \in Nat  BY FS_CardinalityType
  <2>5. QED  BY <1>1, <2>3, <2>4 DEF Place
<1>3. ASSUME NEW x \in S, NEW y \in S, <<x, y>> \in R
      PROVE  Place(x, S, R) < Place(y, S, R)
  <2>1. B(x) \subseteq B(y) /\ x \in B(y) /\ x \notin B(x)
    BY <1>3 DEF StrictOrder
  <2>2. Cardinality(B(x)) <= Cardinality(B(y)) /\ Cardinality(B(x)) # Cardinality(B(y))
    BY <1>1, <2>1, FS_Subset
  <2>3. QED  BY <1>1, <2>2 DEF Place
<1>4. QED  BY <1>2, <1>3

\* s holds the members of S, each once, in the order R.
InSequence(s, S, R) ==
  /\ s \in [1 .. Cardinality(S) -> S] /\ \A x \in S : \E i \in 1 .. Cardinality(S) : s[i] = x
  /\ \A i, j \in 1 .. Cardinality(S) : i # j => s[i] # s[j]
  /\ \A i, j \in 1 .. Cardinality(S) : i < j => <<s[i], s[j]>> \in R

\* Each member at its place: S in order.
ByPlace(place, S) == [i \in 1 .. Cardinality(S) |-> CHOOSE x \in S : place[x] = i]

LEMMA SortByPlace ==
  ASSUME NEW S, IsFiniteSet(S), NEW R, StrictOrder(R, S),
         NEW place, place = [x \in S |-> Place(x, S, R)]
  PROVE  InSequence(ByPlace(place, S), S, R)
<1> DEFINE n == Cardinality(S)
           s == [i \in 1 .. n |-> CHOOSE x \in S : place[x] = i]
<1>1. n \in Nat /\ IsFiniteSet(1 .. n) /\ Cardinality(1 .. n) = n
  BY FS_CardinalityType, FS_Interval
<1>2. \A x, y \in S : place[x] = place[y] => x = y
  <2>1. SUFFICES ASSUME NEW x \in S, NEW y \in S, place[x] = place[y], x # y PROVE FALSE
    OBVIOUS
  <2>2. Place(x, S, R) = Place(y, S, R) /\ Place(x, S, R) \in Int  BY <2>1, <1>1, PlaceRises
  <2>3. <<x, y>> \in R \/ <<y, x>> \in R  BY <2>1 DEF StrictOrder
  <2>4. QED  BY <2>2, <2>3, PlaceRises
<1>3. place \in Injection(S, 1 .. n)
  BY <1>2, PlaceRises DEF Injection, IsInjective
<1>4. place \in Surjection(S, 1 .. n)
  BY <1>1, <1>3, FS_Injection
<1>5. \A i \in 1 .. n : s[i] \in S /\ place[s[i]] = i
  BY <1>4 DEF Surjection
<1>6. s \in [1 .. n -> S]  BY <1>5
<1>7. \A i, j \in 1 .. n : i # j => s[i] # s[j]  BY <1>5
<1>8. ASSUME NEW i \in 1 .. n, NEW j \in 1 .. n, i < j PROVE <<s[i], s[j]>> \in R
  <2>1. s[i] # s[j] /\ s[i] \in S /\ s[j] \in S  BY <1>5, <1>7, <1>8
  <2>2. CASE <<s[j], s[i]>> \in R
    <3>a. Place(s[j], S, R) < Place(s[i], S, R)  BY <2>1, <2>2, PlaceRises
    <3>1. place[s[j]] < place[s[i]]  BY <2>1, <3>a
    <3>b. place[s[j]] = j /\ place[s[i]] = i  BY <1>5
    <3> HIDE DEF s
    <3>2. QED  BY <1>8, <3>1, <3>b
  <2>3. QED  BY <2>1, <2>2 DEF StrictOrder
<1>9. \A x \in S : \E i \in 1 .. n : s[i] = x
  <2>1. SUFFICES ASSUME NEW x \in S PROVE s[place[x]] = x /\ place[x] \in 1 .. n
    OBVIOUS
  <2>2. place[x] \in 1 .. n  BY <1>3 DEF Injection
  <2>3. s[place[x]] \in S /\ place[s[place[x]]] = place[x]  BY <1>5, <2>2
  <2>4. QED  BY <1>2, <2>2, <2>3
<1> HIDE DEF s
<1>10. InSequence(s, S, R)  BY <1>6, <1>7, <1>8, <1>9, Zenon DEF InSequence, n
<1>11. QED  BY <1>10 DEF s, n, ByPlace

LEMMA SortExists ==
  ASSUME NEW S, IsFiniteSet(S), NEW R, StrictOrder(R, S)
  PROVE  \E s \in SetToSeqs(S) :
           \A i, j \in DOMAIN s : i < j => <<s[i], s[j]>> \in R
<1>a. PICK place : place = [x \in S |-> Place(x, S, R)]
  OBVIOUS
<1>1. PICK s : InSequence(s, S, R)  BY <1>a, SortByPlace
<1>2. s \in SetToSeqs(S) /\ DOMAIN s = 1 .. Cardinality(S)  BY <1>1 DEF InSequence, SetToSeqs
<1>3. QED  BY <1>1, <1>2 DEF InSequence

\* What a sequence in SetToSeqs(S) is.
LEMMA SeqsOfSet ==
  ASSUME NEW S, IsFiniteSet(S), NEW s \in SetToSeqs(S)
  PROVE  /\ Cardinality(S) \in Nat /\ DOMAIN s = 1 .. Cardinality(S)
         /\ s \in Seq(S) /\ Len(s) = Cardinality(S)
         /\ {s[i] : i \in DOMAIN s} = S
         /\ \A i, j \in DOMAIN s : i # j => s[i] # s[j]
<1> DEFINE n == Cardinality(S)
<1>1. n \in Nat /\ IsFiniteSet(1 .. n) /\ Cardinality(1 .. n) = n
  BY FS_CardinalityType, FS_Interval
<1>2. s \in [1 .. n -> S] /\ \A i, j \in 1 .. n : i # j => s[i] # s[j]
  BY DEF SetToSeqs
<1>3. s \in Injection(1 .. n, S)  BY <1>2 DEF Injection, IsInjective
<1>4. s \in Surjection(1 .. n, S)  BY <1>1, <1>3, FS_Injection
<1>5. {s[i] : i \in 1 .. n} = S  BY <1>2, <1>4 DEF Surjection
<1>6. QED  BY <1>1, <1>2, <1>5

\* There is one such sequence.
LEMMA OneSequence ==
  ASSUME NEW S, IsFiniteSet(S), NEW R, StrictOrder(R, S), NEW p, NEW q,
         InSequence(p, S, R), InSequence(q, S, R)
  PROVE  p = q
<1> DEFINE n == Cardinality(S)
           Same == {k \in Nat : \A i \in 1 .. n : i <= k => p[i] = q[i]}
<1>1. n \in Nat  BY FS_CardinalityType
<1>2. p \in [1 .. n -> S] /\ q \in [1 .. n -> S]  BY DEF InSequence
<1>3. 0 \in Same  OBVIOUS
<1>4. ASSUME NEW k \in Nat, k \in Same PROVE k + 1 \in Same
  <2>1. SUFFICES ASSUME k + 1 \in 1 .. n, p[k + 1] # q[k + 1] PROVE FALSE
    BY <1>4
  <2>2. PICK i \in 1 .. n : q[i] = p[k + 1]  BY <1>2, <2>1 DEF InSequence
  <2>3. PICK j \in 1 .. n : p[j] = q[k + 1]  BY <1>2, <2>1 DEF InSequence
  <2>4. i > k + 1
    <3>1. CASE i <= k
      <4>1. p[i] = q[i]  BY <1>4, <3>1
      <4>2. QED  BY <2>1, <2>2, <3>1, <4>1 DEF InSequence
    <3>2. QED  BY <2>1, <2>2, <3>1, <1>1
  <2>5. j > k + 1
    <3>1. CASE j <= k
      <4>1. p[j] = q[j]  BY <1>4, <3>1
      <4>2. QED  BY <2>1, <2>3, <3>1, <4>1 DEF InSequence
    <3>2. QED  BY <2>1, <2>3, <3>1, <1>1
  <2>6. <<q[k + 1], p[k + 1]>> \in R  BY <2>1, <2>2, <2>4 DEF InSequence
  <2>7. <<p[k + 1], q[k + 1]>> \in R  BY <2>1, <2>3, <2>5 DEF InSequence
  <2>8. p[k + 1] \in S /\ q[k + 1] \in S  BY <1>2, <2>1
  <2>9. PICK x \in S, y \in S : <<x, y>> \in R /\ <<y, x>> \in R
    BY <2>6, <2>7, <2>8, Zenon
  <2>10. QED  BY <2>9, Zenon DEF StrictOrder
<1>5. n \in Same
  <2> HIDE DEF Same
  <2>1. Inductive(Same)  BY <1>3, <1>4 DEF Inductive
  <2>2. QED  BY <1>1, <2>1, SetInduction
<1>6. \A i \in 1 .. n : p[i] = q[i]  BY <1>5
<1> HIDE DEF n, Same
<1>7. p = [i \in 1 .. n |-> p[i]] /\ q = [i \in 1 .. n |-> q[i]]  BY <1>2
<1>8. QED  BY <1>6, <1>7, Zenon
=============================================================================
