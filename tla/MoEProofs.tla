------------------------------ MODULE MoEProofs ------------------------------
(***************************************************************************)
(* One rank's MoE layer, for any experts, map, kinds of calls, block sizes  *)
(* and widths, any routing of any number of tokens, and any order the       *)
(* aligner and the blocks may take.                                         *)
(*                                                                         *)
(* The layout.  The blocks of the experts lie one after the other and fit   *)
(* the aligner's buffer, so what it lists is each expert's rows in some     *)
(* order, padded (Lists).  A region of the sort is one expert's blocks: the *)
(* keys of an expert's slots are larger than those of all before it, and    *)
(* among them the keys rise with the row.  A sequence that holds each slot  *)
(* once in the order of the keys therefore lists the rows ascending, and    *)
(* there is only one such sequence (OneSequence), which is the one the sort *)
(* gives.                                                                   *)
(*                                                                         *)
(* The outputs.  In that layout every local row is in one block, of its own *)
(* expert (BlockOwns, BlockOnce), so each phase leaves a known term in the  *)
(* cells of each row and no phase writes a cell that a later one still      *)
(* reads (OutputInv): the sum of a token overwrites rows of the output's    *)
(* workspace, and the rows it adds lie in the other.                        *)
(*                                                                         *)
(* The launch of a GEMM, for any device, registers, weights and numbers of   *)
(* rows: the count of blocks that is chosen is one, or so small that the     *)
(* registers they use and their shared memory fit (CountFits).  Rounded to   *)
(* what the device allocates, the registers still fit but at seven counts    *)
(* (AllocatedFit), and so does the memory (MemoryFits); dividing the memory  *)
(* among them leaves each what it needs (Divided).                           *)
(***************************************************************************)
EXTENDS MoEPinned, ExecConfig, DataLemmas

-----------------------------------------------------------------------------
(* What a call is given. *)

InputOK ==
    /\ call \in CallKinds
    /\ IF call.batched
       THEN capacity \in Nat \ {0} /\ expert_num_tokens \in [0 .. E - 1 -> 0 .. capacity]
       ELSE \E m \in Nat \ {0} : topk_ids \in [1 .. m -> Chosen(call.topk)]

\* The rank's experts are among the model's.
LEMMA LocalIs ==
  /\ E \in Nat /\ E <= GlobalExperts /\ LocalExperts = 0 .. E - 1
  /\ \A g \in 0 .. GlobalExperts - 1 : ExpertMap[g] \in -1 .. E - 1
<1> DEFINE G == 0 .. GlobalExperts - 1
<1>1. GlobalExperts \in Nat \ {0} /\ ExpertMap \in [G -> -1 .. GlobalExperts - 1]
  BY MoEAssumption
<1>2. IsFiniteSet(G) /\ Cardinality(G) \in Nat
  <2>1. GlobalExperts - 1 \in Int /\ 0 \in Int  BY <1>1
  <2>2. IsFiniteSet(0 .. GlobalExperts - 1)  BY <2>1, FS_Interval
  <2>3. QED  BY <2>2, FS_CardinalityType
<1>3. LocalExperts \subseteq G
  <2>1. \A g \in G : ExpertMap[g] \in -1 .. GlobalExperts - 1  BY <1>1
  <2>2. \A x \in -1 .. GlobalExperts - 1 : x # -1 => x \in G  BY <1>1
  <2>3. QED  BY <2>1, <2>2 DEF LocalExperts
<1>4. E \in Nat  BY <1>2, <1>3, FS_Subset, FS_CardinalityType DEF E
<1>5. LocalExperts = 0 .. E - 1  BY MapAssumption
<1>6. E <= GlobalExperts
  <2>1. CASE E = 0  BY <1>1, <2>1
  <2>2. CASE E # 0
    <3>1. E - 1 \in LocalExperts  BY <1>4, <1>5, <2>2
    <3>2. QED  BY <1>1, <1>3, <1>4, <3>1
  <2>3. QED  BY <2>1, <2>2
<1>7. \A g \in G : ExpertMap[g] \in -1 .. E - 1
  <2>1. \A g \in G : ExpertMap[g] = -1 \/ ExpertMap[g] \in LocalExperts
    BY DEF LocalExperts
  <2>2. QED  BY <1>4, <1>5, <2>1
<1>8. QED  BY <1>4, <1>5, <1>6, <1>7

\* One kind of call.
LEMMA CallIs ==
  ASSUME InputOK
  PROVE  /\ call \in MoECall /\ call.topk \in Nat \ {0}
         /\ call.batched \in BOOLEAN /\ call.lora \in BOOLEAN
         /\ call.byte \in BOOLEAN /\ call.onInput \in BOOLEAN
         /\ call.batched => ~call.lora /\ call.topk = 1
<1>1. call \in CallKinds /\ CallKinds \subseteq MoECall  BY MoEAssumption DEF InputOK
<1>2. call \in MoECall  BY <1>1
<1>3. GlobalExperts \in Nat  BY MoEAssumption
<1>4. call.batched => ~call.lora /\ call.topk = 1  BY <1>1, MoEAssumption
<1>5. QED  BY <1>2, <1>3, <1>4 DEF MoECall

\* The standard form's tokens.
LEMMA TokensAre ==
  ASSUME InputOK, ~call.batched
  PROVE  /\ M \in Nat \ {0} /\ Numel = M * call.topk
         /\ \A t \in 1 .. M : topk_ids[t] \in Chosen(call.topk)
<1>1. PICK m \in Nat \ {0} : topk_ids \in [1 .. m -> Chosen(call.topk)]  BY DEF InputOK
<1>2. M = m  BY <1>1 DEF M
<1>3. QED  BY <1>1, <1>2 DEF Numel

\* A row is a place of a local expert, or a routed pair.
LEMMA RowIs ==
  ASSUME InputOK
  PROVE  /\ Numel \in Nat
         /\ \A i \in Pairs : i \in Nat /\ i < Numel /\ ExpertOf(i) \in -1 .. E - 1
<1>0. E \in Nat  BY LocalIs
<1>1. CASE call.batched
  <2>1. PICK c \in Nat \ {0} : capacity = c /\ expert_num_tokens \in [0 .. E - 1 -> 0 .. c]
    BY <1>1 DEF InputOK
  <2>2. E * c \in Nat /\ E * c = c * E  BY <1>0
  <2>3. Numel = E * c  BY <1>1, <2>1 DEF Numel
  <2>4. ASSUME NEW i \in Pairs PROVE i \in Nat /\ i < Numel /\ ExpertOf(i) \in -1 .. E - 1
    <3>1. i \in Nat /\ i < E * c  BY <2>2, <2>3, <2>4 DEF Pairs
    <3>2. PICK q \in Nat, r \in 0 .. c - 1 :
            i \div c = q /\ i % c = r /\ i = c * q + r /\ c * q \in Nat
      BY <3>1, Divide, Zenon
    <3>3. c * q < c * E  BY <2>2, <3>1, <3>2
    <3>4. q < E  BY <1>0, <3>2, <3>3, MulMonotone
    <3>5. ExpertOf(i) \in {q, -1}  BY <1>1, <2>1, <3>2 DEF ExpertOf
    <3>6. QED  BY <1>0, <2>3, <3>1, <3>2, <3>4, <3>5
  <2>5. QED  BY <2>2, <2>3, <2>4
<1>2. CASE ~call.batched
  <2>1. PICK k \in Nat \ {0}, m \in Nat \ {0} :
          /\ call.topk = k /\ M = m /\ Numel = m * k
          /\ \A t \in 1 .. m : topk_ids[t] \in Chosen(k)
    BY <1>2, CallIs, TokensAre
  <2>2. m * k \in Nat  OBVIOUS
  <2>3. ASSUME NEW i \in Pairs PROVE i \in Nat /\ i < Numel /\ ExpertOf(i) \in -1 .. E - 1
    <3>1. i \in Nat /\ i < m * k  BY <2>1, <2>2, <2>3 DEF Pairs
    <3>2. PICK q \in Nat, r \in 0 .. k - 1 :
            i \div k = q /\ i % k = r /\ i = k * q + r /\ k * q \in Nat
      BY <3>1, Divide, Zenon
    <3>3. k * q < k * m  BY <2>2, <3>1, <3>2
    <3>4. q < m  BY <2>1, <3>2, <3>3, MulMonotone
    <3>5. topk_ids[q + 1] \in [1 .. k -> 0 .. GlobalExperts - 1]
      <4>1. q + 1 \in 1 .. m  BY <3>2, <3>4
      <4>2. topk_ids[q + 1] \in Chosen(k)  BY <2>1, <4>1
      <4>3. QED  BY <4>2 DEF Chosen
    <3>6. topk_ids[q + 1][r + 1] \in 0 .. GlobalExperts - 1  BY <2>1, <3>2, <3>5
    <3>7. ExpertOf(i) = ExpertMap[topk_ids[q + 1][r + 1]]
      BY <1>2, <2>1, <3>2 DEF ExpertOf
    <3>8. QED  BY <2>1, <3>1, <3>6, <3>7, LocalIs
  <2>4. QED  BY <2>1, <2>2, <2>3
<1>3. QED  BY <1>1, <1>2

LEMMA RowsAre ==
  ASSUME InputOK
  PROVE  /\ IsFiniteSet(Pairs) /\ Cardinality(Pairs) = Numel
         /\ \A e : /\ RowsOf(e) \subseteq Pairs /\ IsFiniteSet(RowsOf(e))
                   /\ Cardinality(RowsOf(e)) \in Nat
         /\ \A i \in LocalPairs : ExpertOf(i) \in 0 .. E - 1 /\ i \in RowsOf(ExpertOf(i))
         /\ \A e \in 0 .. E - 1 : RowsOf(e) \subseteq LocalPairs
<1>1. Numel \in Nat  BY RowIs
<1>2. IsFiniteSet(Pairs) /\ Cardinality(Pairs) = Numel  BY <1>1, FS_Interval DEF Pairs
<1>3. \A e : RowsOf(e) \subseteq Pairs  BY DEF RowsOf
<1>4. \A e : IsFiniteSet(RowsOf(e)) /\ Cardinality(RowsOf(e)) \in Nat
  BY <1>2, <1>3, FS_Subset, FS_CardinalityType
<1>5. \A i \in LocalPairs : ExpertOf(i) \in 0 .. E - 1 /\ i \in RowsOf(ExpertOf(i))
  BY RowIs, LocalIs DEF LocalPairs, RowsOf
<1>6. \A e \in 0 .. E - 1 : RowsOf(e) \subseteq LocalPairs  BY DEF LocalPairs, RowsOf
<1>7. QED  BY <1>2, <1>3, <1>4, <1>5, <1>6

\* The block size is one of the list.
LEMMA BlockIs ==
  ASSUME InputOK
  PROVE  BlockSizeM \in Range(BlockSizes) /\ BlockSizeM \in Nat \ {0}
<1>1. BlockSizes \in Seq(Nat \ {0}) /\ BlockSizes # <<>> /\ ByteBlock \in Range(BlockSizes)
  BY MoEAssumption
<1>2. ASSUME NEW fitting \in SUBSET (DOMAIN BlockSizes)
      PROVE  FirstBlock(fitting) \in Range(BlockSizes)
  <2>1. CASE fitting = {}
    <3>1. Len(BlockSizes) \in DOMAIN BlockSizes  BY <1>1
    <3>2. QED  BY <2>1, <3>1 DEF FirstBlock, Range
  <2>2. CASE fitting # {}
    <3>1. fitting \in SUBSET Nat  BY <1>1
    <3>2. \E i \in fitting : \A j \in fitting : i <= j  BY <2>2, <3>1, LeastOf, Zenon
    <3>3. QED  BY <2>2, <3>2 DEF FirstBlock, Range
  <2>3. QED  BY <2>1, <2>2
<1>3. StandardBlock \in Range(BlockSizes) /\ BatchedBlock \in Range(BlockSizes)
  BY <1>2 DEF StandardBlock, BatchedBlock
<1>4. BlockSizeM \in Range(BlockSizes)
  BY <1>1, <1>3 DEF BlockSizeM, Larger
<1>5. Range(BlockSizes) \subseteq Nat \ {0}  BY <1>1 DEF Range
<1>6. QED  BY <1>4, <1>5

-----------------------------------------------------------------------------
(* The blocks of the experts, one after the other. *)

\* Lists of blocks[e] blocks for each expert, the first of them at first[e].
Starts(first, blocks) ==
    /\ first \in [0 .. E -> Nat] /\ blocks \in [0 .. E - 1 -> Nat]
    /\ first[0] = 0
    /\ \A e \in 0 .. E - 1 : first[e + 1] = first[e] + blocks[e]

LEMMA StartsRise ==
  ASSUME NEW first, NEW blocks, Starts(first, blocks),
         NEW e \in 0 .. E, NEW f \in 0 .. E, e <= f
  PROVE  first[e] <= first[f]
<1> DEFINE T == {k \in Nat : e + k <= E => first[e] <= first[e + k]}
<1>0. E \in Nat  BY LocalIs
<1>1. 0 \in T  BY <1>0 DEF Starts
<1>2. ASSUME NEW k \in Nat, k \in T PROVE k + 1 \in T
  <2>1. SUFFICES ASSUME e + (k + 1) <= E PROVE first[e] <= first[e + (k + 1)]
    OBVIOUS
  <2>2. e + k \in 0 .. E - 1 /\ e + (k + 1) = (e + k) + 1  BY <1>0, <2>1
  <2>3. first[(e + k) + 1] = first[e + k] + blocks[e + k] /\ blocks[e + k] \in Nat
    BY <2>2 DEF Starts
  <2>4. first[e] <= first[e + k]  BY <1>0, <1>2, <2>1
  <2>5. first[e] \in Nat /\ first[e + k] \in Nat  BY <1>0, <2>2 DEF Starts
  <2>6. QED  BY <2>2, <2>3, <2>4, <2>5
<1>3. f - e \in T
  <2> HIDE DEF T
  <2>1. Inductive(T)  BY <1>1, <1>2 DEF Inductive
  <2>2. f - e \in Nat  BY <1>0
  <2>3. QED  BY <2>1, <2>2, SetInduction
<1>4. QED  BY <1>0, <1>3

\* Every block below the last first belongs to one expert.
LEMMA OwnerExists ==
  ASSUME NEW first, NEW blocks, Starts(first, blocks), NEW b \in Nat, b < first[E]
  PROVE  \E e \in 0 .. E - 1 : first[e] <= b /\ b < first[e + 1]
<1> DEFINE S == {e \in 0 .. E : b < first[e]}
<1>0. E \in Nat  BY LocalIs
<1>1. S \in SUBSET Nat /\ E \in S  BY <1>0
<1>2. PICK f \in S : \A y \in S : f <= y
  <2> HIDE DEF S
  <2>1. QED  BY <1>1, LeastOf, Zenon
<1>3. f # 0  BY <1>2 DEF Starts
<1>4. f - 1 \in 0 .. E - 1 /\ (f - 1) + 1 = f /\ f - 1 \in 0 .. E  BY <1>0, <1>2, <1>3
<1>5. ~(b < first[f - 1])
  <2>1. f - 1 \notin S  BY <1>0, <1>2, <1>4
  <2>2. QED  BY <1>4, <2>1
<1>6. first[f - 1] \in Nat  BY <1>4 DEF Starts
<1>7. QED  BY <1>2, <1>4, <1>5, <1>6

LEMMA OwnerOnce ==
  ASSUME NEW first, NEW blocks, Starts(first, blocks), NEW b \in Nat,
         NEW e \in 0 .. E - 1, first[e] <= b, b < first[e + 1],
         NEW f \in 0 .. E - 1, first[f] <= b, b < first[f + 1]
  PROVE  e = f
<1>0. E \in Nat  BY LocalIs
<1>1. \A x \in 0 .. E : first[x] \in Nat  BY DEF Starts
<1>2. ~(e + 1 <= f)
  <2>1. e + 1 \in 0 .. E /\ f \in 0 .. E  BY <1>0
  <2>2. e + 1 <= f => first[e + 1] <= first[f]  BY <2>1, StartsRise
  <2>3. QED  BY <1>1, <2>1, <2>2
<1>3. ~(f + 1 <= e)
  <2>1. f + 1 \in 0 .. E /\ e \in 0 .. E  BY <1>0
  <2>2. f + 1 <= e => first[f + 1] <= first[e]  BY <2>1, StartsRise
  <2>3. QED  BY <1>1, <2>1, <2>2
<1>4. QED  BY <1>0, <1>2, <1>3

LEMMA CeilIs ==
  ASSUME NEW n \in Nat, NEW b \in Nat \ {0}
  PROVE  /\ CeilDiv(n, b) \in Nat
         /\ n <= b * CeilDiv(n, b) /\ b * CeilDiv(n, b) <= n + (b - 1)
         /\ b * CeilDiv(n, b) \in Nat
<1>1. PICK m \in Nat : m = n + b - 1  OBVIOUS
<1>2. PICK q \in Nat, r \in 0 .. b - 1 :
        m \div b = q /\ m % b = r /\ m = b * q + r /\ b * q \in Nat
  BY <1>1, Divide, Zenon
<1>3. CeilDiv(n, b) = q  BY <1>1, <1>2 DEF CeilDiv
<1>4. n <= b * q /\ b * q <= n + (b - 1)  BY <1>1, <1>2
<1>5. QED  BY <1>2, <1>3, <1>4

\* The least number of blocks that hold n rows.
LEMMA CeilLeast ==
  ASSUME NEW n \in Nat, NEW b \in Nat \ {0}, NEW c \in Nat, n <= b * c
  PROVE  CeilDiv(n, b) <= c
<1>1. PICK q \in Nat : CeilDiv(n, b) = q /\ b * q <= n + (b - 1) /\ b * q \in Nat
  BY CeilIs, Zenon
<1>2. b * c \in Nat /\ b * (c + 1) = b * c + b  OBVIOUS
<1>3. b * q < b * (c + 1)  BY <1>1, <1>2
<1>4. q < c + 1  BY <1>3, MulMonotone
<1>5. QED  BY <1>1, <1>4

Firsts == [e \in 0 .. E |-> FirstBlockOf(e)]
Counts == [e \in 0 .. E - 1 |-> BlocksOf(e)]

\* What FirstBlockOf counts: the blocks of the experts before.
BlocksBefore(e) == UNION {{f} \X (1 .. BlocksOf(f)) : f \in 0 .. e - 1}

LEMMA BlocksAre ==
  ASSUME InputOK, NEW e
  PROVE  BlocksOf(e) \in Nat /\ BlocksOf(e) = CeilDiv(Cardinality(RowsOf(e)), BlockSizeM)
BY RowsAre, BlockIs, CeilIs DEF BlocksOf

LEMMA FirstsStart ==
  ASSUME InputOK
  PROVE  Starts(Firsts, Counts)
<1> DEFINE T == {k \in Nat : IsFiniteSet(BlocksBefore(k))}
<1>0. E \in Nat  BY LocalIs
<1>1. BlocksBefore(0) = {}  BY DEF BlocksBefore
<1>2. ASSUME NEW k \in Nat
      PROVE  /\ BlocksBefore(k + 1) = BlocksBefore(k) \cup ({k} \X (1 .. BlocksOf(k)))
             /\ BlocksBefore(k) \cap ({k} \X (1 .. BlocksOf(k))) = {}
  <2>1. 0 .. (k + 1) - 1 = (0 .. k - 1) \cup {k} /\ k \notin 0 .. k - 1  OBVIOUS
  <2>2. \A m, x : x \in BlocksBefore(m)
                    <=> \E f \in 0 .. m - 1 : x \in {f} \X (1 .. BlocksOf(f))
    BY Zenon DEF BlocksBefore
  <2>3. \A x : x \in BlocksBefore(k + 1)
                 <=> x \in BlocksBefore(k) \/ x \in {k} \X (1 .. BlocksOf(k))
    <3>1. \A f : f \in 0 .. (k + 1) - 1 <=> f \in 0 .. k - 1 \/ f = k  BY <2>1
    <3>2. QED  BY <2>2, <3>1, Zenon
  <2>4. ASSUME NEW x, x \in BlocksBefore(k), x \in {k} \X (1 .. BlocksOf(k)) PROVE FALSE
    <3>1. PICK f \in 0 .. k - 1 : x \in {f} \X (1 .. BlocksOf(f))  BY <2>2, <2>4, Zenon
    <3>2. x[1] = f /\ x[1] = k  BY <2>4, <3>1
    <3>3. QED  BY <2>1, <3>1, <3>2
  <2>5. QED  BY <2>3, <2>4, Zenon
<1>3. ASSUME NEW k \in Nat
      PROVE  /\ IsFiniteSet({k} \X (1 .. BlocksOf(k)))
             /\ Cardinality({k} \X (1 .. BlocksOf(k))) = BlocksOf(k)
  <2>1. PICK n \in Nat : n = BlocksOf(k)  BY BlocksAre
  <2>2. IsFiniteSet(1 .. n) /\ Cardinality(1 .. n) = n  BY FS_Interval
  <2>3. IsFiniteSet({k}) /\ Cardinality({k}) = 1  BY FS_Singleton
  <2>4. /\ IsFiniteSet({k} \X (1 .. n))
        /\ Cardinality({k} \X (1 .. n)) = Cardinality({k}) * Cardinality(1 .. n)
    BY <2>2, <2>3, FS_Product
  <2>5. QED  BY <2>1, <2>2, <2>3, <2>4
<1>4. 0 \in T
  <2>1. IsFiniteSet(BlocksBefore(0))  BY <1>1, FS_EmptySet, Zenon
  <2>2. QED  BY <2>1
<1>5. ASSUME NEW k \in Nat, k \in T PROVE k + 1 \in T
  <2>1. IsFiniteSet(BlocksBefore(k))  BY <1>5
  <2>2. IsFiniteSet(BlocksBefore(k) \cup ({k} \X (1 .. BlocksOf(k))))
    BY <1>3, <2>1, FS_Union, Zenon
  <2>3. IsFiniteSet(BlocksBefore(k + 1))  BY <1>2, <2>2, Zenon
  <2>4. QED  BY <2>3
<1>6. \A k \in Nat : IsFiniteSet(BlocksBefore(k))
  <2> HIDE DEF T
  <2>1. Inductive(T)  BY <1>4, <1>5 DEF Inductive
  <2>2. \A k \in Nat : k \in T  BY <2>1, SetInduction
  <2>3. QED  BY <2>2 DEF T
<1>7. \A k \in Nat : FirstBlockOf(k) = Cardinality(BlocksBefore(k)) /\ FirstBlockOf(k) \in Nat
  BY <1>6, FS_CardinalityType DEF FirstBlockOf, BlocksBefore
<1>8. FirstBlockOf(0) = 0  BY <1>1, <1>7, FS_EmptySet
<1>9. ASSUME NEW k \in Nat PROVE FirstBlockOf(k + 1) = FirstBlockOf(k) + BlocksOf(k)
  <2> DEFINE A == BlocksBefore(k)
             B == {k} \X (1 .. BlocksOf(k))
  <2>1. IsFiniteSet(A) /\ IsFiniteSet(B) /\ A \cap B = {}  BY <1>2, <1>3, <1>6
  <2>2. Cardinality(A \cup B) = Cardinality(A) + Cardinality(B) - Cardinality(A \cap B)
    <3> HIDE DEF A, B
    <3>1. QED  BY <2>1, FS_Union
  <2>3. Cardinality(A \cap B) = 0  BY <2>1, FS_EmptySet
  <2>4. Cardinality(A) = FirstBlockOf(k) /\ Cardinality(B) = BlocksOf(k)
        /\ Cardinality(A \cup B) = FirstBlockOf(k + 1)
    <3>1. k + 1 \in Nat  OBVIOUS
    <3>2. A \cup B = BlocksBefore(k + 1)  BY <1>2, Zenon
    <3>3. Cardinality(B) = BlocksOf(k)  BY <1>3, Zenon
    <3>4. Cardinality(A) = FirstBlockOf(k)  BY <1>7, Zenon
    <3>5. Cardinality(BlocksBefore(k + 1)) = FirstBlockOf(k + 1)  BY <1>7, <3>1, Zenon
    <3> HIDE DEF A, B
    <3>6. QED  BY <3>2, <3>3, <3>4, <3>5
  <2>5. FirstBlockOf(k) \in Nat /\ BlocksOf(k) \in Nat  BY <1>7, BlocksAre
  <2> HIDE DEF A, B
  <2>6. QED  BY <2>2, <2>3, <2>4, <2>5
<1>10. \A e \in 0 .. E : e \in Nat  BY <1>0
<1>11. \A e \in 0 .. E - 1 : e \in 0 .. E /\ e + 1 \in 0 .. E  BY <1>0
<1>12. Firsts \in [0 .. E -> Nat] /\ Counts \in [0 .. E - 1 -> Nat]
  BY <1>7, <1>10, BlocksAre DEF Firsts, Counts
<1>13. Firsts[0] = 0  BY <1>0, <1>8 DEF Firsts
<1>14. \A e \in 0 .. E - 1 : Firsts[e + 1] = Firsts[e] + Counts[e]
  BY <1>9, <1>10, <1>11 DEF Firsts, Counts
<1>15. QED  BY <1>12, <1>13, <1>14 DEF Starts

-----------------------------------------------------------------------------
(* The buffer holds the blocks. *)

\* The rows of the experts before e.
RowsBefore(e) == {i \in Pairs : ExpertOf(i) \in 0 .. e - 1}

LEMMA RowsBeforeIs ==
  ASSUME InputOK
  PROVE  /\ Cardinality(RowsBefore(0)) = 0
         /\ \A e \in 0 .. E : Cardinality(RowsBefore(e)) \in 0 .. Numel
         /\ \A e \in 0 .. E - 1 : Cardinality(RowsBefore(e + 1))
                                    = Cardinality(RowsBefore(e)) + Cardinality(RowsOf(e))
<1>0. E \in Nat  BY LocalIs
<1>1. Numel \in Nat /\ IsFiniteSet(Pairs) /\ Cardinality(Pairs) = Numel
  BY RowIs, RowsAre
<1>2. \A e : RowsBefore(e) \in SUBSET Pairs  BY DEF RowsBefore
<1>3. \A e : /\ IsFiniteSet(RowsBefore(e)) /\ Cardinality(RowsBefore(e)) \in Nat
             /\ Cardinality(RowsBefore(e)) <= Numel
  BY <1>1, <1>2, FS_Subset, FS_CardinalityType
<1>4. RowsBefore(0) = {}  BY DEF RowsBefore
<1>5. ASSUME NEW e \in 0 .. E - 1
      PROVE  Cardinality(RowsBefore(e + 1)) = Cardinality(RowsBefore(e)) + Cardinality(RowsOf(e))
  <2>1. 0 .. (e + 1) - 1 = (0 .. e - 1) \cup {e} /\ e \notin 0 .. e - 1  BY <1>0
  <2>2. RowsBefore(e + 1) = RowsBefore(e) \cup RowsOf(e)
        /\ RowsBefore(e) \cap RowsOf(e) = {}
    BY <2>1, Zenon DEF RowsBefore, RowsOf
  <2>3. IsFiniteSet(RowsOf(e)) /\ Cardinality(RowsOf(e)) \in Nat  BY RowsAre
  <2>4. Cardinality(RowsBefore(e) \cup RowsOf(e))
          = Cardinality(RowsBefore(e)) + Cardinality(RowsOf(e))
              - Cardinality(RowsBefore(e) \cap RowsOf(e))
    BY <1>3, <2>3, FS_Union
  <2>5. Cardinality(RowsBefore(e) \cap RowsOf(e)) = 0  BY <2>2, FS_EmptySet
  <2>6. QED  BY <1>3, <2>2, <2>3, <2>4, <2>5
<1>6. QED  BY <1>3, <1>4, <1>5, FS_EmptySet

\* Blocks before e: never more than the rows, nor longer than the rows and a block
\* less one for each expert.
LEMMA FirstWithin ==
  ASSUME InputOK, NEW size \in Nat \ {0}, size = BlockSizeM
  PROVE  \A e \in 0 .. E : /\ Firsts[e] <= Cardinality(RowsBefore(e))
                           /\ size * Firsts[e] <= Cardinality(RowsBefore(e)) + e * (size - 1)
<1> DEFINE R(e) == Cardinality(RowsBefore(e))
           T == {e \in Nat : e <= E => /\ Firsts[e] <= R(e)
                                       /\ size * Firsts[e] <= R(e) + e * (size - 1)}
<1>0. E \in Nat  BY LocalIs
<1>1. Starts(Firsts, Counts)  BY FirstsStart
<1>2. 0 \in T
  <2>1. Firsts[0] = 0 /\ R(0) = 0  BY <1>1, RowsBeforeIs DEF Starts
  <2>2. 0 * (size - 1) = 0 /\ size * 0 = 0  OBVIOUS
  <2> HIDE DEF R
  <2>3. QED  BY <2>1, <2>2
<1>3. ASSUME NEW e \in Nat, e \in T PROVE e + 1 \in T
  <2>1. SUFFICES ASSUME e + 1 <= E
                 PROVE  /\ Firsts[e + 1] <= R(e + 1)
                        /\ size * Firsts[e + 1] <= R(e + 1) + (e + 1) * (size - 1)
    OBVIOUS
  <2>2. e \in 0 .. E - 1 /\ e \in 0 .. E /\ e + 1 \in 0 .. E  BY <1>0, <2>1
  <2>3. PICK n \in Nat : n = Cardinality(RowsOf(e))  BY RowsAre
  <2>4. PICK c \in Nat : c = BlocksOf(e) /\ c = CeilDiv(n, size)
    BY <2>3, BlocksAre
  <2>5. PICK f \in Nat : Firsts[e] = f /\ Firsts[e + 1] = f + c
    BY <1>1, <2>2, <2>4 DEF Starts, Counts
  <2>6. PICK r \in Nat : R(e) = r /\ R(e + 1) = r + n
    BY <2>2, <2>3, RowsBeforeIs
  <2>7. f <= r /\ size * f <= r + e * (size - 1)  BY <1>3, <2>1, <2>2, <2>5, <2>6
  <2>8. c <= n
    <3>1. n <= size * n
      <4>1. 1 <= size  OBVIOUS
      <4>2. CASE n = 0  BY <4>2
      <4>3. CASE n # 0
        <5>1. n * 1 <= n * size  BY <4>1, <4>3, MulMonotone
        <5>2. n * 1 = n /\ n * size = size * n  OBVIOUS
        <5>3. QED  BY <5>1, <5>2
      <4>4. QED  BY <4>2, <4>3
    <3>2. QED  BY <2>4, <3>1, CeilLeast
  <2>9. size * c <= n + (size - 1)  BY <2>4, CeilIs
  <2>10. size * (f + c) = size * f + size * c
         /\ (e + 1) * (size - 1) = e * (size - 1) + (size - 1)
         /\ size * f \in Nat /\ size * c \in Nat /\ e * (size - 1) \in Nat
    OBVIOUS
  <2> HIDE DEF R, T
  <2>11. QED  BY <2>5, <2>6, <2>7, <2>8, <2>9, <2>10
<1>4. \A e \in Nat : e \in T
  <2> HIDE DEF T
  <2>1. Inductive(T)  BY <1>2, <1>3 DEF Inductive
  <2>2. QED  BY <2>1, SetInduction
<1>5. QED  BY <1>0, <1>4

\* No expert has more rows than places.
LEMMA PlacesHold ==
  ASSUME InputOK, call.batched, NEW e \in 0 .. E - 1
  PROVE  Cardinality(RowsOf(e)) <= capacity
<1>0. E \in Nat  BY LocalIs
<1>1. PICK c \in Nat \ {0} : capacity = c  BY DEF InputOK
<1>2. PICK a \in Nat : a = c * e  BY <1>0
<1>3. IsFiniteSet(a .. a + c - 1) /\ Cardinality(a .. a + c - 1) = c
  BY <1>1, <1>2, FS_Interval
<1>4. RowsOf(e) \subseteq a .. a + c - 1
  <2>1. SUFFICES ASSUME NEW i \in RowsOf(e) PROVE i \in a .. a + c - 1
    OBVIOUS
  <2>2. i \in Nat /\ ExpertOf(i) = e  BY RowIs DEF RowsOf
  <2>3. PICK q \in Nat, r \in 0 .. c - 1 :
          i \div c = q /\ i % c = r /\ i = c * q + r /\ c * q \in Nat
    BY <2>2, Divide, Zenon
  <2>4. ExpertOf(i) \in {q, -1}  BY <1>1, <2>3 DEF ExpertOf
  <2>5. q = e  BY <1>0, <2>2, <2>4
  <2>6. QED  BY <1>2, <2>3, <2>5
<1>5. QED  BY <1>1, <1>3, <1>4, FS_Subset

LEMMA FirstOfPlaces ==
  ASSUME InputOK, call.batched, NEW size \in Nat \ {0}, size = BlockSizeM,
         NEW c \in Nat, c = CeilDiv(capacity, size)
  PROVE  \A e \in 0 .. E : Firsts[e] <= e * c
<1> DEFINE T == {e \in Nat : e <= E => Firsts[e] <= e * c}
<1>0. E \in Nat  BY LocalIs
<1>1. Starts(Firsts, Counts)  BY FirstsStart
<1>2. 0 \in T
  <2>1. Firsts[0] = 0 /\ 0 * c = 0  BY <1>1 DEF Starts
  <2>2. QED  BY <2>1
<1>3. ASSUME NEW e \in Nat, e \in T PROVE e + 1 \in T
  <2>1. SUFFICES ASSUME e + 1 <= E PROVE Firsts[e + 1] <= (e + 1) * c
    OBVIOUS
  <2>2. e \in 0 .. E - 1 /\ e \in 0 .. E  BY <1>0, <2>1
  <2>3. PICK n \in Nat : n = Cardinality(RowsOf(e))  BY RowsAre
  <2>4. PICK b \in Nat : b = BlocksOf(e) /\ b = CeilDiv(n, size)
    BY <2>3, BlocksAre
  <2>5. PICK f \in Nat : Firsts[e] = f /\ Firsts[e + 1] = f + b
    BY <1>1, <2>2, <2>4 DEF Starts, Counts
  <2>6. f <= e * c  BY <1>3, <2>1, <2>2, <2>5
  <2>7. b <= c
    <3>1. PICK p \in Nat : p = capacity  BY DEF InputOK
    <3>2. n <= p  BY <2>2, <2>3, <3>1, PlacesHold
    <3>3. p <= size * c /\ size * c \in Nat  BY <3>1, CeilIs
    <3>4. n <= size * c  BY <3>2, <3>3
    <3>5. QED  BY <2>4, <3>4, CeilLeast
  <2>8. (e + 1) * c = e * c + c /\ e * c \in Nat  OBVIOUS
  <2> HIDE DEF T
  <2>9. QED  BY <2>5, <2>6, <2>7, <2>8
<1>4. \A e \in Nat : e \in T
  <2> HIDE DEF T
  <2>1. Inductive(T)  BY <1>2, <1>3 DEF Inductive
  <2>2. QED  BY <2>1, SetInduction
<1>5. QED  BY <1>0, <1>4

\* The aligner's buffer is long enough.
LEMMA BufferHolds ==
  ASSUME InputOK, NEW size \in Nat \ {0}, size = BlockSizeM
  PROVE  BufferLen(size) \in Nat /\ size * Firsts[E] <= BufferLen(size)
<1>0. E \in Nat /\ E <= GlobalExperts /\ E \in 0 .. E  BY LocalIs
<1>1. PICK f \in Nat : f = Firsts[E]  BY <1>0, FirstsStart DEF Starts
<1>2. PICK u \in Nat : u = Numel  BY RowIs
<1>3. CASE call.batched
  <2>1. PICK p \in Nat : p = capacity  BY <1>3 DEF InputOK
  <2>2. PICK c \in Nat : c = CeilDiv(p, size)  BY CeilIs
  <2>3. f <= E * c  BY <1>0, <1>1, <1>3, <2>1, <2>2, FirstOfPlaces
  <2>4. PICK h \in Nat : h = E * c  BY <1>0
  <2>5. size * f <= size * h /\ size * h \in Nat /\ size * h = h * size
    BY <2>3, <2>4, MulMonotone
  <2>6. BufferLen(size) = h * size  BY <1>3, <2>1, <2>2, <2>4 DEF BufferLen
  <2>7. QED  BY <1>1, <2>5, <2>6
<1>4. CASE ~call.batched
  <2>1. PICK r \in 0 .. u :
          r = Cardinality(RowsBefore(E)) /\ f <= r /\ size * f <= r + E * (size - 1)
    BY <1>0, <1>1, <1>2, FirstWithin, RowsBeforeIs
  <2>2. PICK g \in Nat \ {0} : g = GlobalExperts  BY MoEAssumption
  <2>3. E * (size - 1) <= g * (size - 1) /\ E * (size - 1) \in Nat /\ g * (size - 1) \in Nat
    <3>1. PICK z \in Nat : z = size - 1  OBVIOUS
    <3>2. CASE z = 0  BY <1>0, <2>2, <3>1, <3>2
    <3>3. CASE z # 0
      <4>1. z * E <= z * g  BY <1>0, <2>2, <3>3, MulMonotone
      <4>2. z * E = E * z /\ z * g = g * z /\ E * z \in Nat /\ g * z \in Nat
        BY <1>0, <2>2
      <4>3. QED  BY <3>1, <4>1, <4>2
    <3>4. QED  BY <3>2, <3>3
  <2>4. size * f <= u + g * (size - 1)
    <3>1. size * f \in Nat  OBVIOUS
    <3>2. QED  BY <2>1, <2>3, <3>1
  <2>5. size * f <= u * size
    <3>1. size * f <= size * u  BY <2>1, MulMonotone
    <3>2. size * u = u * size  OBVIOUS
    <3>3. QED  BY <3>1, <3>2
  <2>6. u * size \in Nat  OBVIOUS
  <2>7. BufferLen(size) \in {u + g * (size - 1), u * size}
    BY <1>2, <1>4, <2>2 DEF BufferLen, Smaller
  <2>8. QED  BY <1>1, <2>3, <2>4, <2>5, <2>6, <2>7
<1>5. QED  BY <1>3, <1>4

-----------------------------------------------------------------------------
(* Slots. *)

\* Slot i, counted from 1, is the k-th of expert e.
At(i, e, k) ==
    /\ e \in 0 .. E - 1 /\ k \in Nat /\ 1 <= k /\ k <= BlockSizeM * Counts[e]
    /\ i = BlockSizeM * Firsts[e] + k

LEMMA AtExists ==
  ASSUME InputOK, NEW i \in Nat, 1 <= i, i <= BlockSizeM * Firsts[E]
  PROVE  \E e, k : At(i, e, k)
<1>0. E \in Nat  BY LocalIs
<1>1. PICK z \in Nat \ {0} : z = BlockSizeM  BY BlockIs
<1>2. Starts(Firsts, Counts)  BY FirstsStart
<1>a. PICK m \in Nat : m = i - 1  OBVIOUS
<1>3. PICK q \in Nat, r \in 0 .. z - 1 :
        m \div z = q /\ m % z = r /\ m = z * q + r /\ z * q \in Nat
  BY Divide, Zenon
<1>4. Firsts[E] \in Nat  BY <1>0, <1>2 DEF Starts
<1>5. z * q < z * Firsts[E]
  <2>1. z * Firsts[E] \in Nat  BY <1>4
  <2>2. QED  BY <1>1, <1>a, <1>3, <2>1
<1>6. q < Firsts[E]  BY <1>3, <1>4, <1>5, MulMonotone
<1>7. PICK e \in 0 .. E - 1 : Firsts[e] <= q /\ q < Firsts[e + 1]
  BY <1>2, <1>6, OwnerExists
<1>8. PICK f \in Nat, c \in Nat : Firsts[e] = f /\ Counts[e] = c /\ Firsts[e + 1] = f + c
  BY <1>0, <1>2, <1>7 DEF Starts
<1>9. z * f <= z * q /\ z * (q + 1) <= z * (f + c)
  BY <1>7, <1>8, MulMonotone
<1>10. z * (q + 1) = z * q + z /\ z * (f + c) = z * f + z * c /\ z * f \in Nat /\ z * c \in Nat
  OBVIOUS
<1>11. PICK k \in Int : k = i - z * f  BY <1>10
<1>12. 1 <= k /\ k <= z * c  BY <1>3, <1>a, <1>9, <1>10, <1>11
<1>13. i = z * f + k  BY <1>10, <1>11
<1>14. At(i, e, k)
  <2>1. k \in Nat  BY <1>12
  <2>2. QED  BY <1>1, <1>8, <1>12, <1>13, <2>1 DEF At
<1>15. QED  BY <1>14

LEMMA AtIs ==
  ASSUME InputOK, NEW i, NEW e, NEW k, At(i, e, k)
  PROVE  /\ i \in Nat /\ 1 <= i /\ i <= BlockSizeM * Firsts[E]
         /\ (i - 1) \div BlockSizeM \in Nat
         /\ Firsts[e] <= (i - 1) \div BlockSizeM
         /\ (i - 1) \div BlockSizeM < Firsts[e + 1]
         /\ (i - 1) \div BlockSizeM = Firsts[e] + ((k - 1) \div BlockSizeM)
<1>0. E \in Nat /\ e \in 0 .. E - 1  BY LocalIs DEF At
<1>1. PICK z \in Nat \ {0} : z = BlockSizeM  BY BlockIs
<1>2. Starts(Firsts, Counts)  BY FirstsStart
<1>3. PICK f \in Nat, c \in Nat : Firsts[e] = f /\ Counts[e] = c /\ Firsts[e + 1] = f + c
  BY <1>0, <1>2 DEF Starts
<1>4. k \in Nat /\ 1 <= k /\ k <= z * c /\ i = z * f + k  BY <1>1, <1>3 DEF At
<1>a. PICK m \in Nat : m = k - 1  BY <1>4
<1>5. PICK q \in Nat, r \in 0 .. z - 1 :
        m \div z = q /\ m % z = r /\ m = z * q + r /\ z * q \in Nat
  BY Divide, Zenon
<1>6. z * f \in Nat /\ z * c \in Nat /\ z * (f + q) = z * f + z * q /\ f + q \in Nat
  OBVIOUS
<1>7. i - 1 = z * (f + q) + r  BY <1>4, <1>a, <1>5, <1>6
<1>8. (i - 1) \div z = f + q  BY <1>6, <1>7, DivIs
<1>9. q < c
  <2>1. z * q < z * c  BY <1>4, <1>a, <1>5, <1>6
  <2>2. QED  BY <2>1, MulMonotone
<1>10. i <= z * Firsts[E]
  <2>1. e + 1 \in 0 .. E /\ E \in 0 .. E /\ e + 1 <= E  BY <1>0
  <2>2. Firsts[e + 1] <= Firsts[E]  BY <1>2, <2>1, StartsRise
  <2>3. PICK l \in Nat : l = Firsts[E]  BY <1>2, <2>1 DEF Starts
  <2>4. z * (f + c) <= z * l  BY <1>3, <2>2, <2>3, MulMonotone
  <2>5. z * (f + c) = z * f + z * c  OBVIOUS
  <2>6. z * l \in Nat  OBVIOUS
  <2>7. QED  BY <1>4, <1>6, <2>3, <2>4, <2>5, <2>6
<1>11. i \in Nat /\ 1 <= i  BY <1>4, <1>6
<1>12. QED  BY <1>1, <1>3, <1>a, <1>5, <1>8, <1>9, <1>10, <1>11

LEMMA AtOnce ==
  ASSUME InputOK, NEW i, NEW e, NEW k, At(i, e, k), NEW f, NEW j, At(i, f, j)
  PROVE  e = f /\ k = j
<1>1. e \in 0 .. E - 1 /\ f \in 0 .. E - 1  BY DEF At
<1>2. e = f
  <2>1. PICK b \in Nat : b = (i - 1) \div BlockSizeM /\ Firsts[e] <= b /\ b < Firsts[e + 1]
    BY AtIs, Zenon
  <2>2. Firsts[f] <= b /\ b < Firsts[f + 1]  BY <2>1, AtIs, Zenon
  <2>3. QED  BY <1>1, <2>1, <2>2, FirstsStart, OwnerOnce
<1>3. PICK a \in Nat : a = BlockSizeM * Firsts[e]
  <2>1. E \in Nat /\ Firsts[e] \in Nat /\ BlockSizeM \in Nat
    BY <1>1, LocalIs, FirstsStart, BlockIs DEF Starts
  <2>2. QED  BY <2>1
<1>4. i = a + k /\ i = a + j /\ k \in Nat /\ j \in Nat  BY <1>2, <1>3 DEF At
<1>5. QED  BY <1>2, <1>4

-----------------------------------------------------------------------------
(* Layouts. *)

\* The row of a slot, when the rows of each expert e come in the order o[e].
Listed(o, e, k) == IF k \in DOMAIN o[e] THEN o[e][k] ELSE Numel

\* l holds the rows of the experts in the orders o.
Lists(l, o) ==
    /\ \E ids, experts, post, block :
         l = [ids |-> ids, experts |-> experts, post |-> post, block |-> block]
    /\ l.block = BlockSizeM /\ l.post = BlockSizeM * Firsts[E]
    /\ \E n \in Nat : DOMAIN l.ids = 1 .. n /\ Len(l.ids) = n /\ l.post <= n
    /\ \A i, e, k : At(i, e, k) => l.ids[i] = Listed(o, e, k)
    /\ \A e \in 0 .. E - 1, b \in Nat :
         Firsts[e] <= b /\ b < Firsts[e + 1] => l.experts[b + 1] = e

LEMMA ListedAt ==
  ASSUME NEW l, NEW o, Lists(l, o), NEW i, NEW e, NEW k, At(i, e, k)
  PROVE  l.ids[i] = Listed(o, e, k)
BY Zenon DEF Lists

OwnerOf(b) == CHOOSE e \in 0 .. E - 1 : Firsts[e] <= b /\ b < Firsts[e + 1]

LEMMA OwnerIs ==
  ASSUME InputOK, NEW b \in Nat, NEW e \in 0 .. E - 1, Firsts[e] <= b, b < Firsts[e + 1]
  PROVE  OwnerOf(b) = e
<1>1. OwnerOf(b) \in 0 .. E - 1 /\ Firsts[OwnerOf(b)] <= b /\ b < Firsts[OwnerOf(b) + 1]
  BY Zenon DEF OwnerOf
<1>2. QED  BY <1>1, FirstsStart, OwnerOnce

\* An aligner lists the rows in the order it found them.
LEMMA AlignedLists ==
  ASSUME InputOK, NEW o, NEW junkId, NEW junkExpert
  PROVE  Lists(Aligned(o, junkId, junkExpert), o)
<1> DEFINE z == BlockSizeM
           first == [e \in 0 .. E |-> FirstBlockOf(e)]
           IdAt(s) == LET e == OwnerOf(s \div z)
                          r == s - Firsts[e] * z + 1
                      IN  IF r \in DOMAIN o[e] THEN o[e][r] ELSE Numel
           l == Aligned(o, junkId, junkExpert)
<1>1. l = [ids |-> [i \in 1 .. BufferLen(z) |->
                      IF i <= Firsts[E] * z THEN IdAt(i - 1) ELSE junkId],
           experts |-> [b \in 1 .. CeilDiv(BufferLen(z), z) |->
                          IF b <= Firsts[E] THEN OwnerOf(b - 1) ELSE junkExpert],
           post |-> Firsts[E] * z, block |-> z]
  BY Zenon DEF Aligned, OwnerOf, Firsts
<1>2. z \in Nat \ {0}  BY BlockIs
<1>3. E \in Nat /\ Starts(Firsts, Counts)  BY LocalIs, FirstsStart
<1>4. Firsts[E] \in Nat  BY <1>3 DEF Starts
<1>5. BufferLen(z) \in Nat /\ z * Firsts[E] <= BufferLen(z)  BY <1>2, BufferHolds
<1>6. Firsts[E] * z = z * Firsts[E]
  <2> HIDE DEF z
  <2>1. QED  BY <1>2, <1>4
<1>7. /\ l.block = z /\ l.post = z * Firsts[E]
      /\ l.ids = [i \in 1 .. BufferLen(z) |->
                    IF i <= Firsts[E] * z THEN IdAt(i - 1) ELSE junkId]
      /\ l.experts = [b \in 1 .. CeilDiv(BufferLen(z), z) |->
                        IF b <= Firsts[E] THEN OwnerOf(b - 1) ELSE junkExpert]
  <2> HIDE DEF l, z, IdAt
  <2>1. QED  BY <1>1, <1>6
<1> HIDE DEF l
<1>8. DOMAIN l.ids = 1 .. BufferLen(z) /\ Len(l.ids) = BufferLen(z)
  <2> HIDE DEF z, IdAt
  <2>1. QED  BY <1>5, <1>7
<1>9. ASSUME NEW i, NEW e, NEW k, At(i, e, k) PROVE l.ids[i] = Listed(o, e, k)
  <2>1. i \in Nat /\ 1 <= i /\ i <= z * Firsts[E]  BY <1>9, AtIs, Zenon
  <2>2. PICK b \in Nat : b = (i - 1) \div z /\ Firsts[e] <= b /\ b < Firsts[e + 1]
    BY <1>9, AtIs, Zenon
  <2>3. e \in 0 .. E - 1 /\ k \in Nat /\ i = z * Firsts[e] + k  BY <1>9 DEF At
  <2>4. OwnerOf((i - 1) \div z) = e  BY <2>2, <2>3, OwnerIs
  <2>5. Firsts[e] \in Nat  BY <1>3, <2>3 DEF Starts
  <2>6. (i - 1) - Firsts[e] * z + 1 = k
    <3> HIDE DEF z
    <3>1. z * Firsts[e] = Firsts[e] * z /\ z * Firsts[e] \in Nat  BY <1>2, <2>5
    <3>2. QED  BY <2>1, <2>3, <3>1
  <2>7. IdAt(i - 1) = Listed(o, e, k)  BY <2>4, <2>6, Zenon DEF Listed
  <2>8. i \in 1 .. BufferLen(z) /\ i <= Firsts[E] * z
    <3> HIDE DEF z
    <3>1. QED  BY <1>2, <1>4, <1>5, <1>6, <2>1
  <2> HIDE DEF IdAt, z
  <2>9. QED  BY <1>7, <2>7, <2>8
<1>10. ASSUME NEW e \in 0 .. E - 1, NEW b \in Nat, Firsts[e] <= b, b < Firsts[e + 1]
       PROVE  l.experts[b + 1] = e
  <2>1. OwnerOf(b) = e  BY <1>10, OwnerIs
  <2>2. e + 1 \in 0 .. E /\ E \in 0 .. E /\ e + 1 <= E  BY <1>3
  <2>3. Firsts[e + 1] <= Firsts[E] /\ Firsts[e + 1] \in Nat
    BY <1>3, <2>2, StartsRise DEF Starts
  <2>4. b + 1 <= Firsts[E]  BY <1>4, <1>10, <2>3
  <2>5. PICK n \in Nat : n = CeilDiv(BufferLen(z), z) /\ BufferLen(z) <= z * n
    BY <1>2, <1>5, CeilIs
  <2>6. Firsts[E] <= n
    <3> HIDE DEF z
    <3>1. z * n \in Nat /\ z * Firsts[E] \in Nat  BY <1>2, <1>4
    <3>2. z * Firsts[E] <= z * n  BY <1>5, <2>5, <3>1
    <3>3. QED  BY <1>2, <1>4, <3>2, MulMonotone
  <2>7. b + 1 \in 1 .. CeilDiv(BufferLen(z), z)  BY <1>4, <2>4, <2>5, <2>6
  <2>8. (b + 1) - 1 = b  OBVIOUS
  <2> HIDE DEF IdAt, z
  <2>9. QED  BY <1>7, <2>1, <2>4, <2>7, <2>8
<1>11. Lists(l, o)
  <2>1. \E n \in Nat : DOMAIN l.ids = 1 .. n /\ Len(l.ids) = n /\ l.post <= n
    BY <1>5, <1>7, <1>8
  <2>2. \E ids, experts, post, block :
          l = [ids |-> ids, experts |-> experts, post |-> post, block |-> block]
    BY <1>1, Zenon DEF l
  <2>3. QED  BY <1>7, <1>9, <1>10, <2>1, <2>2, Zenon DEF Lists
<1>12. QED  BY <1>11 DEF l

-----------------------------------------------------------------------------
(* Ascending. *)

LEMMA AscendingIs ==
  ASSUME NEW S \in SUBSET Nat, IsFiniteSet(S)
  PROVE  /\ Ascending(S) \in SetToSeqs(S)
         /\ \A s : s = Ascending(S) =>
              \A i, j \in DOMAIN s : i < j => s[i] < s[j]
<1> DEFINE R == {p \in S \X S : p[1] < p[2]}
           place == [x \in S |-> Cardinality({y \in S : y < x}) + 1]
<1>1. StrictOrder(R, S)
  <2>1. \A x, y \in S : <<x, y>> \in R <=> x < y  OBVIOUS
  <2> HIDE DEF R
  <2>2. QED  BY <2>1 DEF StrictOrder
<1>2. place = [x \in S |-> Place(x, S, R)]
  <2>1. \A x, y \in S : <<y, x>> \in R <=> y < x  OBVIOUS
  <2> HIDE DEF R
  <2>2. \A x \in S : {y \in S : y < x} = {y \in S : <<y, x>> \in R}  BY <2>1
  <2>3. \A x \in S : Cardinality({y \in S : y < x}) + 1 = Place(x, S, R)
    BY <2>2, Zenon DEF Place
  <2>4. QED  BY <2>3
<1>3. Ascending(S) = ByPlace(place, S)  BY Zenon DEF Ascending, InOrder, ByPlace
<1>4. InSequence(Ascending(S), S, R)
  <2> HIDE DEF place, R
  <2>1. InSequence(ByPlace(place, S), S, R)  BY <1>1, <1>2, SortByPlace, Zenon
  <2>2. QED  BY <1>3, <2>1, Zenon
<1>5. PICK s : s = Ascending(S)  OBVIOUS
<1>6. s \in [1 .. Cardinality(S) -> S] /\ DOMAIN s = 1 .. Cardinality(S)
  BY <1>4, <1>5 DEF InSequence
<1>7. s \in SetToSeqs(S)
  <2>1. \A i, j \in 1 .. Cardinality(S) : i # j => s[i] # s[j]
    BY <1>4, <1>5 DEF InSequence
  <2>2. QED  BY <1>6, <2>1 DEF SetToSeqs
<1>8. ASSUME NEW i \in DOMAIN s, NEW j \in DOMAIN s, i < j PROVE s[i] < s[j]
  <2>1. <<s[i], s[j]>> \in R  BY <1>4, <1>5, <1>6, <1>8 DEF InSequence
  <2>2. QED  BY <2>1
<1>9. QED  BY <1>5, <1>7, <1>8

\* The rows of each expert in ascending order.
Asc == [e \in 0 .. E - 1 |-> Ascending(RowsOf(e))]

\* o holds the rows of each expert, in some order.
OrderOK(o) == \A e \in 0 .. E - 1 : o[e] \in SetToSeqs(RowsOf(e))

LEMMA AscIs ==
  ASSUME InputOK
  PROVE  /\ OrderOK(Asc)
         /\ \A e \in 0 .. E - 1 : \A i, j \in DOMAIN Asc[e] : i < j => Asc[e][i] < Asc[e][j]
<1>1. \A e : RowsOf(e) \in SUBSET Nat /\ IsFiniteSet(RowsOf(e))
  BY RowIs, RowsAre DEF RowsOf
<1>2. \A e : /\ Ascending(RowsOf(e)) \in SetToSeqs(RowsOf(e))
             /\ \A i, j \in DOMAIN Ascending(RowsOf(e)) :
                  i < j => Ascending(RowsOf(e))[i] < Ascending(RowsOf(e))[j]
  BY <1>1, AscendingIs
<1>3. \A e \in 0 .. E - 1 : Asc[e] = Ascending(RowsOf(e))  BY DEF Asc
<1>4. QED  BY <1>2, <1>3, Zenon DEF OrderOK

\* What an order of an expert's rows is.
LEMMA OrderIs ==
  ASSUME InputOK, NEW o, OrderOK(o), NEW e \in 0 .. E - 1
  PROVE  /\ DOMAIN o[e] = 1 .. Cardinality(RowsOf(e))
         /\ {o[e][k] : k \in DOMAIN o[e]} = RowsOf(e)
         /\ \A i, j \in DOMAIN o[e] : i # j => o[e][i] # o[e][j]
         /\ \A k : Listed(o, e, k) \in 0 .. Numel
         /\ \A k \in DOMAIN o[e] : Listed(o, e, k) \in RowsOf(e) /\ Listed(o, e, k) < Numel
<1>1. IsFiniteSet(RowsOf(e))  BY RowsAre
<1>2. o[e] \in SetToSeqs(RowsOf(e))  BY DEF OrderOK
<1>3. /\ DOMAIN o[e] = 1 .. Cardinality(RowsOf(e))
      /\ {o[e][k] : k \in DOMAIN o[e]} = RowsOf(e)
      /\ \A i, j \in DOMAIN o[e] : i # j => o[e][i] # o[e][j]
  BY <1>1, <1>2, SeqsOfSet
<1>4. \A i \in RowsOf(e) : i \in 0 .. Numel /\ i < Numel  BY RowIs DEF RowsOf
<1>5. \A k \in DOMAIN o[e] : Listed(o, e, k) \in RowsOf(e)  BY <1>3 DEF Listed
<1>6. Numel \in 0 .. Numel  BY RowIs
<1>7. \A k : Listed(o, e, k) \in 0 .. Numel  BY <1>4, <1>5, <1>6 DEF Listed
<1>8. QED  BY <1>3, <1>4, <1>5, <1>7

-----------------------------------------------------------------------------
(* Regions. *)

StartsIn(l, b) == {c \in 1 .. b : RegionStarts(l, c)}

LEMMA RegionRises ==
  ASSUME NEW l, NEW b \in Nat, NEW c \in Nat, b <= c
  PROVE  /\ Region(l, b) \in Nat /\ Region(l, c) \in Nat
         /\ Region(l, b) <= Region(l, c)
         /\ (\E a \in b + 1 .. c : RegionStarts(l, a)) => Region(l, b) < Region(l, c)
         /\ ~(\E a \in b + 1 .. c : RegionStarts(l, a)) => Region(l, b) = Region(l, c)
<1>1. IsFiniteSet(1 .. b) /\ IsFiniteSet(1 .. c)  BY FS_Interval
<1>2. /\ StartsIn(l, b) \in SUBSET (1 .. b) /\ StartsIn(l, c) \in SUBSET (1 .. c)
      /\ StartsIn(l, b) \in SUBSET StartsIn(l, c)
  BY DEF StartsIn
<1>3. IsFiniteSet(StartsIn(l, b)) /\ IsFiniteSet(StartsIn(l, c))
  BY <1>1, <1>2, FS_Subset
<1>4. Region(l, b) = Cardinality(StartsIn(l, b)) /\ Region(l, c) = Cardinality(StartsIn(l, c))
  BY DEF Region, StartsIn
<1>5. /\ Region(l, b) \in Nat /\ Region(l, c) \in Nat /\ Region(l, b) <= Region(l, c)
      /\ Region(l, b) = Region(l, c) => StartsIn(l, b) = StartsIn(l, c)
  BY <1>2, <1>3, <1>4, FS_Subset, FS_CardinalityType
<1>6. ASSUME NEW a \in b + 1 .. c, RegionStarts(l, a) PROVE Region(l, b) < Region(l, c)
  <2>1. a \in StartsIn(l, c) /\ a \notin StartsIn(l, b)  BY <1>6 DEF StartsIn
  <2>2. QED  BY <1>5, <2>1
<1>7. ASSUME ~(\E a \in b + 1 .. c : RegionStarts(l, a)) PROVE Region(l, b) = Region(l, c)
  <2>1. StartsIn(l, c) \subseteq StartsIn(l, b)
    <3>1. SUFFICES ASSUME NEW a \in 1 .. c, RegionStarts(l, a) PROVE a \in 1 .. b
      BY DEF StartsIn
    <3>2. a \notin b + 1 .. c  BY <1>7, <3>1
    <3>3. QED  BY <3>2
  <2>2. StartsIn(l, b) = StartsIn(l, c)  BY <1>2, <2>1
  <2>3. QED  BY <1>4, <2>2
<1>8. QED  BY <1>5, <1>6, <1>7

\* Where the buffer is in use.
LEMMA ActiveIs ==
  ASSUME InputOK, NEW l, NEW o, Lists(l, o), NEW b \in Nat
  PROVE  ActiveBlock(l, b) <=> b < Firsts[E]
<1>1. PICK z \in Nat \ {0} : z = BlockSizeM  BY BlockIs
<1>2. E \in Nat /\ Starts(Firsts, Counts)  BY LocalIs, FirstsStart
<1>3. PICK f \in Nat : f = Firsts[E]  BY <1>2 DEF Starts
<1>4. l.block = z /\ l.post = z * f  BY <1>1, <1>3 DEF Lists
<1>5. ActiveBlock(l, b) <=> b * z < z * f  BY <1>4, Zenon DEF ActiveBlock
<1>6. b * z = z * b  OBVIOUS
<1>7. z * b < z * f <=> b < f  BY MulMonotone
<1>8. QED  BY <1>3, <1>5, <1>6, <1>7

\* An expert's blocks are one region.
LEMMA RegionOfExpert ==
  ASSUME InputOK, NEW l, NEW o, Lists(l, o), NEW e \in 0 .. E - 1,
         NEW b \in Nat, NEW c \in Nat, Firsts[e] <= b, b <= c, c < Firsts[e + 1]
  PROVE  Region(l, b) = Region(l, c)
<1>1. E \in Nat /\ Starts(Firsts, Counts) /\ e + 1 \in 0 .. E /\ e \in 0 .. E
      /\ E \in 0 .. E /\ e + 1 <= E
  BY LocalIs, FirstsStart
<1>2. /\ Firsts[e] \in Nat /\ Firsts[e + 1] \in Nat /\ Firsts[E] \in Nat
      /\ Firsts[e + 1] <= Firsts[E]
  BY <1>1, StartsRise DEF Starts
<1>3. SUFFICES ASSUME NEW a \in b + 1 .. c PROVE ~RegionStarts(l, a)
  BY RegionRises
<1>4. a \in Nat /\ a - 1 \in Nat /\ (a - 1) + 1 = a /\ a # 0
      /\ Firsts[e] <= a - 1 /\ a - 1 < Firsts[e + 1] /\ Firsts[e] <= a /\ a < Firsts[e + 1]
      /\ a < Firsts[E] /\ a - 1 < Firsts[E]
  BY <1>2
<1>5. l.experts[a + 1] = e /\ l.experts[(a - 1) + 1] = e  BY <1>4 DEF Lists
<1>6. ActiveBlock(l, a) /\ ActiveBlock(l, a - 1)  BY <1>4, ActiveIs
<1>7. QED  BY <1>4, <1>5, <1>6 DEF RegionStarts

\* The blocks of another expert are a later one,
LEMMA RegionLater ==
  ASSUME InputOK, NEW l, NEW o, Lists(l, o),
         NEW e \in 0 .. E - 1, NEW b \in Nat, Firsts[e] <= b, b < Firsts[e + 1],
         NEW f \in 0 .. E - 1, NEW c \in Nat, Firsts[f] <= c, c < Firsts[f + 1],
         b <= c, e # f
  PROVE  Region(l, b) < Region(l, c)
<1>1. E \in Nat /\ Starts(Firsts, Counts) /\ f + 1 \in 0 .. E /\ f \in 0 .. E
      /\ E \in 0 .. E /\ f + 1 <= E
  BY LocalIs, FirstsStart
<1>2. PICK a \in Nat : a = Firsts[f]  BY <1>1 DEF Starts
<1>3. b < a
  <2>1. SUFFICES ASSUME a <= b PROVE FALSE  BY <1>2
  <2>2. Firsts[f + 1] \in Nat  BY <1>1 DEF Starts
  <2>3. b < Firsts[f + 1]  BY <2>2
  <2>4. QED  BY <1>1, <1>2, <2>1, <2>3, OwnerOnce
<1>4. a - 1 \in Nat /\ (a - 1) + 1 = a /\ a - 1 < a /\ a # 0  BY <1>2, <1>3
<1>5. Firsts[f + 1] <= Firsts[E] /\ Firsts[f + 1] \in Nat /\ Firsts[E] \in Nat
  BY <1>1, StartsRise DEF Starts
<1>6. a - 1 < Firsts[E]  BY <1>2, <1>4, <1>5
<1>7. PICK g \in 0 .. E - 1 : Firsts[g] <= a - 1 /\ a - 1 < Firsts[g + 1]
  BY <1>1, <1>4, <1>6, OwnerExists
<1>8. l.experts[a] = g
  <2>1. l.experts[(a - 1) + 1] = g  BY <1>4, <1>7 DEF Lists
  <2>2. QED  BY <1>4, <2>1
<1>9. l.experts[a + 1] = f
  <2>1. Firsts[f] <= a /\ a < Firsts[f + 1]  BY <1>2, <1>5
  <2>2. QED  BY <2>1 DEF Lists
<1>10. g # f  BY <1>2, <1>4, <1>7
<1>11. RegionStarts(l, a)  BY <1>8, <1>9, <1>10 DEF RegionStarts
<1>12. a \in b + 1 .. c  BY <1>2, <1>3
<1>13. QED  BY <1>11, <1>12, RegionRises

\* ... and so is the tail.
LEMMA RegionTail ==
  ASSUME InputOK, NEW l, NEW o, Lists(l, o),
         NEW b \in Nat, b < Firsts[E], NEW c \in Nat, Firsts[E] <= c
  PROVE  Region(l, b) < Region(l, c)
<1>1. E \in Nat /\ Starts(Firsts, Counts)  BY LocalIs, FirstsStart
<1>2. PICK a \in Nat : a = Firsts[E]  BY <1>1 DEF Starts
<1>3. a - 1 \in Nat /\ a # 0 /\ a \in b + 1 .. c /\ b <= c /\ ~(a < Firsts[E]) /\ a - 1 < Firsts[E]
  BY <1>2
<1>4. ~ActiveBlock(l, a)  BY <1>3, ActiveIs
<1>5. ActiveBlock(l, a - 1)  BY <1>3, ActiveIs
<1>6. RegionStarts(l, a)  BY <1>4, <1>5 DEF RegionStarts
<1>7. QED  BY <1>3, <1>6, RegionRises
-----------------------------------------------------------------------------
(* The sort. *)

\* The slots in S by key, those of one key by place.
KeyLess(key, a, b) == key[a] < key[b] \/ (key[a] = key[b] /\ a < b)
KeyOrder(key, S) == {p \in S \X S : KeyLess(key, p[1], p[2])}
KeyPlaces(key, S) == [x \in S |-> Cardinality({y \in S : KeyLess(key, y, x)}) + 1]
Sorted(key, S) == ByPlace(KeyPlaces(key, S), S)

LEMMA SortedIs ==
  ASSUME NEW S \in SUBSET Nat, IsFiniteSet(S), NEW key \in [S -> Nat]
  PROVE  /\ StrictOrder(KeyOrder(key, S), S)
         /\ InSequence(Sorted(key, S), S, KeyOrder(key, S))
<1>1. \A x, y \in S : <<x, y>> \in KeyOrder(key, S) <=> KeyLess(key, x, y)
  BY DEF KeyOrder
<1>2. StrictOrder(KeyOrder(key, S), S)
  <2>1. \A x \in S : ~KeyLess(key, x, x)  BY DEF KeyLess
  <2>2. \A x, y \in S : x # y => KeyLess(key, x, y) \/ KeyLess(key, y, x)
    BY DEF KeyLess
  <2>3. \A x, y, z \in S : KeyLess(key, x, y) /\ KeyLess(key, y, z) => KeyLess(key, x, z)
    BY DEF KeyLess
  <2>4. QED  BY <1>1, <2>1, <2>2, <2>3, Zenon DEF StrictOrder
<1>3. KeyPlaces(key, S) = [x \in S |-> Place(x, S, KeyOrder(key, S))]
  <2>1. \A x \in S : {y \in S : KeyLess(key, y, x)} = {y \in S : <<y, x>> \in KeyOrder(key, S)}
    BY <1>1
  <2>2. \A x \in S : Cardinality({y \in S : KeyLess(key, y, x)}) + 1
                       = Place(x, S, KeyOrder(key, S))
    BY <2>1, Zenon DEF Place
  <2>3. QED  BY <2>2, Zenon DEF KeyPlaces
<1>4. InSequence(Sorted(key, S), S, KeyOrder(key, S))
  <2>1. PICK place : place = KeyPlaces(key, S)  OBVIOUS
  <2>2. InSequence(ByPlace(place, S), S, KeyOrder(key, S))
    BY <1>2, <1>3, <2>1, SortByPlace, Zenon
  <2>3. QED  BY <2>1, <2>2, Zenon DEF Sorted
<1>5. QED  BY <1>2, <1>4

\* The sort's keys.
Keys(l) == [s \in 0 .. Len(l.ids) - 1 |-> SortKey(l, s)]
SlotSet(l) == 0 .. Len(l.ids) - 1

LEMMA CanonicalIs ==
  ASSUME NEW l
  PROVE  Canonical(l) = [l EXCEPT !.ids = [i \in DOMAIN Sorted(Keys(l), SlotSet(l)) |->
                           l.ids[Sorted(Keys(l), SlotSet(l))[i] + 1]]]
<1>1. DOMAIN Keys(l) = SlotSet(l)  BY DEF Keys, SlotSet
<1>2. Canonical(l) = [l EXCEPT !.ids =
          [i \in DOMAIN Sorted(Keys(l), DOMAIN Keys(l)) |->
             l.ids[Sorted(Keys(l), DOMAIN Keys(l))[i] + 1]]]
  BY Zenon DEF Canonical, InOrder, Sorted, ByPlace, KeyPlaces, KeyLess, Keys
<1>3. QED  BY <1>1, <1>2, Zenon

\* From slot x, listed in order o, a row moves to slot i, in order p.  Padding and
\* the tail stay.
Moves(o, p, i, x) ==
    \/ \E e, k, j : /\ At(i, e, k) /\ k \in DOMAIN p[e]
                    /\ At(x, e, j) /\ j \in DOMAIN o[e] /\ o[e][j] = p[e][k]
    \/ \E e, k : At(i, e, k) /\ k \notin DOMAIN p[e] /\ x = i
    \/ i \in Nat /\ BlockSizeM * Firsts[E] < i /\ x = i

LEMMA MovesBack ==
  ASSUME InputOK, NEW o, NEW p, OrderOK(o), OrderOK(p), NEW i, NEW x, Moves(o, p, i, x)
  PROVE  Moves(p, o, x, i)
<1>1. \A e \in 0 .. E - 1 : DOMAIN o[e] = DOMAIN p[e]
  <2>1. SUFFICES ASSUME NEW e \in 0 .. E - 1 PROVE DOMAIN o[e] = DOMAIN p[e]
    OBVIOUS
  <2>2. DOMAIN o[e] = 1 .. Cardinality(RowsOf(e))  BY OrderIs, Zenon
  <2>3. DOMAIN p[e] = 1 .. Cardinality(RowsOf(e))  BY OrderIs, Zenon
  <2>4. QED  BY <2>2, <2>3
<1>2. \A e, k : At(i, e, k) => e \in 0 .. E - 1  BY DEF At
<1>3. QED  BY <1>1, <1>2, Zenon DEF Moves

\* An expert's rows have their slots.
LEMMA AtRows ==
  ASSUME InputOK, NEW e \in 0 .. E - 1, NEW j \in 1 .. Cardinality(RowsOf(e))
  PROVE  \E x : At(x, e, j)
<1>1. PICK z \in Nat \ {0} : z = BlockSizeM  BY BlockIs
<1>2. E \in Nat /\ Firsts[e] \in Nat  BY LocalIs, FirstsStart DEF Starts
<1>3. PICK n \in Nat : n = Cardinality(RowsOf(e))  BY RowsAre
<1>4. Counts[e] = CeilDiv(n, z)  BY <1>1, <1>3, BlocksAre DEF Counts
<1>5. n <= z * Counts[e] /\ z * Counts[e] \in Nat  BY <1>1, <1>3, <1>4, CeilIs
<1>6. j \in Nat /\ 1 <= j /\ j <= BlockSizeM * Counts[e]  BY <1>1, <1>3, <1>5
<1>7. QED  BY <1>6, Zenon DEF At

LEMMA MovesExist ==
  ASSUME InputOK, NEW o, NEW p, OrderOK(o), OrderOK(p), NEW i \in Nat, 1 <= i
  PROVE  \E x : Moves(o, p, i, x)
<1>1. CASE i <= BlockSizeM * Firsts[E]
  <2>1. PICK e, k : At(i, e, k)  BY <1>1, AtExists
  <2>2. e \in 0 .. E - 1  BY <2>1 DEF At
  <2>3. CASE k \in DOMAIN p[e]
    <3>1. p[e][k] \in RowsOf(e)
      <4>1. {p[e][m] : m \in DOMAIN p[e]} = RowsOf(e)  BY <2>2, OrderIs
      <4>2. QED  BY <2>3, <4>1
    <3>2. {o[e][m] : m \in DOMAIN o[e]} = RowsOf(e)
          /\ DOMAIN o[e] = 1 .. Cardinality(RowsOf(e))
      BY <2>2, OrderIs
    <3>3. PICK j \in DOMAIN o[e] : o[e][j] = p[e][k]  BY <3>1, <3>2
    <3>4. PICK x : At(x, e, j)  BY <2>2, <3>2, <3>3, AtRows
    <3>5. QED  BY <2>1, <2>3, <3>3, <3>4, Zenon DEF Moves
  <2>4. CASE k \notin DOMAIN p[e]  BY <2>1, <2>4, Zenon DEF Moves
  <2>5. QED  BY <2>3, <2>4
<1>2. CASE ~(i <= BlockSizeM * Firsts[E])
  <2>1. PICK z \in Nat : z = BlockSizeM * Firsts[E]
    <3>1. E \in Nat /\ Firsts[E] \in Nat /\ BlockSizeM \in Nat
      BY LocalIs, FirstsStart, BlockIs DEF Starts
    <3>2. QED  BY <3>1
  <2>2. BlockSizeM * Firsts[E] < i  BY <1>2, <2>1
  <2>3. QED  BY <2>2, Zenon DEF Moves
<1>3. QED  BY <1>1, <1>2

LEMMA MovesOnce ==
  ASSUME InputOK, NEW o, NEW p, OrderOK(o), OrderOK(p),
         NEW i, NEW x, Moves(o, p, i, x), NEW y, Moves(o, p, i, y)
  PROVE  x = y
<1>1. PICK z \in Nat : z = BlockSizeM * Firsts[E]
  <2>1. E \in Nat /\ Firsts[E] \in Nat /\ BlockSizeM \in Nat
    BY LocalIs, FirstsStart, BlockIs DEF Starts
  <2>2. QED  BY <2>1
<1>2. CASE i \in Nat /\ BlockSizeM * Firsts[E] < i
  <2>1. \A e, k : ~At(i, e, k)
    <3>1. SUFFICES ASSUME NEW e, NEW k, At(i, e, k) PROVE FALSE
      OBVIOUS
    <3>2. i <= BlockSizeM * Firsts[E]  BY <3>1, AtIs, Zenon
    <3>3. QED  BY <1>1, <1>2, <3>2
  <2>2. QED  BY <2>1, Zenon DEF Moves
<1>3. CASE ~(i \in Nat /\ BlockSizeM * Firsts[E] < i)
  <2>1. PICK e, k : At(i, e, k)  BY <1>3, Zenon DEF Moves
  <2>2. e \in 0 .. E - 1 /\ \A f, j : At(i, f, j) => f = e /\ j = k
    BY <2>1, AtOnce, Zenon DEF At
  <2>3. CASE k \notin DOMAIN p[e]  BY <1>3, <2>2, <2>3, Zenon DEF Moves
  <2>4. CASE k \in DOMAIN p[e]
    <3>a. ASSUME NEW v, Moves(o, p, i, v)
          PROVE  \E j : At(v, e, j) /\ j \in DOMAIN o[e] /\ o[e][j] = p[e][k]
      <4>1. ~(\E f, m : At(i, f, m) /\ m \notin DOMAIN p[f] /\ v = i)
        BY <2>2, <2>4, Zenon
      <4>2. PICK f, m, j : /\ At(i, f, m) /\ m \in DOMAIN p[f]
                           /\ At(v, f, j) /\ j \in DOMAIN o[f] /\ o[f][j] = p[f][m]
        BY <1>3, <3>a, <4>1, Zenon DEF Moves
      <4>3. f = e /\ m = k  BY <2>2, <4>2, Zenon
      <4>4. QED  BY <4>2, <4>3, Zenon
    <3>1. PICK j : At(x, e, j) /\ j \in DOMAIN o[e] /\ o[e][j] = p[e][k]
      BY <3>a, Zenon
    <3>2. PICK m : At(y, e, m) /\ m \in DOMAIN o[e] /\ o[e][m] = p[e][k]
      BY <3>a, Zenon
    <3>3. \A a, b \in DOMAIN o[e] : a # b => o[e][a] # o[e][b]  BY <2>2, OrderIs
    <3>4. j = m  BY <3>1, <3>2, <3>3
    <3>5. QED  BY <3>1, <3>2, <3>4, Zenon DEF At
  <2>5. QED  BY <2>3, <2>4
<1>4. QED  BY <1>2, <1>3
\* What a slot gets.
LEMMA MovedIs ==
  ASSUME InputOK, NEW o, NEW p, OrderOK(o), OrderOK(p), NEW l, Lists(l, o),
         NEW i, NEW e, NEW k, At(i, e, k), NEW x, Moves(o, p, i, x)
  PROVE  /\ l.ids[x] = Listed(p, e, k)
         /\ \E j : At(x, e, j)
         /\ k \notin DOMAIN p[e] => x = i
<1>1. e \in 0 .. E - 1 /\ \A f, j : At(i, f, j) => f = e /\ j = k
  BY AtOnce, Zenon DEF At
<1>2. ~(i \in Nat /\ BlockSizeM * Firsts[E] < i)
  <2>1. PICK z \in Nat : z = BlockSizeM * Firsts[E]
    <3>1. E \in Nat /\ Firsts[E] \in Nat /\ BlockSizeM \in Nat
      BY LocalIs, FirstsStart, BlockIs DEF Starts
    <3>2. QED  BY <3>1
  <2>2. i <= BlockSizeM * Firsts[E]  BY AtIs, Zenon
  <2>3. QED  BY <2>1, <2>2
<1>3. \A y, j : At(y, e, j) => l.ids[y] = Listed(o, e, j)  BY Zenon DEF Lists
<1>4. CASE k \in DOMAIN p[e]
  <2>1. ~(\E f, m : At(i, f, m) /\ m \notin DOMAIN p[f] /\ x = i)
    BY <1>1, <1>4, Zenon
  <2>2. PICK f, m, j : /\ At(i, f, m) /\ m \in DOMAIN p[f]
                       /\ At(x, f, j) /\ j \in DOMAIN o[f] /\ o[f][j] = p[f][m]
    BY <1>2, <2>1, Zenon DEF Moves
  <2>3. f = e /\ m = k  BY <1>1, <2>2, Zenon
  <2>4. At(x, e, j) /\ j \in DOMAIN o[e] /\ o[e][j] = p[e][k]  BY <2>2, <2>3, Zenon
  <2>5. l.ids[x] = o[e][j]  BY <1>3, <2>4, Zenon DEF Listed
  <2>6. QED  BY <1>4, <2>4, <2>5, Zenon DEF Listed
<1>5. CASE k \notin DOMAIN p[e]
  <2>1. ~(\E f, m, j : At(i, f, m) /\ m \in DOMAIN p[f]
                       /\ At(x, f, j) /\ j \in DOMAIN o[f] /\ o[f][j] = p[f][m])
    BY <1>1, <1>5, Zenon
  <2>2. x = i  BY <1>2, <2>1, Zenon DEF Moves
  <2>3. DOMAIN o[e] = DOMAIN p[e]
    <3>1. DOMAIN o[e] = 1 .. Cardinality(RowsOf(e))  BY <1>1, OrderIs, Zenon
    <3>2. DOMAIN p[e] = 1 .. Cardinality(RowsOf(e))  BY <1>1, OrderIs, Zenon
    <3>3. QED  BY <3>1, <3>2
  <2>4. Listed(o, e, k) = Listed(p, e, k)  BY <1>5, <2>3, Zenon DEF Listed
  <2>5. l.ids[i] = Listed(o, e, k)  BY <1>3, Zenon
  <2>6. QED  BY <2>2, <2>4, <2>5, Zenon
<1>6. QED  BY <1>4, <1>5

\* The tail stays.
LEMMA TailStays ==
  ASSUME InputOK, NEW o, NEW p, NEW i \in Nat, NEW x, Moves(o, p, i, x),
         BlockSizeM * Firsts[E] < i
  PROVE  x = i
<1>1. PICK z \in Nat : z = BlockSizeM * Firsts[E]
  <2>1. E \in Nat /\ Firsts[E] \in Nat /\ BlockSizeM \in Nat
    BY LocalIs, FirstsStart, BlockIs DEF Starts
  <2>2. QED  BY <2>1
<1>2. \A e, k : ~At(i, e, k)
  <2>1. SUFFICES ASSUME NEW e, NEW k, At(i, e, k) PROVE FALSE
    OBVIOUS
  <2>2. i <= BlockSizeM * Firsts[E]  BY <2>1, AtIs, Zenon
  <2>3. QED  BY <1>1, <2>2
<1>3. QED  BY <1>2, Zenon DEF Moves

\* Two keys, by their regions and then by their ids.
LEMMA KeysCompare ==
  ASSUME NEW u \in Nat, NEW r \in Nat, NEW s \in Nat, NEW a \in 0 .. u, NEW b \in 0 .. u
  PROVE  /\ r * (u + 1) + a \in Nat
         /\ r < s => r * (u + 1) + a < s * (u + 1) + b
         /\ r <= s /\ a <= b => r * (u + 1) + a <= s * (u + 1) + b
         /\ r = s /\ a < b => r * (u + 1) + a < s * (u + 1) + b
<1>1. PICK v \in Nat \ {0} : v = u + 1  OBVIOUS
<1>2. r * v = v * r /\ s * v = v * s /\ v * r \in Nat /\ v * s \in Nat
  OBVIOUS
<1>3. v * (r + 1) = v * r + v  OBVIOUS
<1>4. r <= s => v * r <= v * s  BY MulMonotone
<1>5. r < s => v * (r + 1) <= v * s
  <2>1. r < s => r + 1 <= s  OBVIOUS
  <2>2. QED  BY <2>1, MulMonotone
<1>6. QED  BY <1>1, <1>2, <1>3, <1>4, <1>5

\* Slots of different experts lie as the experts do.
LEMMA AtRises ==
  ASSUME InputOK, NEW i, NEW e, NEW k, At(i, e, k), NEW j, NEW f, NEW m, At(j, f, m), i < j
  PROVE  e <= f /\ (e = f => k < m)
<1>1. PICK z \in Nat \ {0} : z = BlockSizeM  BY BlockIs
<1>2. E \in Nat /\ Starts(Firsts, Counts)  BY LocalIs, FirstsStart
<1>3. /\ e \in 0 .. E - 1 /\ k \in Nat /\ i = z * Firsts[e] + k /\ 1 <= k
      /\ f \in 0 .. E - 1 /\ m \in Nat /\ j = z * Firsts[f] + m /\ m <= z * Counts[f]
  BY <1>1 DEF At
<1>a. PICK a \in Nat : Firsts[e] = a  BY <1>2, <1>3 DEF Starts
<1>4. PICK b \in Nat, c \in Nat : Firsts[f] = b /\ Counts[f] = c /\ Firsts[f + 1] = b + c
  <2>1. Firsts[f] \in Nat /\ Counts[f] \in Nat  BY <1>2, <1>3 DEF Starts
  <2>2. Firsts[f + 1] = Firsts[f] + Counts[f]  BY <1>2, <1>3 DEF Starts
  <2>3. QED  BY <2>1, <2>2
<1>5. ~(f + 1 <= e)
  <2>1. SUFFICES ASSUME f + 1 <= e PROVE FALSE
    OBVIOUS
  <2>2. f + 1 \in 0 .. E /\ e \in 0 .. E  BY <1>2, <1>3
  <2>3. b + c <= a  BY <1>2, <1>a, <1>4, <2>1, <2>2, StartsRise
  <2>4. z * (b + c) <= z * a  BY <2>3, MulMonotone
  <2>5. z * (b + c) = z * b + z * c /\ z * b \in Nat /\ z * c \in Nat /\ z * a \in Nat
    OBVIOUS
  <2>6. QED  BY <1>3, <1>a, <1>4, <2>4, <2>5
<1>6. e <= f  BY <1>2, <1>3, <1>5
<1>7. e = f => k < m
  <2>1. z * a \in Nat /\ z * b \in Nat  OBVIOUS
  <2>2. QED  BY <1>3, <1>a, <1>4, <2>1
<1>8. QED  BY <1>6, <1>7
LEMMA DivRises ==
  ASSUME NEW z \in Nat \ {0}, NEW a \in Nat, NEW b \in Nat
  PROVE  /\ a \div z \in Nat /\ b \div z \in Nat
         /\ a <= b => a \div z <= b \div z
         /\ \A f \in Nat : z * f <= b => f <= b \div z
<1>1. PICK q \in Nat, r \in 0 .. z - 1 :
        a \div z = q /\ a % z = r /\ a = z * q + r /\ z * q \in Nat
  BY Divide, Zenon
<1>2. PICK s \in Nat, t \in 0 .. z - 1 :
        b \div z = s /\ b % z = t /\ b = z * s + t /\ z * s \in Nat
  BY Divide, Zenon
<1>3. ASSUME NEW f \in Nat, z * f <= b PROVE f <= s
  <2>1. z * (s + 1) = z * s + z /\ z * f \in Nat  OBVIOUS
  <2>2. z * f < z * (s + 1)  BY <1>2, <1>3, <2>1
  <2>3. f < s + 1  BY <2>2, MulMonotone
  <2>4. QED  BY <2>3
<1>4. a <= b => q <= s
  <2>1. a <= b => z * q <= b  BY <1>1, <1>2
  <2>2. QED  BY <1>3, <2>1
<1>5. QED  BY <1>1, <1>2, <1>3, <1>4

\* The part of a slot's key below its region.
KeyId(l, s) == IF s < l.post THEN l.ids[s + 1] ELSE 0

LEMMA KeysAre ==
  ASSUME InputOK, NEW l, NEW o, OrderOK(o), Lists(l, o)
  PROVE  /\ SlotSet(l) \in SUBSET Nat /\ IsFiniteSet(SlotSet(l))
         /\ Cardinality(SlotSet(l)) = Len(l.ids)
         /\ Keys(l) \in [SlotSet(l) -> Nat]
         /\ \A s \in SlotSet(l) :
              /\ Keys(l)[s] = Region(l, s \div BlockSizeM) * (Numel + 1) + KeyId(l, s)
              /\ KeyId(l, s) \in 0 .. Numel /\ s \in Nat
              /\ s \div BlockSizeM \in Nat /\ Region(l, s \div BlockSizeM) \in Nat
<1>1. PICK z \in Nat \ {0} : z = BlockSizeM  BY BlockIs
<1>2. PICK f \in Nat : f = Firsts[E]
  BY LocalIs, FirstsStart DEF Starts
<1>3. l.block = z /\ l.post = z * f  BY <1>1, <1>2 DEF Lists
<1>4. PICK n \in Nat : Len(l.ids) = n /\ SlotSet(l) = 0 .. n - 1
  BY DEF Lists, SlotSet
<1>5. IsFiniteSet(0 .. n - 1) /\ Cardinality(0 .. n - 1) = n  BY <1>4, FS_Interval
<1>6. PICK u \in Nat : u = Numel  BY RowIs
<1>7. ASSUME NEW s \in 0 .. n - 1 PROVE KeyId(l, s) \in 0 .. u
  <2>1. CASE ~(s < z * f)  BY <1>3, <1>6, <2>1 DEF KeyId
  <2>2. CASE s < z * f
    <3>1. s + 1 \in Nat /\ 1 <= s + 1 /\ s + 1 <= z * f
      <4>1. z * f \in Nat  OBVIOUS
      <4>2. QED  BY <2>2, <4>1
    <3>2. PICK e, k : At(s + 1, e, k)  BY <1>1, <1>2, <3>1, AtExists
    <3>3. l.ids[s + 1] = Listed(o, e, k)  BY <3>2, Zenon DEF Lists
    <3>4. Listed(o, e, k) \in 0 .. u  BY <1>6, <3>2, OrderIs DEF At
    <3>5. QED  BY <1>3, <2>2, <3>3, <3>4 DEF KeyId
  <2>3. QED  BY <2>1, <2>2
<1>8. ASSUME NEW s \in 0 .. n - 1
      PROVE  /\ Keys(l)[s] = Region(l, s \div z) * (u + 1) + KeyId(l, s)
             /\ s \in Nat /\ s \div z \in Nat /\ Region(l, s \div z) \in Nat
             /\ Keys(l)[s] \in Nat
  <2>1. s \in Nat /\ s \div z \in Nat  BY DivRises
  <2>2. Region(l, s \div z) \in Nat  BY <2>1, RegionRises
  <2>3. Keys(l)[s] = Region(l, s \div z) * (u + 1) + KeyId(l, s)
    <3>1. s \in SlotSet(l)  BY <1>4
    <3>2. Keys(l)[s] = SortKey(l, s)  BY <3>1 DEF Keys, SlotSet
    <3>3. QED  BY <1>3, <1>6, <3>2, Zenon DEF SortKey, KeyId
  <2>4. QED  BY <1>6, <1>7, <2>1, <2>2, <2>3, KeysCompare
<1>9. Keys(l) \in [0 .. n - 1 -> Nat]
  <2>1. Keys(l) = [s \in 0 .. n - 1 |-> SortKey(l, s)]  BY <1>4, Zenon DEF Keys, SlotSet
  <2>2. \A s \in 0 .. n - 1 : Keys(l)[s] = SortKey(l, s)  BY <2>1
  <2>3. QED  BY <1>8, <2>1, <2>2
<1>10. QED  BY <1>1, <1>4, <1>5, <1>6, <1>7, <1>8, <1>9

\* Slots in their sorted place come in the order of the keys.
LEMMA MovesSort ==
  ASSUME InputOK, NEW l, NEW o, OrderOK(o), Lists(l, o),
         NEW i \in 1 .. Len(l.ids), NEW x \in 1 .. Len(l.ids), Moves(o, Asc, i, x),
         NEW j \in 1 .. Len(l.ids), NEW y \in 1 .. Len(l.ids), Moves(o, Asc, j, y), i < j
  PROVE  KeyLess(Keys(l), x - 1, y - 1)
<1>1. PICK z \in Nat \ {0} : z = BlockSizeM  BY BlockIs
<1>2. E \in Nat /\ Starts(Firsts, Counts) /\ OrderOK(Asc)
  BY LocalIs, FirstsStart, AscIs
<1>3. PICK f \in Nat : f = Firsts[E]  BY <1>2 DEF Starts
<1>4. PICK n \in Nat : Len(l.ids) = n /\ SlotSet(l) = 0 .. n - 1 /\ z * f <= n
  BY <1>1, <1>3 DEF Lists, SlotSet
<1>5. PICK u \in Nat : u = Numel  BY RowIs
<1>6. z * f \in Nat /\ l.post = z * f  BY <1>1, <1>3 DEF Lists
<1>7. ASSUME NEW v \in 1 .. n
      PROVE  /\ Keys(l)[v - 1] = Region(l, (v - 1) \div z) * (u + 1) + KeyId(l, v - 1)
             /\ KeyId(l, v - 1) \in 0 .. u /\ v - 1 \in Nat
             /\ (v - 1) \div z \in Nat /\ Region(l, (v - 1) \div z) \in Nat
             /\ Keys(l)[v - 1] \in Nat
             /\ v <= z * f => KeyId(l, v - 1) = l.ids[v]
             /\ z * f < v => KeyId(l, v - 1) = 0
  <2>1. v - 1 \in SlotSet(l) /\ (v - 1) + 1 = v  BY <1>4
  <2>2. v <= z * f <=> v - 1 < l.post  BY <1>6
  <2>3. /\ Keys(l)[v - 1] = Region(l, (v - 1) \div z) * (u + 1) + KeyId(l, v - 1)
        /\ KeyId(l, v - 1) \in 0 .. u /\ v - 1 \in Nat
        /\ (v - 1) \div z \in Nat /\ Region(l, (v - 1) \div z) \in Nat
        /\ Keys(l)[v - 1] \in Nat
    BY <1>1, <1>5, <2>1, KeysAre, Zenon
  <2>4. /\ v <= z * f => KeyId(l, v - 1) = l.ids[v]
        /\ z * f < v => KeyId(l, v - 1) = 0
    BY <1>6, <2>1, <2>2 DEF KeyId
  <2>5. QED  BY <2>3, <2>4
<1>8. \A v \in 1 .. n : v \in Nat /\ 1 <= v  OBVIOUS
<1> DEFINE less == KeyLess(Keys(l), x - 1, y - 1)
<1>9. /\ Region(l, (x - 1) \div z) < Region(l, (y - 1) \div z) => less
      /\ Region(l, (x - 1) \div z) = Region(l, (y - 1) \div z)
           /\ KeyId(l, x - 1) < KeyId(l, y - 1) => less
      /\ Region(l, (x - 1) \div z) <= Region(l, (y - 1) \div z)
           /\ KeyId(l, x - 1) = KeyId(l, y - 1) /\ x < y => less
  <2>1. PICK r \in Nat, a \in 0 .. u :
          r = Region(l, (x - 1) \div z) /\ a = KeyId(l, x - 1) /\ Keys(l)[x - 1] = r * (u + 1) + a
    BY <1>4, <1>7
  <2>2. PICK s \in Nat, b \in 0 .. u :
          s = Region(l, (y - 1) \div z) /\ b = KeyId(l, y - 1) /\ Keys(l)[y - 1] = s * (u + 1) + b
    BY <1>4, <1>7
  <2>a. /\ r < s => r * (u + 1) + a < s * (u + 1) + b
        /\ r <= s /\ a <= b => r * (u + 1) + a <= s * (u + 1) + b
        /\ r = s /\ a < b => r * (u + 1) + a < s * (u + 1) + b
    BY KeysCompare
  <2>3. r < s => Keys(l)[x - 1] < Keys(l)[y - 1]  BY <2>1, <2>2, <2>a, Zenon
  <2>4. r = s /\ a < b => Keys(l)[x - 1] < Keys(l)[y - 1]  BY <2>1, <2>2, <2>a, Zenon
  <2>5. r <= s /\ a <= b => Keys(l)[x - 1] <= Keys(l)[y - 1]  BY <2>1, <2>2, <2>a, Zenon
  <2>6. Keys(l)[x - 1] \in Nat /\ Keys(l)[y - 1] \in Nat  BY <1>4, <1>7
  <2>7. x < y => x - 1 < y - 1  BY <1>4
  <2>8. Keys(l)[x - 1] < Keys(l)[y - 1] => less  BY Zenon DEF KeyLess
  <2>9. Keys(l)[x - 1] <= Keys(l)[y - 1] /\ x < y => less
    BY <2>6, <2>7, <2>8 DEF KeyLess
  <2> HIDE DEF less
  <2>10. r < s => less  BY <2>3, <2>8, Zenon
  <2>11. r = s /\ a < b => less  BY <2>4, <2>8, Zenon
  <2>12. r <= s /\ a = b /\ x < y => less
    <3>1. a = b => a <= b  OBVIOUS
    <3>2. QED  BY <2>5, <2>9, <3>1, Zenon
  <2>13. QED  BY <2>1, <2>2, <2>10, <2>11, <2>12
<1> HIDE DEF less
<1>10. CASE j <= z * f
  <2>1. i <= z * f  BY <1>4, <1>10
  <2>2. PICK e, k : At(i, e, k)  BY <1>1, <1>3, <1>4, <1>8, <2>1, AtExists
  <2>3. PICK g, m : At(j, g, m)  BY <1>1, <1>3, <1>4, <1>8, <1>10, AtExists
  <2>4. /\ l.ids[x] = Listed(Asc, e, k) /\ \E h : At(x, e, h)
        /\ k \notin DOMAIN Asc[e] => x = i
    BY <1>2, <2>2, MovedIs
  <2>5. /\ l.ids[y] = Listed(Asc, g, m) /\ \E h : At(y, g, h)
        /\ m \notin DOMAIN Asc[g] => y = j
    BY <1>2, <2>3, MovedIs
  <2>6. e \in 0 .. E - 1 /\ g \in 0 .. E - 1 /\ k \in Nat /\ m \in Nat /\ 1 <= k
    BY <2>2, <2>3 DEF At
  <2>7. e <= g /\ (e = g => k < m)  BY <2>2, <2>3, AtRises
  <2>8. PICK b \in Nat : b = (x - 1) \div z /\ Firsts[e] <= b /\ b < Firsts[e + 1]
        /\ x <= z * f
    <3>1. PICK h : At(x, e, h)  BY <2>4
    <3>2. QED  BY <1>1, <1>3, <3>1, AtIs
  <2>9. PICK c \in Nat : c = (y - 1) \div z /\ Firsts[g] <= c /\ c < Firsts[g + 1]
        /\ y <= z * f
    <3>1. PICK h : At(y, g, h)  BY <2>5
    <3>2. QED  BY <1>1, <1>3, <3>1, AtIs
  <2>10. CASE e # g
    <3>1. e + 1 <= g /\ e + 1 \in 0 .. E /\ g \in 0 .. E  BY <1>2, <2>6, <2>7, <2>10
    <3>2. Firsts[e + 1] <= Firsts[g] /\ Firsts[e + 1] \in Nat /\ Firsts[g] \in Nat
      BY <1>2, <3>1, StartsRise DEF Starts
    <3>3. b <= c  BY <2>8, <2>9, <3>2
    <3>4. Region(l, b) < Region(l, c)  BY <2>6, <2>8, <2>9, <2>10, <3>3, RegionLater
    <3>5. less  BY <1>9, <2>8, <2>9, <3>4
    <3>6. QED  BY <3>5 DEF less
  <2>11. CASE e = g
    <3>1. Region(l, b) = Region(l, c)
      <4>1. CASE b <= c  BY <2>6, <2>8, <2>9, <2>11, <4>1, RegionOfExpert
      <4>2. CASE c <= b
        <5>1. Region(l, c) = Region(l, b)  BY <2>6, <2>8, <2>9, <2>11, <4>2, RegionOfExpert
        <5>2. QED  BY <5>1
      <4>3. QED  BY <2>8, <2>9, <4>1, <4>2
    <3>2. Region(l, b) \in Nat /\ Region(l, c) \in Nat
      BY <1>4, <1>7, <2>8, <2>9
    <3>3. KeyId(l, x - 1) = Listed(Asc, e, k) /\ KeyId(l, y - 1) = Listed(Asc, e, m)
      BY <1>4, <1>7, <2>4, <2>5, <2>8, <2>9, <2>11
    <3>4. DOMAIN Asc[e] = 1 .. Cardinality(RowsOf(e)) /\ Cardinality(RowsOf(e)) \in Nat
      <4>1. DOMAIN Asc[e] = 1 .. Cardinality(RowsOf(e))  BY <1>2, <2>6, OrderIs, Zenon
      <4>2. QED  BY <4>1, RowsAre
    <3>5. CASE m \in DOMAIN Asc[e]
      <4>1. k \in DOMAIN Asc[e]  BY <2>6, <2>7, <2>11, <3>4, <3>5
      <4>2. Asc[e][k] < Asc[e][m]  BY <2>6, <2>7, <2>11, <3>5, <4>1, AscIs
      <4>3. KeyId(l, x - 1) < KeyId(l, y - 1)  BY <3>3, <3>5, <4>1, <4>2 DEF Listed
      <4>4. less  BY <1>9, <2>8, <2>9, <3>1, <4>3
      <4>5. QED  BY <4>4 DEF less
    <3>6. CASE m \notin DOMAIN Asc[e] /\ k \in DOMAIN Asc[e]
      <4>1. Listed(Asc, e, k) < Numel  BY <1>2, <2>6, <3>6, OrderIs
      <4>2. Listed(Asc, e, m) = Numel  BY <3>6 DEF Listed
      <4>3. less  BY <1>9, <2>8, <2>9, <3>1, <3>3, <4>1, <4>2
      <4>4. QED  BY <4>3 DEF less
    <3>7. CASE m \notin DOMAIN Asc[e] /\ k \notin DOMAIN Asc[e]
      <4>1. x = i /\ y = j  BY <2>4, <2>5, <2>11, <3>7
      <4>2. KeyId(l, x - 1) = KeyId(l, y - 1)  BY <3>3, <3>7 DEF Listed
      <4>3. less  BY <1>9, <2>8, <2>9, <3>1, <3>2, <4>1, <4>2
      <4>4. QED  BY <4>3 DEF less
    <3>8. QED  BY <3>5, <3>6, <3>7
  <2>12. QED  BY <2>10, <2>11
<1>11. CASE ~(j <= z * f)
  <2>1. y = j /\ z * f < j
    <3>1. z * f < j /\ j \in Nat  BY <1>4, <1>6, <1>11
    <3>2. QED  BY <1>1, <1>3, <3>1, TailStays
  <2>2. PICK c \in Nat : c = (y - 1) \div z /\ f <= c
    <3>1. z * f <= y - 1 /\ y - 1 \in Nat  BY <1>4, <1>6, <2>1
    <3>2. QED  BY <3>1, DivRises
  <2>3. CASE i <= z * f
    <3>1. PICK e, k : At(i, e, k)  BY <1>1, <1>3, <1>4, <1>8, <2>3, AtExists
    <3>2. PICK h : At(x, e, h)  BY <1>2, <3>1, MovedIs
    <3>3. PICK b \in Nat : b = (x - 1) \div z /\ b < Firsts[e + 1]  BY <1>1, <3>2, AtIs
    <3>4. e + 1 \in 0 .. E /\ E \in 0 .. E /\ e + 1 <= E  BY <1>2, <3>1 DEF At
    <3>5. Firsts[e + 1] <= f /\ Firsts[e + 1] \in Nat  BY <1>2, <1>3, <3>4, StartsRise DEF Starts
    <3>6. b < f  BY <3>3, <3>5
    <3>7. Region(l, b) < Region(l, c)  BY <1>3, <2>2, <3>6, RegionTail
    <3>8. less  BY <1>9, <2>2, <3>3, <3>7
    <3>9. QED  BY <3>8 DEF less
  <2>4. CASE ~(i <= z * f)
    <3>1. x = i /\ z * f < i
      <4>1. z * f < i /\ i \in Nat  BY <1>4, <1>6, <2>4
      <4>2. QED  BY <1>1, <1>3, <4>1, TailStays
    <3>2. (x - 1) \div z \in Nat /\ (x - 1) \div z <= (y - 1) \div z
      <4>1. x - 1 \in Nat /\ y - 1 \in Nat /\ x - 1 <= y - 1  BY <1>4, <2>1, <3>1
      <4>2. QED  BY <4>1, DivRises
    <3>3. Region(l, (x - 1) \div z) <= Region(l, (y - 1) \div z)
      BY <2>2, <3>2, RegionRises
    <3>4. KeyId(l, x - 1) = 0 /\ KeyId(l, y - 1) = 0  BY <1>4, <1>7, <2>1, <3>1
    <3>5. less  BY <1>9, <2>1, <3>1, <3>3, <3>4
    <3>6. QED  BY <3>5 DEF less
  <2>5. QED  BY <2>3, <2>4
<1>12. QED  BY <1>10, <1>11
Source(o, i) == CHOOSE x : Moves(o, Asc, i, x)

\* The sort puts every expert's rows in ascending order, whatever order they had.
LEMMA CanonicalLists ==
  ASSUME InputOK, NEW l, NEW o, OrderOK(o), Lists(l, o)
  PROVE  Lists(Canonical(l), Asc)
<1>1. PICK z \in Nat \ {0} : z = BlockSizeM  BY BlockIs
<1>2. OrderOK(Asc)  BY AscIs
<1>3. PICK f \in Nat : f = Firsts[E]
  BY LocalIs, FirstsStart DEF Starts
<1>4. PICK n \in Nat : Len(l.ids) = n /\ DOMAIN l.ids = 1 .. n /\ z * f <= n
  BY <1>1, <1>3 DEF Lists
<1> DEFINE S == SlotSet(l)
           R == KeyOrder(Keys(l), S)
           q == [i \in 1 .. n |-> Source(o, i) - 1]
<1>5. S = 0 .. n - 1 /\ S \in SUBSET Nat /\ IsFiniteSet(S) /\ Cardinality(S) = n
      /\ Keys(l) \in [S -> Nat]
  BY <1>4, KeysAre DEF SlotSet
<1>6. z * f \in Nat  OBVIOUS
<1>7. ASSUME NEW p, NEW r, OrderOK(p), OrderOK(r), NEW i \in 1 .. n
      PROVE  \E x \in 1 .. n : Moves(p, r, i, x) /\ \A y : Moves(p, r, i, y) => y = x
  <2>1. i \in Nat /\ 1 <= i  OBVIOUS
  <2>2. PICK x : Moves(p, r, i, x)  BY <1>7, <2>1, MovesExist
  <2>3. \A y : Moves(p, r, i, y) => y = x  BY <1>7, <2>2, MovesOnce
  <2>4. x \in 1 .. n
    <3>1. CASE x = i  BY <3>1
    <3>2. CASE x # i
      <4>1. PICK e, k : At(x, e, k)  BY <2>2, <3>2, Zenon DEF Moves
      <4>2. x \in Nat /\ 1 <= x /\ x <= z * f  BY <1>1, <1>3, <4>1, AtIs
      <4>3. QED  BY <1>4, <1>6, <4>2
    <3>3. QED  BY <3>1, <3>2
  <2>5. QED  BY <2>2, <2>3, <2>4
<1>8. \A i \in 1 .. n : Moves(o, Asc, i, q[i] + 1) /\ q[i] + 1 \in 1 .. n /\ q[i] \in S
  <2>1. SUFFICES ASSUME NEW i \in 1 .. n
                 PROVE  Moves(o, Asc, i, q[i] + 1) /\ q[i] + 1 \in 1 .. n /\ q[i] \in S
    OBVIOUS
  <2>2. PICK x \in 1 .. n : Moves(o, Asc, i, x) /\ \A y : Moves(o, Asc, i, y) => y = x
    BY <1>2, <1>7
  <2>3. Source(o, i) = x  BY <2>2, Zenon DEF Source
  <2>4. q[i] = x - 1  BY <2>3
  <2> HIDE DEF q, S
  <2>5. q[i] + 1 = x  BY <2>4
  <2>6. QED  BY <1>5, <2>2, <2>4, <2>5
<1>9. q \in [1 .. n -> S]
  <2>1. q = [i \in 1 .. n |-> Source(o, i) - 1]  BY DEF q
  <2> HIDE DEF q, S
  <2>2. \A i \in 1 .. n : q[i] = Source(o, i) - 1  BY <2>1
  <2>3. QED  BY <1>8, <2>1, <2>2
<1> HIDE DEF q
<1>10. ASSUME NEW s \in S PROVE \E i \in 1 .. n : q[i] = s
  <2>1. s + 1 \in 1 .. n  BY <1>5
  <2>2. PICK i \in 1 .. n : Moves(Asc, o, s + 1, i)  BY <1>2, <1>7, <2>1
  <2>3. Moves(o, Asc, i, s + 1)  BY <1>2, <2>2, MovesBack
  <2>4. q[i] + 1 = s + 1  BY <1>2, <1>8, <2>3, MovesOnce
  <2>5. q[i] \in Nat /\ s \in Nat  BY <1>5, <1>9
  <2>6. QED  BY <2>4, <2>5
<1>11. ASSUME NEW i \in 1 .. n, NEW j \in 1 .. n, i < j PROVE <<q[i], q[j]>> \in R
  <2>1. PICK x \in 1 .. n, y \in 1 .. n : x = q[i] + 1 /\ y = q[j] + 1
    BY <1>8
  <2>2. Moves(o, Asc, i, x) /\ Moves(o, Asc, j, y)  BY <1>8, <2>1
  <2>3. KeyLess(Keys(l), x - 1, y - 1)  BY <1>4, <1>11, <2>2, MovesSort
  <2>4. q[i] \in S /\ q[j] \in S /\ q[i] \in Int /\ q[j] \in Int  BY <1>5, <1>9
  <2>5. x - 1 = q[i] /\ y - 1 = q[j]  BY <2>1, <2>4
  <2>6. KeyLess(Keys(l), q[i], q[j])  BY <2>3, <2>5
  <2>7. QED  BY <2>4, <2>6 DEF KeyOrder
<1>12. InSequence(q, S, R)
  <2>1. \A i, j \in 1 .. n : i # j => q[i] # q[j]
    <3>1. StrictOrder(R, S)  BY <1>5, SortedIs
    <3>2. \A x \in S : <<x, x>> \notin R  BY <3>1, Zenon DEF StrictOrder
    <3>3. SUFFICES ASSUME NEW i \in 1 .. n, NEW j \in 1 .. n, i # j, q[i] = q[j] PROVE FALSE
      OBVIOUS
    <3>4. i < j \/ j < i  BY <3>3
    <3>5. <<q[i], q[j]>> \in R \/ <<q[j], q[i]>> \in R  BY <1>11, <3>4
    <3>6. q[i] \in S  BY <1>9
    <3> HIDE DEF R
    <3>7. QED  BY <3>2, <3>3, <3>5, <3>6
  <2> HIDE DEF S, R
  <2>2. QED  BY <1>5, <1>9, <1>10, <1>11, <2>1 DEF InSequence
<1>13. Sorted(Keys(l), S) = q
  <2>1. StrictOrder(R, S) /\ InSequence(Sorted(Keys(l), S), S, R)  BY <1>5, SortedIs
  <2> HIDE DEF S, R
  <2>2. QED  BY <1>5, <1>12, <2>1, OneSequence
<1> DEFINE m == Canonical(l)
<1>14. m = [l EXCEPT !.ids = [i \in 1 .. n |-> l.ids[q[i] + 1]]]
  <2>1. m = [l EXCEPT !.ids = [i \in DOMAIN q |-> l.ids[q[i] + 1]]]
    BY <1>13, CanonicalIs
  <2>2. DOMAIN q = 1 .. n  BY <1>9
  <2>3. QED  BY <2>1, <2>2
<1> HIDE DEF m<1>15. PICK ids, experts, post, block :
         l = [ids |-> ids, experts |-> experts, post |-> post, block |-> block]
  BY Zenon DEF Lists
<1>16. m = [ids |-> [i \in 1 .. n |-> l.ids[q[i] + 1]],
            experts |-> l.experts, post |-> l.post, block |-> l.block]
  BY <1>14, <1>15
<1>17. ASSUME NEW i, NEW e, NEW k, At(i, e, k) PROVE m.ids[i] = Listed(Asc, e, k)
  <2>1. i \in Nat /\ 1 <= i /\ i <= z * f  BY <1>1, <1>3, <1>17, AtIs
  <2>2. i \in 1 .. n  BY <1>4, <1>6, <2>1
  <2>3. PICK x \in 1 .. n : x = q[i] + 1 /\ Moves(o, Asc, i, x)  BY <1>8, <2>2
  <2>4. l.ids[x] = Listed(Asc, e, k)  BY <1>2, <1>17, <2>3, MovedIs
  <2>5. m.ids[i] = l.ids[x]  BY <1>16, <2>2, <2>3
  <2>6. QED  BY <2>4, <2>5
<1>18. Lists(m, Asc)
  <2>1. m.block = BlockSizeM /\ m.post = BlockSizeM * Firsts[E] /\ m.experts = l.experts
    BY <1>16 DEF Lists
  <2>2. DOMAIN m.ids = 1 .. n /\ Len(m.ids) = n /\ m.post <= n
    BY <1>1, <1>3, <1>4, <1>16, <2>1
  <2>3. \E a, b, c, d : m = [ids |-> a, experts |-> b, post |-> c, block |-> d]
    BY <1>16, Zenon
  <2>4. \A e \in 0 .. E - 1, b \in Nat :
          Firsts[e] <= b /\ b < Firsts[e + 1] => m.experts[b + 1] = e
    BY <2>1, Zenon DEF Lists
  <2>5. \E h \in Nat : DOMAIN m.ids = 1 .. h /\ Len(m.ids) = h /\ m.post <= h
    BY <1>4, <2>2, Zenon
  <2>6. QED  BY <1>17, <2>1, <2>3, <2>4, <2>5, Zenon DEF Lists
<1>19. QED  BY <1>18 DEF m
-----------------------------------------------------------------------------
(* When there is nothing to sort. *)

LEMMA OrdersAre ==
  ASSUME InputOK, NEW o \in Orders
  PROVE  OrderOK(o) /\ (call.batched => o = Asc)
<1>1. CASE call.batched
  <2>1. o = Asc  BY <1>1, Zenon DEF Orders, Asc
  <2>2. QED  BY <2>1, AscIs
<1>2. CASE ~call.batched
  <2>1. \A e \in 0 .. E - 1 : o[e] \in SetToSeqs(RowsOf(e))  BY <1>2 DEF Orders
  <2>2. QED  BY <1>2, <2>1 DEF OrderOK
<1>3. QED  BY <1>1, <1>2

\* A single token has one row per expert.
LEMMA OneRow ==
  ASSUME InputOK, ~call.batched, M = 1, NEW e \in 0 .. E - 1,
         NEW i \in RowsOf(e), NEW j \in RowsOf(e)
  PROVE  i = j
<1>1. PICK k \in Nat \ {0} : k = call.topk  BY CallIs
<1>2. topk_ids[1] \in Chosen(k) /\ Numel = 1 * k  BY <1>1, TokensAre
<1>3. ASSUME NEW r \in RowsOf(e)
      PROVE  r \in 0 .. k - 1 /\ ExpertMap[topk_ids[1][r + 1]] = e
  <2>1. r \in Nat /\ r < k /\ ExpertOf(r) = e  BY <1>2, RowIs DEF RowsOf
  <2>2. k * 0 + r = r /\ r \in 0 .. k - 1  BY <2>1
  <2>3. r \div k = 0 /\ r % k = r
    <3>1. (k * 0 + r) \div k = 0 /\ (k * 0 + r) % k = r  BY <2>2, DivIs
    <3>2. QED  BY <2>2, <3>1
  <2>4. ExpertOf(r) = ExpertMap[topk_ids[r \div k + 1][(r % k) + 1]]
    BY <1>1 DEF ExpertOf
  <2>5. r \div k + 1 = 1  BY <2>3
  <2>6. QED  BY <2>1, <2>2, <2>3, <2>4, <2>5
<1>4. i \in 0 .. k - 1 /\ ExpertMap[topk_ids[1][i + 1]] = e
      /\ j \in 0 .. k - 1 /\ ExpertMap[topk_ids[1][j + 1]] = e
  BY <1>3
<1>5. i + 1 \in 1 .. k /\ j + 1 \in 1 .. k  BY <1>4
<1>6. /\ topk_ids[1] \in [1 .. k -> 0 .. GlobalExperts - 1]
      /\ \A a, b \in 1 .. k : topk_ids[1][a] = topk_ids[1][b] => a = b
  BY <1>2 DEF Chosen
<1>7. topk_ids[1][i + 1] = topk_ids[1][j + 1]
  <2>1. topk_ids[1][i + 1] \in 0 .. GlobalExperts - 1
        /\ topk_ids[1][j + 1] \in 0 .. GlobalExperts - 1
    BY <1>5, <1>6
  <2>2. e # -1  BY LocalIs
  <2>3. QED  BY <1>4, <2>1, <2>2, MapAssumption
<1>8. i + 1 = j + 1  BY <1>5, <1>6, <1>7
<1>9. QED  BY <1>4, <1>8

LEMMA NothingToSort ==
  ASSUME InputOK, NEW o \in Orders, ~Sorts, NEW e \in 0 .. E - 1
  PROVE  o[e] = Asc[e]
<1>1. CASE call.batched  BY <1>1, OrdersAre
<1>2. CASE ~call.batched
  <2>1. M = 1
    <3>1. M \in Nat \ {0}  BY <1>2, TokensAre
    <3>2. QED  BY <1>2, <3>1 DEF Sorts
  <2> DEFINE S == RowsOf(e)
  <2>2. IsFiniteSet(S) /\ o[e] \in SetToSeqs(S) /\ Asc[e] \in SetToSeqs(S)
    BY OrdersAre, AscIs, RowsAre DEF OrderOK
  <2>3. \A i, j \in S : i = j  BY <1>2, <2>1, OneRow
  <2>4. o[e] \in [1 .. Cardinality(S) -> S] /\ Asc[e] \in [1 .. Cardinality(S) -> S]
    <3> HIDE DEF S
    <3>1. QED  BY <2>2 DEF SetToSeqs
  <2>5. \A i \in 1 .. Cardinality(S) : o[e][i] = Asc[e][i]  BY <2>3, <2>4
  <2>6. PICK a, b : a = o[e] /\ b = Asc[e]  OBVIOUS
  <2> HIDE DEF S
  <2>7. a = [i \in 1 .. Cardinality(S) |-> a[i]] /\ b = [i \in 1 .. Cardinality(S) |-> b[i]]
    BY <2>4, <2>6
  <2>8. a = b  BY <2>5, <2>6, <2>7
  <2>9. QED  BY <2>6, <2>8
<1>3. QED  BY <1>1, <1>2

\* The orders of the experts' rows are all that Lists tells apart.
LEMMA ListsSame ==
  ASSUME NEW l, NEW o, NEW p, \A e \in 0 .. E - 1 : o[e] = p[e], Lists(l, o)
  PROVE  Lists(l, p)
<1>1. \A k : \A e \in 0 .. E - 1 : Listed(o, e, k) = Listed(p, e, k)  BY Zenon DEF Listed
<1>2. \A i, e, k : At(i, e, k) => l.ids[i] = Listed(p, e, k)
  <2>1. \A i, e, k : At(i, e, k) => e \in 0 .. E - 1  BY Zenon DEF At
  <2>2. \A i, e, k : At(i, e, k) => l.ids[i] = Listed(o, e, k)  BY Zenon DEF Lists
  <2>3. QED  BY <1>1, <2>1, <2>2, Zenon
<1>3. QED  BY <1>2, Zenon DEF Lists

-----------------------------------------------------------------------------
(* What depends on the call alone stays with it. *)

LEMMA SameRows ==
  ASSUME UNCHANGED inputs
  PROVE  /\ call' = call /\ capacity' = capacity /\ expert_num_tokens' = expert_num_tokens
         /\ topk_ids' = topk_ids
         /\ M' = M /\ Numel' = Numel /\ Pairs' = Pairs /\ LocalPairs' = LocalPairs
         /\ \A i : ExpertOf(i)' = ExpertOf(i)
         /\ \A e : RowsOf(e)' = RowsOf(e)
         /\ BlockSizeM' = BlockSizeM
         /\ Sorts' = Sorts /\ InputOK' = InputOK
<1>1. /\ call' = call /\ capacity' = capacity /\ expert_num_tokens' = expert_num_tokens
      /\ topk_ids' = topk_ids
  BY DEF inputs
<1>2. M' = M  BY <1>1 DEF M
<1>3. Numel' = Numel  BY <1>1, <1>2 DEF Numel
<1>4. Pairs' = Pairs  BY <1>3 DEF Pairs
<1>5. \A i : ExpertOf(i)' = ExpertOf(i)  BY <1>1 DEF ExpertOf
<1>6. \A e : RowsOf(e)' = RowsOf(e)  BY <1>4, <1>5 DEF RowsOf
<1>7. LocalPairs' = LocalPairs  BY <1>4, <1>5 DEF LocalPairs
<1>8. StandardBlock' = StandardBlock  BY <1>1, <1>2 DEF StandardBlock
<1>9. BatchedBlock' = BatchedBlock  BY <1>1 DEF BatchedBlock
<1>10. BlockSizeM' = BlockSizeM  BY <1>1, <1>8, <1>9 DEF BlockSizeM
<1>11. Sorts' = Sorts  BY <1>1, <1>2 DEF Sorts
<1>12. InputOK' = InputOK  BY <1>1 DEF InputOK
<1>13. QED  BY <1>1, <1>2, <1>3, <1>4, <1>5, <1>6, <1>7, <1>10, <1>11, <1>12

LEMMA SameBlocks ==
  ASSUME UNCHANGED inputs
  PROVE  /\ \A e : BlocksOf(e)' = BlocksOf(e) /\ FirstBlockOf(e)' = FirstBlockOf(e)
         /\ Firsts' = Firsts /\ Counts' = Counts /\ Asc' = Asc
         /\ \A i, e, k : At(i, e, k)' = At(i, e, k)
         /\ \A o, e, k : Listed(o, e, k)' = Listed(o, e, k)
<1>1. \A e : BlocksOf(e)' = BlocksOf(e)  BY SameRows DEF BlocksOf
<1>2. \A e : FirstBlockOf(e)' = FirstBlockOf(e)  BY <1>1 DEF FirstBlockOf
<1>3. Firsts' = Firsts /\ Counts' = Counts  BY <1>1, <1>2 DEF Firsts, Counts
<1>4. Asc' = Asc  BY SameRows DEF Asc
<1>5. \A i, e, k : At(i, e, k)' = At(i, e, k)  BY <1>3, SameRows DEF At
<1>6. \A o, e, k : Listed(o, e, k)' = Listed(o, e, k)  BY SameRows DEF Listed
<1>7. QED  BY <1>1, <1>2, <1>3, <1>4, <1>5, <1>6

LEMMA SameLists ==
  ASSUME UNCHANGED inputs
  PROVE  \A l, o : Lists(l, o) => Lists(l, o)'
<1>1. /\ BlockSizeM' = BlockSizeM /\ Firsts' = Firsts
      /\ \A i, e, k : At(i, e, k)' = At(i, e, k)
      /\ \A o, e, k : Listed(o, e, k)' = Listed(o, e, k)
  BY SameRows, SameBlocks
<1>2. SUFFICES ASSUME NEW l, NEW o, Lists(l, o) PROVE Lists(l, o)'
  OBVIOUS
<1>3. (BlockSizeM * Firsts[E])' = BlockSizeM * Firsts[E]  BY <1>1
<1>4. \A i, e, k : At(i, e, k)' => l.ids[i] = Listed(o, e, k)'
  BY <1>1, <1>2, Zenon DEF Lists
<1>5. \A e \in 0 .. E - 1, b \in Nat :
        Firsts'[e] <= b /\ b < Firsts'[e + 1] => l.experts[b + 1] = e
  BY <1>1, <1>2, Zenon DEF Lists
<1>6. /\ \E ids, experts, post, block :
           l = [ids |-> ids, experts |-> experts, post |-> post, block |-> block]
      /\ l.block = BlockSizeM' /\ l.post = (BlockSizeM * Firsts[E])'
      /\ \E n \in Nat : DOMAIN l.ids = 1 .. n /\ Len(l.ids) = n /\ l.post <= n
  BY <1>1, <1>2, <1>3, Zenon DEF Lists
<1>7. QED  BY <1>4, <1>5, <1>6, Zenon DEF Lists
-----------------------------------------------------------------------------
(* The layout. *)

Phases == {"idle", "align", "canonicalize", "w13", "activation", "w2", "lora", "sum", "return"}

\* Before the sort the rows lie in some order, after it in ascending order.
LayoutInv ==
    /\ phase \in Phases
    /\ phase # "idle" => InputOK
    /\ phase = "canonicalize" => \E o : OrderOK(o) /\ Lists(layout, o)
    /\ Laid => Lists(layout, Asc)

LEMMA ListsCanonical ==
  ASSUME InputOK, Lists(layout, Asc)
  PROVE  CanonicalLayout
<1>1. PICK z \in Nat \ {0} : z = BlockSizeM  BY BlockIs
<1>2. E \in Nat /\ Starts(Firsts, Counts)  BY LocalIs, FirstsStart
<1>3. \A e \in 0 .. E : FirstBlockOf(e) = Firsts[e] /\ Firsts[e] \in Nat
  BY <1>2 DEF Starts, Firsts
<1>4. layout.post = FirstBlockOf(E) * z
  <2>1. layout.post = z * Firsts[E] /\ Firsts[E] \in Nat /\ FirstBlockOf(E) = Firsts[E]
    BY <1>1, <1>2, <1>3 DEF Lists
  <2>2. PICK f \in Nat : f = Firsts[E]  BY <2>1
  <2>3. z * f = f * z  OBVIOUS
  <2>4. QED  BY <2>1, <2>2, <2>3
<1>5. ASSUME NEW e \in 0 .. E - 1, NEW k \in 1 .. BlocksOf(e) * z
      PROVE  layout.ids[FirstBlockOf(e) * z + k] = CanonicalRow(e, k)
  <2>1. PICK f \in Nat : f = Firsts[e] /\ f = FirstBlockOf(e)  BY <1>2, <1>3
  <2>2. PICK c \in Nat : c = BlocksOf(e) /\ c = Counts[e]  BY BlocksAre DEF Counts
  <2>3. z * f = f * z /\ z * c = c * z /\ z * c \in Nat  OBVIOUS
  <2>4. At(f * z + k, e, k)
    <3>1. k \in Nat /\ 1 <= k /\ k <= z * c  BY <2>2, <2>3
    <3>2. QED  BY <1>1, <2>1, <2>2, <2>3, <3>1 DEF At
  <2>5. layout.ids[f * z + k] = Listed(Asc, e, k)  BY <2>4, Zenon DEF Lists
  <2>6. Asc[e] = Ascending(RowsOf(e))  BY DEF Asc
  <2>7. Listed(Asc, e, k) = CanonicalRow(e, k)  BY <2>6, Zenon DEF Listed, CanonicalRow
  <2>8. QED  BY <2>1, <2>5, <2>7
<1>6. ASSUME NEW e \in 0 .. E - 1, NEW b \in 1 .. BlocksOf(e)
      PROVE  layout.experts[FirstBlockOf(e) + b] = e
  <2>1. PICK f \in Nat : f = Firsts[e] /\ f = FirstBlockOf(e)  BY <1>2, <1>3
  <2>2. PICK c \in Nat : c = BlocksOf(e) /\ c = Counts[e]  BY BlocksAre DEF Counts
  <2>3. Firsts[e + 1] = f + c  BY <1>2, <2>1, <2>2 DEF Starts
  <2>4. PICK a \in Nat : a = f + b - 1 /\ a + 1 = f + b /\ f <= a /\ a < f + c
    BY <2>2
  <2>5. layout.experts[a + 1] = e  BY <2>1, <2>3, <2>4, Zenon DEF Lists
  <2>6. QED  BY <2>1, <2>4, <2>5
<1>7. QED  BY <1>1, <1>4, <1>5, <1>6 DEF CanonicalLayout

LEMMA LayoutStep ==
  ASSUME LayoutInv, [Next]_vars
  PROVE  LayoutInv'
<1> USE DEF Laid
<1>1. CASE StandardCall
  <2>1. phase' = "align" /\ call' \in CallKinds /\ ~call'.batched  BY <1>1 DEF StandardCall
  <2>2. \E m \in Nat \ {0} : topk_ids' \in [1 .. m -> Chosen(call'.topk)]
    <3>1. MaxTokens \in Nat  BY MoEAssumption
    <3>2. QED  BY <1>1, <3>1 DEF StandardCall
  <2>3. InputOK'  BY <2>1, <2>2 DEF InputOK
  <2>4. QED  BY <2>1, <2>3 DEF LayoutInv, Phases
<1>2. CASE BatchedCall
  <2>1. /\ phase' = "align" /\ call' \in CallKinds /\ call'.batched
        /\ capacity' \in 1 .. MaxTokens /\ expert_num_tokens' \in [0 .. E - 1 -> 0 .. capacity']
    BY <1>2 DEF BatchedCall
  <2>2. capacity' \in Nat \ {0}
    <3>1. MaxTokens \in Nat  BY MoEAssumption
    <3>2. QED  BY <2>1, <3>1
  <2>3. InputOK'  BY <2>1, <2>2 DEF InputOK
  <2>4. QED  BY <2>1, <2>3 DEF LayoutInv, Phases
<1>3. CASE Align
  <2>1. UNCHANGED inputs /\ phase = "align"  BY <1>3 DEF Align
  <2>2. InputOK /\ InputOK'  BY <2>1, SameRows DEF LayoutInv
  <2>3. PICK o, junkId, junkExpert : o \in Orders /\ layout' = Aligned(o, junkId, junkExpert)
    BY <1>3 DEF Align
  <2>4. OrderOK(o) /\ Lists(layout', o)  BY <2>2, <2>3, OrdersAre, AlignedLists
  <2>5. CASE Sorts
    <3>1. phase' = "canonicalize"  BY <1>3, <2>5 DEF Align
    <3>2. OrderOK(o)'  BY <2>1, <2>4, SameRows DEF OrderOK
    <3>3. Lists(layout, o)'  BY <2>1, <2>4, SameLists
    <3>4. QED  BY <2>2, <3>1, <3>2, <3>3 DEF LayoutInv, Phases
  <2>6. CASE ~Sorts
    <3>1. phase' = "w13"  BY <1>3, <2>6 DEF Align
    <3>2. \A e \in 0 .. E - 1 : o[e] = Asc[e]  BY <2>2, <2>3, <2>6, NothingToSort
    <3>3. Lists(layout', Asc)  BY <2>4, <3>2, ListsSame
    <3>4. Lists(layout, Asc)'  BY <2>1, <3>3, SameLists, SameBlocks
    <3>5. QED  BY <2>2, <3>1, <3>4 DEF LayoutInv, Phases
  <2>7. QED  BY <2>5, <2>6
<1>4. CASE Canonicalize
  <2>1. UNCHANGED inputs /\ phase = "canonicalize" /\ phase' = "w13"
        /\ layout' = Canonical(layout)
    BY <1>4 DEF Canonicalize
  <2>2. InputOK /\ InputOK'  BY <2>1, SameRows DEF LayoutInv
  <2>3. PICK o : OrderOK(o) /\ Lists(layout, o)  BY <2>1 DEF LayoutInv
  <2>4. Lists(layout', Asc)  BY <2>1, <2>2, <2>3, CanonicalLists
  <2>5. Lists(layout, Asc)'  BY <2>1, <2>4, SameLists, SameBlocks
  <2>6. QED  BY <2>1, <2>2, <2>5 DEF LayoutInv, Phases
<1>5. CASE Return
  <2>1. phase' = "idle"  BY <1>5 DEF Return
  <2>2. QED  BY <2>1 DEF LayoutInv, Phases
<1>6. ASSUME UNCHANGED <<inputs, layout>>,
             phase' = phase \/ (phase \in {"w13", "activation", "w2", "lora", "sum", "return"}
                                /\ phase' \in {"activation", "w2", "lora", "sum", "return"})
      PROVE  LayoutInv'
  <2>1. UNCHANGED inputs /\ layout' = layout  BY <1>6
  <2>2. phase # "idle" => InputOK'  BY <2>1, SameRows DEF LayoutInv
  <2>3. phase' # "idle" => InputOK'  BY <1>6, <2>2
  <2>4. Lists(layout, Asc) => Lists(layout, Asc)'  BY <2>1, SameLists, SameBlocks
  <2>5. phase = "canonicalize" => \E o : OrderOK(o)' /\ Lists(layout, o)'
    <3>1. \A o : OrderOK(o) => OrderOK(o)'  BY <2>1, SameRows DEF OrderOK
    <3>2. \A o : Lists(layout, o) => Lists(layout, o)'  BY <2>1, SameLists
    <3>3. QED  BY <3>1, <3>2, Zenon DEF LayoutInv
  <2>6. phase' \in Phases  BY <1>6 DEF LayoutInv, Phases
  <2>7. Laid' => Lists(layout, Asc)'  BY <1>6, <2>4 DEF LayoutInv
  <2>8. phase' = "canonicalize" => \E o : OrderOK(o)' /\ Lists(layout, o)'
    BY <1>6, <2>5
  <2>9. QED  BY <2>3, <2>6, <2>7, <2>8 DEF LayoutInv
<1>7. CASE W13  BY <1>6, <1>7 DEF W13
<1>8. CASE Activation  BY <1>6, <1>8 DEF Activation
<1>9. CASE \E b \in Blocks : W2(b)  BY <1>6, <1>9 DEF W2
<1>10. CASE W2Done  BY <1>6, <1>10 DEF W2Done
<1>11. CASE LoraW2  BY <1>6, <1>11 DEF LoraW2
<1>12. CASE \E t \in 0 .. MaxTokens - 1 : MoeSum(t)  BY <1>6, <1>12 DEF MoeSum
<1>13. CASE UNCHANGED vars  BY <1>6, <1>13 DEF vars
<1>14. QED
  BY <1>1, <1>2, <1>3, <1>4, <1>5, <1>7, <1>8, <1>9, <1>10, <1>11, <1>12, <1>13 DEF Next

\* What the kernel is given depends on the routing alone: the rows of each local
\* expert in ascending order, whatever order an aligner's atomics placed them in
\* and whatever lay in the tail of its buffer.
THEOREM LayoutAlwaysCanonical == Spec => []CanonicalLayout
<1>1. Init => LayoutInv  BY DEF Init, LayoutInv, Laid, Phases
<1>2. LayoutInv /\ [Next]_vars => LayoutInv'  BY LayoutStep
<1>3. LayoutInv => CanonicalLayout
  <2>1. ASSUME LayoutInv, Laid PROVE CanonicalLayout
    <3>1. InputOK /\ Lists(layout, Asc)  BY <2>1 DEF LayoutInv, Laid
    <3>2. QED  BY <3>1, ListsCanonical
  <2>2. ~Laid => CanonicalLayout  BY DEF CanonicalLayout
  <2>3. QED  BY <2>1, <2>2
<1>4. QED  BY <1>1, <1>2, <1>3, PTL DEF Spec
-----------------------------------------------------------------------------
(* The kernel's view: each row in one block. *)

\* Block b holds row i.
InBlock(b, i) == b \in Blocks /\ i \in RowsIn(b)

LEMMA BlocksIs ==
  ASSUME InputOK, Lists(layout, Asc)
  PROVE  \A b : b \in Blocks <=> b \in Nat /\ b < Firsts[E]
<1>1. PICK z \in Nat \ {0} : z = BlockSizeM  BY BlockIs
<1>2. PICK f \in Nat : f = Firsts[E]  BY LocalIs, FirstsStart DEF Starts
<1>3. layout.block = z /\ layout.post = z * f  BY <1>1, <1>2 DEF Lists
<1>4. (z * f) \div z = f
  <2>1. 0 \in 0 .. z - 1 /\ z * f + 0 = z * f  OBVIOUS
  <2>2. (z * f + 0) \div z = f  BY <2>1, DivIs
  <2>3. QED  BY <2>1, <2>2
<1>5. Blocks = 0 .. f - 1  BY <1>3, <1>4 DEF Blocks
<1>6. QED  BY <1>2, <1>5

\* Block b, the c-th of expert e's, holds rows of the expert's n, from the z * c-th.
Dealt(z, e, b, c, n) ==
    \E v \in 1 .. z : /\ z * c + v <= n /\ (v = z \/ z * c + v = n)
                      /\ ValidIn(b) = v
                      /\ RowsIn(b) = {Asc[e][z * c + j] : j \in 1 .. v}

\* A block of expert e holds the next rows of the expert, as many as it has room for.
LEMMA BlockRows ==
  ASSUME InputOK, Lists(layout, Asc), NEW z \in Nat \ {0}, z = BlockSizeM,
         NEW e \in 0 .. E - 1, NEW b \in Nat, Firsts[e] <= b, b < Firsts[e + 1],
         NEW c \in Nat, c = b - Firsts[e], NEW n \in Nat, n = Cardinality(RowsOf(e))
  PROVE  Dealt(z, e, b, c, n)
<1>1. E \in Nat /\ Starts(Firsts, Counts) /\ OrderOK(Asc)
  BY LocalIs, FirstsStart, AscIs
<1>2. PICK f \in Nat : Firsts[e] = f /\ b = f + c
  BY <1>1 DEF Starts
<1>3. PICK m \in Nat : Counts[e] = m /\ Firsts[e + 1] = f + m /\ m = CeilDiv(n, z)
  <2>1. Counts[e] = CeilDiv(n, z)  BY BlocksAre DEF Counts
  <2>2. Counts[e] \in Nat /\ Firsts[e + 1] = f + Counts[e]  BY <1>1, <1>2 DEF Starts
  <2>3. QED  BY <2>1, <2>2
<1>4. c < m  BY <1>2, <1>3
<1>5. z * c \in Nat /\ z * m \in Nat /\ z * f \in Nat /\ z * b \in Nat /\ z * b = b * z
  OBVIOUS
<1>6. z * c < n
  <2>1. ~(n <= z * c)  BY <1>3, <1>4, CeilLeast
  <2>2. QED  BY <1>5, <2>1
<1>7. z * c + z <= z * m
  <2>1. z * (c + 1) <= z * m  BY <1>4, MulMonotone
  <2>2. z * (c + 1) = z * c + z  OBVIOUS
  <2>3. QED  BY <2>1, <2>2
<1>8. z * b = z * f + z * c  BY <1>2
<1>9. layout.block = z  BY DEF Lists
<1>10. DOMAIN Asc[e] = 1 .. n  BY <1>1, OrderIs
<1>11. PICK v \in 1 .. z : z * c + v <= n /\ (v = z \/ z * c + v = n)
  <2>1. CASE n <= z * c + z
    <3>1. PICK w \in 1 .. z : w = n - z * c  BY <1>5, <1>6, <2>1
    <3>2. z * c + w = n  BY <1>5, <3>1
    <3>3. QED  BY <3>2
  <2>2. CASE ~(n <= z * c + z)
    <3>1. z \in 1 .. z /\ z * c + z <= n  BY <1>5, <2>2
    <3>2. QED  BY <3>1
  <2>3. QED  BY <2>1, <2>2
<1>12. ASSUME NEW j \in 1 .. z
       PROVE  /\ layout.ids[z * b + j] = Listed(Asc, e, z * c + j)
              /\ (layout.ids[z * b + j] < Numel <=> j <= v)
              /\ j <= v => layout.ids[z * b + j] = Asc[e][z * c + j]
  <2>1. PICK k \in Nat : k = z * c + j  BY <1>5
  <2>2. 1 <= k /\ k <= z * m  BY <1>5, <1>7, <2>1
  <2>3. z * b + j = z * f + k  BY <1>5, <1>8, <2>1
  <2>4. At(z * b + j, e, k)  BY <1>2, <1>3, <2>2, <2>3 DEF At
  <2>5. layout.ids[z * b + j] = Listed(Asc, e, k)
    <3>1. PICK s : s = z * b + j  OBVIOUS
    <3>2. At(s, e, k)  BY <2>4, <3>1
    <3>3. layout.ids[s] = Listed(Asc, e, k)  BY <3>2, ListedAt
    <3>4. QED  BY <3>1, <3>3
  <2>6. k \in DOMAIN Asc[e] <=> j <= v
    <3>1. PICK p \in Nat : p = z * c  BY <1>5
    <3>2. k = p + j /\ p + v <= n /\ (v = z \/ p + v = n)  BY <1>11, <2>1, <3>1
    <3>3. j \in Nat /\ v \in Nat /\ j <= z /\ 1 <= j  OBVIOUS
    <3>4. k \in DOMAIN Asc[e] <=> 1 <= k /\ k <= n  BY <1>10, <2>1
    <3>5. QED  BY <3>1, <3>2, <3>3, <3>4
  <2>7. k \in DOMAIN Asc[e] => Listed(Asc, e, k) < Numel /\ Listed(Asc, e, k) = Asc[e][k]
    BY <1>1, OrderIs DEF Listed
  <2>8. k \notin DOMAIN Asc[e] => Listed(Asc, e, k) = Numel  BY DEF Listed
  <2>9. ~(Numel < Numel)  BY RowIs
  <2>10. QED  BY <2>1, <2>5, <2>6, <2>7, <2>8, <2>9
<1>13. PICK a \in Nat : a = z * b  BY <1>5
<1>14. {s \in Slots(b) : layout.ids[s + 1] < Numel} = a .. a + v - 1
  <2>1. (b + 1) * z = a + z
    <3>1. (b + 1) * z = b * z + z  OBVIOUS
    <3>2. QED  BY <1>5, <1>13, <3>1
  <2>2. Slots(b) = a .. a + z - 1  BY <1>5, <1>9, <1>13, <2>1 DEF Slots
  <2>3. ASSUME NEW s \in a .. a + z - 1 PROVE layout.ids[s + 1] < Numel <=> s <= a + v - 1
    <3>1. PICK j \in 1 .. z : j = s - a + 1  OBVIOUS
    <3>2. s + 1 = a + j  BY <3>1
    <3>3. layout.ids[a + j] < Numel <=> j <= v  BY <1>12, <1>13
    <3>4. j <= v <=> s <= a + v - 1  BY <3>1
    <3>5. QED  BY <3>2, <3>3, <3>4
  <2>4. \A s : s \in a .. a + v - 1 <=> s \in a .. a + z - 1 /\ s <= a + v - 1  BY <1>11
  <2>5. QED  BY <2>2, <2>3, <2>4
<1>15. ValidIn(b) = v
  <2>1. Cardinality(a .. a + v - 1) = v  BY <1>11, <1>13, FS_Interval
  <2>2. QED  BY <1>14, <2>1 DEF ValidIn
<1>16. RowsIn(b) = {Asc[e][z * c + j] : j \in 1 .. v}
  <2>1. \A j \in 1 .. v : layout.ids[b * layout.block + j] = Asc[e][z * c + j]
    <3>1. \A j \in 1 .. v : j \in 1 .. z /\ j <= v  BY <1>11
    <3>2. QED  BY <1>5, <1>9, <1>12, <3>1
  <2>2. RowsIn(b) = {layout.ids[b * layout.block + j] : j \in 1 .. v}
    BY <1>15 DEF RowsIn
  <2>3. QED  BY <2>1, <2>2
<1>17. QED  BY <1>11, <1>15, <1>16, Zenon DEF Dealt

\* A block belongs to one expert and holds rows of it alone.
LEMMA BlockOwns ==
  ASSUME InputOK, Lists(layout, Asc), NEW b, NEW i, InBlock(b, i)
  PROVE  /\ i \in LocalPairs /\ ExpertFor(b) = ExpertOf(i)
         /\ ExpertOf(i) \in 0 .. E - 1 /\ b \in Nat
         /\ Firsts[ExpertOf(i)] <= b /\ b < Firsts[ExpertOf(i) + 1]
<1>1. PICK z \in Nat \ {0} : z = BlockSizeM  BY BlockIs
<1>2. E \in Nat /\ Starts(Firsts, Counts) /\ OrderOK(Asc)
  BY LocalIs, FirstsStart, AscIs
<1>3. b \in Nat /\ b < Firsts[E]  BY BlocksIs DEF InBlock
<1>4. PICK e \in 0 .. E - 1 : Firsts[e] <= b /\ b < Firsts[e + 1]
  BY <1>2, <1>3, OwnerExists
<1>5. Firsts[e] \in Nat  BY <1>2, <1>4 DEF Starts
<1>6. PICK c \in Nat : c = b - Firsts[e]  BY <1>3, <1>4, <1>5
<1>7. PICK n \in Nat : n = Cardinality(RowsOf(e))  BY RowsAre
<1>8. PICK v \in 1 .. z : z * c + v <= n /\ RowsIn(b) = {Asc[e][z * c + j] : j \in 1 .. v}
  <2>1. Dealt(z, e, b, c, n)
    <3>1. b \in Nat /\ Firsts[e] <= b /\ b < Firsts[e + 1]  BY <1>3, <1>4
    <3>2. QED  BY <1>1, <1>6, <1>7, <3>1, BlockRows
  <2>2. QED  BY <2>1, Zenon DEF Dealt
<1>9. i \in RowsOf(e)
  <2>1. PICK j \in 1 .. v : i = Asc[e][z * c + j]  BY <1>8 DEF InBlock
  <2>2. z * c \in Nat  OBVIOUS
  <2>3. z * c + j \in 1 .. n  BY <1>8, <2>1, <2>2
  <2>4. DOMAIN Asc[e] = 1 .. n /\ {Asc[e][k] : k \in DOMAIN Asc[e]} = RowsOf(e)
    BY <1>2, <1>7, OrderIs
  <2>5. QED  BY <2>1, <2>3, <2>4
<1>10. ExpertOf(i) = e /\ i \in LocalPairs  BY <1>4, <1>9, RowsAre DEF RowsOf
<1>11. ExpertFor(b) = e  BY <1>3, <1>4, Zenon DEF Lists, ExpertFor
<1>12. QED  BY <1>3, <1>4, <1>10, <1>11

LEMMA BlockOnce ==
  ASSUME InputOK, Lists(layout, Asc), NEW i \in LocalPairs
  PROVE  /\ \E b : InBlock(b, i)
         /\ \A a, b : InBlock(a, i) /\ InBlock(b, i) => a = b
<1>1. PICK z \in Nat \ {0} : z = BlockSizeM  BY BlockIs
<1>2. E \in Nat /\ Starts(Firsts, Counts) /\ OrderOK(Asc)
  BY LocalIs, FirstsStart, AscIs
<1>3. PICK e \in 0 .. E - 1 : e = ExpertOf(i) /\ i \in RowsOf(e)  BY RowsAre
<1>4. PICK f \in Nat : f = Firsts[e]  BY <1>2, <1>3 DEF Starts
<1>5. PICK n \in Nat : n = Cardinality(RowsOf(e))  BY RowsAre
<1>6. PICK m \in Nat : Counts[e] = m /\ Firsts[e + 1] = f + m /\ m = CeilDiv(n, z)
  <2>1. Counts[e] = CeilDiv(n, z)  BY <1>1, <1>3, <1>5, BlocksAre DEF Counts
  <2>2. Counts[e] \in Nat /\ Firsts[e + 1] = f + Counts[e]  BY <1>2, <1>3, <1>4 DEF Starts
  <2>3. QED  BY <2>1, <2>2
<1>7. DOMAIN Asc[e] = 1 .. n /\ {Asc[e][k] : k \in DOMAIN Asc[e]} = RowsOf(e)
      /\ \A j, k \in DOMAIN Asc[e] : j # k => Asc[e][j] # Asc[e][k]
  BY <1>2, <1>3, <1>5, OrderIs
<1>8. PICK k \in 1 .. n : Asc[e][k] = i  BY <1>3, <1>7
<1>9. PICK h \in Nat : h = k - 1  BY <1>8
<1>10. PICK c \in Nat, r \in 0 .. z - 1 :
         h \div z = c /\ h % z = r /\ h = z * c + r /\ z * c \in Nat
  BY Divide, Zenon
<1>11. ASSUME NEW d \in Nat, d < m
       PROVE  \E v \in 1 .. z : /\ z * d + v <= n /\ (v = z \/ z * d + v = n)
                                /\ RowsIn(f + d) = {Asc[e][z * d + j] : j \in 1 .. v}
  <2>1. PICK b \in Nat : b = f + d /\ d = b - f /\ f <= b /\ b < f + m  BY <1>11
  <2>2. d = b - Firsts[e] /\ Firsts[e] <= b /\ b < Firsts[e + 1]  BY <1>4, <1>6, <2>1
  <2>3. Dealt(z, e, b, d, n)
    BY <1>1, <1>3, <1>5, <2>2, BlockRows
  <2>4. QED  BY <2>1, <2>3, Zenon DEF Dealt
<1>12. \E b : InBlock(b, i)
  <2>1. z * c < n  BY <1>8, <1>9, <1>10
  <2>2. n <= z * m /\ z * m \in Nat  BY <1>6, CeilIs
  <2>3. c < m
    <3>1. z * c < z * m  BY <1>10, <2>1, <2>2
    <3>2. QED  BY <3>1, MulMonotone
  <2>4. PICK v \in 1 .. z : /\ z * c + v <= n /\ (v = z \/ z * c + v = n)
                            /\ RowsIn(f + c) = {Asc[e][z * c + j] : j \in 1 .. v}
    BY <1>11, <2>3
  <2>5. r + 1 \in 1 .. v
    <3>1. PICK p \in Nat : p = z * c  BY <1>10
    <3>2. h = p + r /\ (v = z \/ p + v = n)  BY <1>10, <2>4, <3>1
    <3>3. QED  BY <1>8, <1>9, <3>1, <3>2
  <2>6. z * c + (r + 1) = k  BY <1>9, <1>10
  <2>7. i \in RowsIn(f + c)  BY <1>8, <2>4, <2>5, <2>6
  <2>8. e + 1 \in 0 .. E /\ E \in 0 .. E /\ e + 1 <= E  BY <1>2, <1>3
  <2>9. Firsts[e + 1] <= Firsts[E] /\ Firsts[E] \in Nat  BY <1>2, <2>8, StartsRise DEF Starts
  <2>10. f + c \in Nat /\ f + c < Firsts[E]  BY <1>6, <2>3, <2>9
  <2>11. f + c \in Blocks  BY <2>10, BlocksIs
  <2>12. QED  BY <2>7, <2>11 DEF InBlock
<1>13. ASSUME NEW b, InBlock(b, i) PROVE b = f + c
  <2>1. b \in Nat /\ f <= b /\ b < f + m  BY <1>3, <1>4, <1>6, <1>13, BlockOwns
  <2>2. PICK d \in Nat : b = f + d /\ d < m
    <3>1. b - f \in Nat /\ b = f + (b - f) /\ b - f < m  BY <2>1
    <3>2. QED  BY <3>1
  <2>3. PICK v \in 1 .. z : /\ z * d + v <= n
                            /\ RowsIn(b) = {Asc[e][z * d + j] : j \in 1 .. v}
    BY <1>11, <2>2
  <2>4. PICK j \in 1 .. v : i = Asc[e][z * d + j]  BY <1>13, <2>3 DEF InBlock
  <2>5. z * d \in Nat  OBVIOUS
  <2>6. z * d + j \in 1 .. n  BY <2>3, <2>4, <2>5
  <2>7. z * d + j = k  BY <1>7, <1>8, <2>4, <2>6
  <2>8. j - 1 \in 0 .. z - 1 /\ z * d + (j - 1) = h
    <3>1. PICK p \in Nat : p = z * d  BY <2>5
    <3>2. p + j = k /\ h = k - 1  BY <1>9, <2>7, <3>1
    <3>3. j - 1 \in 0 .. z - 1 /\ p + (j - 1) = h  BY <3>2
    <3>4. QED  BY <3>1, <3>3
  <2>9. h \div z = d  BY <2>8, DivIs
  <2>10. QED  BY <1>10, <2>2, <2>9
<1>14. QED  BY <1>12, <1>13
-----------------------------------------------------------------------------
(* Workspaces. *)

Cells(mem, width, r) == {mem[c] : c \in r * width .. (r + 1) * width - 1}

OfCells(cells) == IF Cardinality(cells) = 1 THEN CHOOSE v \in cells : TRUE ELSE Torn

LEMMA RowCells ==
  ASSUME NEW width \in Nat \ {0}, NEW r \in Nat
  PROVE  /\ r * width \in r * width .. (r + 1) * width - 1
         /\ (r + 1) * width \in Nat
         /\ \A c \in r * width .. (r + 1) * width - 1 :
              c \in Nat /\ c < (r + 1) * width /\ c \div width = r
<1>1. PICK a \in Nat : a = r * width /\ a = width * r  OBVIOUS
<1>2. (r + 1) * width = a + width
  <2>1. (r + 1) * width = r * width + width  OBVIOUS
  <2>2. QED  BY <1>1, <2>1
<1>3. ASSUME NEW c \in a .. a + width - 1 PROVE c \div width = r
  <2>1. PICK d \in 0 .. width - 1 : c = a + d
    <3>1. c - a \in 0 .. width - 1 /\ c = a + (c - a)  OBVIOUS
    <3>2. QED  BY <3>1
  <2>2. c = width * r + d  BY <1>1, <2>1
  <2>3. QED  BY <2>2, DivIs
<1>4. a \in a .. a + width - 1 /\ a + width \in Nat
      /\ \A c \in a .. a + width - 1 : c \in Nat /\ c < a + width
  OBVIOUS
<1>5. QED  BY <1>1, <1>2, <1>3, <1>4

LEMMA RowIsCell ==
  ASSUME NEW mem, NEW width, NEW r, NEW v, Cells(mem, width, r) = {v}
  PROVE  Row(mem, width, r) = v
<1>1. Cardinality(Cells(mem, width, r)) = 1  BY FS_Singleton
<1>2. Row(mem, width, r) = CHOOSE x \in Cells(mem, width, r) : TRUE
  BY <1>1, Zenon DEF Row, Cells
<1>3. QED  BY <1>2

\* A row that is written holds what was written, another row what it held.
LEMMA RowWritten ==
  ASSUME NEW width \in Nat \ {0}, NEW r \in Nat, NEW mem, NEW len \in Nat,
         DOMAIN mem = 0 .. len - 1, (r + 1) * width <= len, NEW rows
  PROVE  /\ DOMAIN Written(mem, width, rows) = 0 .. len - 1
         /\ r \in DOMAIN rows => Row(Written(mem, width, rows), width, r) = rows[r]
         /\ r \notin DOMAIN rows => Row(Written(mem, width, rows), width, r) = Row(mem, width, r)
<1> DEFINE I == r * width .. (r + 1) * width - 1
<1>1. PICK new : new = Written(mem, width, rows)  OBVIOUS
<1>2. new = [c \in 0 .. len - 1 |->
               IF c \div width \in DOMAIN rows THEN rows[c \div width] ELSE mem[c]]
  BY <1>1 DEF Written
<1>3. DOMAIN new = 0 .. len - 1  BY <1>2
<1>4. r * width \in I /\ \A c \in I : c \in 0 .. len - 1 /\ c \div width = r
  BY RowCells
<1> HIDE DEF I
<1>5. CASE r \in DOMAIN rows
  <2>1. \A c \in I : new[c] = rows[r]  BY <1>2, <1>4, <1>5
  <2>2. {new[c] : c \in I} = {rows[r]}  BY <1>4, <2>1
  <2>3. Row(new, width, r) = rows[r]  BY <2>2, RowIsCell DEF Cells, I
  <2>4. QED  BY <1>1, <1>3, <1>5, <2>3
<1>6. CASE r \notin DOMAIN rows
  <2>1. \A c \in I : new[c] = mem[c]  BY <1>2, <1>4, <1>6
  <2>2. {new[c] : c \in I} = {mem[c] : c \in I}  BY <2>1
  <2>a. Cells(new, width, r) = Cells(mem, width, r)  BY <2>2 DEF Cells, I
  <2>b. \A x : Row(x, width, r) = OfCells(Cells(x, width, r))
    BY Zenon DEF Row, Cells, OfCells
  <2>3. Row(new, width, r) = Row(mem, width, r)  BY <2>a, <2>b, Zenon
  <2>4. QED  BY <1>1, <1>3, <1>6, <2>3
<1>7. QED  BY <1>5, <1>6

\* The cells of workspace w.
LenOf(w) == IF call.batched THEN BatchedWorkspaces[w] ELSE StandardWorkspaces[w]

\* Workspace w has room for all rows of this width.
HasRoom(w, width) ==
    /\ w \in 1 .. 2 /\ width \in Nat \ {0} /\ LenOf(w) \in Nat
    /\ \A r \in Nat : r < Numel => (r + 1) * width <= LenOf(w)

LEMMA FitsIs ==
  ASSUME InputOK, NEW w \in 1 .. 2, NEW width \in Nat \ {0}, NEW widest \in Nat,
         width <= widest, LenOf(w) = Numel * widest
  PROVE  HasRoom(w, width)
<1>1. PICK u \in Nat : u = Numel  BY RowIs
<1>2. u * widest \in Nat  OBVIOUS
<1>3. ASSUME NEW r \in Nat, r < u PROVE (r + 1) * width <= u * widest
  <2>1. PICK s \in Nat \ {0} : s = r + 1 /\ s <= u  BY <1>3
  <2>2. s * width <= s * widest  BY MulMonotone
  <2>3. widest * s <= widest * u
    <3>1. widest \in Nat \ {0}  OBVIOUS
    <3>2. QED  BY <2>1, <3>1, MulMonotone
  <2>4. s * widest = widest * s /\ u * widest = widest * u
        /\ s * width \in Nat /\ s * widest \in Nat /\ u * widest \in Nat
    OBVIOUS
  <2>5. QED  BY <2>1, <2>2, <2>3, <2>4
<1>4. QED  BY <1>1, <1>2, <1>3 DEF HasRoom

LEMMA WorkspacesFit ==
  ASSUME InputOK
  PROVE  /\ Cache2 \in 1 .. 2 /\ Cache13 \in 1 .. 2 /\ Cache2 # Cache13
         /\ call.batched => Cache13 = 1 /\ W2Out = 1
         /\ ~call.batched => Cache2 = 1 /\ Cache13 = 2 /\ W2Out = 2
         /\ W2Out = Cache13
         /\ LenOf(1) \in Nat /\ LenOf(2) \in Nat
         /\ HasRoom(Cache13, 2 * N) /\ HasRoom(Cache13, K) /\ HasRoom(Cache2, N)
         /\ ~call.batched => HasRoom(1, K)
<1>1. N \in Nat \ {0} /\ K \in Nat \ {0} /\ 2 * N \in Nat \ {0}  BY MoEAssumption
<1>2. PICK u \in Nat : u = Numel  BY RowIs
<1>3. PICK a \in Nat : a = Larger(N, K) /\ N <= a /\ K <= a  BY <1>1 DEF Larger
<1>4. PICK b \in Nat : b = Larger(2 * N, K) /\ 2 * N <= b /\ K <= b  BY <1>1 DEF Larger
<1>5. PICK c \in Nat : c = Larger(K, 2 * N) /\ 2 * N <= c /\ K <= c  BY <1>1 DEF Larger
<1>6. u * a \in Nat /\ u * b \in Nat /\ u * c \in Nat /\ u * N \in Nat
  BY <1>1
<1>7. CASE call.batched
  <2>1. Cache2 = 2 /\ Cache13 = 1 /\ W2Out = 1  BY <1>7 DEF Cache2, Cache13, W2Out
  <2>2. LenOf(1) = u * c /\ LenOf(2) = u * N
    BY <1>2, <1>5, <1>7 DEF LenOf, BatchedWorkspaces
  <2>3. HasRoom(1, 2 * N) /\ HasRoom(1, K) /\ HasRoom(2, N)
    <3>1. N \in Nat /\ N <= N  BY <1>1
    <3>2. QED  BY <1>1, <1>2, <1>5, <2>2, <3>1, FitsIs
  <2>4. QED  BY <1>6, <1>7, <2>1, <2>2, <2>3
<1>8. CASE ~call.batched
  <2>1. Cache2 = 1 /\ Cache13 = 2 /\ W2Out = 2  BY <1>8 DEF Cache2, Cache13, W2Out
  <2>2. LenOf(1) = u * a /\ LenOf(2) = u * b
    BY <1>2, <1>3, <1>4, <1>8 DEF LenOf, StandardWorkspaces
  <2>3. HasRoom(2, 2 * N) /\ HasRoom(2, K) /\ HasRoom(1, N) /\ HasRoom(1, K)
    BY <1>1, <1>2, <1>3, <1>4, <2>2, FitsIs
  <2>4. QED  BY <1>6, <1>8, <2>1, <2>2, <2>3
<1>9. QED  BY <1>7, <1>8

\* The workspaces, as long as the shapes say.
MemOK ==
    /\ DOMAIN ws = 1 .. 2
    /\ \A w \in 1 .. 2 : DOMAIN ws[w] = 0 .. LenOf(w) - 1

\* A write to a workspace that has room.
LEMMA Writes ==
  ASSUME InputOK, NEW w, NEW width, HasRoom(w, width), NEW mem,
         DOMAIN mem = 0 .. LenOf(w) - 1, NEW rows
  PROVE  /\ DOMAIN Written(mem, width, rows) = DOMAIN mem
         /\ \A r \in Pairs :
              /\ r \in DOMAIN rows => Row(Written(mem, width, rows), width, r) = rows[r]
              /\ r \notin DOMAIN rows
                   => Row(Written(mem, width, rows), width, r) = Row(mem, width, r)
<1>1. PICK len \in Nat, m \in Nat \ {0} :
        /\ len = LenOf(w) /\ m = width
        /\ \A r \in Nat : r < Numel => (r + 1) * m <= len
  BY DEF HasRoom
<1>2. DOMAIN Written(mem, width, rows) = DOMAIN mem  BY DEF Written
<1>3. ASSUME NEW r \in Pairs
      PROVE  /\ r \in DOMAIN rows => Row(Written(mem, m, rows), m, r) = rows[r]
             /\ r \notin DOMAIN rows
                  => Row(Written(mem, m, rows), m, r) = Row(mem, m, r)
  <2>1. r \in Nat /\ r < Numel  BY RowIs
  <2>2. (r + 1) * m <= len /\ DOMAIN mem = 0 .. len - 1  BY <1>1, <2>1
  <2>3. QED  BY <2>1, <2>2, RowWritten
<1>4. QED  BY <1>1, <1>2, <1>3
-----------------------------------------------------------------------------
(* Terms. *)

\* The place whose order of products row i gets, by its block.
BlockOf(i) == CHOOSE b : InBlock(b, i)
PlaceOf(i) == OrderOf(BlockOf(i))

\* What a row holds after W13, after the activation, after W2 and at the end.
Input(i) == <<"x", i \div call.topk>>
W13Term(i) == Weighted(i, call.onInput, PinnedW13(i, PlaceOf(i)))
Hidden(i) == IF call.batched THEN <<"act", PinnedW13(i, PlaceOf(i))>>
             ELSE PinnedHidden(i, PlaceOf(i))
W2Term(i) == Weighted(i, ~call.onInput, PinnedW2(i, PlaceOf(i), Hidden(i)))
Term(i) == IF call.batched THEN PinnedBatched(i, PlaceOf(i)) ELSE PinnedTerm(i, PlaceOf(i))

LEMMA BlockOfIs ==
  ASSUME InputOK, Lists(layout, Asc), NEW b, NEW i, InBlock(b, i)
  PROVE  BlockOf(i) = b /\ i \in LocalPairs /\ ExpertFor(b) = ExpertOf(i)
<1>1. i \in LocalPairs /\ ExpertFor(b) = ExpertOf(i)  BY BlockOwns
<1>2. InBlock(BlockOf(i), i)  BY Zenon DEF BlockOf
<1>3. BlockOf(i) = b  BY <1>1, <1>2, BlockOnce
<1>4. QED  BY <1>1, <1>3

LEMMA W13RowIs ==
  ASSUME InputOK, Lists(layout, Asc), NEW b, NEW i, InBlock(b, i)
  PROVE  W13Row(b, i) = W13Term(i)
<1>1. BlockOf(i) = b /\ ExpertFor(b) = ExpertOf(i)  BY BlockOfIs
<1>2. PlaceOf(i) = OrderOf(b)  BY <1>1 DEF PlaceOf
<1>3. <<"w13", ExpertFor(b), OrderOf(b), Quantised(<<"x", i \div call.topk>>)>>
        = PinnedW13(i, PlaceOf(i))
  BY <1>1, <1>2 DEF PinnedW13, Quantised
<1>4. QED  BY <1>3 DEF W13Row, W13Term

LEMMA HiddenIs ==
  ASSUME InputOK, NEW i
  PROVE  <<"act", Adapted("a13", W13Term(i), <<"x", i \div call.topk>>)>> = Hidden(i)
<1>1. CASE call.batched
  <2>1. ~call.lora  BY <1>1, CallIs
  <2>2. QED  BY <1>1, <2>1 DEF Hidden, Adapted, W13Term, Weighted
<1>2. CASE ~call.batched
  BY <1>2 DEF Hidden, PinnedHidden, Adapted, W13Term, Weighted
<1>3. QED  BY <1>1, <1>2

LEMMA W2TermIs ==
  ASSUME InputOK, Lists(layout, Asc), NEW b, NEW i, InBlock(b, i)
  PROVE  Weighted(i, ~call.onInput, <<"w2", ExpertFor(b), OrderOf(b), Quantised(Hidden(i))>>)
           = W2Term(i)
<1>1. BlockOf(i) = b /\ ExpertFor(b) = ExpertOf(i)  BY BlockOfIs
<1>2. PlaceOf(i) = OrderOf(b)  BY <1>1 DEF PlaceOf
<1>3. <<"w2", ExpertFor(b), OrderOf(b), Quantised(Hidden(i))>>
        = PinnedW2(i, PlaceOf(i), Hidden(i))
  BY <1>1, <1>2 DEF PinnedW2, Quantised
<1>4. QED  BY <1>3 DEF W2Term

LEMMA TermIs ==
  ASSUME InputOK, NEW i
  PROVE  /\ ~call.lora => W2Term(i) = Term(i)
         /\ call.lora => Adapted("a2", W2Term(i), Hidden(i)) = Term(i)
<1>1. CASE call.batched
  <2>1. ~call.lora  BY <1>1, CallIs
  <2>2. W2Term(i) = Term(i)
    BY <1>1 DEF W2Term, Term, Weighted, PinnedBatched, Hidden
  <2>3. QED  BY <2>1, <2>2
<1>2. CASE ~call.batched
  <2>1. W2Term(i) = PinnedRow(i, PlaceOf(i))
    <3>1. Hidden(i) = PinnedHidden(i, PlaceOf(i))  BY <1>2 DEF Hidden
    <3>2. QED  BY <1>2, <3>1, CallIs DEF W2Term, Weighted, PinnedRow
  <2>2. Hidden(i) = PinnedHidden(i, PlaceOf(i))  BY <1>2 DEF Hidden
  <2>3. QED  BY <1>2, <2>1, <2>2 DEF Term, PinnedTerm, Adapted
<1>3. QED  BY <1>1, <1>2

\* The place is one that upstream may choose, or none when the whole-K kernel runs.
LEMMA PlaceIs ==
  ASSUME InputOK, Lists(layout, Asc), NEW i \in LocalPairs
  PROVE  IsTermOf(Term(i), i)
<1>1. PICK b : InBlock(b, i)  BY BlockOnce
<1>2. BlockOf(i) = b  BY <1>1, BlockOfIs
<1>3. WholeK <=> ~call.byte  BY BlockIs DEF WholeK, Lists
<1>4. PlaceOf(i) \in (IF call.byte THEN PinnedPlaces(i) ELSE {AnyPlace})
  <2>1. CASE ~call.byte  BY <1>3, <2>1 DEF PlaceOf, OrderOf
  <2>2. CASE call.byte
    <3>1. PlaceOf(i) = b  BY <1>2, <1>3, <2>2 DEF PlaceOf, OrderOf
    <3>2. PICK e \in 0 .. E - 1 :
            e = ExpertOf(i) /\ b \in Nat /\ Firsts[e] <= b /\ b < Firsts[e + 1]
      BY <1>1, BlockOwns
    <3>3. E \in Nat /\ Starts(Firsts, Counts)  BY LocalIs, FirstsStart
    <3>4. PICK f \in Nat : f = Firsts[e] /\ f = FirstBlockOf(e)
      BY <3>2, <3>3 DEF Starts, Firsts
    <3>5. PICK m \in Nat : m = BlocksOf(e) /\ Firsts[e + 1] = f + m
      <4>1. Counts[e] = BlocksOf(e)  BY DEF Counts
      <4>2. BlocksOf(e) \in Nat  BY BlocksAre
      <4>3. QED  BY <3>3, <3>4, <4>1, <4>2 DEF Starts
    <3>6. PICK c \in 0 .. m - 1 : b = f + c
      <4>1. b - f \in 0 .. m - 1 /\ b = f + (b - f)  BY <3>2, <3>4, <3>5
      <4>2. QED  BY <4>1
    <3>7. b \in {FirstBlockOf(e) + d : d \in 0 .. BlocksOf(e) - 1}  BY <3>4, <3>5, <3>6
    <3>8. QED  BY <2>2, <3>1, <3>2, <3>7 DEF PinnedPlaces
  <2>3. QED  BY <2>1, <2>2
<1>5. QED  BY <1>4, Zenon DEF IsTermOf, Term

\* The terms of a token's local rows, in top-k order.
Terms(t) == [j \in DOMAIN LocalRows(t) |-> Term(LocalRows(t)[j])]

LEMMA LocalRowsAre ==
  ASSUME InputOK, NEW t
  PROVE  /\ \E n \in Nat : DOMAIN LocalRows(t) = 1 .. n /\ Len(LocalRows(t)) = n
         /\ \A j \in DOMAIN LocalRows(t) : LocalRows(t)[j] \in LocalPairs
<1> DEFINE S == {i \in LocalPairs : i \div call.topk = t}
<1>1. S \in SUBSET Pairs /\ S \in SUBSET LocalPairs  BY DEF LocalPairs
<1>2. S \in SUBSET Nat /\ IsFiniteSet(S)
  BY <1>1, RowIs, RowsAre, FS_Subset
<1> HIDE DEF S
<1>3. PICK s : s = Ascending(S) /\ s \in SetToSeqs(S)  BY <1>2, AscendingIs
<1>4. /\ Cardinality(S) \in Nat /\ DOMAIN s = 1 .. Cardinality(S)
      /\ Len(s) = Cardinality(S) /\ {s[j] : j \in DOMAIN s} = S
  BY <1>2, <1>3, SeqsOfSet
<1>5. \A j \in DOMAIN s : s[j] \in LocalPairs  BY <1>1, <1>4
<1>6. LocalRows(t) = s  BY <1>3, Zenon DEF LocalRows, S
<1>7. QED  BY <1>4, <1>5, <1>6

-----------------------------------------------------------------------------
(* What stays with the layout. *)

LEMMA SameView ==
  ASSUME UNCHANGED <<inputs, layout>>
  PROVE  /\ Blocks' = Blocks /\ \A b : RowsIn(b)' = RowsIn(b)
         /\ \A w : LenOf(w)' = LenOf(w)
         /\ Cache2' = Cache2 /\ Cache13' = Cache13 /\ W2Out' = W2Out
         /\ \A i : /\ W13Term(i)' = W13Term(i) /\ Hidden(i)' = Hidden(i)
                   /\ W2Term(i)' = W2Term(i) /\ Term(i)' = Term(i)
         /\ \A t : Terms(t)' = Terms(t)
<1>1. call' = call /\ layout' = layout /\ Numel' = Numel
  BY SameRows
<1>2. Blocks' = Blocks  BY <1>1 DEF Blocks
<1>3. \A b : ValidIn(b)' = ValidIn(b)  BY <1>1 DEF ValidIn, Slots
<1>4. \A b : RowsIn(b)' = RowsIn(b)  BY <1>1, <1>3 DEF RowsIn
<1>5. \A b, i : InBlock(b, i)' = InBlock(b, i)  BY <1>2, <1>4 DEF InBlock
<1>6. \A i : BlockOf(i)' = BlockOf(i)  BY <1>5 DEF BlockOf
<1>7. \A b : OrderOf(b)' = OrderOf(b)  BY <1>1 DEF OrderOf, WholeK
<1>8. \A i : PlaceOf(i)' = PlaceOf(i)  BY <1>6, <1>7 DEF PlaceOf
<1>9. \A i : ExpertOf(i)' = ExpertOf(i)  BY SameRows
<1>10. \A i, p : PinnedW13(i, p)' = PinnedW13(i, p)  BY <1>1, <1>9 DEF PinnedW13
<1>11. \A i, p, h : PinnedW2(i, p, h)' = PinnedW2(i, p, h)  BY <1>1, <1>9 DEF PinnedW2
<1>12. \A i, p : PinnedHidden(i, p)' = PinnedHidden(i, p)
  BY <1>1, <1>10 DEF PinnedHidden
<1>13. \A i, h, x : Weighted(i, h, x)' = Weighted(i, h, x)  BY <1>1 DEF Weighted
<1>14. \A i : W13Term(i)' = W13Term(i)
  <2>1. SUFFICES ASSUME NEW i PROVE W13Term(i)' = W13Term(i)
    OBVIOUS
  <2>2. PinnedW13(i, PlaceOf(i))' = PinnedW13(i, PlaceOf(i))  BY <1>8, <1>10
  <2>3. QED  BY <1>1, <2>2 DEF W13Term, Weighted
<1>15. \A i : Hidden(i)' = Hidden(i)
  <2>1. SUFFICES ASSUME NEW i PROVE Hidden(i)' = Hidden(i)
    OBVIOUS
  <2>2. PinnedW13(i, PlaceOf(i))' = PinnedW13(i, PlaceOf(i))  BY <1>8, <1>10
  <2>3. PinnedHidden(i, PlaceOf(i))' = PinnedHidden(i, PlaceOf(i))  BY <1>8, <1>12
  <2>4. QED  BY <1>1, <2>2, <2>3 DEF Hidden
<1>16. \A i : W2Term(i)' = W2Term(i)
  <2>1. SUFFICES ASSUME NEW i PROVE W2Term(i)' = W2Term(i)
    OBVIOUS
  <2>2. PinnedW2(i, PlaceOf(i), Hidden(i))' = PinnedW2(i, PlaceOf(i), Hidden(i))
    BY <1>8, <1>11, <1>15
  <2>3. QED  BY <1>1, <2>2 DEF W2Term, Weighted
<1>17. \A i : Term(i)' = Term(i)
  <2>1. \A i, p : PinnedRow(i, p)' = PinnedRow(i, p)
    BY <1>1, <1>11, <1>12 DEF PinnedRow
  <2>2. \A i, p : PinnedTerm(i, p)' = PinnedTerm(i, p)
    BY <1>1, <1>12, <2>1 DEF PinnedTerm
  <2>3. \A i, p : PinnedBatched(i, p)' = PinnedBatched(i, p)
    BY <1>10, <1>11 DEF PinnedBatched
  <2>4. QED  BY <1>1, <1>8, <2>2, <2>3 DEF Term
<1>18. \A t : LocalRows(t)' = LocalRows(t)  BY <1>1, SameRows DEF LocalRows
<1>19. \A t : Terms(t)' = Terms(t)  BY <1>17, <1>18 DEF Terms
<1>20. StandardWorkspaces' = StandardWorkspaces /\ BatchedWorkspaces' = BatchedWorkspaces
  BY <1>1 DEF StandardWorkspaces, BatchedWorkspaces
<1>21. \A w : LenOf(w)' = LenOf(w)  BY <1>1, <1>20 DEF LenOf
<1>22. Cache2' = Cache2 /\ Cache13' = Cache13 /\ W2Out' = W2Out
  BY <1>1 DEF Cache2, Cache13, W2Out
<1>23. QED
  BY <1>2, <1>4, <1>14, <1>15, <1>16, <1>17, <1>19, <1>21, <1>22
-----------------------------------------------------------------------------
(* What the workspaces hold in each phase. *)

Holds(w, width, S, v) == \A i \in S : Row(ws[w], width, i) = v[i]

W13Terms == [i \in LocalPairs |-> W13Term(i)]
Hiddens == [i \in LocalPairs |-> Hidden(i)]
W2Terms == [i \in LocalPairs |-> W2Term(i)]
RowTerms == [i \in LocalPairs |-> Term(i)]

\* The rows of the blocks that are done.
DoneRows == {i \in LocalPairs : \E b \in done : i \in RowsIn(b)}

OutputInv ==
    /\ LayoutInv
    /\ phase # "idle" => MemOK
    /\ phase \notin {"w2", "sum"} => done = {}
    /\ phase = "activation" => Holds(Cache13, 2 * N, LocalPairs, W13Terms)
    /\ phase \in {"w2", "lora"} => Holds(Cache2, N, LocalPairs, Hiddens)
    /\ phase = "w2" => done \subseteq Blocks /\ Holds(W2Out, K, DoneRows, W2Terms)
    /\ phase = "lora" => call.lora /\ Holds(Cache13, K, LocalPairs, W2Terms)
    /\ phase = "sum" => /\ ~call.batched /\ done \subseteq 0 .. M - 1
                        /\ Holds(2, K, LocalPairs, RowTerms)
                        /\ \A t \in done : Row(ws[1], K, t) = <<"sum", Terms(t)>>
    /\ phase = "return" => call.batched /\ Holds(1, K, LocalPairs, RowTerms)

\* Written's map with the rows of one workspace replaced.
LEMMA PutIs ==
  ASSUME InputOK, MemOK, NEW w, NEW width, HasRoom(w, width), NEW rows, NEW new,
         new = [ws EXCEPT ![w] = Written(ws[w], width, rows)]
  PROVE  /\ DOMAIN new = 1 .. 2 /\ \A u \in 1 .. 2 : DOMAIN new[u] = DOMAIN ws[u]
         /\ \A u \in 1 .. 2 : u # w => new[u] = ws[u]
         /\ \A r \in Pairs :
              /\ r \in DOMAIN rows => Row(new[w], width, r) = rows[r]
              /\ r \notin DOMAIN rows => Row(new[w], width, r) = Row(ws[w], width, r)
<1>1. w \in 1 .. 2  BY DEF HasRoom
<1>2. DOMAIN ws = 1 .. 2 /\ DOMAIN ws[w] = 0 .. LenOf(w) - 1  BY <1>1 DEF MemOK
<1>3. PICK mem : mem = Written(ws[w], width, rows)  OBVIOUS
<1>4. DOMAIN new = 1 .. 2 /\ new[w] = mem /\ \A u \in 1 .. 2 : u # w => new[u] = ws[u]
  BY <1>1, <1>2, <1>3
<1>5. /\ DOMAIN mem = DOMAIN ws[w]
      /\ \A r \in Pairs :
           /\ r \in DOMAIN rows => Row(mem, width, r) = rows[r]
           /\ r \notin DOMAIN rows => Row(mem, width, r) = Row(ws[w], width, r)
  <2>1. /\ DOMAIN Written(ws[w], width, rows) = DOMAIN ws[w]
        /\ \A r \in Pairs :
             /\ r \in DOMAIN rows => Row(Written(ws[w], width, rows), width, r) = rows[r]
             /\ r \notin DOMAIN rows
                  => Row(Written(ws[w], width, rows), width, r) = Row(ws[w], width, r)
    BY <1>2, Writes
  <2>2. QED  BY <1>3, <2>1
<1>6. \A u \in 1 .. 2 : DOMAIN new[u] = DOMAIN ws[u]
  <2>1. SUFFICES ASSUME NEW u \in 1 .. 2 PROVE DOMAIN new[u] = DOMAIN ws[u]
    OBVIOUS
  <2>2. CASE u = w  BY <1>4, <1>5, <2>2, Zenon
  <2>3. CASE u # w  BY <1>4, <2>3, Zenon
  <2>4. QED  BY <2>2, <2>3
<1>7. QED  BY <1>4, <1>5, <1>6, Zenon

\* Lengths stay.
LEMMA SameMem ==
  ASSUME MemOK, UNCHANGED <<inputs, layout>>, DOMAIN ws' = 1 .. 2,
         \A u \in 1 .. 2 : DOMAIN (ws'[u]) = DOMAIN ws[u]
  PROVE  MemOK'
<1>1. \A w : LenOf(w)' = LenOf(w)  BY SameView
<1>2. QED  BY <1>1 DEF MemOK

LEMMA SameTerms ==
  ASSUME UNCHANGED <<inputs, layout>>
  PROVE  /\ LocalPairs' = LocalPairs /\ call' = call /\ M' = M
         /\ W13Terms' = W13Terms /\ Hiddens' = Hiddens
         /\ W2Terms' = W2Terms /\ RowTerms' = RowTerms
<1>1. LocalPairs' = LocalPairs /\ call' = call /\ M' = M  BY SameRows
<1>2. QED  BY <1>1, SameView DEF W13Terms, Hiddens, W2Terms, RowTerms

LEMMA RowsInPairs ==
  ASSUME InputOK
  PROVE  LocalPairs \subseteq Pairs
BY DEF LocalPairs

-----------------------------------------------------------------------------
(* The steps. *)

LEMMA W13Step ==
  ASSUME OutputInv, W13
  PROVE  MemOK' /\ Holds(Cache13, 2 * N, LocalPairs, W13Terms)'
<1>1. /\ phase = "w13" /\ UNCHANGED <<inputs, layout>>
      /\ InputOK /\ MemOK /\ Lists(layout, Asc)
  BY DEF W13, OutputInv, LayoutInv, Laid
<1> DEFINE rows == [i \in UNION {RowsIn(b) : b \in Blocks} |->
                      W13Row(CHOOSE b \in Blocks : i \in RowsIn(b), i)]
<1>2. ws' = [ws EXCEPT ![Cache13] = Written(ws[Cache13], 2 * N, rows)]
  BY Zenon DEF W13
<1>3. \A i \in LocalPairs : i \in DOMAIN rows /\ rows[i] = W13Term(i)
  <2>1. SUFFICES ASSUME NEW i \in LocalPairs PROVE i \in DOMAIN rows /\ rows[i] = W13Term(i)
    OBVIOUS
  <2>2. PICK b : InBlock(b, i)  BY <1>1, BlockOnce
  <2>3. b \in Blocks /\ i \in RowsIn(b)  BY <2>2 DEF InBlock
  <2>4. i \in UNION {RowsIn(a) : a \in Blocks}  BY <2>3
  <2>5. PICK c : c = CHOOSE a \in Blocks : i \in RowsIn(a)  OBVIOUS
  <2>6. InBlock(c, i)  BY <2>3, <2>5, Zenon DEF InBlock
  <2>7. W13Row(c, i) = W13Term(i)  BY <1>1, <2>6, W13RowIs
  <2>8. rows[i] = W13Row(c, i)  BY <2>4, <2>5, Zenon
  <2>9. i \in DOMAIN rows  BY <2>4, Zenon
  <2> HIDE DEF rows
  <2>10. QED  BY <2>7, <2>8, <2>9
<1> HIDE DEF rows
<1>4. Cache13 \in 1 .. 2 /\ HasRoom(Cache13, 2 * N)  BY <1>1, WorkspacesFit
<1>5. /\ DOMAIN ws' = 1 .. 2 /\ \A u \in 1 .. 2 : DOMAIN (ws'[u]) = DOMAIN ws[u]
      /\ \A r \in Pairs : r \in DOMAIN rows => Row(ws'[Cache13], 2 * N, r) = rows[r]
  BY <1>1, <1>2, <1>4, PutIs
<1>6. MemOK'  BY <1>1, <1>5, SameMem
<1>7. \A i \in LocalPairs : Row(ws'[Cache13], 2 * N, i) = W13Terms[i]
  BY <1>1, <1>3, <1>5, RowsInPairs DEF W13Terms
<1>8. Holds(Cache13, 2 * N, LocalPairs, W13Terms)'
  BY <1>1, <1>7, SameView, SameTerms DEF Holds
<1>9. QED  BY <1>6, <1>8

LEMMA ActivationStep ==
  ASSUME OutputInv, Activation
  PROVE  MemOK' /\ Holds(Cache2, N, LocalPairs, Hiddens)'
<1>1. /\ phase = "activation" /\ UNCHANGED <<inputs, layout>>
      /\ InputOK /\ MemOK /\ Holds(Cache13, 2 * N, LocalPairs, W13Terms)
  BY DEF Activation, OutputInv, LayoutInv
<1> DEFINE gate == [i \in LocalPairs |-> Gate(i)]
           act == [i \in LocalPairs |-> <<"act", gate[i]>>]
<1>2. ws' = [ws EXCEPT ![Cache13] = Written(@, 2 * N, gate), ![Cache2] = Written(@, N, act)]
  BY Zenon DEF Activation
<1>3. \A i \in LocalPairs : act[i] = Hidden(i)
  <2>1. SUFFICES ASSUME NEW i \in LocalPairs PROVE act[i] = Hidden(i)
    OBVIOUS
  <2>2. Row(ws[Cache13], 2 * N, i) = W13Term(i)  BY <1>1 DEF Holds, W13Terms
  <2>3. Gate(i) = Adapted("a13", W13Term(i), <<"x", i \div call.topk>>)
    BY <2>2, Zenon DEF Gate
  <2>4. act[i] = <<"act", Gate(i)>>  OBVIOUS
  <2> HIDE DEF act
  <2>5. QED  BY <1>1, <2>3, <2>4, HiddenIs
<1>4. DOMAIN act = LocalPairs  OBVIOUS
<1> HIDE DEF act, gate
<1>5. /\ Cache13 \in 1 .. 2 /\ HasRoom(Cache13, 2 * N)
      /\ Cache2 \in 1 .. 2 /\ HasRoom(Cache2, N) /\ Cache2 # Cache13
  BY <1>1, WorkspacesFit
<1>6. PICK mid : mid = [ws EXCEPT ![Cache13] = Written(ws[Cache13], 2 * N, gate)]
  OBVIOUS
<1>7. /\ DOMAIN mid = 1 .. 2 /\ \A u \in 1 .. 2 : DOMAIN mid[u] = DOMAIN ws[u]
      /\ mid[Cache2] = ws[Cache2]
  BY <1>1, <1>5, <1>6, PutIs
<1>8. ws' = [mid EXCEPT ![Cache2] = Written(ws[Cache2], N, act)]
  BY <1>1, <1>2, <1>5, <1>6 DEF MemOK
<1>9. /\ DOMAIN Written(ws[Cache2], N, act) = DOMAIN ws[Cache2]
      /\ \A r \in Pairs : r \in DOMAIN act => Row(Written(ws[Cache2], N, act), N, r) = act[r]
  <2>1. DOMAIN ws[Cache2] = 0 .. LenOf(Cache2) - 1  BY <1>1, <1>5 DEF MemOK
  <2>2. QED  BY <1>1, <1>5, <2>1, Writes
<1>10. /\ DOMAIN ws' = 1 .. 2 /\ ws'[Cache2] = Written(ws[Cache2], N, act)
       /\ \A u \in 1 .. 2 : u # Cache2 => ws'[u] = mid[u]
  BY <1>5, <1>7, <1>8
<1>11. \A u \in 1 .. 2 : DOMAIN (ws'[u]) = DOMAIN ws[u]
  <2>1. SUFFICES ASSUME NEW u \in 1 .. 2 PROVE DOMAIN (ws'[u]) = DOMAIN ws[u]
    OBVIOUS
  <2>2. CASE u = Cache2  BY <1>9, <1>10, <2>2, Zenon
  <2>3. CASE u # Cache2  BY <1>7, <1>10, <2>3, Zenon
  <2>4. QED  BY <2>2, <2>3
<1>12. MemOK'  BY <1>1, <1>10, <1>11, SameMem
<1>13. \A i \in LocalPairs : Row(ws'[Cache2], N, i) = Hiddens[i]
  BY <1>1, <1>3, <1>4, <1>9, <1>10, RowsInPairs DEF Hiddens
<1>14. Holds(Cache2, N, LocalPairs, Hiddens)'
  BY <1>1, <1>13, SameView, SameTerms DEF Holds
<1>15. QED  BY <1>12, <1>14
LEMMA W2Step ==
  ASSUME OutputInv, NEW b, W2(b)
  PROVE  /\ MemOK' /\ done' \subseteq Blocks'
         /\ Holds(Cache2, N, LocalPairs, Hiddens)' /\ Holds(W2Out, K, DoneRows, W2Terms)'
<1>1. /\ phase = "w2" /\ UNCHANGED <<inputs, layout>> /\ b \in Blocks /\ done' = done \cup {b}
      /\ InputOK /\ MemOK /\ Lists(layout, Asc) /\ done \subseteq Blocks
      /\ Holds(Cache2, N, LocalPairs, Hiddens) /\ Holds(W2Out, K, DoneRows, W2Terms)
  BY DEF W2, OutputInv, LayoutInv, Laid
<1> DEFINE rows == [i \in RowsIn(b) |->
              Weighted(i, ~call.onInput,
                       <<"w2", ExpertFor(b), OrderOf(b), Quantised(Row(ws[Cache2], N, i))>>)]
<1>2. ws' = [ws EXCEPT ![W2Out] = Written(ws[W2Out], K, rows)]
  BY Zenon DEF W2
<1>3. \A i \in RowsIn(b) : i \in LocalPairs /\ rows[i] = W2Term(i)
  <2>1. SUFFICES ASSUME NEW i \in RowsIn(b) PROVE i \in LocalPairs /\ rows[i] = W2Term(i)
    OBVIOUS
  <2>2. InBlock(b, i)  BY <1>1, <2>1 DEF InBlock
  <2>3. i \in LocalPairs  BY <1>1, <2>2, BlockOfIs
  <2>4. Row(ws[Cache2], N, i) = Hidden(i)  BY <1>1, <2>3 DEF Holds, Hiddens
  <2>5. rows[i] = Weighted(i, ~call.onInput,
                      <<"w2", ExpertFor(b), OrderOf(b), Quantised(Row(ws[Cache2], N, i))>>)
    OBVIOUS
  <2>6. rows[i] = Weighted(i, ~call.onInput,
                      <<"w2", ExpertFor(b), OrderOf(b), Quantised(Hidden(i))>>)
    BY <2>4, <2>5, Zenon
  <2> HIDE DEF rows
  <2>7. QED  BY <1>1, <2>2, <2>3, <2>6, W2TermIs
<1>4. DOMAIN rows = RowsIn(b)  OBVIOUS
<1> HIDE DEF rows
<1>5. /\ W2Out \in 1 .. 2 /\ HasRoom(W2Out, K) /\ Cache2 \in 1 .. 2 /\ Cache2 # W2Out
  BY <1>1, WorkspacesFit
<1>6. /\ DOMAIN ws' = 1 .. 2 /\ \A u \in 1 .. 2 : DOMAIN (ws'[u]) = DOMAIN ws[u]
      /\ ws'[Cache2] = ws[Cache2]
      /\ \A r \in Pairs :
           /\ r \in RowsIn(b) => Row(ws'[W2Out], K, r) = rows[r]
           /\ r \notin RowsIn(b) => Row(ws'[W2Out], K, r) = Row(ws[W2Out], K, r)
  BY <1>1, <1>2, <1>4, <1>5, PutIs
<1>7. MemOK'  BY <1>1, <1>6, SameMem
<1>8. Holds(Cache2, N, LocalPairs, Hiddens)'
  BY <1>1, <1>6, SameView, SameTerms DEF Holds
<1>9. DoneRows' = {i \in LocalPairs : i \in DoneRows \/ i \in RowsIn(b)}
  <2>1. DoneRows' = {i \in LocalPairs : \E a \in done' : i \in RowsIn(a)}
    BY <1>1, SameView, SameTerms DEF DoneRows
  <2>2. \A i \in LocalPairs : (\E a \in done' : i \in RowsIn(a))
                                <=> i \in DoneRows \/ i \in RowsIn(b)
    BY <1>1 DEF DoneRows
  <2>3. QED  BY <2>1, <2>2
<1>10. \A i \in DoneRows' : Row(ws'[W2Out], K, i) = W2Term(i)
  <2>1. SUFFICES ASSUME NEW i \in LocalPairs, i \in DoneRows \/ i \in RowsIn(b)
                 PROVE  Row(ws'[W2Out], K, i) = W2Term(i)
    BY <1>9
  <2>2. i \in Pairs  BY <1>1, RowsInPairs
  <2>3. CASE i \in RowsIn(b)  BY <1>3, <1>6, <2>2, <2>3
  <2>4. CASE i \notin RowsIn(b)
    <3>1. i \in DoneRows  BY <2>1, <2>4
    <3>2. Row(ws[W2Out], K, i) = W2Term(i)  BY <1>1, <3>1 DEF Holds, W2Terms
    <3>3. QED  BY <1>6, <2>2, <2>4, <3>2
  <2>5. QED  BY <2>3, <2>4
<1>11. \A i \in DoneRows' : i \in LocalPairs  BY <1>9
<1>12. Holds(W2Out, K, DoneRows, W2Terms)'
  <2>1. \A i \in DoneRows' : Row(ws'[W2Out], K, i) = W2Terms[i]  BY <1>10, <1>11 DEF W2Terms
  <2>2. W2Out' = W2Out /\ W2Terms' = W2Terms  BY <1>1, SameView, SameTerms
  <2>3. QED  BY <2>1, <2>2 DEF Holds
<1>13. done' \subseteq Blocks'  BY <1>1, SameView
<1>14. QED  BY <1>7, <1>8, <1>12, <1>13

\* When every block is done, every row is.
LEMMA W2DoneStep ==
  ASSUME OutputInv, W2Done
  PROVE  OutputInv'
<1>1. /\ phase = "w2" /\ UNCHANGED <<inputs, layout, ws>> /\ done = Blocks /\ done' = {}
      /\ phase' = IF call.batched THEN "return" ELSE IF call.lora THEN "lora" ELSE "sum"
      /\ InputOK /\ MemOK /\ Lists(layout, Asc)
      /\ Holds(Cache2, N, LocalPairs, Hiddens) /\ Holds(W2Out, K, DoneRows, W2Terms)
      /\ LayoutInv
  BY DEF W2Done, OutputInv, LayoutInv, Laid
<1>2. \A i \in LocalPairs : i \in DoneRows
  <2>1. SUFFICES ASSUME NEW i \in LocalPairs PROVE i \in DoneRows
    OBVIOUS
  <2>2. PICK b : InBlock(b, i)  BY <1>1, BlockOnce
  <2>3. QED  BY <1>1, <2>2 DEF InBlock, DoneRows
<1>3. \A i \in LocalPairs : Row(ws[W2Out], K, i) = W2Term(i)
  BY <1>1, <1>2 DEF Holds, W2Terms
<1>4. LayoutInv'
  <2>1. [Next]_vars  BY DEF Next
  <2>2. QED  BY <1>1, <2>1, LayoutStep
<1>5. MemOK'
  <2>1. DOMAIN ws' = 1 .. 2 /\ \A u \in 1 .. 2 : DOMAIN (ws'[u]) = DOMAIN ws[u]
    BY <1>1 DEF MemOK
  <2>2. QED  BY <1>1, <2>1, SameMem
<1>6. /\ ws' = ws /\ call' = call /\ LocalPairs' = LocalPairs /\ Hiddens' = Hiddens
      /\ W2Terms' = W2Terms /\ RowTerms' = RowTerms /\ Cache2' = Cache2 /\ Cache13' = Cache13
  BY <1>1, SameTerms, SameView
<1>7. CASE call.batched
  <2>1. phase' = "return"  BY <1>1, <1>7
  <2>2. W2Out = 1 /\ ~call.lora  BY <1>1, <1>7, WorkspacesFit, CallIs
  <2>3. \A i \in LocalPairs : Row(ws[1], K, i) = Term(i)
    BY <1>1, <1>3, <2>2, TermIs
  <2>4. Holds(1, K, LocalPairs, RowTerms)'  BY <1>6, <2>3 DEF Holds, RowTerms
  <2>5. call.batched'  BY <1>6, <1>7
  <2>6. QED  BY <1>1, <1>4, <1>5, <2>1, <2>4, <2>5 DEF OutputInv
<1>8. CASE ~call.batched /\ call.lora
  <2>1. phase' = "lora"  BY <1>1, <1>8
  <2>2. W2Out = Cache13  BY <1>1, WorkspacesFit
  <2>3. Holds(Cache13, K, LocalPairs, W2Terms)'  BY <1>3, <1>6, <2>2 DEF Holds, W2Terms
  <2>4. Holds(Cache2, N, LocalPairs, Hiddens)'  BY <1>1, <1>6 DEF Holds
  <2>5. call.lora'  BY <1>6, <1>8
  <2>6. QED  BY <1>1, <1>4, <1>5, <2>1, <2>3, <2>4, <2>5 DEF OutputInv
<1>9. CASE ~call.batched /\ ~call.lora
  <2>1. phase' = "sum"  BY <1>1, <1>9
  <2>2. W2Out = 2  BY <1>1, <1>9, WorkspacesFit
  <2>3. \A i \in LocalPairs : Row(ws[2], K, i) = Term(i)
    BY <1>1, <1>3, <1>9, <2>2, TermIs
  <2>4. Holds(2, K, LocalPairs, RowTerms)'  BY <1>6, <2>3 DEF Holds, RowTerms
  <2>5. ~call.batched'  BY <1>6, <1>9
  <2>6. QED  BY <1>1, <1>4, <1>5, <2>1, <2>4, <2>5 DEF OutputInv
<1>10. QED  BY <1>7, <1>8, <1>9

LEMMA LoraStep ==
  ASSUME OutputInv, LoraW2
  PROVE  MemOK' /\ Holds(2, K, LocalPairs, RowTerms)' /\ ~call.batched'
<1>1. /\ phase = "lora" /\ UNCHANGED <<inputs, layout>> /\ call.lora
      /\ InputOK /\ MemOK
      /\ Holds(Cache2, N, LocalPairs, Hiddens) /\ Holds(Cache13, K, LocalPairs, W2Terms)
  BY DEF LoraW2, OutputInv, LayoutInv
<1>2. ~call.batched  BY <1>1, CallIs
<1> DEFINE rows == [i \in LocalPairs |->
                      Adapted("a2", Row(ws[Cache13], K, i), Row(ws[Cache2], N, i))]
<1>3. ws' = [ws EXCEPT ![Cache13] = Written(ws[Cache13], K, rows)]
  BY Zenon DEF LoraW2
<1>4. \A i \in LocalPairs : rows[i] = Term(i)
  <2>1. SUFFICES ASSUME NEW i \in LocalPairs PROVE rows[i] = Term(i)
    OBVIOUS
  <2>2. Row(ws[Cache13], K, i) = W2Term(i)  BY <1>1 DEF Holds, W2Terms
  <2>3. Row(ws[Cache2], N, i) = Hidden(i)  BY <1>1 DEF Holds, Hiddens
  <2>4. rows[i] = Adapted("a2", Row(ws[Cache13], K, i), Row(ws[Cache2], N, i))
    OBVIOUS
  <2>5. rows[i] = Adapted("a2", W2Term(i), Hidden(i))  BY <2>2, <2>3, <2>4, Zenon
  <2> HIDE DEF rows
  <2>6. QED  BY <1>1, <2>5, TermIs
<1>5. DOMAIN rows = LocalPairs  OBVIOUS
<1> HIDE DEF rows
<1>6. Cache13 = 2 /\ HasRoom(2, K)  BY <1>1, <1>2, WorkspacesFit
<1>7. /\ DOMAIN ws' = 1 .. 2 /\ \A u \in 1 .. 2 : DOMAIN (ws'[u]) = DOMAIN ws[u]
      /\ \A r \in Pairs : r \in LocalPairs => Row(ws'[2], K, r) = rows[r]
  <2>1. ws' = [ws EXCEPT ![2] = Written(ws[2], K, rows)]  BY <1>3, <1>6
  <2>2. QED  BY <1>1, <1>5, <1>6, <2>1, PutIs
<1>8. MemOK'  BY <1>1, <1>7, SameMem
<1>9. \A i \in LocalPairs : Row(ws'[2], K, i) = RowTerms[i]
  BY <1>1, <1>4, <1>7, RowsInPairs DEF RowTerms
<1>10. Holds(2, K, LocalPairs, RowTerms)'  BY <1>1, <1>9, SameTerms DEF Holds
<1>11. ~call.batched'  BY <1>1, <1>2, SameTerms
<1>12. QED  BY <1>8, <1>10, <1>11

LEMMA SumStep ==
  ASSUME OutputInv, NEW t, MoeSum(t)
  PROVE  /\ MemOK' /\ done' \subseteq 0 .. M' - 1 /\ ~call.batched'
         /\ Holds(2, K, LocalPairs, RowTerms)'
         /\ \A u \in done' : Row(ws'[1], K, u) = <<"sum", Terms(u)>>
<1>1. /\ phase = "sum" /\ UNCHANGED <<inputs, layout>> /\ ~call.batched
      /\ t \in 0 .. M - 1 /\ t \notin done /\ done' = done \cup {t}
      /\ InputOK /\ MemOK /\ done \subseteq 0 .. M - 1
      /\ Holds(2, K, LocalPairs, RowTerms)
      /\ \A u \in done : Row(ws[1], K, u) = <<"sum", Terms(u)>>
  BY DEF MoeSum, OutputInv, LayoutInv
<1>2. Cache13 = 2 /\ HasRoom(1, K)  BY <1>1, WorkspacesFit
<1> DEFINE s == LocalRows(t)
           sum == [j \in DOMAIN s |-> Row(ws[Cache13], K, s[j])]
           rows == [r \in {t} |-> <<"sum", sum>>]
<1>3. ws' = [ws EXCEPT ![1] = Written(ws[1], K, rows)]
  BY Zenon DEF MoeSum
<1>4. sum = Terms(t)
  <2>1. \A j \in DOMAIN s : s[j] \in LocalPairs  BY <1>1, LocalRowsAre
  <2>2. \A j \in DOMAIN s : Row(ws[Cache13], K, s[j]) = Term(s[j])
    BY <1>1, <1>2, <2>1 DEF Holds, RowTerms
  <2> HIDE DEF s
  <2>3. sum = [j \in DOMAIN s |-> Term(s[j])]  BY <2>2
  <2>4. QED  BY <2>3, Zenon DEF Terms, s
<1>5. DOMAIN rows = {t} /\ rows[t] = <<"sum", Terms(t)>>
  <2> HIDE DEF sum
  <2>1. QED  BY <1>4
<1> HIDE DEF rows
<1>6. \A u \in 0 .. M - 1 : u \in Pairs
  <2>1. PICK m \in Nat \ {0}, k \in Nat \ {0} : m = M /\ k = call.topk /\ Numel = m * k
    BY <1>1, TokensAre, CallIs
  <2>2. m <= m * k /\ m * k \in Nat
    <3>1. 1 <= k => m * 1 <= m * k  BY MulMonotone
    <3>2. QED  BY <3>1
  <2>3. QED  BY <2>1, <2>2 DEF Pairs
<1>7. /\ DOMAIN ws' = 1 .. 2 /\ \A u \in 1 .. 2 : DOMAIN (ws'[u]) = DOMAIN ws[u]
      /\ ws'[2] = ws[2]
      /\ \A r \in Pairs :
           /\ r \in {t} => Row(ws'[1], K, r) = rows[r]
           /\ r \notin {t} => Row(ws'[1], K, r) = Row(ws[1], K, r)
  BY <1>1, <1>2, <1>3, <1>5, PutIs
<1>8. MemOK'  BY <1>1, <1>7, SameMem
<1>9. Holds(2, K, LocalPairs, RowTerms)'  BY <1>1, <1>7, SameTerms DEF Holds
<1>10. \A u \in done' : Row(ws'[1], K, u) = <<"sum", Terms(u)>>
  <2>1. SUFFICES ASSUME NEW u \in done' PROVE Row(ws'[1], K, u) = <<"sum", Terms(u)>>
    OBVIOUS
  <2>2. CASE u = t  BY <1>1, <1>5, <1>6, <1>7, <2>2
  <2>3. CASE u # t
    <3>1. u \in done /\ u \in Pairs  BY <1>1, <1>6, <2>1, <2>3
    <3>2. QED  BY <1>1, <1>7, <2>3, <3>1
  <2>4. QED  BY <2>2, <2>3
<1>11. done' \subseteq 0 .. M' - 1 /\ ~call.batched'  BY <1>1, SameTerms
<1>12. QED  BY <1>8, <1>9, <1>10, <1>11
LEMMA NewMem ==
  ASSUME ws' = StaleWorkspaces(IF call'.batched THEN BatchedWorkspaces' ELSE StandardWorkspaces')
  PROVE  MemOK'
<1>1. PICK lens : lens = IF call'.batched THEN BatchedWorkspaces' ELSE StandardWorkspaces'
  OBVIOUS
<1>2. ws' = [w \in 1 .. 2 |-> [c \in 0 .. lens[w] - 1 |-> Stale]]
  BY <1>1 DEF StaleWorkspaces
<1>3. \A w \in 1 .. 2 : LenOf(w)' = lens[w]  BY <1>1 DEF LenOf
<1>4. DOMAIN ws' = 1 .. 2 /\ \A w \in 1 .. 2 : DOMAIN (ws'[w]) = 0 .. lens[w] - 1
  BY <1>2
<1>5. QED  BY <1>3, <1>4 DEF MemOK

LEMMA OutputStep ==
  ASSUME OutputInv, [Next]_vars
  PROVE  OutputInv'
<1>0. LayoutInv'  BY LayoutStep DEF OutputInv
<1>1. CASE StandardCall
  <2>1. /\ phase = "idle" /\ phase' = "align" /\ done' = done /\ ~call'.batched
        /\ ws' = StaleWorkspaces(StandardWorkspaces')
    BY <1>1 DEF StandardCall
  <2>2. MemOK'  BY <2>1, NewMem
  <2>3. QED  BY <1>0, <2>1, <2>2 DEF OutputInv
<1>2. CASE BatchedCall
  <2>1. /\ phase = "idle" /\ phase' = "align" /\ done' = done /\ call'.batched
        /\ ws' = StaleWorkspaces(BatchedWorkspaces')
    BY <1>2 DEF BatchedCall
  <2>2. MemOK'  BY <2>1, NewMem
  <2>3. QED  BY <1>0, <2>1, <2>2 DEF OutputInv
<1>3. ASSUME UNCHANGED <<inputs, ws, done>>, phase \in {"align", "canonicalize"},
             phase' \in {"canonicalize", "w13"}
      PROVE  OutputInv'
  <2>1. MemOK'
    <3>1. call' = call /\ Numel' = Numel  BY <1>3, SameRows
    <3>2. StandardWorkspaces' = StandardWorkspaces /\ BatchedWorkspaces' = BatchedWorkspaces
      BY <3>1 DEF StandardWorkspaces, BatchedWorkspaces
    <3>3. \A w : LenOf(w)' = LenOf(w)  BY <3>1, <3>2 DEF LenOf
    <3>4. QED  BY <1>3, <3>3 DEF MemOK, OutputInv
  <2>2. QED  BY <1>0, <1>3, <2>1 DEF OutputInv
<1>4. CASE Align  BY <1>3, <1>4 DEF Align
<1>5. CASE Canonicalize  BY <1>3, <1>5 DEF Canonicalize
<1>6. CASE W13
  <2>1. MemOK' /\ Holds(Cache13, 2 * N, LocalPairs, W13Terms)'  BY <1>6, W13Step
  <2>2. phase = "w13" /\ phase' = "activation" /\ done' = done  BY <1>6 DEF W13
  <2>3. QED  BY <1>0, <2>1, <2>2 DEF OutputInv
<1>7. CASE Activation
  <2>1. MemOK' /\ Holds(Cache2, N, LocalPairs, Hiddens)'  BY <1>7, ActivationStep
  <2>2. phase = "activation" /\ phase' = "w2" /\ done' = done  BY <1>7 DEF Activation
  <2>3. done' = {}  BY <2>2 DEF OutputInv
  <2>4. Holds(W2Out, K, DoneRows, W2Terms)'
    <3>1. DoneRows' = {}  BY <2>3 DEF DoneRows
    <3>2. QED  BY <3>1 DEF Holds
  <2>5. QED  BY <1>0, <2>1, <2>2, <2>3, <2>4 DEF OutputInv
<1>8. ASSUME NEW b \in Blocks, W2(b) PROVE OutputInv'
  <2>1. /\ MemOK' /\ done' \subseteq Blocks'
        /\ Holds(Cache2, N, LocalPairs, Hiddens)' /\ Holds(W2Out, K, DoneRows, W2Terms)'
    BY <1>8, W2Step
  <2>2. phase = "w2" /\ phase' = "w2"  BY <1>8 DEF W2
  <2>3. QED  BY <1>0, <2>1, <2>2 DEF OutputInv
<1>9. CASE W2Done  BY <1>9, W2DoneStep
<1>10. CASE LoraW2
  <2>1. MemOK' /\ Holds(2, K, LocalPairs, RowTerms)' /\ ~call.batched'  BY <1>10, LoraStep
  <2>2. phase = "lora" /\ phase' = "sum" /\ done' = done  BY <1>10 DEF LoraW2
  <2>3. done' = {}  BY <2>2 DEF OutputInv
  <2>4. QED  BY <1>0, <2>1, <2>2, <2>3 DEF OutputInv
<1>11. ASSUME NEW t \in 0 .. MaxTokens - 1, MoeSum(t) PROVE OutputInv'
  <2>1. /\ MemOK' /\ done' \subseteq 0 .. M' - 1 /\ ~call.batched'
        /\ Holds(2, K, LocalPairs, RowTerms)'
        /\ \A u \in done' : Row(ws'[1], K, u) = <<"sum", Terms(u)>>
    BY <1>11, SumStep
  <2>2. phase = "sum" /\ phase' = "sum" /\ UNCHANGED <<inputs, layout>>  BY <1>11 DEF MoeSum
  <2>3. \A u : Terms(u)' = Terms(u)  BY <2>2, SameView
  <2>4. \A u \in done' : Row(ws'[1], K, u) = <<"sum", Terms(u)'>>  BY <2>1, <2>3
  <2>5. QED  BY <1>0, <2>1, <2>2, <2>4 DEF OutputInv
<1>12. CASE Return
  <2>1. phase' = "idle" /\ done' = {}  BY <1>12 DEF Return
  <2>2. QED  BY <1>0, <2>1 DEF OutputInv
<1>13. CASE UNCHANGED vars
  <2>1. UNCHANGED <<inputs, layout>> /\ ws' = ws /\ done' = done /\ phase' = phase
    BY <1>13 DEF vars
  <2>2. phase # "idle" => MemOK'
    <3>1. ASSUME MemOK PROVE MemOK'
      <4>1. DOMAIN ws' = 1 .. 2 /\ \A u \in 1 .. 2 : DOMAIN (ws'[u]) = DOMAIN ws[u]
        BY <2>1, <3>1 DEF MemOK
      <4>2. QED  BY <2>1, <3>1, <4>1, SameMem
    <3>2. QED  BY <3>1 DEF OutputInv
  <2>3. /\ call' = call /\ LocalPairs' = LocalPairs /\ Hiddens' = Hiddens /\ M' = M
        /\ W13Terms' = W13Terms /\ W2Terms' = W2Terms /\ RowTerms' = RowTerms
        /\ Cache2' = Cache2 /\ Cache13' = Cache13 /\ W2Out' = W2Out /\ Blocks' = Blocks
        /\ \A u : Terms(u)' = Terms(u)
    BY <2>1, SameTerms, SameView
  <2>4. DoneRows' = DoneRows  BY <2>1, <2>3, SameView DEF DoneRows
  <2>5. /\ \A w, width : Holds(w, width, LocalPairs, W13Terms)
                           => (\A i \in LocalPairs' : Row(ws'[w], width, i) = W13Terms'[i])
        /\ \A w, width : Holds(w, width, LocalPairs, Hiddens)
                           => (\A i \in LocalPairs' : Row(ws'[w], width, i) = Hiddens'[i])
        /\ \A w, width : Holds(w, width, LocalPairs, W2Terms)
                           => (\A i \in LocalPairs' : Row(ws'[w], width, i) = W2Terms'[i])
        /\ \A w, width : Holds(w, width, LocalPairs, RowTerms)
                           => (\A i \in LocalPairs' : Row(ws'[w], width, i) = RowTerms'[i])
        /\ \A w, width : Holds(w, width, DoneRows, W2Terms)
                           => (\A i \in DoneRows' : Row(ws'[w], width, i) = W2Terms'[i])
    BY <2>1, <2>3, <2>4 DEF Holds
  <2>6. /\ phase' = "activation" => Holds(Cache13, 2 * N, LocalPairs, W13Terms)'
        /\ phase' \in {"w2", "lora"} => Holds(Cache2, N, LocalPairs, Hiddens)'
        /\ phase' = "w2" => done' \subseteq Blocks' /\ Holds(W2Out, K, DoneRows, W2Terms)'
        /\ phase' = "lora" => call'.lora /\ Holds(Cache13, K, LocalPairs, W2Terms)'
    <3>1. phase' = "activation" => Holds(Cache13, 2 * N, LocalPairs, W13Terms)'
      BY <2>1, <2>3, <2>5 DEF OutputInv, Holds
    <3>2. phase' \in {"w2", "lora"} => Holds(Cache2, N, LocalPairs, Hiddens)'
      BY <2>1, <2>3, <2>5 DEF OutputInv, Holds
    <3>3. phase' = "w2" => done' \subseteq Blocks' /\ Holds(W2Out, K, DoneRows, W2Terms)'
      BY <2>1, <2>3, <2>5 DEF OutputInv, Holds
    <3>4. phase' = "lora" => call'.lora /\ Holds(Cache13, K, LocalPairs, W2Terms)'
      BY <2>1, <2>3, <2>5 DEF OutputInv, Holds
    <3>5. QED  BY <3>1, <3>2, <3>3, <3>4
  <2>7. /\ phase' = "sum" => /\ ~call'.batched /\ done' \subseteq 0 .. M' - 1
                             /\ Holds(2, K, LocalPairs, RowTerms)'
                             /\ \A u \in done' : Row(ws'[1], K, u) = <<"sum", Terms(u)'>>
        /\ phase' = "return" => call'.batched /\ Holds(1, K, LocalPairs, RowTerms)'
    BY <2>1, <2>3, <2>5 DEF OutputInv, Holds
  <2>8. phase' \notin {"w2", "sum"} => done' = {}  BY <2>1 DEF OutputInv
  <2>9. QED  BY <1>0, <2>1, <2>2, <2>6, <2>7, <2>8 DEF OutputInv
<1>14. QED
  BY <1>1, <1>2, <1>4, <1>5, <1>6, <1>7, <1>8, <1>9, <1>10, <1>11, <1>12, <1>13 DEF Next

LEMMA OutputInvSums ==
  ASSUME OutputInv
  PROVE  OutputsAreLocalSums
<1>1. ASSUME phase = "sum", NEW t \in done
      PROVE  LET v == Row(ws[1], K, t)
                 rows == LocalRows(t)
             IN  /\ v[1] = "sum" /\ Len(v[2]) = Len(rows)
                 /\ \A j \in DOMAIN rows : IsTermOf(v[2][j], rows[j])
  <2>1. InputOK /\ Lists(layout, Asc) /\ Row(ws[1], K, t) = <<"sum", Terms(t)>>
    BY <1>1 DEF OutputInv, LayoutInv, Laid
  <2>2. PICK s, n : s = LocalRows(t) /\ n \in Nat /\ DOMAIN s = 1 .. n /\ Len(s) = n
                    /\ \A j \in DOMAIN s : s[j] \in LocalPairs
    BY <2>1, LocalRowsAre
  <2>3. PICK x : x = Terms(t)  OBVIOUS
  <2>4. x = [j \in 1 .. n |-> Term(s[j])]  BY <2>2, <2>3 DEF Terms
  <2>5. Len(x) = n /\ \A j \in DOMAIN s : x[j] = Term(s[j])  BY <2>2, <2>4
  <2>6. \A j \in DOMAIN s : IsTermOf(x[j], s[j])  BY <2>1, <2>2, <2>5, PlaceIs
  <2>7. PICK v : v = Row(ws[1], K, t)  OBVIOUS
  <2>8. v[1] = "sum" /\ v[2] = x  BY <2>1, <2>3, <2>7
  <2>9. QED  BY <2>2, <2>5, <2>6, <2>7, <2>8
<1>2. ASSUME phase = "return", NEW i \in LocalPairs
      PROVE  IsTermOf(Row(ws[1], K, i), i)
  <2>1. InputOK /\ Lists(layout, Asc) /\ Holds(1, K, LocalPairs, RowTerms)
    BY <1>2 DEF OutputInv, LayoutInv, Laid
  <2>2. Row(ws[1], K, i) = Term(i)  BY <2>1 DEF Holds, RowTerms
  <2>3. QED  BY <2>1, <2>2, PlaceIs
<1>3. QED  BY <1>1, <1>2 DEF OutputsAreLocalSums

\* The layer's output is the sum of every token's local terms, or the term of every
\* dispatched row, as upstream computes them: through workspaces that begin stale,
\* that are read and written with two row widths, and with the blocks of W2 and the
\* tokens of the sum in any order.
THEOREM OutputsAlwaysLocalSums == Spec => []OutputsAreLocalSums
<1>1. Init => OutputInv
  BY DEF Init, OutputInv, LayoutInv, Laid, Phases
<1>2. OutputInv /\ [Next]_vars => OutputInv'  BY OutputStep
<1>3. OutputInv => OutputsAreLocalSums  BY OutputInvSums
<1>4. QED  BY <1>1, <1>2, <1>3, PTL DEF Spec

-----------------------------------------------------------------------------
(* The launch of a GEMM.                                                     *)

\* The calls with any number of tokens.
AnyCall == {CallOf(g, t, bm) : g \in Gemms, t \in Nat \ {0}, bm \in MoeBlockSizes}

LEMMA CallsAreAny == Calls \subseteq AnyCall
BY ExecAssumption DEF Calls, AnyCall

\* The blocks of rows and the tiles that calls come with.
LEMMA CallTypes ==
  ASSUME NEW c \in AnyCall
  PROVE  /\ c.g \in Gemms /\ c.g.n \in Nat \ {0} /\ c.g.k \in Nat \ {0} /\ c.g.topK \in Nat \ {0}
         /\ c.bm \in MoeBlockSizes /\ c.bm \in Nat \ {0} /\ c.ids \in Nat /\ c.rows \in Nat \ {0}
         /\ MBlocks(c) \in 1 .. 4 /\ MBlocks(c) * 16 = IF c.bm = 8 THEN 16 ELSE c.bm
<1>1. PICK g \in Gemms, t \in Nat \ {0}, bm \in MoeBlockSizes : c = CallOf(g, t, bm)
  BY DEF AnyCall
<1>2. g \in [n : Nat \ {0}, k : Nat \ {0}, topK : Nat \ {0}] /\ t \in Nat \ {0}
      /\ RowsPerToken \in Nat \ {0} /\ NumExperts \in Nat
  BY ExecAssumption
<1>3. /\ c.g = g /\ c.bm = bm /\ c.ids = IdsLen(t, bm)
      /\ c.rows = IF g.topK = 1 THEN t * RowsPerToken ELSE t
  BY <1>1 DEF CallOf
<1>4. t * RowsPerToken \in Nat \ {0}  BY <1>2, SMT
<1>5. IdsLen(t, bm) \in Nat
  <2>1. PICK r \in Nat : r = t * RowsPerToken  BY <1>4
  <2>2. bm \in Nat /\ bm - 1 \in Nat  BY DEF MoeBlockSizes
  <2>3. r * bm \in Nat /\ NumExperts * (bm - 1) \in Nat  BY <1>2, <2>1, <2>2, SMT
  <2>4. QED  BY <2>1, <2>3 DEF IdsLen, Least
<1>6. MBlocks(c) \in 1 .. 4 /\ MBlocks(c) * 16 = IF c.bm = 8 THEN 16 ELSE c.bm
  BY <1>3 DEF MBlocks, DivCeil, MoeBlockSizes
<1>7. QED  BY <1>1, <1>2, <1>3, <1>4, <1>5, <1>6 DEF MoeBlockSizes

LEMMA ConfigTypes ==
  ASSUME NEW cfg \in AllConfigs
  PROVE  /\ cfg.threadK \in {64, 128} /\ cfg.threadN \in {64, 128, 256} /\ cfg.threads \in {128, 256}
         /\ cfg # NoConfig
BY DEF AllConfigs, SmallBatch, LargeBatch, Config, NoConfig

LEMMA TableTypes ==
  ASSUME NEW c, NEW i \in 1 .. 3
  PROVE  Table(c)[i] \in AllConfigs
BY DEF Table, AllConfigs, SmallBatch, LargeBatch

\* A quotient is at least q when q times the divisor fits.
LEMMA AtLeast ==
  ASSUME NEW n \in Nat, NEW b \in Nat \ {0}, NEW q \in Nat
  PROVE  q <= n \div b <=> b * q <= n
<1>1. PICK p \in Nat, r \in 0 .. b - 1 : n \div b = p /\ n = b * p + r /\ b * p \in Nat
  BY Divide, Zenon
<1>2. q <= p => b * q <= b * p  BY MulMonotone
<1>3. p + 1 <= q => b * (p + 1) <= b * q  BY MulMonotone
<1>4. b * (p + 1) = b * p + b  OBVIOUS
<1>5. b * q \in Nat  OBVIOUS
<1>6. QED  BY <1>1, <1>2, <1>3, <1>4, <1>5

LEMMA CacheType ==
  ASSUME NEW c \in AnyCall, NEW cfg \in AllConfigs
  PROVE  KernelCacheSize(cfg, c) \in Nat
<1>1. /\ MBlocks(c) \in 1 .. 4 /\ cfg.threadK \in {64, 128} /\ cfg.threadN \in {64, 128, 256}
      /\ NumBits \in {4, 8} /\ Stages \in Nat /\ GroupSize \in {-1} \cup (Nat \ {0})
  BY CallTypes, ConfigTypes, ExecAssumption
<1>2. ScalesCacheSize(cfg) \in Nat
  <2>1. PICK groups \in Nat :
          groups = IF GroupSize = -1 THEN 1 ELSE DivCeil(cfg.threadK, GroupSize)
    <3>1. GroupSize \in Nat \ {0} => DivCeil(cfg.threadK, GroupSize) \in Nat
      <4>1. \A x \in Nat, y \in Nat \ {0} : x \div y \in Nat  BY DivMod
      <4>2. GroupSize \in Nat \ {0} => cfg.threadK + GroupSize - 1 \in Nat  BY <1>1
      <4>3. QED  BY <4>1, <4>2 DEF DivCeil
    <3>2. QED  BY <1>1, <3>1
  <2>2. groups * cfg.threadN * 2 * Stages \in Nat
    <3>1. PICK m \in Nat : m = groups * cfg.threadN * 2  BY <1>1, <2>1
    <3>2. m * Stages \in Nat  BY <1>1
    <3>3. QED  BY <3>1, <3>2
  <2>3. QED  BY <2>1, <2>2 DEF ScalesCacheSize
<1>3. \A x \in Nat : Stages * x \in Nat  BY <1>1
<1>4. QED
  <2> DEFINE tbM == MBlocks(c) * 16
             a   == Stages * (tbM * cfg.threadK) * 2
             b   == Stages * ((cfg.threadK * cfg.threadN) \div (32 \div NumBits)) * 4
             red == tbM * (cfg.threadN + 8) * 2
             tmp == Least(b, red) + cfg.threadN * 2
  <2>1. tbM \in Nat /\ tbM * cfg.threadK \in Nat /\ red \in Nat /\ tbM * 16 \in Nat
        /\ cfg.threadN * 2 \in Nat
        /\ (cfg.threadK * cfg.threadN) \div (32 \div NumBits) \in Nat
    BY <1>1
  <2>2. a \in Nat /\ b \in Nat
    <3>1. Stages * (tbM * cfg.threadK) \in Nat
          /\ Stages * ((cfg.threadK * cfg.threadN) \div (32 \div NumBits)) \in Nat
      BY <1>3, <2>1
    <3>2. QED  BY <3>1
  <2>3. KernelCacheSize(cfg, c) = Most(Most(b, red), tmp) + a + ScalesCacheSize(cfg) + tbM * 16
    BY DEF KernelCacheSize
  <2> HIDE DEF a, b, red, tbM
  <2>4. QED  BY <1>2, <2>1, <2>2, <2>3 DEF Most, Least

\* The registers of one block leave room for one on any SM.
LEMMA RegTypes ==
  ASSUME regs \in [AllConfigs -> RegChoices], NEW cfg \in AllConfigs
  PROVE  RegBytes(cfg) \in Nat \ {0} /\ RegBytes(cfg) <= 255 * 1024
<1>1. PICK x \in 1 .. 255 : regs[cfg] = x  BY ExecAssumption
<1>2. cfg.threads \in {128, 256}  BY ConfigTypes
<1>3. QED  BY <1>1, <1>2 DEF RegBytes

LEMMA SpreadTypes ==
  ASSUME NEW c \in AnyCall, NEW cfg \in AllConfigs
  PROVE  Spread(cfg, c) \in Nat
<1>1. c.g.n \in Nat /\ cfg.threadN \in Nat \ {0} /\ c.rows \in Nat /\ c.g.topK \in Nat
  BY CallTypes, ConfigTypes
<1>2. PICK q \in Nat : q = c.g.n \div cfg.threadN  BY <1>1, DivMod
<1>3. PICK m \in Nat : m = q * c.rows  BY <1>1
<1>4. PICK l \in Nat : l = m * c.g.topK  BY <1>1
<1>5. QED  BY <1>2, <1>3, <1>4 DEF Spread

Cap(c) == IF MBlocks(c) = 1 THEN 4 ELSE 2

\* The number of blocks of an SM: a positive number below the cap, and either one
\* or so many that their registers and their shared memory fit.
LEMMA CountFits ==
  ASSUME device \in Devices, regs \in [AllConfigs -> RegChoices],
         NEW c \in AnyCall, NEW cfg \in AllConfigs
  PROVE  /\ AllowCount(cfg, c) \in 1 .. Cap(c)
         /\ AllowCount(cfg, c) * RegBytes(cfg) <= 255 * 1024
         /\ AllowCount(cfg, c) > 1 =>
              AllowCount(cfg, c) * (KernelCacheSize(cfg, c) + 1536) <= device.optin
<1>1. /\ device.sms \in Nat \ {0} /\ device.optin \in Nat
      /\ KernelCacheSize(cfg, c) \in Nat /\ Spread(cfg, c) \in Nat
      /\ RegBytes(cfg) \in Nat \ {0} /\ RegBytes(cfg) <= 255 * 1024
  BY CacheType, SpreadTypes, RegTypes, ExecAssumption
<1>2. PICK f \in Nat, s \in Nat :
        f = (255 * 1024) \div RegBytes(cfg)
        /\ s = device.optin \div (KernelCacheSize(cfg, c) + 1536)
  <2>1. KernelCacheSize(cfg, c) + 1536 \in Nat \ {0}  BY <1>1
  <2>2. \A x \in Nat, y \in Nat \ {0} : x \div y \in Nat  BY DivMod
  <2>3. 255 * 1024 \in Nat  OBVIOUS
  <2>4. (255 * 1024) \div RegBytes(cfg) \in Nat  BY <1>1, <2>2, <2>3
  <2>5. device.optin \div (KernelCacheSize(cfg, c) + 1536) \in Nat  BY <1>1, <2>1, <2>2
  <2>6. QED  BY <2>4, <2>5
<1>3. PICK n : n = Capped(Fits(cfg, c), c)  OBVIOUS
<1>4. n \in 1 .. Cap(c) /\ (n = 1 \/ (n <= f /\ n <= s))
  BY <1>2, <1>3 DEF Capped, Fits, Least, Most, Cap
<1>5. AllowCount(cfg, c) \in 1 .. n
  <2>1. PICK q \in Nat : q = Spread(cfg, c) \div device.sms  BY <1>1, DivMod
  <2>2. Spread(cfg, c) < device.sms * n => q <= n
    <3>1. n \in Nat /\ n + 1 \in Nat  BY <1>4 DEF Cap
    <3>2. n + 1 <= q => device.sms * (n + 1) <= Spread(cfg, c)
      BY <1>1, <2>1, <3>1, AtLeast
    <3>3. PICK d \in Nat \ {0} : d = device.sms  BY <1>1
    <3>4. d * (n + 1) = d * n + d /\ d * n \in Nat  BY <3>1
    <3>5. QED  BY <1>1, <2>1, <3>1, <3>2, <3>3, <3>4
  <2>3. AllowCount(cfg, c) = IF Spread(cfg, c) < device.sms * n THEN Most(q, 1) ELSE n
    BY <1>3, <2>1 DEF AllowCount
  <2>4. QED  BY <1>4, <2>1, <2>2, <2>3 DEF Most, Cap
<1>6. PICK m \in 1 .. Cap(c) : m = AllowCount(cfg, c) /\ m <= n /\ (m = 1 \/ (m <= f /\ m <= s))
  <2>1. n \in Nat  BY <1>4 DEF Cap
  <2>2. QED  BY <1>2, <1>4, <1>5, <2>1 DEF Cap
<1>7. m \in Nat  BY DEF Cap
<1>8. m * RegBytes(cfg) <= 255 * 1024
  <2>1. m <= f => RegBytes(cfg) * m <= 255 * 1024  BY <1>1, <1>2, <1>7, AtLeast
  <2>2. RegBytes(cfg) * m = m * RegBytes(cfg)  BY <1>1, <1>7
  <2>3. m = 1 => m * RegBytes(cfg) = RegBytes(cfg)  BY <1>1
  <2>4. QED  BY <1>1, <1>6, <2>1, <2>2, <2>3
<1>9. m > 1 => m * (KernelCacheSize(cfg, c) + 1536) <= device.optin
  <2>1. PICK k \in Nat \ {0} : k = KernelCacheSize(cfg, c) + 1536  BY <1>1
  <2>2. m <= s => k * m <= device.optin  BY <1>1, <1>2, <1>7, <2>1, AtLeast
  <2>3. k * m = m * k  BY <1>7
  <2>4. QED  BY <1>6, <2>1, <2>2, <2>3
<1>10. QED  BY <1>6, <1>8, <1>9

\* The choice, as a function of the counts alone.
ConfigCounts(c) == <<CountOf(Table(c)[1], c), CountOf(Table(c)[2], c), CountOf(Table(c)[3], c)>>
FirstMost(table, count) ==
    LET best == {i \in 1 .. 3 : /\ count[i] > 0
                                /\ \A j \in 1 .. i - 1 : count[i] > count[j]
                                /\ \A j \in i .. 3 : count[i] >= count[j]}
    IN  IF best = {} THEN [cfg |-> NoConfig, perSm |-> 1]
        ELSE LET i == CHOOSE i \in best : TRUE
             IN  [cfg |-> table[i], perSm |-> count[i]]

LEMMA ChoiceByCounts ==
  ASSUME NEW c
  PROVE  DetermineExecConfig(c) = FirstMost(Table(c), ConfigCounts(c))
BY DEF DetermineExecConfig, FirstMost, ConfigCounts

\* Among three counts that are not all 0 there is a first largest one.
LEMMA FirstLargest ==
  ASSUME NEW c
  PROVE  LET e     == DetermineExecConfig(c)
             count(i) == CountOf(Table(c)[i], c)
         IN  (\A i \in 1 .. 3 : count(i) \in Nat) =>
               \/ e = [cfg |-> NoConfig, perSm |-> 1] /\ \A i \in 1 .. 3 : count(i) = 0
               \/ \E i \in 1 .. 3 : /\ count(i) > 0
                                    /\ e = [cfg |-> Table(c)[i], perSm |-> count(i)]
                                    /\ \A j \in 1 .. i - 1 : count(i) > count(j)
                                    /\ \A j \in i .. 3 : count(i) >= count(j)
<1> DEFINE count == <<CountOf(Table(c)[1], c), CountOf(Table(c)[2], c), CountOf(Table(c)[3], c)>>
           best  == {i \in 1 .. 3 : /\ count[i] > 0
                                    /\ \A j \in 1 .. i - 1 : count[i] > count[j]
                                    /\ \A j \in i .. 3 : count[i] >= count[j]}
<1>1. \A i \in 1 .. 3 : count[i] = CountOf(Table(c)[i], c)
  BY SMT
<1>2. DetermineExecConfig(c) =
        IF best = {} THEN [cfg |-> NoConfig, perSm |-> 1]
        ELSE [cfg |-> Table(c)[CHOOSE i \in best : TRUE], perSm |-> count[CHOOSE i \in best : TRUE]]
  BY DEF DetermineExecConfig
<1> HIDE DEF count
<1>3. SUFFICES ASSUME \A i \in 1 .. 3 : count[i] \in Nat
               PROVE  \/ best = {} /\ \A i \in 1 .. 3 : count[i] = 0
                      \/ (CHOOSE i \in best : TRUE) \in best /\ best # {}
  BY <1>1, <1>2
<1>4. best # {} => (CHOOSE i \in best : TRUE) \in best
  OBVIOUS
<1>5. best = {} => \A i \in 1 .. 3 : count[i] = 0
  <2>1. PICK x \in Nat, y \in Nat, z \in Nat : x = count[1] /\ y = count[2] /\ z = count[3]
    BY <1>3
  <2>2. x > 0 /\ x >= y /\ x >= z => 1 \in best  BY <2>1
  <2>3. y > 0 /\ y > x /\ y >= z => 2 \in best  BY <2>1
  <2>4. z > 0 /\ z > x /\ z > y => 3 \in best  BY <2>1
  <2>5. best = {} => x = 0 /\ y = 0 /\ z = 0  BY <2>2, <2>3, <2>4
  <2>6. QED  BY <2>1, <2>5
<1>6. QED  BY <1>4, <1>5

\* What determine_exec_config may answer: nothing, when no configuration can be
\* used, or a usable configuration of the table with its count.
LEMMA Selected ==
  ASSUME device \in Devices, regs \in [AllConfigs -> RegChoices], NEW c \in AnyCall
  PROVE  LET e == DetermineExecConfig(c)
         IN  \/ e = [cfg |-> NoConfig, perSm |-> 1] /\ \A cfg \in AllConfigs : CountOf(cfg, c) = 0
             \/ \E i \in 1 .. 3 : /\ e = [cfg |-> Table(c)[i], perSm |-> AllowCount(Table(c)[i], c)]
                                  /\ Usable(Table(c)[i], c)
<1>1. \A cfg \in AllConfigs : CountOf(cfg, c) = IF Usable(cfg, c) THEN AllowCount(cfg, c) ELSE 0
  BY DEF CountOf
<1>2. \A cfg \in AllConfigs : AllowCount(cfg, c) \in Nat \ {0}
  BY CountFits DEF Cap
<1>3. \A i \in 1 .. 3 : Table(c)[i] \in AllConfigs  BY TableTypes
<1>4. \A cfg \in AllConfigs : Usable(cfg, c) => \E i \in 1 .. 3 : cfg = Table(c)[i]
  BY DEF Usable, Built, Table
<1>5. (\A i \in 1 .. 3 : CountOf(Table(c)[i], c) = 0) => \A cfg \in AllConfigs : CountOf(cfg, c) = 0
  BY <1>1, <1>4
<1>6. \A i \in 1 .. 3 : CountOf(Table(c)[i], c) \in Nat  BY <1>1, <1>2, <1>3
<1>7. CASE /\ DetermineExecConfig(c) = [cfg |-> NoConfig, perSm |-> 1]
           /\ \A i \in 1 .. 3 : CountOf(Table(c)[i], c) = 0
  BY <1>5, <1>7
<1>8. CASE \E i \in 1 .. 3 : /\ CountOf(Table(c)[i], c) > 0
             /\ DetermineExecConfig(c) = [cfg |-> Table(c)[i], perSm |-> CountOf(Table(c)[i], c)]
  <2>1. PICK i \in 1 .. 3 : /\ CountOf(Table(c)[i], c) > 0
             /\ DetermineExecConfig(c) = [cfg |-> Table(c)[i], perSm |-> CountOf(Table(c)[i], c)]
    BY <1>8
  <2>2. Usable(Table(c)[i], c) /\ CountOf(Table(c)[i], c) = AllowCount(Table(c)[i], c)
    BY <1>1, <1>3, <2>1
  <2>3. QED  BY <2>1, <2>2
<1>9. QED  BY <1>6, <1>7, <1>8, FirstLargest

\* The share of each of n blocks has room for what n blocks fitted with.
LEMMA Divided ==
  ASSUME device \in Devices, NEW n \in Nat \ {0, 1}, NEW cache \in Nat,
         n * (cache + 1536) <= device.optin
  PROVE  cache <= LaunchSharedMem(n)
<1>1. PICK o \in Nat : o = device.optin  BY ExecAssumption
<1>2. cache + 1536 <= o \div n
  <2>1. PICK k \in Nat : k = cache + 1536  OBVIOUS
  <2>2. n * k <= o  BY <1>1, <2>1
  <2>3. QED  BY <2>1, <2>2, AtLeast
<1>3. LaunchSharedMem(n) = o \div n - 1024  BY <1>1 DEF LaunchSharedMem
<1>4. o \div n \in Nat
  <2>1. n \in Nat \ {0}  OBVIOUS
  <2>2. PICK m \in Nat \ {0} : m = n  BY <2>1
  <2>3. \E q \in Nat, r \in 0 .. m - 1 :
          o \div m = q /\ o % m = r /\ o = m * q + r /\ m * q \in Nat
    BY Divide
  <2>4. QED  BY <2>2, <2>3
<1>5. QED  BY <1>2, <1>3, <1>4

\* Registers that the code counts as fitting fit as they are allocated, except for
\* three blocks at seven counts, where two do.
LEMMA AllocatedFit ==
  ASSUME NEW x \in 1 .. 255, NEW n \in 1 .. 4, NEW t \in {128, 256}, n * (x * t * 4) <= 255 * 1024
  PROVE  LET a == 8 * DivCeil(x, 8)
         IN  /\ n * t * a <= 64 * 1024 <=> ~Miscounted(n, t, x)
             /\ Least(n, 2) * t * a <= 64 * 1024
<1>1. PICK q \in 0 .. 32 : DivCeil(x, 8) = q /\ 8 * q >= x /\ 8 * q <= x + 7
  BY DEF DivCeil
<1>2. CASE n = 1  BY <1>1, <1>2 DEF Least, Miscounted
<1>3. CASE n = 2  BY <1>1, <1>3 DEF Least, Miscounted
<1>4. CASE n = 3  BY <1>1, <1>4 DEF Least, Miscounted
<1>5. CASE n = 4  BY <1>1, <1>5 DEF Least, Miscounted
<1>6. QED  BY <1>2, <1>3, <1>4, <1>5

\* Shared memory as it is allocated, for as many blocks as the launch divided it
\* among or fewer.
LEMMA MemoryFits ==
  ASSUME device \in Devices, NEW n \in 1 .. 4, NEW k \in 1 .. n,
         NEW mem \in Nat, mem = LaunchSharedMem(n)
  PROVE  k * (128 * DivCeil(mem, 128) + 1024) <= device.perSm
<1>1. PICK o \in Nat, p \in Nat : /\ o = device.optin /\ p = device.perSm
                                /\ o % 128 = 0 /\ o + 1024 <= p
  BY ExecAssumption
<1>2. PICK q \in Nat : q = DivCeil(mem, 128) /\ 128 * q >= mem /\ 128 * q <= mem + 127
  BY DEF DivCeil
<1>3. CASE n = 1
  <2>1. mem = o  BY <1>1, <1>3 DEF LaunchSharedMem
  <2>2. 128 * q = o  BY <1>1, <1>2, <2>1
  <2>3. k = 1  BY <1>3
  <2>4. QED  BY <1>1, <1>2, <2>2, <2>3
<1>4. CASE n \in 2 .. 4
  <2>1. mem = o \div n - 1024  BY <1>1, <1>4 DEF LaunchSharedMem
  <2>2. n * (o \div n) <= o  BY <1>1, <1>4
  <2>3. n * (128 * q + 1024) <= p  BY <1>1, <1>2, <1>4, <2>1, <2>2
  <2>4. k * (128 * q + 1024) <= n * (128 * q + 1024)  BY <1>4
  <2>5. QED  BY <1>1, <1>2, <1>4, <2>3, <2>4
<1>5. QED  BY <1>3, <1>4

\* The same of a launch: by registers, shared memory and threads.
LEMMA WhollyResident ==
  ASSUME device \in Devices, regs \in [AllConfigs -> RegChoices],
         NEW c \in AnyCall, NEW i \in 1 .. 3,
         IsValid(Table(c)[i], c, LaunchSharedMem(AllowCount(Table(c)[i], c)))
  PROVE  LET cfg == Table(c)[i]
             n   == AllowCount(cfg, c)
             mem == LaunchSharedMem(n)
         IN  /\ Hosts(cfg, n, mem) <=> ~Miscounted(n, cfg.threads, regs[cfg])
             /\ Hosts(cfg, Least(n, 2), mem)
             /\ KernelCacheSize(cfg, c) <= mem
             /\ device.sms * n <= device.sms * 4
<1> DEFINE cfg == Table(c)[i]
           n   == AllowCount(cfg, c)
           mem == LaunchSharedMem(n)
<1>1. cfg \in AllConfigs  BY TableTypes
<1>2. n \in 1 .. 4 /\ n * RegBytes(cfg) <= 255 * 1024  BY <1>1, CountFits DEF Cap
<1>3. PICK x \in 1 .. 255, t \in {128, 256} : x = regs[cfg] /\ t = cfg.threads
  <2>1. regs[cfg] \in 1 .. 255  BY <1>1, ExecAssumption
  <2>2. cfg.threads \in {128, 256}  BY <1>1, ConfigTypes
  <2>3. QED  BY <2>1, <2>2
<1>4. KernelCacheSize(cfg, c) <= mem /\ KernelCacheSize(cfg, c) \in Nat
  BY <1>1, CacheType DEF IsValid
<1>5. mem \in Nat
  <2>1. device.optin \in Nat  BY ExecAssumption
  <2>2. mem \in Int  BY <1>2, <2>1 DEF LaunchSharedMem
  <2>3. QED  BY <1>4, <2>2
<1>6. device.sms * n <= device.sms * 4
  <2>1. device.sms \in Nat \ {0}  BY ExecAssumption
  <2>2. QED  BY <1>2, <2>1, MulMonotone
<1> HIDE DEF n, mem, cfg
<1>7. \A k \in 1 .. n : k * (128 * DivCeil(mem, 128) + 1024) <= device.perSm
  BY <1>2, <1>5, MemoryFits DEF mem
<1>8. n * (x * t * 4) <= 255 * 1024  BY <1>2, <1>3 DEF RegBytes
<1>9. \A k \in 1 .. n : Hosts(cfg, k, mem) <=> k * t * (8 * DivCeil(x, 8)) <= 64 * 1024
  <2>1. \A k \in 1 .. n : k * t <= 1536  BY <1>2
  <2>2. QED  BY <1>3, <1>7, <2>1 DEF Hosts, Allocated
<1>10. n \in 1 .. n /\ Least(n, 2) \in 1 .. n  BY <1>2 DEF Least
<1>11. /\ Hosts(cfg, n, mem) <=> ~Miscounted(n, t, x)
       /\ Hosts(cfg, Least(n, 2), mem)
  BY <1>2, <1>8, <1>9, <1>10, AllocatedFit
<1>12. QED  BY <1>3, <1>4, <1>6, <1>11 DEF n, mem, cfg

\* The C_tmp slots a launch reaches: one per thread block, and one per tile.
LEMMA WithinScratch ==
  ASSUME device \in Devices, NEW c \in AnyCall, NEW cfg \in AllConfigs, NEW n \in Nat,
         device.sms * n <= device.sms * 4
  PROVE  LET tile  == MBlocks(c) * 16 * cfg.threadN
             tiles == (c.ids \div c.bm) * (c.g.n \div cfg.threadN)
         IN  Least(device.sms * n, tiles) * tile <= CTmpSize(c)
<1>1. \E bm \in Nat \ {0}, t \in Nat \ {0}, ids \in Nat, cols \in Nat, s \in Nat \ {0},
         u \in Nat \ {0} :
        /\ t <= 256
        /\ bm = c.bm /\ t = cfg.threadN /\ ids = c.ids /\ cols = c.g.n /\ s = device.sms
        /\ u = (IF bm = 8 THEN 2 ELSE 1) /\ MBlocks(c) * 16 = bm * u
  <2>1. PICK bm \in Nat \ {0}, ids \in Nat, cols \in Nat :
          /\ bm = c.bm /\ ids = c.ids /\ cols = c.g.n
          /\ MBlocks(c) * 16 = IF bm = 8 THEN 16 ELSE bm
    BY CallTypes
  <2>2. PICK t \in Nat \ {0} : t = cfg.threadN /\ t <= 256  BY ConfigTypes
  <2>3. PICK s \in Nat \ {0} : s = device.sms  BY ExecAssumption
  <2>4. PICK u \in Nat \ {0} : u = IF bm = 8 THEN 2 ELSE 1  OBVIOUS
  <2>5. MBlocks(c) * 16 = bm * u
    <3>1. bm * 1 = bm /\ 8 * 2 = 16  OBVIOUS
    <3>2. QED  BY <2>1, <2>4, <3>1
  <2>6. /\ t <= 256
        /\ bm = c.bm /\ t = cfg.threadN /\ ids = c.ids /\ cols = c.g.n /\ s = device.sms
        /\ u = (IF bm = 8 THEN 2 ELSE 1) /\ MBlocks(c) * 16 = bm * u
    BY <2>1, <2>2, <2>3, <2>4, <2>5
  <2>7. QED  BY <2>6, Zenon
<1> PICK bm \in Nat \ {0}, t \in Nat \ {0}, ids \in Nat, cols \in Nat, s \in Nat \ {0},
         u \in Nat \ {0} :
        /\ t <= 256
        /\ bm = c.bm /\ t = cfg.threadN /\ ids = c.ids /\ cols = c.g.n /\ s = device.sms
        /\ u = (IF bm = 8 THEN 2 ELSE 1) /\ MBlocks(c) * 16 = bm * u
  BY <1>1
<1>2. bm * u \in Nat \ {0}
  <2>1. u = 1 \/ u = 2  BY <1>1
  <2>2. bm * 1 = bm /\ bm * 2 = bm + bm  OBVIOUS
  <2>3. QED  BY <2>1, <2>2
<1>3. PICK q \in Nat, r \in 0 .. bm - 1 :
        ids \div bm = q /\ ids % bm = r /\ ids = bm * q + r /\ bm * q \in Nat
  BY Divide, Zenon
<1>4. PICK p \in Nat, z \in 0 .. t - 1 :
        cols \div t = p /\ cols % t = z /\ cols = t * p + z /\ t * p \in Nat
  BY Divide, Zenon
<1> DEFINE tile == bm * u * t
<1>5. tile \in Nat /\ tile = MBlocks(c) * 16 * cfg.threadN
  BY <1>1
<1>6. (s * n) * tile <= (s * 4 * bm * 256) * u
  <2>1. tile <= bm * u * 256
    <3>1. PICK x \in Nat \ {0} : x = bm * u  BY <1>2
    <3>2. x * t <= x * 256  BY <1>1, MulMonotone
    <3>3. QED  BY <3>1, <3>2
  <2>2. s * n \in Nat /\ s * 4 \in Nat /\ s * n <= s * 4  BY <1>1
  <2>3. bm * u * 256 \in Nat  BY <1>2
  <2>4. (s * n) * tile <= (s * n) * (bm * u * 256)
    <3>1. s * n = 0 \/ s * n \in Nat \ {0}  BY <2>2
    <3> HIDE DEF tile
    <3>2. s * n = 0 => (s * n) * tile = 0 /\ (s * n) * (bm * u * 256) = 0  BY <1>5
    <3>3. s * n \in Nat \ {0} => (s * n) * tile <= (s * n) * (bm * u * 256)
      BY <1>5, <2>1, <2>3, MulMonotone
    <3>4. QED  BY <3>1, <3>2, <3>3
  <2>5. (bm * u * 256) * (s * n) <= (bm * u * 256) * (s * 4)
    <3>1. bm * u * 256 \in Nat \ {0}  BY <1>2
    <3>2. QED  BY <2>2, <3>1, MulMonotone
  <2>6. /\ (bm * u * 256) * (s * n) = (s * n) * (bm * u * 256)
        /\ (bm * u * 256) * (s * 4) = (s * 4 * bm * 256) * u
    BY SMT
  <2>7. (s * n) * tile \in Nat /\ (s * n) * (bm * u * 256) \in Nat /\ (s * 4 * bm * 256) * u \in Nat
    BY <1>5
  <2> HIDE DEF tile
  <2>8. QED  BY <2>4, <2>5, <2>6, <2>7
<1>7. (q * p) * tile <= (cols * ids) * u
  <2>1. PICK i \in Nat : i = bm * q /\ i <= ids  BY <1>3
  <2>2. PICK k \in Nat : k = t * p /\ k <= cols  BY <1>4
  <2>3. k * i <= cols * ids
    <3>1. k * i <= k * ids
      <4>1. k \in Nat \ {0} => k * i <= k * ids  BY <2>1, MulMonotone
      <4>2. k = 0 => k * i = 0 /\ k * ids = 0  OBVIOUS
      <4>3. QED  BY <4>1, <4>2
    <3>2. ids * k <= ids * cols
      <4>1. ids \in Nat \ {0} => ids * k <= ids * cols  BY <2>2, MulMonotone
      <4>2. ids = 0 => ids * k = 0 /\ ids * cols = 0  OBVIOUS
      <4>3. QED  BY <4>1, <4>2
    <3>3. ids * k = k * ids /\ ids * cols = cols * ids  OBVIOUS
    <3>4. k * i \in Nat /\ k * ids \in Nat /\ cols * ids \in Nat  OBVIOUS
    <3>5. QED  BY <3>1, <3>2, <3>3, <3>4
  <2>4. (q * p) * tile = (k * i) * u  BY <2>1, <2>2, SMT
  <2>5. k * i \in Nat /\ cols * ids \in Nat  OBVIOUS
  <2>6. QED  BY <2>3, <2>4, <2>5
<1>8. PICK blocks \in Nat, tiles \in Nat : blocks = s * n /\ tiles = q * p  OBVIOUS
<1>9. Least(blocks, tiles) \in Nat /\ Least(blocks, tiles) \in {blocks, tiles}
      /\ Least(blocks, tiles) <= blocks /\ Least(blocks, tiles) <= tiles
  BY DEF Least
<1>10. /\ Least(blocks, tiles) * tile <= blocks * tile
       /\ Least(blocks, tiles) * tile <= tiles * tile
  <2>1. tile \in Nat \ {0}
    <3>1. PICK x \in Nat \ {0} : x = bm * u  BY <1>2
    <3>2. x * t \in Nat \ {0}  OBVIOUS
    <3>3. QED  BY <3>1, <3>2
  <2>2. PICK l \in Nat : l = Least(blocks, tiles) /\ l <= blocks /\ l <= tiles  BY <1>9
  <2> HIDE DEF tile
  <2>3. tile * l <= tile * blocks /\ tile * l <= tile * tiles  BY <2>1, <2>2, MulMonotone
  <2>4. tile * l = l * tile /\ tile * blocks = blocks * tile /\ tile * tiles = tiles * tile
    BY <2>1
  <2>5. QED  BY <2>2, <2>3, <2>4
<1>11. CTmpSize(c) = Least(cols * ids, s * 4 * bm * 256) * u
  BY <1>1 DEF CTmpSize
<1>12. Least(blocks, tiles) * tile <= CTmpSize(c)
  <2>1. PICK x \in Nat, y \in Nat : x = cols * ids /\ y = s * 4 * bm * 256  OBVIOUS
  <2>2. PICK w \in Nat : w = Least(blocks, tiles) * tile  BY <1>5, <1>9
  <2>3. blocks * tile \in Nat /\ tiles * tile \in Nat  BY <1>5
  <2> HIDE DEF tile
  <2>4. w <= y * u /\ w <= x * u  BY <1>6, <1>7, <1>8, <1>10, <2>1, <2>2, <2>3
  <2>5. w <= Least(x, y) * u  BY <2>4 DEF Least
  <2>6. QED  BY <1>11, <2>1, <2>2, <2>5
<1>13. QED  BY <1>1, <1>3, <1>4, <1>5, <1>8, <1>12

-----------------------------------------------------------------------------
(* The answer to a call, and the invariant of the launches.                  *)

Answer(c) ==
    LET e  == DetermineExecConfig(c)
        ok == IsValid(e.cfg, c, LaunchSharedMem(e.perSm)) /\ Built(e.cfg, c)
    IN  [call |-> c, outcome |-> IF ok THEN "launched" ELSE "rejected",
         cfg |-> e.cfg, perSm |-> e.perSm]

LEMMA AnswerFits ==
  ASSUME device \in Devices, regs \in [AllConfigs -> RegChoices], NEW c \in AnyCall,
         NEW a, a = Answer(c)
  PROVE  /\ a.outcome = "rejected" => \A cfg \in AllConfigs : CountOf(cfg, c) = 0
         /\ a.outcome = "launched" =>
              LET mem   == LaunchSharedMem(a.perSm)
                  tile  == MBlocks(c) * 16 * a.cfg.threadN
                  tiles == (c.ids \div c.bm) * (c.g.n \div a.cfg.threadN)
              IN  /\ a.cfg \in AllConfigs
                  /\ Hosts(a.cfg, a.perSm, mem) <=> ~Miscounted(a.perSm, a.cfg.threads, regs[a.cfg])
                  /\ Hosts(a.cfg, Least(a.perSm, 2), mem)
                  /\ KernelCacheSize(a.cfg, c) <= mem
                  /\ device.sms * a.perSm <= device.sms * 4
                  /\ Least(device.sms * a.perSm, tiles) * tile <= CTmpSize(c)
<1> DEFINE e == DetermineExecConfig(c)
<1>1. /\ a.call = c /\ a.cfg = e.cfg /\ a.perSm = e.perSm
      /\ a.outcome = IF IsValid(e.cfg, c, LaunchSharedMem(e.perSm)) /\ Built(e.cfg, c)
                     THEN "launched" ELSE "rejected"
  BY DEF Answer
<1>2. CASE e = [cfg |-> NoConfig, perSm |-> 1] /\ \A cfg \in AllConfigs : CountOf(cfg, c) = 0
  <2>1. ~IsValid(e.cfg, c, LaunchSharedMem(e.perSm))  BY <1>2 DEF IsValid
  <2>2. QED  BY <1>1, <1>2, <2>1
<1>3. CASE \E i \in 1 .. 3 : /\ e = [cfg |-> Table(c)[i], perSm |-> AllowCount(Table(c)[i], c)]
                             /\ Usable(Table(c)[i], c)
  <2>1. PICK i \in 1 .. 3 : /\ e = [cfg |-> Table(c)[i], perSm |-> AllowCount(Table(c)[i], c)]
                            /\ Usable(Table(c)[i], c)
    BY <1>3
  <2>2. PICK cfg \in AllConfigs : cfg = Table(c)[i]  BY TableTypes
  <2>3. PICK n \in Nat \ {0} : n = AllowCount(cfg, c)  BY CountFits DEF Cap
  <2>4. a.cfg = cfg /\ a.perSm = n  BY <1>1, <2>1, <2>2, <2>3
  <2>5. IsValid(cfg, c, LaunchSharedMem(n)) /\ Built(cfg, c)
    <3>1. KernelCacheSize(cfg, c) \in Nat /\ device.optin \in Nat
      BY CacheType, ExecAssumption
    <3>2. KernelCacheSize(cfg, c) <= device.optin - 512  BY <2>1, <2>2 DEF Usable, IsValid
    <3>3. n = 1 => KernelCacheSize(cfg, c) <= LaunchSharedMem(n)
      BY <3>1, <3>2 DEF LaunchSharedMem
    <3>4. n > 1 => KernelCacheSize(cfg, c) <= LaunchSharedMem(n)
      BY <2>3, <3>1, CountFits, Divided
    <3>5. KernelCacheSize(cfg, c) <= LaunchSharedMem(n)  BY <3>3, <3>4
    <3>6. QED  BY <2>1, <2>2, <3>5 DEF Usable, IsValid
  <2>6. a.outcome = "launched"  BY <1>1, <2>1, <2>2, <2>3, <2>5
  <2>7. /\ Hosts(cfg, n, LaunchSharedMem(n)) <=> ~Miscounted(n, cfg.threads, regs[cfg])
        /\ Hosts(cfg, Least(n, 2), LaunchSharedMem(n))
        /\ KernelCacheSize(cfg, c) <= LaunchSharedMem(n)
        /\ device.sms * n <= device.sms * 4
    BY <2>2, <2>3, <2>5, WhollyResident
  <2>8. Least(device.sms * n, (c.ids \div c.bm) * (c.g.n \div cfg.threadN))
          * (MBlocks(c) * 16 * cfg.threadN) <= CTmpSize(c)
    BY <2>7, WithinScratch
  <2>9. QED  BY <2>4, <2>6, <2>7, <2>8
<1>4. QED  BY <1>2, <1>3, Selected

ExecInv ==
    /\ device \in Devices /\ regs \in [AllConfigs -> RegChoices]
    /\ last.outcome \in {"none", "launched", "rejected"}
    /\ last.outcome # "none" => last.call \in Calls /\ last = Answer(last.call)

\* An invariant of the launches: the launch in last is the answer to its call, and
\* so it fits the device, whatever the device and the registers are.
LEMMA InvFits == ExecInv => GridFits
<1>1. SUFFICES ASSUME ExecInv, last.outcome # "none" PROVE GridFits
  BY DEF GridFits, Launched
<1>2. QED  BY <1>1, AnswerFits, CallsAreAny 
       DEF ExecInv, GridFits, Launched, Resident, Together, ThirdWaits, InScratch, Grid

\* A call with a usable configuration is launched.
LEMMA InvLaunches ==
  ASSUME SomeUsable, ExecInv
  PROVE  last.outcome # "rejected"
<1>1. SUFFICES ASSUME last.outcome = "rejected" PROVE FALSE  OBVIOUS
<1>2. PICK c \in Calls : c = last.call /\ last = Answer(c)  BY <1>1 DEF ExecInv
<1>3. c \in AnyCall  BY CallsAreAny
<1>4. \A cfg \in AllConfigs : CountOf(cfg, c) = 0  BY <1>1, <1>2, <1>3, AnswerFits DEF ExecInv
<1>5. PICK cfg \in AllConfigs : Usable(cfg, c)  BY DEF SomeUsable, ExecInv, Usable
<1>6. AllowCount(cfg, c) # 0  BY <1>3, CountFits DEF ExecInv, Cap
<1>7. QED  BY <1>4, <1>5, <1>6 DEF CountOf

\* While the device and the registers stay what they are, so does each answer.
LEMMA SameAnswer ==
  ASSUME device' = device, regs' = regs, NEW c
  PROVE  Answer(c)' = Answer(c)
<1>1. \A cfg : RegBytes(cfg)' = RegBytes(cfg)  BY DEF RegBytes
<1>2. \A cfg : Fits(cfg, c)' = Fits(cfg, c)  BY <1>1 DEF Fits
<1>3. \A cfg : AllowCount(cfg, c)' = AllowCount(cfg, c)  BY <1>2 DEF AllowCount
<1>4. \A cfg : Usable(cfg, c)' <=> Usable(cfg, c)  BY DEF Usable
<1>5. \A cfg : CountOf(cfg, c)' = CountOf(cfg, c)  BY <1>3, <1>4 DEF CountOf
<1>6. DetermineExecConfig(c)' = DetermineExecConfig(c)
  <2>1. ConfigCounts(c)' = ConfigCounts(c)  BY <1>5 DEF ConfigCounts
  <2>2. DetermineExecConfig(c)' = FirstMost(Table(c), ConfigCounts(c)')
    BY DEF DetermineExecConfig, FirstMost, ConfigCounts
  <2>3. QED  BY <2>1, <2>2, ChoiceByCounts
<1>7. \A n : LaunchSharedMem(n)' = LaunchSharedMem(n)  BY DEF LaunchSharedMem
<1>8. QED  BY <1>6, <1>7 DEF Answer

LEMMA ExecInit0 == ExecInit => ExecInv
<1>1. SUFFICES ASSUME ExecInit PROVE ExecInv  OBVIOUS
<1>2. last.outcome = "none"  BY <1>1 DEF ExecInit
<1>3. QED  BY <1>1, <1>2 DEF ExecInit, ExecInv

LEMMA ExecStep == ExecInv /\ [ExecNext]_execVars => ExecInv'
<1>1. SUFFICES ASSUME ExecInv, [ExecNext]_execVars PROVE ExecInv'  OBVIOUS
<1>2. device' = device /\ regs' = regs  BY <1>1 DEF ExecNext, MarlinMM, execVars
<1>3. CASE \E c \in Calls : MarlinMM(c)
  <2>1. PICK c \in Calls : MarlinMM(c)  BY <1>3
  <2>2. last' = Answer(c)  BY <2>1 DEF MarlinMM, Answer
  <2>3. last'.call = c /\ last'.outcome \in {"launched", "rejected"}  BY <2>2 DEF Answer
  <2>4. last' = Answer(last.call)'  BY <1>2, <2>2, <2>3, SameAnswer
  <2>5. QED  BY <1>1, <1>2, <2>3, <2>4 DEF ExecInv
<1>4. CASE UNCHANGED execVars
  <2>1. last' = last  BY <1>4 DEF execVars
  <2>2. Answer(last.call)' = Answer(last.call)  BY <1>2, <2>1, SameAnswer
  <2>3. QED  BY <1>1, <1>2, <2>1, <2>2 DEF ExecInv
<1>5. QED  BY <1>1, <1>3, <1>4 DEF ExecNext

LEMMA ExecAlways == ExecSpec => []ExecInv
BY ExecInit0, ExecStep, PTL DEF ExecSpec

\* Whatever the device, the registers, the weights, the GEMM and the number of rows
\* are, the blocks of a launch are resident together, as registers and shared memory
\* are allocated, unless an SM gets three blocks of 128 threads with 169 or 170
\* registers or of 256 threads with 81 to 85: then exactly the third one waits.  A
\* launch reaches only locks and scratch that it was given; and a call is turned down
\* only when no configuration can be used, not because the memory was divided after
\* the choice.
THEOREM GridAlwaysFits == ExecSpec => []GridFits
BY ExecAlways, InvFits, PTL

\* Where every call has a configuration that could be used, as in the recipe, no
\* call is turned down, however many registers the compiler gives each kernel.
THEOREM UsableCallsLaunch ==
  ASSUME SomeUsable
  PROVE  ExecSpec => [](last.outcome # "rejected")
<1>1. ExecInv => last.outcome # "rejected"  BY InvLaunches
<1>2. QED  BY <1>1, ExecAlways, PTL

\* Where one token already makes tiles for all blocks that the device may hold, the
\* number of tiles never decides, and a call's configuration is that of one token.
LEMMA SpreadNeverDecides ==
  ASSUME device \in Devices, regs \in [AllConfigs -> RegChoices], OneTokenSpreads,
         NEW g \in Gemms, NEW t \in Nat \ {0}, NEW bm \in MoeBlockSizes, NEW i \in 1 .. 3
  PROVE  LET c   == CallOf(g, t, bm)
             cfg == Table(c)[i]
         IN  AllowCount(cfg, c) = Capped(Fits(cfg, c), c)
<1> DEFINE c   == CallOf(g, t, bm)
           one == CallOf(g, 1, bm)
           cfg == Table(c)[i]
<1>1. /\ MBlocks(c) = MBlocks(one) /\ c.g = g /\ one.g = g
      /\ c.rows = IF g.topK = 1 THEN t * RowsPerToken ELSE t
      /\ one.rows = IF g.topK = 1 THEN 1 * RowsPerToken ELSE 1
  BY DEF CallOf, MBlocks
<1>2. Table(one)[i] = cfg  BY <1>1 DEF Table
<1>3. Spread(cfg, one) >= device.sms * Cap(c)  BY <1>1, <1>2 DEF OneTokenSpreads, Cap
<1>4. /\ g.n \in Nat /\ g.topK \in Nat \ {0} /\ RowsPerToken \in Nat \ {0}
      /\ cfg.threadN \in Nat \ {0} /\ device.sms \in Nat \ {0}
  BY TableTypes, ConfigTypes, ExecAssumption
<1>5. PICK a \in Nat \ {0}, b \in Nat \ {0} : a = c.rows /\ b = one.rows /\ b <= a
  <2>1. t * RowsPerToken \in Nat \ {0} /\ RowsPerToken <= t * RowsPerToken
    <3>1. RowsPerToken * 1 <= RowsPerToken * t  BY <1>4, MulMonotone
    <3>2. RowsPerToken * t = t * RowsPerToken /\ t * RowsPerToken \in Nat  BY <1>4
    <3>3. QED  BY <1>4, <3>1, <3>2
  <2>2. QED  BY <1>1, <1>4, <2>1
<1>6. Spread(cfg, one) <= Spread(cfg, c)
  <2>1. PICK q \in Nat, k \in Nat \ {0} : q = g.n \div cfg.threadN /\ k = g.topK
    BY <1>4, DivMod
  <2>2. q * b <= q * a
    <3>1. q \in Nat \ {0} => q * b <= q * a  BY <1>5, MulMonotone
    <3>2. q = 0 => q * b = 0 /\ q * a = 0  OBVIOUS
    <3>3. QED  BY <3>1, <3>2
  <2>3. PICK x \in Nat, y \in Nat : x = q * b /\ y = q * a /\ x <= y  BY <2>2
  <2>4. k * x <= k * y  BY <2>3, MulMonotone
  <2>5. k * x = x * k /\ k * y = y * k /\ x * k \in Nat /\ y * k \in Nat  OBVIOUS
  <2>6. Spread(cfg, one) = x * k * 4 /\ Spread(cfg, c) = y * k * 4
    BY <1>1, <1>5, <2>1, <2>3 DEF Spread
  <2>7. QED  BY <2>4, <2>5, <2>6
<1>7. PICK n \in Nat : n = Capped(Fits(cfg, c), c) /\ n <= Cap(c)
  <2>1. PICK f \in Int : f = Fits(cfg, c)
    <3>1. \A x \in Nat, y \in Nat \ {0} : x \div y \in Nat  BY DivMod
    <3>2. cfg \in AllConfigs /\ c \in AnyCall  BY TableTypes DEF AnyCall
    <3>3. KernelCacheSize(cfg, c) + 1536 \in Nat \ {0}  BY <3>2, CacheType
    <3>4. RegBytes(cfg) \in Nat \ {0} /\ device.optin \in Nat /\ 255 * 1024 \in Nat
      BY <3>2, RegTypes, ExecAssumption
    <3>5. (255 * 1024) \div RegBytes(cfg) \in Nat
          /\ device.optin \div (KernelCacheSize(cfg, c) + 1536) \in Nat
      BY <3>1, <3>3, <3>4
    <3>6. QED  BY <3>5 DEF Fits, Least
  <2>2. QED  BY <2>1 DEF Capped, Least, Most, Cap
<1>8. device.sms * n <= device.sms * Cap(c)
  <2>1. Cap(c) \in Nat  BY DEF Cap
  <2>2. QED  BY <1>4, <1>7, <2>1, MulMonotone
<1>9. ~(Spread(cfg, c) < device.sms * n)
  <2>1. PICK m \in Nat : m = device.sms * n  BY <1>4
  <2>2. PICK k \in Nat : k = device.sms * Cap(c)  BY <1>4 DEF Cap
  <2>3. Spread(cfg, c) \in Nat /\ Spread(cfg, one) \in Nat
    BY SpreadTypes, TableTypes DEF AnyCall
  <2>4. QED  BY <1>3, <1>6, <1>8, <2>1, <2>2, <2>3
<1>10. QED  BY <1>7, <1>9 DEF AllowCount

\* So the number of tokens does not enter the choice.
LEMMA ChoiceIgnoresTokens ==
  ASSUME device \in Devices, regs \in [AllConfigs -> RegChoices], OneTokenSpreads,
         NEW g \in Gemms, NEW t \in Nat \ {0}, NEW bm \in MoeBlockSizes
  PROVE  DetermineExecConfig(CallOf(g, 1, bm)) = DetermineExecConfig(CallOf(g, t, bm))
<1> DEFINE c   == CallOf(g, t, bm)
           one == CallOf(g, 1, bm)
<1>1. MBlocks(one) = MBlocks(c) /\ one.g = c.g  BY DEF CallOf, MBlocks
<1>2. Table(one) = Table(c)  BY <1>1 DEF Table
<1>3. \A cfg : KernelCacheSize(cfg, one) = KernelCacheSize(cfg, c)
  BY <1>1 DEF KernelCacheSize
<1>4. \A cfg : Capped(Fits(cfg, one), one) = Capped(Fits(cfg, c), c)
  BY <1>1, <1>3 DEF Fits, Capped
<1>5. \A i \in 1 .. 3 : AllowCount(Table(c)[i], one) = AllowCount(Table(c)[i], c)
  BY <1>2, <1>4, SpreadNeverDecides
<1>6. \A cfg : Usable(cfg, one) <=> Usable(cfg, c)
  BY <1>1, <1>3 DEF Usable, IsValid, Built
<1>7. \A i \in 1 .. 3 : CountOf(Table(one)[i], one) = CountOf(Table(c)[i], c)
  BY <1>2, <1>5, <1>6 DEF CountOf
<1>8. ConfigCounts(one) = ConfigCounts(c)  BY <1>7 DEF ConfigCounts
<1>9. QED  BY <1>2, <1>8, ChoiceByCounts

\* Where the GEMMs are wide enough for the device, as those of the recipe are on its
\* own, no launch's tile depends on how many rows are in the batch.
THEOREM WideGemmsIgnoreBatch ==
  ASSUME OneTokenSpreads
  PROVE  ExecSpec => []ConfigIgnoresBatch
<1>1. ExecInv => ConfigIgnoresBatch
  <2>1. SUFFICES ASSUME ExecInv, Launched PROVE ConfigIgnoresBatch
    BY DEF ConfigIgnoresBatch
  <2>2. last.call \in Calls /\ last = Answer(last.call)  BY <2>1 DEF ExecInv, Launched
  <2>3. PICK g \in Gemms, t \in Nat \ {0}, bm \in MoeBlockSizes : last.call = CallOf(g, t, bm)
    BY <2>2, CallsAreAny DEF AnyCall
  <2>4. last.call.g = g /\ last.call.bm = bm  BY <2>3 DEF CallOf
  <2>5. DetermineExecConfig(CallOf(g, 1, bm)) = DetermineExecConfig(last.call)
    BY <2>1, <2>3, ChoiceIgnoresTokens DEF ExecInv
  <2>6. \E cfg, n : DetermineExecConfig(last.call) = [cfg |-> cfg, perSm |-> n]
    BY <2>1, <2>2, Selected, CallsAreAny DEF ExecInv
  <2>7. last.cfg = DetermineExecConfig(last.call).cfg
        /\ last.perSm = DetermineExecConfig(last.call).perSm
    BY <2>2 DEF Answer
  <2>8. QED  BY <2>4, <2>5, <2>6, <2>7 DEF ConfigIgnoresBatch
<1>2. QED  BY <1>1, ExecAlways, PTL
=============================================================================
