------------------------- MODULE ModelRunnerProofs -------------------------
(***************************************************************************)
(* The slot tables of the ranks and the request path of the model runner,   *)
(* for any number of requests, slots, ranks, outputs, drafts and            *)
(* preemptions, and for prompts and outputs of any length.                  *)
(*                                                                          *)
(* The slot table.  A fold over the requests to free or to add is a history *)
(* of tables, and each step keeps every slot owned once or free once.       *)
(*                                                                          *)
(* The ranks.  RanksAgree is not inductive: of two ranks that meet after    *)
(* the same output, one got there first, and nothing in the state says what *)
(* the other's table will be.  The invariant names it: there is a single    *)
(* history of tables, one per output, and every rank's table is the entry   *)
(* of that history for the outputs it has executed.                         *)
(*                                                                          *)
(* The request path.  Between two steps a request is settled: the           *)
(* scheduler's count, the device's count and the cache agree, and its slot  *)
(* holds what its next row is fed from (Stands).  Between the two halves of *)
(* a step each item of the batch remembers what it was fed and predicted    *)
(* (RowsTrue).  A batch preserves this because its rows are disjoint        *)
(* (RowOfItem), its requests own their slots (Holding), and every row below *)
(* the request's own tokens is the target's (TokenTrue); sampling does      *)
(* because a draft is accepted only when it is the token the target itself  *)
(* predicts (SampleIs).                                                     *)
(***************************************************************************)
EXTENDS ModelRunner, RankSlots, DataLemmas, SequenceTheorems

-----------------------------------------------------------------------------
(* The folds over a sequence of requests, one step at a time.                *)

RemoveStep(g, t, s, S) ==
  IF S = {} THEN t ELSE RemoveRequest(g[S \ {Max(S)}], s[Max(S)])

IsRemoveIter(g, t, s, n) == g = [S \in SUBSET (1 .. n) |-> RemoveStep(g, t, s, S)]

LEMMA RemoveIterExists ==
  ASSUME NEW t, NEW s
  PROVE  \A n \in Nat : \E g : IsRemoveIter(g, t, s, n)
<1> DEFINE T == {n \in Nat : \E g : IsRemoveIter(g, t, s, n)}
<1>1. 0 \in T
  <2> DEFINE g == [S \in SUBSET (1 .. 0) |-> t]
  <2>1. SUBSET (1 .. 0) = {{}}  OBVIOUS
  <2>2. g = [S \in SUBSET (1 .. 0) |-> RemoveStep(g, t, s, S)]
    BY <2>1 DEF RemoveStep
  <2>3. QED  BY <2>2 DEF IsRemoveIter
<1>2. ASSUME NEW n \in Nat, n \in T  PROVE n + 1 \in T
  <2>1. PICK g : IsRemoveIter(g, t, s, n)  BY <1>2
  <2> DEFINE h == [S \in SUBSET (1 .. n + 1) |->
                     IF n + 1 \in S THEN RemoveRequest(g[S \ {n + 1}], s[n + 1]) ELSE g[S]]
  <2>2. ASSUME NEW S \in SUBSET (1 .. n + 1) PROVE h[S] = RemoveStep(h, t, s, S)
    <3>1. CASE n + 1 \in S
      <4>1. Max(S) = n + 1  BY <3>1, MaxOf
      <4>2. S \ {n + 1} \in SUBSET (1 .. n + 1) /\ n + 1 \notin S \ {n + 1}  OBVIOUS
      <4>3. h[S \ {n + 1}] = g[S \ {n + 1}]  BY <4>2
      <4>4. QED  BY <3>1, <4>1, <4>3 DEF RemoveStep
    <3>2. CASE n + 1 \notin S
      <4>1. S \in SUBSET (1 .. n)  BY <3>2
      <4>2. g[S] = RemoveStep(g, t, s, S)  BY <2>1, <4>1 DEF IsRemoveIter
      <4>3. S \ {Max(S)} \in SUBSET (1 .. n + 1) /\ n + 1 \notin S \ {Max(S)}
        BY <3>2
      <4>4. h[S \ {Max(S)}] = g[S \ {Max(S)}]  BY <4>3
      <4>5. QED  BY <3>2, <4>2, <4>4 DEF RemoveStep
    <3>3. QED  BY <3>1, <3>2
  <2>3. IsRemoveIter(h, t, s, n + 1)  
    <3>1. h = [S \in SUBSET (1 .. n + 1) |-> h[S]]  OBVIOUS
    <3> HIDE DEF h
    <3>2. QED  BY <2>2, <3>1 DEF IsRemoveIter
  <2>4. QED  BY <2>3
<1>3. \A n \in Nat : n \in T
  <2> HIDE DEF T
  <2>1. Inductive(T)  BY <1>1, <1>2 DEF Inductive
  <2>2. QED  BY <2>1, SetInduction
<1>4. QED  BY <1>3

\* h is what the fold over s has reached after each request.
RemoveHistory(h, t, s, n) ==
  /\ h[0] = t /\ \A i \in 1 .. n : h[i] = RemoveRequest(h[i - 1], s[i])
  /\ FinishRequests(t, s) = h[n]

LEMMA FoldRemove ==
  ASSUME NEW t, NEW n \in Nat, NEW s, DOMAIN s = 1 .. n
  PROVE  \E h : RemoveHistory(h, t, s, n)
<1> DEFINE g == CHOOSE g : IsRemoveIter(g, t, s, n)
           h == [i \in 0 .. n |-> g[1 .. i]]
<1>1. IsRemoveIter(g, t, s, n)  BY RemoveIterExists
<1>2. FinishRequests(t, s) = g[1 .. n]
  BY DEF FinishRequests, FoldLeft, MapThenFoldSet, IsRemoveIter, RemoveStep
<1> HIDE DEF g
<1>3. g[{}] = t  BY <1>1 DEF IsRemoveIter, RemoveStep
<1>4. ASSUME NEW i \in 1 .. n PROVE g[1 .. i] = RemoveRequest(g[1 .. i - 1], s[i])
  <2>1. Max(1 .. i) = i  BY MaxOf
  <2>2. (1 .. i) \ {i} = 1 .. i - 1 /\ 1 .. i # {}  OBVIOUS
  <2>3. 1 .. i \in SUBSET (1 .. n)  OBVIOUS
  <2>4. QED  BY <1>1, <2>1, <2>2, <2>3 DEF IsRemoveIter, RemoveStep
<1>5. h[0] = t /\ \A i \in 1 .. n : h[i] = RemoveRequest(h[i - 1], s[i])
  <2>1. 1 .. 0 = {}  OBVIOUS
  <2>2. h[0] = t  BY <1>3, <2>1
  <2>3. QED  BY <1>4, <2>2
<1>6. h[n] = g[1 .. n]  OBVIOUS
<1> HIDE DEF h
<1>7. QED  BY <1>2, <1>5, <1>6 DEF RemoveHistory
AddStep(g, t, s, S) ==
  IF S = {} THEN t ELSE AddRequest(g[S \ {Max(S)}], s[Max(S)])

IsAddIter(g, t, s, n) == g = [S \in SUBSET (1 .. n) |-> AddStep(g, t, s, S)]

LEMMA AddIterExists ==
  ASSUME NEW t, NEW s
  PROVE  \A n \in Nat : \E g : IsAddIter(g, t, s, n)
<1> DEFINE T == {n \in Nat : \E g : IsAddIter(g, t, s, n)}
<1>1. 0 \in T
  <2> DEFINE g == [S \in SUBSET (1 .. 0) |-> t]
  <2>1. SUBSET (1 .. 0) = {{}}  OBVIOUS
  <2>2. g = [S \in SUBSET (1 .. 0) |-> AddStep(g, t, s, S)]
    BY <2>1 DEF AddStep
  <2>3. QED  BY <2>2 DEF IsAddIter
<1>2. ASSUME NEW n \in Nat, n \in T  PROVE n + 1 \in T
  <2>1. PICK g : IsAddIter(g, t, s, n)  BY <1>2
  <2> DEFINE h == [S \in SUBSET (1 .. n + 1) |->
                     IF n + 1 \in S THEN AddRequest(g[S \ {n + 1}], s[n + 1]) ELSE g[S]]
  <2>2. ASSUME NEW S \in SUBSET (1 .. n + 1) PROVE h[S] = AddStep(h, t, s, S)
    <3>1. CASE n + 1 \in S
      <4>1. Max(S) = n + 1  BY <3>1, MaxOf
      <4>2. S \ {n + 1} \in SUBSET (1 .. n + 1) /\ n + 1 \notin S \ {n + 1}  OBVIOUS
      <4>3. h[S \ {n + 1}] = g[S \ {n + 1}]  BY <4>2
      <4>4. QED  BY <3>1, <4>1, <4>3 DEF AddStep
    <3>2. CASE n + 1 \notin S
      <4>1. S \in SUBSET (1 .. n)  BY <3>2
      <4>2. g[S] = AddStep(g, t, s, S)  BY <2>1, <4>1 DEF IsAddIter
      <4>3. S \ {Max(S)} \in SUBSET (1 .. n + 1) /\ n + 1 \notin S \ {Max(S)}
        BY <3>2
      <4>4. h[S \ {Max(S)}] = g[S \ {Max(S)}]  BY <4>3
      <4>5. QED  BY <3>2, <4>2, <4>4 DEF AddStep
    <3>3. QED  BY <3>1, <3>2
  <2>3. IsAddIter(h, t, s, n + 1)  
    <3>1. h = [S \in SUBSET (1 .. n + 1) |-> h[S]]  OBVIOUS
    <3> HIDE DEF h
    <3>2. QED  BY <2>2, <3>1 DEF IsAddIter
  <2>4. QED  BY <2>3
<1>3. \A n \in Nat : n \in T
  <2> HIDE DEF T
  <2>1. Inductive(T)  BY <1>1, <1>2 DEF Inductive
  <2>2. QED  BY <2>1, SetInduction
<1>4. QED  BY <1>3

\* h is what the fold over s has reached after each request.
AddHistory(h, t, s, n) ==
  /\ h[0] = t /\ \A i \in 1 .. n : h[i] = AddRequest(h[i - 1], s[i])
  /\ AddRequests(t, s) = h[n]

LEMMA FoldAdd ==
  ASSUME NEW t, NEW n \in Nat, NEW s, DOMAIN s = 1 .. n
  PROVE  \E h : AddHistory(h, t, s, n)
<1> DEFINE g == CHOOSE g : IsAddIter(g, t, s, n)
           h == [i \in 0 .. n |-> g[1 .. i]]
<1>1. IsAddIter(g, t, s, n)  BY AddIterExists
<1>2. AddRequests(t, s) = g[1 .. n]
  BY DEF AddRequests, FoldLeft, MapThenFoldSet, IsAddIter, AddStep
<1> HIDE DEF g
<1>3. g[{}] = t  BY <1>1 DEF IsAddIter, AddStep
<1>4. ASSUME NEW i \in 1 .. n PROVE g[1 .. i] = AddRequest(g[1 .. i - 1], s[i])
  <2>1. Max(1 .. i) = i  BY MaxOf
  <2>2. (1 .. i) \ {i} = 1 .. i - 1 /\ 1 .. i # {}  OBVIOUS
  <2>3. 1 .. i \in SUBSET (1 .. n)  OBVIOUS
  <2>4. QED  BY <1>1, <2>1, <2>2, <2>3 DEF IsAddIter, AddStep
<1>5. h[0] = t /\ \A i \in 1 .. n : h[i] = AddRequest(h[i - 1], s[i])
  <2>1. 1 .. 0 = {}  OBVIOUS
  <2>2. h[0] = t  BY <1>3, <2>1
  <2>3. QED  BY <1>4, <2>2
<1>6. h[n] = g[1 .. n]  OBVIOUS
<1> HIDE DEF h
<1>7. QED  BY <1>2, <1>5, <1>6 DEF AddHistory

-----------------------------------------------------------------------------
(* sorted(): the requests of a set in the order of their ids.                *)

LEMMA ReqFinite ==
  ASSUME NEW S \in SUBSET Req
  PROVE  IsFiniteSet(S) /\ Cardinality(S) \in Nat
<1>1. NumReqs \in Int  BY SlotAssumption
<1>2. IsFiniteSet(Req)  BY <1>1, FS_Interval DEF Req
<1>3. QED  BY <1>2, FS_Subset, FS_CardinalityType

LEMMA SortedIdsOK ==
  ASSUME NEW S \in SUBSET Req
  PROVE  /\ SortedIds(S) \in SetToSeqs(S)
         /\ \A i, j \in DOMAIN SortedIds(S) : i < j => SortedIds(S)[i] < SortedIds(S)[j]
<1> DEFINE R == {p \in Req \X Req : p[1] < p[2]}
<1>1. StrictOrder(R, S)  BY DEF StrictOrder, Req
<1>2. \E s \in SetToSeqs(S) : \A i, j \in DOMAIN s : i < j => <<s[i], s[j]>> \in R
  BY <1>1, ReqFinite, SortExists
<1>3. \E s \in SetToSeqs(S) : \A i, j \in DOMAIN s : i < j => s[i] < s[j]
  BY <1>2
<1>4. QED  BY <1>3 DEF SortedIds, InOrder

-----------------------------------------------------------------------------
(* The table.                                                                *)

Owned(t) == {r \in Req : t.index[r] # NoSlot}

TableOK(t) ==
    /\ t = [index |-> t.index, free |-> t.free]
    /\ t.index \in [Req -> Slot \cup {NoSlot}]
    /\ t.free \in Seq(Slot)
    /\ SlotsPartitioned(t)

\* u is t but for the slot of r.
SameBut(t, u, S) == \A q \in Req \ S : u.index[q] = t.index[q]

LEMMA FreshTableOK == TableOK(FreshTable) /\ Owned(FreshTable) = {}
<1> DEFINE f == FreshTable.free
<1>1. NumSlots \in Nat  BY SlotAssumption
<1>2. f = [i \in 1 .. NumSlots |-> i - 1]  BY DEF FreshTable
<1>3. f \in Seq(Slot) /\ Len(f) = NumSlots /\ DOMAIN f = 1 .. NumSlots
  BY <1>1, <1>2 DEF Slot
<1>4. FreshTable.index = [r \in Req |-> NoSlot]  BY DEF FreshTable
<1>5. Owned(FreshTable) = {}  BY <1>4 DEF Owned
<1>6. Cardinality({}) = 0  BY FS_EmptySet
<1>7. FreshTable = [index |-> FreshTable.index, free |-> f]  BY DEF FreshTable
<1>8. \A r \in Req, i \in DOMAIN f : FreshTable.index[r] # f[i]
  BY <1>2, <1>3, <1>4 DEF NoSlot
<1>9. \A i, j \in DOMAIN f : i # j => f[i] # f[j]  BY <1>1, <1>2, <1>3
<1>10. SlotsPartitioned(FreshTable)
  <2>1. Len(FreshTable.free) + Cardinality(Owned(FreshTable)) = NumSlots
    BY <1>1, <1>3, <1>5, <1>6
  <2>2. QED  BY <1>4, <1>8, <1>9, <2>1 DEF SlotsPartitioned, Owned
<1>11. QED  BY <1>3, <1>4, <1>5, <1>7, <1>10 DEF TableOK

\* The places of a sequence one longer.
LEMMA Places ==
  ASSUME NEW d, NEW n \in Nat, d = 1 .. n + 1, NEW i \in d
  PROVE  i \in 1 .. n \/ i = n + 1
OBVIOUS

LEMMA RemoveOK ==
  ASSUME NEW t, TableOK(t), NEW r \in Req, NEW u, u = RemoveRequest(t, r)
  PROVE  TableOK(u) /\ Owned(u) = Owned(t) \ {r} /\ SameBut(t, u, {r})
<1>1. CASE t.index[r] = NoSlot
  <2>1. u = t  BY <1>1 DEF RemoveRequest
  <2>2. r \notin Owned(t)  BY <1>1 DEF Owned
  <2>3. QED  BY <2>1, <2>2 DEF SameBut
<1>2. CASE t.index[r] # NoSlot
  <2> DEFINE x == t.index[r]
  <2>1. u.index = [t.index EXCEPT ![r] = NoSlot] /\ u.free = Append(t.free, x)
        /\ u = [index |-> u.index, free |-> u.free]
    BY <1>2 DEF RemoveRequest
  <2>2. x \in Slot /\ t.index \in [Req -> Slot \cup {NoSlot}] /\ t.free \in Seq(Slot)
        /\ SlotsPartitioned(t)
    BY <1>2 DEF TableOK
  <2>3. u.index \in [Req -> Slot \cup {NoSlot}] /\ u.free \in Seq(Slot)
        /\ Len(u.free) = Len(t.free) + 1 /\ DOMAIN u.free = 1 .. Len(t.free) + 1
        /\ u.free[Len(t.free) + 1] = x
        /\ \A i \in DOMAIN t.free : u.free[i] = t.free[i]
        /\ DOMAIN t.free = 1 .. Len(t.free) /\ Len(t.free) \in Nat
    BY <2>1, <2>2
  <2>4. Owned(u) = Owned(t) \ {r}  BY <2>1, <2>2 DEF Owned
  <2>5. Cardinality(Owned(u)) = Cardinality(Owned(t)) - 1
    <3>1. r \in Owned(t) /\ IsFiniteSet(Owned(t))  BY <1>2, ReqFinite DEF Owned
    <3>2. QED  BY <2>4, <3>1, FS_RemoveElement
  <2>6. Len(u.free) + Cardinality(Owned(u)) = NumSlots
    BY <2>2, <2>3, <2>5, ReqFinite DEF SlotsPartitioned, Owned
  <2>7. \A q \in Req : u.index[q] = IF q = r THEN NoSlot ELSE t.index[q]  BY <2>1, <2>2
  <2>8. ASSUME NEW q \in Req, NEW p \in Req, q # p, u.index[q] # NoSlot
        PROVE  u.index[q] # u.index[p]
    BY <2>2, <2>7, <2>8 DEF SlotsPartitioned
  <2>9. ASSUME NEW q \in Req, NEW i \in DOMAIN u.free  PROVE u.index[q] # u.free[i]
    <3>1. CASE i \in DOMAIN t.free
      <4>1. t.free[i] \in Slot /\ u.free[i] = t.free[i]  BY <2>2, <2>3, <3>1
      <4>2. NoSlot # t.free[i]  BY <4>1 DEF Slot, NoSlot
      <4>3. t.index[q] # t.free[i]  BY <2>2, <3>1 DEF SlotsPartitioned
      <4>4. QED  BY <2>7, <4>1, <4>2, <4>3
    <3>2. CASE i = Len(t.free) + 1
      <4>1. u.free[i] = t.index[r]  BY <2>3, <3>2
      <4>2. QED  BY <1>2, <2>2, <2>7, <4>1 DEF SlotsPartitioned
    <3>3. i \in DOMAIN t.free \/ i = Len(t.free) + 1
      <4>1. Len(t.free) \in Nat /\ DOMAIN u.free = 1 .. Len(t.free) + 1
            /\ DOMAIN t.free = 1 .. Len(t.free)
        BY <2>3
      <4>2. QED  BY <4>1, Places
    <3>4. QED  BY <3>1, <3>2, <3>3
  <2>10. ASSUME NEW i \in DOMAIN u.free, NEW j \in DOMAIN u.free, i # j
         PROVE  u.free[i] # u.free[j]
    <3>1. \A k \in DOMAIN t.free : t.index[r] # t.free[k]
      BY <2>2 DEF SlotsPartitioned
    <3>2. \A k, l \in DOMAIN t.free : k # l => t.free[k] # t.free[l]
      BY <2>2 DEF SlotsPartitioned
    <3>3. CASE i \in DOMAIN t.free /\ j \in DOMAIN t.free
      BY <2>3, <2>10, <3>2, <3>3
    <3>4. CASE i \in DOMAIN t.free /\ j = Len(t.free) + 1
      BY <2>3, <3>1, <3>4
    <3>5. CASE i = Len(t.free) + 1 /\ j \in DOMAIN t.free
      BY <2>3, <3>1, <3>5
    <3>6. /\ i \in DOMAIN t.free \/ i = Len(t.free) + 1
          /\ j \in DOMAIN t.free \/ j = Len(t.free) + 1
      <4>1. Len(t.free) \in Nat /\ DOMAIN u.free = 1 .. Len(t.free) + 1
            /\ DOMAIN t.free = 1 .. Len(t.free)
        BY <2>3
      <4>2. QED  BY <4>1, Places
    <3>7. QED  BY <2>10, <3>3, <3>4, <3>5, <3>6
  <2>11. SlotsPartitioned(u)
    BY <2>6, <2>8, <2>9, <2>10 DEF SlotsPartitioned, Owned
  <2>12. QED  BY <2>1, <2>3, <2>4, <2>7, <2>11 DEF TableOK, SameBut
<1>3. QED  BY <1>1, <1>2

\* A free slot is there as long as fewer requests than slots own one.
LEMMA AddOK ==
  ASSUME NEW t, TableOK(t), NEW r \in Req,
         Cardinality(Owned(t) \cup {r}) <= NumSlots,
         NEW v, v = AddRequest(t, r)
  PROVE  TableOK(v) /\ Owned(v) = Owned(t) \cup {r} /\ SameBut(t, v, {r})
<1> DEFINE u == RemoveRequest(t, r)
           x == Last(u.free)
           n == Len(u.free)
<1>1. TableOK(u) /\ Owned(u) = Owned(t) \ {r} /\ SameBut(t, u, {r})  BY RemoveOK
<1> HIDE DEF u
<1>2. u.index \in [Req -> Slot \cup {NoSlot}] /\ u.free \in Seq(Slot) /\ SlotsPartitioned(u)
  BY <1>1 DEF TableOK
<1>3. n > 0 /\ n \in Nat
  <2>1. Owned(u) \cup {r} = Owned(t) \cup {r} /\ r \notin Owned(u)  BY <1>1
  <2>2. IsFiniteSet(Owned(u)) /\ Cardinality(Owned(u)) \in Nat  BY ReqFinite DEF Owned
  <2>3. Cardinality(Owned(u) \cup {r}) = Cardinality(Owned(u)) + 1
    BY <2>1, <2>2, FS_AddElement
  <2>4. n + Cardinality(Owned(u)) = NumSlots  BY <1>2 DEF SlotsPartitioned, Owned
  <2>5. n \in Nat /\ NumSlots \in Nat  BY <1>2, SlotAssumption
  <2>6. Cardinality(Owned(u) \cup {r}) <= NumSlots  BY <2>1
  <2> HIDE DEF n
  <2>7. QED  BY <2>2, <2>3, <2>4, <2>5, <2>6
<1>4. u.free # <<>>  BY <1>3
<1>5. v = [index |-> [u.index EXCEPT ![r] = x], free |-> Front(u.free)]
  BY <1>4 DEF AddRequest, u
<1>6. v.index = [u.index EXCEPT ![r] = x] /\ v.free = Front(u.free)
      /\ v = [index |-> v.index, free |-> v.free]
  BY <1>5
<1>7. x = u.free[n] /\ x \in Slot /\ x # NoSlot
      /\ Front(u.free) \in Seq(Slot) /\ Len(Front(u.free)) = n - 1
      /\ DOMAIN Front(u.free) = 1 .. n - 1 /\ DOMAIN u.free = 1 .. n
      /\ \A i \in 1 .. n - 1 : Front(u.free)[i] = u.free[i]
  <2>1. DOMAIN u.free = 1 .. n /\ \A i \in 1 .. n : u.free[i] \in Slot  BY <1>2
  <2>2. x = u.free[n] /\ x \in Slot  BY <1>3, <2>1 DEF Last
  <2>3. Front(u.free) = [i \in 1 .. n - 1 |-> u.free[i]]  BY <1>2, <1>3, <2>1 DEF Front
  <2>4. x # NoSlot  BY <2>2 DEF Slot, NoSlot
  <2>5. n - 1 \in Nat  BY <1>3
  <2>6. Front(u.free) \in [1 .. n - 1 -> Slot]  BY <2>1, <2>3
  <2>7. QED  BY <2>1, <2>2, <2>3, <2>4, <2>5, <2>6
<1> HIDE DEF x
<1>8. \A q \in Req : v.index[q] = IF q = r THEN x ELSE u.index[q]  BY <1>2, <1>6
<1>9. r \notin Owned(u) /\ u.index[r] = NoSlot  BY <1>1 DEF Owned
<1>10. Owned(v) = Owned(u) \cup {r}  BY <1>7, <1>8 DEF Owned
<1>11. Owned(v) = Owned(t) \cup {r}  BY <1>1, <1>10
<1>12. Cardinality(Owned(v)) = Cardinality(Owned(u)) + 1
  BY <1>9, <1>10, ReqFinite, FS_AddElement DEF Owned
<1>13. Len(v.free) + Cardinality(Owned(v)) = NumSlots
  <2>1. n + Cardinality(Owned(u)) = NumSlots  BY <1>2 DEF SlotsPartitioned, Owned
  <2>2. Cardinality(Owned(u)) \in Nat  BY ReqFinite DEF Owned
  <2>3. Len(v.free) = n - 1  BY <1>6, <1>7
  <2> HIDE DEF n
  <2>4. QED  BY <1>3, <1>12, <2>1, <2>2, <2>3
<1>14. ASSUME NEW i \in 1 .. n - 1 PROVE x # u.free[i]
  <2>1. i \in DOMAIN u.free /\ n \in DOMAIN u.free /\ i # n  BY <1>3, <1>7
  <2>2. QED  BY <1>2, <1>7, <2>1 DEF SlotsPartitioned
<1>15. ASSUME NEW q \in Req, NEW p \in Req, q # p, v.index[q] # NoSlot
       PROVE  v.index[q] # v.index[p]
  <2>1. \A k \in Req : u.index[k] # x  BY <1>2, <1>3, <1>7 DEF SlotsPartitioned
  <2>2. QED  BY <1>2, <1>8, <1>15, <2>1 DEF SlotsPartitioned
<1>16. ASSUME NEW q \in Req, NEW i \in DOMAIN v.free PROVE v.index[q] # v.free[i]
  <2>1. i \in 1 .. n - 1 /\ v.free[i] = u.free[i] /\ i \in DOMAIN u.free
    BY <1>3, <1>6, <1>7
  <2>2. u.index[q] # u.free[i]  BY <1>2, <2>1 DEF SlotsPartitioned
  <2>3. QED  BY <1>8, <1>14, <2>1, <2>2
<1>17. ASSUME NEW i \in DOMAIN v.free, NEW j \in DOMAIN v.free, i # j
       PROVE  v.free[i] # v.free[j]
  <2>1. i \in 1 .. n - 1 /\ v.free[i] = u.free[i] /\ i \in DOMAIN u.free
        /\ j \in 1 .. n - 1 /\ v.free[j] = u.free[j] /\ j \in DOMAIN u.free
    BY <1>3, <1>6, <1>7
  <2>2. QED  BY <1>2, <1>17, <2>1 DEF SlotsPartitioned
<1>18. SlotsPartitioned(v)
  BY <1>13, <1>15, <1>16, <1>17 DEF SlotsPartitioned, Owned
<1>19. v.index \in [Req -> Slot \cup {NoSlot}]  BY <1>2, <1>6, <1>7
<1>20. TableOK(v)  BY <1>6, <1>7, <1>18, <1>19 DEF TableOK
<1>21. SameBut(t, v, {r})  BY <1>1, <1>8 DEF SameBut
<1>22. QED  BY <1>11, <1>20, <1>21

\* The requests of a sequence.
Members(s) == {s[i] : i \in DOMAIN s}

\* finish_requests frees the slots of all its requests and of no other.
LEMMA FinishOK ==
  ASSUME NEW t, TableOK(t), NEW n \in Nat, NEW s \in [1 .. n -> Req],
         NEW u, u = FinishRequests(t, s)
  PROVE  TableOK(u) /\ Owned(u) = Owned(t) \ Members(s) /\ SameBut(t, u, Members(s))
<1>0. PICK h : RemoveHistory(h, t, s, n)
  <2>1. DOMAIN s = 1 .. n  OBVIOUS
  <2>2. QED  BY <2>1, FoldRemove
<1>1. h[0] = t /\ (\A i \in 1 .. n : h[i] = RemoveRequest(h[i - 1], s[i])) /\ u = h[n]
  BY <1>0 DEF RemoveHistory
<1> DEFINE M(i) == {s[j] : j \in 1 .. i}
           OK(i) == TableOK(h[i]) /\ Owned(h[i]) = Owned(t) \ M(i) /\ SameBut(t, h[i], M(i))
           T == {i \in Nat : i <= n => OK(i)}
<1>2. 0 \in T
  <2>1. M(0) = {}  OBVIOUS
  <2>2. QED  BY <1>1, <2>1 DEF SameBut
<1>3. ASSUME NEW i \in Nat, i \in T PROVE i + 1 \in T
  <2> SUFFICES ASSUME i + 1 <= n PROVE OK(i + 1)
    OBVIOUS
  <2>1. OK(i) /\ i + 1 \in 1 .. n /\ s[i + 1] \in Req  BY <1>3
  <2>2. h[i + 1] = RemoveRequest(h[i], s[i + 1])  BY <1>1, <2>1
  <2>3. M(i + 1) = M(i) \cup {s[i + 1]}  OBVIOUS
  <2> HIDE DEF M
  <2>4. TableOK(h[i + 1]) /\ Owned(h[i + 1]) = Owned(h[i]) \ {s[i + 1]}
        /\ SameBut(h[i], h[i + 1], {s[i + 1]})
    BY <2>1, <2>2, RemoveOK
  <2>5. QED  BY <2>1, <2>3, <2>4 DEF SameBut
<1>4. n \in T
  <2> HIDE DEF T
  <2>1. Inductive(T)  BY <1>2, <1>3 DEF Inductive
  <2>2. QED  BY <2>1, SetInduction
<1>5. M(n) = Members(s)  BY DEF Members
<1> HIDE DEF M
<1>6. QED  BY <1>1, <1>4, <1>5

\* add_requests gives each of its requests a slot, as long as there are enough.
LEMMA AddAllOK ==
  ASSUME NEW t, TableOK(t), NEW n \in Nat, NEW s \in [1 .. n -> Req],
         Cardinality(Owned(t) \cup Members(s)) <= NumSlots,
         NEW u, u = AddRequests(t, s)
  PROVE  TableOK(u) /\ Owned(u) = Owned(t) \cup Members(s) /\ SameBut(t, u, Members(s))
<1>0. PICK h : AddHistory(h, t, s, n)
  <2>1. DOMAIN s = 1 .. n  OBVIOUS
  <2>2. QED  BY <2>1, FoldAdd
<1>1. h[0] = t /\ (\A i \in 1 .. n : h[i] = AddRequest(h[i - 1], s[i])) /\ u = h[n]
  BY <1>0 DEF AddHistory
<1> DEFINE M(i) == {s[j] : j \in 1 .. i}
           OK(i) == TableOK(h[i]) /\ Owned(h[i]) = Owned(t) \cup M(i) /\ SameBut(t, h[i], M(i))
           T == {i \in Nat : i <= n => OK(i)}
<1>2. 0 \in T
  <2>1. M(0) = {}  OBVIOUS
  <2>2. QED  BY <1>1, <2>1 DEF SameBut
<1>3. ASSUME NEW i \in Nat, i \in T PROVE i + 1 \in T
  <2> SUFFICES ASSUME i + 1 <= n PROVE OK(i + 1)
    OBVIOUS
  <2>1. OK(i) /\ i + 1 \in 1 .. n /\ s[i + 1] \in Req  BY <1>3
  <2>2. h[i + 1] = AddRequest(h[i], s[i + 1])  BY <1>1, <2>1
  <2>3. M(i + 1) = M(i) \cup {s[i + 1]} /\ M(i + 1) \subseteq Members(s)  BY DEF Members
  <2> HIDE DEF M
  <2>4. Owned(h[i]) \cup {s[i + 1]} = Owned(t) \cup M(i + 1)  BY <2>1, <2>3
  <2>5. Owned(t) \cup M(i + 1) \subseteq Owned(t) \cup Members(s)
        /\ Owned(t) \cup Members(s) \subseteq Req
    BY <2>3 DEF Owned, Members
  <2>6. Cardinality(Owned(t) \cup M(i + 1)) <= Cardinality(Owned(t) \cup Members(s))
    BY <2>5, ReqFinite, FS_Subset
  <2>7. Cardinality(Owned(t) \cup M(i + 1)) \in Nat
        /\ Cardinality(Owned(t) \cup Members(s)) \in Nat /\ NumSlots \in Nat
    <3>1. Owned(t) \cup M(i + 1) \in SUBSET Req /\ Owned(t) \cup Members(s) \in SUBSET Req
      BY <2>5
    <3>2. QED  BY <3>1, ReqFinite, SlotAssumption
  <2>a. Cardinality(Owned(t) \cup M(i + 1)) <= NumSlots  BY <2>6, <2>7
  <2>8. Cardinality(Owned(h[i]) \cup {s[i + 1]}) <= NumSlots
    BY <2>4, <2>a
  <2>9. TableOK(h[i + 1]) /\ Owned(h[i + 1]) = Owned(h[i]) \cup {s[i + 1]}
        /\ SameBut(h[i], h[i + 1], {s[i + 1]})
    BY <2>1, <2>2, <2>8, AddOK
  <2>10. QED  BY <2>1, <2>3, <2>9 DEF SameBut
<1>4. n \in T
  <2> HIDE DEF T
  <2>1. Inductive(T)  BY <1>2, <1>3 DEF Inductive
  <2>2. QED  BY <2>1, SetInduction
<1>5. M(n) = Members(s)  BY DEF Members
<1> HIDE DEF M
<1>6. QED  BY <1>1, <1>4, <1>5

\* u is t with some requests freed and then some added, in an order; they and
\* those that stay are W, and the slots are enough for W.
Updates(t, gone, new, order, W, u) ==
  /\ gone \subseteq Req /\ new \subseteq Req /\ order \in SetToSeqs(new)
  /\ W = (Owned(t) \ gone) \cup new /\ Cardinality(W) <= NumSlots
  /\ u = UpdateTable(t, SortedIds(gone), order)

\* A sound table, and the requests that own a slot in it.
Holding(t, S) == TableOK(t) /\ Owned(t) = S

\* The top of execute_model: finished requests lose their slots, added ones have one,
\* and the others keep theirs.
LEMMA UpdateTableOK ==
  ASSUME NEW t, TableOK(t), NEW gone, NEW new, NEW order, NEW W,
         NEW u, Updates(t, gone, new, order, W, u)
  PROVE  Holding(u, W) /\ SameBut(t, u, gone \cup new)
<1> DEFINE a == SortedIds(gone)
           m == FinishRequests(t, a)
<1>0. u = AddRequests(m, order)  BY DEF UpdateTable, Updates
<1>a. gone \in SUBSET Req /\ new \in SUBSET Req /\ order \in SetToSeqs(new)
      /\ W = (Owned(t) \ gone) \cup new /\ Cardinality(W) <= NumSlots
  BY DEF Updates
<1>1. a \in SetToSeqs(gone)  BY <1>a, SortedIdsOK
<1> HIDE DEF a
<1>2. Members(a) = gone /\ Cardinality(gone) \in Nat /\ a \in [1 .. Cardinality(gone) -> Req]
  BY <1>1, <1>a, SeqsOfSet, ReqFinite DEF Members, SetToSeqs
<1>3. Members(order) = new /\ Cardinality(new) \in Nat
      /\ order \in [1 .. Cardinality(new) -> Req]
  BY <1>a, SeqsOfSet, ReqFinite DEF Members, SetToSeqs
<1>4. TableOK(m) /\ Owned(m) = Owned(t) \ gone /\ SameBut(t, m, gone)
  BY <1>2, FinishOK
<1> HIDE DEF m
<1>5. TableOK(u) /\ Owned(u) = Owned(m) \cup new /\ SameBut(m, u, new)
  BY <1>0, <1>a, <1>3, <1>4, AddAllOK
<1>6. SameBut(t, u, gone \cup new)  BY <1>4, <1>5 DEF SameBut
<1>7. Owned(u) = W  BY <1>a, <1>4, <1>5
<1>8. QED  BY <1>5, <1>6, <1>7 DEF Holding

-----------------------------------------------------------------------------
(* The ranks.                                                                *)

\* The table after an output, from the one before it.
TableAfter(t, out) ==
    UpdateTable(t, SortedIds(out.finished \cup out.preempted), out.new)

\* h is the history of tables of the outputs os.
History(h, os) ==
    /\ h[0] = FreshTable
    /\ \A n \in 1..Len(os) : h[n] = TableAfter(h[n - 1], os[n])

\* A rank that has executed n outputs holds the n-th table and batch rows.
AtEntry(t, rs, h, os, n) ==
    /\ t = h[n]
    /\ rs = IF n = 0 THEN <<>> ELSE BatchRows(h[n], os[n].batch)

RanksTypeInv ==
    /\ \E S : outputs \in Seq(S)
    /\ applied \in [Ranks -> Nat]
    /\ \A k \in Ranks : applied[k] <= Len(outputs)
    /\ tables = [k \in Ranks |-> tables[k]]
    /\ mapping = [k \in Ranks |-> mapping[k]]

OneHistory ==
    \E h : /\ History(h, outputs)
           /\ \A k \in Ranks : AtEntry(tables[k], mapping[k], h, outputs, applied[k])

RanksInv == RanksTypeInv /\ OneHistory

-----------------------------------------------------------------------------
\* sorted() leaves one order to free the slots in: every rank's step is a
\* function of its table and the output.
LEMMA OneOrder ==
    ASSUME NEW k \in Ranks, RankExecutes(k)
    PROVE  LET out == outputs[applied[k] + 1] IN
           /\ tables' = [tables EXCEPT ![k] = TableAfter(tables[k], out)]
           /\ mapping' = [mapping EXCEPT ![k] =
                         BatchRows(TableAfter(tables[k], out), out.batch)]
BY DEF RankExecutes, FinishOrders, TableAfter

\* A history is extended by one entry when an output is broadcast.
LEMMA HistoryExtends ==
    ASSUME NEW S, NEW os \in Seq(S), NEW out, NEW h, History(h, os)
    PROVE  LET g == [n \in 0..(Len(os) + 1) |->
                       IF n <= Len(os) THEN h[n] ELSE TableAfter(h[Len(os)], out)]
           IN  /\ History(g, Append(os, out))
               /\ \A n \in 0..Len(os) : g[n] = h[n]
<1> DEFINE last == TableAfter(h[Len(os)], out)
           g == [n \in 0..(Len(os) + 1) |-> IF n <= Len(os) THEN h[n] ELSE last]
           us == Append(os, out)
<1>0. os \in Seq(S \cup {out})
  OBVIOUS
<1>1. Len(os) \in Nat /\ Len(us) = Len(os) + 1 /\ us[Len(os) + 1] = out
  BY <1>0
<1>2. \A n \in 1..Len(os) : us[n] = os[n]
  BY <1>0
<1>3. \A n \in 0..Len(os) : g[n] = h[n]
  BY <1>1
<1>4. g[Len(os) + 1] = last
  BY <1>1
<1>5. g[0] = FreshTable
  BY <1>1, <1>3 DEF History
<1>6. ASSUME NEW n \in 1..Len(us)
      PROVE  g[n] = TableAfter(g[n - 1], us[n])
  <2>1. CASE n <= Len(os)
    <3>1. n \in 1..Len(os) /\ n \in 0..Len(os) /\ n - 1 \in 0..Len(os)
      BY <1>1, <2>1
    <3>2. h[n] = TableAfter(h[n - 1], os[n])
      BY <3>1 DEF History
    <3> HIDE DEF g, us
    <3> QED
      BY <3>1, <3>2, <1>2, <1>3
  <2>2. CASE n = Len(os) + 1
    <3>1. n - 1 = Len(os) /\ Len(os) \in 0..Len(os)
      BY <1>1, <2>2
    <3> HIDE DEF g, us
    <3> QED
      BY <3>1, <2>2, <1>1, <1>3, <1>4
  <2> QED
    BY <1>1, <2>1, <2>2
<1> HIDE DEF us
<1>7. History(g, us)
  BY <1>5, <1>6 DEF History
<1> QED
  BY <1>3, <1>7 DEF us

-----------------------------------------------------------------------------
\* Before the first output every rank holds the fresh table.
LEMMA InitRanksInv == RanksInit => RanksInv
<1> SUFFICES ASSUME RanksInit PROVE RanksInv
  OBVIOUS
<1>1. RanksTypeInv
  BY DEF RanksInit, RanksTypeInv
<1> DEFINE h == [n \in {0} |-> FreshTable]
<1>2. History(h, outputs)
  BY DEF RanksInit, History
<1>3. \A k \in Ranks : AtEntry(tables[k], mapping[k], h, outputs, applied[k])
  BY DEF RanksInit, AtEntry
<1> HIDE DEF h
<1> QED
  BY <1>1, <1>2, <1>3 DEF RanksInv, OneHistory

\* A broadcast lengthens the history; a rank's step moves it along the history.
LEMMA NextRanksInv == RanksInv /\ [RanksNext]_rankVars => RanksInv'
<1> SUFFICES ASSUME RanksInv, [RanksNext]_rankVars PROVE RanksInv'
  OBVIOUS
<1> USE DEF RanksInv
<1>1. PICK h : /\ History(h, outputs)
               /\ \A k \in Ranks : AtEntry(tables[k], mapping[k], h, outputs, applied[k])
  BY DEF OneHistory
<1>2. PICK S : outputs \in Seq(S)
  BY DEF RanksTypeInv
<1>3. Len(outputs) \in Nat
  BY <1>2
<1>4. CASE Schedule
  <2>1. PICK out : outputs' = Append(outputs, out)
    BY <1>4 DEF Schedule
  <2>2. UNCHANGED <<applied, tables, mapping>>
    BY <1>4 DEF Schedule
  <2> DEFINE g == [n \in 0..(Len(outputs) + 1) |->
                     IF n <= Len(outputs) THEN h[n]
                     ELSE TableAfter(h[Len(outputs)], out)]
  <2>3. History(g, outputs') /\ \A n \in 0..Len(outputs) : g[n] = h[n]
    BY <1>1, <1>2, <2>1, HistoryExtends
  <2> HIDE DEF g
  <2>4. /\ outputs \in Seq(S \cup {out})
        /\ outputs' \in Seq(S \cup {out})
        /\ Len(outputs') = Len(outputs) + 1
        /\ \A n \in 1..Len(outputs) : outputs'[n] = outputs[n]
    BY <1>2, <2>1
  <2>5. RanksTypeInv'
    BY <2>2, <2>4, <1>3 DEF RanksTypeInv
  <2>6. ASSUME NEW k \in Ranks
        PROVE  AtEntry(tables[k], mapping[k], g, outputs', applied[k])
    <3>1. applied[k] \in 0..Len(outputs)
      BY <1>3 DEF RanksTypeInv
    <3>2. applied[k] # 0 => applied[k] \in 1..Len(outputs)
      BY <3>1, <1>3
    <3>3. AtEntry(tables[k], mapping[k], h, outputs, applied[k])
      BY <1>1
    <3> QED
      BY <3>1, <3>2, <3>3, <2>3, <2>4 DEF AtEntry
  <2> QED
    BY <2>2, <2>3, <2>5, <2>6 DEF OneHistory
<1>5. ASSUME NEW k \in Ranks, RankExecutes(k)
      PROVE  RanksInv'
  <2> DEFINE n == applied[k] + 1
             t == TableAfter(tables[k], outputs[n])
  <2>1. /\ applied[k] \in Nat /\ n \in 1..Len(outputs) /\ n - 1 = applied[k]
        /\ UNCHANGED outputs /\ applied' = [applied EXCEPT ![k] = n]
    BY <1>3, <1>5 DEF RankExecutes, RanksTypeInv
  <2>2. /\ tables' = [tables EXCEPT ![k] = t]
        /\ mapping' = [mapping EXCEPT ![k] = BatchRows(t, outputs[n].batch)]
    BY <1>5, OneOrder
  <2>3. h[n] = t
    <3>1. h[n] = TableAfter(h[n - 1], outputs[n])
      BY <1>1, <2>1 DEF History
    <3>2. tables[k] = h[n - 1]
      BY <1>1, <2>1 DEF AtEntry
    <3> QED
      BY <3>1, <3>2
  <2> HIDE DEF t
  <2>4. RanksTypeInv'
    <3>1. n \in Nat /\ n <= Len(outputs)
      BY <2>1, <1>3
    <3> HIDE DEF n
    <3> QED
      BY <2>1, <2>2, <3>1, <1>3 DEF RanksTypeInv
  <2>5. ASSUME NEW j \in Ranks
        PROVE  AtEntry(tables'[j], mapping'[j], h, outputs, applied'[j])
    <3>1. CASE j = k
      <4>1. /\ applied'[k] = n /\ tables'[k] = t
            /\ mapping'[k] = BatchRows(t, outputs[n].batch)
        <5> HIDE DEF n
        <5> QED
          BY <2>1, <2>2 DEF RanksTypeInv
      <4>2. n # 0
        BY <2>1
      <4> HIDE DEF n
      <4> QED
        BY <3>1, <4>1, <4>2, <2>3 DEF AtEntry
    <3>2. CASE j # k
      <4>1. applied'[j] = applied[j] /\ tables'[j] = tables[j] /\ mapping'[j] = mapping[j]
        <5> HIDE DEF n
        <5> QED
          BY <3>2, <2>1, <2>2 DEF RanksTypeInv
      <4> QED
        BY <4>1, <1>1
    <3> QED
      BY <3>1, <3>2
  <2> QED
    BY <1>1, <2>1, <2>4, <2>5 DEF OneHistory
<1>6. CASE UNCHANGED rankVars
  BY <1>6 DEF rankVars, RanksTypeInv, OneHistory
<1> QED
  BY <1>4, <1>5, <1>6 DEF RanksNext

-----------------------------------------------------------------------------
(* What the tables hold.  A table says which requests own a slot after some   *)
(* outputs, and the scheduler's live set is the one after all of them: the    *)
(* invariant keeps the live sets of the past, one per output, and each was    *)
(* small enough for the table of its time.                                    *)

\* The requests the scheduler runs after an output, from those before it.
LiveAfter(S, out) == (S \ (out.finished \cup out.preempted)) \cup Members(out.new)

\* An output the scheduler may send when S is live.
Lawful(S, out) ==
    /\ out.finished \cup out.preempted \subseteq S
    /\ Members(out.new) \subseteq Req
    /\ out.new \in SetToSeqs(Members(out.new))
    /\ Cardinality(LiveAfter(S, out)) <= NumSlots

\* L is the history of live sets of the outputs os.
LiveHistory(L, os) ==
    /\ L[0] = {}
    /\ \A n \in 1..Len(os) : /\ L[n - 1] \subseteq Req /\ Lawful(L[n - 1], os[n])
                            /\ L[n] = LiveAfter(L[n - 1], os[n])

LiveInv ==
    /\ live \subseteq Req
    /\ \E L : LiveHistory(L, outputs) /\ L[Len(outputs)] = live

\* The step of Schedule that sends one output.
Sends(finished, preempted, new, order) ==
    LET stay == live \ (finished \cup preempted) IN
    /\ Cardinality(stay \cup new) <= NumSlots
    /\ outputs' = Append(outputs, [finished |-> finished,
                                   preempted |-> preempted,
                                   new |-> order,
                                   batch |-> SortedIds(stay \cup new)])
    /\ live' = stay \cup new

\* Schedule sends a lawful output.
LEMMA ScheduleLawful ==
    ASSUME LiveInv, Schedule
    PROVE  \E out : /\ outputs' = Append(outputs, out) /\ Lawful(live, out)
                    /\ live' = LiveAfter(live, out)
<1>1. PICK finished \in SUBSET live : \E preempted \in SUBSET (live \ finished) :
         \E new \in SUBSET (Req \ (done \cup finished \cup preempted)) :
           \E order \in SetToSeqs(new) :
           Sends(finished, preempted, new, order)
  BY DEF Schedule, Sends
<1>a. PICK preempted \in SUBSET (live \ finished) :
         \E new \in SUBSET (Req \ (done \cup finished \cup preempted)) :
           \E order \in SetToSeqs(new) :
           Sends(finished, preempted, new, order)
  BY <1>1
<1>b. PICK new \in SUBSET (Req \ (done \cup finished \cup preempted)) :
           \E order \in SetToSeqs(new) :
           Sends(finished, preempted, new, order)
  BY <1>a
<1>2. PICK order \in SetToSeqs(new) :
           Sends(finished, preempted, new, order)
  BY <1>b
<1> DEFINE b == SortedIds((live \ (finished \cup preempted)) \cup new)
           out == [finished |-> finished, preempted |-> preempted, new |-> order, batch |-> b]
<1>3. outputs' = Append(outputs, out)  BY <1>2 DEF Sends
<1> HIDE DEF b
<1>4. new \in SUBSET Req /\ Members(order) = new
  BY SeqsOfSet, ReqFinite DEF Members
<1>5. LiveAfter(live, out) = (live \ (finished \cup preempted)) \cup new
  BY <1>4 DEF LiveAfter
<1>6. live' = LiveAfter(live, out) /\ Cardinality(LiveAfter(live, out)) <= NumSlots
  BY <1>2, <1>5 DEF Sends
<1>7. out.finished \cup out.preempted \subseteq live  OBVIOUS
<1>8. Lawful(live, out)  BY <1>4, <1>6, <1>7 DEF Lawful
<1> HIDE DEF out
<1>9. QED  BY <1>3, <1>6, <1>8

\* The live sets of the past stay what they were; Schedule adds one.
LEMMA NextLiveInv == RanksInv /\ LiveInv /\ [RanksNext]_rankVars => LiveInv'
<1> SUFFICES ASSUME RanksInv, LiveInv, [RanksNext]_rankVars PROVE LiveInv'
  OBVIOUS
<1>1. PICK L : LiveHistory(L, outputs) /\ L[Len(outputs)] = live  BY DEF LiveInv
<1>2. PICK S : outputs \in Seq(S)  BY DEF RanksInv, RanksTypeInv
<1>3. CASE Schedule
  <2>1. PICK out : /\ outputs' = Append(outputs, out) /\ Lawful(live, out)
                   /\ live' = LiveAfter(live, out)
    BY <1>3, ScheduleLawful
  <2> DEFINE m == Len(outputs)
             K == [n \in 0..(m + 1) |-> IF n <= m THEN L[n] ELSE live']
  <2>2. m \in Nat /\ Len(outputs') = m + 1 /\ outputs'[m + 1] = out
        /\ \A n \in 1..m : outputs'[n] = outputs[n]
    <3>1. outputs \in Seq(S \cup {out})  BY <1>2
    <3>2. QED  BY <2>1, <3>1
  <2> HIDE DEF m
  <2>3. K[m + 1] = live' /\ \A n \in 0..m : K[n] = L[n]  BY <2>2
  <2>4. K[0] = {}  BY <1>1, <2>2, <2>3 DEF LiveHistory
  <2>5. ASSUME NEW n \in 1..(m + 1)
        PROVE  /\ K[n - 1] \subseteq Req /\ Lawful(K[n - 1], outputs'[n])
               /\ K[n] = LiveAfter(K[n - 1], outputs'[n])
    <3>1. CASE n = m + 1
      <4>1. n - 1 = m /\ m \in 0..m  BY <2>2, <3>1
      <4>2. K[n - 1] = live  BY <1>1, <2>3, <4>1 DEF m
      <4> HIDE DEF K
      <4>3. QED  BY <2>1, <2>2, <2>3, <3>1, <4>2 DEF LiveInv
    <3>2. CASE n \in 1..m
      <4>1. n - 1 \in 0..m /\ n \in 0..m  BY <2>2, <3>2
      <4> HIDE DEF K
      <4>2. QED  BY <1>1, <2>2, <2>3, <3>2, <4>1 DEF LiveHistory, m
    <3>3. n = m + 1 \/ n \in 1..m  BY <2>2
    <3>4. QED  BY <3>1, <3>2, <3>3
  <2> HIDE DEF K
  <2>6. LiveHistory(K, outputs')  BY <2>2, <2>4, <2>5 DEF LiveHistory
  <2>7. live' \subseteq Req  BY <2>1 DEF Lawful, LiveAfter, LiveInv
  <2>8. QED  BY <2>2, <2>3, <2>6, <2>7 DEF LiveInv
<1>4. ASSUME NEW k \in Ranks, RankExecutes(k) PROVE LiveInv'
  BY <1>4 DEF RankExecutes, LiveInv
<1>5. CASE UNCHANGED rankVars
  BY <1>5 DEF rankVars, LiveInv
<1>6. QED  BY <1>3, <1>4, <1>5 DEF RanksNext

\* A lawful output takes a sound table to a sound one, owned by the live requests.
LEMMA TableAfterOK ==
    ASSUME NEW t, TableOK(t), NEW out, Lawful(Owned(t), out)
    PROVE  /\ TableOK(TableAfter(t, out))
           /\ Owned(TableAfter(t, out)) = LiveAfter(Owned(t), out)
<1>1. PICK gone : gone = out.finished \cup out.preempted  OBVIOUS
<1>2. PICK order : order = out.new  OBVIOUS
<1>3. PICK new : new = Members(order)  OBVIOUS
<1>4. PICK W : W = (Owned(t) \ gone) \cup new  OBVIOUS
<1>5. PICK u : u = UpdateTable(t, SortedIds(gone), order)  OBVIOUS
<1>6. W = LiveAfter(Owned(t), out) /\ u = TableAfter(t, out)
  BY <1>1, <1>2, <1>3, <1>4, <1>5 DEF LiveAfter, TableAfter
<1>7. Updates(t, gone, new, order, W, u)
  BY <1>1, <1>2, <1>3, <1>4, <1>5, <1>6 DEF Updates, Lawful, Owned
<1>8. Holding(u, W)  BY <1>7, UpdateTableOK
<1>9. QED  BY <1>6, <1>8 DEF Holding

\* Each table of the history is sound, and its owners are the live set of its time.
LEMMA TablesHoldLive ==
    ASSUME NEW os, NEW h, History(h, os), NEW L, LiveHistory(L, os), Len(os) \in Nat,
           NEW n \in 0..Len(os)
    PROVE  TableOK(h[n]) /\ Owned(h[n]) = L[n]
<1> DEFINE OK(i) == TableOK(h[i]) /\ Owned(h[i]) = L[i]
           T == {i \in Nat : i <= Len(os) => OK(i)}
<1>1. 0 \in T  BY FreshTableOK DEF History, LiveHistory
<1>2. ASSUME NEW i \in Nat, i \in T PROVE i + 1 \in T
  <2> SUFFICES ASSUME i + 1 <= Len(os) PROVE OK(i + 1)
    OBVIOUS
  <2>1. OK(i) /\ i + 1 \in 1..Len(os) /\ (i + 1) - 1 = i  BY <1>2
  <2>2. h[i + 1] = TableAfter(h[i], os[i + 1])  BY <2>1 DEF History
  <2>3. L[i] \subseteq Req /\ Lawful(L[i], os[i + 1])
        /\ L[i + 1] = LiveAfter(L[i], os[i + 1])
    BY <2>1 DEF LiveHistory
  <2>4. QED  BY <2>1, <2>2, <2>3, TableAfterOK
<1>3. n \in T
  <2> HIDE DEF T
  <2>1. Inductive(T)  BY <1>1, <1>2 DEF Inductive
  <2>2. n \in Nat /\ n \in T  BY <2>1, SetInduction
  <2>3. QED  BY <2>2
<1>4. QED  BY <1>3

\* On every rank each slot is owned by one request or free, once, and a rank that
\* has caught up holds the scheduler's running requests: over streaming re-adds,
\* preemptions and finishes no slot is lost or given twice, for any numbers.
THEOREM SlotsAlwaysHoldLive == RanksSpec => []SlotsHoldLive
<1>1. RanksInit => LiveInv
  <2> SUFFICES ASSUME RanksInit PROVE LiveInv
    OBVIOUS
  <2> DEFINE L == [n \in {0} |-> {}]
  <2>1. LiveHistory(L, outputs) /\ L[Len(outputs)] = live
    BY DEF RanksInit, LiveHistory
  <2> HIDE DEF L
  <2>2. QED  BY <2>1 DEF RanksInit, LiveInv
<1>2. RanksInv /\ LiveInv => SlotsHoldLive
  <2> SUFFICES ASSUME RanksInv, LiveInv, NEW k \in Ranks
               PROVE  /\ SlotsPartitioned(tables[k])
                      /\ applied[k] = Len(outputs) => Owned(tables[k]) = live
    BY DEF SlotsHoldLive, Owned
  <2>1. PICK h : /\ History(h, outputs)
                 /\ \A j \in Ranks : AtEntry(tables[j], mapping[j], h, outputs, applied[j])
    BY DEF RanksInv, OneHistory
  <2>2. PICK L : LiveHistory(L, outputs) /\ L[Len(outputs)] = live  BY DEF LiveInv
  <2>3. Len(outputs) \in Nat /\ applied[k] \in 0..Len(outputs)
    BY DEF RanksInv, RanksTypeInv
  <2>4. tables[k] = h[applied[k]]  BY <2>1 DEF AtEntry
  <2>5. TableOK(tables[k]) /\ Owned(tables[k]) = L[applied[k]]
    BY <2>1, <2>2, <2>3, <2>4, TablesHoldLive
  <2>6. QED  BY <2>2, <2>5 DEF TableOK
<1> QED
  BY InitRanksInv, NextRanksInv, NextLiveInv, <1>1, <1>2, PTL DEF RanksSpec

-----------------------------------------------------------------------------
\* Ranks that have executed the same outputs own the same slot table, free list
\* included, and run their last batch on the same rows: for any requests, slots
\* and ranks, because finish_requests sorts the set it iterates over.
THEOREM RanksAlwaysAgree == RanksSpec => []RanksAgree
<1>1. RanksInv => RanksAgree
  BY DEF RanksInv, OneHistory, AtEntry, RanksAgree
<1> QED
  BY InitRanksInv, NextRanksInv, <1>1, PTL DEF RanksSpec

-----------------------------------------------------------------------------
(* query_start_loc: a sum of query lengths, one item at a time.              *)

SumStep(g, s, S) == IF S = {} THEN 0 ELSE g[S \ {Max(S)}] + s[Max(S)]

IsSumIter(g, s, n) == g = [S \in SUBSET (1 .. n) |-> SumStep(g, s, S)]

LEMMA SumIterExists ==
  ASSUME NEW s
  PROVE  \A n \in Nat : \E g : IsSumIter(g, s, n)
<1> DEFINE T == {n \in Nat : \E g : IsSumIter(g, s, n)}
<1>1. 0 \in T
  <2> DEFINE g == [S \in SUBSET (1 .. 0) |-> 0]
  <2>1. SUBSET (1 .. 0) = {{}}  OBVIOUS
  <2>2. g = [S \in SUBSET (1 .. 0) |-> SumStep(g, s, S)]
    BY <2>1 DEF SumStep
  <2>3. QED  BY <2>2 DEF IsSumIter
<1>2. ASSUME NEW n \in Nat, n \in T  PROVE n + 1 \in T
  <2>1. PICK g : IsSumIter(g, s, n)  BY <1>2
  <2> DEFINE h == [S \in SUBSET (1 .. n + 1) |->
                     IF n + 1 \in S THEN g[S \ {n + 1}] + s[n + 1] ELSE g[S]]
  <2>2. ASSUME NEW S \in SUBSET (1 .. n + 1) PROVE h[S] = SumStep(h, s, S)
    <3>1. CASE n + 1 \in S
      <4>1. Max(S) = n + 1  BY <3>1, MaxOf
      <4>2. S \ {n + 1} \in SUBSET (1 .. n + 1) /\ n + 1 \notin S \ {n + 1}  OBVIOUS
      <4>3. h[S \ {n + 1}] = g[S \ {n + 1}]  BY <4>2
      <4>4. QED  BY <3>1, <4>1, <4>3 DEF SumStep
    <3>2. CASE n + 1 \notin S
      <4>1. S \in SUBSET (1 .. n)  BY <3>2
      <4>2. g[S] = SumStep(g, s, S)  BY <2>1, <4>1 DEF IsSumIter
      <4>3. S \ {Max(S)} \in SUBSET (1 .. n + 1) /\ n + 1 \notin S \ {Max(S)}
        BY <3>2
      <4>4. h[S \ {Max(S)}] = g[S \ {Max(S)}]  BY <4>3
      <4>5. QED  BY <3>2, <4>2, <4>4 DEF SumStep
    <3>3. QED  BY <3>1, <3>2
  <2>3. IsSumIter(h, s, n + 1)
    <3>1. h = [S \in SUBSET (1 .. n + 1) |-> h[S]]  OBVIOUS
    <3> HIDE DEF h
    <3>2. QED  BY <2>2, <3>1 DEF IsSumIter
  <2>4. QED  BY <2>3
<1>3. \A n \in Nat : n \in T
  <2> HIDE DEF T
  <2>1. Inductive(T)  BY <1>1, <1>2 DEF Inductive
  <2>2. QED  BY <2>1, SetInduction
<1>4. QED  BY <1>3

\* h[i] is the sum of the first i query lengths.
Starts(h, batch, n) ==
  h[1] = 0 /\ \A i \in 1 .. n - 1 : h[i + 1] = h[i] + batch[i].num

LEMMA SumOf ==
  ASSUME NEW batch, NEW n \in Nat \ {0}
  PROVE  \E h : Starts(h, batch, n) /\ QueryStart(batch, n) = h[n]
<1> DEFINE m == n - 1
           s == [j \in 1 .. m |-> batch[j].num]
           g == CHOOSE g : IsSumIter(g, s, m)
           h == [i \in 1 .. n |-> g[1 .. i - 1]]
<1>1. IsSumIter(g, s, m)
  <2>1. m \in Nat  OBVIOUS
  <2> HIDE DEF m, s
  <2>2. \E f : IsSumIter(f, s, m)  BY <2>1, SumIterExists
  <2>3. QED  BY <2>2
<1>2. QueryStart(batch, n) = g[1 .. m]
  BY DEF QueryStart, FoldLeft, MapThenFoldSet, IsSumIter, SumStep
<1> HIDE DEF g
<1>3. g[{}] = 0  BY <1>1 DEF IsSumIter, SumStep
<1>4. ASSUME NEW i \in 1 .. m PROVE g[1 .. i] = g[1 .. i - 1] + batch[i].num
  <2>1. Max(1 .. i) = i  BY MaxOf
  <2>2. (1 .. i) \ {i} = 1 .. i - 1 /\ 1 .. i # {}  OBVIOUS
  <2>3. 1 .. i \in SUBSET (1 .. m)  OBVIOUS
  <2>4. s[i] = batch[i].num  OBVIOUS
  <2> HIDE DEF s
  <2>5. QED  BY <1>1, <2>1, <2>2, <2>3, <2>4 DEF IsSumIter, SumStep
<1>5. Starts(h, batch, n)
  <2>1. 1 .. 0 = {}  OBVIOUS
  <2>2. h[1] = 0  BY <1>3, <2>1
  <2>3. \A i \in 1 .. n - 1 : h[i + 1] = h[i] + batch[i].num  BY <1>4
  <2>4. QED  BY <2>2, <2>3 DEF Starts
<1>6. h[n] = g[1 .. m]  OBVIOUS
<1> HIDE DEF h
<1>7. QED  BY <1>2, <1>5, <1>6

\* A batch of queries that each have a row.
Queries(batch, n) ==
  /\ n \in Nat /\ Len(batch) = n /\ DOMAIN batch = 1 .. n
  /\ \A i \in 1 .. n : batch[i].num \in Nat /\ batch[i].num > 0

\* Two running sums of the same queries agree.
LEMMA StartsUnique ==
  ASSUME NEW batch, NEW n \in Nat \ {0}, NEW h, Starts(h, batch, n),
         NEW k, NEW m \in Nat, m >= n, Starts(k, batch, m)
  PROVE  h[n] = k[n]
<1> DEFINE T == {i \in Nat : i + 1 <= n => h[i + 1] = k[i + 1]}
<1>1. 0 \in T  BY DEF Starts
<1>2. ASSUME NEW i \in Nat, i \in T PROVE i + 1 \in T
  <2> SUFFICES ASSUME (i + 1) + 1 <= n PROVE h[(i + 1) + 1] = k[(i + 1) + 1]
    OBVIOUS
  <2>1. i + 1 \in 1 .. n - 1 /\ i + 1 \in 1 .. m - 1  OBVIOUS
  <2>2. h[i + 1] = k[i + 1]  BY <1>2, <2>1
  <2>3. QED  BY <2>1, <2>2 DEF Starts
<1>3. n - 1 \in Nat /\ (n - 1) + 1 = n  OBVIOUS
<1>4. n - 1 \in T
  <2> HIDE DEF T
  <2>1. Inductive(T)  BY <1>1, <1>2 DEF Inductive
  <2>2. QED  BY <2>1, <1>3, SetInduction
<1>5. QED  BY <1>3, <1>4

\* query_start_loc rises by each query's length.
LEMMA QueryStarts ==
  ASSUME NEW batch, NEW n, Queries(batch, n)
  PROVE  /\ QueryStart(batch, 1) = 0
         /\ \A i \in 1 .. n + 1 : QueryStart(batch, i) \in Nat
         /\ \A i \in 1 .. n :
              QueryStart(batch, i + 1) = QueryStart(batch, i) + batch[i].num
         /\ \A i, j \in 1 .. n + 1 : i < j =>
              QueryStart(batch, i) + batch[i].num <= QueryStart(batch, j)
<1> DEFINE q(i) == QueryStart(batch, i)
<1>1. n \in Nat /\ n + 1 \in Nat \ {0}
      /\ \A i \in 1 .. n : batch[i].num \in Nat /\ batch[i].num > 0
  BY DEF Queries
<1>2. PICK h : Starts(h, batch, n + 1)  BY <1>1, SumOf
<1>3. ASSUME NEW i \in 1 .. n + 1 PROVE q(i) = h[i]
  <2>1. i \in Nat \ {0} /\ n + 1 >= i  BY <1>1
  <2>2. PICK g : Starts(g, batch, i) /\ QueryStart(batch, i) = g[i]  BY <2>1, SumOf
  <2>3. QED  BY <1>1, <1>2, <2>1, <2>2, StartsUnique
<1>4. h[1] = 0 /\ \A i \in 1 .. n : h[i + 1] = h[i] + batch[i].num
  BY <1>1, <1>2 DEF Starts
<1> DEFINE T == {i \in Nat : i <= n => h[i + 1] \in Nat}
<1>5. \A i \in Nat : i \in T
  <2>1. 0 \in T  BY <1>4
  <2>2. ASSUME NEW i \in Nat, i \in T PROVE i + 1 \in T
    BY <1>1, <1>4, <2>2
  <2> HIDE DEF T
  <2>3. Inductive(T)  BY <2>1, <2>2 DEF Inductive
  <2>4. QED  BY <2>3, SetInduction
<1>6. \A i \in 1 .. n + 1 : h[i] \in Nat
  <2> SUFFICES ASSUME NEW i \in 1 .. n + 1 PROVE h[i] \in Nat
    OBVIOUS
  <2>1. i - 1 \in Nat /\ i - 1 <= n /\ (i - 1) + 1 = i  BY <1>1
  <2>2. QED  BY <1>5, <2>1
<1> HIDE DEF T
<1>7. ASSUME NEW i \in 1 .. n + 1 PROVE \A j \in 1 .. n + 1 : i < j => h[i] + batch[i].num <= h[j]
  <2> DEFINE U == {j \in Nat : j + 1 <= n + 1 /\ i < j + 1 => h[i] + batch[i].num <= h[j + 1]}
  <2>1. 0 \in U  OBVIOUS
  <2>2. ASSUME NEW j \in Nat, j \in U PROVE j + 1 \in U
    <3> SUFFICES ASSUME (j + 1) + 1 <= n + 1, i < (j + 1) + 1
                 PROVE  h[i] + batch[i].num <= h[(j + 1) + 1]
      OBVIOUS
    <3>1. j + 1 \in 1 .. n /\ j + 1 \in 1 .. n + 1 /\ (j + 1) + 1 \in 1 .. n + 1  BY <1>1
    <3>2. h[(j + 1) + 1] = h[j + 1] + batch[j + 1].num /\ batch[j + 1].num \in Nat
      BY <1>1, <1>4, <3>1
    <3>3. CASE i = j + 1  BY <1>6, <3>1, <3>2, <3>3
    <3>4. CASE i < j + 1
      <4>1. i \in 1 .. n /\ batch[i].num \in Nat  BY <1>1, <3>1, <3>4
      <4>2. h[i] + batch[i].num <= h[j + 1]  BY <2>2, <3>1, <3>4
      <4>3. h[i] \in Nat /\ h[j + 1] \in Nat  BY <1>6, <3>1
      <4>4. QED  BY <3>2, <4>1, <4>2, <4>3
    <3>5. QED  BY <3>3, <3>4
  <2>3. \A j \in Nat : j \in U
    <3> HIDE DEF U
    <3>1. Inductive(U)  BY <2>1, <2>2 DEF Inductive
    <3>2. QED  BY <3>1, SetInduction
  <2>4. SUFFICES ASSUME NEW j \in 1 .. n + 1, i < j PROVE h[i] + batch[i].num <= h[j]
    OBVIOUS
  <2>5. j - 1 \in Nat /\ (j - 1) + 1 = j /\ j <= n + 1  BY <1>1
  <2>6. QED  BY <2>3, <2>4, <2>5
<1>8. \A i \in 1 .. n : i \in 1 .. n + 1 /\ i + 1 \in 1 .. n + 1  BY <1>1
<1>9. 1 \in 1 .. n + 1  BY <1>1
<1>10. \A i \in 1 .. n : q(i + 1) = q(i) + batch[i].num  BY <1>3, <1>4, <1>8
<1>11. QED  BY <1>3, <1>4, <1>6, <1>7, <1>9, <1>10

\* The k-th row of item i of the flattened batch.
Row(batch, i, k) == QueryStart(batch, i) + k + 1

\* Each row of an item is a row of the batch, and belongs to that item alone.
LEMMA RowOfItem ==
  ASSUME NEW batch, NEW n, Queries(batch, n), NEW i \in 1 .. n,
         NEW k \in 0 .. batch[i].num - 1
  PROVE  /\ Row(batch, i, k) \in 1 .. NumRows(batch)
         /\ RowItem(batch, Row(batch, i, k)) = i
         /\ RowOffset(batch, Row(batch, i, k)) = k
<1> DEFINE q(j) == QueryStart(batch, j)
           row == Row(batch, i, k)
<1>1. n \in Nat /\ Len(batch) = n /\ DOMAIN batch = 1 .. n
      /\ \A j \in 1 .. n : batch[j].num \in Nat /\ batch[j].num > 0
  BY DEF Queries
<1>2. /\ \A j \in 1 .. n + 1 : q(j) \in Nat
      /\ \A j, l \in 1 .. n + 1 : j < l => q(j) + batch[j].num <= q(l)
  BY QueryStarts
<1> HIDE DEF q
<1>3. row = q(i) + k + 1  BY DEF Row, q
<1>4. i \in 1 .. n + 1 /\ n + 1 \in 1 .. n + 1 /\ i < n + 1  BY <1>1
<1>5. q(i) \in Nat /\ q(n + 1) \in Nat /\ q(i) + batch[i].num <= q(n + 1)
      /\ batch[i].num \in Nat
  BY <1>1, <1>2, <1>4
<1> HIDE DEF row
<1>6. row \in 1 .. NumRows(batch)
  <2>1. NumRows(batch) = q(n + 1)  BY <1>1 DEF NumRows, q
  <2>2. QED  BY <1>3, <1>5, <2>1
<1>7. \A j \in 1 .. n : row \in QueryRows(batch, j) <=> row \in (q(j) + 1) .. (q(j) + batch[j].num)
  BY DEF QueryRows, q
<1>8. row \in QueryRows(batch, i)
  <2>1. row \in (q(i) + 1) .. (q(i) + batch[i].num)  BY <1>3, <1>5
  <2>2. QED  BY <1>7, <2>1
<1>9. ASSUME NEW j \in 1 .. n, row \in QueryRows(batch, j) PROVE j = i
  <2>1. row \in (q(j) + 1) .. (q(j) + batch[j].num) /\ q(j) \in Nat /\ batch[j].num \in Nat
        /\ j \in 1 .. n + 1
    BY <1>1, <1>2, <1>7, <1>9
  <2>2. CASE j < i
    <3>1. q(j) + batch[j].num <= q(i)  BY <1>2, <1>4, <2>1, <2>2
    <3>2. QED  BY <1>3, <1>5, <2>1, <3>1
  <2>3. CASE i < j
    <3>1. q(i) + batch[i].num <= q(j)  BY <1>2, <1>4, <2>1, <2>3
    <3>2. QED  BY <1>3, <1>5, <2>1, <3>1
  <2>4. QED  BY <1>1, <2>2, <2>3
<1>10. RowItem(batch, row) = i  BY <1>1, <1>8, <1>9 DEF RowItem
<1>11. RowOffset(batch, row) = k
  <2>1. RowOffset(batch, row) = row - q(i) - 1  BY <1>10 DEF RowOffset, q
  <2>2. QED  BY <1>3, <1>5, <2>1
<1>12. QED  BY <1>6, <1>10, <1>11 DEF row

\* Every row of the batch is some row of some item.
LEMMA ItemOfRow ==
  ASSUME NEW batch, NEW n, Queries(batch, n), NEW row \in 1 .. NumRows(batch)
  PROVE  \E i \in 1 .. n : \E k \in 0 .. batch[i].num - 1 : row = Row(batch, i, k)
<1> DEFINE q(j) == QueryStart(batch, j)
<1>1. n \in Nat /\ Len(batch) = n
      /\ \A j \in 1 .. n : batch[j].num \in Nat /\ batch[j].num > 0
  BY DEF Queries
<1>2. /\ q(1) = 0 /\ \A j \in 1 .. n + 1 : q(j) \in Nat
      /\ \A j \in 1 .. n : q(j + 1) = q(j) + batch[j].num
  BY QueryStarts
<1>3. row \in 1 .. q(n + 1)  BY <1>1 DEF NumRows
<1> HIDE DEF q
<1> DEFINE T == {j \in Nat : j <= n /\ row <= q(j + 1) =>
                   \E i \in 1 .. n : row \in q(i) + 1 .. q(i) + batch[i].num}
<1>4. 0 \in T  BY <1>2, <1>3
<1>5. ASSUME NEW j \in Nat, j \in T PROVE j + 1 \in T
  <2> SUFFICES ASSUME j + 1 <= n, row <= q((j + 1) + 1)
               PROVE \E i \in 1 .. n : row \in q(i) + 1 .. q(i) + batch[i].num
    OBVIOUS
  <2>1. j + 1 \in 1 .. n /\ j + 1 \in 1 .. n + 1  BY <1>1
  <2>2. q((j + 1) + 1) = q(j + 1) + batch[j + 1].num /\ q(j + 1) \in Nat  BY <1>2, <2>1
  <2>3. CASE row <= q(j + 1)  BY <1>1, <1>5, <2>1, <2>3
  <2>4. CASE ~ (row <= q(j + 1))
    <3>1. row \in q(j + 1) + 1 .. q(j + 1) + batch[j + 1].num
      BY <1>1, <2>1, <2>2, <2>4
    <3>2. QED  BY <2>1, <3>1
  <2>5. QED  BY <2>3, <2>4
<1>6. n \in T
  <2> HIDE DEF T
  <2>1. Inductive(T)  BY <1>4, <1>5 DEF Inductive
  <2>2. QED  BY <2>1, <1>1, SetInduction
<1>7. row <= q(n + 1)  BY <1>1, <1>2, <1>3
<1>8. PICK i \in 1 .. n : row \in q(i) + 1 .. q(i) + batch[i].num  BY <1>1, <1>6, <1>7
<1>9. i \in 1 .. n + 1 /\ q(i) \in Nat /\ batch[i].num \in Nat  BY <1>1, <1>2
<1> DEFINE k == row - q(i) - 1
<1>10. k \in 0 .. batch[i].num - 1 /\ row = q(i) + k + 1  BY <1>8, <1>9
<1> HIDE DEF k
<1>11. QED  BY <1>10 DEF Row, q

-----------------------------------------------------------------------------
(* sort_batch_req_ids.                                                       *)

\* What the key compares, drafts first.
LEMMA BeforeIs ==
  ASSUME NEW a, NEW b, a.num \in Int, b.num \in Int, a.req \in Int, b.req \in Int
  PROVE  Before(a, b) <=>
           \/ a.drafts # 0 /\ b.drafts = 0
           \/ /\ a.drafts = 0 <=> b.drafts = 0
              /\ \/ a.num = DecodeLen /\ b.num # DecodeLen
                 \/ /\ a.num = DecodeLen <=> b.num = DecodeLen
                    /\ a.num < b.num \/ (a.num = b.num /\ a.req < b.req)
BY DEF Before

\* The work of a batch: one item per request.
ItemSet(items) ==
  /\ \A x \in items : x.req \in Req /\ x.num \in Nat \ {0} /\ x.drafts \in Nat
  /\ \A x, y \in items : x.req = y.req => x = y

LEMMA ItemsOrdered ==
  ASSUME NEW items, ItemSet(items), NEW R, R = {p \in items \X items : Before(p[1], p[2])}
  PROVE  IsFiniteSet(items) /\ StrictOrder(R, items)
<1>1. \A x \in items : x.req \in Int /\ x.num \in Int
  BY DEF ItemSet, Req
<1>2. IsFiniteSet(items)
  <2> DEFINE f == [x \in items |-> x.req]
  <2>1. f \in Injection(items, Req)  BY DEF ItemSet, Injection, IsInjective
  <2>2. IsFiniteSet(Req)  BY ReqFinite
  <2> HIDE DEF f
  <2>3. QED  BY <2>1, <2>2, FS_Injection
<1>3. \A x \in items : ~ Before(x, x)  BY <1>1, BeforeIs
<1>4. \A x, y \in items : x # y => Before(x, y) \/ Before(y, x)
  <2> SUFFICES ASSUME NEW x \in items, NEW y \in items, x # y
               PROVE  Before(x, y) \/ Before(y, x)
    OBVIOUS
  <2>1. x.req # y.req  BY DEF ItemSet
  <2>2. QED  BY <1>1, <2>1, BeforeIs
<1>5. \A x, y, z \in items : Before(x, y) /\ Before(y, z) => Before(x, z)
  <2> SUFFICES ASSUME NEW x \in items, NEW y \in items, NEW z \in items,
                      Before(x, y), Before(y, z)
               PROVE  Before(x, z)
    OBVIOUS
  <2>1. QED  BY <1>1, BeforeIs
<1>6. \A x, y \in items : <<x, y>> \in R <=> Before(x, y)  OBVIOUS
<1>7. QED  BY <1>2, <1>3, <1>4, <1>5, <1>6 DEF StrictOrder

\* A batch in the order of sort_batch_req_ids: every request once, full
\* verifications first.
Sorted(batch) ==
  /\ Queries(batch, Len(batch))
  /\ \A i, j \in DOMAIN batch : i # j => batch[i].req # batch[j].req
  /\ \A i, j \in DOMAIN batch : i < j => Before(batch[i], batch[j])

LEMMA BatchIs ==
  ASSUME NEW items, ItemSet(items), NEW batch, batch = BatchOrder(items)
  PROVE  /\ Sorted(batch)
         /\ \A i \in DOMAIN batch : batch[i] \in items
         /\ \A x \in items : \E i \in DOMAIN batch : batch[i] = x
<1> DEFINE R == {p \in items \X items : Before(p[1], p[2])}
<1>1. IsFiniteSet(items) /\ StrictOrder(R, items)  BY ItemsOrdered
<1>2. PICK s \in SetToSeqs(items) : \A i, j \in DOMAIN s : i < j => <<s[i], s[j]>> \in R
  BY <1>1, SortExists
<1>3. \A i, j \in DOMAIN s : i < j => Before(s[i], s[j])
  <2> HIDE DEF R
  <2>1. \A x, y : <<x, y>> \in R => Before(x, y)  BY DEF R
  <2>2. QED  BY <1>2, <2>1
<1>4. batch \in SetToSeqs(items) /\ \A i, j \in DOMAIN batch : i < j => Before(batch[i], batch[j])
  BY <1>3 DEF BatchOrder, InOrder
<1> HIDE DEF R
<1>5. /\ Cardinality(items) \in Nat /\ DOMAIN batch = 1 .. Cardinality(items)
      /\ Len(batch) = Cardinality(items)
      /\ {batch[i] : i \in DOMAIN batch} = items
      /\ \A i, j \in DOMAIN batch : i # j => batch[i] # batch[j]
  BY <1>1, <1>4, SeqsOfSet
<1>6. \A i \in DOMAIN batch : batch[i] \in items  BY <1>5
<1>7. \A x \in items : \E i \in DOMAIN batch : batch[i] = x  BY <1>5
<1>8. \A i, j \in DOMAIN batch : i # j => batch[i].req # batch[j].req
  BY <1>5, <1>6 DEF ItemSet
<1>9. \A i \in DOMAIN batch : batch[i].num \in Nat /\ batch[i].num > 0
  BY <1>6 DEF ItemSet
<1>10. Queries(batch, Len(batch))  BY <1>5, <1>9 DEF Queries
<1>11. QED  BY <1>4, <1>6, <1>7, <1>8, <1>10 DEF Sorted

-----------------------------------------------------------------------------
(* The inductive invariant.                                                  *)

\* The first n tokens the target puts in request r.
Prefix(r, n) == [p \in 1 .. n |-> Target(r, p - 1)]

NumTokens(r) == Len(sched.toks[r])

\* The fields of a slot.
IsSlotRec(s) == s = [prefill |-> s.prefill, all |-> s.all, cpu |-> s.cpu, gpu |-> s.gpu,
                     last |-> s.last, drafts |-> s.drafts]

\* What is held for r in its slot when c of its n tokens are computed: either the
\* prompt it was added with is not over, or one token, the last sampled, is left.
Stands(s, r, n, c) ==
  /\ n \in Nat /\ n < MaxLen /\ c \in Nat /\ c < n
  /\ s.prefill \in Nat /\ s.gpu = c /\ s.all = Prefix(r, n)
  /\ n = IF c < s.prefill THEN s.prefill ELSE c + 1
  /\ c >= s.prefill => s.last = Target(r, c)

\* d of the drafts in the slot may be verified for r.
Drafted(s, r, d) ==
  /\ d \in 0 .. NumDrafts
  /\ d > 0 => /\ s.gpu >= s.prefill
              /\ \A j \in 1 .. NumDrafts : s.drafts[j][1] = r

\* The cache holds r's own tokens below c.
Cached(r, c) == \A p \in 0 .. c - 1 : kv[r][p] = Target(r, p)

\* A request between two steps.
Settled(r) ==
  /\ sched.computed[r] \in Nat /\ sched.computed[r] < NumTokens(r) /\ NumTokens(r) < MaxLen
  /\ Cached(r, sched.computed[r])
  /\ sched.status[r] = "waiting" => sched.drafts[r] = 0
  /\ sched.status[r] = "running" =>
       /\ Stands(slot[table.index[r]], r, NumTokens(r), sched.computed[r])
       /\ Drafted(slot[table.index[r]], r, sched.drafts[r])

SchedInv ==
  /\ sched = [status |-> sched.status, toks |-> sched.toks, computed |-> sched.computed,
              drafts |-> sched.drafts, chunked |-> sched.chunked,
              finished |-> sched.finished]
  /\ sched.status \in [Req -> {"waiting", "running", "done"}]
  /\ sched.toks = [r \in Req |-> sched.toks[r]]
  /\ \A r \in Req : \E n \in 1 .. MaxLen : sched.toks[r] = Prefix(r, n)
  /\ sched.computed = [r \in Req |-> sched.computed[r]]
  /\ sched.drafts = [r \in Req |-> sched.drafts[r]]
  /\ sched.finished \in SUBSET Req
  /\ \A r \in sched.finished : sched.status[r] = "done"

SlotsInv ==
  /\ Holding(table, Running \cup sched.finished)
  /\ slot = [x \in Slot |-> slot[x]] /\ \A x \in Slot : IsSlotRec(slot[x])

\* The rows of one item: its tokens are its request's, the target's as far as the
\* request has tokens, and each prediction is the target's after a true history.
RowsTrue(e, i, r, c, n) ==
  LET at(k) == Row(e.batch, i, k) IN
  \A k \in 0 .. e.batch[i].num - 1 :
    /\ kv[r][c + k] = e.inputs[at(k)]
    /\ e.inputs[at(k)][1] = r
    /\ c + k < n => e.inputs[at(k)] = Target(r, c + k)
    /\ (\A l \in 0 .. k : e.inputs[at(l)] = Target(r, c + l)) =>
         e.predicted[at(k)] = Target(r, c + k + 1)

\* An item of the batch that has run: its request, with c tokens computed before.
ItemTrue(e, i) ==
  LET x == e.batch[i]
      r == x.req
      s == slot[x.slot]
      c == s.gpu
      n == NumTokens(r)
  IN  /\ r \in Req /\ sched.status[r] = "running" /\ x.slot = table.index[r]
      /\ x.num \in Nat /\ x.drafts \in Nat /\ x.num >= x.drafts + 1
      /\ s.cpu = c /\ sched.computed[r] = c + x.num /\ sched.drafts[r] = 0
      /\ Stands(s, r, n, c) /\ Cached(r, c)
      /\ x.drafts <= NumDrafts
      /\ x.drafts > 0 => c >= s.prefill /\ x.num = x.drafts + 1
      /\ x.drafts = 0 => c + x.num <= n
      /\ r \in sched.chunked <=> c + x.num < n
      /\ RowsTrue(e, i, r, c, n)

PhaseInv ==
  /\ phase \in {"execute", "sample", "drafts", "stopped"}
  /\ exec # NoState => phase = "sample" /\ exec.step = step
  /\ phase \in {"execute", "drafts"} =>
       \A r \in Req : sched.status[r] # "done" => Settled(r)
  /\ phase = "drafts" =>
       \A r \in offered : sched.status[r] = "running" /\ r \notin sched.chunked =>
                            Drafted(slot[table.index[r]], r, NumDrafts)
  /\ exec # NoState =>
       /\ sched.finished = {}
       /\ Sorted(exec.batch)
       /\ \A i \in DOMAIN exec.batch : ItemTrue(exec, i)
       /\ \A r \in Req : sched.status[r] = "done" \/ Settled(r)
                          \/ \E i \in DOMAIN exec.batch : exec.batch[i].req = r

IInv == SchedInv /\ SlotsInv /\ PhaseInv

-----------------------------------------------------------------------------
(* What the rows of a batch are fed, write and predict.                      *)

LEMMA SortedRows ==
  ASSUME NEW batch, Sorted(batch), NEW i \in DOMAIN batch, NEW k \in 0 .. batch[i].num - 1
  PROVE  /\ Row(batch, i, k) \in 1 .. NumRows(batch)
         /\ RowItem(batch, Row(batch, i, k)) = i
         /\ RowOffset(batch, Row(batch, i, k)) = k
<1>1. Queries(batch, Len(batch)) /\ i \in 1 .. Len(batch)  BY DEF Sorted, Queries
<1>2. QED  BY <1>1, RowOfItem

LEMMA InputsAt ==
  ASSUME NEW ss, NEW batch, Sorted(batch), NEW i \in DOMAIN batch,
         NEW k \in 0 .. batch[i].num - 1
  PROVE  Inputs(ss, batch)[Row(batch, i, k)] = InputToken(ss, batch, batch[i], k)
BY SortedRows DEF Inputs

LEMMA PredictedAt ==
  ASSUME NEW ss, NEW batch, NEW cache, Sorted(batch), NEW i \in DOMAIN batch,
         NEW k \in 0 .. batch[i].num - 1,
         NEW r, r = batch[i].req, NEW c, c = ss[batch[i].slot].gpu,
         \A q \in 0 .. c + k : cache[r][q] = Target(r, q)
  PROVE  Predicted(ss, batch, cache)[Row(batch, i, k)] = Target(r, c + k + 1)
BY SortedRows DEF Predicted

\* Item i's rows write the keys of its request's positions.
Wrote(ss, batch, i, inputs, cache) ==
  \A k \in 0 .. batch[i].num - 1 :
    cache[batch[i].req][ss[batch[i].slot].gpu + k] = inputs[Row(batch, i, k)]

LEMMA WrittenAt ==
  ASSUME NEW ss, NEW batch, Sorted(batch), NEW i \in DOMAIN batch,
         NEW inputs, DOMAIN inputs = 1 .. NumRows(batch), batch[i].req \in Req,
         ss[batch[i].slot].gpu \in Nat,
         \A k \in 0 .. batch[i].num - 1 : ss[batch[i].slot].gpu + k \in Positions
  PROVE  Wrote(ss, batch, i, inputs, Written(ss, batch, inputs))
<1> SUFFICES ASSUME NEW k \in 0 .. batch[i].num - 1
             PROVE  Written(ss, batch, inputs)[batch[i].req][ss[batch[i].slot].gpu + k] =
                      inputs[Row(batch, i, k)]
  BY DEF Wrote
<1>a. PICK r \in Req : r = batch[i].req  OBVIOUS
<1>b. PICK c \in Nat : c = ss[batch[i].slot].gpu  OBVIOUS
<1>c. c + k \in Positions  BY <1>b
<1> DEFINE mine(row) == LET item == batch[RowItem(batch, row)] IN
             item.req = r /\ ss[item.slot].gpu + RowOffset(batch, row) = c + k
           rows == {row \in DOMAIN inputs : mine(row)}
<1>1. Row(batch, i, k) \in rows  BY <1>a, <1>b, SortedRows
<1>2. ASSUME NEW row \in rows PROVE row = Row(batch, i, k)
  <2>1. Queries(batch, Len(batch)) /\ DOMAIN batch = 1 .. Len(batch)  BY DEF Sorted, Queries
  <2>2. PICK j \in 1 .. Len(batch) : \E l \in 0 .. batch[j].num - 1 : row = Row(batch, j, l)
    BY <1>2, <2>1, ItemOfRow
  <2>3. PICK l \in 0 .. batch[j].num - 1 : row = Row(batch, j, l)  BY <2>2
  <2>4. RowItem(batch, row) = j /\ RowOffset(batch, row) = l  BY <2>1, <2>3, SortedRows
  <2>5. batch[j].req = r /\ ss[batch[j].slot].gpu + l = c + k  BY <2>4
  <2>6. j = i  BY <1>a, <2>1, <2>5 DEF Sorted
  <2>7. l = k  BY <1>b, <2>5, <2>6
  <2>8. QED  BY <2>3, <2>6, <2>7
<1>3. Written(ss, batch, inputs)[r][c + k] =
        IF rows # {} THEN inputs[CHOOSE row \in rows : TRUE]
        ELSE IF Held(r, c + k) THEN kv[r][c + k] ELSE Garbage
  BY <1>c DEF Written
<1> HIDE DEF rows
<1>4. (CHOOSE row \in rows : TRUE) = Row(batch, i, k)  BY <1>1, <1>2
<1>5. QED  BY <1>a, <1>b, <1>1, <1>3, <1>4

\* Block p of r is below its rows, if it has any in the batch.
Below(ss, batch, r, p) ==
  \A i \in DOMAIN batch : batch[i].req = r =>
     ss[batch[i].slot].gpu \in Nat /\ p < ss[batch[i].slot].gpu

\* Keys that a request holds outside its rows are kept.
LEMMA WrittenKept ==
  ASSUME NEW ss, NEW batch, Sorted(batch), NEW inputs, DOMAIN inputs = 1 .. NumRows(batch),
         NEW r \in Req, NEW p \in Positions, Held(r, p), Below(ss, batch, r, p)
  PROVE  Written(ss, batch, inputs)[r][p] = kv[r][p]
<1> DEFINE mine(row) == LET item == batch[RowItem(batch, row)] IN
             item.req = r /\ ss[item.slot].gpu + RowOffset(batch, row) = p
           rows == {row \in DOMAIN inputs : mine(row)}
<1>1. ASSUME NEW row \in rows PROVE FALSE
  <2>1. Queries(batch, Len(batch)) /\ DOMAIN batch = 1 .. Len(batch)  BY DEF Sorted, Queries
  <2>2. PICK j \in 1 .. Len(batch) : \E l \in 0 .. batch[j].num - 1 : row = Row(batch, j, l)
    BY <1>1, <2>1, ItemOfRow
  <2>3. PICK l \in 0 .. batch[j].num - 1 : row = Row(batch, j, l)  BY <2>2
  <2>4. RowItem(batch, row) = j /\ RowOffset(batch, row) = l  BY <2>1, <2>3, SortedRows
  <2>5. batch[j].req = r /\ ss[batch[j].slot].gpu + l = p  BY <2>4
  <2>6. QED  BY <2>1, <2>3, <2>5 DEF Positions, Below
<1>2. Written(ss, batch, inputs)[r][p] =
        IF rows # {} THEN inputs[CHOOSE row \in rows : TRUE]
        ELSE IF Held(r, p) THEN kv[r][p] ELSE Garbage
  BY DEF Written
<1> HIDE DEF rows
<1>3. QED  BY <1>1, <1>2

\* The work the scheduler may give r with c of n tokens computed, once the
\* assertion on its rows holds.
Workable(x, s, r, c, n) ==
  /\ x.num \in Nat /\ x.drafts \in Nat /\ x.num >= x.drafts + 1
  /\ x.drafts = 0 => c + x.num <= n
  /\ x.drafts > 0 => n = c + 1 /\ x.num = x.drafts + 1
  /\ Drafted(s, r, x.drafts)

\* Item i is work for r in its slot, with c of r's n tokens computed on the host too.
Fed(ss, batch, i, r, c, n) ==
  /\ Stands(ss[batch[i].slot], r, n, c)
  /\ ss[batch[i].slot].cpu = ss[batch[i].slot].gpu
  /\ Workable(batch[i], ss[batch[i].slot], r, c, n)

\* No row is fed another request's token, nor a wrong token of its own below n.
LEMMA TokenTrue ==
  ASSUME NEW ss, NEW batch, NEW i \in DOMAIN batch, NEW r, NEW c, NEW n,
         Fed(ss, batch, i, r, c, n), NEW k \in 0 .. batch[i].num - 1
  PROVE  /\ InputToken(ss, batch, batch[i], k)[1] = r
         /\ c + k < n => InputToken(ss, batch, batch[i], k) = Target(r, c + k)
<1>a. PICK x : x = batch[i]  OBVIOUS
<1>b. PICK s : s = ss[x.slot]  OBVIOUS
<1>c. Stands(s, r, n, c) /\ s.cpu = s.gpu /\ Workable(x, s, r, c, n) /\ k \in 0 .. x.num - 1
  BY <1>a, <1>b DEF Fed
<1>d. /\ InputToken(ss, batch, x, k)[1] = r
      /\ c + k < n => InputToken(ss, batch, x, k) = Target(r, c + k)
  <2>1. /\ n \in Nat /\ c \in Nat /\ c < n /\ s.gpu = c /\ s.prefill \in Nat
        /\ n = IF c < s.prefill THEN s.prefill ELSE c + 1
        /\ s.all = Prefix(r, n)
    BY <1>c DEF Stands
  <2>2. /\ x.num \in Nat /\ x.drafts \in Nat /\ x.num >= x.drafts + 1 /\ k \in Nat
        /\ x.drafts = 0 => c + x.num <= n
        /\ x.drafts > 0 => n = c + 1 /\ x.num = x.drafts + 1 /\ s.gpu >= s.prefill
    BY <1>c DEF Workable, Drafted
  <2>3. \A p : Target(r, p)[1] = r  BY DEF Target
  <2>4. CASE c < s.prefill
    <3>1. n = s.prefill /\ x.drafts = 0 /\ c + x.num <= s.prefill
      BY <2>1, <2>2, <2>4
    <3>2. ~ TakesSampled(s, x, k)  BY <2>1, <2>2, <3>1 DEF TakesSampled
    <3>3. HasPrefill(batch, ss)
      <4>1. (IF s.cpu < s.prefill THEN s.cpu ELSE s.prefill) < s.prefill
        BY <1>c, <2>1, <2>4
      <4>2. QED  BY <1>a, <1>b, <1>c, <4>1 DEF HasPrefill
    <3>4. s.gpu + k < s.prefill /\ c + k + 1 \in 1 .. n  BY <1>c, <2>1, <2>2, <3>1
    <3>5. InputToken(ss, batch, x, k) = s.all[s.gpu + k + 1]
      BY <1>b, <3>2, <3>3, <3>4 DEF InputToken
    <3>6. s.all[c + k + 1] = Target(r, c + k)
      BY <2>1, <2>2, <3>4 DEF Prefix
    <3>7. QED  BY <2>1, <2>3, <3>5, <3>6
  <2>5. CASE ~ (c < s.prefill)
    <3>1. n = c + 1 /\ x.num = x.drafts + 1  BY <2>1, <2>2, <2>5
    <3>2. TakesSampled(s, x, k) /\ x.num - (x.drafts + 1) = 0
      <4>1. x.num - (x.drafts + 1) = 0  BY <2>2, <3>1
      <4>2. s.gpu + x.num > s.prefill
        <5>1. \A g, p, m \in Nat : ~ (g < p) /\ m >= 1 => g + m > p  OBVIOUS
        <5>2. x.num >= 1 /\ s.gpu \in Nat /\ ~ (s.gpu < s.prefill)  BY <2>1, <2>2, <2>5
        <5>3. QED  BY <2>1, <2>2, <5>1, <5>2
      <4>3. QED  BY <2>2, <4>1, <4>2 DEF TakesSampled
    <3>3. CASE k = 0
      <4>1. InputToken(ss, batch, x, k) = s.last  BY <1>b, <3>2, <3>3 DEF InputToken
      <4>2. s.last = Target(r, c)  BY <1>c, <2>1, <2>5 DEF Stands
      <4>3. QED  BY <2>1, <2>3, <3>3, <4>1, <4>2
    <3>4. CASE k # 0
      <4>1. InputToken(ss, batch, x, k) = s.drafts[k]
        BY <1>b, <2>2, <3>2, <3>4 DEF InputToken
      <4>2. k \in 1 .. NumDrafts /\ x.drafts > 0
        BY <2>2, <3>1, <3>4, <1>c, RunnerAssumption DEF Workable, Drafted
      <4>3. s.drafts[k][1] = r  BY <1>c, <4>2 DEF Workable, Drafted
      <4>4. ~ (c + k < n)  BY <2>1, <2>2, <3>1, <3>4
      <4>5. QED  BY <4>1, <4>3, <4>4
    <3>5. QED  BY <3>3, <3>4
  <2>6. QED  BY <2>4, <2>5
<1>e. QED  BY <1>a, <1>d

-----------------------------------------------------------------------------
(* What execute_model does before the forward.                               *)

\* The token a scheduled request goes on from.
From(r, new, cached) == IF r \in new THEN cached[r] ELSE sched.computed[r]

\* The scheduler's choice: whom to preempt, to add and to run, and their work.
Dispatch(pre, new, ran, cached, f) ==
  /\ pre \subseteq Running /\ ran \subseteq Running /\ new \subseteq Waiting
  /\ pre \cap ran = {}
  /\ Cardinality((Running \ pre) \cup new) <= NumSlots
  /\ \A r \in new : cached[r] \in {0, sched.computed[r]}
  /\ \A r \in new \cup ran : f[r] \in Work(r, From(r, new, cached))

Output(pre, new, ran, cached) ==
  [preempted |-> pre, new |-> new, ran |-> ran, cached |-> cached]

WorkOf(f, new, ran) == {f[r] : r \in new \cup ran}

ItemsOf(work, t) ==
  {[req |-> w.req, num |-> w.num, drafts |-> w.drafts, slot |-> t.index[w.req]] : w \in work}

\* The top of execute_model: the scheduler's record, the table, the request states.
Tops(pre, new, ran, cached, f) ==
  /\ Dispatch(pre, new, ran, cached, f)
  /\ sched' = Scheduled(Output(pre, new, ran, cached), WorkOf(f, new, ran))
  /\ table' = UpdateTable(table, SortedIds(sched.finished \cup pre), SortedIds(new))
  /\ slot' = SlotsFor(Output(pre, new, ran, cached), table')

\* One call of execute_model for a dispatched batch.
Executes(pre, new, ran, cached, f) ==
  /\ Tops(pre, new, ran, cached, f)
  /\ \/ Forward(slot', BatchOrder(ItemsOf(WorkOf(f, new, ran), table')))
     \/ Raise
  /\ phase' = "sample" /\ step' = 1 - step /\ offered' = offered

LEMMA BatchesIs ==
  ASSUME NEW out, NEW work \in Batches(out)
  PROVE  \E f : /\ work = {f[r] : r \in out.new \cup out.ran}
                /\ \A r \in out.new \cup out.ran : f[r] \in Work(r, From(r, out.new, out.cached))
<1> DEFINE all == out.new \cup out.ran
           from(r) == IF r \in out.new THEN out.cached[r] ELSE sched.computed[r]
           fs == {g \in [all -> UNION {Work(r, from(r)) : r \in all}] :
                    \A r \in all : g[r] \in Work(r, from(r))}
<1>1. \E f \in fs : work = {f[r] : r \in all}  BY DEF Batches
<1>2. PICK f \in fs : work = {f[r] : r \in all}  BY <1>1
<1>3. \A r \in all : f[r] \in Work(r, from(r))  BY <1>2
<1>4. QED  BY <1>2, <1>3 DEF From

LEMMA ExecuteIs ==
  ASSUME Execute
  PROVE  \E pre, new, ran, cached, f : Executes(pre, new, ran, cached, f)
<1> DEFINE Out(so, cached) == [preempted |-> so.preempted, new |-> so.new, ran |-> so.ran,
                               cached |-> cached]
           Runs(so, cached, work) ==
             /\ sched' = Scheduled(Out(so, cached), work)
             /\ UpdateRequests(Out(so, cached))
             /\ Forward(slot', BatchOrder(ItemsOf(work, table'))) \/ Raise
<1>1. PICK so \in SchedulerOutputs :
        \E cached \in {g \in [so.new -> 0..MaxLen] :
                          \A r \in so.new : g[r] \in {0, sched.computed[r]}} :
          \E work \in Batches(Out(so, cached)) : Runs(so, cached, work)
  BY DEF Execute, ItemsOf
<1>2. PICK cached \in {g \in [so.new -> 0..MaxLen] :
                          \A r \in so.new : g[r] \in {0, sched.computed[r]}} :
          \E work \in Batches(Out(so, cached)) : Runs(so, cached, work)
  BY <1>1
<1>3. PICK work \in Batches(Out(so, cached)) : Runs(so, cached, work)  BY <1>2
<1> DEFINE pre == so.preempted
           new == so.new
           ran == so.ran
           out == Out(so, cached)
<1>a. PICK f : /\ work = {f[r] : r \in out.new \cup out.ran}
               /\ \A r \in out.new \cup out.ran : f[r] \in Work(r, From(r, out.new, out.cached))
  BY <1>3, BatchesIs
<1>4. /\ work = {f[r] : r \in new \cup ran}
      /\ \A r \in new \cup ran : f[r] \in Work(r, From(r, new, cached))
  BY <1>a
<1>5. /\ pre \subseteq Running /\ ran \subseteq Running /\ new \subseteq Waiting
      /\ pre \cap ran = {} /\ Cardinality((Running \ pre) \cup new) <= NumSlots
  BY DEF SchedulerOutputs
<1>6. Dispatch(pre, new, ran, cached, f)
  BY <1>2, <1>4, <1>5 DEF Dispatch
<1>7. work = WorkOf(f, new, ran) /\ Out(so, cached) = Output(pre, new, ran, cached)
  BY <1>4 DEF WorkOf, Output
<1>8. UpdateRequests(Output(pre, new, ran, cached))
      /\ sched' = Scheduled(Output(pre, new, ran, cached), WorkOf(f, new, ran))
      /\ (Forward(slot', BatchOrder(ItemsOf(WorkOf(f, new, ran), table'))) \/ Raise)
  BY <1>3, <1>7
<1>9. Output(pre, new, ran, cached).preempted = pre /\ Output(pre, new, ran, cached).new = new
  BY DEF Output
<1>10. /\ table' = UpdateTable(table, SortedIds(sched.finished \cup pre), SortedIds(new))
       /\ slot' = SlotsFor(Output(pre, new, ran, cached), table')
       /\ offered' = offered
  BY <1>8, <1>9 DEF UpdateRequests, FinishOrders
<1>11. phase' = "sample" /\ step' = 1 - step  BY DEF Execute
<1> HIDE DEF pre, new, ran
<1>12. Executes(pre, new, ran, cached, f)
  BY <1>6, <1>8, <1>10, <1>11 DEF Executes, Tops
<1>13. QED  BY <1>12

\* An item of work: a chunk of what is left, or one token with some of the drafts.
LEMMA WorkIs ==
  ASSUME NEW r, NEW c \in Nat, NEW n \in Nat, n = Len(sched.toks[r]), c < n,
         sched.drafts[r] \in Nat, NEW w \in Work(r, c)
  PROVE  /\ w.req = r /\ w.num \in Nat \ {0} /\ w.drafts \in Nat
         /\ w.drafts <= sched.drafts[r]
         /\ w.drafts = 0 => c + w.num <= n
         /\ w.drafts > 0 => n = c + 1 /\ w.num \in {w.drafts, w.drafts + 1}
<1> DEFINE chunk == [req : {r}, num : 1..(n - c), drafts : {0}]
           verify == {u \in [req : {r}, num : 1..DecodeLen, drafts : 1..sched.drafts[r]] :
                        u.num \in {u.drafts, u.drafts + 1}}
<1>1. w \in chunk \/ (n - c = 1 /\ w \in verify)  BY DEF Work
<1>2. CASE w \in chunk
  <2>1. w.req = r /\ w.num \in 1..(n - c) /\ w.drafts = 0  BY <1>2
  <2>2. QED  BY <2>1
<1>3. CASE n - c = 1 /\ w \in verify
  <2>1. w.req = r /\ w.num \in 1..DecodeLen /\ w.drafts \in 1..sched.drafts[r]
        /\ w.num \in {w.drafts, w.drafts + 1}
    BY <1>3
  <2>2. QED  BY <1>3, <2>1, RunnerAssumption DEF DecodeLen
<1>4. QED  BY <1>1, <1>2, <1>3

\* The scheduler's record, field by field, once a batch is handed out.
SchedIs(pre, new, ran, cached, f) ==
  /\ sched' = [status |-> sched'.status, toks |-> sched'.toks,
               computed |-> sched'.computed, drafts |-> sched'.drafts,
               chunked |-> sched'.chunked, finished |-> sched'.finished]
  /\ sched'.toks = sched.toks /\ sched'.finished = {}
  /\ sched'.status = [r \in Req |-> IF r \in new THEN "running"
                         ELSE IF r \in pre THEN "waiting" ELSE sched.status[r]]
  /\ sched'.computed = [r \in Req |-> IF r \in new \cup ran
                         THEN From(r, new, cached) + f[r].num ELSE sched.computed[r]]
  /\ sched'.drafts = [r \in Req |-> IF r \in new \cup ran \cup pre THEN 0
                         ELSE sched.drafts[r]]
  /\ sched'.chunked = {r \in new \cup ran :
                         From(r, new, cached) + f[r].num < Len(sched.toks[r])}

LEMMA SchedAfter ==
  ASSUME IInv, NEW pre, NEW new, NEW ran, NEW cached, NEW f, Tops(pre, new, ran, cached, f),
         \A r \in new \cup ran : r \in Req /\ f[r].req = r
  PROVE  SchedIs(pre, new, ran, cached, f)
<1> DEFINE out == Output(pre, new, ran, cached)
           work == WorkOf(f, new, ran)
           num(r) == (CHOOSE w \in work : w.req = r).num
           from(r) == IF r \in new THEN cached[r] ELSE sched.computed[r]
           sent == {w.req : w \in work}
<1>1. out.new = new /\ out.preempted = pre /\ out.cached = cached  BY DEF Output
<1>2. sent = new \cup ran  BY DEF WorkOf
<1>3. \A r \in new \cup ran : num(r) = f[r].num
  <2> SUFFICES ASSUME NEW r \in new \cup ran PROVE num(r) = f[r].num
    OBVIOUS
  <2>1. f[r] \in work /\ f[r].req = r  BY DEF WorkOf
  <2>2. \A w \in work : w.req = r => w = f[r]  BY DEF WorkOf
  <2> HIDE DEF work
  <2>3. (CHOOSE w \in work : w.req = r) = f[r]  BY <2>1, <2>2
  <2>4. QED  BY <2>3
<1>4. sched' = [sched EXCEPT
          !.status = [r \in Req |-> IF r \in new THEN "running"
                                    ELSE IF r \in pre THEN "waiting" ELSE sched.status[r]],
          !.computed = [r \in Req |-> IF r \in sent THEN from(r) + num(r)
                                      ELSE sched.computed[r]],
          !.drafts = [r \in Req |-> IF r \in sent \cup pre THEN 0 ELSE sched.drafts[r]],
          !.chunked = {r \in sent : from(r) + num(r) < Len(sched.toks[r])},
          !.finished = {}]
  BY <1>1 DEF Scheduled, Tops
<1> HIDE DEF num, from, sent
<1>5. sched = [status |-> sched.status, toks |-> sched.toks, computed |-> sched.computed,
               drafts |-> sched.drafts, chunked |-> sched.chunked,
               finished |-> sched.finished]
  BY DEF SchedInv, IInv
<1>6. /\ sched' = [status |-> sched'.status, toks |-> sched'.toks,
                   computed |-> sched'.computed, drafts |-> sched'.drafts,
                   chunked |-> sched'.chunked, finished |-> sched'.finished]
      /\ sched'.toks = sched.toks /\ sched'.finished = {}
      /\ sched'.status = [r \in Req |-> IF r \in new THEN "running"
                             ELSE IF r \in pre THEN "waiting" ELSE sched.status[r]]
      /\ sched'.computed = [r \in Req |-> IF r \in sent THEN from(r) + num(r)
                                          ELSE sched.computed[r]]
      /\ sched'.drafts = [r \in Req |-> IF r \in sent \cup pre THEN 0 ELSE sched.drafts[r]]
      /\ sched'.chunked = {r \in sent : from(r) + num(r) < Len(sched.toks[r])}
  BY <1>4, <1>5
<1>7. \A r \in new \cup ran : from(r) + num(r) = From(r, new, cached) + f[r].num
  BY <1>3 DEF From, from
<1>8. QED  BY <1>2, <1>6, <1>7 DEF SchedIs

\* Of the requests, only r has its slot.
LEMMA OwnerIs ==
  ASSUME NEW t, TableOK(t), NEW r \in Req, t.index[r] # NoSlot
  PROVE  t.index[r] \in Slot /\ {q \in Req : t.index[q] = t.index[r]} = {r}
BY DEF TableOK, SlotsPartitioned

\* The slot tensors after add_requests and update_requests.
LEMMA SlotUpdates ==
  ASSUME NEW s, IsSlotRec(s), NEW toks, NEW c
  PROVE  /\ AddState(s, toks, c) = [prefill |-> Len(toks), all |-> toks, cpu |-> c, gpu |-> c,
                                    last |-> s.last, drafts |-> s.drafts]
         /\ UpdateState(s, c) = [prefill |-> s.prefill, all |-> s.all, cpu |-> c,
                                 gpu |-> s.gpu, last |-> s.last, drafts |-> s.drafts]
         /\ IsSlotRec(AddState(s, toks, c)) /\ IsSlotRec(UpdateState(s, c))
<1>1. AddState(s, toks, c) = [prefill |-> Len(toks), all |-> toks, cpu |-> c, gpu |-> c,
                              last |-> s.last, drafts |-> s.drafts]
  <2>1. PICK u : u = AddState(s, toks, c)  OBVIOUS
  <2>2. u = [prefill |-> u.prefill, all |-> u.all, cpu |-> u.cpu, gpu |-> u.gpu,
             last |-> u.last, drafts |-> u.drafts]
    BY <2>1 DEF IsSlotRec, AddState
  <2>3. /\ u.prefill = Len(toks) /\ u.all = toks /\ u.cpu = c /\ u.gpu = c
        /\ u.last = s.last /\ u.drafts = s.drafts
    BY <2>1 DEF IsSlotRec, AddState
  <2>4. QED  BY <2>1, <2>2, <2>3
<1>2. UpdateState(s, c) = [prefill |-> s.prefill, all |-> s.all, cpu |-> c,
                           gpu |-> s.gpu, last |-> s.last, drafts |-> s.drafts]
  BY DEF IsSlotRec, UpdateState
<1>3. IsSlotRec(AddState(s, toks, c))  BY <1>1 DEF IsSlotRec
<1>4. IsSlotRec(UpdateState(s, c))  BY <1>2 DEF IsSlotRec
<1>5. QED  BY <1>1, <1>2, <1>3, <1>4

LEMMA SlotsAfter ==
  ASSUME SlotsInv, NEW t, TableOK(t), NEW new, NEW ran, NEW pre, NEW cached,
         NEW ss, ss = SlotsFor(Output(pre, new, ran, cached), t)
  PROVE  /\ ss = [x \in Slot |-> ss[x]] /\ \A x \in Slot : IsSlotRec(ss[x])
         /\ \A r \in Req : t.index[r] # NoSlot =>
              LET x == t.index[r] IN
              /\ r \in new => ss[x] = AddState(slot[x], sched.toks[r], cached[r])
              /\ r \notin new /\ r \in ran => ss[x] = UpdateState(slot[x], sched.computed[r])
              /\ r \notin new /\ r \notin ran => ss[x] = slot[x]
<1> DEFINE out == Output(pre, new, ran, cached)
           owner(x) == {r \in Req : t.index[r] = x}
           A(x) == CHOOSE r \in owner(x) : r \in new
           U(x) == CHOOSE r \in owner(x) : r \in ran
<1>1. out.new = new /\ out.ran = ran /\ out.cached = cached  BY DEF Output
<1>2. ss = [x \in Slot |->
        IF owner(x) \cap new # {} THEN AddState(slot[x], sched.toks[A(x)], cached[A(x)])
        ELSE IF owner(x) \cap ran # {} THEN UpdateState(slot[x], sched.computed[U(x)])
        ELSE slot[x]]
  BY <1>1 DEF SlotsFor
<1>3. \A x \in Slot : IsSlotRec(slot[x])  BY DEF SlotsInv
<1> HIDE DEF A, U, owner
<1>5. ASSUME NEW x \in Slot PROVE IsSlotRec(ss[x])
  <2>1. \/ ss[x] = AddState(slot[x], sched.toks[A(x)], cached[A(x)])
        \/ ss[x] = UpdateState(slot[x], sched.computed[U(x)])
        \/ ss[x] = slot[x]
    BY <1>2
  <2>2. \A toks, c : IsSlotRec(AddState(slot[x], toks, c)) /\ IsSlotRec(UpdateState(slot[x], c))
    BY <1>3, SlotUpdates
  <2>3. QED  BY <1>3, <2>1, <2>2
<1>6. ASSUME NEW r \in Req, t.index[r] # NoSlot, NEW x, x = t.index[r]
      PROVE  /\ r \in new => ss[x] = AddState(slot[x], sched.toks[r], cached[r])
             /\ r \notin new /\ r \in ran => ss[x] = UpdateState(slot[x], sched.computed[r])
             /\ r \notin new /\ r \notin ran => ss[x] = slot[x]
  <2>1. x \in Slot /\ owner(x) = {r}  BY <1>6, OwnerIs DEF owner
  <2>2. r \in new => A(x) = r /\ owner(x) \cap new # {}  BY <2>1 DEF A
  <2>3. r \in ran => U(x) = r /\ owner(x) \cap ran # {}  BY <2>1 DEF U
  <2>4. r \notin new => owner(x) \cap new = {}  BY <2>1
  <2>5. r \notin ran => owner(x) \cap ran = {}  BY <2>1
  <2>6. QED  BY <1>2, <2>1, <2>2, <2>3, <2>4, <2>5
<1>7. QED  BY <1>2, <1>5, <1>6

\* The table after the top of execute_model: who keeps a slot keeps his own.
Carried(u, S) == \A r \in S : u.index[r] = table.index[r]

LEMMA TableAfterTop ==
  ASSUME IInv, NEW pre, NEW new, NEW ran, NEW cached, NEW f, Tops(pre, new, ran, cached, f),
         NEW u, u = table'
  PROVE  Holding(u, (Running \ pre) \cup new) /\ Carried(u, Running \ pre)
<1>a. /\ pre \subseteq Running /\ new \subseteq Waiting
      /\ Cardinality((Running \ pre) \cup new) <= NumSlots
      /\ u = UpdateTable(table, SortedIds(sched.finished \cup pre), SortedIds(new))
  BY DEF Tops, Dispatch
<1>b. SchedInv /\ SlotsInv  BY DEF IInv
<1>1. PICK gone : gone = sched.finished \cup pre  OBVIOUS
<1>2. PICK W : W = (Running \ pre) \cup new  OBVIOUS
<1>3. PICK order : order = SortedIds(new)  OBVIOUS
<1>4. gone \subseteq Req /\ new \subseteq Req /\ order \in SetToSeqs(new)
  BY <1>1, <1>3, <1>a, <1>b, SortedIdsOK DEF SchedInv, Running, Waiting
<1>5. \A r \in sched.finished : r \notin Running  BY <1>b DEF SchedInv, Running
<1>6. Owned(table) = Running \cup sched.finished /\ TableOK(table)
  BY <1>b DEF SlotsInv, Holding
<1>7. W = (Owned(table) \ gone) \cup new  BY <1>1, <1>2, <1>5, <1>6
<1>8. u = UpdateTable(table, SortedIds(gone), order)  BY <1>a, <1>1, <1>3
<1>9. Updates(table, gone, new, order, W, u)
  BY <1>a, <1>2, <1>4, <1>7, <1>8 DEF Updates
<1>10. Holding(u, W) /\ SameBut(table, u, gone \cup new)
  BY <1>6, <1>9, UpdateTableOK
<1>11. ASSUME NEW r \in Running \ pre PROVE u.index[r] = table.index[r]
  <2>1. r \in Req /\ r \notin gone /\ r \notin new
    BY <1>a, <1>1, <1>5 DEF Running, Waiting
  <2>2. QED  BY <1>10, <2>1 DEF SameBut
<1>12. QED  BY <1>2, <1>10, <1>11 DEF Carried

\* An item's rows, once the forward has run.
RowsDone(batch, i, r, c, n, inputs, cache, predicted) ==
  /\ \A p \in 0 .. c - 1 : cache[r][p] = Target(r, p)
  /\ \A k \in 0 .. batch[i].num - 1 :
       /\ cache[r][c + k] = inputs[Row(batch, i, k)]
       /\ inputs[Row(batch, i, k)][1] = r
       /\ c + k < n => inputs[Row(batch, i, k)] = Target(r, c + k)
       /\ (\A l \in 0 .. k : inputs[Row(batch, i, l)] = Target(r, c + l)) =>
            predicted[Row(batch, i, k)] = Target(r, c + k + 1)

LEMMA RowsAfter ==
  ASSUME NEW ss, NEW batch, Sorted(batch), NEW i \in DOMAIN batch,
         NEW x, x = batch[i], NEW r \in Req, r = x.req,
         NEW c, NEW n, Fed(ss, batch, i, r, c, n),
         Cached(r, c), \A p \in 0 .. c - 1 : Held(r, p),
         NEW inputs, inputs = Inputs(ss, batch),
         NEW cache, cache = Written(ss, batch, inputs),
         NEW predicted, predicted = Predicted(ss, batch, cache)
  PROVE  RowsDone(batch, i, r, c, n, inputs, cache, predicted)
<1>a. PICK s : s = ss[x.slot]  OBVIOUS
<1>b. Stands(s, r, n, c) /\ Workable(x, s, r, c, n)  BY <1>a DEF Fed
<1>1. c \in Nat /\ n \in Nat /\ c < n /\ n < MaxLen /\ s.gpu = c  BY <1>b DEF Stands
<1>2. x.num \in Nat /\ x.drafts \in Nat /\ x.drafts <= NumDrafts
      /\ (x.drafts = 0 => c + x.num <= n) /\ (x.drafts > 0 => x.num = x.drafts + 1)
  BY <1>b, RunnerAssumption DEF Workable, Drafted
<1>3. NumDrafts \in Nat /\ MaxLen \in Nat  BY RunnerAssumption
<1>4. Positions = 0 .. MaxLen + NumDrafts + 1  BY <1>3 DEF Positions, DecodeLen
<1>5. \A k \in 0 .. x.num - 1 : c + k \in Positions
  BY <1>1, <1>2, <1>3, <1>4
<1>6. \A p \in 0 .. c - 1 : p \in Positions  BY <1>1, <1>3, <1>4
<1>7. DOMAIN inputs = 1 .. NumRows(batch)  BY DEF Inputs
<1>8. ASSUME NEW p \in 0 .. c - 1 PROVE cache[r][p] = Target(r, p)
  <2>1. p \in Positions /\ Held(r, p) /\ p < c  BY <1>1, <1>6
  <2>2. \A j \in DOMAIN batch : batch[j].req = r => batch[j] = x
    BY DEF Sorted
  <2>3. Below(ss, batch, r, p)
    BY <1>1, <1>a, <2>1, <2>2 DEF Below
  <2>4. cache[r][p] = kv[r][p]  BY <1>7, <2>1, <2>3, WrittenKept
  <2>5. QED  BY <2>4 DEF Cached
<1>9. ASSUME NEW k \in 0 .. x.num - 1
      PROVE  /\ cache[r][c + k] = inputs[Row(batch, i, k)]
             /\ inputs[Row(batch, i, k)][1] = r
             /\ c + k < n => inputs[Row(batch, i, k)] = Target(r, c + k)
  <2>1. c = ss[batch[i].slot].gpu /\ c \in Nat /\ k \in 0 .. batch[i].num - 1
        /\ r = batch[i].req /\ c + k \in Positions
    BY <1>1, <1>a, <1>5
  <2>2. cache[r][c + k] = inputs[Row(batch, i, k)]
    <3>1. batch[i].req \in Req /\ ss[batch[i].slot].gpu \in Nat
          /\ \A l \in 0 .. batch[i].num - 1 : ss[batch[i].slot].gpu + l \in Positions
      BY <1>5, <2>1
    <3>2. Wrote(ss, batch, i, inputs, Written(ss, batch, inputs))
      BY <1>7, <3>1, WrittenAt
    <3>3. cache[batch[i].req][ss[batch[i].slot].gpu + k] = inputs[Row(batch, i, k)]
      BY <2>1, <3>2 DEF Wrote
    <3>4. QED  BY <2>1, <3>3
  <2>3. inputs[Row(batch, i, k)] = InputToken(ss, batch, x, k)  BY <2>1, InputsAt
  <2>4. /\ InputToken(ss, batch, x, k)[1] = r
        /\ c + k < n => InputToken(ss, batch, x, k) = Target(r, c + k)
    BY TokenTrue
  <2>5. QED  BY <2>2, <2>3, <2>4
<1>10. ASSUME NEW k \in 0 .. x.num - 1,
              \A l \in 0 .. k : inputs[Row(batch, i, l)] = Target(r, c + l)
       PROVE  predicted[Row(batch, i, k)] = Target(r, c + k + 1)
  <2>1. \A q \in 0 .. c + k : cache[r][q] = Target(r, q)
    <3> SUFFICES ASSUME NEW q \in 0 .. c + k PROVE cache[r][q] = Target(r, q)
      OBVIOUS
    <3>1. CASE q < c  BY <1>1, <1>8, <3>1
    <3>2. CASE ~ (q < c)
      <4>1. PICK l : l = q - c  OBVIOUS
      <4>2. l \in 0 .. k /\ q = c + l /\ l \in 0 .. x.num - 1  BY <1>1, <1>2, <3>2, <4>1
      <4>3. QED  BY <1>9, <1>10, <4>2
    <3>3. QED  BY <3>1, <3>2
  <2>2. r = batch[i].req /\ c = ss[batch[i].slot].gpu /\ k \in 0 .. batch[i].num - 1
    BY <1>1, <1>a
  <2>3. QED  BY <2>1, <2>2, PredictedAt
<1>11. QED  BY <1>8, <1>9, <1>10 DEF RowsDone

-----------------------------------------------------------------------------
(* A call of execute_model keeps the invariant.                              *)

\* r, c of its n tokens computed, is given w.
Given(r, w, c, n) ==
  /\ r \in Req /\ sched.status[r] # "done"
  /\ c \in Nat /\ n = NumTokens(r) /\ n \in Nat /\ c < n /\ n < MaxLen /\ Cached(r, c)
  /\ w.req = r /\ w.num \in Nat \ {0} /\ w.drafts \in Nat /\ w.drafts <= sched.drafts[r]
  /\ w.drafts = 0 => c + w.num <= n
  /\ w.drafts > 0 => n = c + 1 /\ w.num \in {w.drafts, w.drafts + 1}

LEMMA SettledNow ==
  ASSUME IInv, phase = "execute", NEW r \in Req, sched.status[r] # "done"
  PROVE  Settled(r)
BY DEF IInv, PhaseInv

LEMMA NoStateNow ==
  ASSUME IInv, phase # "sample"
  PROVE  exec = NoState
BY DEF IInv, PhaseInv

LEMMA GivenIs ==
  ASSUME IInv, phase = "execute", NEW pre, NEW new, NEW ran, NEW cached, NEW f,
         Dispatch(pre, new, ran, cached, f), NEW r \in new \cup ran
  PROVE  Given(r, f[r], From(r, new, cached), NumTokens(r))
<1> DEFINE c == From(r, new, cached)
           n == NumTokens(r)
<1>1. r \in Req /\ sched.status[r] \in {"running", "waiting"}
      /\ (r \in new => sched.status[r] = "waiting")
  BY DEF Dispatch, Running, Waiting
<1>2. Settled(r)  BY <1>1, SettledNow
<1>3. n \in Nat
  <2>1. PICK m \in 1 .. MaxLen : sched.toks[r] = Prefix(r, m)
    BY <1>1 DEF IInv, SchedInv
  <2>2. m \in Nat  BY RunnerAssumption
  <2>3. Len(Prefix(r, m)) = m  BY <2>2 DEF Prefix
  <2>4. QED  BY <2>1, <2>2, <2>3 DEF NumTokens
<1>4. c \in {0, sched.computed[r]}
  BY DEF Dispatch, From
<1>5. c \in Nat /\ c < n /\ n < MaxLen /\ Cached(r, c)
  <2>1. sched.computed[r] \in Nat /\ sched.computed[r] < n /\ n < MaxLen
        /\ Cached(r, sched.computed[r])
    BY <1>2 DEF Settled
  <2>2. Cached(r, 0)
    <3>1. 0 .. 0 - 1 = {}  OBVIOUS
    <3>2. QED  BY <3>1 DEF Cached
  <2>3. CASE c = 0  BY <1>3, <2>1, <2>2, <2>3
  <2>4. CASE c = sched.computed[r]  BY <2>1, <2>4
  <2>5. QED  BY <1>4, <2>3, <2>4
<1>6. sched.drafts[r] \in Nat
  <2>1. CASE sched.status[r] = "waiting"  BY <1>2, <2>1 DEF Settled
  <2>2. CASE sched.status[r] = "running"
    BY <1>2, <2>2, RunnerAssumption DEF Settled, Drafted
  <2>3. QED  BY <1>1, <2>1, <2>2
<1>7. f[r] \in Work(r, c)  BY DEF Dispatch
<1>8. n = Len(sched.toks[r])  BY DEF NumTokens
<1> HIDE DEF c, n
<1>9. /\ f[r].req = r /\ f[r].num \in Nat \ {0} /\ f[r].drafts \in Nat
      /\ f[r].drafts <= sched.drafts[r]
      /\ f[r].drafts = 0 => c + f[r].num <= n
      /\ f[r].drafts > 0 => n = c + 1 /\ f[r].num \in {f[r].drafts, f[r].drafts + 1}
  BY <1>3, <1>5, <1>6, <1>7, <1>8, WorkIs
<1>10. n = NumTokens(r)  BY DEF n
<1>11. Given(r, f[r], c, n)  BY <1>1, <1>3, <1>5, <1>9, <1>10 DEF Given
<1>12. QED  BY <1>11 DEF c, n

\* Work w of r is in its slot of ss, with what the kernels need.
Placed(ss, t, r, w, c, n) ==
  LET s == ss[t.index[r]] IN
  Stands(s, r, n, c) /\ s.cpu = s.gpu /\ Drafted(s, r, w.drafts)

\* The top of execute_model: the tables the batch runs on.
TopSlots(t, ss, pre, new, ran, cached) ==
  /\ ss = [x \in Slot |-> ss[x]] /\ \A x \in Slot : IsSlotRec(ss[x])
  /\ \A r \in new : /\ t.index[r] \in Slot
                    /\ ss[t.index[r]] = AddState(slot[t.index[r]], sched.toks[r], cached[r])
  /\ \A r \in ran : ss[t.index[r]] = UpdateState(slot[table.index[r]], sched.computed[r])
  /\ \A r \in Running \ pre : r \notin ran => ss[t.index[r]] = slot[table.index[r]]

LEMMA TopTables ==
  ASSUME IInv, NEW pre, NEW new, NEW ran, NEW cached, NEW f,
         Tops(pre, new, ran, cached, f)
  PROVE  /\ Holding(table', (Running \ pre) \cup new)
         /\ TopSlots(table', slot', pre, new, ran, cached)
<1>0. PICK W : W = (Running \ pre) \cup new  OBVIOUS
<1>1. /\ pre \subseteq Running /\ new \subseteq Waiting /\ ran \subseteq Running \ pre
  BY DEF Tops, Dispatch
<1>3. PICK t : t = table'  OBVIOUS
<1>4. PICK ss : ss = slot'  OBVIOUS
<1>2. Holding(t, W) /\ Carried(t, Running \ pre)
  BY <1>0, <1>3, TableAfterTop
<1>5. TableOK(t) /\ ss = SlotsFor(Output(pre, new, ran, cached), t)
  BY <1>2, <1>3, <1>4 DEF Holding, Tops
<1>6. SlotsInv  BY DEF IInv
<1>7. /\ ss = [x \in Slot |-> ss[x]] /\ \A x \in Slot : IsSlotRec(ss[x])
      /\ \A r \in Req : t.index[r] # NoSlot =>
              LET x == t.index[r] IN
              /\ r \in new => ss[x] = AddState(slot[x], sched.toks[r], cached[r])
              /\ r \notin new /\ r \in ran => ss[x] = UpdateState(slot[x], sched.computed[r])
              /\ r \notin new /\ r \notin ran => ss[x] = slot[x]
  BY <1>5, <1>6, SlotsAfter
<1>8. \A r \in W : r \in Req /\ t.index[r] # NoSlot
  BY <1>2 DEF Holding, Owned
<1>9. \A r \in Running : r \notin new  BY <1>1 DEF Running, Waiting
<1>10. \A r \in new : ss[t.index[r]] = AddState(slot[t.index[r]], sched.toks[r], cached[r])
  BY <1>0, <1>7, <1>8
<1>11. \A r \in Running \ pre : t.index[r] = table.index[r]  BY <1>2 DEF Carried
<1>15. \A r \in new : t.index[r] \in Slot
  BY <1>0, <1>5, <1>8, OwnerIs
<1>12. \A r \in ran : ss[t.index[r]] = UpdateState(slot[table.index[r]], sched.computed[r])
  BY <1>0, <1>1, <1>7, <1>8, <1>9, <1>11
<1>13. \A r \in Running \ pre : r \notin ran => ss[t.index[r]] = slot[table.index[r]]
  BY <1>0, <1>7, <1>8, <1>9, <1>11
<1>16. TopSlots(t, ss, pre, new, ran, cached)
  BY <1>7, <1>10, <1>12, <1>13, <1>15 DEF TopSlots
<1>14. QED  BY <1>0, <1>2, <1>3, <1>4, <1>16

\* What add_request and update_requests leave for the work of the batch.
LEMMA TopPlaces ==
  ASSUME IInv, phase = "execute", NEW pre, NEW new, NEW ran, NEW cached, NEW f,
         Tops(pre, new, ran, cached, f), NEW r \in new \cup ran
  PROVE  Placed(slot', table', r, f[r], From(r, new, cached), NumTokens(r))
<1> DEFINE c == From(r, new, cached)
           n == NumTokens(r)
<1>0. TopSlots(table', slot', pre, new, ran, cached)  BY TopTables
<1>1. PICK s : s = slot'[table'.index[r]]  OBVIOUS
<1>2. Given(r, f[r], c, n)  BY GivenIs DEF Tops
<1>3. r \in Req /\ c \in Nat /\ n \in Nat /\ c < n /\ n < MaxLen /\ f[r].drafts \in Nat
      /\ f[r].drafts <= sched.drafts[r] /\ sched.status[r] # "done"
  BY <1>2 DEF Given
<1>4. /\ new \subseteq Waiting /\ ran \subseteq Running
  BY DEF Tops, Dispatch
<1>5. Settled(r)  BY <1>3, SettledNow
<1>6. sched.toks[r] = Prefix(r, n)
  <2>1. PICK m \in 1 .. MaxLen : sched.toks[r] = Prefix(r, m)
    BY <1>3 DEF IInv, SchedInv
  <2>2. m \in Nat  BY RunnerAssumption
  <2>3. Len(Prefix(r, m)) = m  BY <2>2 DEF Prefix
  <2>4. QED  BY <2>1, <2>2, <2>3 DEF NumTokens
<1>7. \A x \in Slot : IsSlotRec(slot[x])  BY DEF IInv, SlotsInv
<1>8. CASE r \in new
  <2>1. PICK v : v = slot[table'.index[r]]  OBVIOUS
  <2>2. table'.index[r] \in Slot  BY <1>0, <1>8 DEF TopSlots
  <2>3. IsSlotRec(v)  BY <1>7, <2>1, <2>2
  <2>4. c = cached[r] /\ s = AddState(v, sched.toks[r], c)
    BY <1>0, <1>1, <1>8, <2>1 DEF From, TopSlots
  <2>5. s = [prefill |-> Len(sched.toks[r]), all |-> sched.toks[r], cpu |-> c, gpu |-> c,
             last |-> v.last, drafts |-> v.drafts]
    BY <2>3, <2>4, SlotUpdates
  <2>6. s.prefill = n /\ s.all = Prefix(r, n) /\ s.cpu = c /\ s.gpu = c
    BY <1>6, <2>5 DEF NumTokens
  <2>7. Stands(s, r, n, c)
    <3> HIDE DEF c, n
    <3>1. QED  BY <1>3, <2>6 DEF Stands
  <2>8. f[r].drafts = 0
    <3>1. sched.drafts[r] = 0  BY <1>4, <1>5, <1>8 DEF Settled, Waiting
    <3>2. QED  BY <1>3, <3>1
  <2>9. Drafted(s, r, f[r].drafts)  BY <2>8, RunnerAssumption DEF Drafted
  <2>10. QED  BY <1>1, <2>6, <2>7, <2>9 DEF Placed
<1>9. CASE r \notin new
  <2>1. PICK v : v = slot[table.index[r]]  OBVIOUS
  <2>2. r \in ran /\ sched.status[r] = "running"  BY <1>4, <1>9 DEF Running
  <2>3. Stands(v, r, n, sched.computed[r]) /\ Drafted(v, r, sched.drafts[r])
    BY <1>5, <2>1, <2>2 DEF Settled
  <2>4. table.index[r] \in Slot
    <3>1. TableOK(table) /\ table.index[r] # NoSlot
      BY <1>3, <2>2 DEF IInv, SlotsInv, Holding, Owned, Running
    <3>2. QED  BY <1>3, <3>1, OwnerIs
  <2>5. IsSlotRec(v)  BY <1>7, <2>1, <2>4
  <2>6. c = sched.computed[r] /\ s = UpdateState(v, c)
    BY <1>0, <1>1, <1>9, <2>1, <2>2 DEF From, TopSlots
  <2>7. s = [prefill |-> v.prefill, all |-> v.all, cpu |-> c, gpu |-> v.gpu,
             last |-> v.last, drafts |-> v.drafts]
    BY <2>5, <2>6, SlotUpdates
  <2>8. Stands(v, r, n, c)  BY <2>3, <2>6
  <2> HIDE DEF c, n
  <2>9. Stands(s, r, n, c)  BY <2>7, <2>8 DEF Stands
  <2>10. s.cpu = s.gpu  BY <2>7, <2>8 DEF Stands
  <2>11. Drafted(s, r, f[r].drafts)
    <3>1. sched.drafts[r] \in 0 .. NumDrafts
          /\ (sched.drafts[r] > 0 => /\ v.gpu >= v.prefill
                                     /\ \A j \in 1 .. NumDrafts : v.drafts[j][1] = r)
      BY <2>3 DEF Drafted
    <3>2. s.gpu = v.gpu /\ s.prefill = v.prefill /\ s.drafts = v.drafts  BY <2>7
    <3>3. f[r].drafts \in 0 .. NumDrafts /\ (f[r].drafts > 0 => sched.drafts[r] > 0)
      BY <1>3, <3>1, RunnerAssumption
    <3>4. QED  BY <3>1, <3>2, <3>3 DEF Drafted
  <2>12. QED  BY <1>1, <2>9, <2>10, <2>11 DEF Placed, c, n
<1>10. QED  BY <1>8, <1>9

\* The scheduler's record and the tables.
LEMMA TopInv ==
  ASSUME IInv, phase = "execute", NEW pre, NEW new, NEW ran, NEW cached, NEW f,
         Tops(pre, new, ran, cached, f)
  PROVE  /\ SchedInv' /\ SlotsInv'
         /\ sched'.toks = sched.toks /\ sched'.finished = {}
         /\ \A r \in new \cup ran :
              /\ sched'.status[r] = "running" /\ sched'.drafts[r] = 0
              /\ sched'.computed[r] = From(r, new, cached) + f[r].num
              /\ r \in sched'.chunked <=> From(r, new, cached) + f[r].num < NumTokens(r)
         /\ \A r \in Req \ (new \cup ran) :
              /\ sched'.status[r] = IF r \in pre THEN "waiting" ELSE sched.status[r]
              /\ sched'.computed[r] = sched.computed[r]
              /\ sched'.drafts[r] = IF r \in pre THEN 0 ELSE sched.drafts[r]
<1>1. /\ pre \subseteq Running /\ new \subseteq Waiting /\ ran \subseteq Running \ pre
      /\ sched' = Scheduled(Output(pre, new, ran, cached), WorkOf(f, new, ran))
  BY DEF Tops, Dispatch
<1>2. pre \subseteq Req /\ new \subseteq Req /\ ran \subseteq Req  BY <1>1 DEF Running, Waiting
<1>3. \A r \in new \cup ran : f[r].req = r  BY GivenIs DEF Given, Tops
<1>4. SchedInv  BY DEF IInv
<1>5. SchedIs(pre, new, ran, cached, f)  BY <1>2, <1>3, SchedAfter
<1>6. \A r \in Req : sched.status[r] \in {"waiting", "running", "done"}  BY <1>4 DEF SchedInv
<1>7. SchedInv'
  <2>1. sched'.status \in [Req -> {"waiting", "running", "done"}]  BY <1>5, <1>6 DEF SchedIs
  <2>2. \A r \in Req : \E n \in 1 .. MaxLen : sched'.toks[r] = Prefix(r, n)
    BY <1>4, <1>5 DEF SchedInv, SchedIs
  <2>3. sched'.toks = [r \in Req |-> sched'.toks[r]]  BY <1>4, <1>5 DEF SchedInv, SchedIs
  <2>4. /\ sched'.computed = [r \in Req |-> sched'.computed[r]]
        /\ sched'.drafts = [r \in Req |-> sched'.drafts[r]]
        /\ sched'.finished = {}
    BY <1>5 DEF SchedIs
  <2>5. QED  BY <1>5, <2>1, <2>2, <2>3, <2>4 DEF SchedInv, SchedIs
<1>8. SlotsInv'
  <2>1. Running' = (Running \ pre) \cup new
    BY <1>1, <1>2, <1>5 DEF Running, Waiting, SchedIs
  <2>2. (Running \cup sched.finished)' = (Running \ pre) \cup new  BY <1>5, <2>1 DEF SchedIs
  <2>3. Holding(table', (Running \ pre) \cup new) /\ slot' = [x \in Slot |-> slot'[x]]
        /\ \A x \in Slot : IsSlotRec(slot'[x])
    BY TopTables DEF TopSlots
  <2>4. QED  BY <2>2, <2>3 DEF SlotsInv
<1>9. \A r \in ran : sched.status[r] = "running" /\ r \notin pre  BY <1>1 DEF Running
<1>10. \A r \in new \cup ran : sched'.status[r] = "running"  BY <1>2, <1>5, <1>9 DEF SchedIs
<1>11. QED  BY <1>2, <1>5, <1>7, <1>8, <1>10 DEF NumTokens, SchedIs

\* A request that is not in the batch stays as it was, if its keys do.
LEMMA TopSettles ==
  ASSUME IInv, phase = "execute", NEW pre, NEW new, NEW ran, NEW cached, NEW f,
         Tops(pre, new, ran, cached, f), NEW r \in Req \ (new \cup ran),
         sched.status[r] # "done",
         \A p \in 0 .. sched.computed[r] - 1 : kv'[r][p] = kv[r][p]
  PROVE  Settled(r)'
<1>1. Settled(r)  BY SettledNow
<1>2. /\ sched'.status[r] = IF r \in pre THEN "waiting" ELSE sched.status[r]
      /\ sched'.computed[r] = sched.computed[r] /\ sched'.toks = sched.toks
      /\ sched'.drafts[r] = IF r \in pre THEN 0 ELSE sched.drafts[r]
  BY TopInv
<1>3. Cached(r, sched.computed[r])'  BY <1>1, <1>2 DEF Settled, Cached
<1>4. sched'.computed[r] \in Nat /\ sched'.computed[r] < NumTokens(r)' /\ NumTokens(r)' < MaxLen
  BY <1>1, <1>2 DEF Settled, NumTokens
<1>5. sched'.status[r] = "waiting" => sched'.drafts[r] = 0
  BY <1>1, <1>2 DEF Settled
<1>6. ASSUME sched'.status[r] = "running"
      PROVE  /\ Stands(slot[table.index[r]], r, NumTokens(r), sched.computed[r])'
             /\ Drafted(slot[table.index[r]], r, sched.drafts[r])'
  <2>1. r \in Running \ pre /\ r \notin ran /\ sched.status[r] = "running"
    BY <1>2, <1>6 DEF Running
  <2>2. slot'[table'.index[r]] = slot[table.index[r]]
    <3>1. TopSlots(table', slot', pre, new, ran, cached)  BY TopTables
    <3>2. QED  BY <2>1, <3>1 DEF TopSlots
  <2>3. sched'.drafts[r] = sched.drafts[r] /\ NumTokens(r)' = NumTokens(r)
    BY <1>2, <2>1 DEF NumTokens
  <2>4. Stands(slot[table.index[r]], r, NumTokens(r), sched.computed[r])
        /\ Drafted(slot[table.index[r]], r, sched.drafts[r])
    BY <1>1, <2>1 DEF Settled
  <2>5. QED  BY <1>2, <2>2, <2>3, <2>4
<1>7. QED  BY <1>3, <1>4, <1>5, <1>6 DEF Settled

\* An item of the sorted batch is some scheduled request's work, at its slot.
Item(r, w, t) == [req |-> r, num |-> w.num, drafts |-> w.drafts, slot |-> t.index[r]]

LEMMA BatchOf ==
  ASSUME NEW new, NEW ran, NEW f, NEW t, NEW batch,
         batch = BatchOrder(ItemsOf(WorkOf(f, new, ran), t)),
         \A r \in new \cup ran : /\ r \in Req /\ f[r].req = r
                                 /\ f[r].num \in Nat \ {0} /\ f[r].drafts \in Nat
  PROVE  /\ Sorted(batch)
         /\ \A i \in DOMAIN batch : \E r \in new \cup ran : batch[i] = Item(r, f[r], t)
         /\ \A r \in new \cup ran : \E i \in DOMAIN batch : batch[i] = Item(r, f[r], t)
<1>1. PICK items : items = ItemsOf(WorkOf(f, new, ran), t)  OBVIOUS
<1>2. \A x \in items : \E r \in new \cup ran : x = Item(r, f[r], t)
  BY <1>1 DEF ItemsOf, WorkOf, Item
<1>3. \A r \in new \cup ran : Item(r, f[r], t) \in items
  BY <1>1 DEF ItemsOf, WorkOf, Item
<1>4. \A r \in new \cup ran : LET x == Item(r, f[r], t) IN
        x.req = r /\ x.req \in Req /\ x.num \in Nat \ {0} /\ x.drafts \in Nat
  BY DEF Item
<1>5. ItemSet(items)
  <2>1. \A x \in items : x.req \in Req /\ x.num \in Nat \ {0} /\ x.drafts \in Nat
    BY <1>2, <1>4
  <2>2. \A x, y \in items : x.req = y.req => x = y  BY <1>2, <1>4
  <2>3. QED  BY <2>1, <2>2 DEF ItemSet
<1>6. batch = BatchOrder(items)  BY <1>1
<1>7. /\ Sorted(batch)
      /\ \A i \in DOMAIN batch : batch[i] \in items
      /\ \A x \in items : \E i \in DOMAIN batch : batch[i] = x
  BY <1>5, <1>6, BatchIs
<1>8. QED  BY <1>2, <1>3, <1>7

\* The forward of a batch that can run, seen from one of its items.
LEMMA ForwardItem ==
  ASSUME IInv, phase = "execute", NEW pre, NEW new, NEW ran, NEW cached, NEW f,
         Tops(pre, new, ran, cached, f), NEW batch, Forward(slot', batch), Sorted(batch),
         NEW i \in DOMAIN batch, NEW r \in new \cup ran, batch[i] = Item(r, f[r], table')
  PROVE  ItemTrue(exec, i)'
<1>a. PICK c : c = From(r, new, cached)  OBVIOUS
<1>b. PICK n : n = NumTokens(r)  OBVIOUS
<1>1. PICK x : x = batch[i]  OBVIOUS
<1>2. x.req = r /\ x.num = f[r].num /\ x.drafts = f[r].drafts /\ x.slot = table'.index[r]
  BY <1>1 DEF Item
<1>3. PICK ss : ss = slot'  OBVIOUS
<1>4. PICK s : s = ss[x.slot]  OBVIOUS
<1>5. Given(r, f[r], c, n)  BY <1>a, <1>b, GivenIs DEF Tops
<1>6. Stands(s, r, n, c) /\ s.cpu = s.gpu /\ Drafted(s, r, f[r].drafts)
  BY <1>2, <1>3, <1>4, <1>a, <1>b, TopPlaces DEF Placed
<1>7. /\ r \in Req /\ sched.status[r] # "done" /\ Cached(r, c) /\ c \in Nat /\ n \in Nat
      /\ x.num \in Nat /\ x.drafts \in Nat
      /\ x.drafts = 0 => c + x.num <= n
      /\ x.drafts > 0 => n = c + 1 /\ x.num \in {x.drafts, x.drafts + 1}
  BY <1>2, <1>5 DEF Given
<1>8. x.num >= x.drafts + 1  BY <1>1 DEF Forward, RowsSuffice
<1>9. x.drafts > 0 => x.num = x.drafts + 1  BY <1>7, <1>8
<1>10. Workable(x, s, r, c, n)  BY <1>2, <1>6, <1>7, <1>8, <1>9 DEF Workable
<1>11. Fed(ss, batch, i, r, c, n)  BY <1>1, <1>4, <1>6, <1>10 DEF Fed
<1>12. \A p \in 0 .. c - 1 : Held(r, p)
  <2>1. c = 0 \/ c = sched.computed[r]  BY <1>a DEF From, Tops, Dispatch
  <2>2. CASE c = 0  BY <2>2
  <2>3. CASE c = sched.computed[r]  BY <1>7, <2>3 DEF Held
  <2>4. QED  BY <2>1, <2>2, <2>3
<1>13. PICK inputs : inputs = Inputs(ss, batch)  OBVIOUS
<1>14. PICK cache : cache = Written(ss, batch, inputs)  OBVIOUS
<1>15. PICK predicted : predicted = Predicted(ss, batch, cache)  OBVIOUS
<1>16. /\ kv' = cache
       /\ exec' = [batch |-> batch, inputs |-> inputs, predicted |-> predicted,
                   step |-> 1 - step]
  BY <1>3, <1>13, <1>14, <1>15 DEF Forward
<1>17. RowsDone(batch, i, r, c, n, inputs, cache, predicted)
  BY <1>1, <1>2, <1>7, <1>11, <1>12, <1>13, <1>14, <1>15, RowsAfter
<1>18. exec'.batch = batch /\ exec'.inputs = inputs /\ exec'.predicted = predicted
  BY <1>16
<1>19. RowsTrue(exec, i, r, c, n)'
  BY <1>1, <1>16, <1>17, <1>18 DEF RowsTrue, RowsDone
<1>20. /\ sched'.toks = sched.toks /\ sched'.status[r] = "running" /\ sched'.drafts[r] = 0
       /\ sched'.computed[r] = c + x.num
       /\ r \in sched'.chunked <=> c + x.num < n
  BY <1>2, <1>a, <1>b, TopInv
<1>21. NumTokens(r)' = n  BY <1>20, <1>b DEF NumTokens
<1>22. Cached(r, c)'  BY <1>16, <1>17 DEF Cached, RowsDone
<1>23. s.gpu = c  BY <1>6 DEF Stands
<1>24. x.drafts <= NumDrafts  BY <1>2, <1>6, RunnerAssumption DEF Drafted
<1>25. x.drafts > 0 => c >= s.prefill
  BY <1>2, <1>6, <1>23 DEF Drafted
<1>26. exec'.batch[i] = x /\ slot'[x.slot] = s  BY <1>1, <1>3, <1>4, <1>18
<1>27. QED
  BY <1>2, <1>6, <1>7, <1>8, <1>9, <1>19, <1>20, <1>21, <1>22, <1>23, <1>24, <1>25, <1>26
     DEF ItemTrue

\* A batch leaves the keys of who is not in it.
LEMMA ForwardKeeps ==
  ASSUME IInv, NEW batch, Forward(slot', batch), Sorted(batch),
         NEW r \in Req, \A i \in DOMAIN batch : batch[i].req # r, sched.status[r] # "done",
         sched.computed[r] \in Nat, sched.computed[r] < MaxLen
  PROVE  \A p \in 0 .. sched.computed[r] - 1 : kv'[r][p] = kv[r][p]
<1> SUFFICES ASSUME NEW p \in 0 .. sched.computed[r] - 1 PROVE kv'[r][p] = kv[r][p]
  OBVIOUS
<1>1. PICK ss : ss = slot'  OBVIOUS
<1>2. PICK inputs : inputs = Inputs(ss, batch)  OBVIOUS
<1>3. kv' = Written(ss, batch, inputs)  BY <1>1, <1>2 DEF Forward
<1>4. Held(r, p)  BY DEF Held
<1>5. p \in Positions  BY RunnerAssumption DEF Positions, DecodeLen
<1>6. DOMAIN inputs = 1 .. NumRows(batch)  BY <1>2 DEF Inputs
<1>9. Below(ss, batch, r, p)  BY DEF Below
<1>10. PICK cache : cache = Written(ss, batch, inputs)  OBVIOUS
<1>7. cache[r][p] = kv[r][p]  BY <1>4, <1>5, <1>6, <1>9, <1>10, WrittenKept
<1>8. QED  BY <1>3, <1>7, <1>10

LEMMA ExecuteInv ==
  ASSUME IInv, phase = "execute", Execute
  PROVE  IInv'
<1>1. PICK pre, new, ran, cached, f : Executes(pre, new, ran, cached, f)  BY ExecuteIs
<1>2. Tops(pre, new, ran, cached, f) /\ phase' = "sample" /\ step' = 1 - step
  BY <1>1 DEF Executes
<1>3. SchedInv' /\ SlotsInv' /\ sched'.finished = {}  BY <1>2, TopInv
<1>4. exec = NoState  BY NoStateNow
<1>5. CASE Raise
  <2>1. exec' = NoState  BY <1>4, <1>5 DEF Raise
  <2>2. PhaseInv'  BY <1>2, <2>1 DEF PhaseInv
  <2>3. QED  BY <1>3, <2>2 DEF IInv
<1>6. CASE Forward(slot', BatchOrder(ItemsOf(WorkOf(f, new, ran), table')))
  <2>1. PICK batch : batch = BatchOrder(ItemsOf(WorkOf(f, new, ran), table'))  OBVIOUS
  <2>2. \A r \in new \cup ran : r \in Req /\ f[r].req = r /\ f[r].num \in Nat \ {0}
                                /\ f[r].drafts \in Nat
    BY <1>2, GivenIs DEF Given, Tops
  <2>3. PICK t : t = table'  OBVIOUS
  <2>4. batch = BatchOrder(ItemsOf(WorkOf(f, new, ran), t))  BY <2>1, <2>3
  <2>5. /\ Sorted(batch)
        /\ \A i \in DOMAIN batch : \E r \in new \cup ran : batch[i] = Item(r, f[r], t)
        /\ \A r \in new \cup ran : \E i \in DOMAIN batch : batch[i] = Item(r, f[r], t)
    BY <2>2, <2>4, BatchOf
  <2>6. Forward(slot', batch) /\ exec'.batch = batch /\ exec'.step = step'
    BY <1>2, <1>6, <2>1 DEF Forward
  <2>7. ASSUME NEW i \in DOMAIN batch PROVE ItemTrue(exec, i)'
    <3>1. PICK r \in new \cup ran : batch[i] = Item(r, f[r], t)  BY <2>5
    <3>2. batch[i] = Item(r, f[r], table')  BY <2>3, <3>1
    <3>3. QED  BY <1>2, <2>5, <2>6, <3>2, ForwardItem
  <2>8. ASSUME NEW r \in Req, sched'.status[r] # "done"
        PROVE  Settled(r)' \/ \E i \in DOMAIN batch : batch[i].req = r
    <3>1. CASE r \in new \cup ran
      <4>1. PICK i \in DOMAIN batch : batch[i] = Item(r, f[r], t)  BY <2>5, <3>1
      <4>2. batch[i].req = r  BY <4>1 DEF Item
      <4>3. QED  BY <4>2
    <3>2. CASE r \notin new \cup ran
      <4>1. \A i \in DOMAIN batch : batch[i].req # r
        <5> SUFFICES ASSUME NEW i \in DOMAIN batch PROVE batch[i].req # r
          OBVIOUS
        <5>1. PICK q \in new \cup ran : batch[i] = Item(q, f[q], t)  BY <2>5
        <5>2. batch[i].req = q  BY <5>1 DEF Item
        <5>3. QED  BY <3>2, <5>2
      <4>2. sched.status[r] # "done"
        <5>1. sched'.status[r] = IF r \in pre THEN "waiting" ELSE sched.status[r]
          BY <1>2, <3>2, TopInv
        <5>2. r \in pre => sched.status[r] = "running"
          BY <1>2 DEF Tops, Dispatch, Running
        <5>3. QED  BY <2>8, <5>1, <5>2
      <4>3. Settled(r)  BY <4>2, SettledNow
      <4>4. sched.computed[r] \in Nat /\ sched.computed[r] < MaxLen
        <5>1. NumTokens(r) \in Nat
          <6>1. PICK m \in 1 .. MaxLen : sched.toks[r] = Prefix(r, m)
            BY DEF IInv, SchedInv
          <6>2. m \in Nat  BY RunnerAssumption
          <6>3. Len(Prefix(r, m)) = m  BY <6>2 DEF Prefix
          <6>4. QED  BY <6>1, <6>2, <6>3 DEF NumTokens
        <5>2. QED  BY <4>3, <5>1, RunnerAssumption DEF Settled
      <4>5. \A p \in 0 .. sched.computed[r] - 1 : kv'[r][p] = kv[r][p]
        BY <2>5, <2>6, <4>1, <4>2, <4>4, ForwardKeeps
      <4>6. Settled(r)'  BY <1>2, <3>2, <4>2, <4>5, TopSettles
      <4>7. QED  BY <4>6
    <3>3. QED  BY <3>1, <3>2
  <2>9. PhaseInv'  BY <1>2, <1>3, <2>5, <2>6, <2>7, <2>8 DEF PhaseInv
  <2>10. QED  BY <1>3, <2>9 DEF IInv
<1>7. QED  BY <1>1, <1>5, <1>6 DEF Executes

LEMMA NothingIs ==
  ASSUME ExecuteNothing
  PROVE  \E pre : Tops(pre, {}, {}, <<>>, <<>>)
<1> DEFINE Out(so) == [preempted |-> so.preempted, new |-> {}, ran |-> {}, cached |-> <<>>]
<1>1. PICK so \in SchedulerOutputs :
        /\ so.new = {} /\ so.ran = {}
        /\ sched' = Scheduled(Out(so), {})
        /\ UpdateRequests(Out(so))
  BY DEF ExecuteNothing
<1>2. PICK pre : pre = so.preempted  OBVIOUS
<1>3. pre \subseteq Running /\ Cardinality((Running \ pre) \cup {}) <= NumSlots
  BY <1>1, <1>2 DEF SchedulerOutputs
<1>4. Dispatch(pre, {}, {}, <<>>, <<>>)  BY <1>3 DEF Dispatch
<1>5. Out(so) = Output(pre, {}, {}, <<>>) /\ WorkOf(<<>>, {}, {}) = {}
  BY <1>2 DEF Output, WorkOf
<1>6. Output(pre, {}, {}, <<>>).preempted = pre /\ Output(pre, {}, {}, <<>>).new = {}
  BY DEF Output
<1>7. UpdateRequests(Output(pre, {}, {}, <<>>))
      /\ sched' = Scheduled(Output(pre, {}, {}, <<>>), WorkOf(<<>>, {}, {}))
  BY <1>1, <1>5
<1>8. /\ table' = UpdateTable(table, SortedIds(sched.finished \cup pre), SortedIds({}))
      /\ slot' = SlotsFor(Output(pre, {}, {}, <<>>), table')
  BY <1>6, <1>7 DEF UpdateRequests, FinishOrders
<1>9. Tops(pre, {}, {}, <<>>, <<>>)  BY <1>4, <1>7, <1>8 DEF Tops
<1>10. QED  BY <1>9

LEMMA ExecuteNothingInv ==
  ASSUME IInv, phase = "execute", ExecuteNothing
  PROVE  IInv'
<1>1. PICK pre : Tops(pre, {}, {}, <<>>, <<>>)  BY NothingIs
<1>2. kv' = kv /\ exec' = exec /\ phase' = phase /\ step' = step  BY DEF ExecuteNothing
<1>3. SchedInv' /\ SlotsInv'  BY <1>1, TopInv
<1>4. exec' = NoState  BY <1>2, NoStateNow
<1>5. ASSUME NEW r \in Req, sched'.status[r] # "done" PROVE Settled(r)'
  <2>1. sched'.status[r] = IF r \in pre THEN "waiting" ELSE sched.status[r]
    BY <1>1, TopInv
  <2>2. r \in pre => sched.status[r] = "running"  BY <1>1 DEF Tops, Dispatch, Running
  <2>3. sched.status[r] # "done"  BY <1>5, <2>1, <2>2
  <2>4. QED  BY <1>1, <1>2, <2>3, TopSettles
<1>6. PhaseInv'  BY <1>2, <1>4, <1>5 DEF PhaseInv
<1>7. QED  BY <1>3, <1>6 DEF IInv

-----------------------------------------------------------------------------
(* Greedy verification.                                                      *)

\* The tokens of r from position n on.
Rest(r, n, m) == [t \in 1 .. m |-> Target(r, n - 1 + t)]

LEMMA PrefixIs ==
  ASSUME NEW r, NEW n \in Nat
  PROVE  /\ Prefix(r, n) \in Seq({r} \X Int) /\ Len(Prefix(r, n)) = n
         /\ \A p \in 1 .. n : Prefix(r, n)[p] = Target(r, p - 1)
<1>1. \A p \in 1 .. n : Target(r, p - 1) \in {r} \X Int  BY DEF Target
<1>2. Prefix(r, n) \in [1 .. n -> {r} \X Int]  BY <1>1 DEF Prefix
<1>3. QED  BY <1>2 DEF Prefix

LEMMA RestIs ==
  ASSUME NEW r, NEW n \in Nat, NEW m \in Nat
  PROVE  /\ Rest(r, n, m) \in Seq({r} \X Int) /\ Len(Rest(r, n, m)) = m
         /\ \A t \in 1 .. m : Rest(r, n, m)[t] = Target(r, n - 1 + t)
<1>1. \A t \in 1 .. m : Target(r, n - 1 + t) \in {r} \X Int  BY DEF Target
<1>2. Rest(r, n, m) \in [1 .. m -> {r} \X Int]  BY <1>1 DEF Rest
<1>3. QED  BY <1>2 DEF Rest

LEMMA PrefixGrows ==
  ASSUME NEW r, NEW n \in Nat, NEW m \in Nat
  PROVE  Prefix(r, n) \o Rest(r, n, m) = Prefix(r, n + m)
<1> DEFINE u == Prefix(r, n) \o Rest(r, n, m)
<1>0. PICK l \in Nat : l = n + m  OBVIOUS
<1>1. /\ Prefix(r, n) \in Seq({r} \X Int) /\ Len(Prefix(r, n)) = n
      /\ Rest(r, n, m) \in Seq({r} \X Int) /\ Len(Rest(r, n, m)) = m
      /\ Prefix(r, n + m) \in Seq({r} \X Int) /\ Len(Prefix(r, n + m)) = n + m
  BY <1>0, PrefixIs, RestIs
<1>2. /\ u \in Seq({r} \X Int) /\ Len(u) = n + m
      /\ \A p \in 1 .. n + m : u[p] = IF p <= n THEN Prefix(r, n)[p]
                                      ELSE Rest(r, n, m)[p - n]
  <2>1. PICK v : v = Prefix(r, n)  OBVIOUS
  <2>2. PICK w : w = Rest(r, n, m)  OBVIOUS
  <2>3. v \in Seq({r} \X Int) /\ w \in Seq({r} \X Int) /\ Len(v) = n /\ Len(w) = m
    BY <1>1, <2>1, <2>2
  <2>4. /\ v \o w \in Seq({r} \X Int) /\ Len(v \o w) = n + m
        /\ \A p \in 1 .. n + m : (v \o w)[p] = IF p <= n THEN v[p] ELSE w[p - n]
    BY <2>3, ConcatProperties
  <2>5. QED  BY <2>1, <2>2, <2>4
<1> HIDE DEF u
<1>3. ASSUME NEW p \in 1 .. n + m PROVE u[p] = Prefix(r, n + m)[p]
  <2>1. Prefix(r, n + m)[p] = Target(r, p - 1)  BY <1>0, PrefixIs
  <2>2. CASE p <= n
    <3>1. p \in 1 .. n  BY <2>2
    <3>2. u[p] = Prefix(r, n)[p]  BY <1>2, <2>2
    <3>3. QED  BY <2>1, <3>1, <3>2, PrefixIs
  <2>3. CASE ~ (p <= n)
    <3>1. p - n \in 1 .. m /\ n - 1 + (p - n) = p - 1  BY <2>3
    <3>2. Rest(r, n, m)[p - n] = Target(r, n - 1 + (p - n))  BY <3>1, RestIs
    <3>3. u[p] = Rest(r, n, m)[p - n]  BY <1>2, <2>3
    <3>4. QED  BY <2>1, <3>1, <3>2, <3>3
  <2>4. QED  BY <2>2, <2>3
<1>4. u = Prefix(r, n + m)  BY <1>1, <1>2, <1>3, SeqEqual
<1>5. QED  BY <1>4 DEF u

LEMMA PrefixCut ==
  ASSUME NEW r, NEW n \in Nat, NEW m \in Nat, m <= n
  PROVE  SubSeq(Prefix(r, n), 1, m) = Prefix(r, m)
<1> DEFINE u == SubSeq(Prefix(r, n), 1, m)
<1>0. \A i \in 1 .. n : Prefix(r, n)[i] = Target(r, i - 1)  BY PrefixIs
<1>1. \A i \in 1 .. m : Prefix(r, n)[i] = Target(r, i - 1)  BY <1>0
<1>2. \A i \in 1 .. m : Prefix(r, n)[i] \in {r} \X Int  BY <1>1 DEF Target
<1>3. /\ u \in Seq({r} \X Int) /\ Len(u) = IF 1 <= m THEN m - 1 + 1 ELSE 0
      /\ \A i \in 1 .. m - 1 + 1 : u[i] = Prefix(r, n)[1 + i - 1]
  BY <1>2, SubSeqProperties
<1>4. Len(u) = m /\ \A i \in 1 .. m : u[i] = Prefix(r, n)[i]  BY <1>3
<1> HIDE DEF u
<1>5. Prefix(r, m) \in Seq({r} \X Int) /\ Len(Prefix(r, m)) = m
      /\ \A i \in 1 .. m : Prefix(r, m)[i] = Target(r, i - 1)
  BY PrefixIs
<1>6. u = Prefix(r, m)  BY <1>1, <1>3, <1>4, <1>5, SeqEqual
<1>7. QED  BY <1>6 DEF u

\* A nonempty set of naturals up to d has a maximum.
LEMMA MaxIn ==
  ASSUME NEW d \in Nat, NEW S \in SUBSET (0 .. d), S # {}
  PROVE  Max(S) \in S
<1> DEFINE HasMax(m) == \A U \in SUBSET (0 .. m) : U # {} => \E x \in U : \A z \in U : x >= z
           T == {m \in Nat : HasMax(m)}
<1>1. HasMax(0)
  <2> SUFFICES ASSUME NEW U \in SUBSET (0 .. 0), U # {} PROVE \E x \in U : \A z \in U : x >= z
    OBVIOUS
  <2>1. \A z \in U : z = 0  OBVIOUS
  <2>2. 0 \in U  BY <2>1
  <2>3. QED  BY <2>1, <2>2
<1>2. ASSUME NEW m \in Nat, m \in T PROVE HasMax(m + 1)
  <2> SUFFICES ASSUME NEW U \in SUBSET (0 .. m + 1), U # {}
               PROVE \E x \in U : \A z \in U : x >= z
    OBVIOUS
  <2>1. CASE m + 1 \in U
    <3>1. \A z \in U : m + 1 >= z  OBVIOUS
    <3>2. QED  BY <2>1, <3>1
  <2>2. CASE m + 1 \notin U
    <3>1. U \in SUBSET (0 .. m)  BY <2>2
    <3>2. QED  BY <1>2, <3>1
  <2>3. QED  BY <2>1, <2>2
<1>3. d \in T
  <2>1. 0 \in T /\ \A m \in Nat : m \in T => m + 1 \in T  BY <1>1, <1>2
  <2> HIDE DEF T
  <2>2. Inductive(T)  BY <2>1 DEF Inductive
  <2>3. QED  BY <2>2, SetInduction
<1>4. \E x \in S : \A z \in S : x >= z  BY <1>3
<1>5. QED  BY <1>4 DEF Max

\* A chunk that ended inside the prompt sampled nothing.
Chunked(i) ==
  LET x == exec.batch[i]
      s == slot[x.slot]
  IN  /\ Sampled(exec, i, s) = <<>> /\ Rejected(exec, i, s) = 0
      /\ s.gpu + x.num < NumTokens(x.req) /\ s.gpu + x.num < s.prefill
      /\ Cached(x.req, s.gpu + x.num)

\* Otherwise a drafts were accepted, and the target's tokens sampled.
Verified(i, a) ==
  LET x == exec.batch[i]
      s == slot[x.slot]
      n == NumTokens(x.req)
  IN  /\ a \in 0 .. x.drafts
      /\ Sampled(exec, i, s) = Rest(x.req, n, a + 1)
      /\ Rejected(exec, i, s) = x.drafts - a
      /\ s.gpu + x.num = n + x.drafts /\ n >= s.prefill
      /\ Cached(x.req, n + a)

\* The rows of an item that are verified: the token itself, then its drafts.
LEMMA LogitsAt ==
  ASSUME NEW batch, NEW i, batch[i].num \in Nat, batch[i].drafts \in Nat,
         QueryStart(batch, i) \in Nat, batch[i].num >= batch[i].drafts + 1,
         NEW k, k = batch[i].num - (batch[i].drafts + 1)
  PROVE  /\ Len(LogitsRows(batch, i)) = batch[i].drafts + 1
         /\ \A t \in 1 .. batch[i].drafts + 1 :
              LogitsRows(batch, i)[t] = Row(batch, i, k + t - 1)
<1>1. PICK d \in Nat : d = batch[i].drafts  OBVIOUS
<1>2. PICK m \in Nat : m = batch[i].num  OBVIOUS
<1>3. PICK q \in Nat : q = QueryStart(batch, i)  OBVIOUS
<1>4. LogitsRows(batch, i) = [t \in 1 .. d + 1 |-> q + m - (d + 1) + t]
  BY <1>1, <1>2, <1>3 DEF LogitsRows
<1>5. \A t \in 1 .. d + 1 : Row(batch, i, k + t - 1) = q + m - (d + 1) + t
  <2>1. k = m - (d + 1)  BY <1>1, <1>2
  <2>4. k \in Int /\ m = k + (d + 1)  BY <2>1
  <2>2. \A t \in 1 .. d + 1 : q + (k + t - 1) + 1 = q + m - (d + 1) + t  BY <2>4
  <2>3. QED  BY <1>3, <2>2 DEF Row
<1>6. QED  BY <1>1, <1>4, <1>5

LEMMA SampleIs ==
  ASSUME IInv, exec # NoState, NEW i \in DOMAIN exec.batch
  PROVE  Chunked(i) \/ \E a : Verified(i, a)
<1>0. ItemTrue(exec, i) /\ Sorted(exec.batch)  BY DEF IInv, PhaseInv
<1>1. PICK x : x = exec.batch[i]  OBVIOUS
<1>2. PICK s : s = slot[x.slot]  OBVIOUS
<1>3. PICK r \in Req : r = x.req  BY <1>0, <1>1 DEF ItemTrue
<1>4. PICK c : c = s.gpu  OBVIOUS
<1>5. PICK n : n = NumTokens(r)  OBVIOUS
<1>6. /\ x.num \in Nat /\ x.drafts \in Nat /\ x.num >= x.drafts + 1
      /\ Stands(s, r, n, c) /\ Cached(r, c)
      /\ x.drafts > 0 => c >= s.prefill /\ x.num = x.drafts + 1
      /\ x.drafts = 0 => c + x.num <= n
      /\ RowsTrue(exec, i, r, c, n)
  BY <1>0, <1>1, <1>2, <1>3, <1>4, <1>5 DEF ItemTrue
<1>7. /\ n \in Nat /\ c \in Nat /\ c < n /\ s.prefill \in Nat
      /\ n = IF c < s.prefill THEN s.prefill ELSE c + 1
  BY <1>6 DEF Stands
<1>8. PICK at : at = [k \in 0 .. x.num - 1 |-> Row(exec.batch, i, k)]  OBVIOUS
<1>9. ASSUME NEW k \in 0 .. x.num - 1
      PROVE  /\ kv[r][c + k] = exec.inputs[at[k]]
             /\ c + k < n => exec.inputs[at[k]] = Target(r, c + k)
             /\ (\A l \in 0 .. k : exec.inputs[at[l]] = Target(r, c + l)) =>
                  exec.predicted[at[k]] = Target(r, c + k + 1)
  <2>1. \A l \in 0 .. x.num - 1 : at[l] = Row(exec.batch, i, l)  BY <1>8
  <2>2. \A l \in 0 .. k : l \in 0 .. x.num - 1  BY <1>6
  <2>3. /\ kv[r][c + k] = exec.inputs[Row(exec.batch, i, k)]
        /\ c + k < n => exec.inputs[Row(exec.batch, i, k)] = Target(r, c + k)
        /\ (\A l \in 0 .. k : exec.inputs[Row(exec.batch, i, l)] = Target(r, c + l)) =>
                  exec.predicted[Row(exec.batch, i, k)] = Target(r, c + k + 1)
    BY <1>1, <1>6 DEF RowsTrue
  <2>4. (\A l \in 0 .. k : exec.inputs[at[l]] = Target(r, c + l)) =>
          \A l \in 0 .. k : exec.inputs[Row(exec.batch, i, l)] = Target(r, c + l)
    BY <2>1, <2>2
  <2>5. at[k] = Row(exec.batch, i, k)  BY <2>1
  <2>6. QED  BY <2>3, <2>4, <2>5
<1>10. CASE c + x.num < s.prefill
  <2>1. Sampled(exec, i, s) = <<>> /\ Rejected(exec, i, s) = 0
    BY <1>1, <1>4, <1>10 DEF Sampled, Rejected, InsidePrompt
  <2>2. c + x.num < n  BY <1>6, <1>7, <1>10
  <2>a. PICK v \in Nat : v = c + x.num  BY <1>6, <1>7
  <2>3. Cached(r, v)
    <3> SUFFICES ASSUME NEW p \in 0 .. v - 1 PROVE kv[r][p] = Target(r, p)
      BY DEF Cached
    <3>1. CASE p < c  BY <1>6, <1>7, <3>1 DEF Cached
    <3>2. CASE ~ (p < c)
      <4>1. PICK k : k = p - c  OBVIOUS
      <4>2. k \in 0 .. x.num - 1 /\ c + k = p /\ c + k < n  BY <1>6, <1>7, <2>2, <2>a, <3>2, <4>1
      <4>3. QED  BY <1>9, <4>2
    <3>3. QED  BY <3>1, <3>2
  <2>4. Chunked(i)  BY <1>1, <1>2, <1>3, <1>4, <1>5, <1>10, <2>1, <2>2, <2>a, <2>3 DEF Chunked
  <2>5. QED  BY <2>4
<1>11. CASE ~ (c + x.num < s.prefill)
  <2>1. PICK d \in Nat : d = x.drafts  BY <1>6
  <2>2. PICK k : k = x.num - (d + 1)  OBVIOUS
  <2>3. k \in Nat /\ c + k = n - 1 /\ k + d = x.num - 1 /\ n >= s.prefill
        /\ c + x.num = n + d
    <3>a. PICK m \in Nat : m = x.num  BY <1>6
    <3>b. PICK f \in Nat : f = s.prefill  BY <1>7
    <3>c. /\ m >= d + 1 /\ (d > 0 => c >= f /\ m = d + 1) /\ (d = 0 => c + m <= n)
          /\ n = (IF c < f THEN f ELSE c + 1) /\ ~ (c + m < f) /\ k = m - (d + 1)
      BY <1>6, <1>7, <1>11, <2>1, <2>2, <3>a, <3>b
    <3>d. n \in Nat /\ c \in Nat /\ c < n  BY <1>7
    <3>1. CASE d = 0 /\ c < f  BY <3>a, <3>b, <3>c, <3>d, <3>1
    <3>4. CASE d = 0 /\ ~ (c < f)  BY <3>a, <3>b, <3>c, <3>d, <3>4
    <3>2. CASE d > 0  BY <3>a, <3>b, <3>c, <3>d, <3>2
    <3>3. QED  BY <2>1, <3>a, <3>b, <3>1, <3>2, <3>4
  <2>4. PICK rows : rows = LogitsRows(exec.batch, i)  OBVIOUS
  <2>5. Len(rows) = d + 1 /\ \A t \in 1 .. d + 1 : rows[t] = at[k + t - 1]
    <3>1. Queries(exec.batch, Len(exec.batch)) /\ i \in 1 .. Len(exec.batch)
      BY <1>0 DEF Sorted, Queries
    <3>2. i \in 1 .. Len(exec.batch) + 1  BY <3>1 DEF Queries
    <3>3. QueryStart(exec.batch, i) \in Nat  BY <3>1, <3>2, QueryStarts
    <3>4. \A t \in 1 .. d + 1 : k + t - 1 \in 0 .. x.num - 1  BY <1>6, <2>1, <2>3
    <3>5. Len(rows) = d + 1 /\ \A t \in 1 .. d + 1 : rows[t] = Row(exec.batch, i, k + t - 1)
      BY <1>1, <1>6, <2>1, <2>2, <2>4, <3>3, LogitsAt
    <3>6. QED  BY <1>8, <3>4, <3>5
  <2>6. PICK A : A = {a \in 0 .. d : \A t \in 1 .. a :
                        exec.inputs[rows[t + 1]] = exec.predicted[rows[t]]}
    OBVIOUS
  <2>7. PICK a : a = Accepted(exec, i)  OBVIOUS
  <2>8. a = Max(A)
    <3>1. a = Max({b \in 0 .. (Len(rows) - 1) : \A t \in 1 .. b :
                     exec.inputs[rows[t + 1]] = exec.predicted[rows[t]]})
      BY <2>4, <2>7 DEF Accepted
    <3>2. Len(rows) - 1 = d  BY <2>5
    <3>3. QED  BY <2>6, <3>1, <3>2
  <2>9. a \in A
    <3>1. 0 \in A  BY <2>6
    <3>2. A \in SUBSET (0 .. d) /\ A # {}  BY <2>6, <3>1
    <3>3. QED  BY <2>8, <3>2, MaxIn
  <2>10. a \in 0 .. d /\ \A t \in 1 .. a : exec.inputs[rows[t + 1]] = exec.predicted[rows[t]]
    BY <2>6, <2>9
  <2> DEFINE T == {l \in Nat : l <= a => \A j \in 0 .. k + l : exec.inputs[at[j]] = Target(r, c + j)}
  <2>11. 0 \in T
    <3> SUFFICES ASSUME NEW j \in 0 .. k + 0 PROVE exec.inputs[at[j]] = Target(r, c + j)
      OBVIOUS
    <3>1. j \in 0 .. x.num - 1 /\ c + j < n  BY <1>7, <2>1, <2>3
    <3>2. QED  BY <1>9, <3>1
  <2>12. ASSUME NEW l \in Nat, l \in T PROVE l + 1 \in T
    <3> SUFFICES ASSUME l + 1 <= a, NEW j \in 0 .. k + (l + 1)
                 PROVE  exec.inputs[at[j]] = Target(r, c + j)
      OBVIOUS
    <3>1. \A m \in 0 .. k + l : exec.inputs[at[m]] = Target(r, c + m)  BY <2>10, <2>12
    <3>2. CASE j \in 0 .. k + l  BY <3>1, <3>2
    <3>3. CASE j = k + l + 1
      <4>1. l + 1 \in 1 .. a /\ l + 1 \in 1 .. d + 1 /\ (l + 1) + 1 \in 1 .. d + 1  BY <2>10
      <4>2. exec.inputs[rows[(l + 1) + 1]] = exec.predicted[rows[l + 1]]  BY <2>10, <4>1
      <4>3. k + (l + 1) - 1 = k + l /\ k + ((l + 1) + 1) - 1 = j  BY <2>3, <3>3
      <4>4. rows[l + 1] = at[k + l] /\ rows[(l + 1) + 1] = at[j]  BY <2>5, <4>1, <4>3
      <4>5. PICK m : m = k + l  OBVIOUS
      <4>6. m \in 0 .. x.num - 1 /\ c + m + 1 = c + j
        BY <1>7, <2>3, <2>10, <3>3, <4>5
      <4>7. exec.predicted[at[m]] = Target(r, c + m + 1)  BY <1>9, <3>1, <4>5, <4>6
      <4>8. QED  BY <4>2, <4>4, <4>5, <4>6, <4>7
    <3>4. QED  BY <2>3, <3>2, <3>3
  <2>13. a \in T
    <3>1. a \in Nat  BY <2>10
    <3> HIDE DEF T
    <3>2. Inductive(T)  BY <2>11, <2>12 DEF Inductive
    <3>3. QED  BY <3>1, <3>2, SetInduction
  <2>14. \A j \in 0 .. k + a : exec.inputs[at[j]] = Target(r, c + j)  BY <2>10, <2>13
  <2> HIDE DEF T
  <2>15. ASSUME NEW t \in 1 .. a + 1
         PROVE  exec.predicted[rows[t]] = Target(r, n - 1 + t)
    <3>1. PICK m : m = k + t - 1  OBVIOUS
    <3>2. m \in 0 .. x.num - 1 /\ m \in 0 .. k + a /\ t \in 1 .. d + 1
          /\ c + m + 1 = n - 1 + t
      BY <1>7, <2>3, <2>10, <3>1
    <3>3. rows[t] = at[m]  BY <2>5, <3>1, <3>2
    <3>4. \A l \in 0 .. m : exec.inputs[at[l]] = Target(r, c + l)
      BY <2>3, <2>10, <2>14, <3>2
    <3>5. exec.predicted[at[m]] = Target(r, c + m + 1)
      <4>1. (\A l \in 0 .. m : exec.inputs[at[l]] = Target(r, c + l)) =>
              exec.predicted[at[m]] = Target(r, c + m + 1)
        BY <1>9, <3>2
      <4>2. QED  BY <3>4, <4>1
    <3>6. QED  BY <3>2, <3>3, <3>5
  <2>16. ~ InsidePrompt(s, exec.batch[i])  BY <1>1, <1>4, <1>11 DEF InsidePrompt
  <2>17. Sampled(exec, i, s) = Rest(r, n, a + 1)
    <3>1. Sampled(exec, i, s) = [t \in 1 .. a + 1 |-> exec.predicted[rows[t]]]
      BY <2>4, <2>7, <2>16 DEF Sampled
    <3>2. QED  BY <2>15, <3>1 DEF Rest
  <2>18. Rejected(exec, i, s) = d - a  BY <1>1, <2>1, <2>7, <2>16 DEF Rejected
  <2>b. PICK v \in Nat : v = n + a  BY <1>7, <2>10
  <2>19. Cached(r, v)
    <3> SUFFICES ASSUME NEW p \in 0 .. v - 1 PROVE kv[r][p] = Target(r, p)
      BY DEF Cached
    <3>1. CASE p < c  BY <1>6, <1>7, <3>1 DEF Cached
    <3>2. CASE ~ (p < c)
      <4>1. PICK j : j = p - c  OBVIOUS
      <4>2. j \in 0 .. x.num - 1 /\ c + j = p /\ j \in 0 .. k + a
        BY <1>7, <2>3, <2>10, <2>b, <3>2, <4>1
      <4>3. QED  BY <1>9, <2>14, <4>2
    <3>3. QED  BY <3>1, <3>2
  <2>20. Verified(i, a)
    BY <1>1, <1>2, <1>3, <1>4, <1>5, <2>1, <2>3, <2>10, <2>17, <2>18, <2>b, <2>19 DEF Verified
  <2>21. QED  BY <2>20
<1>12. QED  BY <1>10, <1>11

-----------------------------------------------------------------------------
(* What sample_tokens leaves.                                                *)

\* The items of the batch that has run, their requests and slots.
LEMMA ItemFacts ==
  ASSUME IInv, exec # NoState, NEW i \in DOMAIN exec.batch
  PROVE  /\ ItemTrue(exec, i)
         /\ exec.batch[i].req \in Req /\ sched.status[exec.batch[i].req] = "running"
         /\ exec.batch[i].slot = table.index[exec.batch[i].req]
         /\ exec.batch[i].slot \in Slot /\ IsSlotRec(slot[exec.batch[i].slot])
         /\ \A j \in DOMAIN exec.batch :
              exec.batch[j].req = exec.batch[i].req \/ exec.batch[j].slot = exec.batch[i].slot
                => j = i
         /\ \A r \in Running : table.index[r] = exec.batch[i].slot => r = exec.batch[i].req
<1>1. \A j \in DOMAIN exec.batch : ItemTrue(exec, j)  BY DEF IInv, PhaseInv
<1>2. \A j \in DOMAIN exec.batch :
        /\ exec.batch[j].req \in Req /\ sched.status[exec.batch[j].req] = "running"
        /\ exec.batch[j].slot = table.index[exec.batch[j].req]
  BY <1>1 DEF ItemTrue
<1>3. TableOK(table) /\ \A r \in Running : r \in Req /\ table.index[r] # NoSlot
  BY DEF IInv, SlotsInv, Holding, Owned
<1>4. \A j \in DOMAIN exec.batch : exec.batch[j].req \in Running  BY <1>2 DEF Running
<1>5. \A r \in Running : table.index[r] \in Slot /\ {q \in Req : table.index[q] = table.index[r]} = {r}
  BY <1>3, OwnerIs
<1>6. \A q, r \in Running : table.index[q] = table.index[r] => q = r
  BY <1>3, <1>5
<1>7. \A j, k \in DOMAIN exec.batch : j # k => exec.batch[j].req # exec.batch[k].req
  BY DEF IInv, PhaseInv, Sorted
<1>8. exec.batch[i].slot \in Slot  BY <1>2, <1>4, <1>5
<1>9. IsSlotRec(slot[exec.batch[i].slot])  BY <1>8 DEF IInv, SlotsInv
<1>10. \A j \in DOMAIN exec.batch :
         exec.batch[j].req = exec.batch[i].req \/ exec.batch[j].slot = exec.batch[i].slot => j = i
  BY <1>2, <1>4, <1>6, <1>7
<1>11. \A r \in Running : table.index[r] = exec.batch[i].slot => r = exec.batch[i].req
  BY <1>2, <1>4, <1>6
<1>12. QED  BY <1>1, <1>2, <1>8, <1>9, <1>10, <1>11

\* postprocess_sampled and the drafts, field by field.
Posted(u, s, item, new, rej, P) ==
  /\ IsSlotRec(u)
  /\ u.prefill = s.prefill /\ u.gpu = s.gpu + item.num - rej /\ u.all = s.all \o new
  /\ u.last = (IF new = <<>> THEN s.last ELSE Last(new)) /\ u.drafts = P

LEMMA PostIs ==
  ASSUME NEW s, IsSlotRec(s), NEW item, NEW new, NEW rej, NEW P,
         NEW u, u = [PostUpdate(s, item, new, rej) EXCEPT !.drafts = P]
  PROVE  Posted(u, s, item, new, rej, P)
<1>1. PICK v : v = PostUpdate(s, item, new, rej)  OBVIOUS
<1>2. v = [prefill |-> v.prefill, all |-> v.all, cpu |-> v.cpu, gpu |-> v.gpu,
           last |-> v.last, drafts |-> v.drafts]
  BY <1>1 DEF IsSlotRec, PostUpdate
<1>3. /\ v.prefill = s.prefill /\ v.gpu = s.gpu + item.num - rej /\ v.all = s.all \o new
      /\ v.last = (IF new = <<>> THEN s.last ELSE Last(new))
  BY <1>1 DEF IsSlotRec, PostUpdate
<1>4. u = [v EXCEPT !.drafts = P]  BY <1>1
<1>5. u = [prefill |-> v.prefill, all |-> v.all, cpu |-> v.cpu, gpu |-> v.gpu,
           last |-> v.last, drafts |-> P]
  BY <1>2, <1>4
<1>6. IsSlotRec(u)  BY <1>5 DEF IsSlotRec
<1>7. /\ u.prefill = v.prefill /\ u.gpu = v.gpu /\ u.all = v.all /\ u.last = v.last
      /\ u.drafts = P
  BY <1>5
<1>8. QED  BY <1>3, <1>6, <1>7 DEF Posted

\* The slot of item i is updated for what was sampled, and takes its drafts.
Sampling(i) ==
  LET x == exec.batch[i]
      s == slot[x.slot]
  IN  \E P : /\ \A j \in 1 .. NumDrafts : P[j][1] = x.req
             /\ slot'[x.slot] = [PostUpdate(s, x, Sampled(exec, i, s), Rejected(exec, i, s))
                                   EXCEPT !.drafts = P]

LEMMA SampleSlots ==
  ASSUME IInv, exec # NoState, SampleTokens
  PROVE  /\ slot' = [x \in Slot |-> slot'[x]]
         /\ \A i \in DOMAIN exec.batch : Sampling(i)
         /\ \A y \in Slot : (\A i \in DOMAIN exec.batch : exec.batch[i].slot # y) =>
              slot'[y] = slot[y]
<1> DEFINE mine(x) == {i \in DOMAIN exec.batch : exec.batch[i].slot = x}
           post == [x \in Slot |->
              IF mine(x) = {} THEN slot[x]
              ELSE LET i == CHOOSE i \in mine(x) : TRUE IN
                   PostUpdate(slot[x], exec.batch[i], Sampled(exec, i, slot[x]),
                              Rejected(exec, i, slot[x]))]
<1> DEFINE Stored(right) == [x \in Slot |->
                 IF mine(x) = {} THEN post[x]
                 ELSE LET i == CHOOSE i \in mine(x) : TRUE IN
                      [post[x] EXCEPT !.drafts =
                         Proposal(exec.batch[i].req, post[exec.batch[i].slot].gpu, right[i])]]
           reads == {i \in DOMAIN exec.batch :
                       exec.batch[i].req \notin sched'.chunked \cup sched'.finished}
<1>0. \E right \in {f \in [DOMAIN exec.batch -> 0..NumDrafts] :
                           \A i \in DOMAIN exec.batch \ reads : f[i] = 0} :
        slot' = Stored(right)
  <2> DEFINE Step(right) == slot' = Stored(right) /\ offered' = {exec.batch[i].req : i \in DOMAIN exec.batch}
  <2>1. \E right \in {f \in [DOMAIN exec.batch -> 0..NumDrafts] :
                           \A i \in DOMAIN exec.batch \ reads : f[i] = 0} : Step(right)
    BY Zenon DEF SampleTokens, DraftSlot
  <2> HIDE DEF Stored
  <2>2. QED  BY <2>1
<1> HIDE DEF post
<1>1. PICK right : slot' = Stored(right)
  <2> HIDE DEF Stored
  <2>1. QED  BY <1>0
<1>2. ASSUME NEW i \in DOMAIN exec.batch PROVE Sampling(i)
  <2>1. PICK x : x = exec.batch[i]  OBVIOUS
  <2>2. PICK y \in Slot : y = x.slot  BY <2>1, ItemFacts
  <2>3. mine(y) = {i}  BY <2>1, <2>2, ItemFacts
  <2>4. (CHOOSE j \in mine(y) : TRUE) = i /\ mine(y) # {}  BY <2>3
  <2> HIDE DEF mine
  <2>5. post[y] = PostUpdate(slot[y], x, Sampled(exec, i, slot[y]), Rejected(exec, i, slot[y]))
    BY <2>1, <2>4 DEF post
  <2>6. PICK P : P = Proposal(x.req, post[x.slot].gpu, right[i])  OBVIOUS
  <2>7. slot'[y] = [post[y] EXCEPT !.drafts = P]  BY <1>1, <2>1, <2>4, <2>6
  <2>8. \A j \in 1 .. NumDrafts : P[j][1] = x.req
    BY <2>6 DEF Proposal, Target, Wrong
  <2>9. QED  BY <2>1, <2>2, <2>5, <2>7, <2>8 DEF Sampling
<1>3. ASSUME NEW y \in Slot, \A i \in DOMAIN exec.batch : exec.batch[i].slot # y
      PROVE  slot'[y] = slot[y]
  <2>1. mine(y) = {}  BY <1>3
  <2> HIDE DEF mine
  <2>2. post[y] = slot[y]  BY <2>1 DEF post
  <2>3. QED  BY <1>1, <2>1, <2>2
<1>4. slot' = [x \in Slot |-> slot'[x]]
  <2> HIDE DEF mine
  <2>1. QED  BY <1>1
<1>5. QED  BY <1>2, <1>3, <1>4

\* The scheduler's record of item i's request once its tokens are accounted.
Accounting(i) ==
  LET x == exec.batch[i]
      r == x.req
      s == slot[x.slot]
      all == sched.toks[r] \o Sampled(exec, i, s)
      over == Len(sched'.toks[r]) = MaxLen
  IN  /\ sched'.toks[r] = SubSeq(all, 1, Min({Len(all), MaxLen}))
      /\ sched'.status[r] = IF over THEN "done" ELSE sched.status[r]
      /\ sched'.computed[r] = IF over THEN 0
                              ELSE sched.computed[r] - Rejected(exec, i, s)
      /\ r \in sched'.finished <=> over

InBatch == {exec.batch[i].req : i \in DOMAIN exec.batch}

Accounts ==
  /\ sched' = [status |-> sched'.status, toks |-> sched'.toks,
               computed |-> sched'.computed, drafts |-> sched'.drafts,
               chunked |-> sched'.chunked, finished |-> sched'.finished]
  /\ sched'.toks = [r \in Req |-> sched'.toks[r]]
  /\ sched'.status = [r \in Req |-> sched'.status[r]]
  /\ sched'.computed = [r \in Req |-> sched'.computed[r]]
  /\ sched'.drafts = sched.drafts /\ sched'.chunked = sched.chunked
  /\ sched'.finished \subseteq InBatch
  /\ \A r \in Req \ InBatch : /\ sched'.toks[r] = sched.toks[r]
                              /\ sched'.status[r] = sched.status[r]
                              /\ sched'.computed[r] = sched.computed[r]

LEMMA AccountsIs ==
  ASSUME IInv, exec # NoState, SampleTokens
  PROVE  Accounts /\ \A i \in DOMAIN exec.batch : Accounting(i)
<1> DEFINE at(r) == ItemOf(exec.batch, r)
           ss(r) == slot[exec.batch[at(r)].slot]
           all(r) == sched.toks[r] \o Sampled(exec, at(r), ss(r))
           toks == [r \in Req |-> IF r \in InBatch
                                  THEN SubSeq(all(r), 1, Min({Len(all(r)), MaxLen}))
                                  ELSE sched.toks[r]]
           over == {r \in InBatch : Len(toks[r]) = MaxLen}
<1>1. sched' = [sched EXCEPT
          !.toks = toks,
          !.computed = [r \in Req |-> IF r \in over THEN 0
                          ELSE IF r \in InBatch
                               THEN sched.computed[r] - Rejected(exec, at(r), ss(r))
                               ELSE sched.computed[r]],
          !.status = [r \in Req |-> IF r \in over THEN "done" ELSE sched.status[r]],
          !.finished = sched.finished \cup over]
  BY DEF SampleTokens, Accounted, InBatch
<1>2. sched = [status |-> sched.status, toks |-> sched.toks, computed |-> sched.computed,
               drafts |-> sched.drafts, chunked |-> sched.chunked,
               finished |-> sched.finished]
      /\ sched.finished = {}
  BY DEF IInv, SchedInv, PhaseInv
<1>3. over \subseteq InBatch  OBVIOUS
<1> HIDE DEF over, toks, at, ss, all
<1>4. /\ sched' = [status |-> sched'.status, toks |-> sched'.toks,
                   computed |-> sched'.computed, drafts |-> sched'.drafts,
                   chunked |-> sched'.chunked, finished |-> sched'.finished]
      /\ sched'.toks = toks /\ sched'.drafts = sched.drafts /\ sched'.chunked = sched.chunked
      /\ sched'.computed = [r \in Req |-> IF r \in over THEN 0
                          ELSE IF r \in InBatch
                               THEN sched.computed[r] - Rejected(exec, at(r), ss(r))
                               ELSE sched.computed[r]]
      /\ sched'.status = [r \in Req |-> IF r \in over THEN "done" ELSE sched.status[r]]
      /\ sched'.finished = over
  BY <1>1, <1>2
<1>5. toks = [r \in Req |-> toks[r]] /\ \A r \in Req \ InBatch : toks[r] = sched.toks[r]
  BY DEF toks
<1>6. Accounts  BY <1>3, <1>4, <1>5 DEF Accounts
<1>7. ASSUME NEW i \in DOMAIN exec.batch PROVE Accounting(i)
  <2>1. PICK x : x = exec.batch[i]  OBVIOUS
  <2>2. PICK r \in Req : r = x.req  BY <2>1, ItemFacts
  <2>3. PICK s : s = slot[x.slot]  OBVIOUS
  <2>4. r \in InBatch  BY <2>1, <2>2 DEF InBatch
  <2>5. at(r) = i  BY <2>1, <2>2, ItemFacts DEF at, ItemOf
  <2>6. ss(r) = s  BY <2>1, <2>3, <2>5 DEF ss
  <2>7. PICK w : w = sched.toks[r] \o Sampled(exec, i, s)  OBVIOUS
  <2>8. all(r) = w  BY <2>5, <2>6, <2>7 DEF all
  <2>9. toks[r] = SubSeq(w, 1, Min({Len(w), MaxLen}))  BY <2>4, <2>8 DEF toks
  <2>10. r \in over <=> Len(toks[r]) = MaxLen  BY <2>4 DEF over
  <2>11. /\ sched'.status[r] = IF r \in over THEN "done" ELSE sched.status[r]
         /\ sched'.computed[r] = IF r \in over THEN 0
                                 ELSE sched.computed[r] - Rejected(exec, i, s)
    BY <1>4, <2>4, <2>5, <2>6
  <2>12. QED
    BY <1>4, <2>1, <2>2, <2>3, <2>7, <2>9, <2>10, <2>11 DEF Accounting
<1>8. QED  BY <1>6, <1>7

LEMMA MinOf ==
  ASSUME NEW a \in Nat, NEW b \in Nat
  PROVE  Min({a, b}) = IF a <= b THEN a ELSE b
<1>1. CASE a <= b
  <2>1. \A x \in {a, b} : (\A y \in {a, b} : x <= y) => x = a  BY <1>1
  <2>2. a \in {a, b} /\ \A y \in {a, b} : a <= y  BY <1>1
  <2>3. QED  BY <1>1, <2>1, <2>2 DEF Min
<1>2. CASE ~ (a <= b)
  <2>1. \A x \in {a, b} : (\A y \in {a, b} : x <= y) => x = b  BY <1>2
  <2>2. b \in {a, b} /\ \A y \in {a, b} : b <= y  BY <1>2
  <2>3. QED  BY <1>2, <2>1, <2>2 DEF Min
<1>3. QED  BY <1>1, <1>2

LEMMA TokensNow ==
  ASSUME IInv, NEW r \in Req
  PROVE  NumTokens(r) \in Nat /\ sched.toks[r] = Prefix(r, NumTokens(r))
<1>1. PICK m \in 1 .. MaxLen : sched.toks[r] = Prefix(r, m)  BY DEF IInv, SchedInv
<1>2. m \in Nat  BY RunnerAssumption
<1>3. Len(Prefix(r, m)) = m  BY <1>2, PrefixIs
<1>4. QED  BY <1>1, <1>2, <1>3 DEF NumTokens

\* A request of the batch once it is accounted: done, or settled with drafts to come.
Taken(r) ==
  /\ \E n \in 1 .. MaxLen : sched'.toks[r] = Prefix(r, n)
  /\ \/ sched'.status[r] = "done" /\ r \in sched'.finished
     \/ /\ sched'.status[r] = "running" /\ r \notin sched'.finished
        /\ Settled(r)'
        /\ r \notin sched'.chunked => Drafted(slot'[table'.index[r]], r, NumDrafts)

LEMMA ChunkSettles ==
  ASSUME IInv, exec # NoState, SampleTokens, NEW i \in DOMAIN exec.batch, Chunked(i),
         NEW r \in Req, r = exec.batch[i].req
  PROVE  Taken(r)
<1>1. PICK x : x = exec.batch[i]  OBVIOUS
<1>2. r = x.req  BY <1>1
<1>3. PICK s : s = slot[x.slot]  OBVIOUS
<1>4. PICK n : n = NumTokens(r)  OBVIOUS
<1>5. n \in Nat /\ sched.toks[r] = Prefix(r, n)  BY <1>4, TokensNow
<1>6. ItemTrue(exec, i)  BY ItemFacts
<1>7. PICK c : c = s.gpu  OBVIOUS
<1>8. /\ sched.status[r] = "running" /\ x.slot = table.index[r] /\ x.num \in Nat
      /\ sched.computed[r] = c + x.num /\ sched.drafts[r] = 0
      /\ Stands(s, r, n, c) /\ (r \in sched.chunked <=> c + x.num < n)
  BY <1>1, <1>2, <1>3, <1>4, <1>6, <1>7 DEF ItemTrue
<1>9. /\ c \in Nat /\ c < n /\ n < MaxLen /\ s.prefill \in Nat /\ s.all = Prefix(r, n)
      /\ n = IF c < s.prefill THEN s.prefill ELSE c + 1
  BY <1>8 DEF Stands
<1>10. PICK v \in Nat : v = c + x.num  BY <1>8, <1>9
<1>11. /\ Sampled(exec, i, s) = <<>> /\ Rejected(exec, i, s) = 0
       /\ v < n /\ v < s.prefill /\ Cached(r, v)
  <2>1. v = s.gpu + x.num  BY <1>7, <1>10
  <2>2. QED  BY <1>1, <1>2, <1>3, <1>4, <2>1 DEF Chunked
<1>12. Prefix(r, n) \o <<>> = Prefix(r, n)  BY <1>5, PrefixIs, ConcatEmptySeq
<1>13. table' = table /\ kv' = kv  BY DEF SampleTokens
<1>14. Accounts /\ Accounting(i)  BY AccountsIs
<1>15. sched'.toks[r] = Prefix(r, n)
  <2>1. sched'.toks[r] = SubSeq(Prefix(r, n), 1, Min({Len(Prefix(r, n)), MaxLen}))
    BY <1>1, <1>2, <1>3, <1>5, <1>11, <1>12, <1>14 DEF Accounting
  <2>2. Len(Prefix(r, n)) = n  BY <1>5, PrefixIs
  <2>3. Min({n, MaxLen}) = n  BY <1>5, <1>9, RunnerAssumption, MinOf
  <2>4. SubSeq(Prefix(r, n), 1, n) = Prefix(r, n)  BY <1>5, PrefixCut
  <2>5. QED  BY <2>1, <2>2, <2>3, <2>4
<1>16. Len(sched'.toks[r]) = n /\ n # MaxLen
  <2>1. Len(sched'.toks[r]) = n  BY <1>5, <1>15, PrefixIs
  <2>2. n # MaxLen  BY <1>5, <1>9, RunnerAssumption
  <2>3. QED  BY <2>1, <2>2
<1>17. sched'.status[r] = "running" /\ sched'.computed[r] = v - 0 /\ r \notin sched'.finished
  BY <1>1, <1>2, <1>3, <1>8, <1>10, <1>11, <1>14, <1>16 DEF Accounting
<1>18. sched'.computed[r] = v  BY <1>10, <1>17
<1>19. sched'.drafts[r] = 0 /\ r \in sched'.chunked
  BY <1>8, <1>10, <1>11, <1>14 DEF Accounts
<1>20. PICK u : u = slot'[x.slot]  OBVIOUS
<1>21. PICK P : u = [PostUpdate(s, x, Sampled(exec, i, s), Rejected(exec, i, s)) EXCEPT !.drafts = P]
  BY <1>1, <1>3, <1>20, SampleSlots DEF Sampling
<1>22. IsSlotRec(s)  BY <1>1, <1>3, ItemFacts
<1>23. u.prefill = s.prefill /\ u.gpu = s.gpu + x.num - 0 /\ u.all = s.all \o <<>>
  <2>1. Posted(u, s, x, <<>>, 0, P)  BY <1>11, <1>21, <1>22, PostIs
  <2>2. QED  BY <2>1 DEF Posted
<1>24. u.gpu = v /\ u.all = Prefix(r, n)
  <2>1. u.all = Prefix(r, n)  BY <1>9, <1>12, <1>23
  <2>a. PICK m \in Nat : m = x.num  BY <1>8
  <2>b. u.gpu = c + m - 0 /\ v = c + m  BY <1>7, <1>10, <1>23, <2>a
  <2>2. u.gpu = v  BY <1>9, <2>a, <2>b
  <2>3. QED  BY <2>1, <2>2
<1>25. Stands(u, r, n, v)
  <2>a. PICK m \in Nat : m = x.num  BY <1>8
  <2>1. v = c + m  BY <1>10, <2>a
  <2>2. c < s.prefill  BY <1>9, <1>10, <1>11, <2>1
  <2>3. n = s.prefill  BY <1>9, <2>2
  <2>4. QED  BY <1>5, <1>9, <1>10, <1>11, <1>23, <1>24, <2>3 DEF Stands
<1>26. Drafted(u, r, 0)  BY RunnerAssumption DEF Drafted
<1>27. u = slot'[table'.index[r]]  BY <1>8, <1>13, <1>20
<1>28. NumTokens(r)' = n  BY <1>16 DEF NumTokens
<1>29. Cached(r, v)'  BY <1>11, <1>13 DEF Cached
<1>30. Settled(r)'
  BY <1>9, <1>11, <1>17, <1>18, <1>19, <1>25, <1>26, <1>27, <1>28, <1>29 DEF Settled
<1>31. n \in 1 .. MaxLen  BY <1>5, <1>9, RunnerAssumption
<1>32. QED  BY <1>1, <1>2, <1>15, <1>17, <1>19, <1>30, <1>31 DEF Taken

LEMMA VerifiedSettles ==
  ASSUME IInv, exec # NoState, SampleTokens, NEW i \in DOMAIN exec.batch, NEW a, Verified(i, a),
         NEW r \in Req, r = exec.batch[i].req
  PROVE  Taken(r)
<1>1. PICK x : x = exec.batch[i]  OBVIOUS
<1>2. r = x.req  BY <1>1
<1>3. PICK s : s = slot[x.slot]  OBVIOUS
<1>4. PICK n : n = NumTokens(r)  OBVIOUS
<1>5. n \in Nat /\ sched.toks[r] = Prefix(r, n)  BY <1>4, TokensNow
<1>6. ItemTrue(exec, i)  BY ItemFacts
<1>7. PICK c : c = s.gpu  OBVIOUS
<1>8. /\ sched.status[r] = "running" /\ x.slot = table.index[r] /\ x.num \in Nat
      /\ x.drafts \in Nat
      /\ sched.computed[r] = c + x.num /\ sched.drafts[r] = 0
      /\ Stands(s, r, n, c) /\ (r \in sched.chunked <=> c + x.num < n)
  BY <1>1, <1>2, <1>3, <1>4, <1>6, <1>7 DEF ItemTrue
<1>9. /\ c \in Nat /\ c < n /\ n < MaxLen /\ s.prefill \in Nat /\ s.all = Prefix(r, n)
  BY <1>8 DEF Stands
<1>10. PICK d \in Nat : d = x.drafts  BY <1>8
<1>11. /\ a \in 0 .. d /\ Sampled(exec, i, s) = Rest(r, n, a + 1)
       /\ Rejected(exec, i, s) = d - a /\ c + x.num = n + d /\ n >= s.prefill
       /\ Cached(r, n + a)
  BY <1>1, <1>2, <1>3, <1>4, <1>7, <1>10 DEF Verified
<1>12. PICK m \in Nat : m = n + (a + 1)  BY <1>5, <1>11
<1>13. Prefix(r, n) \o Rest(r, n, a + 1) = Prefix(r, m)
  <2>1. a + 1 \in Nat  BY <1>11
  <2>2. QED  BY <1>5, <1>12, <2>1, PrefixGrows
<1>14. table' = table /\ kv' = kv  BY DEF SampleTokens
<1>15. Accounts /\ Accounting(i)  BY AccountsIs
<1>16. PICK k : k = IF m <= MaxLen THEN m ELSE MaxLen  OBVIOUS
<1>17. k \in 1 .. MaxLen /\ k \in Nat /\ k <= m /\ MaxLen \in Nat
  <2>1. a \in Nat /\ m >= 1  BY <1>5, <1>10, <1>11, <1>12
  <2>2. MaxLen \in Nat /\ MaxLen >= 1  BY <1>9, RunnerAssumption
  <2>3. QED  BY <1>12, <1>16, <2>1, <2>2
<1>18. sched'.toks[r] = Prefix(r, k)
  <2>1. PICK all : all = sched.toks[r] \o Sampled(exec, i, s)  OBVIOUS
  <2>2. all = Prefix(r, m)  BY <1>5, <1>11, <1>13, <2>1
  <2>3. sched'.toks[r] = SubSeq(all, 1, Min({Len(all), MaxLen}))
    BY <1>1, <1>2, <1>3, <1>15, <2>1 DEF Accounting
  <2>4. Len(all) = m  BY <1>12, <2>2, PrefixIs
  <2>5. Min({m, MaxLen}) = k  BY <1>12, <1>16, <1>17, MinOf
  <2>6. SubSeq(Prefix(r, m), 1, k) = Prefix(r, k)  BY <1>12, <1>17, PrefixCut
  <2>7. QED  BY <2>2, <2>3, <2>4, <2>5, <2>6
<1>19. Len(sched'.toks[r]) = k  BY <1>17, <1>18, PrefixIs
<1>20. /\ sched'.status[r] = IF k = MaxLen THEN "done" ELSE sched.status[r]
       /\ sched'.computed[r] = IF k = MaxLen THEN 0 ELSE sched.computed[r] - Rejected(exec, i, s)
       /\ r \in sched'.finished <=> k = MaxLen
  BY <1>1, <1>2, <1>3, <1>15, <1>19 DEF Accounting
<1>21. CASE k = MaxLen
  BY <1>1, <1>2, <1>17, <1>18, <1>20, <1>21 DEF Taken
<1>22. CASE k # MaxLen
  <2>1. m < MaxLen /\ k = m  BY <1>12, <1>16, <1>17, <1>22
  <2>2. PICK v \in Nat : v = n + a  BY <1>5, <1>11
  <2>3. m = v + 1 /\ v >= s.prefill /\ v < m  BY <1>5, <1>9, <1>11, <1>12, <2>2
  <2>4. c + x.num - (d - a) = v
    <3>1. c + x.num = n + d /\ n \in Nat /\ a \in Nat /\ d \in Nat  BY <1>5, <1>10, <1>11
    <3>2. n + d - (d - a) = n + a  BY <3>1
    <3>3. QED  BY <1>8, <1>9, <2>2, <3>1, <3>2
  <2>5. sched'.status[r] = "running" /\ r \notin sched'.finished
    BY <1>8, <1>20, <1>22
  <2>6. sched'.computed[r] = v
    <3>a. PICK w : w = Rejected(exec, i, s)  OBVIOUS
    <3>b. PICK y : y = sched.computed[r]  OBVIOUS
    <3>c. sched'.computed[r] = y - w  BY <1>20, <1>22, <3>a, <3>b
    <3>d. w = d - a /\ y = c + x.num  BY <1>8, <1>11, <3>a, <3>b
    <3>e. w \in Int /\ y \in Int  BY <1>8, <1>9, <1>10, <1>11, <3>d
    <3>f. y - w = v
      <4>1. PICK rows \in Nat : rows = x.num  BY <1>8
      <4>2. c + rows - (d - a) = v /\ w = d - a /\ y = c + rows  BY <2>4, <3>d, <4>1
      <4>3. QED  BY <1>9, <1>10, <1>11, <3>e, <4>1, <4>2
    <3>2. QED  BY <3>c, <3>f
  <2>7. sched'.drafts[r] = 0  BY <1>8, <1>15 DEF Accounts
  <2>8. PICK u : u = slot'[x.slot]  OBVIOUS
  <2>a. Sampling(i)  BY SampleSlots
  <2>b. PICK P : /\ \A j \in 1 .. NumDrafts : P[j][1] = x.req
                 /\ slot'[x.slot] = [PostUpdate(s, x, Sampled(exec, i, s),
                                       Rejected(exec, i, s)) EXCEPT !.drafts = P]
    BY <1>1, <1>3, <2>a DEF Sampling
  <2>9. /\ \A j \in 1 .. NumDrafts : P[j][1] = r
        /\ u = [PostUpdate(s, x, Sampled(exec, i, s), Rejected(exec, i, s)) EXCEPT !.drafts = P]
    BY <1>2, <2>8, <2>b
  <2>10. IsSlotRec(s)  BY <1>1, <1>3, ItemFacts
  <2>11. PICK new : new = Rest(r, n, a + 1)  OBVIOUS
  <2>12. /\ u.prefill = s.prefill /\ u.gpu = s.gpu + x.num - (d - a) /\ u.all = s.all \o new
         /\ u.last = (IF new = <<>> THEN s.last ELSE Last(new)) /\ u.drafts = P
    <3>1. Posted(u, s, x, new, d - a, P)  BY <1>11, <2>9, <2>10, <2>11, PostIs
    <3>2. QED  BY <3>1 DEF Posted
  <2>13. u.gpu = v /\ u.all = Prefix(r, m)
    BY <1>7, <1>9, <1>13, <2>4, <2>11, <2>12
  <2>14. u.last = Target(r, v)
    <3>1. a + 1 \in Nat /\ a + 1 \in 1 .. a + 1 /\ a + 1 # 0 /\ n - 1 + (a + 1) = v
      BY <1>5, <1>11, <2>2
    <3>a. PICK b \in Nat : b = a + 1  BY <3>1
    <3>b. new = Rest(r, n, b) /\ b \in 1 .. b  BY <2>11, <3>1, <3>a
    <3>2. Len(new) = a + 1 /\ new[a + 1] = Target(r, n - 1 + (a + 1))
      <4>a. /\ Len(Rest(r, n, b)) = b
            /\ \A t \in 1 .. b : Rest(r, n, b)[t] = Target(r, n - 1 + t)
        BY <1>5, RestIs
      <4>1. Len(new) = b /\ new[b] = Target(r, n - 1 + b)  BY <3>b, <4>a
      <4>2. QED  BY <3>a, <4>1
    <3>3. new # <<>>
      <4>1. Len(<<>>) = 0  OBVIOUS
      <4>2. QED  BY <3>1, <3>2, <4>1
    <3>4. Last(new) = Target(r, v)  BY <3>1, <3>2 DEF Last
    <3>5. QED  BY <2>12, <3>3, <3>4
  <2>15. Stands(u, r, m, v)  BY <1>9, <1>12, <2>1, <2>2, <2>3, <2>12, <2>13, <2>14 DEF Stands
  <2>16. Drafted(u, r, 0) /\ Drafted(u, r, NumDrafts)
    BY <2>3, <2>9, <2>12, <2>13, RunnerAssumption DEF Drafted
  <2>17. u = slot'[table'.index[r]]  BY <1>8, <1>14, <2>8
  <2>18. NumTokens(r)' = m  BY <1>19, <2>1 DEF NumTokens
  <2>19. Cached(r, v)'  BY <1>11, <1>14, <2>2 DEF Cached
  <2>20. Settled(r)'
    BY <2>1, <2>2, <2>3, <2>5, <2>6, <2>7, <2>15, <2>16, <2>17, <2>18, <2>19 DEF Settled
  <2>21. QED
    BY <1>1, <1>2, <1>17, <1>18, <2>5, <2>16, <2>17, <2>20 DEF Taken
<1>23. QED  BY <1>21, <1>22

LEMMA SampleTokensInv ==
  ASSUME IInv, phase = "sample", exec # NoState, SampleTokens
  PROVE  IInv'
<1>1. ASSUME NEW r \in InBatch PROVE Taken(r)
  <2>1. PICK i \in DOMAIN exec.batch : r = exec.batch[i].req  BY DEF InBatch
  <2>2. r \in Req  BY <2>1, ItemFacts
  <2>3. CASE Chunked(i)  BY <2>1, <2>2, <2>3, ChunkSettles
  <2>4. CASE \E a : Verified(i, a)  BY <2>1, <2>2, <2>4, VerifiedSettles
  <2>5. QED  BY <2>3, <2>4, SampleIs
<1>2. Accounts  BY AccountsIs
<1>3. /\ table' = table /\ kv' = kv /\ exec' = NoState /\ phase' = "drafts"
      /\ offered' = InBatch
  BY DEF SampleTokens, AfterSample, InBatch
<1>4. \A r \in InBatch : r \in Running /\ r \in Req
  BY ItemFacts DEF InBatch, Running
<1>5. SchedInv /\ SlotsInv /\ sched.finished = {}  BY DEF IInv, PhaseInv
<1>6. \A r \in InBatch :
        /\ \E n \in 1 .. MaxLen : sched'.toks[r] = Prefix(r, n)
        /\ \/ sched'.status[r] = "done" /\ r \in sched'.finished
           \/ /\ sched'.status[r] = "running" /\ r \notin sched'.finished
              /\ Settled(r)'
              /\ r \notin sched'.chunked => Drafted(slot'[table'.index[r]], r, NumDrafts)
  BY <1>1 DEF Taken
<1>7. SchedInv'
  <2>1. sched'.status \in [Req -> {"waiting", "running", "done"}]
    <3>1. \A r \in Req : sched'.status[r] \in {"waiting", "running", "done"}
      BY <1>2, <1>5, <1>6 DEF Accounts, SchedInv
    <3>2. QED  BY <1>2, <3>1 DEF Accounts
  <2>2. \A r \in Req : \E n \in 1 .. MaxLen : sched'.toks[r] = Prefix(r, n)
    BY <1>2, <1>5, <1>6 DEF Accounts, SchedInv
  <2>3. sched'.finished \in SUBSET Req /\ \A r \in sched'.finished : sched'.status[r] = "done"
    BY <1>2, <1>4, <1>6 DEF Accounts
  <2>4. /\ sched'.toks = [r \in Req |-> sched'.toks[r]]
        /\ sched'.computed = [r \in Req |-> sched'.computed[r]]
        /\ sched'.drafts = [r \in Req |-> sched'.drafts[r]]
    BY <1>2, <1>5 DEF Accounts, SchedInv
  <2>5. QED  BY <1>2, <2>1, <2>2, <2>3, <2>4 DEF Accounts, SchedInv
<1>8. SlotsInv'
  <2>1. (Running \cup sched.finished)' = Running
    <3>1. \A r \in Req : r \in Running' \/ r \in sched'.finished <=> r \in Running
      BY <1>2, <1>4, <1>6 DEF Accounts, Running
    <3>2. sched'.finished \subseteq Req  BY <1>2, <1>4 DEF Accounts
    <3>3. Running' \subseteq Req /\ Running \subseteq Req  BY DEF Running
    <3>4. QED  BY <3>1, <3>2, <3>3
  <2>2. Holding(table', Running)  BY <1>3, <1>5 DEF SlotsInv
  <2>3. ASSUME NEW y \in Slot PROVE IsSlotRec(slot'[y])
    <3>1. CASE \E i \in DOMAIN exec.batch : exec.batch[i].slot = y
      <4>1. PICK i \in DOMAIN exec.batch : exec.batch[i].slot = y  BY <3>1
      <4>2. PICK s : s = slot[y]  OBVIOUS
      <4>3. IsSlotRec(s)  BY <1>5, <4>2 DEF SlotsInv
      <4>a. PICK u : u = slot'[y]  OBVIOUS
      <4>4. PICK P : u = [PostUpdate(s, exec.batch[i], Sampled(exec, i, s),
                                   Rejected(exec, i, s)) EXCEPT !.drafts = P]
        BY <4>1, <4>2, <4>a, SampleSlots DEF Sampling
      <4>b. Posted(u, s, exec.batch[i], Sampled(exec, i, s), Rejected(exec, i, s), P)
        BY <4>3, <4>4, PostIs
      <4>5. QED  BY <4>a, <4>b DEF Posted
    <3>2. CASE \A i \in DOMAIN exec.batch : exec.batch[i].slot # y
      <4>1. slot'[y] = slot[y]  BY <3>2, SampleSlots
      <4>2. QED  BY <1>5, <4>1 DEF SlotsInv
    <3>3. QED  BY <3>1, <3>2
  <2>4. slot' = [x \in Slot |-> slot'[x]]  BY SampleSlots
  <2>5. QED  BY <2>1, <2>2, <2>3, <2>4 DEF SlotsInv
<1>9. ASSUME NEW r \in Req, sched'.status[r] # "done" PROVE Settled(r)'
  <2>1. CASE r \in InBatch  BY <1>6, <1>9, <2>1
  <2>2. CASE r \notin InBatch
    <3>1. /\ sched'.toks[r] = sched.toks[r] /\ sched'.status[r] = sched.status[r]
          /\ sched'.computed[r] = sched.computed[r] /\ sched'.drafts[r] = sched.drafts[r]
      BY <1>2, <2>2 DEF Accounts
    <3>2. Settled(r)  BY <1>9, <2>2, <3>1 DEF IInv, PhaseInv, InBatch
    <3>3. Cached(r, sched.computed[r])'  BY <1>3, <3>1, <3>2 DEF Settled, Cached
    <3>4. sched.status[r] = "running" => slot'[table'.index[r]] = slot[table.index[r]]
      <4> SUFFICES ASSUME sched.status[r] = "running"
                   PROVE  slot'[table'.index[r]] = slot[table.index[r]]
        OBVIOUS
      <4>1. r \in Running  BY DEF Running
      <4>2. \A i \in DOMAIN exec.batch : exec.batch[i].slot # table.index[r]
        BY <2>2, <4>1, ItemFacts DEF InBatch
      <4>3. TableOK(table) /\ table.index[r] # NoSlot
        BY <1>5, <4>1 DEF SlotsInv, Holding, Owned
      <4>4. table.index[r] \in Slot  BY <4>3, OwnerIs
      <4>5. slot'[table.index[r]] = slot[table.index[r]]  BY <4>2, <4>4, SampleSlots
      <4>6. QED  BY <1>3, <4>5
    <3>5. NumTokens(r)' = NumTokens(r)  BY <3>1 DEF NumTokens
    <3>6. QED  BY <3>1, <3>2, <3>3, <3>4, <3>5 DEF Settled
  <2>3. QED  BY <2>1, <2>2
<1>10. \A r \in offered' : sched'.status[r] = "running" /\ r \notin sched'.chunked =>
          Drafted(slot'[table'.index[r]], r, NumDrafts)
  BY <1>3, <1>6
<1>11. PhaseInv'  BY <1>3, <1>9, <1>10 DEF PhaseInv
<1>12. QED  BY <1>7, <1>8, <1>11 DEF IInv

-----------------------------------------------------------------------------
(* The other steps, and the invariant.                                       *)

LEMMA InitInv ==
  ASSUME Init
  PROVE  IInv
<1>1. /\ sched = [status   |-> [r \in Req |-> "waiting"],
                  toks     |-> [r \in Req |-> [p \in 1..PromptLen[r] |-> Target(r, p - 1)]],
                  computed |-> [r \in Req |-> 0],
                  drafts   |-> [r \in Req |-> 0],
                  chunked  |-> {},
                  finished |-> {}]
      /\ table = FreshTable
      /\ slot = [x \in Slot |-> [prefill |-> 0, all |-> <<>>, cpu |-> 0, gpu |-> 0,
                                 last |-> Garbage,
                                 drafts |-> [j \in 1..NumDrafts |-> Garbage]]]
      /\ exec = NoState /\ phase = "execute"
  BY DEF Init
<1>2. \A r \in Req : PromptLen[r] \in 1 .. MaxLen - 1  BY RunnerAssumption
<1>3. /\ sched.status = [r \in Req |-> "waiting"]
      /\ sched.toks = [r \in Req |-> Prefix(r, PromptLen[r])]
      /\ sched.computed = [r \in Req |-> 0] /\ sched.drafts = [r \in Req |-> 0]
      /\ sched.finished = {}
  BY <1>1 DEF Prefix
<1>4. SchedInv
  <2>1. sched = [status |-> sched.status, toks |-> sched.toks, computed |-> sched.computed,
                 drafts |-> sched.drafts, chunked |-> sched.chunked,
                 finished |-> sched.finished]
    BY <1>1
  <2>2. sched.status \in [Req -> {"waiting", "running", "done"}]  BY <1>3
  <2>3. \A r \in Req : \E n \in 1 .. MaxLen : sched.toks[r] = Prefix(r, n)
    <3> SUFFICES ASSUME NEW r \in Req PROVE \E n \in 1 .. MaxLen : sched.toks[r] = Prefix(r, n)
      OBVIOUS
    <3>1. PromptLen[r] \in 1 .. MaxLen  BY <1>2, RunnerAssumption
    <3>2. QED  BY <1>3, <3>1
  <2>4. /\ sched.toks = [r \in Req |-> sched.toks[r]]
        /\ sched.computed = [r \in Req |-> sched.computed[r]]
        /\ sched.drafts = [r \in Req |-> sched.drafts[r]]
    BY <1>3
  <2>5. QED  BY <1>3, <2>1, <2>2, <2>3, <2>4 DEF SchedInv
<1>5. Running = {}  BY <1>3 DEF Running
<1>6. SlotsInv
  <2>1. Holding(table, Running \cup sched.finished)
    BY <1>1, <1>3, <1>5, FreshTableOK DEF Holding
  <2>2. slot = [x \in Slot |-> slot[x]] /\ \A x \in Slot : IsSlotRec(slot[x])
    BY <1>1 DEF IsSlotRec
  <2>3. QED  BY <2>1, <2>2 DEF SlotsInv
<1>7. ASSUME NEW r \in Req PROVE Settled(r)
  <2>1. PICK n \in 1 .. MaxLen - 1 : n = PromptLen[r]  BY <1>2
  <2>2. n \in Nat /\ 0 < n /\ n < MaxLen  BY RunnerAssumption
  <2>a. sched.toks[r] = Prefix(r, n)  BY <1>3, <2>1
  <2>3. NumTokens(r) = n  BY <2>a, <2>2, PrefixIs DEF NumTokens
  <2>4. Cached(r, 0)
    <3>1. 0 .. 0 - 1 = {}  OBVIOUS
    <3>2. QED  BY <3>1 DEF Cached
  <2>5. sched.computed[r] = 0 /\ sched.drafts[r] = 0 /\ sched.status[r] = "waiting"  BY <1>3
  <2>6. QED  BY <2>2, <2>3, <2>4, <2>5 DEF Settled
<1>8. PhaseInv  BY <1>1, <1>7 DEF PhaseInv
<1>9. QED  BY <1>4, <1>6, <1>8 DEF IInv

LEMMA TakeInv ==
  ASSUME IInv, TakeDraftTokenIds
  PROVE  IInv'
<1> DEFINE gets(r) == r \in offered /\ sched.status[r] = "running" /\ r \notin sched.chunked
<1>1. /\ sched' = [sched EXCEPT !.drafts =
                     [r \in Req |-> IF gets(r) THEN NumDrafts ELSE sched.drafts[r]]]
      /\ phase = "drafts" /\ phase' = "execute" /\ offered' = {}
      /\ table' = table /\ slot' = slot /\ kv' = kv /\ exec' = exec /\ step' = step
  BY DEF TakeDraftTokenIds
<1>2. SchedInv /\ SlotsInv /\ PhaseInv  BY DEF IInv
<1>3. sched = [status |-> sched.status, toks |-> sched.toks, computed |-> sched.computed,
               drafts |-> sched.drafts, chunked |-> sched.chunked,
               finished |-> sched.finished]
  BY <1>2 DEF SchedInv
<1> HIDE DEF gets
<1>4. /\ sched' = [status |-> sched'.status, toks |-> sched'.toks,
                   computed |-> sched'.computed, drafts |-> sched'.drafts,
                   chunked |-> sched'.chunked, finished |-> sched'.finished]
      /\ sched'.status = sched.status /\ sched'.toks = sched.toks
      /\ sched'.computed = sched.computed /\ sched'.finished = sched.finished
      /\ sched'.drafts = [r \in Req |-> IF gets(r) THEN NumDrafts ELSE sched.drafts[r]]
  BY <1>1, <1>3
<1>5. SchedInv'  BY <1>2, <1>4 DEF SchedInv
<1>6. SlotsInv'
  <2>1. Running' = Running  BY <1>4 DEF Running
  <2>2. QED  BY <1>1, <1>2, <1>4, <2>1 DEF SlotsInv
<1>7. ASSUME NEW r \in Req, sched'.status[r] # "done" PROVE Settled(r)'
  <2>1. Settled(r)  BY <1>1, <1>2, <1>4, <1>7 DEF PhaseInv
  <2>2. sched'.drafts[r] = IF gets(r) THEN NumDrafts ELSE sched.drafts[r]  BY <1>4
  <2>3. gets(r) => Drafted(slot[table.index[r]], r, NumDrafts) /\ sched.status[r] = "running"
    BY <1>1, <1>2 DEF PhaseInv, gets
  <2>4. NumTokens(r)' = NumTokens(r) /\ sched'.computed[r] = sched.computed[r]
        /\ sched'.status[r] = sched.status[r]
    BY <1>4 DEF NumTokens
  <2>5. Cached(r, sched.computed[r])'  BY <1>1, <1>4, <2>1 DEF Settled, Cached
  <2>6. sched'.status[r] = "waiting" => sched'.drafts[r] = 0
    BY <2>1, <2>2, <2>3, <2>4 DEF Settled
  <2>7. sched'.status[r] = "running" =>
          /\ Stands(slot'[table'.index[r]], r, NumTokens(r)', sched'.computed[r])
          /\ Drafted(slot'[table'.index[r]], r, sched'.drafts[r])
    BY <1>1, <2>1, <2>2, <2>3, <2>4 DEF Settled
  <2>8. QED  BY <2>1, <2>4, <2>5, <2>6, <2>7 DEF Settled
<1>8. PhaseInv'
  <2>1. exec' = NoState  BY <1>1, <1>2 DEF PhaseInv
  <2>2. QED  BY <1>1, <1>7, <2>1 DEF PhaseInv
<1>9. QED  BY <1>5, <1>6, <1>8 DEF IInv

LEMMA AbortInv ==
  ASSUME IInv, NEW q \in Req, Abort(q)
  PROVE  IInv'
<1> DEFINE fin == IF sched.status[q] = "running" THEN sched.finished \cup {q} ELSE sched.finished
<1>1. /\ sched' = [sched EXCEPT
                   !.status[q] = "done", !.computed[q] = 0, !.drafts[q] = 0,
                   !.chunked = sched.chunked \ {q}, !.finished = fin]
      /\ phase = "execute" /\ phase' = phase /\ sched.status[q] # "done"
      /\ table' = table /\ slot' = slot /\ kv' = kv /\ exec' = exec /\ step' = step
  BY DEF Abort
<1>2. SchedInv /\ SlotsInv /\ PhaseInv  BY DEF IInv
<1>3. /\ sched = [status |-> sched.status, toks |-> sched.toks, computed |-> sched.computed,
                  drafts |-> sched.drafts, chunked |-> sched.chunked,
                  finished |-> sched.finished]
      /\ sched.status \in [Req -> {"waiting", "running", "done"}]
      /\ sched.computed = [r \in Req |-> sched.computed[r]]
      /\ sched.drafts = [r \in Req |-> sched.drafts[r]]
  BY <1>2 DEF SchedInv
<1> HIDE DEF fin
<1>4. /\ sched' = [status |-> sched'.status, toks |-> sched'.toks,
                   computed |-> sched'.computed, drafts |-> sched'.drafts,
                   chunked |-> sched'.chunked, finished |-> sched'.finished]
      /\ sched'.toks = sched.toks /\ sched'.finished = fin
      /\ sched'.status = [sched.status EXCEPT ![q] = "done"]
      /\ sched'.computed = [sched.computed EXCEPT ![q] = 0]
      /\ sched'.drafts = [sched.drafts EXCEPT ![q] = 0]
  BY <1>1, <1>3
<1>5. \A r \in Req : r # q => /\ sched'.status[r] = sched.status[r]
                              /\ sched'.computed[r] = sched.computed[r]
                              /\ sched'.drafts[r] = sched.drafts[r]
  BY <1>3, <1>4
<1>6. sched'.status[q] = "done"  BY <1>3, <1>4
<1>7. SchedInv'
  <2>1. sched'.status \in [Req -> {"waiting", "running", "done"}]  BY <1>3, <1>4
  <2>2. /\ sched'.computed = [r \in Req |-> sched'.computed[r]]
        /\ sched'.drafts = [r \in Req |-> sched'.drafts[r]]
    BY <1>3, <1>4
  <2>3. fin \subseteq sched.finished \cup {q}  BY DEF fin
  <2>4. sched'.finished \in SUBSET Req /\ \A r \in sched'.finished : sched'.status[r] = "done"
    BY <1>2, <1>4, <1>5, <1>6, <2>3 DEF SchedInv
  <2>5. sched'.toks = [r \in Req |-> sched'.toks[r]]
        /\ \A r \in Req : \E n \in 1 .. MaxLen : sched'.toks[r] = Prefix(r, n)
    BY <1>2, <1>4 DEF SchedInv
  <2>6. QED  BY <1>4, <2>1, <2>2, <2>4, <2>5 DEF SchedInv
<1>8. SlotsInv'
  <2>1. Running' = Running \ {q}  BY <1>5, <1>6 DEF Running
  <2>2. sched.status[q] = "running" => fin = sched.finished \cup {q}  BY DEF fin
  <2>3. sched.status[q] # "running" => fin = sched.finished  BY DEF fin
  <2>4. q \in Running <=> sched.status[q] = "running"  BY DEF Running
  <2>5. (Running \cup sched.finished)' = Running \cup sched.finished
    BY <1>4, <2>1, <2>2, <2>3, <2>4
  <2>6. QED  BY <1>1, <1>2, <2>5 DEF SlotsInv
<1>9. ASSUME NEW r \in Req, sched'.status[r] # "done" PROVE Settled(r)'
  <2>1. r # q  BY <1>6, <1>9
  <2>2. /\ sched'.status[r] = sched.status[r] /\ sched'.computed[r] = sched.computed[r]
        /\ sched'.drafts[r] = sched.drafts[r] /\ NumTokens(r)' = NumTokens(r)
    BY <1>4, <1>5, <2>1 DEF NumTokens
  <2>3. Settled(r)  BY <1>1, <1>2, <1>9, <2>2 DEF PhaseInv
  <2>4. Cached(r, sched.computed[r])'  BY <1>1, <2>2, <2>3 DEF Settled, Cached
  <2>5. QED  BY <1>1, <2>2, <2>3, <2>4 DEF Settled
<1>10. PhaseInv'
  <2>1. exec' = NoState  BY <1>1, <1>2 DEF PhaseInv
  <2>2. QED  BY <1>1, <1>9, <2>1 DEF PhaseInv
<1>11. QED  BY <1>7, <1>8, <1>10 DEF IInv

LEMMA SampleNothingInv ==
  ASSUME IInv, SampleNothing
  PROVE  IInv'
<1>1. /\ phase = "sample" /\ exec = NoState /\ phase' = "stopped"
      /\ sched' = sched /\ table' = table /\ slot' = slot /\ kv' = kv /\ exec' = exec
  BY DEF SampleNothing
<1>2. SchedInv' /\ SlotsInv'
  <2>1. Running' = Running  BY <1>1 DEF Running
  <2>2. QED  BY <1>1, <2>1 DEF IInv, SchedInv, SlotsInv
<1>3. PhaseInv'  BY <1>1 DEF PhaseInv
<1>4. QED  BY <1>2, <1>3 DEF IInv

\* IInv rests on no variable but these.
LEMMA StutterInv ==
  ASSUME IInv, UNCHANGED vars
  PROVE  IInv'
<1>1. /\ sched' = sched /\ table' = table /\ slot' = slot /\ kv' = kv /\ exec' = exec
      /\ phase' = phase /\ step' = step /\ offered' = offered
  BY DEF vars
<1>2. Running' = Running  BY <1>1 DEF Running
<1>3. SchedInv' /\ SlotsInv'  BY <1>1, <1>2 DEF IInv, SchedInv, SlotsInv
<1>4. \A r : Settled(r)' = Settled(r)  BY <1>1 DEF Settled, NumTokens, Cached
<1>5. ASSUME NEW i PROVE ItemTrue(exec, i)' = ItemTrue(exec, i)
  BY <1>1 DEF ItemTrue, RowsTrue, NumTokens, Cached
<1>6. PhaseInv'
  <2>1. PhaseInv  BY DEF IInv
  <2>2. /\ exec # NoState => \A i \in DOMAIN exec.batch : ItemTrue(exec, i)'
        /\ phase \in {"execute", "drafts"} =>
             \A r \in Req : sched.status[r] # "done" => Settled(r)'
        /\ exec # NoState =>
             \A r \in Req : sched.status[r] = "done" \/ Settled(r)'
                          \/ \E i \in DOMAIN exec.batch : exec.batch[i].req = r
    BY <1>4, <1>5, <2>1 DEF PhaseInv
  <2>3. QED  BY <1>1, <2>1, <2>2 DEF PhaseInv
<1>7. QED  BY <1>3, <1>6 DEF IInv

LEMMA InvHolds == Spec => []IInv
<1>1. Init => IInv  BY InitInv
<1>2. IInv /\ [Next]_vars => IInv'
  <2> SUFFICES ASSUME IInv, [Next]_vars PROVE IInv'
    OBVIOUS
  <2>1. CASE Execute  BY <2>1, ExecuteInv DEF Execute
  <2>2. CASE ExecuteNothing  BY <2>2, ExecuteNothingInv DEF ExecuteNothing
  <2>3. CASE SampleTokens  BY <2>3, SampleTokensInv DEF SampleTokens
  <2>4. CASE SampleNothing  BY <2>4, SampleNothingInv
  <2>5. CASE TakeDraftTokenIds  BY <2>5, TakeInv
  <2>6. ASSUME NEW q \in Req, Abort(q) PROVE IInv'  BY <2>6, AbortInv
  <2>7. CASE UNCHANGED vars  BY <2>7, StutterInv
  <2>8. QED  BY <2>1, <2>2, <2>3, <2>4, <2>5, <2>6, <2>7 DEF Next
<1>3. QED  BY <1>1, <1>2, PTL DEF Spec

-----------------------------------------------------------------------------
(* What the runs check, for every number of requests, slots and drafts.      *)

\* Speculation is lossless (sample_tokens, postprocess_sampled): with any drafts,
\* chunks, preemptions and reuse of slots, a request has the target's own tokens.
THEOREM OutputsAlwaysTargets == Spec => []OutputsAreTargets
<1>1. ASSUME IInv PROVE OutputsAreTargets
  <2> SUFFICES ASSUME NEW r \in Req, NEW p \in DOMAIN sched.toks[r]
               PROVE  sched.toks[r][p] = Target(r, p - 1)
    BY DEF OutputsAreTargets
  <2>1. PICK n : n = NumTokens(r)  OBVIOUS
  <2>2. n \in Nat /\ sched.toks[r] = Prefix(r, n)  BY <1>1, <2>1, TokensNow
  <2>3. p \in 1 .. n  BY <2>2 DEF Prefix
  <2>4. QED  BY <2>2, <2>3, PrefixIs
<1>2. QED  BY <1>1, InvHolds, PTL

\* The computed counts are true: what the device counts is what the cache holds,
\* and what the host bounds the batch with is what the device counts.
THEOREM CountsAlwaysTrue == Spec => []CountsAreTrue
<1>1. ASSUME IInv PROVE CountsAreTrue
  <2>1. ASSUME phase = "execute", NEW r \in Running, NEW s, s = slot[table.index[r]],
               NEW p \in 0 .. s.gpu - 1
        PROVE  kv[r][p] = Target(r, p)
    <3>1. r \in Req /\ sched.status[r] = "running"  BY DEF Running
    <3>2. Settled(r)  BY <1>1, <2>1, <3>1, SettledNow
    <3>3. s.gpu = sched.computed[r] /\ Cached(r, sched.computed[r])
      BY <2>1, <3>1, <3>2 DEF Settled, Stands
    <3>4. QED  BY <3>3 DEF Cached
  <2>2. ASSUME exec # NoState, NEW i \in DOMAIN exec.batch
        PROVE  slot[exec.batch[i].slot].cpu = slot[exec.batch[i].slot].gpu
    BY <1>1, <2>2, ItemFacts DEF ItemTrue
  <2>3. QED  BY <2>1, <2>2 DEF CountsAreTrue
<1>2. QED  BY <1>1, InvHolds, PTL

\* No row of a batch is fed another request's token, sampled rows are the item's
\* own, and the batch is in the order the attention split relies on.
THEOREM RowsAlwaysOwn == Spec => []RowsAreOwn
<1>1. ASSUME IInv PROVE RowsAreOwn
  <2>1. ASSUME NEW i \in DOMAIN exec.batch PROVE exec # NoState
    BY <2>1 DEF NoState
  <2>2. ASSUME NEW i \in DOMAIN exec.batch
        PROVE  /\ exec.batch[i].num \in Nat /\ exec.batch[i].drafts \in Nat
               /\ exec.batch[i].num >= exec.batch[i].drafts + 1
               /\ exec.batch[i].drafts <= NumDrafts /\ exec.batch[i].req \in Nat
               /\ exec.batch[i].drafts > 0 => exec.batch[i].num = exec.batch[i].drafts + 1
               /\ QueryStart(exec.batch, i) \in Nat
    <3>1. ItemTrue(exec, i) /\ Sorted(exec.batch)
      BY <1>1, <2>1 DEF IInv, PhaseInv
    <3>2. Queries(exec.batch, Len(exec.batch)) /\ i \in 1 .. Len(exec.batch)
          /\ Len(exec.batch) \in Nat
      BY <3>1 DEF Sorted, Queries
    <3>3. i \in 1 .. Len(exec.batch) + 1  BY <3>2
    <3>4. QueryStart(exec.batch, i) \in Nat  BY <3>2, <3>3, QueryStarts
    <3>5. PICK x : x = exec.batch[i]  OBVIOUS
    <3>6. /\ x.req \in Req /\ x.num \in Nat /\ x.drafts \in Nat /\ x.num >= x.drafts + 1
          /\ x.drafts <= NumDrafts /\ (x.drafts > 0 => x.num = x.drafts + 1)
      BY <3>1, <3>5 DEF ItemTrue
    <3>7. x.req \in Nat  BY <3>6 DEF Req
    <3>8. QED  BY <3>4, <3>5, <3>6, <3>7
  <2>3. ASSUME NEW i \in DOMAIN exec.batch, NEW row \in QueryRows(exec.batch, i)
        PROVE  exec.inputs[row][1] = exec.batch[i].req
    <3>1. PICK q \in Nat : q = QueryStart(exec.batch, i)  BY <2>2
    <3>2. PICK m \in Nat : m = exec.batch[i].num  BY <2>2
    <3>3. row \in q + 1 .. q + m  BY <3>1, <3>2 DEF QueryRows
    <3>4. PICK k : k = row - q - 1  OBVIOUS
    <3>5. k \in 0 .. m - 1 /\ row = q + k + 1  BY <3>3, <3>4
    <3>6. row = Row(exec.batch, i, k)  BY <3>1, <3>5 DEF Row
    <3>7. ItemTrue(exec, i)  BY <1>1, <2>1, ItemFacts
    <3>8. QED  BY <3>2, <3>5, <3>6, <3>7 DEF ItemTrue, RowsTrue
  <2>4. ASSUME NEW i \in DOMAIN exec.batch, NEW t \in DOMAIN LogitsRows(exec.batch, i)
        PROVE  LogitsRows(exec.batch, i)[t] \in QueryRows(exec.batch, i)
    <3>1. PICK q \in Nat : q = QueryStart(exec.batch, i)  BY <2>2
    <3>2. PICK m \in Nat : m = exec.batch[i].num  BY <2>2
    <3>3. PICK d \in Nat : d = exec.batch[i].drafts  BY <2>2
    <3>4. m >= d + 1  BY <2>2, <3>2, <3>3
    <3>5. LogitsRows(exec.batch, i) = [u \in 1 .. d + 1 |-> q + m - (d + 1) + u]
      BY <3>1, <3>2, <3>3 DEF LogitsRows
    <3>6. t \in 1 .. d + 1 /\ LogitsRows(exec.batch, i)[t] = q + m - (d + 1) + t
      BY <3>5
    <3>7. q + m - (d + 1) + t \in q + 1 .. q + m  BY <3>4, <3>6
    <3>8. QED  BY <3>1, <3>2, <3>6, <3>7 DEF QueryRows
  <2>5. ASSUME NEW i \in DOMAIN exec.batch, NEW j \in DOMAIN exec.batch, i < j
        PROVE  /\ exec.batch[i].num > DecodeLen => exec.batch[j].num > DecodeLen
               /\ exec.batch[j].drafts = NumDrafts => exec.batch[i].drafts = NumDrafts
    <3>1. PICK a : a = exec.batch[i]  OBVIOUS
    <3>2. PICK b : b = exec.batch[j]  OBVIOUS
    <3>3. Before(a, b)  BY <1>1, <2>1, <2>5, <3>1, <3>2 DEF IInv, PhaseInv, Sorted
    <3>4. /\ a.num \in Nat /\ a.drafts \in Nat /\ a.req \in Nat /\ a.drafts <= NumDrafts
          /\ a.drafts > 0 => a.num = a.drafts + 1
          /\ b.num \in Nat /\ b.drafts \in Nat /\ b.req \in Nat /\ b.drafts <= NumDrafts
          /\ b.drafts > 0 => b.num = b.drafts + 1
      BY <2>2, <3>1, <3>2
    <3>5. \/ a.drafts # 0 /\ b.drafts = 0
          \/ /\ a.drafts = 0 <=> b.drafts = 0
             /\ \/ a.num = DecodeLen /\ b.num # DecodeLen
                \/ /\ a.num = DecodeLen <=> b.num = DecodeLen
                   /\ a.num < b.num \/ (a.num = b.num /\ a.req < b.req)
      BY <3>3, <3>4, BeforeIs
    <3>6. NumDrafts \in Nat /\ DecodeLen = NumDrafts + 1
      BY RunnerAssumption DEF DecodeLen
    <3>7. a.num > DecodeLen => b.num > DecodeLen  BY <3>4, <3>5, <3>6
    <3>8. b.drafts = NumDrafts => a.drafts = NumDrafts  BY <3>4, <3>5, <3>6
    <3>9. QED  BY <3>1, <3>2, <3>7, <3>8
  <2>6. QED  BY <2>3, <2>4, <2>5 DEF RowsAreOwn
<1>2. QED  BY <1>1, InvHolds, PTL

\* sample_tokens never samples a step older than the last execute_model.
THEOREM AlwaysSamplesLastStep == Spec => []SamplesLastStep
<1>1. IInv => SamplesLastStep  BY DEF IInv, PhaseInv, SamplesLastStep
<1>2. QED  BY <1>1, InvHolds, PTL
=============================================================================
