---------------------------- MODULE MarlinStripes ----------------------------
(***************************************************************************)
(* The thread blocks of the whole-K Marlin MoE kernel                      *)
(* (marlin_template.h), interleaved at every access to memory they share:  *)
(* the output C, the fp32 scratch C_tmp and the integer locks of the       *)
(* workspace.  Launches follow one another on a stream and reuse the       *)
(* workspace, as W13 and W2 of an MoE layer do.                            *)
(*                                                                         *)
(* A partial sum is the sequence of the terms added so far, in the order   *)
(* of the additions: a term is the half-open range <<from, to>> of K tiles *)
(* a CTA accumulated in registers, the bias, or the Stale contents of      *)
(* memory nobody has initialised.  The matmul itself is private to a CTA   *)
(* and is one step.                                                        *)
(***************************************************************************)
EXTENDS MarlinSchedule, Sequences, FiniteSets

CONSTANTS
  Geometries,     \* the launches that may occur
  Slots           \* locks in the workspace, and C_tmp slots

ASSUME GeometriesAssumption == Geometries \subseteq Geometry
ASSUME SlotsAssumption ==
  Slots \in Nat /\ \A g \in Geometries : g.grid <= Slots

VARIABLES
  geo,            \* geometry of the running launch
  cta,            \* cta[b]: slice state of CTA b
  pc,             \* pc[b]: where CTA b is
  acc,            \* acc[b]: its fp32 accumulators (frag_c)
  locks,          \* workspace locks
  tmp,            \* C_tmp, one slot per lock
  out             \* C, by MoE block and column of tiles

vars == <<geo, cta, pc, acc, locks, tmp, out>>

CTA   == 0 .. geo.grid - 1
Slot  == 0 .. Slots - 1
Tiles(g) == (0 .. g.parallel - 1) \X (0 .. g.nTiles - 1)

Term  == Int \X Int
Bias  == <<-1, -1>>
Stale == <<-2, -2>>
Sum   == Seq(Term)

\* Where a CTA reads and writes: the rows of the MoE block it last loaded.
TileOf(b) == <<cta[b].block, cta[b].col>>

-----------------------------------------------------------------------------
(* Where a CTA goes once init_slice() has run. *)

AfterInitSlice(g, before, s) ==
  IF ZeroesTile(g, before, s) THEN "zero"
  ELSE IF s.iters > 0 THEN "loop" ELSE "exit"

\* C_tmp is allocated for every launch and not cleared.
FreshTmp == [l \in Slot |-> <<Stale>>]

Start(g) ==
  /\ cta' = [b \in 0 .. g.grid - 1 |-> InitSlice(g, b, Prologue(g, b))]
  /\ pc'  = [b \in 0 .. g.grid - 1 |->
               AfterInitSlice(g, Prologue(g, b), InitSlice(g, b, Prologue(g, b)))]
  /\ acc' = [b \in 0 .. g.grid - 1 |-> <<>>]
  /\ out' = [t \in Tiles(g) |-> <<Stale>>]
  /\ tmp' = FreshTmp

Init ==
  /\ geo \in Geometries
  /\ cta = [b \in CTA |-> InitSlice(geo, b, Prologue(geo, b))]
  /\ pc  = [b \in CTA |->
              AfterInitSlice(geo, Prologue(geo, b),
                             InitSlice(geo, b, Prologue(geo, b)))]
  /\ acc = [b \in CTA |-> <<>>]
  /\ out = [t \in Tiles(geo) |-> <<Stale>>]
  /\ locks = [l \in Slot |-> 0]
  /\ tmp = FreshTmp

\* The next kernel of the stream starts when every CTA has exited.
Launch ==
  /\ \A b \in CTA : pc[b] = "exit"
  /\ geo' \in Geometries
  /\ Start(geo')
  /\ UNCHANGED locks

Goto(b, label) == pc' = [pc EXCEPT ![b] = label]

\* atomicAdd path: the bottom CTA of a shared tile zeroes the tile...
Zero(b) ==
  /\ pc[b] = "zero"
  /\ out' = [out EXCEPT ![TileOf(b)] = <<>>]
  /\ Goto(b, "publish")
  /\ UNCHANGED <<geo, cta, acc, locks, tmp>>

\* ... and tells the others by a negative lock.
Publish(b) ==
  /\ pc[b] = "publish"
  /\ locks' = [locks EXCEPT ![cta[b].lock] = 1 - cta[b].count]
  /\ Goto(b, "loop")
  /\ UNCHANGED <<geo, cta, acc, tmp, out>>

\* The main loop over the slice's K tiles, up to its first access to memory
\* other CTAs use.
Compute(b) ==
  LET s == cta[b] IN
  /\ pc[b] = "loop"
  /\ acc' = [acc EXCEPT ![b] = <<<<s.row, s.row + s.iters>>>>]
  /\ cta' = [cta EXCEPT ![b].iters = 0]
  /\ Goto(b, IF s.count > 1 /\ ~geo.atomicAdd THEN "acquire"
             ELSE IF s.count > 1 /\ s.idx # 0 THEN "wait"
             ELSE IF Last(s) \/ geo.atomicAdd THEN "write" ELSE "next")
  /\ UNCHANGED <<geo, locks, tmp, out>>

\* Fault: the barrier lets a slice in as soon as any other has left.
AcquireEarly(b) ==
  /\ pc[b] = "acquire"
  /\ cta[b].idx = 0 \/ locks[cta[b].lock] > 0
  /\ Goto(b, IF cta[b].idx # 0 THEN "load" ELSE "store")
  /\ UNCHANGED <<geo, cta, acc, locks, tmp, out>>

\* barrier_acquire: spin until it is this slice's turn.
Acquire(b) ==
  /\ pc[b] = "acquire"
  /\ locks[cta[b].lock] = cta[b].idx
  /\ Goto(b, IF cta[b].idx # 0 THEN "load"
             ELSE IF Last(cta[b]) THEN "release" ELSE "store")
  /\ UNCHANGED <<geo, cta, acc, locks, tmp, out>>

\* Fault: the CTA's own terms come first in the sum.
LoadOwnFirst(b) ==
  /\ pc[b] = "load"
  /\ acc' = [acc EXCEPT ![b] =
               acc[b] \o (IF geo.fp32Reduce THEN tmp[cta[b].lock]
                          ELSE out[TileOf(b)])]
  /\ Goto(b, IF Last(cta[b]) THEN "release" ELSE "store")
  /\ UNCHANGED <<geo, cta, locks, tmp, out>>

\* global_reduce_fp32 / global_reduce_fp16: add what the slices below left in
\* C_tmp or, in the fp16 variant, in C.
Load(b) ==
  /\ pc[b] = "load"
  /\ acc' = [acc EXCEPT ![b] =
               (IF geo.fp32Reduce THEN tmp[cta[b].lock] ELSE out[TileOf(b)])
                 \o acc[b]]
  /\ Goto(b, IF Last(cta[b]) THEN "release" ELSE "store")
  /\ UNCHANGED <<geo, cta, locks, tmp, out>>

Store(b) ==
  /\ pc[b] = "store"
  /\ IF geo.fp32Reduce
     THEN tmp' = [tmp EXCEPT ![cta[b].lock] = acc[b]] /\ UNCHANGED out
     ELSE out' = [out EXCEPT ![TileOf(b)] = acc[b]] /\ UNCHANGED tmp
  /\ Goto(b, "release")
  /\ UNCHANGED <<geo, cta, acc, locks>>

\* Fault: barrier_release without reset.
ReleaseNoReset(b) ==
  /\ pc[b] = "release"
  /\ locks' = [locks EXCEPT ![cta[b].lock] = @ + 1]
  /\ Goto(b, IF Last(cta[b]) THEN "write" ELSE "next")
  /\ UNCHANGED <<geo, cta, acc, tmp, out>>

\* barrier_release: the last slice resets the lock, the others count it up;
\* only the last one goes on to write the result.
Release(b) ==
  /\ pc[b] = "release"
  /\ locks' = [locks EXCEPT ![cta[b].lock] = IF Last(cta[b]) THEN 0 ELSE @ + 1]
  /\ Goto(b, IF Last(cta[b]) THEN "write" ELSE "next")
  /\ UNCHANGED <<geo, cta, acc, tmp, out>>

\* wait_negative_and_add: the load that ends the spin, then the atomicAdd.
SeeNegative(b) ==
  /\ pc[b] = "wait"
  /\ locks[cta[b].lock] < 0
  /\ Goto(b, "count")
  /\ UNCHANGED <<geo, cta, acc, locks, tmp, out>>

CountIn(b) ==
  /\ pc[b] = "count"
  /\ locks' = [locks EXCEPT ![cta[b].lock] = @ + 1]
  /\ Goto(b, "write")
  /\ UNCHANGED <<geo, cta, acc, tmp, out>>

\* write_result: the bias goes in with the last slice; a shared tile of the
\* atomicAdd path is added to, any other tile is overwritten.
Write(b) ==
  LET sum == IF Last(cta[b]) THEN Append(acc[b], Bias) ELSE acc[b]
  IN
  /\ pc[b] = "write"
  /\ out' = [out EXCEPT ![TileOf(b)] =
               IF geo.atomicAdd /\ cta[b].count > 1 THEN @ \o sum ELSE sum]
  /\ Goto(b, "next")
  /\ UNCHANGED <<geo, cta, acc, locks, tmp>>

\* The end of the loop's body: step to the next tile and init_slice().
NextSlice(b) ==
  LET before == StepColumn(geo, cta[b])
      after  == InitSlice(geo, b, before)
  IN
  /\ pc[b] = "next"
  /\ cta' = [cta EXCEPT ![b] = after]
  /\ acc' = [acc EXCEPT ![b] = <<>>]
  /\ Goto(b, AfterInitSlice(geo, before, after))
  /\ UNCHANGED <<geo, locks, tmp, out>>

Step(b) ==
  \/ Zero(b) \/ Publish(b)
  \/ Compute(b)
  \/ Acquire(b) \/ Load(b) \/ Store(b) \/ Release(b)
  \/ SeeNegative(b) \/ CountIn(b)
  \/ Write(b)
  \/ NextSlice(b)

SomeStep == \E b \in CTA : Step(b)

Next == Launch \/ SomeStep

\* The CTAs of a launch are taken to be resident together, so as long as one of them
\* can move, one of them does.  marlin_mm launches sms * blocks_per_sm of them to that
\* end; ExecConfig names the seven register counts at which the last third of them
\* waits for room instead.  With whole_k no CTA waits for another.
Fairness == WF_vars(SomeStep)

Spec == Init /\ [][Next]_vars
LiveSpec == Spec /\ Fairness

-----------------------------------------------------------------------------
(* Properties *)

Labels == {"zero", "publish", "loop", "acquire", "load", "store", "release",
           "wait", "count", "write", "next", "exit"}

\* Type invariant of the kernel's private and shared state.
TypeOK ==
  /\ geo \in Geometries
  /\ cta \in [CTA -> SliceState]
  /\ pc \in [CTA -> Labels]
  /\ acc \in [CTA -> Sum]
  /\ locks \in [Slot -> Int]
  /\ tmp \in [Slot -> Sum]
  /\ out \in [Tiles(geo) -> Sum]

\* Between barrier_acquire and barrier_release a CTA has its lock, its C_tmp
\* slot and its output tile to itself: no other CTA is inside with the same
\* lock, nor with the same tile under another lock.  That holds because two CTAs
\* synchronise through the same lock exactly when they share a tile: a lock shared
\* by two tiles would let a slice of one take the turn of the other's.  And the
\* lock is one the workspace is sure to hold: the host only checks for
\* min(tiles, sms * 4) locks and C_tmp slots (moe_wna16_marlin_gemm).
InBarrier(b) == pc[b] \in {"load", "store", "release"}
Synchronises(b) == pc[b] \notin {"next", "exit"} /\ cta[b].count > 1
LocksGuardTiles ==
  /\ \A a, b \in CTA : a # b /\ InBarrier(a) /\ InBarrier(b) =>
       cta[a].lock # cta[b].lock /\ TileOf(a) # TileOf(b)
  /\ \A a, b \in CTA : Synchronises(a) /\ Synchronises(b) =>
       (cta[a].lock = cta[b].lock <=> TileOf(a) = TileOf(b))
  /\ \A b \in CTA : Synchronises(b) =>
       cta[b].lock \in 0 .. geo.grid - 1 /\ cta[b].lock < GlobalTiles(geo)

\* A launch leaves every lock at 0: the next kernel of the stream is given the
\* same workspace and nobody clears it in between.
WorkspaceClean ==
  (\A b \in CTA : pc[b] = "exit") => \A l \in Slot : locks[l] = 0

\* The reduction order without atomicAdd: the stripes that meet in a tile are
\* added from the bottom of K to the top, then the bias, whatever the
\* interleaving of the CTAs.  No stripe starts inside a quantisation group (the
\* comment at the group rounding): the kernel fetches a group's scales only at
\* the group's start.
ColumnOf(t) == t[1] * geo.nTiles + t[2] - Part1Tiles(geo)
Starts(t) ==
  {0} \cup {x \in 1 .. geo.kTiles - 1 :
             ColumnOf(t) >= 0 /\ (geo.kTiles * ColumnOf(t) + x) % Iters(geo) = 0}
BottomUp(t, sum) ==
  LET n == Len(sum) - 1 IN
  /\ sum[n + 1] = Bias
  /\ {sum[i][1] : i \in 1 .. n} = Starts(t)
  /\ sum[1][2] = geo.kTiles
  /\ \A i \in 1 .. n : sum[i][1] < sum[i][2]
  /\ \A i \in 1 .. n - 1 : sum[i + 1][2] = sum[i][1]
Biased(sum) == \E i \in DOMAIN sum : sum[i] = Bias
FixedReductionOrder ==
  /\ ~geo.atomicAdd =>
       \A t \in Tiles(geo) : Biased(out[t]) => BottomUp(t, out[t])
  /\ geo.groupTiles > 0 /\ geo.kTiles % geo.groupTiles = 0 =>
       \A b \in CTA : cta[b].row % geo.groupTiles = 0

\* With whole_k every tile is reduced by one CTA, over all of K, without the
\* barrier, so its value is the same sum for every grid and batch.
WholeTile == <<<<0, geo.kTiles>>, Bias>>
WholeKUniform ==
  geo.wholeK =>
    /\ \A t \in Tiles(geo) : out[t] \in {<<Stale>>, WholeTile}
    /\ \A b \in CTA : pc[b] \in {"loop", "write", "next", "exit"}

\* A whole_k launch never writes the lock workspace nor C_tmp.
WholeKWorkspaceUntouched ==
  [][geo.wholeK => UNCHANGED <<locks, tmp>>]_vars

\* The launch implements TileGemm: a tile is final when each of its K tiles and
\* the bias have been added once and nothing else has.
Covers(term, k) == term[1] <= k /\ k < term[2]
Final(sum) ==
  /\ \A k \in 0 .. geo.kTiles - 1 :
       Cardinality({i \in DOMAIN sum : Covers(sum[i], k)}) = 1
  /\ Cardinality({i \in DOMAIN sum : sum[i] = Bias}) = 1
  /\ \A i \in DOMAIN sum : sum[i] # Stale /\ sum[i][2] <= geo.kTiles

Gemm == INSTANCE TileGemm WITH
  TileSets <- {Tiles(g) : g \in Geometries},
  tiles    <- Tiles(geo),
  done     <- {t \in Tiles(geo) : Final(out[t])}

\* Every tile of every launch becomes final once, stays so, and all of them are
\* final before the next launch begins.
ImplementsTileGemm == Gemm!Init /\ [][Gemm!Next]_Gemm!vars

\* No interleaving leaves CTAs waiting on each other's locks for ever: every
\* launch comes to its end.
EveryLaunchFinishes == []<>(\A b \in CTA : pc[b] = "exit")
=============================================================================
