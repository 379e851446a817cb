------------------------------- MODULE DiffKV -------------------------------
(***************************************************************************)
(* unified_attention_diffkv and the memory it uses.  A call queues one or   *)
(* two launches on a stream; a 3D launch is a kernel that writes one        *)
(* partial per (scratch row, segment) followed by a reducer that combines   *)
(* them.  The softmax buffers are allocated once and never cleared, so a    *)
(* cell this call has not written holds what an earlier call left there:    *)
(* scratch holds the cells written since the call began, as a function from *)
(* scratch row to segment to partial, and a read of any other cell yields   *)
(* Stale.                                                                   *)
(*                                                                         *)
(* The programs of one kernel run in any order.  Each is a function of the  *)
(* call and of inputs no launch writes, so the order matters only when two  *)
(* programs write the same place; a launch is therefore one step, which     *)
(* counts the writes of each place, and WritesDisjoint says that no place   *)
(* is written twice.                                                        *)
(***************************************************************************)
EXTENDS DiffKVPartition, Sequences, FiniteSets

CONSTANTS
  Calls,     \* the calls an engine may make
  NoCall     \* no call in flight

\* Calls are well formed, and none is NoCall.
ASSUME CallsAssumption == NoCall \notin Calls /\ \A b \in Calls : IsCall(b)

VARIABLES
  call,      \* the call in flight, or NoCall
  queue,     \* kernels left on the stream: <<[kind, launch], ...>>
  scratch,   \* scratch row -> segment -> partial, the cells written so far
  out,       \* query row -> result, the rows written so far
  writes     \* query row -> number of programs that have written it

vars == <<call, queue, scratch, out, writes>>

Stale == [row |-> -1, range |-> <<0, 0>>]

\* A row's result is the way its number was computed: the tile size and, for
\* each segment combined, the partial that was used.  Two results that are
\* equal went through the same floating-point operations in the same order.
Zero == [tile |-> 0, parts |-> <<>>]
Result(tile, parts) == [tile |-> tile, parts |-> parts]

Main(l) == [kind |-> "main", launch |-> l]
Reduction(l) == [kind |-> "reduce", launch |-> l]

Kernels(b) ==
  LET ls == Launches(b) IN
  IF MixedShort(b) THEN <<Main(ls[1]), Main(ls[2]), Reduction(ls[2])>>
  ELSE IF Use3D(b) THEN <<Main(ls[1]), Reduction(ls[1])>>
  ELSE <<Main(ls[1])>>

-----------------------------------------------------------------------------
(* What the programs of a main kernel write.                                *)

\* A lane is the share of one block in one row: its programs, one per segment,
\* answer for position p of the block's sequence.
Lanes(b, l) ==
  UNION {{g} \X BlockPositions(b, l, g) : g \in {h \in Blocks(b, l) : BlockActive(b, l, h)}}

\* The segments whose program does not return early.
LaneSegments(b, l, lane) ==
  LET len == PartitionLen(b, l, BlockSeq(b, l, lane[1]), BlockLocal(b, l, lane[1]))
  IN  {seg \in SegmentsOf(l) : l.split => SegmentRuns(seg, len)}

LaneRow(b, l, lane) == b.cu[BlockSeq(b, l, lane[1])] + lane[2]
LaneScratch(b, l, lane) == ScratchRow(b, l, BlockSeq(b, l, lane[1]), lane[2])

\* What the programs of a lane leave behind: one partial per segment.
Partials(b, l, lane) ==
  [seg \in LaneSegments(b, l, lane) |->
     [row   |-> LaneRow(b, l, lane),
      range |-> TileRange(b, l, BlockSeq(b, l, lane[1]), BlockLocal(b, l, lane[1]), seg)]]

\* The scratch a 3D kernel leaves; should two lanes share a row, one wins.
WrittenScratch(b, l) ==
  LET lanes == Lanes(b, l)
      at(x) == {lane \in lanes : LaneScratch(b, l, lane) = x}
  IN  [x \in {LaneScratch(b, l, lane) : lane \in lanes} |->
         Partials(b, l, CHOOSE lane \in at(x) : TRUE)]

-----------------------------------------------------------------------------
(* What the reducer writes.                                                *)

Combined(b, l, x) ==
  LET len == ReducedLen(b, l, x) IN
  IF ~ (l.mode = 2) /\ x >= RealRows(b) THEN Zero     \* padded query lane
  ELSE IF TilesPerSegment(len) <= 0 THEN Zero         \* empty sequence
  ELSE Result(SplitTile,
         [seg \in SegmentsRead(len) |->
            IF x \in DOMAIN scratch /\ seg \in DOMAIN scratch[x]
            THEN scratch[x][seg] ELSE Stale])

ActiveReducers(b, l) == {x \in ReducerRows(b, l) : ReducerActive(b, l, x)}

-----------------------------------------------------------------------------
Init ==
  /\ call = NoCall
  /\ queue = <<>>
  /\ scratch = <<>>
  /\ out = <<>>
  /\ writes = <<>>

\* The host launches every kernel of the call on the stream.
Call ==
  /\ call = NoCall
  /\ call' \in Calls
  /\ queue' = Kernels(call')
  /\ writes' = [r \in 0 .. Rows(call') - 1 |-> 0]
  /\ UNCHANGED <<scratch, out>>

\* The stream has drained: the partials left in scratch are now stale.
Return ==
  /\ call # NoCall /\ queue = <<>>
  /\ call' = NoCall
  /\ scratch' = <<>>
  /\ out' = <<>>
  /\ writes' = <<>>
  /\ UNCHANGED queue

\* kernel_unified_attention_diffkv with IS_3D: partials go to scratch.  A call
\* has at most one such kernel, so scratch is still empty.
SplitKernel ==
  /\ queue # <<>> /\ Head(queue).kind = "main" /\ Head(queue).launch.split
  /\ scratch' = WrittenScratch(call, Head(queue).launch)
  /\ queue' = Tail(queue)
  /\ UNCHANGED <<call, out, writes>>

\* The same kernel without IS_3D: results go straight to the output.
PlainKernel ==
  /\ queue # <<>> /\ Head(queue).kind = "main" /\ ~ Head(queue).launch.split
  /\ LET l     == Head(queue).launch
         lanes == Lanes(call, l)
         rows  == {LaneRow(call, l, lane) : lane \in lanes}
         by(r) == {lane \in lanes : LaneRow(call, l, lane) = r}
         value(r) == Result(PlainTile, Partials(call, l, CHOOSE lane \in by(r) : TRUE))
     IN  /\ out' = [r \in DOMAIN out \cup rows |->
                      IF r \in rows THEN value(r) ELSE out[r]]
         /\ writes' = [r \in DOMAIN writes |-> writes[r] + Cardinality(by(r))]
  /\ queue' = Tail(queue)
  /\ UNCHANGED <<call, scratch>>

\* kernel_reduce_segments_diffkv.
Reduce ==
  /\ queue # <<>> /\ Head(queue).kind = "reduce"
  /\ LET l     == Head(queue).launch
         xs    == ActiveReducers(call, l)
         rowOf(x) == ReducerRow(call, l, x)
         rows  == {rowOf(x) : x \in xs}
         by(r) == {x \in xs : rowOf(x) = r}
     IN  /\ out' = [r \in DOMAIN out \cup rows |->
                      IF r \in rows THEN Combined(call, l, CHOOSE x \in by(r) : TRUE)
                      ELSE out[r]]
         /\ writes' = [r \in DOMAIN writes |-> writes[r] + Cardinality(by(r))]
  /\ queue' = Tail(queue)
  /\ UNCHANGED <<call, scratch>>

Next == Call \/ Return \/ SplitKernel \/ PlainKernel \/ Reduce

Spec == Init /\ [][Next]_vars

-----------------------------------------------------------------------------
(* Properties.                                                             *)

Finished == call # NoCall /\ queue = <<>>

\* No two programs of a kernel about to run write the same scratch cell: the
\* result does not depend on the order the GPU picks (lines 288-318).
WritesDisjoint ==
  queue # <<>> /\ Head(queue).kind = "main" /\ Head(queue).launch.split =>
    LET l     == Head(queue).launch
        lanes == Lanes(call, l)
    IN  Cardinality({LaneScratch(call, l, lane) : lane \in lanes}) = Cardinality(lanes)

\* Scratch rows stay inside the buffers whatever mix of rows a call brings,
\* so scratch never has to grow with the prefill (lines 538-563).
ScratchInBounds ==
  \A x \in DOMAIN scratch : x \in 0 .. Capacity - 1 /\ DOMAIN scratch[x] \subseteq 0 .. Segs - 1

\* When a call is over every real row has been written by one program, the
\* 2D and the 3D launch of a mixed call dividing the rows between them, and a
\* padding row holds zeros if anything (lines 364-386, 664-668); the probe of mixed
\* calls wants it untouched there.
RowsOnce ==
  Finished =>
    \A r \in 0 .. Rows(call) - 1 :
      IF r < RealRows(call) THEN writes[r] = 1
      ELSE /\ writes[r] <= 1 /\ (r \in DOMAIN out => out[r] = Zero)
           /\ MixedShort(call) => writes[r] = 0

\* The reducer combines only partials the same call wrote for the same row:
\* nothing an earlier call left in the buffers is read (lines 392-433).
NoStalePartial ==
  \A r \in DOMAIN out : \A seg \in DOMAIN out[r].parts : out[r].parts[seg].row = r

\* Sequence i and position p of every real row.
RealPositions == {ip \in (0 .. call.n - 1) \X (0 .. RealRows(call) - 1) :
                    ip[2] < QLen(call, ip[1])}

\* Each row's result uses every key its causal window admits exactly once,
\* whether one program walked them or many (lines 140-152, 212-285).
CausalPrefixOnce ==
  Finished =>
    \A ip \in RealPositions :
      LET res == out[call.cu[ip[1]] + ip[2]]
          keys(seg) == KeysIn(call, ip[1], ip[2], res.tile, res.parts[seg].range)
          segs == DOMAIN res.parts
      IN  /\ VisibleKeys(call, ip[1], ip[2]) = UNION {keys(seg) : seg \in segs}
          /\ \A s1, s2 \in segs : s1 # s2 => keys(s1) \cap keys(s2) = {}

\* The work of a call is divided exactly: scratch cells, output rows and the keys of
\* each row go to one program each, whatever mix of sequences the call brings.
DividedOnce == WritesDisjoint /\ RowsOnce /\ CausalPrefixOnce
=============================================================================
