-------------------------- MODULE DiagnosticsProofs --------------------------
(***************************************************************************)
(* The two diagnostics, for every configuration, every number of requests   *)
(* and every schedule of them.  The sampling trace: the steps a request has *)
(* used up are paid for by its outputs in reach of the window and by chunks *)
(* of preempted requests, so that the budget never closes a window early.   *)
(* The prefill boundaries: wrapping a list of boundaries is undone, binding  *)
(* by binding, by restoring in the opposite order, by induction over the     *)
(* list; and what a capture holds is only ever one call's.                   *)
(***************************************************************************)
EXTENDS PrefillBoundaries, SpecTrace, DataLemmas, SequenceTheorems

-----------------------------------------------------------------------------
(* The inductive invariant of the sampling trace.                            *)

TraceRecords ==
  [config : Configs \cup {Torn}, steps : UNION {[S -> Nat] : S \in SUBSET Req},
   count : Nat, stopped : BOOLEAN]

\* Outputs before o at which a counted step that samples may begin.
UpTo(c, o) ==
  IF o <= c.start - NumDrafts THEN 0
  ELSE IF o <= c.start + c.max THEN o - (c.start - NumDrafts)
  ELSE c.max + NumDrafts
Used(n) == IF n <= MaxChunks THEN n ELSE MaxChunks
Spent(c, o, n) == UpTo(c, o) + Used(n)

InWindow(c, o) == o >= c.start /\ o < c.start + c.max
Reaches(c, w) == Overlaps(c, w.first, w.first + w.rows - 1)
Chunk(w) == ~w.samples /\ w.rows > 0

TraceOK ==
  /\ file \in Configs \cup {Torn} /\ installed \in Configs
  /\ trace \in TraceRecords
  /\ trace.config = Torn => DOMAIN trace.steps = {}
  /\ outs \in [Req -> Nat] /\ chunks \in Nat

RowsOK(w, o) ==
  /\ w.first \in Nat /\ w.rows \in 0 .. NumDrafts + 1 /\ w.samples \in BOOLEAN
  /\ w.samples => w.first = o /\ w.rows >= 1
BatchOK(b, out) ==
  /\ DOMAIN b \subseteq Req /\ DOMAIN b # {}
  /\ \A r \in DOMAIN b : RowsOK(b[r], out[r])
WorkOK == phase \in {"sample", "sampling"} => BatchOK(batch, outs)

\* The steps of a request are paid for: by outputs it had, by chunks, and in a
\* step that samples by the output it is about to get.
Paid(c, k, o, n) == k <= Spent(c, o, n)
PaidAhead(c, k, o, n, b, r) ==
  DOMAIN b = {r} /\ Chunk(b[r]) => k + 1 <= Spent(c, o, n)
PaidSoon(c, k, o, n, b, r) ==
  \/ k <= Spent(c, o, n)
  \/ k <= Spent(c, o, n) + 1 /\ r \in DOMAIN b /\ b[r].samples /\ Reaches(c, b[r])
StepsOK ==
  \A r \in DOMAIN trace.steps :
    LET c == trace.config
        k == trace.steps[r]
    IN  /\ phase = "failed" => k <= c.max + Slack
        /\ phase = "execute" => Paid(c, k, outs[r], chunks)
        /\ phase = "sample" => /\ Paid(c, k, outs[r], chunks)
                               /\ PaidAhead(c, k, outs[r], chunks, batch, r)
        /\ phase = "sampling" => PaidSoon(c, k, outs[r], chunks, batch, r)

\* A context is the one request's of the step, and a lone request's step that
\* samples within reach of the window has one.
Holds(x, b) == DOMAIN b = {x.req} /\ x.rows = b[x.req].rows /\ x.rows > 0
ContextOK ==
  /\ phase \in {"execute", "sample"} => context = NoContext
  /\ phase = "sampling" => context = NoContext \/ Holds(context, batch)
  /\ phase = "sampling" => \A r \in alone \cap DOMAIN batch :
       ~trace.stopped /\ batch[r].samples /\ Reaches(trace.config, batch[r])
         => context # NoContext
AloneOK ==
  phase # "failed" =>
    /\ alone \subseteq DOMAIN trace.steps
    /\ phase \in {"sample", "sampling"} =>
         \A r \in alone \cap DOMAIN batch : DOMAIN batch = {r}

NotYet(e, out) == \A r \in Req, o \in Outputs : o >= out[r] => e[r][o] = 0
Covered(e, out, a, c) ==
  \A r \in a, o \in Outputs : InWindow(c, o) /\ o < out[r] => e[r][o] = 1
EmittedOK ==
  phase # "failed" =>
    /\ emitted \in [Req -> [Outputs -> Nat]]
    /\ NotYet(emitted, outs)
    /\ ~trace.stopped => Covered(emitted, outs, alone, trace.config)

TraceInv ==
  /\ phase \in {"execute", "sample", "sampling", "failed"}
  /\ TraceOK /\ WorkOK /\ StepsOK /\ ContextOK /\ AloneOK /\ EmittedOK

-----------------------------------------------------------------------------
(* The budget.                                                               *)

LEMMA ConfigTypes ==
  ASSUME TraceOK, NEW r \in DOMAIN trace.steps
  PROVE  /\ trace.config \in Configs /\ r \in Req /\ trace.steps[r] \in Nat
         /\ trace.config.start \in Nat /\ trace.config.max \in Nat
<1>1. trace.config \in Configs
  BY Zenon DEF TraceOK, TraceRecords
<1>2. PICK S \in SUBSET Req : trace.steps \in [S -> Nat]
  BY Zenon DEF TraceOK, TraceRecords
<1>. QED
  BY <1>1, <1>2, TraceAssumption

LEMMA SpentTypes ==
  ASSUME NEW c, c.start \in Nat, c.max \in Nat, NEW o \in Nat, NEW n \in Nat
  PROVE  /\ Spent(c, o, n) \in Nat
         /\ Spent(c, o, n) <= c.max + NumDrafts + MaxChunks
         /\ Spent(c, o, n) <= c.max + Slack
BY TraceAssumption, SlackAssumption DEF Spent, UpTo, Used

LEMMA SpentGrows ==
  ASSUME NEW c, c.start \in Nat, c.max \in Nat, NEW o \in Nat, NEW p \in Nat,
         NEW n \in Nat, NEW m \in Nat, o <= p, n <= m
  PROVE  Spent(c, o, n) <= Spent(c, p, m)
BY TraceAssumption DEF Spent, UpTo, Used

\* An output in reach of the window pays for a step, and so does a chunk.
LEMMA SpentSampled ==
  ASSUME NEW c, c.start \in Nat, c.max \in Nat, NEW o \in Nat, NEW p \in Nat,
         NEW n \in Nat, o < p, NEW k \in 1 .. NumDrafts + 1,
         Overlaps(c, o, o + k - 1)
  PROVE  Spent(c, o, n) + 1 <= Spent(c, p, n)
BY TraceAssumption DEF Spent, UpTo, Used, Overlaps

LEMMA SpentChunk ==
  ASSUME NEW c, c.start \in Nat, c.max \in Nat, NEW o \in Nat, NEW n \in Nat,
         n < MaxChunks
  PROVE  Spent(c, o, n) + 1 <= Spent(c, o, n + 1)
BY TraceAssumption DEF Spent, UpTo, Used

-----------------------------------------------------------------------------
(* The trace: registering a request and renewing the trace.                  *)

\* t with request r at step 0.
Registered(u, t, r) ==
  /\ u \in TraceRecords /\ u.config = t.config /\ u.stopped = t.stopped
  /\ DOMAIN u.steps = DOMAIN t.steps \cup {r} /\ u.steps[r] = 0
  /\ \A q \in DOMAIN t.steps \ {r} : u.steps[q] = t.steps[q]

LEMMA RegisterOne ==
  ASSUME NEW t \in TraceRecords, NEW r \in Req, Registers(t, r)
  PROVE  Registered(Register(t, r), t, r)
<1>1. PICK S \in SUBSET Req : t.steps \in [S -> Nat]
  BY Zenon DEF TraceRecords
<1>2. t.count \in Nat /\ t = [config |-> t.config, steps |-> t.steps,
                              count |-> t.count, stopped |-> t.stopped]
  BY DEF TraceRecords
<1> DEFINE u == Register(t, r)
           steps == [q \in DOMAIN t.steps \cup {r} |-> IF q = r THEN 0 ELSE t.steps[q]]
<1>3. u = [config |-> t.config, steps |-> steps, count |-> t.count + 1,
           stopped |-> t.stopped]
  BY <1>2 DEF Register
<1>4. steps \in [S \cup {r} -> Nat] /\ S \cup {r} \in SUBSET Req
  BY <1>1
<1>5. t.config \in Configs \cup {Torn} /\ t.stopped \in BOOLEAN
  BY DEF TraceRecords
<1>6. u.steps = steps /\ u.config = t.config /\ u.stopped = t.stopped
  BY <1>3
<1>7. u \in TraceRecords
  <2>1. steps \in UNION {[T -> Nat] : T \in SUBSET Req}
    BY <1>4
  <2>. QED
    BY <1>2, <1>3, <1>5, <2>1 DEF TraceRecords
<1>. QED
  BY <1>6, <1>7 DEF Registered

\* A renewed trace is empty.
Renews(u) ==
  u \in TraceRecords /\ u.config \in Configs /\ DOMAIN u.steps = {} /\ ~u.stopped

LEMMA NewTraceEmpty ==
  ASSUME NEW c \in Configs
  PROVE  Renews(NewTrace(c))
<1>1. PICK none : none = [r \in {} |-> 0]
  OBVIOUS
<1>2. none \in UNION {[S -> Nat] : S \in SUBSET Req} /\ DOMAIN none = {}
  <2>1. {} \in SUBSET Req
    OBVIOUS
  <2>. QED
    BY <1>1, <2>1
<1>3. [NoTrace EXCEPT !.config = c]
        = [config |-> c, steps |-> none, count |-> 0, stopped |-> FALSE]
  <2>1. PICK d : d = FALSE
    OBVIOUS
  <2>2. PICK t : t = NoTrace
    OBVIOUS
  <2>3. t = [config |-> Torn, steps |-> none, count |-> 0, stopped |-> d]
    BY <1>1, <2>1, <2>2 DEF NoTrace
  <2>4. [t EXCEPT !.config = c]
          = [config |-> c, steps |-> none, count |-> 0, stopped |-> d]
    BY <2>3
  <2>. QED
    BY <2>1, <2>2, <2>4, Zenon
<1>4. NewTrace(c) = [config |-> c, steps |-> none, count |-> 0, stopped |-> FALSE]
  BY <1>3 DEF NewTrace
<1>5. [config |-> c, steps |-> none, count |-> 0, stopped |-> FALSE] \in TraceRecords
  BY <1>2 DEF TraceRecords
<1>6. NewTrace(c) \in TraceRecords
  BY <1>4, <1>5, Zenon
<1>. QED
  BY <1>2, <1>4, <1>6 DEF Renews

LEMMA GetTraceFacts ==
  ASSUME TraceOK, NEW refresh \in BOOLEAN, NEW ok \in BOOLEAN
  PROVE  /\ GetTrace(refresh, ok).trace = trace \/ Renews(GetTrace(refresh, ok).trace)
         /\ refresh /\ ~GetTrace(refresh, ok).raised
              => GetTrace(refresh, ok).trace.config \in Configs
<1> DEFINE c == IF refresh THEN file ELSE installed
           make == IF refresh THEN Renewed(c) ELSE trace = NoTrace
           broken == c = Torn \/ (make /\ (~Valid(c) \/ ~ok))
           g == GetTrace(refresh, ok)
<1>1. g = IF broken THEN [raised |-> TRUE, trace |-> trace]
          ELSE [raised |-> FALSE, trace |-> IF make THEN NewTrace(c) ELSE trace]
  BY Zenon DEF GetTrace
<1>2. c \in Configs \cup {Torn}
  BY DEF TraceOK
<1>3. CASE broken
  <2>1. g = [raised |-> TRUE, trace |-> trace]
    BY <1>1, <1>3
  <2>2. g.raised = TRUE /\ g.trace = trace
    BY <2>1
  <2>. QED
    BY <2>2
<1>4. CASE ~broken
  <2>1. g.trace = IF make THEN NewTrace(c) ELSE trace
    <3>1. g = [raised |-> FALSE, trace |-> IF make THEN NewTrace(c) ELSE trace]
      BY <1>1, <1>4
    <3>. QED
      BY <3>1
  <2>2. c \in Configs
    BY <1>2, <1>4
  <2>3. Renews(NewTrace(c))
    BY <2>2, NewTraceEmpty
  <2>4. ASSUME ~make, refresh PROVE trace.config \in Configs
    BY <2>2, <2>4 DEF Renewed
  <2>5. CASE make
    <3>1. g.trace = NewTrace(c)
      BY <2>1, <2>5
    <3>. QED
      BY <3>1, <2>3 DEF Renews
  <2>6. CASE ~make
    <3>1. g.trace = trace
      BY <2>1, <2>6
    <3>. QED
      BY <3>1, <2>4, <2>6
  <2>. QED
    BY <2>5, <2>6
<1>. QED
  BY <1>3, <1>4

-----------------------------------------------------------------------------
(* The steps.                                                                *)

LEMMA TraceInitInv == TraceInit => TraceInv
<1> SUFFICES ASSUME TraceInit PROVE TraceInv
  OBVIOUS
<1>1. PICK none \in [{} -> Nat] : none = [r \in {} |-> 0]
  OBVIOUS
<1>2. trace = [config |-> Torn, steps |-> none, count |-> 0, stopped |-> FALSE]
  BY <1>1 DEF TraceInit, NoTrace
<1>3. none \in UNION {[S -> Nat] : S \in SUBSET Req} /\ DOMAIN none = {}
  <2>1. {} \in SUBSET Req
    OBVIOUS
  <2>. QED
    BY <1>1, <2>1
<1>4. trace \in TraceRecords /\ DOMAIN trace.steps = {} /\ trace.config = Torn
  BY <1>2, <1>3 DEF TraceRecords
<1>5. TraceOK
  BY <1>4 DEF TraceInit, TraceOK
<1>6. phase = "execute" /\ alone = {} /\ context = NoContext
  BY DEF TraceInit
<1>7. WorkOK /\ StepsOK /\ ContextOK /\ AloneOK
  BY <1>4, <1>6 DEF WorkOK, StepsOK, ContextOK, AloneOK
<1>8. EmittedOK
  BY <1>6 DEF EmittedOK, NotYet, Covered, TraceInit
<1>. QED
  BY <1>5, <1>6, <1>7, <1>8 DEF TraceInv

\* Counting a step of a registered request changes nothing else of the trace.
LEMMA StepCounted ==
  ASSUME TraceOK, NEW r \in DOMAIN trace.steps, trace' = [trace EXCEPT !.steps[r] = @ + 1]
  PROVE  /\ trace' \in TraceRecords /\ trace'.config = trace.config
         /\ trace'.stopped = trace.stopped /\ DOMAIN trace'.steps = DOMAIN trace.steps
         /\ trace'.steps[r] = trace.steps[r] + 1
         /\ \A q \in DOMAIN trace.steps \ {r} : trace'.steps[q] = trace.steps[q]
<1>1. PICK S \in SUBSET Req : trace.steps \in [S -> Nat]
  BY Zenon DEF TraceRecords, TraceOK
<1>2. trace = [config |-> trace.config, steps |-> trace.steps,
               count |-> trace.count, stopped |-> trace.stopped]
  BY DEF TraceRecords, TraceOK
<1>3. PICK n \in Nat : n = trace.steps[r] + 1
  BY <1>1
<1>4. trace' = [config |-> trace.config, steps |-> [trace.steps EXCEPT ![r] = n],
                count |-> trace.count, stopped |-> trace.stopped]
  BY <1>2, <1>3
<1>5. [trace.steps EXCEPT ![r] = n] \in [S -> Nat]
  BY <1>1, <1>3
<1>6. [trace.steps EXCEPT ![r] = n] \in UNION {[T -> Nat] : T \in SUBSET Req}
  BY <1>5
<1>7. trace' \in TraceRecords
  BY <1>4, <1>6 DEF TraceRecords, TraceOK
<1>8. /\ trace'.steps = [trace.steps EXCEPT ![r] = n]
      /\ trace'.config = trace.config /\ trace'.stopped = trace.stopped
  BY <1>4
<1>. QED
  BY <1>1, <1>3, <1>7, <1>8

LEMMA BeginKeeps == TraceInv /\ Begin => TraceInv'
<1> SUFFICES ASSUME TraceInv, Begin PROVE TraceInv'
  OBVIOUS
<1>0. /\ TraceOK /\ BatchOK(batch, outs) /\ StepsOK /\ ContextOK /\ AloneOK /\ EmittedOK
      /\ phase = "sample" /\ phase' = "sampling"
      /\ UNCHANGED <<file, installed, status, outs, batch, failed, emitted, alone,
                     edits, preempts, chunks>>
  BY DEF TraceInv, Begin, WorkOK
<1>c. context = NoContext
  BY <1>0 DEF ContextOK
<1>r. PICK r : r = CHOOSE q \in DOMAIN batch : TRUE
  OBVIOUS
<1> DEFINE first == batch[r].first
           last == first + batch[r].rows - 1
           counts == /\ Traces(trace)
                     /\ Cardinality(DOMAIN batch) = 1
                     /\ r \in DOMAIN trace.steps
                     /\ batch[r].rows > 0
                     /\ Counts(trace, r, first, last)
<1>1. r \in DOMAIN batch /\ r \in Req /\ RowsOK(batch[r], outs[r])
  BY <1>0, <1>r DEF BatchOK
<1>2. WorkOK'
  BY <1>0 DEF WorkOK, BatchOK, RowsOK
<1>4. CASE ~counts
  <2>1. UNCHANGED <<trace, context>>
    BY <1>4, <1>r DEF Begin
  <2>2. TraceOK' /\ AloneOK' /\ EmittedOK'
    BY <1>0, <2>1 DEF TraceOK, AloneOK, EmittedOK, NotYet, Covered
  <2>3. StepsOK'
    <3> SUFFICES ASSUME NEW q \in DOMAIN trace.steps
                 PROVE  PaidSoon(trace.config, trace.steps[q], outs[q], chunks, batch, q)
      BY <1>0, <2>1 DEF StepsOK
    <3>. QED
      BY <1>0 DEF StepsOK, Paid, PaidSoon
  <2>4. ContextOK'
    <3> SUFFICES ASSUME NEW q \in alone \cap DOMAIN batch, ~trace.stopped,
                        batch[q].samples, Reaches(trace.config, batch[q])
                 PROVE  FALSE
      BY <1>0, <1>c, <2>1 DEF ContextOK
    <3>1. DOMAIN batch = {q} /\ q \in DOMAIN trace.steps
      BY <1>0 DEF AloneOK
    <3>2. r = q /\ Cardinality(DOMAIN batch) = 1
      BY <3>1, <1>1, FS_Singleton
    <3>3. batch[q].rows > 0
      BY <1>1, <3>2 DEF RowsOK
    <3>. QED
      BY <1>1, <1>4, <3>1, <3>2, <3>3 DEF Reaches, Counts, Traces
  <2>. QED
    BY <1>0, <1>2, <2>2, <2>3, <2>4 DEF TraceInv
<1>5. CASE counts
  <2>1. /\ trace' = [trace EXCEPT !.steps[r] = @ + 1]
        /\ context' = IF /\ Overlaps(trace.config, first, last)
                         /\ trace'.steps[r] <= trace.config.max + Slack
                      THEN [req |-> r, rows |-> batch[r].rows] ELSE context
    BY <1>5, <1>r, Zenon DEF Begin
  <2>2. DOMAIN batch = {r}
    <3>1. IsFiniteSet(DOMAIN batch)
      BY <1>0, FS_Subset, TraceAssumption DEF BatchOK
    <3>2. PICK x : DOMAIN batch = {x}
      BY <3>1, <1>5, FS_Singleton
    <3>. QED
      BY <3>2, <1>1
  <2>3. /\ trace.config \in Configs /\ trace.steps[r] \in Nat
        /\ trace.config.start \in Nat /\ trace.config.max \in Nat
    BY <1>0, <1>5, ConfigTypes
  <2>4. /\ trace' \in TraceRecords /\ trace'.config = trace.config
        /\ trace'.stopped = trace.stopped /\ DOMAIN trace'.steps = DOMAIN trace.steps
        /\ trace'.steps[r] = trace.steps[r] + 1
        /\ \A q \in DOMAIN trace.steps \ {r} : trace'.steps[q] = trace.steps[q]
    BY <1>0, <1>5, <2>1, StepCounted
  <2>5. TraceOK'
    BY <1>0, <2>4 DEF TraceOK
  <2>6. AloneOK'
    BY <1>0, <2>4 DEF AloneOK
  <2>7. EmittedOK'
    BY <1>0, <2>4 DEF EmittedOK, NotYet, Covered
  <2>8. Reaches(trace.config, batch[r]) /\ Overlaps(trace.config, first, last)
    BY <1>5 DEF Reaches, Counts
  <2>9. StepsOK'
    <3> SUFFICES ASSUME NEW q \in DOMAIN trace.steps
                 PROVE  PaidSoon(trace.config, trace'.steps[q], outs[q], chunks, batch, q)
      BY <1>0, <2>4 DEF StepsOK
    <3>1. /\ Paid(trace.config, trace.steps[q], outs[q], chunks)
          /\ PaidAhead(trace.config, trace.steps[q], outs[q], chunks, batch, q)
      BY <1>0 DEF StepsOK
    <3>2. CASE q # r
      BY <2>4, <3>1, <3>2 DEF Paid, PaidSoon
    <3>3. CASE q = r
      <4>1. Spent(trace.config, outs[r], chunks) \in Nat
        BY <1>0, <1>1, <2>3, SpentTypes DEF TraceOK
      <4>2. batch[r].samples \/ Chunk(batch[r])
        BY <1>5 DEF Chunk
      <4>. QED
        BY <2>2, <2>3, <2>4, <2>8, <3>1, <3>3, <4>1, <4>2, <1>1
        DEF Paid, PaidAhead, PaidSoon
    <3>. QED
      BY <3>2, <3>3
  <2>10. trace'.steps[r] <= trace.config.max + Slack
    <3>1. PaidSoon(trace.config, trace'.steps[r], outs[r], chunks, batch, r)
      BY <1>0, <2>4, <2>9, <1>5 DEF StepsOK
    <3>2. /\ Spent(trace.config, outs[r], chunks) \in Nat
          /\ Spent(trace.config, outs[r], chunks) <= trace.config.max + Slack
      BY <1>0, <1>1, <2>3, SpentTypes DEF TraceOK
    <3>3. ASSUME batch[r].samples
          PROVE  Spent(trace.config, outs[r], chunks) + 1 <= trace.config.max + Slack
      <4>1. /\ Spent(trace.config, outs[r], chunks) + 1
                 <= Spent(trace.config, outs[r] + 1, chunks)
            /\ Spent(trace.config, outs[r] + 1, chunks) <= trace.config.max + Slack
        <5>1. outs[r] \in Nat /\ outs[r] + 1 \in Nat /\ chunks \in Nat
          BY <1>0, <1>1 DEF TraceOK
        <5>2. batch[r].rows \in 1 .. NumDrafts + 1 /\ first = outs[r]
          BY <1>1, <3>3, TraceAssumption DEF RowsOK
        <5>3. Overlaps(trace.config, outs[r], outs[r] + batch[r].rows - 1)
          BY <2>8, <5>2
        <5>4. outs[r] < outs[r] + 1
          BY <5>1
        <5>. QED
          BY <2>3, <5>1, <5>2, <5>3, <5>4, SpentSampled, SpentTypes
      <4>2. PICK later \in Nat : later = Spent(trace.config, outs[r] + 1, chunks)
        <5>1. outs[r] + 1 \in Nat /\ chunks \in Nat
          BY <1>0, <1>1 DEF TraceOK
        <5>. QED
          BY <2>3, <5>1, SpentTypes
      <4>3. PICK now \in Nat : now = Spent(trace.config, outs[r], chunks)
        BY <3>2
      <4>. QED
        BY <4>1, <4>2, <4>3, <2>3, TraceAssumption
    <3>4. PICK k \in Nat : k = trace'.steps[r]
      BY <2>3, <2>4
    <3>. QED
      BY <2>3, <3>1, <3>2, <3>3, <3>4, TraceAssumption DEF PaidSoon
  <2>11. context' = [req |-> r, rows |-> batch[r].rows]
    BY <2>1, <2>8, <2>10
  <2>12. ContextOK'
    <3>1. Holds(context', batch)
      BY <2>2, <2>11, <1>5 DEF Holds
    <3>2. context' # NoContext
      <4>1. context'.rows # 0
        BY <2>11, <1>5, <1>1 DEF RowsOK
      <4>. QED
        BY <4>1 DEF NoContext
    <3>. QED
      BY <1>0, <3>1, <3>2 DEF ContextOK
  <2>. QED
    BY <1>0, <1>2, <2>5, <2>6, <2>7, <2>9, <2>12 DEF TraceInv
<1>. QED
  BY <1>4, <1>5

\* The trace, the requests and the step stay as they are.
LEMMA OutsideKeeps ==
  ASSUME TraceInv,
         file' \in Configs \cup {Torn},
         UNCHANGED <<installed, trace, context, outs, batch, phase, emitted, alone, chunks>>
  PROVE  TraceInv'
<1>1. TraceOK /\ TraceOK'
  BY DEF TraceInv, TraceOK
<1>2. WorkOK' /\ AloneOK' /\ ContextOK'
  BY DEF TraceInv, WorkOK, BatchOK, RowsOK, AloneOK, ContextOK, Holds
<1>3. EmittedOK'
  BY DEF TraceInv, EmittedOK, NotYet, Covered
<1>4. StepsOK'
  BY DEF TraceInv, StepsOK, Paid, PaidAhead, PaidSoon
<1>. QED
  BY <1>1, <1>2, <1>3, <1>4 DEF TraceInv

\* The steps of a failed call are within the budget.
LEMMA SoonWithin ==
  ASSUME TraceInv, phase = "sampling", NEW r \in DOMAIN trace.steps
  PROVE  trace.steps[r] <= trace.config.max + Slack
<1>1. /\ TraceOK /\ BatchOK(batch, outs) /\ trace.config \in Configs /\ r \in Req
      /\ trace.config.start \in Nat /\ trace.config.max \in Nat
      /\ outs[r] \in Nat /\ outs[r] + 1 \in Nat /\ chunks \in Nat
  BY ConfigTypes DEF TraceInv, WorkOK, TraceOK
<1>2. PaidSoon(trace.config, trace.steps[r], outs[r], chunks, batch, r)
  BY DEF TraceInv, StepsOK
<1>3. PICK k \in Nat : k = trace.steps[r]
  BY <1>1, ConfigTypes
<1>4. PICK now \in Nat : now = Spent(trace.config, outs[r], chunks)
  BY <1>1, SpentTypes
<1>5. now <= trace.config.max + Slack
  BY <1>1, <1>4, SpentTypes
<1>6. ASSUME r \in DOMAIN batch, batch[r].samples, Reaches(trace.config, batch[r])
      PROVE  now + 1 <= trace.config.max + Slack
  <2>1. batch[r].rows \in 1 .. NumDrafts + 1 /\ batch[r].first = outs[r]
    BY <1>1, <1>6, TraceAssumption DEF BatchOK, RowsOK
  <2>2. Overlaps(trace.config, outs[r], outs[r] + batch[r].rows - 1)
    BY <1>6, <2>1 DEF Reaches
  <2>3. outs[r] < outs[r] + 1
    BY <1>1
  <2>4. PICK later \in Nat : later = Spent(trace.config, outs[r] + 1, chunks)
    BY <1>1, SpentTypes
  <2>5. now + 1 <= later
    BY <1>1, <1>4, <2>1, <2>2, <2>3, <2>4, SpentSampled
  <2>6. later <= trace.config.max + Slack
    BY <1>1, <2>4, SpentTypes
  <2>. QED
    BY <1>1, <2>5, <2>6, TraceAssumption
<1>. QED
  BY <1>1, <1>2, <1>3, <1>4, <1>5, <1>6, TraceAssumption DEF PaidSoon

\* A begin that raises ends the call; a step is counted only within the budget.
LEMMA BeginRaisesKeeps == TraceInv /\ BeginRaises => TraceInv'
<1> SUFFICES ASSUME TraceInv, BeginRaises PROVE TraceInv'
  OBVIOUS
<1>1. /\ phase = "sample" /\ phase' = "failed" /\ TraceOK /\ StepsOK
      /\ UNCHANGED <<file, installed, context, outs, chunks>>
  BY DEF TraceInv, BeginRaises
<1>2. \A q \in DOMAIN trace.steps : trace.steps[q] <= trace.config.max + Slack
  <2> SUFFICES ASSUME NEW q \in DOMAIN trace.steps
               PROVE  trace.steps[q] <= trace.config.max + Slack
    OBVIOUS
  <2>1. /\ trace.config \in Configs /\ q \in Req /\ trace.steps[q] \in Nat
        /\ trace.config.start \in Nat /\ trace.config.max \in Nat
        /\ outs[q] \in Nat /\ chunks \in Nat
    BY <1>1, ConfigTypes DEF TraceOK
  <2>2. trace.steps[q] <= Spent(trace.config, outs[q], chunks)
    BY <1>1 DEF StepsOK, Paid
  <2>3. PICK now \in Nat : /\ now = Spent(trace.config, outs[q], chunks)
                           /\ now <= trace.config.max + Slack
    BY <2>1, <1>1, SpentTypes DEF TraceOK
  <2>. QED
    BY <2>1, <2>2, <2>3, TraceAssumption
<1>3. CASE UNCHANGED trace
  <2>1. TraceOK' /\ StepsOK'
    BY <1>1, <1>2, <1>3 DEF TraceOK, StepsOK
  <2>. QED
    BY <1>1, <2>1 DEF TraceInv, WorkOK, ContextOK, AloneOK, EmittedOK
<1>4. CASE \E r \in DOMAIN trace.steps : /\ trace.steps[r] < trace.config.max + Slack
                                       /\ trace' = [trace EXCEPT !.steps[r] = @ + 1]
  <2>1. PICK r \in DOMAIN trace.steps : /\ trace.steps[r] < trace.config.max + Slack
                                       /\ trace' = [trace EXCEPT !.steps[r] = @ + 1]
    BY <1>4
  <2>2. /\ trace' \in TraceRecords /\ trace'.config = trace.config
        /\ DOMAIN trace'.steps = DOMAIN trace.steps
        /\ trace'.steps[r] = trace.steps[r] + 1
        /\ \A q \in DOMAIN trace.steps \ {r} : trace'.steps[q] = trace.steps[q]
    BY <1>1, <2>1, StepCounted
  <2>3. TraceOK'
    BY <1>1, <2>2 DEF TraceOK
  <2>4. trace'.steps[r] <= trace.config.max + Slack
    <3>1. trace.steps[r] \in Nat /\ trace.config.max \in Nat
      BY <1>1, ConfigTypes
    <3>. QED
      BY <2>1, <2>2, <3>1, TraceAssumption
  <2>5. StepsOK'
    BY <1>1, <1>2, <2>2, <2>4 DEF StepsOK
  <2>. QED
    BY <1>1, <2>3, <2>5 DEF TraceInv, WorkOK, ContextOK, AloneOK, EmittedOK
<1>. QED
  BY <1>3, <1>4 DEF BeginRaises

LEMMA RaisesKeeps == TraceInv /\ SampleRaises => TraceInv'
<1> SUFFICES ASSUME TraceInv, SampleRaises PROVE TraceInv'
  OBVIOUS
<1>1. /\ phase = "sampling" /\ phase' = "failed" /\ context' = NoContext
      /\ UNCHANGED <<file, installed, trace, outs, chunks>>
  BY DEF SampleRaises
<1>2. TraceOK'
  BY <1>1 DEF TraceInv, TraceOK
<1>3. StepsOK'
  BY <1>1, SoonWithin DEF StepsOK
<1>. QED
  BY <1>1, <1>2, <1>3 DEF TraceInv, WorkOK, ContextOK, AloneOK, EmittedOK

LEMMA EmittedRowsIs ==
  ASSUME NEW first \in Nat, NEW rows \in Nat, NEW n \in Nat, NEW o \in Nat
  PROVE  o \in EmittedRows(first, rows, n)
           <=> first <= o /\ o < first + rows /\ o < first + n
<1>1. ASSUME o \in EmittedRows(first, rows, n)
      PROVE  first <= o /\ o < first + rows /\ o < first + n
  BY <1>1 DEF EmittedRows
<1>2. ASSUME first <= o, o < first + rows, o < first + n
      PROVE  o \in EmittedRows(first, rows, n)
  <2>1. PICK j \in 0 .. (rows - 1) : j = o - first /\ j < n /\ first + j = o
    BY <1>2
  <2>. QED
    BY <2>1 DEF EmittedRows
<1>. QED
  BY <1>1, <1>2

\* The sampled tokens of a step, and what a context writes of them.
Sampled(n) ==
  /\ n \in [DOMAIN batch -> 0 .. (NumDrafts + 1)]
  /\ \A r \in DOMAIN batch :
       n[r] \in IF batch[r].samples THEN 1 .. batch[r].rows ELSE {0}
  /\ outs' = [r \in Req |-> IF r \in DOMAIN batch THEN outs[r] + n[r] ELSE outs[r]]
OnFile(n) ==
  IF context = NoContext THEN {}
  ELSE EmittedRows(batch[context.req].first, context.rows, n[context.req])
Written(n) ==
  [q \in Req |-> [o \in Outputs |->
     IF q = context.req /\ o \in OnFile(n) THEN emitted[q][o] + 1 ELSE emitted[q][o]]]

\* Only outputs that the step sampled are written.
LEMMA OnFileSampled ==
  ASSUME TraceInv, phase = "sampling", NEW n, Sampled(n), NEW o \in Nat,
         o \in OnFile(n)
  PROVE  /\ DOMAIN batch = {context.req} /\ context.req \in Req
         /\ batch[context.req].samples
         /\ outs[context.req] <= o /\ o < outs'[context.req]
<1>1. context # NoContext /\ Holds(context, batch)
  BY DEF TraceInv, ContextOK, OnFile
<1>2. PICK r \in Req : r = context.req
  BY <1>1 DEF Holds, TraceInv, WorkOK, BatchOK
<1>3. DOMAIN batch = {r} /\ context.rows = batch[r].rows /\ RowsOK(batch[r], outs[r])
  BY <1>1, <1>2 DEF Holds, TraceInv, WorkOK, BatchOK
<1>4. /\ batch[r].first \in Nat /\ batch[r].rows \in Nat /\ n[r] \in Nat
      /\ outs[r] \in Nat /\ outs'[r] = outs[r] + n[r]
  BY <1>3, TraceAssumption DEF RowsOK, Sampled, TraceInv, TraceOK
<1>5. /\ batch[r].first <= o /\ o < batch[r].first + batch[r].rows
      /\ o < batch[r].first + n[r]
  <2>1. o \in EmittedRows(batch[r].first, batch[r].rows, n[r])
    BY <1>1, <1>2, <1>3 DEF OnFile
  <2>. QED
    BY <1>4, <2>1, EmittedRowsIs
<1>6. n[r] # 0
  BY <1>4, <1>5
<1>7. batch[r].samples
  BY <1>3, <1>6 DEF Sampled
<1>8. batch[r].first = outs[r]
  BY <1>3, <1>7 DEF RowsOK
<1>. QED
  BY <1>2, <1>3, <1>4, <1>5, <1>7, <1>8

\* What a lone request's step samples in the window is written.
LEMMA SampledOnFile ==
  ASSUME TraceInv, phase = "sampling", NEW n, Sampled(n), ~trace.stopped,
         NEW q \in alone \cap DOMAIN batch, NEW o \in Nat,
         InWindow(trace.config, o), outs[q] <= o, o < outs'[q]
  PROVE  q = context.req /\ o \in OnFile(n)
<1>1. q \in Req /\ DOMAIN batch = {q} /\ RowsOK(batch[q], outs[q])
  BY DEF TraceInv, WorkOK, BatchOK, AloneOK
<1>2. /\ batch[q].first \in Nat /\ batch[q].rows \in Nat /\ n[q] \in Nat
      /\ outs[q] \in Nat /\ outs'[q] = outs[q] + n[q]
  BY <1>1, TraceAssumption DEF RowsOK, Sampled, TraceInv, TraceOK
<1>3. batch[q].samples /\ batch[q].first = outs[q] /\ n[q] <= batch[q].rows
  <2>1. n[q] # 0
    BY <1>2
  <2>2. batch[q].samples
    BY <1>1, <2>1 DEF Sampled
  <2>. QED
    BY <1>1, <1>2, <2>2 DEF RowsOK, Sampled
<1>4. trace.config.start \in Nat /\ trace.config.max \in Nat
  BY ConfigTypes DEF TraceInv, AloneOK
<1>5. Reaches(trace.config, batch[q])
  BY <1>2, <1>3, <1>4 DEF Reaches, Overlaps, InWindow
<1>6. context # NoContext /\ Holds(context, batch)
  BY <1>3, <1>5 DEF TraceInv, ContextOK
<1>7. context.req = q /\ context.rows = batch[q].rows
  BY <1>1, <1>6 DEF Holds
<1>8. o \in EmittedRows(batch[q].first, batch[q].rows, n[q])
  <2>1. batch[q].first <= o /\ o < batch[q].first + batch[q].rows /\ o < batch[q].first + n[q]
    BY <1>2, <1>3
  <2>. QED
    BY <1>2, <2>1, EmittedRowsIs
<1>. QED
  BY <1>6, <1>7, <1>8 DEF OnFile

LEMMA SampleKeeps == TraceInv /\ Sample => TraceInv'
<1> SUFFICES ASSUME TraceInv, Sample PROVE TraceInv'
  OBVIOUS
<1>1. /\ phase = "sampling" /\ context' = NoContext
      /\ UNCHANGED <<file, installed, batch, alone, chunks>>
      /\ TraceOK /\ BatchOK(batch, outs) /\ AloneOK /\ EmittedOK /\ StepsOK
  BY DEF Sample, TraceInv, WorkOK
<1>2. PICK n : /\ Sampled(n)
               /\ \/ phase' = "failed" /\ trace' = trace
                  \/ /\ emitted' = Written(n) /\ phase' = "execute"
                     /\ trace' = trace \/ trace' = [trace EXCEPT !.stopped = TRUE]
  <2>1. PICK n \in [DOMAIN batch -> 0..(NumDrafts + 1)] :
          /\ \A r \in DOMAIN batch :
               n[r] \in IF batch[r].samples THEN 1..batch[r].rows ELSE {0}
          /\ outs' = [r \in Req |-> IF r \in DOMAIN batch THEN outs[r] + n[r] ELSE outs[r]]
          /\ \/ phase' = "failed" /\ UNCHANGED trace
             \/ /\ emitted' = Written(n)
                /\ \E diverged \in {FALSE} \cup {trace.config.reference /\ OnFile(n) # {}} :
                     trace' = Stopped(trace, diverged)
                /\ phase' = "execute"
    BY Zenon DEF Sample, Written, OnFile
  <2>2. Sampled(n)
    BY <2>1, Zenon DEF Sampled
  <2>. QED
    BY <2>1, <2>2 DEF Stopped
<1>3. /\ outs' \in [Req -> Nat]
      /\ \A q \in Req : outs[q] <= outs'[q]
      /\ \A q \in Req : q \notin DOMAIN batch => outs'[q] = outs[q]
      /\ \A q \in DOMAIN batch : q \in Req /\ outs'[q] = outs[q] + n[q] /\ n[q] \in Nat
  BY <1>1, <1>2 DEF Sampled, TraceOK, BatchOK
<1>4. CASE phase' = "failed" /\ trace' = trace
  <2>1. TraceOK'
    BY <1>1, <1>3, <1>4 DEF TraceOK
  <2>2. StepsOK'
    BY <1>1, <1>4, SoonWithin DEF StepsOK
  <2>. QED
    BY <1>1, <1>4, <2>1, <2>2 DEF TraceInv, WorkOK, ContextOK, AloneOK, EmittedOK
<1>5. CASE /\ emitted' = Written(n) /\ phase' = "execute"
           /\ trace' = trace \/ trace' = [trace EXCEPT !.stopped = TRUE]
  <2>1. /\ trace' \in TraceRecords /\ trace'.config = trace.config
        /\ trace'.steps = trace.steps
        /\ ~trace'.stopped => ~trace.stopped
    BY <1>1, <1>5 DEF TraceOK, TraceRecords
  <2>2. TraceOK'
    BY <1>1, <1>3, <2>1 DEF TraceOK
  <2>3. AloneOK' /\ WorkOK' /\ ContextOK'
    BY <1>1, <1>5, <2>1 DEF AloneOK, WorkOK, ContextOK
  <2>4. StepsOK'
    <3> SUFFICES ASSUME NEW r \in DOMAIN trace.steps
                 PROVE  Paid(trace.config, trace.steps[r], outs'[r], chunks)
      BY <1>1, <1>5, <2>1 DEF StepsOK
    <3>1. PaidSoon(trace.config, trace.steps[r], outs[r], chunks, batch, r)
      BY <1>1 DEF StepsOK
    <3>2. /\ r \in Req /\ trace.config.start \in Nat /\ trace.config.max \in Nat
          /\ outs[r] \in Nat /\ outs'[r] \in Nat /\ outs[r] <= outs'[r] /\ chunks \in Nat
      BY <1>1, <1>3, ConfigTypes DEF TraceOK
    <3>3. PICK k \in Nat : k = trace.steps[r]
      BY <1>1, ConfigTypes
    <3>4. PICK now \in Nat : now = Spent(trace.config, outs[r], chunks)
      BY <3>2, SpentTypes
    <3>5. PICK later \in Nat : later = Spent(trace.config, outs'[r], chunks)
      BY <3>2, SpentTypes
    <3>6. now <= later
      BY <3>2, <3>4, <3>5, SpentGrows
    <3>7. ASSUME r \in DOMAIN batch, batch[r].samples, Reaches(trace.config, batch[r])
          PROVE  now + 1 <= later
      <4>1. batch[r].rows \in 1 .. NumDrafts + 1 /\ batch[r].first = outs[r]
        BY <1>1, <3>7, TraceAssumption DEF BatchOK, RowsOK
      <4>2. Overlaps(trace.config, outs[r], outs[r] + batch[r].rows - 1)
        BY <3>7, <4>1 DEF Reaches
      <4>3. outs[r] < outs'[r]
        BY <1>2, <1>3, <3>2, <3>7 DEF Sampled
      <4>. QED
        BY <3>2, <3>4, <3>5, <4>1, <4>2, <4>3, SpentSampled
    <3>. QED
      BY <3>1, <3>3, <3>4, <3>5, <3>6, <3>7 DEF PaidSoon, Paid
  <2>5. Outputs \subseteq Nat
    BY TraceAssumption DEF Outputs
  <2>6. emitted \in [Req -> [Outputs -> Nat]] /\ NotYet(emitted, outs)
    BY <1>1 DEF EmittedOK
  <2>7. /\ Written(n) \in [Req -> [Outputs -> Nat]]
        /\ \A q \in Req, o \in Outputs :
             Written(n)[q][o] = IF q = context.req /\ o \in OnFile(n)
                                THEN emitted[q][o] + 1 ELSE emitted[q][o]
    BY <2>6 DEF Written
  <2>8. NotYet(Written(n), outs')
    <3> SUFFICES ASSUME NEW q \in Req, NEW o \in Outputs, o >= outs'[q]
                 PROVE  Written(n)[q][o] = 0
      BY DEF NotYet
    <3>1. o \in Nat /\ outs[q] \in Nat /\ outs'[q] \in Nat /\ outs[q] <= outs'[q]
      BY <1>1, <1>3, <2>5 DEF TraceOK
    <3>2. emitted[q][o] = 0
      BY <2>6, <3>1 DEF NotYet
    <3>3. ~(q = context.req /\ o \in OnFile(n))
      BY <1>1, <1>2, <3>1, OnFileSampled
    <3>. QED
      BY <2>7, <3>2, <3>3
  <2>9. ~trace.stopped => Covered(Written(n), outs', alone, trace.config)
    <3> SUFFICES ASSUME ~trace.stopped, NEW q \in alone, NEW o \in Outputs,
                        InWindow(trace.config, o), o < outs'[q]
                 PROVE  Written(n)[q][o] = 1
      BY DEF Covered
    <3>1. q \in Req
      BY <1>1, ConfigTypes DEF AloneOK
    <3>2. o \in Nat /\ outs[q] \in Nat /\ outs'[q] \in Nat
      BY <1>1, <1>3, <2>5, <3>1 DEF TraceOK
    <3>3. CASE o < outs[q]
      <4>1. emitted[q][o] = 1
        BY <1>1, <3>3 DEF EmittedOK, Covered
      <4>2. ~(q = context.req /\ o \in OnFile(n))
        BY <1>1, <1>2, <3>2, <3>3, OnFileSampled
      <4>. QED
        BY <2>7, <3>1, <4>1, <4>2
    <3>4. CASE outs[q] <= o
      <4>1. q \in DOMAIN batch
        BY <1>3, <3>1, <3>2, <3>4
      <4>2. q = context.req /\ o \in OnFile(n)
        BY <1>1, <1>2, <3>2, <3>4, <4>1, SampledOnFile
      <4>3. emitted[q][o] = 0
        BY <2>6, <3>1, <3>2, <3>4 DEF NotYet
      <4>. QED
        BY <2>7, <3>1, <4>2, <4>3
    <3>. QED
      BY <3>2, <3>3, <3>4
  <2>10. EmittedOK'
    <3>1. emitted' = Written(n) /\ alone' = alone
      BY <1>1, <1>5
    <3>2. Covered(Written(n), outs', alone, trace.config)
            => Covered(emitted', outs', alone', trace'.config)
      BY <2>1, <3>1
    <3>. QED
      BY <2>1, <2>7, <2>8, <2>9, <3>1, <3>2 DEF EmittedOK
  <2>. QED
    BY <1>5, <2>2, <2>3, <2>4, <2>10 DEF TraceInv
<1>. QED
  BY <1>2, <1>4, <1>5

\* A step that executes: the trace to use, who is registered and who is run.
Fresh(new, g) == {r \in new : outs[r] = 0 /\ Registers(g.trace, r)}
Now(g, f) ==
  IF f = {} THEN g.trace ELSE Register(g.trace, CHOOSE r \in f : TRUE)
Running(new) == {r \in Req : status[r] \in Live} \cup new
Resumed(new) == {r \in Running(new) : status[r] \in {"preempted", "resumed"}}

RunsOf(new, b) ==
  \E S \in SUBSET Running(new) : S # {} /\ new \subseteq S /\
    b \in {f \in [S -> UNION {Work(r, r \in Resumed(new)) : r \in S}] :
             \A r \in S : f[r] \in Work(r, r \in Resumed(new))}

Executed(new, ok, g, f) ==
  IF g.raised \/ (f # {} /\ ~ok)
  THEN /\ trace' = IF g.raised THEN trace ELSE Now(g, f)
       /\ phase' = "failed"
       /\ UNCHANGED <<batch, alone, emitted, chunks>>
  ELSE /\ trace' = Now(g, f)
       /\ RunsOf(new, batch')
       /\ chunks' = chunks + Cardinality({r \in DOMAIN batch' \cap Resumed(new) :
                                            ~batch'[r].samples})
       /\ alone' = ((IF g.trace # trace THEN {} ELSE alone) \cup f)
                      \ (IF Cardinality(DOMAIN batch') = 1 THEN {} ELSE DOMAIN batch')
       /\ emitted' = IF g.trace # trace THEN [r \in Req |-> [o \in Outputs |-> 0]]
                     ELSE emitted
       /\ phase' = "sample"

LEMMA WorkIs ==
  ASSUME TraceOK, NEW r \in Req, NEW resumed \in BOOLEAN, NEW w \in Work(r, resumed)
  PROVE  /\ RowsOK(w, outs[r])
         /\ Chunk(w) => resumed /\ chunks < MaxChunks /\ outs[r] # 0
<1>1. outs[r] \in Nat /\ NumDrafts \in Nat
  BY TraceAssumption DEF TraceOK
<1>2. ASSUME NEW d \in 0 .. NumDrafts, w = Sampling(r, d)
      PROVE  RowsOK(w, outs[r]) /\ ~Chunk(w)
  BY <1>1, <1>2 DEF Sampling, RowsOK, Chunk
<1>3. ASSUME w = NoRows
      PROVE  RowsOK(w, outs[r]) /\ ~Chunk(w)
  BY <1>1, <1>3 DEF NoRows, RowsOK, Chunk
<1>4. ASSUME NEW o \in 0 .. (outs[r] - 1), w = [first |-> o, rows |-> 1, samples |-> FALSE]
      PROVE  RowsOK(w, outs[r]) /\ outs[r] # 0
  BY <1>1, <1>4 DEF RowsOK
<1>5. CASE ~resumed
  <2>1. w = NoRows \/ \E d \in 0 .. NumDrafts : w = Sampling(r, d)
    <3>1. 0 \in 0 .. NumDrafts
      BY <1>1
    <3>. QED
      BY <1>5, <3>1 DEF Work
  <2>. QED
    BY <1>2, <1>3, <2>1
<1>6. CASE resumed
  <2>1. w = Sampling(r, 0) \/ (chunks < MaxChunks /\ w \in Chunks(r))
    BY <1>6 DEF Work
  <2>2. 0 \in 0 .. NumDrafts
    BY <1>1
  <2>3. CASE w = Sampling(r, 0)
    BY <1>2, <2>2, <2>3
  <2>4. CASE chunks < MaxChunks /\ w \in Chunks(r)
    <3>1. w = NoRows \/ \E o \in 0 .. (outs[r] - 1) :
            w = [first |-> o, rows |-> 1, samples |-> FALSE]
      BY <2>4 DEF Chunks
    <3>. QED
      BY <1>3, <1>4, <1>6, <2>4, <3>1
  <2>. QED
    BY <2>1, <2>3, <2>4
<1>. QED
  BY <1>5, <1>6

LEMMA ExecuteIs ==
  ASSUME TraceInv, Execute
  PROVE  \E new \in SUBSET Req, ok \in BOOLEAN :
           /\ new = {} \/ \E r \in Req : new = {r}
           /\ Executed(new, ok, GetTrace(new # {}, ok), Fresh(new, GetTrace(new # {}, ok)))
<1>1. PICK new \in {{}} \cup {{r} : r \in {q \in Req : status[q] \in {"new", "preempted"}}} :
      \E ok \in BOOLEAN :
         LET g == GetTrace(new # {}, ok)
             f == Fresh(new, g)
         IN  /\ status' = [r \in Req |-> IF r \in Resumed(new) THEN "resumed"
                                         ELSE IF r \in new THEN "running" ELSE status[r]]
             /\ IF g.raised \/ (f # {} /\ ~ok)
                THEN /\ trace' = IF g.raised THEN trace ELSE Now(g, f)
                     /\ failed' = "trace" /\ phase' = "failed"
                     /\ UNCHANGED <<batch, alone, emitted, chunks>>
                ELSE /\ trace' = Now(g, f)
                     /\ RunsOf(new, batch')
                     /\ chunks' = chunks + Cardinality({r \in DOMAIN batch' \cap Resumed(new) :
                                                          ~batch'[r].samples})
                     /\ alone' = ((IF g.trace # trace THEN {} ELSE alone) \cup f)
                                    \ (IF Cardinality(DOMAIN batch') = 1 THEN {} ELSE DOMAIN batch')
                     /\ emitted' = IF g.trace # trace THEN [r \in Req |-> [o \in Outputs |-> 0]] ELSE emitted
                     /\ phase' = "sample"
                     /\ UNCHANGED failed
  BY Zenon DEF Execute, Fresh, Now, Running, Resumed, RunsOf
<1>2. PICK ok \in BOOLEAN :
        Executed(new, ok, GetTrace(new # {}, ok), Fresh(new, GetTrace(new # {}, ok)))
  BY <1>1, Zenon DEF Executed
<1>3. new \in SUBSET Req /\ (new = {} \/ \E r \in Req : new = {r})
  OBVIOUS
<1>. QED
  BY <1>2, <1>3

\* The trace a step executes with: renewed or as it was, with a fresh request at 0.
Starts(t, g, f) ==
  /\ t \in TraceRecords /\ t.config = g.trace.config /\ t.stopped = g.trace.stopped
  /\ DOMAIN t.steps = DOMAIN g.trace.steps \cup f
  /\ \A r \in DOMAIN t.steps :
       \/ r \in f /\ t.steps[r] = 0
       \/ r \notin f /\ g.trace = trace /\ r \in DOMAIN trace.steps
            /\ t.steps[r] = trace.steps[r]

LEMMA NowStarts ==
  ASSUME TraceOK, NEW g, g.trace = trace \/ Renews(g.trace),
         NEW f, f = {} \/ \E r \in Req : f = {r},
         \A r \in f : Registers(g.trace, r)
  PROVE  Starts(Now(g, f), g, f)
<1>1. g.trace \in TraceRecords
  BY DEF TraceOK, Renews
<1>2. ASSUME NEW r \in DOMAIN g.trace.steps PROVE g.trace = trace
  BY DEF Renews
<1>3. CASE f = {}
  <2>1. Now(g, f) = g.trace
    BY <1>3 DEF Now
  <2>. QED
    BY <1>1, <1>2, <1>3, <2>1 DEF Starts
<1>4. CASE f # {}
  <2>1. PICK r \in Req : f = {r} /\ r = CHOOSE q \in f : TRUE
    BY <1>4
  <2>2. PICK u : u = Register(g.trace, r)
    OBVIOUS
  <2>3. Registered(u, g.trace, r)
    BY <1>1, <2>1, <2>2, RegisterOne
  <2>4. Now(g, f) = u
    BY <1>4, <2>1, <2>2 DEF Now
  <2>5. Starts(u, g, f)
    <3>1. ASSUME NEW q \in DOMAIN u.steps
          PROVE  \/ q \in f /\ u.steps[q] = 0
                 \/ q \notin f /\ g.trace = trace /\ q \in DOMAIN trace.steps
                      /\ u.steps[q] = trace.steps[q]
      <4>1. CASE q = r
        BY <2>1, <2>3, <4>1 DEF Registered
      <4>2. CASE q # r
        <5>1. q \in DOMAIN g.trace.steps /\ u.steps[q] = g.trace.steps[q]
          BY <2>3, <4>2 DEF Registered
        <5>2. g.trace = trace
          BY <5>1, <1>2
        <5>. QED
          BY <2>1, <4>2, <5>1, <5>2
      <4>. QED
        BY <4>1, <4>2
    <3>. QED
      BY <2>1, <2>3, <3>1 DEF Starts, Registered
  <2>. QED
    BY <2>4, <2>5
<1>. QED
  BY <1>3, <1>4

\* The chunks of a step that runs one of them alone.
LEMMA LoneChunk ==
  ASSUME NEW b, NEW res, NEW r, DOMAIN b = {r}, Chunk(b[r]), r \in res
  PROVE  Cardinality({q \in DOMAIN b \cap res : ~b[q].samples}) = 1
<1>1. {q \in DOMAIN b \cap res : ~b[q].samples} = {r}
  BY DEF Chunk
<1>. QED
  BY <1>1, FS_Singleton

LEMMA ExecuteKeeps == TraceInv /\ Execute => TraceInv'
<1> SUFFICES ASSUME TraceInv, Execute PROVE TraceInv'
  OBVIOUS
<1>1. PICK new \in SUBSET Req, ok \in BOOLEAN :
        /\ new = {} \/ \E r \in Req : new = {r}
        /\ Executed(new, ok, GetTrace(new # {}, ok), Fresh(new, GetTrace(new # {}, ok)))
  BY ExecuteIs
<1>2. PICK g : g = GetTrace(new # {}, ok)
  OBVIOUS
<1>3. PICK f : f = Fresh(new, g)
  OBVIOUS
<1>4. Executed(new, ok, g, f)
  BY <1>1, <1>2, <1>3
<1>5. /\ phase = "execute" /\ UNCHANGED <<file, installed, context, outs>>
      /\ TraceOK /\ StepsOK /\ AloneOK /\ EmittedOK /\ context = NoContext
  BY DEF Execute, TraceInv, ContextOK
<1>6. /\ f \subseteq new /\ (f = {} \/ \E r \in Req : f = {r})
      /\ \A r \in f : r \in Req /\ outs[r] = 0 /\ Registers(g.trace, r)
  BY <1>1, <1>3 DEF Fresh
<1>7. /\ g.trace = trace \/ Renews(g.trace)
      /\ new # {} /\ ~g.raised => g.trace.config \in Configs
  BY <1>2, <1>5, GetTraceFacts
<1>8. PICK t : t = Now(g, f)
  OBVIOUS
<1>9. Starts(t, g, f)
  BY <1>5, <1>6, <1>7, <1>8, NowStarts
<1>10. ASSUME ~g.raised, trace' = t
       PROVE  TraceOK'
  <2>1. ASSUME t.config = Torn PROVE DOMAIN t.steps = {}
    <3>1. f = {}
      BY <1>6, <1>7, <1>9, <1>10, <2>1, TraceAssumption DEF Starts
    <3>2. DOMAIN g.trace.steps = {}
      BY <1>5, <1>7, <1>9, <2>1, TraceAssumption DEF Starts, Renews, TraceOK
    <3>. QED
      BY <1>9, <3>1, <3>2 DEF Starts
  <2>2. chunks' \in Nat
    <3>1. CASE chunks' = chunks
      BY <1>5, <3>1 DEF TraceOK
    <3>2. CASE /\ RunsOf(new, batch')
               /\ chunks' = chunks + Cardinality({r \in DOMAIN batch' \cap Resumed(new) :
                                                    ~batch'[r].samples})
      <4>1. DOMAIN batch' \subseteq Req
        BY <3>2, <1>1 DEF RunsOf, Running
      <4>2. PICK C : C = {r \in DOMAIN batch' \cap Resumed(new) : ~batch'[r].samples}
        OBVIOUS
      <4>3. C \subseteq Req
        BY <4>1, <4>2
      <4>4. Cardinality(C) \in Nat
        BY <4>3, FS_Subset, FS_CardinalityType, TraceAssumption
      <4>. QED
        BY <1>5, <3>2, <4>2, <4>4 DEF TraceOK
    <3>. QED
      BY <1>4, <3>1, <3>2 DEF Executed
  <2>. QED
    BY <1>5, <1>9, <1>10, <2>1, <2>2 DEF TraceOK, Starts
<1>11. ASSUME NEW r \in f, ~g.raised PROVE t.config \in Configs
  BY <1>6, <1>7, <1>9, <1>11 DEF Starts
<1>12. CASE g.raised \/ (f # {} /\ ~ok)
  <2>1. phase' = "failed" /\ chunks' = chunks
    BY <1>4, <1>12 DEF Executed
  <2>2. ASSUME NEW r \in DOMAIN trace.steps
        PROVE  trace.steps[r] <= trace.config.max + Slack
    <3>1. /\ trace.config.start \in Nat /\ trace.config.max \in Nat /\ r \in Req
      BY <1>5, ConfigTypes
    <3>2. PICK k \in Nat : k = trace.steps[r]
      BY <1>5, ConfigTypes
    <3>3. outs[r] \in Nat /\ chunks \in Nat
      BY <1>5, <3>1 DEF TraceOK
    <3>4. PICK s \in Nat : s = Spent(trace.config, outs[r], chunks) /\ s <= trace.config.max + Slack
      BY <3>1, <3>3, SpentTypes
    <3>5. k <= s
      BY <1>5, <3>2, <3>4 DEF StepsOK, Paid
    <3>. QED
      BY <3>1, <3>2, <3>4, <3>5, TraceAssumption
  <2>3. TraceOK' /\ StepsOK'
    <3>1. CASE g.raised
      <4>1. trace' = trace
        BY <1>4, <1>12, <3>1 DEF Executed
      <4>2. TraceOK'
        BY <1>5, <2>1, <4>1 DEF TraceOK
      <4>3. StepsOK'
        BY <2>1, <2>2, <4>1 DEF StepsOK
      <4>. QED
        BY <4>2, <4>3
    <3>2. CASE ~g.raised
      <4>1. trace' = t
        BY <1>4, <1>8, <1>12, <3>2 DEF Executed
      <4>2. TraceOK'
        BY <1>10, <3>2, <4>1
      <4>3. ASSUME NEW r \in DOMAIN t.steps PROVE t.steps[r] <= t.config.max + Slack
        <5>1. CASE r \in f
          <6>1. t.steps[r] = 0 /\ t.config.max \in Nat
            BY <1>9, <1>11, <3>2, <5>1, TraceAssumption DEF Starts
          <6>. QED
            BY <6>1, TraceAssumption
        <5>2. CASE r \notin f
          BY <1>9, <2>2, <5>2 DEF Starts
        <5>. QED
          BY <5>1, <5>2
      <4>4. StepsOK'
        BY <2>1, <4>1, <4>3 DEF StepsOK
      <4>. QED
        BY <4>2, <4>4
    <3>. QED
      BY <3>1, <3>2
  <2>. QED
    BY <2>1, <2>3 DEF TraceInv, WorkOK, ContextOK, AloneOK, EmittedOK
<1>13. CASE ~(g.raised \/ (f # {} /\ ~ok))
  <2>1. /\ trace' = t /\ phase' = "sample"
        /\ RunsOf(new, batch')
        /\ chunks' = chunks + Cardinality({r \in DOMAIN batch' \cap Resumed(new) :
                                             ~batch'[r].samples})
        /\ alone' = ((IF g.trace # trace THEN {} ELSE alone) \cup f)
                      \ (IF Cardinality(DOMAIN batch') = 1 THEN {} ELSE DOMAIN batch')
        /\ emitted' = IF g.trace # trace THEN [r \in Req |-> [o \in Outputs |-> 0]]
                      ELSE emitted
    BY <1>4, <1>8, <1>13, Zenon DEF Executed
  <2>2. TraceOK'
    BY <1>10, <1>13, <2>1
  <2>3. /\ DOMAIN batch' \subseteq Req /\ DOMAIN batch' # {}
        /\ \A r \in DOMAIN batch' : batch'[r] \in Work(r, r \in Resumed(new))
    BY <1>1, <2>1 DEF RunsOf, Running
  <2>4. ASSUME NEW r \in DOMAIN batch'
        PROVE  /\ RowsOK(batch'[r], outs[r])
               /\ Chunk(batch'[r]) => r \in Resumed(new) /\ chunks < MaxChunks /\ outs[r] # 0
    <3>1. PICK resumed \in BOOLEAN : resumed <=> r \in Resumed(new)
      OBVIOUS
    <3>2. PICK w : w = batch'[r]
      OBVIOUS
    <3>3. w \in Work(r, resumed) /\ r \in Req
      <4>1. w \in Work(r, r \in Resumed(new))
        BY <2>3, <3>2
      <4>2. resumed = (r \in Resumed(new))
        BY <3>1
      <4>. QED
        BY <2>3, <4>1, <4>2
    <3>. QED
      BY <1>5, <3>1, <3>2, <3>3, WorkIs
  <2>5. BatchOK(batch', outs)
    BY <2>3, <2>4 DEF BatchOK
  <2>6. WorkOK'
    <3>1. BatchOK(batch', outs')
      BY <1>5, <2>5
    <3>. QED
      BY <3>1 DEF WorkOK, BatchOK, RowsOK
  <2>7. chunks \in Nat /\ chunks' \in Nat /\ chunks <= chunks'
    <3>1. PICK C : C = {r \in DOMAIN batch' \cap Resumed(new) : ~batch'[r].samples}
      OBVIOUS
    <3>2. C \subseteq Req
      BY <2>3, <3>1
    <3>3. Cardinality(C) \in Nat
      BY <3>2, FS_Subset, FS_CardinalityType, TraceAssumption
    <3>. QED
      BY <1>5, <2>1, <3>1, <3>3 DEF TraceOK
  <2>8. StepsOK'
    <3> SUFFICES ASSUME NEW r \in DOMAIN t.steps
                 PROVE  /\ Paid(t.config, t.steps[r], outs[r], chunks')
                        /\ PaidAhead(t.config, t.steps[r], outs[r], chunks', batch', r)
      <4>1. phase' = "sample" /\ trace' = t /\ outs' = outs
        BY <1>5, <2>1
      <4>. QED
        BY <4>1 DEF StepsOK
    <3>0. /\ t.config.start \in Nat /\ t.config.max \in Nat /\ r \in Req
          /\ outs[r] \in Nat /\ t.steps[r] \in Nat
      <4>1. trace' = t /\ outs' = outs
        BY <1>5, <2>1
      <4>2. t.config \in Configs
        BY <2>2, <4>1 DEF TraceOK, TraceRecords
      <4>3. r \in Req /\ t.steps[r] \in Nat
        <5>1. PICK S \in SUBSET Req : t.steps \in [S -> Nat]
          BY <1>9 DEF Starts, TraceRecords
        <5>. QED
          BY <5>1
      <4>. QED
        BY <1>5, <4>2, <4>3, TraceAssumption DEF TraceOK
    <3>1. PICK later \in Nat : later = Spent(t.config, outs[r], chunks')
      BY <2>7, <3>0, SpentTypes
    <3>2. PICK now \in Nat : now = Spent(t.config, outs[r], chunks)
      BY <2>7, <3>0, SpentTypes
    <3>3. now <= later
      <4>1. outs[r] <= outs[r]
        BY <3>0
      <4>. QED
        BY <2>7, <3>0, <3>1, <3>2, <4>1, SpentGrows
    <3>4. t.steps[r] <= now
      <4>1. CASE r \in f
        <5>1. t.steps[r] = 0
          BY <1>9, <4>1 DEF Starts
        <5>. QED
          BY <3>2, <5>1
      <4>2. CASE r \notin f
        <5>1. /\ g.trace = trace /\ r \in DOMAIN trace.steps /\ t.steps[r] = trace.steps[r]
              /\ t.config = trace.config
          BY <1>9, <4>2 DEF Starts
        <5>2. Paid(trace.config, trace.steps[r], outs[r], chunks)
          BY <1>5, <5>1 DEF StepsOK
        <5>. QED
          BY <3>2, <5>1, <5>2 DEF Paid
      <4>. QED
        BY <4>1, <4>2
    <3>5. ASSUME DOMAIN batch' = {r}, Chunk(batch'[r])
          PROVE  now + 1 <= later
      <4>1. r \in Resumed(new) /\ chunks < MaxChunks
        BY <2>4, <3>5
      <4>2. PICK b : b = batch'
        OBVIOUS
      <4>3. Cardinality({q \in DOMAIN b \cap Resumed(new) : ~b[q].samples}) = 1
        BY <3>5, <4>1, <4>2, LoneChunk
      <4>4. chunks' = chunks + 1
        BY <2>1, <4>2, <4>3
      <4>. QED
        BY <2>7, <3>0, <3>1, <3>2, <4>1, <4>4, SpentChunk
    <3>. QED
      BY <3>0, <3>1, <3>2, <3>3, <3>4, <3>5 DEF Paid, PaidAhead
  <2>9. ASSUME NEW r \in alone'
        PROVE  /\ r \in f \/ (r \in alone /\ g.trace = trace)
               /\ r \in DOMAIN batch' => DOMAIN batch' = {r}
    <3>1. ASSUME r \in DOMAIN batch' PROVE DOMAIN batch' = {r}
      <4>1. Cardinality(DOMAIN batch') = 1
        BY <2>1, <2>9, <3>1
      <4>2. IsFiniteSet(DOMAIN batch')
        BY <2>3, FS_Subset, TraceAssumption
      <4>3. PICK x : DOMAIN batch' = {x}
        BY <4>1, <4>2, FS_Singleton
      <4>. QED
        BY <3>1, <4>3
    <3>. QED
      BY <2>1, <2>9, <3>1
  <2>10. AloneOK'
    <3>1. ASSUME NEW r \in alone' PROVE r \in DOMAIN t.steps
      BY <1>5, <1>9, <2>9 DEF AloneOK, Starts
    <3>2. trace' = t
      BY <2>1
    <3>. QED
      BY <2>9, <3>1, <3>2 DEF AloneOK
  <2>11. EmittedOK'
    <3>1. Outputs \subseteq Nat
      BY TraceAssumption DEF Outputs
    <3>2. outs' = outs /\ trace' = t /\ outs \in [Req -> Nat]
      BY <1>5, <2>1 DEF TraceOK
    <3>3. CASE g.trace # trace
      <4>1. emitted' = [r \in Req |-> [o \in Outputs |-> 0]]
        BY <2>1, <3>3
      <4>2. emitted' \in [Req -> [Outputs -> Nat]] /\ NotYet(emitted', outs)
        BY <4>1 DEF NotYet
      <4>3. Covered(emitted', outs, alone', t.config)
        <5> SUFFICES ASSUME NEW r \in alone', NEW o \in Outputs, o < outs[r]
                     PROVE  FALSE
          BY DEF Covered
        <5>1. outs[r] = 0
          BY <1>6, <2>9, <3>3
        <5>2. o \in Nat
          BY <3>1
        <5>. QED
          BY <5>1, <5>2
      <4>. QED
        BY <3>2, <4>2, <4>3 DEF EmittedOK
    <3>4. CASE g.trace = trace
      <4>1. emitted' = emitted
        BY <2>1, <3>4
      <4>2. t.config = trace.config /\ t.stopped = trace.stopped
        BY <1>9, <3>4 DEF Starts
      <4>3. emitted \in [Req -> [Outputs -> Nat]] /\ NotYet(emitted, outs)
        BY <1>5 DEF EmittedOK
      <4>4. ~trace.stopped => Covered(emitted, outs, alone', trace.config)
        <5> SUFFICES ASSUME ~trace.stopped, NEW r \in alone', NEW o \in Outputs,
                            InWindow(trace.config, o), o < outs[r]
                     PROVE  emitted[r][o] = 1
          BY DEF Covered
        <5>1. r \notin f
          BY <1>6, <3>1
        <5>. QED
          BY <1>5, <2>9, <5>1 DEF EmittedOK, Covered
      <4>. QED
        BY <3>2, <4>1, <4>2, <4>3, <4>4 DEF EmittedOK
    <3>. QED
      BY <3>3, <3>4
  <2>12. ContextOK'
    BY <1>5, <2>1 DEF ContextOK
  <2>. QED
    BY <2>1, <2>2, <2>6, <2>8, <2>10, <2>11, <2>12 DEF TraceInv
<1>. QED
  BY <1>12, <1>13

-----------------------------------------------------------------------------
(* The theorem.                                                              *)

LEMMA TraceInvHolds == TraceSpec => []TraceInv
<1>1. TraceInv /\ [TraceNext]_traceVars => TraceInv'
  <2> SUFFICES ASSUME TraceInv, [TraceNext]_traceVars PROVE TraceInv'
    OBVIOUS
  <2>1. CASE Edit
    <3>1. file' \in Configs \cup {Torn}
      BY <2>1 DEF Edit
    <3>. QED
      BY <2>1, <3>1, OutsideKeeps DEF Edit
  <2>2. CASE Preempt
    <3>1. file' \in Configs \cup {Torn}
      BY <2>2 DEF Preempt, TraceInv, TraceOK
    <3>. QED
      BY <2>2, <3>1, OutsideKeeps DEF Preempt
  <2>3. CASE UNCHANGED traceVars
    <3>1. file' \in Configs \cup {Torn}
      BY <2>3 DEF traceVars, TraceInv, TraceOK
    <3>. QED
      BY <2>3, <3>1, OutsideKeeps DEF traceVars
  <2>. QED
    BY <2>1, <2>2, <2>3, ExecuteKeeps, BeginKeeps, BeginRaisesKeeps, RaisesKeeps, SampleKeeps
       DEF TraceNext
<1>. QED
  BY TraceInitInv, <1>1, PTL DEF TraceSpec

\* The trace of a request that ran alone has every output of its window on file
\* exactly once and none that was not sampled, and the step budget of
\* _TraceContext never ends a window early: for every configuration, with any
\* number of drafts, preemptions and edits of the file, as long as the budget's
\* slack covers the drafts and the chunks.
THEOREM WindowAlwaysCovered == TraceSpec => []WindowCovered
<1>1. TraceInv => WindowCovered
  <2> SUFFICES ASSUME TraceInv PROVE WindowCovered
    OBVIOUS
  <2>1. TraceOK /\ StepsOK /\ EmittedOK /\ AloneOK
    BY DEF TraceInv
  <2>2. ASSUME NEW r \in DOMAIN trace.steps
        PROVE  trace.steps[r] <= trace.config.max + Slack
    <3>1. /\ trace.config.start \in Nat /\ trace.config.max \in Nat /\ r \in Req
          /\ outs[r] \in Nat /\ chunks \in Nat
      BY <2>1, ConfigTypes DEF TraceOK
    <3>2. PICK k \in Nat : k = trace.steps[r]
      BY <2>1, ConfigTypes
    <3>3. PICK s \in Nat : s = Spent(trace.config, outs[r], chunks) /\ s <= trace.config.max + Slack
      BY <3>1, SpentTypes
    <3>4. CASE phase = "sampling"
      BY <3>4, SoonWithin
    <3>5. CASE phase \in {"execute", "sample"}
      <4>1. k <= s
        BY <2>1, <3>2, <3>3, <3>5 DEF StepsOK, Paid
      <4>. QED
        BY <3>1, <3>2, <3>3, <4>1, TraceAssumption
    <3>6. CASE phase = "failed"
      BY <2>1, <3>6 DEF StepsOK
    <3>7. phase \in {"execute", "sample", "sampling", "failed"}
      BY DEF TraceInv
    <3>. QED
      BY <3>4, <3>5, <3>6, <3>7
  <2>3. ASSUME phase = "execute", ~trace.stopped, NEW r \in alone, NEW o \in Outputs
        PROVE  /\ o >= outs[r] => emitted[r][o] = 0
               /\ InWindow(trace.config, o) /\ o < outs[r] => emitted[r][o] = 1
    <3>1. r \in Req
      BY <2>1, <2>3, ConfigTypes DEF AloneOK
    <3>. QED
      BY <2>1, <2>3, <3>1 DEF EmittedOK, NotYet, Covered
  <2>. QED
    BY <2>2, <2>3 DEF WindowCovered, InWindow
<1>. QED
  BY TraceInvHolds, <1>1, PTL

-----------------------------------------------------------------------------
(* The folds of the diagnostic.                                              *)

WrapStep(g, t, s, S) ==
  IF S = {} THEN t ELSE WrapSite(g[S \ {Max(S)}], s[Max(S)])

IsWrapIter(g, t, s, n) == g = [S \in SUBSET (1 .. n) |-> WrapStep(g, t, s, S)]

LEMMA WrapIterExists ==
  ASSUME NEW t, NEW s
  PROVE  \A n \in Nat : \E g : IsWrapIter(g, t, s, n)
<1> DEFINE T == {n \in Nat : \E g : IsWrapIter(g, t, s, n)}
<1>1. 0 \in T
  <2> DEFINE g == [S \in SUBSET (1 .. 0) |-> t]
  <2>1. SUBSET (1 .. 0) = {{}}
    OBVIOUS
  <2>2. g = [S \in SUBSET (1 .. 0) |-> WrapStep(g, t, s, S)]
    BY <2>1 DEF WrapStep
  <2>. QED
    BY <2>2 DEF IsWrapIter
<1>2. ASSUME NEW n \in Nat, n \in T
      PROVE  n + 1 \in T
  <2>1. PICK g : IsWrapIter(g, t, s, n)
    BY <1>2
  <2> DEFINE h == [S \in SUBSET (1 .. n + 1) |->
                     IF n + 1 \in S THEN WrapSite(g[S \ {n + 1}], s[n + 1]) ELSE g[S]]
  <2>2. ASSUME NEW S \in SUBSET (1 .. n + 1)
        PROVE  h[S] = WrapStep(h, t, s, S)
    <3>1. CASE n + 1 \in S
      <4>1. Max(S) = n + 1
        BY <3>1, MaxOf
      <4>2. S \ {n + 1} \in SUBSET (1 .. n + 1) /\ n + 1 \notin S \ {n + 1}
        OBVIOUS
      <4>3. h[S \ {n + 1}] = g[S \ {n + 1}]
        BY <4>2
      <4>. QED
        BY <3>1, <4>1, <4>3 DEF WrapStep
    <3>2. CASE n + 1 \notin S
      <4>1. S \in SUBSET (1 .. n)
        BY <3>2
      <4>2. g[S] = WrapStep(g, t, s, S)
        BY <2>1, <4>1 DEF IsWrapIter
      <4>3. S \ {Max(S)} \in SUBSET (1 .. n + 1) /\ n + 1 \notin S \ {Max(S)}
        BY <3>2
      <4>4. h[S \ {Max(S)}] = g[S \ {Max(S)}]
        BY <4>3
      <4>. QED
        BY <3>2, <4>2, <4>4 DEF WrapStep
    <3>. QED
      BY <3>1, <3>2
  <2>3. IsWrapIter(h, t, s, n + 1)
    <3>1. h = [S \in SUBSET (1 .. n + 1) |-> h[S]]
      OBVIOUS
    <3> HIDE DEF h
    <3>. QED
      BY <2>2, <3>1 DEF IsWrapIter
  <2>. QED
    BY <2>3
<1>3. \A n \in Nat : n \in T
  <2> HIDE DEF T
  <2>1. Inductive(T)
    BY <1>1, <1>2 DEF Inductive
  <2>. QED
    BY <2>1, SetInduction
<1>. QED
  BY <1>3

\* What wrapping the sites s has reached after each of them.
WrapHistory(h, t, s, n) ==
  /\ h[0] = t /\ \A i \in 1 .. n : h[i] = WrapSite(h[i - 1], s[i])
  /\ FoldLeft(WrapSite, t, s) = h[n]

LEMMA FoldWrap ==
  ASSUME NEW t, NEW n \in Nat, NEW s, DOMAIN s = 1 .. n
  PROVE  \E h : WrapHistory(h, t, s, n)
<1> DEFINE g == CHOOSE g : IsWrapIter(g, t, s, n)
           h == [i \in 0 .. n |-> g[1 .. i]]
<1>1. IsWrapIter(g, t, s, n)
  BY WrapIterExists
<1>2. FoldLeft(WrapSite, t, s) = g[1 .. n]
  BY DEF FoldLeft, MapThenFoldSet, IsWrapIter, WrapStep
<1> HIDE DEF g
<1>3. g[{}] = t
  BY <1>1 DEF IsWrapIter, WrapStep
<1>4. ASSUME NEW i \in 1 .. n
      PROVE  g[1 .. i] = WrapSite(g[1 .. i - 1], s[i])
  <2>1. Max(1 .. i) = i
    BY MaxOf
  <2>2. (1 .. i) \ {i} = 1 .. i - 1 /\ 1 .. i # {}
    OBVIOUS
  <2>3. 1 .. i \in SUBSET (1 .. n)
    OBVIOUS
  <2>. QED
    BY <1>1, <2>1, <2>2, <2>3 DEF IsWrapIter, WrapStep
<1>5. h[0] = t /\ \A i \in 1 .. n : h[i] = WrapSite(h[i - 1], s[i])
  <2>1. 1 .. 0 = {}
    OBVIOUS
  <2>2. h[0] = t
    BY <1>3, <2>1
  <2>. QED
    BY <1>4, <2>2
<1>6. h[n] = g[1 .. n]
  OBVIOUS
<1> HIDE DEF h
<1>. QED
  BY <1>2, <1>5, <1>6 DEF WrapHistory

RestoreStep(g, t, s, S) ==
  IF S = {} THEN t ELSE RestoreOne(g[S \ {Max(S)}], s[Max(S)])

IsRestoreIter(g, t, s, n) == g = [S \in SUBSET (1 .. n) |-> RestoreStep(g, t, s, S)]

LEMMA RestoreIterExists ==
  ASSUME NEW t, NEW s
  PROVE  \A n \in Nat : \E g : IsRestoreIter(g, t, s, n)
<1> DEFINE T == {n \in Nat : \E g : IsRestoreIter(g, t, s, n)}
<1>1. 0 \in T
  <2> DEFINE g == [S \in SUBSET (1 .. 0) |-> t]
  <2>1. SUBSET (1 .. 0) = {{}}
    OBVIOUS
  <2>2. g = [S \in SUBSET (1 .. 0) |-> RestoreStep(g, t, s, S)]
    BY <2>1 DEF RestoreStep
  <2>. QED
    BY <2>2 DEF IsRestoreIter
<1>2. ASSUME NEW n \in Nat, n \in T
      PROVE  n + 1 \in T
  <2>1. PICK g : IsRestoreIter(g, t, s, n)
    BY <1>2
  <2> DEFINE h == [S \in SUBSET (1 .. n + 1) |->
                     IF n + 1 \in S THEN RestoreOne(g[S \ {n + 1}], s[n + 1]) ELSE g[S]]
  <2>2. ASSUME NEW S \in SUBSET (1 .. n + 1)
        PROVE  h[S] = RestoreStep(h, t, s, S)
    <3>1. CASE n + 1 \in S
      <4>1. Max(S) = n + 1
        BY <3>1, MaxOf
      <4>2. S \ {n + 1} \in SUBSET (1 .. n + 1) /\ n + 1 \notin S \ {n + 1}
        OBVIOUS
      <4>3. h[S \ {n + 1}] = g[S \ {n + 1}]
        BY <4>2
      <4>. QED
        BY <3>1, <4>1, <4>3 DEF RestoreStep
    <3>2. CASE n + 1 \notin S
      <4>1. S \in SUBSET (1 .. n)
        BY <3>2
      <4>2. g[S] = RestoreStep(g, t, s, S)
        BY <2>1, <4>1 DEF IsRestoreIter
      <4>3. S \ {Max(S)} \in SUBSET (1 .. n + 1) /\ n + 1 \notin S \ {Max(S)}
        BY <3>2
      <4>4. h[S \ {Max(S)}] = g[S \ {Max(S)}]
        BY <4>3
      <4>. QED
        BY <3>2, <4>2, <4>4 DEF RestoreStep
    <3>. QED
      BY <3>1, <3>2
  <2>3. IsRestoreIter(h, t, s, n + 1)
    <3>1. h = [S \in SUBSET (1 .. n + 1) |-> h[S]]
      OBVIOUS
    <3> HIDE DEF h
    <3>. QED
      BY <2>2, <3>1 DEF IsRestoreIter
  <2>. QED
    BY <2>3
<1>3. \A n \in Nat : n \in T
  <2> HIDE DEF T
  <2>1. Inductive(T)
    BY <1>1, <1>2 DEF Inductive
  <2>. QED
    BY <2>1, SetInduction
<1>. QED
  BY <1>3

\* What restoring the bindings s has reached after each of them.
RestoreHistory(h, t, s, n) ==
  /\ h[0] = t /\ \A i \in 1 .. n : h[i] = RestoreOne(h[i - 1], s[i])
  /\ FoldLeft(RestoreOne, t, s) = h[n]

LEMMA FoldRestore ==
  ASSUME NEW t, NEW n \in Nat, NEW s, DOMAIN s = 1 .. n
  PROVE  \E h : RestoreHistory(h, t, s, n)
<1> DEFINE g == CHOOSE g : IsRestoreIter(g, t, s, n)
           h == [i \in 0 .. n |-> g[1 .. i]]
<1>1. IsRestoreIter(g, t, s, n)
  BY RestoreIterExists
<1>2. FoldLeft(RestoreOne, t, s) = g[1 .. n]
  BY DEF FoldLeft, MapThenFoldSet, IsRestoreIter, RestoreStep
<1> HIDE DEF g
<1>3. g[{}] = t
  BY <1>1 DEF IsRestoreIter, RestoreStep
<1>4. ASSUME NEW i \in 1 .. n
      PROVE  g[1 .. i] = RestoreOne(g[1 .. i - 1], s[i])
  <2>1. Max(1 .. i) = i
    BY MaxOf
  <2>2. (1 .. i) \ {i} = 1 .. i - 1 /\ 1 .. i # {}
    OBVIOUS
  <2>3. 1 .. i \in SUBSET (1 .. n)
    OBVIOUS
  <2>. QED
    BY <1>1, <2>1, <2>2, <2>3 DEF IsRestoreIter, RestoreStep
<1>5. h[0] = t /\ \A i \in 1 .. n : h[i] = RestoreOne(h[i - 1], s[i])
  <2>1. 1 .. 0 = {}
    OBVIOUS
  <2>2. h[0] = t
    BY <1>3, <2>1
  <2>. QED
    BY <1>4, <2>2
<1>6. h[n] = g[1 .. n]
  OBVIOUS
<1> HIDE DEF h
<1>. QED
  BY <1>2, <1>5, <1>6 DEF RestoreHistory

SnapshotStep(g, t, s, bad, S) ==
  IF S = {} THEN t ELSE Snapshot(g[S \ {Max(S)}], s[Max(S)], bad)

IsSnapshotIter(g, t, s, bad, n) == g = [S \in SUBSET (1 .. n) |-> SnapshotStep(g, t, s, bad, S)]

LEMMA SnapshotIterExists ==
  ASSUME NEW t, NEW s, NEW bad
  PROVE  \A n \in Nat : \E g : IsSnapshotIter(g, t, s, bad, n)
<1> DEFINE T == {n \in Nat : \E g : IsSnapshotIter(g, t, s, bad, n)}
<1>1. 0 \in T
  <2> DEFINE g == [S \in SUBSET (1 .. 0) |-> t]
  <2>1. SUBSET (1 .. 0) = {{}}
    OBVIOUS
  <2>2. g = [S \in SUBSET (1 .. 0) |-> SnapshotStep(g, t, s, bad, S)]
    BY <2>1 DEF SnapshotStep
  <2>. QED
    BY <2>2 DEF IsSnapshotIter
<1>2. ASSUME NEW n \in Nat, n \in T
      PROVE  n + 1 \in T
  <2>1. PICK g : IsSnapshotIter(g, t, s, bad, n)
    BY <1>2
  <2> DEFINE h == [S \in SUBSET (1 .. n + 1) |->
                     IF n + 1 \in S THEN Snapshot(g[S \ {n + 1}], s[n + 1], bad) ELSE g[S]]
  <2>2. ASSUME NEW S \in SUBSET (1 .. n + 1)
        PROVE  h[S] = SnapshotStep(h, t, s, bad, S)
    <3>1. CASE n + 1 \in S
      <4>1. Max(S) = n + 1
        BY <3>1, MaxOf
      <4>2. S \ {n + 1} \in SUBSET (1 .. n + 1) /\ n + 1 \notin S \ {n + 1}
        OBVIOUS
      <4>3. h[S \ {n + 1}] = g[S \ {n + 1}]
        BY <4>2
      <4>. QED
        BY <3>1, <4>1, <4>3 DEF SnapshotStep
    <3>2. CASE n + 1 \notin S
      <4>1. S \in SUBSET (1 .. n)
        BY <3>2
      <4>2. g[S] = SnapshotStep(g, t, s, bad, S)
        BY <2>1, <4>1 DEF IsSnapshotIter
      <4>3. S \ {Max(S)} \in SUBSET (1 .. n + 1) /\ n + 1 \notin S \ {Max(S)}
        BY <3>2
      <4>4. h[S \ {Max(S)}] = g[S \ {Max(S)}]
        BY <4>3
      <4>. QED
        BY <3>2, <4>2, <4>4 DEF SnapshotStep
    <3>. QED
      BY <3>1, <3>2
  <2>3. IsSnapshotIter(h, t, s, bad, n + 1)
    <3>1. h = [S \in SUBSET (1 .. n + 1) |-> h[S]]
      OBVIOUS
    <3> HIDE DEF h
    <3>. QED
      BY <2>2, <3>1 DEF IsSnapshotIter
  <2>. QED
    BY <2>3
<1>3. \A n \in Nat : n \in T
  <2> HIDE DEF T
  <2>1. Inductive(T)
    BY <1>1, <1>2 DEF Inductive
  <2>. QED
    BY <2>1, SetInduction
<1>. QED
  BY <1>3

\* A capture after each of the stages s.
SnapshotHistory(h, t, s, bad, n) ==
  /\ h[0] = t /\ \A i \in 1 .. n : h[i] = Snapshot(h[i - 1], s[i], bad)
  /\ SnapshotAll(t, s, bad) = h[n]

LEMMA FoldSnapshot ==
  ASSUME NEW t, NEW n \in Nat, NEW s, NEW bad, DOMAIN s = 1 .. n
  PROVE  \E h : SnapshotHistory(h, t, s, bad, n)
<1> DEFINE g == CHOOSE g : IsSnapshotIter(g, t, s, bad, n)
           h == [i \in 0 .. n |-> g[1 .. i]]
<1>1. IsSnapshotIter(g, t, s, bad, n)
  BY SnapshotIterExists
<1>2. SnapshotAll(t, s, bad) = g[1 .. n]
  BY DEF SnapshotAll, FoldLeft, MapThenFoldSet, IsSnapshotIter, SnapshotStep
<1> HIDE DEF g
<1>3. g[{}] = t
  BY <1>1 DEF IsSnapshotIter, SnapshotStep
<1>4. ASSUME NEW i \in 1 .. n
      PROVE  g[1 .. i] = Snapshot(g[1 .. i - 1], s[i], bad)
  <2>1. Max(1 .. i) = i
    BY MaxOf
  <2>2. (1 .. i) \ {i} = 1 .. i - 1 /\ 1 .. i # {}
    OBVIOUS
  <2>3. 1 .. i \in SUBSET (1 .. n)
    OBVIOUS
  <2>. QED
    BY <1>1, <2>1, <2>2, <2>3 DEF IsSnapshotIter, SnapshotStep
<1>5. h[0] = t /\ \A i \in 1 .. n : h[i] = Snapshot(h[i - 1], s[i], bad)
  <2>1. 1 .. 0 = {}
    OBVIOUS
  <2>2. h[0] = t
    BY <1>3, <2>1
  <2>. QED
    BY <1>4, <2>2
<1>6. h[n] = g[1 .. n]
  OBVIOUS
<1> HIDE DEF h
<1>. QED
  BY <1>2, <1>5, <1>6 DEF SnapshotHistory

\* Sequences put one after the other.
FlattenStep(g, s, i) == IF i = 1 THEN s[i] ELSE g[i - 1] \o s[i]
IsFlattenIter(g, s, n) == g = [i \in 1 .. n |-> FlattenStep(g, s, i)]

LEMMA FlattenIterExists ==
  ASSUME NEW s
  PROVE  \A n \in Nat : \E g : IsFlattenIter(g, s, n)
<1> DEFINE T == {n \in Nat : \E g : IsFlattenIter(g, s, n)}
<1>1. 0 \in T
  <2>1. IsFlattenIter([i \in 1 .. 0 |-> 0], s, 0)
    BY DEF IsFlattenIter
  <2>. QED
    BY <2>1
<1>2. ASSUME NEW n \in Nat, n \in T
      PROVE  n + 1 \in T
  <2>1. PICK g : IsFlattenIter(g, s, n)
    BY <1>2
  <2> DEFINE h == [i \in 1 .. n + 1 |-> IF i = n + 1 THEN FlattenStep(g, s, i) ELSE g[i]]
  <2>2. ASSUME NEW i \in 1 .. n + 1
        PROVE  h[i] = FlattenStep(h, s, i)
    <3>1. i # 1 => i - 1 \in 1 .. n + 1 /\ i - 1 # n + 1
      OBVIOUS
    <3>2. i # 1 => h[i - 1] = g[i - 1]
      BY <3>1
    <3>3. FlattenStep(h, s, i) = FlattenStep(g, s, i)
      BY <3>2 DEF FlattenStep
    <3>4. CASE i = n + 1
      BY <3>3, <3>4
    <3>5. CASE i # n + 1
      <4>1. i \in 1 .. n
        BY <3>5
      <4>2. g[i] = FlattenStep(g, s, i)
        BY <2>1, <4>1 DEF IsFlattenIter
      <4>. QED
        BY <3>3, <3>5, <4>2
    <3>. QED
      BY <3>4, <3>5
  <2>3. h = [i \in 1 .. n + 1 |-> h[i]]
    OBVIOUS
  <2>4. IsFlattenIter(h, s, n + 1)
    <3> HIDE DEF h
    <3>. QED
      BY <2>2, <2>3 DEF IsFlattenIter
  <2>. QED
    BY <2>4
<1>3. \A n \in Nat : n \in T
  <2> HIDE DEF T
  <2>1. Inductive(T)
    BY <1>1, <1>2 DEF Inductive
  <2>. QED
    BY <2>1, SetInduction
<1>. QED
  BY <1>3

LEMMA FlattenType ==
  ASSUME NEW E, NEW n \in Nat, NEW s, DOMAIN s = 1 .. n, Len(s) = n,
         \A i \in 1 .. n : s[i] \in Seq(E), n = 0 => s \in Seq(E)
  PROVE  FlattenSeq(s) \in Seq(E)
<1>1. CASE n = 0
  BY <1>1 DEF FlattenSeq
<1>2. CASE n # 0
  <2> DEFINE g == CHOOSE g : IsFlattenIter(g, s, n)
  <2>1. IsFlattenIter(g, s, n)
    BY FlattenIterExists
  <2>2. FlattenSeq(s) = g[n]
    BY <1>2 DEF FlattenSeq, IsFlattenIter, FlattenStep
  <2> HIDE DEF g
  <2> DEFINE T == {i \in Nat : i + 1 \in 1 .. n => g[i + 1] \in Seq(E)}
  <2>3. 0 \in T
    <3>1. g[1] = s[1] /\ 1 \in 1 .. n
      BY <1>2, <2>1 DEF IsFlattenIter, FlattenStep
    <3>. QED
      BY <3>1
  <2>4. ASSUME NEW i \in Nat, i \in T
        PROVE  i + 1 \in T
    <3> SUFFICES ASSUME (i + 1) + 1 \in 1 .. n
                 PROVE  g[(i + 1) + 1] \in Seq(E)
      OBVIOUS
    <3>1. i + 1 \in 1 .. n /\ (i + 1) + 1 # 1 /\ ((i + 1) + 1) - 1 = i + 1
      OBVIOUS
    <3>2. g[(i + 1) + 1] = g[i + 1] \o s[(i + 1) + 1]
      BY <2>1, <3>1 DEF IsFlattenIter, FlattenStep
    <3>3. g[i + 1] \in Seq(E) /\ s[(i + 1) + 1] \in Seq(E)
      BY <2>4, <3>1
    <3>. QED
      BY <3>2, <3>3
  <2>5. \A i \in Nat : i \in T
    <3> HIDE DEF T
    <3>1. Inductive(T)
      BY <2>3, <2>4 DEF Inductive
    <3>. QED
      BY <3>1, SetInduction
  <2>6. n - 1 \in Nat /\ (n - 1) + 1 = n /\ n \in 1 .. n
    BY <1>2
  <2>7. g[n] \in Seq(E)
    BY <2>5, <2>6
  <2>. QED
    BY <2>2, <2>7
<1>. QED
  BY <1>1, <1>2

-----------------------------------------------------------------------------
(* Wrapping and restoring.                                                   *)

\* An object without the method as an attribute of its own shows no wrapper.
Bare(m) ==
  /\ m.method \in [Objects -> Seq(Range(Sites))] /\ m.own \in [Objects -> BOOLEAN]
  /\ \A o \in Objects : ~m.own[o] => m.method[o] = <<>>

Unbound(m) == [method |-> m.method, own |-> m.own]

LEMMA WrapOne ==
  ASSUME NEW m, Bare(m), NEW w \in Range(Sites)
  PROVE  /\ Bare(WrapSite(m, w))
         /\ WrapSite(m, w).bindings = Append(m.bindings, Binding(m, w))
<1> DEFINE o == Object[w]
           u == WrapSite(m, w)
<1>1. /\ u.method = [m.method EXCEPT ![o] = Append(@, w)]
      /\ u.own = [m.own EXCEPT ![o] = TRUE]
      /\ u.bindings = Append(m.bindings, Binding(m, w))
  BY DEF WrapSite
<1>2. o \in Objects
  BY DEF Objects
<1>3. Append(m.method[o], w) \in Seq(Range(Sites))
  BY <1>2 DEF Bare
<1>4. Bare(u)
  BY <1>1, <1>3 DEF Bare
<1>. QED
  BY <1>1, <1>4

\* Restoring the last wrapped site undoes its wrapping.
LEMMA RestoreUndoes ==
  ASSUME NEW m, Bare(m), NEW w \in Range(Sites),
         NEW u, u = WrapSite(m, w)
  PROVE  RestoreOne(Unbound(u), Binding(m, w)) = Unbound(m)
<1> DEFINE o == Object[w]
           b == Binding(m, w)
           back == RestoreOne(Unbound(u), b)
<1>0. o \in Objects
  BY DEF Objects
<1>1. u.method = [m.method EXCEPT ![o] = Append(@, w)] /\ u.own = [m.own EXCEPT ![o] = TRUE]
  BY DEF WrapSite
<1>2. b.object = o /\ b.old = m.method[o] /\ b.had = m.own[o]
  BY DEF Binding
<1>3. /\ back = [method |-> [u.method EXCEPT ![b.object] = IF b.had THEN b.old ELSE <<>>],
                 own    |-> [u.own EXCEPT ![b.object] = b.had]]
  <2>1. u.own[b.object]
    BY <1>0, <1>1, <1>2 DEF Bare
  <2>2. Unbound(u).own[b.object]
    BY <2>1 DEF Unbound
  <2>. QED
    BY <2>2 DEF RestoreOne, Unbound
<1>4. (IF b.had THEN b.old ELSE <<>>) = m.method[o]
  BY <1>0, <1>2 DEF Bare
<1>5. [u.method EXCEPT ![o] = m.method[o]] = m.method
  BY <1>1 DEF Bare
<1>6. [u.own EXCEPT ![o] = m.own[o]] = m.own
  BY <1>1 DEF Bare
<1>. QED
  BY <1>2, <1>3, <1>4, <1>5, <1>6 DEF Unbound

\* Restoring a site that was recorded and not wrapped changes nothing: the method is
\* set to what it is, or the attribute that should be deleted is not there.
LEMMA RestoreHalf ==
  ASSUME NEW m, Bare(m), NEW w \in Range(Sites)
  PROVE  RestoreOne(Unbound(m), Binding(m, w)) = Unbound(m)
<1> DEFINE o == Object[w]
<1>1. o \in Objects
  BY DEF Objects
<1>2. CASE ~m.own[o]
  BY <1>2 DEF RestoreOne, Unbound, Binding
<1>3. CASE m.own[o]
  <2>1. [m.method EXCEPT ![o] = m.method[o]] = m.method
    BY DEF Bare
  <2>2. [m.own EXCEPT ![o] = TRUE] = m.own
    BY <1>1, <1>3 DEF Bare
  <2>3. m.own[o] = TRUE
    BY <1>1, <1>3 DEF Bare
  <2>. QED
    BY <2>1, <2>2, <2>3 DEF RestoreOne, Unbound, Binding
<1>. QED
  BY <1>2, <1>3

\* A last binding whose turn changes nothing may as well be missing.
LEMMA RestoreMore ==
  ASSUME NEW m, NEW S, NEW bs \in Seq(S), NEW b, RestoreOne(m, b) = m
  PROVE  Restore(m, Append(bs, b)) = Restore(m, bs)
<1>1. PICK n \in Nat : n = Len(bs)
  OBVIOUS
<1>2. PICK c, d : c = Reverse(Append(bs, b)) /\ d = Reverse(bs)
  OBVIOUS
<1>3. DOMAIN d = 1 .. n /\ \A i \in 1 .. n : d[i] = bs[(n - i) + 1]
  BY <1>1, <1>2 DEF Reverse
<1>4. /\ DOMAIN c = 1 .. n + 1 /\ c[1] = b
      /\ \A i \in 1 .. n : c[i + 1] = bs[(n - i) + 1]
  <2>1. PICK bb : bb = Append(bs, b)
    OBVIOUS
  <2>2. Len(bb) = n + 1 /\ bb[n + 1] = b /\ \A j \in 1 .. n : bb[j] = bs[j]
    BY <1>1, <2>1
  <2>3. c = [i \in 1 .. n + 1 |-> bb[((n + 1) - i) + 1]]
    BY <1>2, <2>1, <2>2 DEF Reverse
  <2>4. c[1] = b
    BY <2>2, <2>3
  <2>5. ASSUME NEW i \in 1 .. n PROVE c[i + 1] = bs[(n - i) + 1]
    <3>1. /\ i + 1 \in 1 .. n + 1 /\ (n - i) + 1 \in 1 .. n
          /\ ((n + 1) - (i + 1)) + 1 = (n - i) + 1
      OBVIOUS
    <3>. QED
      BY <2>2, <2>3, <3>1
  <2>. QED
    BY <2>3, <2>4, <2>5
<1>5. PICK k : RestoreHistory(k, m, c, n + 1)
  <2>1. n + 1 \in Nat
    OBVIOUS
  <2>. QED
    BY <1>4, <2>1, FoldRestore
<1>6. PICK h : RestoreHistory(h, m, d, n)
  BY <1>3, FoldRestore
<1> DEFINE T == {i \in Nat : i <= n => k[i + 1] = h[i]}
<1>7. 0 \in T
  <2>1. 1 \in 1 .. n + 1 /\ 1 - 1 = 0 /\ 0 + 1 = 1
    OBVIOUS
  <2>2. k[1] = RestoreOne(k[0], c[1]) /\ k[0] = m /\ h[0] = m
    BY <1>5, <1>6, <2>1 DEF RestoreHistory
  <2>. QED
    BY <1>4, <2>1, <2>2
<1>8. ASSUME NEW i \in Nat, i \in T
      PROVE  i + 1 \in T
  <2> SUFFICES ASSUME i + 1 <= n
               PROVE  k[(i + 1) + 1] = h[i + 1]
    OBVIOUS
  <2>1. /\ i + 1 \in 1 .. n /\ (i + 1) + 1 \in 1 .. n + 1
        /\ (i + 1) - 1 = i /\ ((i + 1) + 1) - 1 = i + 1
    OBVIOUS
  <2>2. /\ k[(i + 1) + 1] = RestoreOne(k[i + 1], c[(i + 1) + 1])
        /\ h[i + 1] = RestoreOne(h[i], d[i + 1])
    BY <1>5, <1>6, <2>1 DEF RestoreHistory
  <2>3. k[i + 1] = h[i]
    BY <1>8, <2>1
  <2>4. c[(i + 1) + 1] = d[i + 1]
    BY <1>3, <1>4, <2>1
  <2>. QED
    BY <2>2, <2>3, <2>4
<1>9. \A i \in Nat : i \in T
  <2> HIDE DEF T
  <2>1. Inductive(T)
    BY <1>7, <1>8 DEF Inductive
  <2>. QED
    BY <2>1, SetInduction
<1>10. k[n + 1] = h[n]
  BY <1>9
<1>. QED
  BY <1>2, <1>5, <1>6, <1>10 DEF RestoreHistory, Restore

\* Restoring the bindings of any number of sites undoes their wrapping, even when
\* several of them share an object.
Wrapping(m, s, n) ==
  /\ Bare(m) /\ m.bindings = <<>> /\ DOMAIN s = 1 .. n
  /\ \A i \in 1 .. n : s[i] \in Range(Sites)
Bound(h, s, n) == {Binding(h[i - 1], s[i]) : i \in 1 .. n}
WrapSteps(h, s, n) ==
  \A i \in 0 .. n :
    /\ Bare(h[i])
    /\ h[i].bindings \in Seq(Bound(h, s, n)) /\ Len(h[i].bindings) = i
    /\ \A j \in 1 .. i : h[i].bindings[j] = Binding(h[j - 1], s[j])

LEMMA WrapHistoryIs ==
  ASSUME NEW m, NEW n \in Nat, NEW s, Wrapping(m, s, n), NEW h, WrapHistory(h, m, s, n)
  PROVE  WrapSteps(h, s, n)
<1> DEFINE T == {i \in Nat : i <= n =>
                   /\ Bare(h[i])
                   /\ h[i].bindings \in Seq(Bound(h, s, n)) /\ Len(h[i].bindings) = i
                   /\ \A j \in 1 .. i : h[i].bindings[j] = Binding(h[j - 1], s[j])}
<1>1. 0 \in T
  <2>1. h[0] = m /\ Bare(m) /\ h[0].bindings = <<>>
    BY DEF WrapHistory, Wrapping
  <2>2. <<>> \in Seq(Bound(h, s, n)) /\ Len(<<>>) = 0 /\ 1 .. 0 = {}
    OBVIOUS
  <2>. QED
    BY <2>1, <2>2
<1>2. ASSUME NEW i \in Nat, i \in T
      PROVE  i + 1 \in T
  <2> SUFFICES ASSUME i + 1 <= n
               PROVE  /\ Bare(h[i + 1])
                      /\ h[i + 1].bindings \in Seq(Bound(h, s, n))
                      /\ Len(h[i + 1].bindings) = i + 1
                      /\ \A j \in 1 .. i + 1 :
                           h[i + 1].bindings[j] = Binding(h[j - 1], s[j])
    OBVIOUS
  <2>1. /\ Bare(h[i])
        /\ h[i].bindings \in Seq(Bound(h, s, n)) /\ Len(h[i].bindings) = i
        /\ \A j \in 1 .. i : h[i].bindings[j] = Binding(h[j - 1], s[j])
    BY <1>2
  <2>2. i + 1 \in 1 .. n /\ (i + 1) - 1 = i
    OBVIOUS
  <2>3. h[i + 1] = WrapSite(h[i], s[i + 1]) /\ s[i + 1] \in Range(Sites)
    BY <2>2 DEF WrapHistory, Wrapping
  <2>4. /\ Bare(h[i + 1])
        /\ h[i + 1].bindings = Append(h[i].bindings, Binding(h[i], s[i + 1]))
    BY <2>1, <2>3, WrapOne
  <2>5. Binding(h[i], s[i + 1]) \in Bound(h, s, n)
    BY <2>2 DEF Bound
  <2>6. PICK b : b = Binding(h[i], s[i + 1])
    OBVIOUS
  <2>7. /\ h[i + 1].bindings \in Seq(Bound(h, s, n)) /\ Len(h[i + 1].bindings) = i + 1
        /\ h[i + 1].bindings[i + 1] = b
        /\ \A j \in 1 .. i : h[i + 1].bindings[j] = h[i].bindings[j]
    BY <2>1, <2>4, <2>5, <2>6
  <2>8. ASSUME NEW j \in 1 .. i + 1
        PROVE  h[i + 1].bindings[j] = Binding(h[j - 1], s[j])
    <3>1. CASE j = i + 1
      BY <2>2, <2>6, <2>7, <3>1
    <3>2. CASE j # i + 1
      <4>1. j \in 1 .. i
        BY <3>2
      <4>. QED
        BY <2>1, <2>7, <4>1
    <3>. QED
      BY <3>1, <3>2
  <2>. QED
    BY <2>4, <2>7, <2>8
<1>3. \A i \in Nat : i \in T
  <2> HIDE DEF T
  <2>1. Inductive(T)
    BY <1>1, <1>2 DEF Inductive
  <2>. QED
    BY <2>1, SetInduction
<1>. QED
  BY <1>3 DEF WrapSteps

LEMMA RestoreAll ==
  ASSUME NEW m, NEW n \in Nat, NEW s, Wrapping(m, s, n),
         NEW w, w = FoldLeft(WrapSite, m, s)
  PROVE  Restore(Unbound(w), w.bindings) = Unbound(m)
<1>1. PICK h : WrapHistory(h, m, s, n)
  BY FoldWrap DEF Wrapping
<1>2. WrapSteps(h, s, n)
  BY <1>1, WrapHistoryIs
<1>3. w = h[n] /\ h[0] = m /\ n \in 0 .. n
  BY <1>1 DEF WrapHistory
<1>4. PICK bs : bs = Reverse(w.bindings)
  OBVIOUS
<1>5. /\ DOMAIN bs = 1 .. n
      /\ \A j \in 1 .. n : bs[j] = Binding(h[n - j], s[(n - j) + 1])
  <2>1. Len(w.bindings) = n
    BY <1>2, <1>3 DEF WrapSteps
  <2>2. bs = [i \in 1 .. n |-> w.bindings[(n - i) + 1]]
    BY <1>4, <2>1 DEF Reverse
  <2>3. ASSUME NEW j \in 1 .. n
        PROVE  bs[j] = Binding(h[n - j], s[(n - j) + 1])
    <3>1. (n - j) + 1 \in 1 .. n /\ ((n - j) + 1) - 1 = n - j
      OBVIOUS
    <3>. QED
      BY <1>2, <1>3, <2>2, <3>1 DEF WrapSteps
  <2>. QED
    BY <2>2, <2>3
<1>6. PICK k : RestoreHistory(k, Unbound(w), bs, n)
  BY <1>5, FoldRestore
<1> DEFINE T == {j \in Nat : j <= n => k[j] = Unbound(h[n - j])}
<1>7. 0 \in T
  BY <1>3, <1>6 DEF RestoreHistory
<1>8. ASSUME NEW j \in Nat, j \in T
      PROVE  j + 1 \in T
  <2> SUFFICES ASSUME j + 1 <= n
               PROVE  k[j + 1] = Unbound(h[n - (j + 1)])
    OBVIOUS
  <2>1. PICK i \in Nat : i = n - (j + 1)
    OBVIOUS
  <2>2. /\ j + 1 \in 1 .. n /\ (j + 1) - 1 = j /\ n - j = i + 1 /\ j <= n
        /\ i + 1 \in 1 .. n /\ (i + 1) - 1 = i /\ i \in 0 .. n
    BY <2>1
  <2>3. k[j + 1] = RestoreOne(k[j], bs[j + 1]) /\ k[j] = Unbound(h[i + 1])
    BY <1>6, <1>8, <2>2 DEF RestoreHistory
  <2>4. bs[j + 1] = Binding(h[i], s[i + 1])
    BY <1>5, <2>1, <2>2
  <2>5. h[i + 1] = WrapSite(h[i], s[i + 1]) /\ Bare(h[i]) /\ s[i + 1] \in Range(Sites)
    BY <1>1, <1>2, <2>2 DEF WrapHistory, WrapSteps, Wrapping
  <2>6. RestoreOne(Unbound(h[i + 1]), Binding(h[i], s[i + 1])) = Unbound(h[i])
    BY <2>5, RestoreUndoes
  <2>. QED
    BY <2>1, <2>3, <2>4, <2>6
<1>9. \A j \in Nat : j \in T
  <2> HIDE DEF T
  <2>1. Inductive(T)
    BY <1>7, <1>8 DEF Inductive
  <2>. QED
    BY <2>1, SetInduction
<1>10. k[n] = Unbound(h[0])
  <2>1. n - n = 0 /\ n <= n
    OBVIOUS
  <2>. QED
    BY <1>9, <2>1
<1>11. FoldLeft(RestoreOne, Unbound(w), bs) = k[n]
  BY <1>6 DEF RestoreHistory
<1>. QED
  BY <1>3, <1>4, <1>10, <1>11 DEF Restore

-----------------------------------------------------------------------------
(* What a capture copies.                                                    *)

IsCapture(c) ==
  /\ c = [run |-> c.run, saved |-> c.saved, bytes |-> c.bytes, errors |-> c.errors,
          bindings |-> c.bindings, counted |-> c.counted, read |-> c.read]
  /\ c.saved \in Seq(Stages) /\ c.bytes \in Nat /\ c.errors \in Nat
  /\ c.read \in Seq(Stages)

\* d is c after some copies: its run, its bindings and what was read back are the
\* same, and no error is forgotten.
Later(d, c) ==
  /\ d.run = c.run /\ d.bindings = c.bindings /\ d.read = c.read
  /\ c.errors <= d.errors

LEMMA ErrorIs ==
  ASSUME NEW c, IsCapture(c)
  PROVE  /\ IsCapture(Error(c)) /\ Later(Error(c), c)
         /\ Error(c).errors > 0 /\ Error(c).saved = c.saved
<1>1. PICK n \in Nat : n = IF c.errors < 2 THEN c.errors + 1 ELSE c.errors
  BY DEF IsCapture
<1>2. n > 0 /\ c.errors <= n
  BY <1>1 DEF IsCapture
<1>3. PICK e : e = Error(c)
  OBVIOUS
<1>4. e = [run |-> c.run, saved |-> c.saved, bytes |-> c.bytes, errors |-> n,
           bindings |-> c.bindings, counted |-> c.counted, read |-> c.read]
  BY <1>1, <1>3 DEF Error, IsCapture
<1>5. /\ e.run = c.run /\ e.saved = c.saved /\ e.bytes = c.bytes /\ e.errors = n
      /\ e.bindings = c.bindings /\ e.counted = c.counted /\ e.read = c.read
  BY <1>4
<1>. QED
  BY <1>2, <1>3, <1>4, <1>5 DEF IsCapture, Later

LEMMA SnapshotIs ==
  ASSUME NEW c, IsCapture(c), NEW s \in Stages, NEW bad
  PROVE  IsCapture(Snapshot(c, s, bad)) /\ Later(Snapshot(c, s, bad), c)
<1>1. CASE s = bad \/ ~Fits(c, s)
  BY <1>1, ErrorIs DEF Snapshot
<1>2. CASE ~(s = bad \/ ~Fits(c, s))
  <2>1. PICK e : e = Snapshot(c, s, bad)
    OBVIOUS
  <2>2. PICK q \in Seq(Stages) : q = Append(c.saved, s)
    <3>1. PICK p \in Seq(Stages) : p = c.saved
      BY DEF IsCapture
    <3>2. Append(p, s) \in Seq(Stages)
      BY AppendProperties
    <3>. QED
      BY <3>1, <3>2
  <2>3. PICK n \in Nat : n = c.bytes + Cost[s]
    BY BoundariesAssumption DEF IsCapture
  <2>4. e = [run |-> c.run, saved |-> q, bytes |-> n, errors |-> c.errors,
             bindings |-> c.bindings, counted |-> c.counted, read |-> c.read]
    BY <1>2, <2>1, <2>2, <2>3 DEF Snapshot, IsCapture
  <2>5. /\ e.run = c.run /\ e.saved = q /\ e.bytes = n /\ e.errors = c.errors
        /\ e.bindings = c.bindings /\ e.counted = c.counted /\ e.read = c.read
    BY <2>4
  <2>6. c.errors <= c.errors
    BY DEF IsCapture
  <2>. QED
    BY <2>1, <2>4, <2>5, <2>6 DEF IsCapture, Later
<1>. QED
  BY <1>1, <1>2

LEMMA SnapshotAllIs ==
  ASSUME NEW c, IsCapture(c), NEW q \in Seq(Stages), NEW bad
  PROVE  IsCapture(SnapshotAll(c, q, bad)) /\ Later(SnapshotAll(c, q, bad), c)
<1>1. PICK n \in Nat : n = Len(q) /\ DOMAIN q = 1 .. n
  OBVIOUS
<1>2. PICK h : SnapshotHistory(h, c, q, bad, n)
  BY <1>1, FoldSnapshot
<1> DEFINE T == {i \in Nat : i <= n => IsCapture(h[i]) /\ Later(h[i], c)}
<1>3. 0 \in T
  <2>1. h[0] = c /\ c.errors <= c.errors
    BY <1>2 DEF SnapshotHistory, IsCapture
  <2>. QED
    BY <2>1 DEF Later
<1>4. ASSUME NEW i \in Nat, i \in T
      PROVE  i + 1 \in T
  <2> SUFFICES ASSUME i + 1 <= n
               PROVE  IsCapture(h[i + 1]) /\ Later(h[i + 1], c)
    OBVIOUS
  <2>1. i + 1 \in 1 .. n /\ (i + 1) - 1 = i /\ i <= n
    OBVIOUS
  <2>2. h[i + 1] = Snapshot(h[i], q[i + 1], bad) /\ q[i + 1] \in Stages
    BY <1>1, <1>2, <2>1 DEF SnapshotHistory
  <2>3. IsCapture(h[i]) /\ Later(h[i], c)
    BY <1>4, <2>1
  <2>4. IsCapture(h[i + 1]) /\ Later(h[i + 1], h[i])
    BY <2>2, <2>3, SnapshotIs
  <2>. QED
    BY <2>3, <2>4 DEF Later, IsCapture
<1>5. \A i \in Nat : i \in T
  <2> HIDE DEF T
  <2>1. Inductive(T)
    BY <1>3, <1>4 DEF Inductive
  <2>. QED
    BY <2>1, SetInduction
<1>6. IsCapture(h[n]) /\ Later(h[n], c)
  <2>1. n <= n
    OBVIOUS
  <2>. QED
    BY <1>5, <2>1
<1>. QED
  BY <1>2, <1>6 DEF SnapshotHistory

\* Without copies a capture stays as it is.
LEMMA NothingCopied ==
  ASSUME NEW c, NEW bad
  PROVE  SnapshotAll(c, <<>>, bad) = c
<1>1. PICK q : q = <<>> /\ DOMAIN q = 1 .. 0
  OBVIOUS
<1>2. PICK h : SnapshotHistory(h, c, q, bad, 0)
  BY <1>1, FoldSnapshot
<1>. QED
  BY <1>1, <1>2 DEF SnapshotHistory

LEMMA StagesOfCall ==
  ASSUME NEW o \in Objects, method[o] \in Seq(Range(Sites)), NEW c
  PROVE  /\ PreStages(c, o) \in Seq(Stages) /\ PostStages(c, o) \in Seq(Stages)
         /\ method[o] = <<>> => PreStages(c, o) = <<>> /\ PostStages(c, o) = <<>>
<1>1. PICK n \in Nat : n = Len(method[o]) /\ DOMAIN method[o] = 1 .. n
  OBVIOUS
<1>2. ASSUME NEW w \in Range(Sites)
      PROVE  Copying(c, Pre, w) \in Seq(Stages) /\ Copying(c, Post, w) \in Seq(Stages)
  <2>1. Pre[w] \in Seq(Stages) /\ Post[w] \in Seq(Stages)
    BY BoundariesAssumption
  <2>. QED
    BY <2>1 DEF Copying
<1>3. ASSUME NEW i \in 1 .. n
      PROVE  method[o][i] \in Range(Sites) /\ Reverse(method[o])[i] \in Range(Sites)
  <2>1. (n - i) + 1 \in 1 .. n
    OBVIOUS
  <2>2. Reverse(method[o])[i] = method[o][(n - i) + 1]
    BY <1>1 DEF Reverse
  <2>. QED
    BY <1>1, <2>1, <2>2
<1>4. PICK p : p = [i \in DOMAIN method[o] |-> Copying(c, Pre, Reverse(method[o])[i])]
  OBVIOUS
<1>5. PICK q : q = [i \in DOMAIN method[o] |-> Copying(c, Post, method[o][i])]
  OBVIOUS
<1>6. /\ DOMAIN p = 1 .. n /\ DOMAIN q = 1 .. n
      /\ \A i \in 1 .. n : p[i] \in Seq(Stages) /\ q[i] \in Seq(Stages)
  BY <1>1, <1>2, <1>3, <1>4, <1>5
<1>7. Len(p) = n /\ Len(q) = n
  BY <1>1, <1>4, <1>5
<1>8. n = 0 => p = <<>> /\ q = <<>>
  BY <1>1, <1>4, <1>5
<1>9. FlattenSeq(p) \in Seq(Stages) /\ FlattenSeq(q) \in Seq(Stages)
  <2>1. n = 0 => p \in Seq(Stages) /\ q \in Seq(Stages)
    BY <1>8
  <2>. QED
    BY <1>6, <1>7, <2>1, FlattenType
<1>10. method[o] = <<>> => FlattenSeq(p) = <<>> /\ FlattenSeq(q) = <<>>
  BY <1>1, <1>7, <1>8 DEF FlattenSeq
<1>. QED
  BY <1>4, <1>5, <1>9, <1>10 DEF PreStages, PostStages

-----------------------------------------------------------------------------
(* The inductive invariant of the diagnostic of the prefill boundaries.      *)

NoWrappers == [o \in Objects |-> <<>>]
Base == [method |-> NoWrappers, own |-> born, bindings |-> <<>>]
WrapTo(n) == FoldLeft(WrapSite, Base, SubSeq(Sites, 1, n))
Full == WrapTo(Len(Sites))

Original == method = NoWrappers /\ own = born
MethodOK ==
  /\ born \in [Objects -> BOOLEAN]
  /\ \/ Original /\ capture.bindings = <<>>
     \/ /\ where \in {"model", "finally"}
        /\ method = Full.method /\ own = Full.own /\ capture.bindings = Full.bindings

TypeOK ==
  /\ where \in {"idle", "model", "finally", "readback"}
  /\ seen \in SUBSET Runs /\ executes \in Nat /\ restarts \in Nat
  /\ call \in Nat \ {0} /\ files \in [Runs -> [Stages -> Nat]]
  /\ verdict \in {"none", "raised", "returned"}

\* A capture belongs to an execute call; what it read back is in that call's
\* files, and a forward that raised left it an error.
ReadOK(c, f, x) == SaveTensors => \A s \in Range(c.read) : f[c.run][s] = x
CaptureOK ==
  /\ IsCapture(capture)
  /\ capture # NoCapture => /\ capture.run \in seen /\ executes > 0 /\ where # "idle"
                            /\ ReadOK(capture, files, executes)
  /\ capture = NoCapture => where # "readback"
  /\ where # "readback" => capture.read = <<>>
  /\ capture # NoCapture /\ where \in {"finally", "readback"} =>
       verdict = "returned" \/ (verdict = "raised" /\ capture.errors > 0)

Payloads ==
  [run : Runs, complete : BOOLEAN, read : Seq(Stages), execute : Nat,
   verdict : {"none", "raised", "returned"}]
WholePayload(p, f) ==
  p.complete =>
    /\ Range(p.read) = Stages /\ Len(p.read) = Cardinality(Stages)
    /\ p.verdict = "returned" /\ p.execute > 0
    /\ SaveTensors => \A s \in Stages : f[p.run][s] = p.execute
OncePerRun ==
  restarts = 0 =>
    /\ \A i \in DOMAIN payloads : /\ payloads[i].run \in seen
                                  /\ capture # NoCapture => payloads[i].run # capture.run
    /\ \A i, j \in DOMAIN payloads : payloads[i].run = payloads[j].run => i = j
PayloadOK ==
  /\ payloads \in Seq(Payloads)
  /\ \A i \in DOMAIN payloads : WholePayload(payloads[i], files)
  /\ OncePerRun

BoundariesInv == TypeOK /\ MethodOK /\ CaptureOK /\ PayloadOK

LEMMA NoCaptureIs ==
  /\ IsCapture(NoCapture) /\ NoCapture.bindings = <<>> /\ NoCapture.read = <<>>
  /\ NoCapture.run = "none"
<1>1. <<>> \in Seq(Stages)
  OBVIOUS
<1>. QED
  BY <1>1 DEF NoCapture, IsCapture

LEMMA RunArmed == ASSUME NEW c, c.run \in Runs PROVE c # NoCapture
BY NoCaptureIs, BoundariesAssumption

LEMMA BaseIs ==
  ASSUME born \in [Objects -> BOOLEAN]
  PROVE  /\ Bare(Base) /\ Base.bindings = <<>>
         /\ Base.method = NoWrappers /\ Base.own = born
<1>1. <<>> \in Seq(Range(Sites))
  OBVIOUS
<1>2. NoWrappers \in [Objects -> Seq(Range(Sites))] /\ \A o \in Objects : NoWrappers[o] = <<>>
  BY <1>1 DEF NoWrappers
<1>3. Base.bindings = <<>> /\ Base.method = NoWrappers /\ Base.own = born
  BY DEF Base
<1>. QED
  BY <1>2, <1>3 DEF Bare

LEMMA WrapToIs ==
  ASSUME born \in [Objects -> BOOLEAN], NEW n \in 0 .. Len(Sites)
  PROVE  /\ Bare(WrapTo(n)) /\ \E S : WrapTo(n).bindings \in Seq(S)
         /\ Restore(Unbound(WrapTo(n)), WrapTo(n).bindings) = Unbound(Base)
<1>1. Sites \in Seq(Range(Sites)) /\ Len(Sites) \in Nat
  BY BoundariesAssumption
<1>2. PICK s : s = SubSeq(Sites, 1, n)
  OBVIOUS
<1>3. DOMAIN s = 1 .. n /\ \A i \in 1 .. n : s[i] \in Range(Sites)
  <2>1. s \in Seq(Range(Sites)) /\ Len(s) = n
    BY <1>1, <1>2
  <2>. QED
    BY <2>1
<1>4. Wrapping(Base, s, n)
  BY <1>3, BaseIs DEF Wrapping
<1>5. PICK h : WrapHistory(h, Base, s, n)
  <2>1. n \in Nat
    BY <1>1
  <2>. QED
    BY <1>3, <2>1, FoldWrap
<1>6. Bare(WrapTo(n)) /\ \E S : WrapTo(n).bindings \in Seq(S)
  <2>1. WrapSteps(h, s, n)
    BY <1>4, <1>5, WrapHistoryIs
  <2>2. WrapTo(n) = h[n] /\ n \in 0 .. n
    BY <1>2, <1>5 DEF WrapTo, WrapHistory
  <2>. QED
    BY <2>1, <2>2 DEF WrapSteps
<1>7. WrapTo(n) = FoldLeft(WrapSite, Base, s)
  BY <1>2 DEF WrapTo
<1>8. PICK w : w = WrapTo(n)
  OBVIOUS
<1>9. Restore(Unbound(w), w.bindings) = Unbound(Base)
  BY <1>4, <1>7, <1>8, RestoreAll
<1>. QED
  BY <1>6, <1>8, <1>9

LEMMA NothingRestored ==
  ASSUME NEW m
  PROVE  Restore(m, <<>>) = m
<1>1. PICK q : q = <<>> /\ DOMAIN q = 1 .. 0
  OBVIOUS
<1>2. Reverse(<<>>) = q
  BY <1>1 DEF Reverse
<1>3. PICK h : RestoreHistory(h, m, q, 0)
  BY <1>1, FoldRestore
<1>. QED
  BY <1>2, <1>3 DEF RestoreHistory, Restore

\* The methods as the state has them, and what restoring the capture's bindings
\* makes of them.
LEMMA MethodsAre ==
  ASSUME MethodOK
  PROVE  /\ \A o \in Objects : method[o] \in Seq(Range(Sites))
         /\ capture.bindings = <<>> => Original
         /\ Restore([method |-> method, own |-> own], capture.bindings)
              = [method |-> NoWrappers, own |-> born]
<1>0. born \in [Objects -> BOOLEAN] /\ Len(Sites) \in 0 .. Len(Sites)
  BY BoundariesAssumption DEF MethodOK
<1>1. Unbound(Base) = [method |-> NoWrappers, own |-> born]
  BY DEF Unbound, Base
<1>2. CASE Original /\ capture.bindings = <<>>
  <2>1. \A o \in Objects : method[o] \in Seq(Range(Sites))
    <3>1. <<>> \in Seq(Range(Sites))
      OBVIOUS
    <3>. QED
      BY <1>2, <3>1 DEF Original, NoWrappers
  <2>2. Restore([method |-> method, own |-> own], <<>>) = [method |-> method, own |-> own]
    BY NothingRestored
  <2>. QED
    BY <1>2, <2>1, <2>2 DEF Original
<1>3. CASE method = Full.method /\ own = Full.own /\ capture.bindings = Full.bindings
  <2>1. /\ Bare(Full) /\ Restore(Unbound(Full), Full.bindings) = Unbound(Base)
    BY <1>0, WrapToIs DEF Full
  <2>2. [method |-> method, own |-> own] = Unbound(Full)
    BY <1>3 DEF Unbound
  <2>3. Restore([method |-> method, own |-> own], capture.bindings)
          = [method |-> NoWrappers, own |-> born]
    BY <1>1, <1>3, <2>1, <2>2
  <2>4. ASSUME capture.bindings = <<>> PROVE Original
    <3>1. [method |-> method, own |-> own] = [method |-> NoWrappers, own |-> born]
      BY <2>3, <2>4, NothingRestored
    <3>. QED
      BY <3>1 DEF Original
  <2>. QED
    BY <1>3, <2>1, <2>3, <2>4 DEF Bare
<1>. QED
  BY <1>2, <1>3 DEF MethodOK

-----------------------------------------------------------------------------
(* The steps.                                                                *)

LEMMA BoundariesInit == Init => BoundariesInv
<1> SUFFICES ASSUME Init PROVE BoundariesInv
  OBVIOUS
<1>1. TypeOK
  <2>1. files \in [Runs -> [Stages -> Nat]]
    BY DEF Init
  <2>. QED
    BY <2>1 DEF Init, TypeOK
<1>2. MethodOK
  BY NoCaptureIs, BoundariesAssumption DEF Init, MethodOK, Original, NoWrappers
<1>3. CaptureOK
  BY NoCaptureIs DEF Init, CaptureOK
<1>4. PayloadOK
  <2>1. payloads = <<>>
    BY DEF Init
  <2>. QED
    BY <2>1 DEF PayloadOK, OncePerRun
<1>. QED
  BY <1>1, <1>2, <1>3, <1>4 DEF BoundariesInv

\* The methods are left alone.
LEMMA MethodsStay ==
  ASSUME MethodOK, UNCHANGED <<method, own, born>>,
         capture'.bindings = capture.bindings,
         where \in {"model", "finally"} => where' \in {"model", "finally"}
  PROVE  MethodOK'
<1>1. Full' = Full /\ (Original <=> Original')
  BY DEF Full, WrapTo, Base, Original
<1>. QED
  BY <1>1 DEF MethodOK

\* The payloads are left alone, and a capture is the same one.
LEMMA PayloadsStay ==
  ASSUME PayloadOK, UNCHANGED <<payloads, files, restarts>>, seen \subseteq seen',
         capture' # NoCapture =>
           \/ capture # NoCapture /\ capture'.run = capture.run
           \/ capture'.run \notin seen
  PROVE  PayloadOK'
<1>1. OncePerRun'
  BY DEF PayloadOK, OncePerRun
<1>. QED
  BY <1>1 DEF PayloadOK, WholePayload

\* A step of the forward: a capture stays the same one, or none.
LEMMA CaptureMoves ==
  ASSUME BoundariesInv, where = "model",
         UNCHANGED <<method, own, born, seen, payloads, files, executes, restarts>>,
         where' \in {"model", "finally"}, call' \in Nat \ {0},
         verdict' \in {"none", "raised", "returned"},
         IsCapture(capture'), Later(capture', capture),
         capture = NoCapture => capture' = NoCapture,
         where' = "finally" /\ capture # NoCapture =>
           verdict' = "returned" \/ (verdict' = "raised" /\ capture'.errors > 0)
  PROVE  BoundariesInv'
<1>1. TypeOK /\ MethodOK /\ CaptureOK /\ PayloadOK
  BY DEF BoundariesInv
<1>2. TypeOK'
  BY <1>1 DEF TypeOK
<1>3. MethodOK'
  BY <1>1, MethodsStay DEF Later
<1>4. capture # NoCapture => capture.run \in Runs
  BY <1>1 DEF CaptureOK, TypeOK
<1>5. PayloadOK'
  BY <1>1, PayloadsStay DEF Later
<1>6. CaptureOK'
  <2>1. capture'.read = <<>> /\ capture'.run = capture.run
    BY <1>1 DEF CaptureOK, Later
  <2>2. capture' # NoCapture => ReadOK(capture', files', executes')
    BY <1>1, <2>1 DEF ReadOK, CaptureOK
  <2>. QED
    BY <1>1, <2>1, <2>2 DEF CaptureOK
<1>. QED
  BY <1>2, <1>3, <1>5, <1>6 DEF BoundariesInv

LEMMA CallMethodKeeps == BoundariesInv /\ CallMethod => BoundariesInv'
<1> SUFFICES ASSUME BoundariesInv, CallMethod PROVE BoundariesInv'
  OBVIOUS
<1>1. /\ where = "model" /\ call <= Len(Calls) /\ call' = call + 1
      /\ UNCHANGED <<method, own, born, seen, verdict, payloads, files, executes, restarts>>
      /\ TypeOK /\ MethodOK /\ CaptureOK
  BY DEF CallMethod, BoundariesInv
<1>2. PICK o : o = Calls[call]
  OBVIOUS
<1>3. o \in Objects
  <2>1. call \in 1 .. Len(Calls) /\ Calls \in Seq(Range(Calls))
    BY <1>1, BoundariesAssumption DEF TypeOK
  <2>2. o \in Range(Calls)
    BY <1>2, <2>1
  <2>. QED
    BY <2>2 DEF Objects
<1>4. PICK bad : capture' = Counted(SnapshotAll(capture, PreStages(capture, o) \o PostStages(capture, o), bad), o)
  BY <1>2, Zenon DEF CallMethod
<1>5. where' = where
  BY <1>1 DEF CallMethod, SnapshotRaises
<1>6. method[o] \in Seq(Range(Sites))
  BY <1>1, <1>3, MethodsAre
<1>7. PICK q \in Seq(Stages) : q = PreStages(capture, o) \o PostStages(capture, o)
  <2>1. PICK before \in Seq(Stages), after \in Seq(Stages) :
          before = PreStages(capture, o) /\ after = PostStages(capture, o)
    BY <1>3, <1>6, StagesOfCall
  <2>2. before \o after \in Seq(Stages)
    BY ConcatProperties
  <2>. QED
    BY <2>1, <2>2
<1>8. PICK post : post = SnapshotAll(capture, q, bad)
  OBVIOUS
<1>9. IsCapture(post) /\ Later(post, capture)
  BY <1>1, <1>8, SnapshotAllIs DEF CaptureOK
<1>10. capture' = [post EXCEPT !.counted = @ \cup (Range(method[o]) \cap FirstOnly)]
  BY <1>4, <1>7, <1>8 DEF Counted
<1>11. PICK S : S = post.counted \cup (Range(method[o]) \cap FirstOnly)
  OBVIOUS
<1>12. PICK d : d = [run |-> post.run, saved |-> post.saved, bytes |-> post.bytes,
                     errors |-> post.errors, bindings |-> post.bindings,
                     counted |-> S, read |-> post.read]
  OBVIOUS
<1>13. capture' = d
  <2>1. capture' = [post EXCEPT !.counted = S]
    BY <1>10, <1>11
  <2>2. PICK saved, bytes, errors, read, run, bindings, counted :
          post = [run |-> run, saved |-> saved, bytes |-> bytes, errors |-> errors,
                  bindings |-> bindings, counted |-> counted, read |-> read]
    BY <1>9 DEF IsCapture
  <2>3. [post EXCEPT !.counted = S] =
          [run |-> run, saved |-> saved, bytes |-> bytes, errors |-> errors,
           bindings |-> bindings, counted |-> S, read |-> read]
    BY <2>2
  <2>4. d = [run |-> run, saved |-> saved, bytes |-> bytes, errors |-> errors,
             bindings |-> bindings, counted |-> S, read |-> read]
    BY <1>12, <2>2
  <2>. QED
    BY <2>1, <2>3, <2>4
<1>14. /\ d.run = post.run /\ d.saved = post.saved /\ d.bytes = post.bytes
       /\ d.errors = post.errors /\ d.bindings = post.bindings /\ d.counted = S
       /\ d.read = post.read
  BY <1>12
<1>15. IsCapture(d)
  BY <1>9, <1>12, <1>14 DEF IsCapture
<1>16. Later(d, capture)
  BY <1>9, <1>14 DEF Later
<1>17. ASSUME capture = NoCapture PROVE d = NoCapture
  <2>1. method[o] = <<>>
    BY <1>1, <1>3, <1>17, MethodsAre, NoCaptureIs DEF Original, NoWrappers
  <2>2. q = <<>>
    <3>1. PreStages(capture, o) = <<>> /\ PostStages(capture, o) = <<>>
      BY <1>3, <1>6, <2>1, StagesOfCall
    <3>2. <<>> \o <<>> = <<>>
      BY ConcatEmptySeq
    <3>. QED
      BY <1>7, <3>1, <3>2
  <2>3. post = NoCapture
    BY <1>8, <1>17, <2>2, NothingCopied
  <2>4. S = post.counted
    BY <1>11, <2>1 DEF Range
  <2>5. d = post
    BY <1>9, <1>12, <2>4 DEF IsCapture
  <2>. QED
    BY <2>3, <2>5
<1>18. call' \in Nat \ {0} /\ verdict' \in {"none", "raised", "returned"}
  BY <1>1 DEF TypeOK
<1>. QED
  BY <1>1, <1>5, <1>13, <1>15, <1>16, <1>17, <1>18, CaptureMoves

LEMMA ModelRaisesKeeps == BoundariesInv /\ ModelRaises => BoundariesInv'
<1> SUFFICES ASSUME BoundariesInv, ModelRaises PROVE BoundariesInv'
  OBVIOUS
<1>1. /\ where = "model" /\ where' = "finally" /\ verdict' = "raised"
      /\ UNCHANGED <<method, own, born, seen, call, payloads, files, executes, restarts>>
      /\ TypeOK /\ MethodOK /\ CaptureOK
  BY DEF ModelRaises, BoundariesInv
<1>2. call' \in Nat \ {0}
  BY <1>1 DEF TypeOK
<1>3. PICK copied \in {<<>>} \cup {PreStages(capture, Calls[i]) : i \in {call} \cap DOMAIN Calls} :
        capture' = IF Armed THEN NoteModel(SnapshotAll(capture, copied, "none"))
                   ELSE capture
  BY Zenon DEF ModelRaises
<1>4. copied \in Seq(Stages)
  <2>1. CASE copied = <<>>
    BY <2>1
  <2>2. CASE copied # <<>>
    <3>1. call \in DOMAIN Calls /\ copied = PreStages(capture, Calls[call])
      BY <1>3, <2>2
    <3>2. Calls[call] \in Range(Calls)
      BY <3>1 DEF Range
    <3>3. PICK o \in Objects : o = Calls[call]
      BY <3>2 DEF Objects
    <3>4. method[o] \in Seq(Range(Sites))
      BY <1>1, <3>3, MethodsAre
    <3>. QED
      BY <3>1, <3>3, <3>4, StagesOfCall
  <2>. QED
    BY <2>1, <2>2
<1>5. CASE capture = NoCapture
  <2>1. capture' = capture
    BY <1>3, <1>5 DEF Armed
  <2>2. IsCapture(capture') /\ Later(capture', capture)
    BY <1>1, <2>1 DEF CaptureOK, Later, IsCapture
  <2>. QED
    BY <1>1, <1>2, <1>5, <2>1, <2>2, CaptureMoves
<1>6. CASE capture # NoCapture
  <2>1. PICK post : post = SnapshotAll(capture, copied, "none")
    OBVIOUS
  <2>2. IsCapture(post) /\ Later(post, capture)
    BY <1>1, <1>4, <2>1, SnapshotAllIs DEF CaptureOK
  <2>3. capture' = Error(post)
    BY <1>3, <1>6, <2>1 DEF Armed, NoteModel
  <2>4. IsCapture(capture') /\ Later(capture', post) /\ capture'.errors > 0
    BY <2>2, <2>3, ErrorIs
  <2>5. Later(capture', capture)
    BY <1>1, <2>2, <2>4 DEF Later, IsCapture, CaptureOK
  <2>. QED
    BY <1>1, <1>2, <1>6, <2>4, <2>5, CaptureMoves
<1>. QED
  BY <1>5, <1>6

LEMMA ModelReturnsKeeps == BoundariesInv /\ ModelReturns => BoundariesInv'
<1> SUFFICES ASSUME BoundariesInv, ModelReturns PROVE BoundariesInv'
  OBVIOUS
<1>1. /\ where = "model" /\ where' = "finally" /\ verdict' = "returned"
      /\ UNCHANGED <<method, own, born, seen, capture, call, payloads, files,
                     executes, restarts>>
      /\ call' \in Nat \ {0} /\ IsCapture(capture)
  BY DEF ModelReturns, BoundariesInv, TypeOK, CaptureOK
<1>2. IsCapture(capture') /\ Later(capture', capture)
  BY <1>1 DEF Later, IsCapture
<1>. QED
  BY <1>1, <1>2, CaptureMoves

LEMMA FinallyKeeps == BoundariesInv /\ Finally => BoundariesInv'
<1> SUFFICES ASSUME BoundariesInv, Finally PROVE BoundariesInv'
  OBVIOUS
<1>1. /\ where = "finally"
      /\ UNCHANGED <<born, seen, call, verdict, payloads, files, executes, restarts>>
      /\ TypeOK /\ MethodOK /\ CaptureOK /\ PayloadOK
      /\ \/ Armed /\ where' = "readback" /\ capture' = [capture EXCEPT !.bindings = <<>>]
         \/ where' = "idle" /\ capture' = NoCapture
  BY DEF Finally, BoundariesInv
<1>2. method' = NoWrappers /\ own' = born
  <2>1. PICK back : /\ back = Restore([method |-> method, own |-> own], capture.bindings)
                    /\ method' = back.method /\ own' = back.own
    BY DEF Finally
  <2>2. back = [method |-> NoWrappers, own |-> born]
    BY <1>1, <2>1, MethodsAre
  <2>. QED
    BY <2>1, <2>2
<1>3. TypeOK'
  BY <1>1 DEF TypeOK
<1>4. Original' /\ born' \in [Objects -> BOOLEAN]
  <2>1. NoWrappers' = NoWrappers
    BY DEF NoWrappers
  <2>. QED
    BY <1>1, <1>2, <2>1 DEF Original, MethodOK
<1>5. CASE where' = "idle" /\ capture' = NoCapture
  <2>1. MethodOK'
    BY <1>4, <1>5, NoCaptureIs DEF MethodOK
  <2>2. CaptureOK'
    BY <1>5, NoCaptureIs DEF CaptureOK
  <2>3. PayloadOK'
    BY <1>1, <1>5, PayloadsStay
  <2>. QED
    BY <1>3, <2>1, <2>2, <2>3 DEF BoundariesInv
<1>6. CASE Armed /\ where' = "readback" /\ capture' = [capture EXCEPT !.bindings = <<>>]
  <2>1. PICK d : d = [run |-> capture.run, saved |-> capture.saved, bytes |-> capture.bytes,
                      errors |-> capture.errors, bindings |-> <<>>,
                      counted |-> capture.counted, read |-> capture.read]
    OBVIOUS
  <2>2. capture' = d
    <3>1. PICK saved, bytes, errors, read, run, bindings, counted :
            capture = [run |-> run, saved |-> saved, bytes |-> bytes, errors |-> errors,
                       bindings |-> bindings, counted |-> counted, read |-> read]
      BY <1>1 DEF CaptureOK, IsCapture
    <3>2. [capture EXCEPT !.bindings = <<>>] =
            [run |-> run, saved |-> saved, bytes |-> bytes, errors |-> errors,
             bindings |-> <<>>, counted |-> counted, read |-> read]
      BY <3>1
    <3>3. d = [run |-> run, saved |-> saved, bytes |-> bytes, errors |-> errors,
               bindings |-> <<>>, counted |-> counted, read |-> read]
      BY <2>1, <3>1
    <3>. QED
      BY <1>6, <3>2, <3>3
  <2>3. /\ d.run = capture.run /\ d.saved = capture.saved /\ d.bytes = capture.bytes
        /\ d.errors = capture.errors /\ d.bindings = <<>> /\ d.counted = capture.counted
        /\ d.read = capture.read
    BY <2>1
  <2>4. IsCapture(d)
    BY <1>1, <2>1, <2>3 DEF CaptureOK, IsCapture
  <2>5. capture # NoCapture /\ capture.run \in Runs /\ d # NoCapture
    BY <1>1, <1>6, <2>3, RunArmed DEF Armed, CaptureOK, TypeOK
  <2>6. MethodOK'
    BY <1>4, <2>2, <2>3 DEF MethodOK
  <2>7. CaptureOK'
    BY <1>1, <1>6, <2>2, <2>3, <2>4, <2>5 DEF CaptureOK, ReadOK
  <2>8. PayloadOK'
    BY <1>1, <2>2, <2>3, <2>5, PayloadsStay
  <2>. QED
    BY <1>3, <2>6, <2>7, <2>8 DEF BoundariesInv
<1>. QED
  BY <1>1, <1>5, <1>6

\* Calls without a capture.
LEMMA PassKeeps ==
  ASSUME BoundariesInv, where = "idle", where' = "model", call' = 1, verdict' = "none",
         executes' = executes + 1, seen' \in SUBSET Runs, seen \subseteq seen',
         UNCHANGED <<method, own, born, capture, payloads, files, restarts>>
  PROVE  BoundariesInv'
<1>1. TypeOK /\ MethodOK /\ CaptureOK /\ PayloadOK /\ capture = NoCapture
  BY DEF BoundariesInv, CaptureOK
<1>2. TypeOK'
  BY <1>1 DEF TypeOK
<1>3. MethodOK'
  BY <1>1, MethodsStay
<1>4. CaptureOK'
  BY <1>1, NoCaptureIs DEF CaptureOK
<1>5. PayloadOK'
  BY <1>1, PayloadsStay
<1>. QED
  BY <1>2, <1>3, <1>4, <1>5 DEF BoundariesInv

LEMMA NewCaptureIs ==
  ASSUME NEW r \in Runs
  PROVE  /\ IsCapture(NewCapture(r)) /\ NewCapture(r).run = r
         /\ NewCapture(r).bindings = <<>> /\ NewCapture(r).read = <<>>
<1>1. <<>> \in Seq(Stages)
  OBVIOUS
<1>2. PICK n \in Nat : n = 0
  OBVIOUS
<1>3. PICK k, e, z : k = NoCapture /\ e = <<>> /\ z = {}
  OBVIOUS
<1>4. k = [run |-> "none", saved |-> e, bytes |-> n, errors |-> n,
           bindings |-> e, counted |-> z, read |-> e]
  BY <1>2, <1>3 DEF NoCapture
<1>5. PICK c : c = [k EXCEPT !.run = r]
  OBVIOUS
<1>6. c = [run |-> r, saved |-> e, bytes |-> n, errors |-> n,
           bindings |-> e, counted |-> z, read |-> e]
  BY <1>4, <1>5
<1>7. /\ c.run = r /\ c.saved = e /\ c.bytes = n /\ c.errors = n
      /\ c.bindings = e /\ c.counted = z /\ c.read = e
  BY <1>6
<1>8. NewCapture(r) = c
  BY <1>3, <1>5 DEF NewCapture
<1>9. IsCapture(c)
  BY <1>1, <1>3, <1>6, <1>7 DEF IsCapture
<1>. QED
  BY <1>3, <1>7, <1>8, <1>9

LEMMA AdmitKeeps == BoundariesInv /\ Admit => BoundariesInv'
<1> SUFFICES ASSUME BoundariesInv, Admit PROVE BoundariesInv'
  OBVIOUS
<1>1. /\ where = "idle" /\ where' = "model" /\ call' = 1 /\ verdict' = "none"
      /\ executes' = executes + 1
      /\ UNCHANGED <<born, payloads, files, restarts>>
      /\ TypeOK /\ MethodOK /\ CaptureOK /\ PayloadOK /\ capture = NoCapture
  BY DEF Admit, BoundariesInv, CaptureOK
<1>2. Original /\ born \in [Objects -> BOOLEAN]
  BY <1>1, MethodsAre, NoCaptureIs DEF MethodOK
<1>r. PICK r \in Runs \ seen, n \in 0 .. Len(Sites), half \in BOOLEAN :
        LET v == Wrap(SubSeq(Sites, 1, n))
            recorded == IF half THEN Append(v.bindings, Binding(v, Sites[n + 1])) ELSE v.bindings
            back == Restore([method |-> v.method, own |-> v.own], recorded)
        IN  /\ half => n # Len(Sites)
            /\ seen' = seen \cup {r}
            /\ IF n = Len(Sites)
               THEN /\ capture' = [NewCapture(r) EXCEPT !.bindings = v.bindings]
                    /\ method' = v.method /\ own' = v.own
               ELSE /\ capture' = Error(NewCapture(r))
                    /\ method' = back.method /\ own' = back.own
  BY Zenon DEF Admit, SeenAfter
<1>3. PICK w :
        /\ w = Wrap(SubSeq(Sites, 1, n))
        /\ seen' = seen \cup {r}
        /\ IF n = Len(Sites)
           THEN /\ capture' = [NewCapture(r) EXCEPT !.bindings = w.bindings]
                /\ method' = w.method /\ own' = w.own
           ELSE LET recorded == IF half THEN Append(w.bindings, Binding(w, Sites[n + 1]))
                                ELSE w.bindings
                    back == Restore([method |-> w.method, own |-> w.own], recorded)
                IN  /\ capture' = Error(NewCapture(r))
                    /\ method' = back.method /\ own' = back.own
  BY <1>r
<1>4. w = WrapTo(n)
  <2>1. [method |-> method, own |-> own, bindings |-> <<>>] = Base
    BY <1>2 DEF Original, Base
  <2>. QED
    BY <1>3, <2>1 DEF Wrap, WrapTo
<1>5. TypeOK'
  BY <1>1, <1>3 DEF TypeOK
<1>6. Full' = Full /\ NoWrappers' = NoWrappers
  BY <1>1 DEF Full, WrapTo, Base, NoWrappers
<1>7. MethodOK' /\ IsCapture(capture') /\ capture'.run = r /\ capture'.read = <<>>
  <2>1. CASE n = Len(Sites)
    <3>1. /\ capture' = [NewCapture(r) EXCEPT !.bindings = w.bindings]
          /\ method' = w.method /\ own' = w.own /\ w = Full
      <4>1. PICK x : x = w.bindings
        OBVIOUS
      <4>2. /\ capture' = [NewCapture(r) EXCEPT !.bindings = x]
            /\ method' = w.method /\ own' = w.own
        BY <1>3, <2>1, <4>1
      <4>. QED
        BY <1>4, <2>1, <4>1, <4>2 DEF Full
    <3>2. PICK b : b = w.bindings
      OBVIOUS
    <3>3. /\ IsCapture(capture') /\ capture'.run = r /\ capture'.bindings = b
          /\ capture'.read = <<>>
      <4>1. PICK k : k = NewCapture(r)
        OBVIOUS
      <4>2. capture' = [k EXCEPT !.bindings = b]
        BY <3>1, <3>2, <4>1
      <4>3. IsCapture(k) /\ k.run = r /\ k.read = <<>>
        BY <4>1, NewCaptureIs
      <4>4. capture' = [run |-> k.run, saved |-> k.saved, bytes |-> k.bytes,
                        errors |-> k.errors, bindings |-> b, counted |-> k.counted,
                        read |-> k.read]
        BY <4>2, <4>3 DEF IsCapture
      <4>5. /\ capture'.run = k.run /\ capture'.saved = k.saved
            /\ capture'.bytes = k.bytes /\ capture'.errors = k.errors
            /\ capture'.bindings = b /\ capture'.counted = k.counted
            /\ capture'.read = k.read
        BY <4>4
      <4>6. IsCapture(capture')
        BY <4>3, <4>4, <4>5 DEF IsCapture
      <4>. QED
        BY <4>3, <4>5, <4>6
    <3>4. MethodOK'
      BY <1>1, <1>2, <1>6, <3>1, <3>2, <3>3 DEF MethodOK
    <3>. QED
      BY <3>3, <3>4
  <2>2. CASE n # Len(Sites)
    <3>1. PICK recorded, back :
                      /\ recorded = IF half THEN Append(w.bindings, Binding(w, Sites[n + 1]))
                                    ELSE w.bindings
                      /\ back = Restore([method |-> w.method, own |-> w.own], recorded)
                      /\ capture' = Error(NewCapture(r))
                      /\ method' = back.method /\ own' = back.own
      BY <1>3, <2>2
    <3>2. Restore(Unbound(w), w.bindings) = Unbound(Base)
      BY <1>2, <1>4, WrapToIs
    <3>h. Restore(Unbound(w), recorded) = Restore(Unbound(w), w.bindings)
      <4>1. Sites[n + 1] \in Range(Sites)
        <5>1. n + 1 \in DOMAIN Sites
          BY <2>2, BoundariesAssumption
        <5>. QED
          BY <5>1 DEF Range
      <4>2. Bare(w) /\ \E S : w.bindings \in Seq(S)
        BY <1>2, <1>4, WrapToIs
      <4>3. RestoreOne(Unbound(w), Binding(w, Sites[n + 1])) = Unbound(w)
        BY <4>1, <4>2, RestoreHalf
      <4>4. Restore(Unbound(w), Append(w.bindings, Binding(w, Sites[n + 1])))
              = Restore(Unbound(w), w.bindings)
        BY <4>2, <4>3, RestoreMore
      <4>. QED
        BY <3>1, <4>4
    <3>3. back.method = NoWrappers /\ back.own = born
      BY <3>1, <3>2, <3>h DEF Unbound, Base
    <3>4. /\ IsCapture(capture') /\ capture'.run = r /\ capture'.bindings = <<>>
          /\ capture'.read = <<>>
      BY <3>1, NewCaptureIs, ErrorIs DEF Later
    <3>5. MethodOK'
      BY <1>1, <1>2, <1>6, <3>1, <3>3, <3>4 DEF MethodOK, Original
    <3>. QED
      BY <3>4, <3>5
  <2>. QED
    BY <2>1, <2>2
<1>8. CaptureOK'
  <2>1. executes' > 0
    BY <1>1 DEF TypeOK
  <2>2. Range(<<>>) = {}
    BY DEF Range
  <2>. QED
    BY <1>1, <1>3, <1>7, <2>1, <2>2 DEF CaptureOK, ReadOK
<1>9. PayloadOK'
  BY <1>1, <1>3, <1>7, PayloadsStay
<1>. QED
  BY <1>5, <1>7, <1>8, <1>9 DEF BoundariesInv

LEMMA RestartKeeps == BoundariesInv /\ Restart => BoundariesInv'
<1> SUFFICES ASSUME BoundariesInv, Restart PROVE BoundariesInv'
  OBVIOUS
<1>1. /\ restarts' = restarts + 1 /\ method' = NoWrappers
      /\ born' \in OwnAtStart /\ own' = born'
      /\ seen' = {} /\ capture' = NoCapture /\ where' = "idle" /\ call' = 1
      /\ verdict' = "none" /\ UNCHANGED <<payloads, files, executes>>
      /\ TypeOK /\ PayloadOK
  BY DEF Restart, BoundariesInv, NoWrappers
<1>2. TypeOK'
  BY <1>1 DEF TypeOK
<1>3. MethodOK'
  <2>1. born' \in [Objects -> BOOLEAN]
    BY <1>1, BoundariesAssumption
  <2>2. NoWrappers' = NoWrappers
    BY DEF NoWrappers
  <2>. QED
    BY <1>1, <2>1, <2>2, NoCaptureIs DEF MethodOK, Original
<1>4. CaptureOK'
  BY <1>1, NoCaptureIs DEF CaptureOK
<1>5. PayloadOK'
  <2>1. restarts' # 0
    BY <1>1 DEF TypeOK
  <2>. QED
    BY <1>1, <2>1 DEF PayloadOK, WholePayload, OncePerRun
<1>. QED
  BY <1>2, <1>3, <1>4, <1>5 DEF BoundariesInv

LEMMA ReadBackKeeps == BoundariesInv /\ ReadBack => BoundariesInv'
<1> SUFFICES ASSUME BoundariesInv, ReadBack PROVE BoundariesInv'
  OBVIOUS
<1>1. /\ where = "readback" /\ Len(capture.saved) > 0
      /\ UNCHANGED <<method, own, born, seen, where, call, verdict, payloads,
                     executes, restarts>>
      /\ TypeOK /\ MethodOK /\ CaptureOK /\ PayloadOK /\ IsCapture(capture)
      /\ capture # NoCapture /\ capture.run \in Runs
  BY DEF ReadBack, BoundariesInv, CaptureOK, TypeOK
<1>2. PICK s, rest : s = Head(capture.saved) /\ rest = Tail(capture.saved)
  OBVIOUS
<1>3. s \in Stages /\ rest \in Seq(Stages)
  <2>1. PICK q \in Seq(Stages) : q = capture.saved
    BY <1>1 DEF IsCapture
  <2>2. q # <<>>
    BY <1>1, <2>1
  <2>3. Head(q) \in Stages /\ Tail(q) \in Seq(Stages)
    BY <2>2, HeadTailProperties
  <2>. QED
    BY <1>2, <2>1, <2>3
<1>4. PICK c : c = [capture EXCEPT !.saved = rest]
  OBVIOUS
<1>5. PICK created : created = [files EXCEPT ![c.run][s] = executes]
  OBVIOUS
<1>6. \/ /\ SaveTensors => MayCreate(c.run, s)
         /\ capture' = [c EXCEPT !.read = Append(@, s)]
         /\ files' = IF SaveTensors /\ MayCreate(c.run, s) THEN created ELSE files
      \/ capture' = Error(c) /\ files' = files
      \/ MayCreate(c.run, s) /\ capture' = Error(c) /\ files' = created
  BY <1>2, <1>4, <1>5 DEF ReadBack
<1>7. IsCapture(c) /\ Later(c, capture)
  <2>1. PICK d : d = [run |-> capture.run, saved |-> rest, bytes |-> capture.bytes,
                      errors |-> capture.errors, bindings |-> capture.bindings,
                      counted |-> capture.counted, read |-> capture.read]
    OBVIOUS
  <2>2. c = d
    <3>1. PICK saved, bytes, errors, read, run, bindings, counted :
            capture = [run |-> run, saved |-> saved, bytes |-> bytes, errors |-> errors,
                       bindings |-> bindings, counted |-> counted, read |-> read]
      BY <1>1 DEF IsCapture
    <3>2. c = [run |-> run, saved |-> rest, bytes |-> bytes, errors |-> errors,
               bindings |-> bindings, counted |-> counted, read |-> read]
      BY <1>4, <3>1
    <3>3. d = [run |-> run, saved |-> rest, bytes |-> bytes, errors |-> errors,
               bindings |-> bindings, counted |-> counted, read |-> read]
      BY <2>1, <3>1
    <3>. QED
      BY <3>2, <3>3
  <2>3. /\ d.run = capture.run /\ d.saved = rest /\ d.bytes = capture.bytes
        /\ d.errors = capture.errors /\ d.bindings = capture.bindings
        /\ d.counted = capture.counted /\ d.read = capture.read
    BY <2>1
  <2>4. IsCapture(d)
    BY <1>1, <1>3, <2>1, <2>3 DEF IsCapture
  <2>5. Later(d, capture)
    BY <1>1, <2>3 DEF Later, IsCapture
  <2>. QED
    BY <2>2, <2>4, <2>5
<1>8. /\ c.run = capture.run /\ c.bindings = capture.bindings /\ c.read = capture.read
      /\ capture.errors <= c.errors
  BY <1>7 DEF Later
<1>9. PICK e : e = Error(c)
  OBVIOUS
<1>10. IsCapture(e) /\ Later(e, c)
  BY <1>7, <1>9, ErrorIs
<1>11. PICK d : d = [c EXCEPT !.read = Append(@, s)]
  OBVIOUS
<1>12. IsCapture(d) /\ d.run = c.run /\ d.bindings = c.bindings /\ d.errors = c.errors
       /\ d.read = Append(c.read, s)
  <2>1. PICK q : q = Append(c.read, s)
    OBVIOUS
  <2>2. q \in Seq(Stages)
    <3>1. PICK p \in Seq(Stages) : p = c.read
      BY <1>7 DEF IsCapture
    <3>. QED
      BY <1>3, <2>1, <3>1, AppendProperties
  <2>3. PICK u : u = [run |-> c.run, saved |-> c.saved, bytes |-> c.bytes,
                      errors |-> c.errors, bindings |-> c.bindings,
                      counted |-> c.counted, read |-> q]
    OBVIOUS
  <2>4. d = u
    <3>1. PICK saved, bytes, errors, read, run, bindings, counted :
            c = [run |-> run, saved |-> saved, bytes |-> bytes, errors |-> errors,
                 bindings |-> bindings, counted |-> counted, read |-> read]
      BY <1>7 DEF IsCapture
    <3>2. d = [c EXCEPT !.read = q]
      BY <1>11, <2>1
    <3>3. d = [run |-> run, saved |-> saved, bytes |-> bytes, errors |-> errors,
               bindings |-> bindings, counted |-> counted, read |-> q]
      BY <3>1, <3>2
    <3>4. u = [run |-> run, saved |-> saved, bytes |-> bytes, errors |-> errors,
               bindings |-> bindings, counted |-> counted, read |-> q]
      BY <2>3, <3>1
    <3>. QED
      BY <3>3, <3>4
  <2>5. /\ u.run = c.run /\ u.saved = c.saved /\ u.bytes = c.bytes
        /\ u.errors = c.errors /\ u.bindings = c.bindings
        /\ u.counted = c.counted /\ u.read = q
    BY <2>3
  <2>6. IsCapture(u)
    BY <1>7, <2>2, <2>3, <2>5 DEF IsCapture
  <2>. QED
    BY <2>1, <2>4, <2>5, <2>6
<1>13. /\ IsCapture(capture') /\ capture'.run = capture.run
       /\ capture'.bindings = capture.bindings /\ capture.errors <= capture'.errors
       /\ \/ capture'.read = capture.read
          \/ /\ capture'.read = Append(capture.read, s)
             /\ SaveTensors => MayCreate(capture.run, s) /\ files' = created
  <2>1. CASE capture' = e
    <3>1. e.run = c.run /\ e.bindings = c.bindings /\ e.read = c.read
      BY <1>10 DEF Later
    <3>2. PICK x \in Nat, y \in Nat, z \in Nat :
            x = capture.errors /\ y = c.errors /\ z = e.errors
      BY <1>1, <1>7, <1>10 DEF IsCapture
    <3>3. x <= y /\ y <= z
      BY <1>8, <1>10, <3>2 DEF Later
    <3>4. capture.errors <= e.errors
      BY <3>2, <3>3
    <3>. QED
      BY <1>8, <1>10, <2>1, <3>1, <3>4
  <2>2. CASE /\ SaveTensors => MayCreate(c.run, s)
             /\ capture' = d
             /\ files' = IF SaveTensors /\ MayCreate(c.run, s) THEN created ELSE files
    BY <1>8, <1>12, <2>2
  <2>. QED
    BY <1>6, <1>9, <1>11, <2>1, <2>2
<1>14. files' = files \/ (MayCreate(capture.run, s) /\ files' = created)
  BY <1>6, <1>8
\* A file that is not 0 stays.
<1>15. /\ files' \in [Runs -> [Stages -> Nat]]
       /\ \A r \in Runs, t \in Stages : files[r][t] # 0 => files'[r][t] = files[r][t]
       /\ files' = created => files'[capture.run][s] = executes
       /\ \A t \in Stages : t # s => files'[capture.run][t] = files[capture.run][t]
  <2>1. files \in [Runs -> [Stages -> Nat]] /\ executes \in Nat
    BY <1>1 DEF TypeOK
  <2>2. created = [files EXCEPT ![capture.run] = [files[capture.run] EXCEPT ![s] = executes]]
    BY <1>5, <1>8, <2>1
  <2>3. MayCreate(capture.run, s) => files[capture.run][s] = 0
    BY DEF MayCreate
  <2>4. /\ created \in [Runs -> [Stages -> Nat]]
        /\ created[capture.run] = [files[capture.run] EXCEPT ![s] = executes]
        /\ \A r \in Runs : r # capture.run => created[r] = files[r]
    BY <1>1, <2>1, <2>2
  <2>5. /\ created[capture.run][s] = executes
        /\ \A t \in Stages : t # s => created[capture.run][t] = files[capture.run][t]
    BY <1>1, <1>3, <2>1, <2>4
  <2>. QED
    BY <1>1, <1>14, <2>1, <2>3, <2>4, <2>5
<1>16. TypeOK'
  BY <1>1, <1>15 DEF TypeOK
<1>17. MethodOK'
  BY <1>1, <1>13, MethodsStay
<1>18. ReadOK(capture', files', executes')
  <2>1. SUFFICES ASSUME SaveTensors, NEW t \in Range(capture'.read)
                 PROVE  files'[capture.run][t] = executes
    BY <1>1, <1>13 DEF ReadOK
  <2>2. PICK p \in Seq(Stages) : p = capture.read
    BY <1>1 DEF IsCapture
  <2>3. \A x \in Range(p) : x \in Stages /\ files[capture.run][x] = executes /\ executes > 0
    BY <1>1, <2>1, <2>2 DEF CaptureOK, ReadOK, Range
  <2>4. CASE t \in Range(p)
    <3>1. t \in Stages /\ files[capture.run][t] = executes /\ executes > 0
      BY <2>3, <2>4
    <3>2. files[capture.run][t] # 0
      BY <1>1, <3>1 DEF TypeOK
    <3>. QED
      BY <1>1, <1>15, <3>1, <3>2
  <2>5. CASE t \notin Range(p)
    <3>1. capture'.read = Append(p, s) /\ files' = created
      BY <1>13, <2>1, <2>2, <2>5
    <3>2. t = s
      <4>1. PICK i \in DOMAIN Append(p, s) : t = Append(p, s)[i]
        BY <2>1, <3>1 DEF Range
      <4>2. i \in 1 .. Len(p) => Append(p, s)[i] = p[i] /\ p[i] \in Range(p)
        BY DEF Range
      <4>3. i = Len(p) + 1
        BY <2>5, <4>1, <4>2
      <4>. QED
        BY <4>1, <4>3
    <3>. QED
      BY <1>15, <3>1, <3>2
  <2>. QED
    BY <2>4, <2>5
<1>19. CaptureOK'
  <2>1. capture' # NoCapture
    BY <1>1, <1>13, RunArmed
  <2>2. verdict = "returned" \/ (verdict = "raised" /\ capture'.errors > 0)
    <3>1. verdict = "returned" \/ (verdict = "raised" /\ capture.errors > 0)
      BY <1>1 DEF CaptureOK
    <3>. QED
      BY <1>1, <1>13, <3>1 DEF IsCapture
  <2>. QED
    BY <1>1, <1>13, <1>18, <2>1, <2>2 DEF CaptureOK
<1>20. PayloadOK'
  <2>1. ASSUME NEW i \in DOMAIN payloads
        PROVE  WholePayload(payloads[i], files')
    <3>1. WholePayload(payloads[i], files) /\ payloads[i].run \in Runs
          /\ payloads[i].execute \in Nat
      <4>1. WholePayload(payloads[i], files) /\ payloads[i] \in Payloads
        BY <1>1 DEF PayloadOK
      <4>. QED
        BY <4>1 DEF Payloads
    <3>2. SUFFICES ASSUME payloads[i].complete, SaveTensors, NEW t \in Stages
                   PROVE  files'[payloads[i].run][t] = payloads[i].execute
      BY <3>1 DEF WholePayload
    <3>3. files[payloads[i].run][t] = payloads[i].execute /\ payloads[i].execute > 0
      BY <3>1, <3>2 DEF WholePayload
    <3>4. files[payloads[i].run][t] # 0
      BY <3>1, <3>3
    <3>. QED
      BY <1>15, <3>1, <3>3, <3>4
  <2>2. OncePerRun'
    BY <1>1, <1>13 DEF PayloadOK, OncePerRun
  <2>. QED
    BY <1>1, <2>1, <2>2 DEF PayloadOK
<1>. QED
  BY <1>16, <1>17, <1>19, <1>20 DEF BoundariesInv

LEMMA WritePayloadKeeps == BoundariesInv /\ WritePayload => BoundariesInv'
<1> SUFFICES ASSUME BoundariesInv, WritePayload PROVE BoundariesInv'
  OBVIOUS
<1>1. /\ where = "readback" /\ where' = "idle" /\ capture' = NoCapture
      /\ UNCHANGED <<method, own, born, seen, call, verdict, files, executes, restarts>>
      /\ TypeOK /\ MethodOK /\ CaptureOK /\ PayloadOK /\ IsCapture(capture)
      /\ capture # NoCapture /\ capture.run \in Runs /\ capture.run \in seen
  BY DEF WritePayload, BoundariesInv, CaptureOK, TypeOK
<1>2. TypeOK'
  BY <1>1 DEF TypeOK
<1>3. MethodOK'
  <2>1. Original /\ born \in [Objects -> BOOLEAN]
    BY <1>1 DEF MethodOK
  <2>2. Original'
    BY <1>1, <2>1 DEF Original, NoWrappers
  <2>. QED
    BY <1>1, <2>1, <2>2, NoCaptureIs DEF MethodOK
<1>4. CaptureOK'
  BY <1>1, NoCaptureIs DEF CaptureOK
<1>5. PICK p : p = [run |-> capture.run, complete |-> Complete(capture),
                    read |-> capture.read, execute |-> executes, verdict |-> verdict]
  OBVIOUS
<1>6. payloads' = payloads \/ payloads' = Append(payloads, p)
  BY <1>5 DEF WritePayload
<1>7. PICK whole \in BOOLEAN : whole = Complete(capture)
  BY DEF Complete
<1>8. /\ p.run = capture.run /\ p.complete = whole /\ p.read = capture.read
      /\ p.execute = executes /\ p.verdict = verdict
  BY <1>5, <1>7
<1>9. p \in Payloads
  BY <1>1, <1>5, <1>7, <1>8 DEF Payloads, IsCapture, TypeOK
<1>10. WholePayload(p, files)
  <2>1. SUFFICES ASSUME whole
                 PROVE  /\ Range(capture.read) = Stages
                        /\ Len(capture.read) = Cardinality(Stages)
                        /\ verdict = "returned" /\ executes > 0
                        /\ SaveTensors => \A s \in Stages : files[capture.run][s] = executes
    BY <1>8 DEF WholePayload
  <2>2. Complete(capture)
    BY <1>7, <2>1
  <2>3. /\ Range(capture.read) = Stages /\ Len(capture.read) = Cardinality(Stages)
        /\ capture.errors = 0
    BY <2>2 DEF Complete
  <2>4. verdict = "returned" /\ executes > 0
    BY <1>1, <2>3 DEF CaptureOK
  <2>5. SaveTensors => \A s \in Stages : files[capture.run][s] = executes
    BY <1>1, <2>3 DEF CaptureOK, ReadOK
  <2>. QED
    BY <2>3, <2>4, <2>5
<1>11. CASE payloads' = payloads
  BY <1>1, <1>2, <1>3, <1>4, <1>11, PayloadsStay DEF BoundariesInv
<1>12. CASE payloads' = Append(payloads, p)
  <2>1. PICK n \in Nat : n = Len(payloads) /\ DOMAIN payloads = 1 .. n
    BY <1>1 DEF PayloadOK
  <2>2. /\ payloads' \in Seq(Payloads) /\ DOMAIN payloads' = 1 .. n + 1
        /\ payloads'[n + 1] = p
        /\ \A i \in 1 .. n : payloads'[i] = payloads[i]
    BY <1>1, <1>9, <1>12, <2>1, AppendProperties DEF PayloadOK
  <2>3. \A i \in 1 .. n + 1 : i \in 1 .. n \/ i = n + 1
    OBVIOUS
  <2>4. \A i \in DOMAIN payloads' : WholePayload(payloads'[i], files')
    BY <1>1, <1>10, <2>1, <2>2, <2>3 DEF PayloadOK
  <2>5. OncePerRun'
    <3>1. SUFFICES ASSUME restarts = 0
                   PROVE  /\ \A i \in 1 .. n + 1 : payloads'[i].run \in seen
                          /\ \A i, j \in 1 .. n + 1 :
                               payloads'[i].run = payloads'[j].run => i = j
      BY <1>1, <2>2 DEF OncePerRun
    <3>2. /\ \A i \in 1 .. n : payloads[i].run \in seen /\ payloads[i].run # capture.run
          /\ \A i, j \in 1 .. n : payloads[i].run = payloads[j].run => i = j
      BY <1>1, <2>1, <3>1 DEF PayloadOK, OncePerRun
    <3>3. payloads'[n + 1].run = capture.run
      BY <1>8, <2>2
    <3>. QED
      BY <1>1, <2>2, <2>3, <3>2, <3>3
  <2>6. PayloadOK'
    BY <2>2, <2>4, <2>5 DEF PayloadOK
  <2>. QED
    BY <1>2, <1>3, <1>4, <2>6 DEF BoundariesInv
<1>. QED
  BY <1>6, <1>11, <1>12


-----------------------------------------------------------------------------
(* The invariant and what follows from it.                                   *)

LEMMA BoundariesNext == BoundariesInv /\ [Next]_vars => BoundariesInv'
<1> SUFFICES ASSUME BoundariesInv, [Next]_vars PROVE BoundariesInv'
  OBVIOUS
<1>1. CASE Admit
  BY <1>1, AdmitKeeps
<1>2. CASE AdmitMalformed
  <2>1. /\ where = "idle" /\ where' = "model" /\ call' = 1 /\ verdict' = "none"
        /\ executes' = executes + 1
        /\ UNCHANGED <<method, own, born, capture, payloads, files, restarts>>
        /\ \E r \in Runs \ seen : seen' = seen \cup {r}
    BY <1>2 DEF AdmitMalformed, SeenAfter
  <2>2. seen' \in SUBSET Runs /\ seen \subseteq seen'
    BY <2>1 DEF BoundariesInv, TypeOK
  <2>. QED
    BY <2>1, <2>2, PassKeeps
<1>3. CASE Pass
  <2>1. /\ where = "idle" /\ where' = "model" /\ call' = 1 /\ verdict' = "none"
        /\ executes' = executes + 1
        /\ UNCHANGED <<method, own, born, seen, capture, payloads, files, restarts>>
        /\ seen' \in SUBSET Runs /\ seen \subseteq seen'
    BY <1>3 DEF Pass, BoundariesInv, TypeOK
  <2>. QED
    BY <2>1, PassKeeps
<1>4. CASE CallMethod
  BY <1>4, CallMethodKeeps
<1>5. CASE ModelRaises
  BY <1>5, ModelRaisesKeeps
<1>6. CASE ModelReturns
  BY <1>6, ModelReturnsKeeps
<1>7. CASE Finally
  BY <1>7, FinallyKeeps
<1>8. CASE ReadBack
  BY <1>8, ReadBackKeeps
<1>9. CASE WritePayload
  BY <1>9, WritePayloadKeeps
<1>10. CASE Restart
  BY <1>10, RestartKeeps
<1>11. CASE UNCHANGED vars
  <2>1. TypeOK /\ MethodOK /\ CaptureOK /\ PayloadOK
    BY DEF BoundariesInv
  <2>2. /\ UNCHANGED <<method, own, born, seen, capture, where>>
        /\ UNCHANGED <<call, verdict, payloads, files, executes, restarts>>
    BY <1>11 DEF vars
  <2>3. TypeOK'
    BY <2>1, <2>2 DEF TypeOK
  <2>4. MethodOK'
    BY <2>1, <2>2, MethodsStay
  <2>5. CaptureOK'
    BY <2>1, <2>2 DEF CaptureOK, ReadOK
  <2>6. PayloadOK'
    BY <2>1, <2>2, PayloadsStay
  <2>. QED
    BY <2>3, <2>4, <2>5, <2>6 DEF BoundariesInv
<1>. QED
  BY <1>1, <1>2, <1>3, <1>4, <1>5, <1>6, <1>7, <1>8, <1>9, <1>10, <1>11 DEF Next

LEMMA BoundariesInvHolds == Spec => []BoundariesInv
BY BoundariesInit, BoundariesNext, PTL DEF Spec

\* For every layout of the boundaries over the objects, shared ones included, every
\* run and every way admission, the forward or the copies fail, the methods are the
\* original ones again when the step is over, and when its admission was refused.
THEOREM NothingAlwaysStaysWrapped == Spec => []NothingStaysWrapped
<1>1. BoundariesInv => NothingStaysWrapped
  <2> SUFFICES ASSUME BoundariesInv,
                      \/ where \in {"idle", "readback"}
                      \/ where = "model" /\ capture.bindings = <<>>
               PROVE  own = born /\ \A o \in Objects : method[o] = <<>>
    BY DEF NothingStaysWrapped
  <2>1. MethodOK
    BY DEF BoundariesInv
  <2>2. Original
    BY <2>1, MethodsAre DEF MethodOK
  <2>. QED
    BY <2>2 DEF Original, NoWrappers
<1>. QED
  BY <1>1, BoundariesInvHolds, PTL

\* A payload that says it is complete is one call's whole evidence, a process writes
\* at most one for a run id, and the raw files stay those of the complete payload,
\* for any number of runs, calls, failures and restarts.
THEOREM EvidenceAlwaysOneCall == Spec => []EvidenceIsOneCall
<1>1. BoundariesInv => EvidenceIsOneCall
  <2> SUFFICES ASSUME BoundariesInv PROVE EvidenceIsOneCall
    OBVIOUS
  <2>1. (\A i \in DOMAIN payloads : WholePayload(payloads[i], files)) /\ OncePerRun
    BY DEF BoundariesInv, PayloadOK
  <2>. QED
    BY <2>1 DEF EvidenceIsOneCall, WholePayload, OncePerRun
<1>. QED
  BY <1>1, BoundariesInvHolds, PTL
=============================================================================
