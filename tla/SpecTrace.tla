------------------------------ MODULE SpecTrace ------------------------------
(***************************************************************************)
(* The sampling trace of _mimo_spec_trace.py on rank 0.  Three wrappers     *)
(* share one Trace: add_requests registers the allowed prompts and reads    *)
(* the configuration file again, sample opens and closes a context, and     *)
(* apply_sampling_params fills it in.  The engine calls them one after the  *)
(* other on one thread; an operator edits the file at any time.             *)
(*                                                                          *)
(* An output position of a request counts from its first sampled token.  A  *)
(* decode step has one row per draft and one more; row i is the logits of   *)
(* output outs + i, and the first n rows are emitted.  A preempted request  *)
(* runs through its tokens again, perhaps in chunks, whose one row is that  *)
(* of an output it already has and samples nothing.                         *)
(***************************************************************************)
EXTENDS Integers, FiniteSets

CONSTANTS
    Req,          \* requests; each one is added once and may be preempted
    Prompt,       \* Prompt[r]: its prompt's hash
    Configs,      \* what the configuration file may say
    Torn,         \* the file while it is being written
    NumDrafts,    \* drafts verified in a step
    Slack,        \* steps allowed beyond max_output_positions
    MaxOut,       \* bound: output tokens of a request
    MaxEdits,     \* bound: edits of the file
    MaxPreempts,  \* bound: preemptions
    MaxChunks     \* bound: chunks of preempted requests that end in their outputs

ASSUME TraceAssumption ==
    /\ IsFiniteSet(Req)
    /\ NumDrafts \in Nat /\ Slack \in Nat
    /\ MaxOut \in Nat /\ MaxEdits \in Nat
    /\ MaxPreempts \in Nat /\ MaxChunks \in Nat
    /\ Torn \notin Configs
    /\ \A c \in Configs :
         c.start \in Nat /\ c.max \in Nat /\ c.requests \in Nat /\ c.reference \in BOOLEAN

\* The steps allowed beyond max_output_positions (16 in the code) cover the drafts
\* with which a step reaches into the window and the chunks of preempted requests.
ASSUME SlackAssumption == NumDrafts + MaxChunks <= Slack

VARIABLES
    file,      \* the configuration file
    installed, \* the configuration read by install
    trace,     \* state["trace"], or NoTrace
    context,   \* trace.current.context: the traced request, or NoContext
    status,    \* status[r]: where the scheduler has r
    outs,      \* outs[r]: output tokens r has
    batch,     \* the step's work: the rows of each request in it
    phase,     \* the call in progress
    failed,    \* whose exception left the call: "none", "model" or "trace"
    emitted,   \* emitted[r][o]: rows on file that say output o of r was sampled
    alone,     \* registered requests every step of which since ran alone
    edits, preempts, chunks

traceVars == <<file, installed, trace, context, status, outs, batch, phase, failed,
          emitted, alone, edits, preempts, chunks>>

Outputs == 0..(MaxOut + NumDrafts)
NoTrace == [config |-> Torn, steps |-> [r \in {} |-> 0], count |-> 0, stopped |-> FALSE]
NoContext == [req |-> "none", rows |-> 0]

\* The hard caps of Trace.__init__.
Valid(c) ==
    /\ Cardinality(c.allowed) \in 1..4
    /\ c.max \in 1..512 /\ c.start \in 0..4096 /\ c.requests \in 1..4

NewTrace(c) == [NoTrace EXCEPT !.config = c]

\* get_trace: the trace to use from now on, and whether reading the file or making
\* the trace raised; ok is whether the start record could be written.
Renewed(c) == trace = NoTrace \/ trace.config # c
GetTrace(refresh, ok) ==
    LET c == IF refresh THEN file ELSE installed
        make == IF refresh THEN Renewed(c) ELSE trace = NoTrace
    IN  IF c = Torn \/ (make /\ (~Valid(c) \/ ~ok)) THEN [raised |-> TRUE, trace |-> trace]
        ELSE [raised |-> FALSE, trace |-> IF make THEN NewTrace(c) ELSE trace]

\* register, for one request: allowed prompts, up to max_requests of them.  The
\* steps of a request registered again start from zero.
Registers(t, r) == Prompt[r] \in t.config.allowed /\ t.count < t.config.requests
Register(t, r) ==
    IF Registers(t, r)
    THEN [t EXCEPT !.count = @ + 1,
                   !.steps = [q \in DOMAIN @ \cup {r} |-> IF q = r THEN 0 ELSE @[q]]]
    ELSE t

\* Fault: a step that only reaches into the window with its later rows is outside.
OverlapsFirst(c, first, last) == first < c.start + c.max /\ first >= c.start

\* Do rows first..last reach into the output window?
Overlaps(c, first, last) == first < c.start + c.max /\ last >= c.start

\* Fault: steps outside the window use up the step budget too.
CountsAll(t, r, first, last) == TRUE

Counts(t, r, first, last) == Overlaps(t.config, first, last)

Traces(t) == ~t.stopped

\* Rows i < num_sampled.
EmittedRows(first, rows, n) == {first + i : i \in {j \in 0..(rows - 1) : j < n}}

-----------------------------------------------------------------------------
(* What the scheduler may run of a request in a step.                        *)

Live == {"running", "resumed"}
NoRows == [first |-> 0, rows |-> 0, samples |-> FALSE]

\* The end of what there is to compute before decoding: the rows that sample.
Sampling(r, drafts) == [first |-> outs[r], rows |-> drafts + 1, samples |-> TRUE]

\* A chunk ends inside the prompt, or, of a preempted request, at an output.
Chunks(r) ==
    {NoRows} \cup {[first |-> o, rows |-> 1, samples |-> FALSE] : o \in 0..(outs[r] - 1)}

Work(r, resumed) ==
    IF resumed THEN {Sampling(r, 0)} \cup (IF chunks < MaxChunks THEN Chunks(r) ELSE {})
    ELSE IF outs[r] = 0 THEN {Sampling(r, 0), NoRows}
    ELSE {Sampling(r, d) : d \in 0..NumDrafts}

TraceInit ==
    /\ file \in Configs
    /\ installed = file
    /\ trace = NoTrace
    /\ context = NoContext
    /\ status = [r \in Req |-> "new"]
    /\ outs = [r \in Req |-> 0]
    /\ batch = [r \in {} |-> NoRows]
    /\ phase = "execute"
    /\ failed = "none"
    /\ emitted = [r \in Req |-> [o \in Outputs |-> 0]]
    /\ alone = {}
    /\ edits = 0
    /\ preempts = 0
    /\ chunks = 0

\* The operator writes the file, not atomically.
Edit ==
    /\ edits < MaxEdits
    /\ edits' = edits + 1
    /\ file' \in (Configs \cup {Torn}) \ {file}
    /\ UNCHANGED <<installed, trace, context, status, outs, batch, phase, failed,
                   emitted, alone, preempts, chunks>>

\* The scheduler takes a request out until it has room again.
Preempt ==
    /\ phase = "execute"
    /\ preempts < MaxPreempts
    /\ \E r \in Req : status[r] \in Live /\ status' = [status EXCEPT ![r] = "preempted"]
    /\ preempts' = preempts + 1
    /\ UNCHANGED <<file, installed, trace, context, outs, batch, phase, failed,
                   emitted, alone, edits, chunks>>

\* add_requests, then the forward, for a step that adds at most one request.  The
\* added one is registered if its tokens are its prompt's; a resumed one with
\* outputs is not.  Registering writes a record, which may fail.
Execute ==
    /\ phase = "execute"
    /\ \E new \in {{}} \cup {{r} : r \in {q \in Req : status[q] \in {"new", "preempted"}}} :
       \E ok \in BOOLEAN :
         LET got == GetTrace(new # {}, ok)
             fresh == {r \in new : outs[r] = 0 /\ Registers(got.trace, r)}
             now == IF fresh = {} THEN got.trace
                    ELSE Register(got.trace, CHOOSE r \in fresh : TRUE)
             again == got.trace # trace
             running == {r \in Req : status[r] \in Live} \cup new
             resumed == {r \in running : status[r] \in {"preempted", "resumed"}}
         IN  /\ status' = [r \in Req |-> IF r \in resumed THEN "resumed"
                                         ELSE IF r \in new THEN "running" ELSE status[r]]
             /\ IF got.raised \/ (fresh # {} /\ ~ok)
                THEN /\ trace' = IF got.raised THEN trace ELSE now
                     /\ failed' = "trace" /\ phase' = "failed"
                     /\ UNCHANGED <<batch, alone, emitted, chunks>>
                ELSE /\ trace' = now
                     /\ \E S \in SUBSET running : S # {} /\ new \subseteq S /\
                          batch' \in {f \in [S -> UNION {Work(r, r \in resumed) : r \in S}] :
                                       \A r \in S : f[r] \in Work(r, r \in resumed)}
                     /\ chunks' = chunks + Cardinality({r \in DOMAIN batch' \cap resumed :
                                                          ~batch'[r].samples})
                     /\ alone' = ((IF again THEN {} ELSE alone) \cup fresh)
                                    \ (IF Cardinality(DOMAIN batch') = 1 THEN {} ELSE DOMAIN batch')
                     /\ emitted' = IF again THEN [r \in Req |-> [o \in Outputs |-> 0]] ELSE emitted
                     /\ phase' = "sample"
                     /\ UNCHANGED failed
    /\ UNCHANGED <<file, installed, context, outs, edits, preempts>>

\* sample's wrapper up to the original call: begin opens a context for one
\* registered request, past its prompt, inside the window and the step budget.
Begin ==
    /\ phase = "sample"
    /\ LET r == CHOOSE q \in DOMAIN batch : TRUE
           first == batch[r].first
           last == first + batch[r].rows - 1
       IN  IF /\ Traces(trace)
              /\ Cardinality(DOMAIN batch) = 1
              /\ r \in DOMAIN trace.steps
              /\ batch[r].rows > 0
              /\ Counts(trace, r, first, last)
           THEN /\ trace' = [trace EXCEPT !.steps[r] = @ + 1]
                /\ context' = IF /\ Overlaps(trace.config, first, last)
                                 /\ trace'.steps[r] <= trace.config.max + Slack
                              THEN [req |-> r, rows |-> batch[r].rows] ELSE context
           ELSE UNCHANGED <<trace, context>>
    /\ phase' = "sampling"
    /\ UNCHANGED <<file, installed, status, outs, batch, failed, emitted, alone,
                   edits, preempts, chunks>>

\* begin raises, which no clause around it catches: a copy from the device fails
\* before the step is counted or after, or the prefix is not the allowed prompt's.
BeginRaises ==
    /\ phase = "sample"
    /\ Traces(trace) /\ Cardinality(DOMAIN batch) = 1
    /\ \E r \in DOMAIN batch \cap DOMAIN trace.steps :
         LET first == batch[r].first
             last  == first + batch[r].rows - 1
         IN  \/ UNCHANGED trace
             \/ /\ batch[r].rows > 0
                /\ Counts(trace, r, first, last)
                /\ trace.steps[r] < trace.config.max + Slack
                /\ trace' = [trace EXCEPT !.steps[r] = @ + 1]
    /\ failed' = "trace" /\ phase' = "failed"
    /\ UNCHANGED <<file, installed, context, status, outs, batch, emitted, alone,
                   edits, preempts, chunks>>

\* The original sample raises, or the wrapper of apply_sampling_params inside it
\* while it fills in an open context; the finally clause closes the context.
SampleRaises ==
    /\ phase = "sampling"
    /\ context' = NoContext
    /\ failed' \in {"model"} \cup {w \in {"trace"} : context # NoContext}
    /\ phase' = "failed"
    /\ UNCHANGED <<file, installed, trace, status, outs, batch, emitted, alone,
                   edits, preempts, chunks>>

\* A row that differs from the reference stops the trace.
Stopped(t, diverged) == IF diverged THEN [t EXCEPT !.stopped = TRUE] ELSE t

\* The original sample returns n tokens of each request; finish writes the step,
\* looks for the first divergence, and may fail to write either.
Sample ==
    /\ phase = "sampling"
    /\ \E n \in [DOMAIN batch -> 0..(NumDrafts + 1)] :
         /\ \A r \in DOMAIN batch :
              n[r] \in IF batch[r].samples THEN 1..batch[r].rows ELSE {0}
         /\ outs' = [r \in Req |-> IF r \in DOMAIN batch THEN outs[r] + n[r] ELSE outs[r]]
         /\ status' = [r \in Req |-> IF r \notin DOMAIN batch \/ ~batch[r].samples THEN status[r]
                                     ELSE IF outs'[r] >= MaxOut THEN "done" ELSE "running"]
         /\ LET r == context.req
                rows == IF context = NoContext THEN {}
                        ELSE EmittedRows(batch[r].first, context.rows, n[r])
                written == [q \in Req |-> [o \in Outputs |->
                              IF q = r /\ o \in rows THEN emitted[q][o] + 1 ELSE emitted[q][o]]]
            IN  \/ /\ context # NoContext
                   /\ emitted' \in {emitted, written}
                   /\ emitted' = written => trace.config.reference
                   /\ failed' = "trace" /\ phase' = "failed"
                   /\ UNCHANGED trace
                \/ /\ emitted' = written
                   /\ \E diverged \in {FALSE} \cup {trace.config.reference /\ rows # {}} :
                        trace' = Stopped(trace, diverged)
                   /\ phase' = "execute"
                   /\ UNCHANGED failed
    /\ context' = NoContext
    /\ UNCHANGED <<file, installed, batch, alone, edits, preempts, chunks>>

TraceNext == Edit \/ Preempt \/ Execute \/ Begin \/ BeginRaises \/ SampleRaises \/ Sample

TraceSpec == TraceInit /\ [][TraceNext]_traceVars

-----------------------------------------------------------------------------
(* Properties.                                                               *)

\* A registered request that ran alone has every output of the window on file once,
\* also when drafts straddled the window's ends or were rejected and tried again;
\* and no output is on file that was not sampled.  The step budget (max_positions +
\* 16) never cuts a request that is still in its window: a counted step samples a
\* token or is one of the few chunks of a preemption, and only drafts that reach
\* ahead are counted before the window.
WindowCovered ==
    /\ \A r \in DOMAIN trace.steps : trace.steps[r] <= trace.config.max + Slack
    /\ phase = "execute" /\ ~trace.stopped =>
         \A r \in alone : \A o \in Outputs :
             /\ o >= outs[r] => emitted[r][o] = 0
             /\ o >= trace.config.start /\ o < trace.config.start + trace.config.max
                  /\ o < outs[r]
                => emitted[r][o] = 1

\* "Diagnostics must never turn an otherwise valid request into an inference
\* failure": no call ends with an exception of the diagnostic's own.
DiagnosticsNeverFailRequests == failed # "trace"
=============================================================================
