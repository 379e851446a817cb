-------------------------- MODULE PrefillBoundaries --------------------------
(***************************************************************************)
(* The opaque-prefill diagnostic on one rank.  It wraps execute_model; for  *)
(* the one prompt it knows it also wraps methods of live layer objects for  *)
(* the length of that call, copies what passes through them under a byte    *)
(* budget, and afterwards restores the methods and writes its evidence.     *)
(*                                                                          *)
(* A method is the stack of the wrappers around the original, innermost     *)
(* first; an object's own attribute hides its class's.  The process may be  *)
(* restarted at any point; files survive, everything else does not.         *)
(***************************************************************************)
EXTENDS Integers, Sequences, SequencesExt, FiniteSets

CONSTANTS
    Runs,           \* run_id values the configuration file may hold
    Sites,          \* the wrapped target boundaries, in the order found
    Object,         \* Object[w]: the object whose method is wrapped at w
    Pre, Post,      \* Pre[w], Post[w]: stages copied before and after the call
    Cost,           \* Cost[s]: bytes of the tensor of stage s
    MaxBytes,       \* the byte budget
    FirstOnly,      \* sites copied on their first call only (the collective's count)
    Calls,          \* objects whose method one forward calls, in order
    OwnAtStart,     \* which objects may hold the method as their own attribute
    SaveTensors,    \* save_tensors
    MaxExecutes,    \* bound: execute_model calls
    MaxRestarts     \* bound: restarts of the process

Objects == {Object[w] : w \in Range(Sites)} \cup Range(Calls)
Stages == UNION {Range(Pre[w]) \cup Range(Post[w]) : w \in Range(Sites)}

ASSUME BoundariesAssumption ==
    /\ Sites \in Seq(Range(Sites)) /\ Calls \in Seq(Range(Calls))
    /\ \A w \in Range(Sites) : Pre[w] \in Seq(Stages) /\ Post[w] \in Seq(Stages)
    /\ \A s \in Stages : Cost[s] \in Nat
    /\ OwnAtStart \subseteq [Objects -> BOOLEAN]
    /\ "none" \notin Runs
    /\ MaxBytes \in Nat /\ SaveTensors \in BOOLEAN
    /\ MaxExecutes \in Nat /\ MaxRestarts \in Nat

VARIABLES
    method,    \* method[o]: the sites wrapped around o's method, outermost last
    own,       \* own[o]: o holds the method as an attribute of its own
    born,      \* own, when the process started
    seen,      \* run ids this process has admitted
    capture,   \* the capture of the current call, or NoCapture
    where,     \* where execute is
    call,      \* the next of Calls
    verdict,   \* what the model did in this call
    returned,  \* what execute did, once it is over
    payloads,  \* evidence lines written
    files,     \* files[r][s]: the execute call whose raw tensor is on disk, or 0
    executes, restarts

vars == <<method, own, born, seen, capture, where, call, verdict, returned,
          payloads, files, executes, restarts>>

NoCapture == [run |-> "none", saved |-> <<>>, bytes |-> 0, errors |-> 0,
              bindings |-> <<>>, counted |-> {}, read |-> <<>>]
NewCapture(r) == [NoCapture EXCEPT !.run = r]
Armed == capture # NoCapture

\* Errors are counted to two: the code only asks whether there are any.
Error(c) == [c EXCEPT !.errors = IF @ < 2 THEN @ + 1 ELSE @]

\* Fault: an exception of the model leaves no trace in the capture.
NoteModelNot(c) == c

\* capture.error("model_execution", exc).
NoteModel(c) == Error(c)

-----------------------------------------------------------------------------
(* Wrapping and restoring.                                                   *)

\* What is recorded of the method before it is replaced.
Binding(m, w) == [object |-> Object[w], old |-> m.method[Object[w]], had |-> m.own[Object[w]]]

\* setattr(obj, attr, wrapped), after the old value was recorded.
WrapSite(m, w) ==
    [method   |-> [m.method EXCEPT ![Object[w]] = Append(@, w)],
     own      |-> [m.own EXCEPT ![Object[w]] = TRUE],
     bindings |-> Append(m.bindings, Binding(m, w))]

Wrap(sites) ==
    FoldLeft(WrapSite, [method |-> method, own |-> own, bindings |-> <<>>], sites)

\* One turn of restore; without an attribute of its own the class's shows again.
\* Deleting an attribute that the object does not have raises: restore notes it, in a
\* capture that has an error, and goes on with the next.
RestoreOne(m, b) ==
    IF ~b.had /\ ~m.own[b.object] THEN m ELSE
    [method |-> [m.method EXCEPT ![b.object] = IF b.had THEN b.old ELSE <<>>],
     own    |-> [m.own EXCEPT ![b.object] = b.had]]

\* Fault: restored in the order they were wrapped.
RestoreForward(m, bindings) == FoldLeft(RestoreOne, m, bindings)

\* restore: last wrapped, first restored.
Restore(m, bindings) == FoldLeft(RestoreOne, m, Reverse(bindings))

-----------------------------------------------------------------------------
(* The byte budget.                                                          *)

Fits(c, s) == c.bytes + Cost[s] <= MaxBytes

\* snapshot: any failure, the budget's included, is an error of the capture.
Snapshot(c, s, bad) ==
    IF s = bad \/ ~Fits(c, s)
    THEN Error(c)
    ELSE [c EXCEPT !.saved = Append(@, s), !.bytes = @ + Cost[s]]

SnapshotAll(c, stages, bad) ==
    FoldLeft(LAMBDA d, s : Snapshot(d, s, bad), c, stages)

\* What the wrapper of site w copies at this call: a counted one only once a capture.
Copying(c, stages, w) == IF w \in c.counted THEN <<>> ELSE stages[w]

\* The stages of one call: outermost wrapper first, then back out.
PreStages(c, o) ==
    FlattenSeq([i \in DOMAIN method[o] |-> Copying(c, Pre, Reverse(method[o])[i])])
PostStages(c, o) ==
    FlattenSeq([i \in DOMAIN method[o] |-> Copying(c, Post, method[o][i])])

Counted(c, o) == [c EXCEPT !.counted = @ \cup (Range(method[o]) \cap FirstOnly)]

-----------------------------------------------------------------------------
Init ==
    /\ method = [o \in Objects |-> <<>>]
    /\ born \in OwnAtStart
    /\ own = born
    /\ seen = {}
    /\ capture = NoCapture
    /\ where = "idle"
    /\ call = 1
    /\ verdict = "none"
    /\ returned = "none"
    /\ payloads = <<>>
    /\ files = [r \in Runs |-> [s \in Stages |-> 0]]
    /\ executes = 0
    /\ restarts = 0

SeenAfter(r, admitted) == seen \cup {r}

\* Admission for a step that adds the known prompt.  It may be refused (not one
\* whole fresh prefill) or wrapping may fail after any number of sites, the next one's
\* method perhaps recorded but not replaced; then the methods are restored at once
\* and the capture lives on with its error.
Admit ==
    /\ where = "idle"
    /\ executes < MaxExecutes
    /\ \E r \in Runs \ seen : \E n \in 0..(Len(Sites)) : \E half \in BOOLEAN :
         LET admitted == n = Len(Sites)
             w == Wrap(SubSeq(Sites, 1, n))
             recorded == IF half THEN Append(w.bindings, Binding(w, Sites[n + 1]))
                         ELSE w.bindings
             back == Restore([method |-> w.method, own |-> w.own], recorded)
         IN  /\ half => ~admitted
             /\ seen' = SeenAfter(r, admitted)
             /\ IF admitted
                THEN /\ capture' = [NewCapture(r) EXCEPT !.bindings = w.bindings]
                     /\ method' = w.method /\ own' = w.own
                ELSE /\ capture' = Error(NewCapture(r))
                     /\ method' = back.method /\ own' = back.own
    /\ where' = "model" /\ call' = 1 /\ verdict' = "none" /\ returned' = "none"
    /\ executes' = executes + 1
    /\ UNCHANGED <<born, payloads, files, restarts>>

\* The capture itself cannot be made (expected_stages): the run id is spent.
AdmitMalformed ==
    /\ where = "idle"
    /\ executes < MaxExecutes
    /\ \E r \in Runs \ seen : seen' = SeenAfter(r, FALSE)
    /\ where' = "model" /\ call' = 1 /\ verdict' = "none" /\ returned' = "none"
    /\ executes' = executes + 1
    /\ UNCHANGED <<method, own, born, capture, payloads, files, restarts>>

\* Any other step: no capture, or the configuration could not be read.
Pass ==
    /\ where = "idle"
    /\ executes < MaxExecutes
    /\ where' = "model" /\ call' = 1 /\ verdict' = "none" /\ returned' = "none"
    /\ executes' = executes + 1
    /\ UNCHANGED <<method, own, born, seen, capture, payloads, files, restarts>>

\* snapshot catches its own failures.
SnapshotRaises(before, after) == FALSE

\* The forward calls one method; what its wrappers copy may fail at one stage.
CallMethod ==
    /\ where = "model"
    /\ call <= Len(Calls)
    /\ LET o == Calls[call] IN
       \E bad \in {"none"} \cup Range(PreStages(capture, o) \o PostStages(capture, o)) :
         LET post == SnapshotAll(capture, PreStages(capture, o) \o PostStages(capture, o), bad)
         IN  /\ capture' = Counted(post, o)
             /\ IF SnapshotRaises(capture, post)
                THEN where' = "finally" /\ returned' = "raised"
                ELSE UNCHANGED <<where, returned>>
    /\ call' = call + 1
    /\ UNCHANGED <<method, own, born, seen, verdict, payloads, files, executes, restarts>>

\* The model itself raises: between two calls, after the last one, or inside a
\* wrapped method once what precedes the call was copied.  execute notes the error
\* and re-raises.
ModelRaises ==
    /\ where = "model"
    /\ \E copied \in {<<>>} \cup {PreStages(capture, Calls[i]) : i \in {call} \cap DOMAIN Calls} :
         capture' = IF Armed THEN NoteModel(SnapshotAll(capture, copied, "none"))
                    ELSE capture
    /\ where' = "finally" /\ verdict' = "raised" /\ returned' = "raised"
    /\ UNCHANGED <<method, own, born, seen, call, payloads, files, executes, restarts>>

ModelReturns ==
    /\ where = "model"
    /\ call > Len(Calls)
    /\ where' = "finally" /\ verdict' = "returned" /\ returned' = "returned"
    /\ UNCHANGED <<method, own, born, seen, capture, call, payloads, files, executes, restarts>>

\* The finally clause: restore (again, after a failed admission), then finish,
\* which may fail at once when the output directory cannot be made.
Finally ==
    /\ where = "finally"
    /\ LET back == Restore([method |-> method, own |-> own], capture.bindings) IN
       method' = back.method /\ own' = back.own
    /\ \/ Armed /\ where' = "readback" /\ capture' = [capture EXCEPT !.bindings = <<>>]
       \/ where' = "idle" /\ capture' = NoCapture
    /\ UNCHANGED <<born, seen, call, verdict, returned, payloads, files, executes, restarts>>

\* Fault: an existing raw file is overwritten.
MayCreateAnyway(r, s) == TRUE

\* open(..., "xb") fails when the file exists.
MayCreate(r, s) == files[r][s] = 0

\* finish reads one saved tensor back, and writes it raw if asked to; the copy,
\* the creation of the file or its writing may fail.
ReadBack ==
    /\ where = "readback"
    /\ Len(capture.saved) > 0
    /\ LET s == Head(capture.saved)
           c == [capture EXCEPT !.saved = Tail(@)]
           creates == SaveTensors /\ MayCreate(c.run, s)
           created == [files EXCEPT ![c.run][s] = executes]
       IN  \/ /\ SaveTensors => creates
              /\ capture' = [c EXCEPT !.read = Append(@, s)]
              /\ files' = IF creates THEN created ELSE files
           \/ capture' = Error(c) /\ UNCHANGED files
           \/ creates /\ capture' = Error(c) /\ files' = created
    /\ UNCHANGED <<method, own, born, seen, where, call, verdict, returned, payloads,
                   executes, restarts>>

Complete(c) == Range(c.read) = Stages /\ Len(c.read) = Cardinality(Stages) /\ c.errors = 0

\* finish appends the payload; a failure to write it is only logged.
WritePayload ==
    /\ where = "readback"
    /\ capture.saved = <<>>
    /\ payloads' \in
         {payloads,
          Append(payloads, [run |-> capture.run, complete |-> Complete(capture),
                            read |-> capture.read, execute |-> executes,
                            verdict |-> verdict])}
    /\ capture' = NoCapture
    /\ where' = "idle"
    /\ UNCHANGED <<method, own, born, seen, call, verdict, returned, files, executes, restarts>>

\* The process is killed and started again.
Restart ==
    /\ restarts < MaxRestarts
    /\ restarts' = restarts + 1
    /\ method' = [o \in Objects |-> <<>>]
    /\ born' \in OwnAtStart /\ own' = born'
    /\ seen' = {} /\ capture' = NoCapture /\ where' = "idle" /\ call' = 1
    /\ verdict' = "none" /\ returned' = "none"
    /\ UNCHANGED <<payloads, files, executes>>

Next ==
    \/ Admit \/ AdmitMalformed \/ Pass \/ CallMethod \/ ModelRaises \/ ModelReturns
    \/ Finally \/ ReadBack \/ WritePayload \/ Restart

Spec == Init /\ [][Next]_vars

-----------------------------------------------------------------------------
\* Outside a traced forward every method is the original one, on the object or on
\* its class as before: no wrapper outlives its call, wherever admission or the
\* forward failed, and even when two sites share an object.
NothingStaysWrapped ==
    where \in {"idle", "readback"} \/ (where = "model" /\ capture.bindings = <<>>) =>
        own = born /\ \A o \in Objects : method[o] = <<>>

\* The evidence of a run id is one call's, and whole when it says so: a complete
\* payload holds every expected stage exactly once, from a forward that returned; a
\* process writes at most one payload for a run id, the refused one included; and
\* the raw files of a complete payload are that payload's, also after the process
\* was restarted and met the same run id again.
EvidenceIsOneCall ==
    /\ \A i \in DOMAIN payloads : payloads[i].complete =>
         /\ Range(payloads[i].read) = Stages
         /\ Len(payloads[i].read) = Cardinality(Stages)
         /\ payloads[i].verdict = "returned"
    /\ restarts = 0 => \A i, j \in DOMAIN payloads :
         payloads[i].run = payloads[j].run => i = j
    /\ SaveTensors => \A i \in DOMAIN payloads : payloads[i].complete =>
         \A s \in Stages : files[payloads[i].run][s] = payloads[i].execute
=============================================================================
