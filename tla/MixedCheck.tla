----------------------------- MODULE MixedCheck -----------------------------
(***************************************************************************)
(* scripts/check_mixed_requests.py: the stages of a qualification packet.   *)
(* A stage is one streamed request, or the mixed one: a long request on a   *)
(* pool thread and, once it has streamed enough tokens, a short one beside  *)
(* it.  Every request has a deadline, kept by a timer thread that shuts the *)
(* connection down.  The server sends lines, or none, as it likes.          *)
(*                                                                         *)
(* A request's time is its own elapsed time, of interest up to one tick     *)
(* past the deadline.                                                       *)
(***************************************************************************)
EXTENDS Integers, Sequences

CONSTANTS
    Stages,      \* the selected stages, "mixed" or another name
    Timeout,     \* --timeout, in ticks
    Trigger      \* --trigger-tokens

ASSUME CheckAssumption == Timeout \in Nat /\ Trigger \in Nat \ {0}

VARIABLES
    req,      \* req[q]: the request, its timer and its result
    gate,     \* the event the long request sets
    main,     \* where the main thread is
    waited,   \* ticks main has waited for the gate
    results   \* ok of every stage over so far

checkVars == <<req, gate, main, waited, results>>

Thread == {"long", "short"}

\* started with the long request still unstamped is kept as beside.
Fresh == [st |-> "none", age |-> 0, tokens |-> 0, finish |-> FALSE, good |-> FALSE,
          done |-> FALSE, doneAge |-> 0, expired |-> FALSE, shut |-> FALSE,
          failed |-> FALSE, ok |-> FALSE, beside |-> FALSE]

CheckInit ==
    /\ req = [q \in Thread |-> Fresh]
    /\ gate = FALSE
    /\ main = "stage"
    /\ waited = 0
    /\ results = <<>>

Set(q, r) == req' = [req EXCEPT ![q] = r]
Later(a) == IF a > Timeout THEN a ELSE a + 1
Active(q) == req[q].st \in {"open", "reading", "closing", "ending"}

Tick ==
    /\ req' = [q \in Thread |-> IF Active(q) THEN [req[q] EXCEPT !.age = Later(@)]
                                ELSE req[q]]
    /\ waited' = IF main = "wait" THEN Later(waited) ELSE waited
    /\ <<req, waited>>' # <<req, waited>>
    /\ UNCHANGED <<gate, main, results>>

-----------------------------------------------------------------------------
(* request, on its thread.                                                   *)

Begin(q) ==
    /\ req[q].st = "queued"
    /\ Set(q, [req[q] EXCEPT !.st = "open",
                             !.beside = req["long"].st \notin {"stamped", "ended"}])
    /\ UNCHANGED <<gate, main, waited, results>>

\* urlopen returns, or raises (refused, or no answer for the timeout).
Connect(q) ==
    /\ req[q].st = "open"
    /\ \/ Set(q, [req[q] EXCEPT !.st = "reading"])
       \/ Set(q, [req[q] EXCEPT !.st = "ending", !.failed = TRUE])
    /\ UNCHANGED <<gate, main, waited, results>>

Late(r) == r.age > Timeout

\* The next line of the stream; lines in the buffer are read also after a shutdown.
Line(q, r) ==
    /\ req[q].st = "reading"
    /\ Set(q, IF Late(req[q]) THEN [req[q] EXCEPT !.st = "closing", !.failed = TRUE] ELSE r)

TokensLine(q) ==
    LET r == [req[q] EXCEPT !.tokens = IF @ < Trigger THEN @ + 1 ELSE @] IN
    /\ Line(q, r)
    /\ gate' = (gate \/ (q = "long" /\ ~Late(req[q]) /\ r.tokens >= Trigger))
    /\ UNCHANGED <<main, waited, results>>

\* The finish reason; good is whether the whole response will validate.
FinishLine(q) ==
    /\ \E good \in BOOLEAN : Line(q, [req[q] EXCEPT !.finish = TRUE, !.good = good])
    /\ UNCHANGED <<gate, main, waited, results>>

DoneLine(q) ==
    /\ Line(q, [req[q] EXCEPT !.done = TRUE, !.doneAge = req[q].age, !.st = "closing"])
    /\ UNCHANGED <<gate, main, waited, results>>

\* A streamed error, or a line that is not JSON.
ErrorLine(q) ==
    /\ Line(q, [req[q] EXCEPT !.failed = TRUE, !.st = "closing"])
    /\ UNCHANGED <<gate, main, waited, results>>

\* The stream ends without [DONE]: closed by the server, or shut down by the timer.
EndOfStream(q) ==
    /\ req[q].st = "reading"
    /\ \E failed \in BOOLEAN : Set(q, [req[q] EXCEPT !.st = "closing", !.failed = failed])
    /\ UNCHANGED <<gate, main, waited, results>>

\* Fault: the timer only notes that the deadline passed.
ShutdownNot(r) == r.shut

Shutdown(r) == TRUE

\* response_deadline's timer, started when the response is there.
Expire(q) ==
    /\ req[q].st \in {"reading", "closing"}
    /\ req[q].age >= Timeout /\ ~req[q].expired
    /\ Set(q, [req[q] EXCEPT !.expired = TRUE, !.shut = Shutdown(req[q])])
    /\ UNCHANGED <<gate, main, waited, results>>

\* Fault: an expired deadline does not fail a response that was complete.
ExitFailsIfIncomplete(r) == r.expired /\ ~r.done

ExitFails(r) == r.expired

\* The end of the with block: the timer is cancelled, then asked.
Exit(q) ==
    /\ req[q].st = "closing"
    /\ Set(q, [req[q] EXCEPT !.st = "ending", !.failed = @ \/ ExitFails(req[q])])
    /\ UNCHANGED <<gate, main, waited, results>>

\* validate_response, the outcome, and ended_monotonic.
Stamp(q) ==
    /\ req[q].st = "ending"
    /\ Set(q, [req[q] EXCEPT !.st = "stamped",
                             !.ok = ~req[q].failed /\ req[q].done
                                       /\ req[q].finish /\ req[q].good])
    /\ UNCHANGED <<gate, main, waited, results>>

\* result.json is written and the future is done.
Return(q) ==
    /\ req[q].st = "stamped"
    /\ Set(q, [req[q] EXCEPT !.st = "ended"])
    /\ UNCHANGED <<gate, main, waited, results>>

-----------------------------------------------------------------------------
(* run, on the main thread.                                                  *)

Ended(q) == req[q].st = "ended"
Stage == Stages[Len(results) + 1]

\* A stage begins; asking the server for its models, or for token counts, may fail.
BeginStage ==
    /\ main = "stage"
    /\ gate' = FALSE /\ waited' = 0
    /\ \/ /\ main' = IF Stage = "mixed" THEN "wait" ELSE "collect"
          /\ req' = [q \in Thread |-> IF q = "long" THEN [Fresh EXCEPT !.st = "queued"]
                                      ELSE Fresh]
       \/ main' = "raised" /\ UNCHANGED req
    /\ UNCHANGED results

\* The wait for the gate ends.
WaitOver ==
    /\ main = "wait"
    /\ gate \/ Ended("long") \/ waited >= Timeout
    /\ main' = IF gate /\ ~Ended("long") THEN "stagger" ELSE "collect"
    /\ UNCHANGED <<req, gate, waited, results>>

\* After the stagger, the long request is looked at again.
Stagger ==
    /\ main = "stagger"
    /\ main' = IF Ended("long") THEN "collect" ELSE "submit"
    /\ UNCHANGED <<req, gate, waited, results>>

Submit ==
    /\ main = "submit"
    /\ Set("short", [Fresh EXCEPT !.st = "queued"])
    /\ main' = "collect"
    /\ UNCHANGED <<gate, waited, results>>

\* Fault: both requests being fine is enough.
MixedOkAlone(long, short) == long.ok /\ short.ok

MixedOk(long, short) == long.ok /\ short.ok /\ short.beside

StopAt(ok) == ~ok

Collect ==
    /\ main = "collect"
    /\ Ended("long") /\ req["short"].st \in {"none", "ended"}
    /\ LET ok == IF Stage = "mixed" THEN MixedOk(req["long"], req["short"])
                 ELSE req["long"].ok
       IN  /\ results' = Append(results, ok)
           /\ main' = IF StopAt(ok) \/ Len(results') = Len(Stages) THEN "exit" ELSE "stage"
    /\ UNCHANGED <<req, gate, waited>>

MainStep == BeginStage \/ WaitOver \/ Stagger \/ Submit \/ Collect
Client(q) == Begin(q) \/ Connect(q) \/ Exit(q) \/ Stamp(q) \/ Return(q)
Server(q) == TokensLine(q) \/ FinishLine(q) \/ DoneLine(q) \/ ErrorLine(q)

CheckNext ==
    \/ Tick \/ MainStep
    \/ \E q \in Thread : Client(q) \/ Server(q) \/ EndOfStream(q) \/ Expire(q)

\* Time passes and threads run; a read of a connection that was shut down returns.
\* Nothing is assumed of the server, except that urlopen's own timeout ends a
\* connection that never answers.
Fairness ==
    /\ WF_checkVars(Tick) /\ WF_checkVars(MainStep)
    /\ \A q \in Thread :
         /\ WF_checkVars(Client(q)) /\ WF_checkVars(Expire(q))
         /\ WF_checkVars(req[q].shut /\ EndOfStream(q))

CheckSpec == CheckInit /\ [][CheckNext]_checkVars
LiveSpec == CheckSpec /\ Fairness

-----------------------------------------------------------------------------
\* A request that counts as ok has its last line read within the deadline, and its
\* timer never fired while the response was open, even if lines already buffered
\* completed it (the elapsed deadline of response_deadline).
OkInTime ==
    \A q \in Thread : req[q].ok =>
        req[q].done /\ req[q].finish /\ req[q].doneAge <= Timeout /\ ~req[q].expired

\* The mixed stage passes only if the short request began after the long one had
\* streamed its trigger and before it was over.
MixedPassMeansOverlap ==
    Len(results) > 0 /\ main \in {"stage", "exit"} /\ Stages[Len(results)] = "mixed"
        /\ results[Len(results)]
    => gate /\ req["short"].beside /\ req["long"].tokens >= Trigger

\* The packet comes to its end even when a response stalls in the middle of a line.
PacketEnds == <>(main \in {"exit", "raised"})
=============================================================================
