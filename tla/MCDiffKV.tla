------------------------------ MODULE MCDiffKV ------------------------------
(***************************************************************************)
(* Small calls for TLC.  With Short = 2, two segments of 2-key tiles and    *)
(* sequences of up to 4 rows over up to 11 keys, calls mix empty, one-row,  *)
(* draft-verification and prefill sequences in every order, with and        *)
(* without a window, graph padding and the qualified geometry.              *)
(***************************************************************************)
EXTENDS DiffKVPinned, FiniteSetsExt

Prefix(q, i) == MapThenSumSet(LAMBDA j : q[j], 0 .. i - 1)
Longest(q) == CHOOSE m \in {q[i] : i \in DOMAIN q} : \A i \in DOMAIN q : q[i] <= m

\* The call of n sequences with query lengths q over contexts c; a warm-up
\* sequence has rows and no keys (context below 0).
MakeCall(n, q, c, pad, qpk, window, mimo, buffers) ==
  [n |-> n, cu |-> [i \in 0 .. n |-> Prefix(q, i)],
   k |-> [i \in 0 .. n - 1 |-> IF q[i] = 0 \/ c[i] < 0 THEN 0 ELSE c[i] + q[i]],
   pad |-> pad, maxq |-> Longest(q), qpk |-> qpk, window |-> window,
   mimo |-> mimo, buffers |-> buffers]

CallsOf(ns, qs, cs, pads, qpks, windows, mimos, buffers) ==
  UNION {{MakeCall(n, q, c, pad, qpk, w, m, bf) :
            q \in {f \in [0 .. n - 1 -> qs] : Longest(f) > 0}, c \in [0 .. n - 1 -> cs],
            pad \in pads, qpk \in qpks, w \in windows, m \in mimos, bf \in buffers} :
         n \in ns}

SmallCalls ==
  CallsOf({1, 2}, {0, 1, 2, 3, 5}, {-1, 0, 1, 3, 7}, {0}, {2}, {0, 3}, {TRUE}, {TRUE})
    \cup CallsOf({3}, {0, 1, 2, 3}, {0, 5}, {0}, {2}, {0, 2}, {TRUE}, {TRUE})
    \cup CallsOf({4}, {1, 3}, {2}, {0}, {2}, {0}, {TRUE}, {TRUE})
    \cup CallsOf({1, 2}, {0, 1, 2}, {0, 4}, {1, 2}, {2}, {0}, {TRUE}, BOOLEAN)
    \cup CallsOf({1, 2}, {0, 1, 2, 3}, {2, 6}, {0}, {1}, {0, 2}, {FALSE}, {TRUE})

=============================================================================
