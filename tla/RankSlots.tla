------------------------------ MODULE RankSlots ------------------------------
(***************************************************************************)
(* The slot tables of the tensor-parallel ranks.  Every rank receives the   *)
(* same sequence of scheduler outputs and applies each at its own pace; no  *)
(* message between the ranks ever carries a slot number, so their tables    *)
(* agree only if the code that assigns slots is the same function on each.  *)
(***************************************************************************)
EXTENDS RequestSlots

CONSTANTS Ranks,      \* tensor-parallel ranks
          MaxOutputs  \* bound: scheduler outputs in a behaviour

ASSUME RankAssumption == MaxOutputs \in Nat

VARIABLES outputs,  \* scheduler outputs broadcast so far
          live,     \* requests the scheduler considers running
          done,     \* requests that have finished, and are never sent again
          applied,  \* applied[k]: how many of them rank k has executed
          tables,   \* tables[k]: rank k's slot table
          mapping   \* mapping[k]: idx_mapping of the batch rank k ran last

rankVars == <<outputs, live, done, applied, tables, mapping>>

RanksInit ==
    /\ outputs = <<>>
    /\ live = {}
    /\ done = {}
    /\ applied = [k \in Ranks |-> 0]
    /\ tables = [k \in Ranks |-> FreshTable]
    /\ mapping = [k \in Ranks |-> <<>>]

\* Requests that a scheduler output adds: waiting ones, and live ones whose
\* streaming input grew.  The scheduler never runs more than max_num_seqs, and
\* here runs every one it has; each rank sees the batch in the same order.
Schedule ==
    /\ Len(outputs) < MaxOutputs
    /\ \E finished \in SUBSET live : \E preempted \in SUBSET (live \ finished) :
         \E new \in SUBSET (Req \ (done \cup finished \cup preempted)) :
           \E order \in SetToSeqs(new) :
             LET stay == live \ (finished \cup preempted) IN
             /\ Cardinality(stay \cup new) <= NumSlots
             /\ outputs' = Append(outputs, [finished |-> finished,
                                            preempted |-> preempted,
                                            new |-> order,
                                            batch |-> SortedIds(stay \cup new)])
             /\ live' = stay \cup new
             /\ done' = done \cup finished
    /\ UNCHANGED <<applied, tables, mapping>>

\* idx_mapping: the slot of each request of the batch.
BatchRows(t, batch) == [i \in DOMAIN batch |-> t.index[batch[i]]]

\* The top of execute_model on rank k, for the next output it has not executed.
RankExecutes(k) ==
    /\ applied[k] < Len(outputs)
    /\ LET out == outputs[applied[k] + 1] IN
       \E order \in FinishOrders(out.finished \cup out.preempted) :
         LET t == UpdateTable(tables[k], order, out.new) IN
         /\ tables' = [tables EXCEPT ![k] = t]
         /\ mapping' = [mapping EXCEPT ![k] = BatchRows(t, out.batch)]
    /\ applied' = [applied EXCEPT ![k] = @ + 1]
    /\ UNCHANGED <<outputs, live, done>>

RanksNext == Schedule \/ \E k \in Ranks : RankExecutes(k)

RanksSpec == RanksInit /\ [][RanksNext]_rankVars

-----------------------------------------------------------------------------
\* Ranks that have executed the same outputs own the same table, free list
\* included, so the next request gets the same slot everywhere and each batch
\* row is the same request on every rank (finish_requests' sorted order).
RanksAgree ==
    \A j, k \in Ranks :
        applied[j] = applied[k] => tables[j] = tables[k] /\ mapping[j] = mapping[k]

\* On every rank each slot is free or owned by one request, and a rank that has
\* caught up holds exactly the scheduler's running requests: over streaming
\* re-adds, preemptions and finishes no slot is lost or given out twice, and no
\* admitted request found the free list empty.
SlotsHoldLive ==
    \A k \in Ranks :
        /\ SlotsPartitioned(tables[k])
        /\ applied[k] = Len(outputs) =>
             {r \in Req : tables[k].index[r] # NoSlot} = live
=============================================================================
