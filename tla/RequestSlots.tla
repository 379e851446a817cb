---------------------------- MODULE RequestSlots ----------------------------
(***************************************************************************)
(* The slot table of the GPU model runner: which row of the persistent     *)
(* per-request tensors a request owns.  Requests are named by naturals in   *)
(* the order Python's sorted() gives their ids.  The free list is the       *)
(* request states' LIFO list; the runner only calls add and remove on it.   *)
(***************************************************************************)
EXTENDS Integers, Sequences, FiniteSetsExt, SequencesExt

CONSTANTS NumReqs,    \* requests that ever reach this worker
          NumSlots    \* max_num_seqs: rows of the persistent tensors

ASSUME SlotAssumption == NumReqs \in Nat \ {0} /\ NumSlots \in Nat \ {0}

Req == 1..NumReqs
Slot == 0..(NumSlots - 1)
NoSlot == -1

FreshTable == [index |-> [r \in Req |-> NoSlot],
               free  |-> [i \in 1..NumSlots |-> i - 1]]

\* _remove_request: an unknown id is ignored.
RemoveRequest(t, r) ==
    IF t.index[r] = NoSlot
    THEN t
    ELSE [index |-> [t.index EXCEPT ![r] = NoSlot],
          free  |-> Append(t.free, t.index[r])]

\* One turn of add_requests: a streaming update first removes its old entry.
\* With no free slot the request states raise, and the request has no slot.
AddRequest(t, r) ==
    LET u == RemoveRequest(t, r) IN
    IF u.free = <<>>
    THEN u
    ELSE [index |-> [u.index EXCEPT ![r] = Last(u.free)],
          free  |-> Front(u.free)]

\* A set as a sequence that a strict total order rises along.
InOrder(S, before(_, _)) ==
    CHOOSE s \in SetToSeqs(S) : \A i, j \in DOMAIN s : i < j => before(s[i], s[j])

\* sorted(ids).
SortedIds(ids) == InOrder(ids, <)

\* Fault: the set is iterated in hash order, which differs between processes.
FinishOrdersHash(ids) == SetToSeqs(ids)

\* The orders in which finish_requests may free a set of ids: sorted() has one.
FinishOrders(ids) == {SortedIds(ids)}

FinishRequests(t, order) == FoldLeft(RemoveRequest, t, order)

AddRequests(t, order) == FoldLeft(AddRequest, t, order)

\* Fault: the finished requests are freed after the new ones are added.
UpdateTableLate(t, finishOrder, addOrder) ==
    FinishRequests(AddRequests(t, addOrder), finishOrder)

\* The order of the two halves at the top of execute_model.
UpdateTable(t, finishOrder, addOrder) ==
    AddRequests(FinishRequests(t, finishOrder), addOrder)

\* No two requests own the same slot, and every slot is owned or free, once.
SlotsPartitioned(t) ==
    /\ \A r, q \in Req : r # q /\ t.index[r] # NoSlot => t.index[r] # t.index[q]
    /\ Len(t.free) + Cardinality({r \in Req : t.index[r] # NoSlot}) = NumSlots
    /\ \A r \in Req, i \in DOMAIN t.free : t.index[r] # t.free[i]
    /\ \A i, j \in DOMAIN t.free : i # j => t.free[i] # t.free[j]
=============================================================================
