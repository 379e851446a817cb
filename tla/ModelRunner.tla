---------------------------- MODULE ModelRunner ----------------------------
(***************************************************************************)
(* The request path of GPUModelRunner on the recipe's configuration: one    *)
(* pipeline rank, no pooling, no LoRA, synchronous scheduling, speculative  *)
(* decoding with NumDrafts draft tokens.  A step is execute_model, then     *)
(* sample_tokens, then take_draft_token_ids, on the engine's one thread;    *)
(* the scheduler that drives it (external) chooses what to run.             *)
(*                                                                          *)
(* A token is the pair of a request and a position: <<r, p>> is the token   *)
(* the target model itself puts at position p of r, and <<r, -1>> any other *)
(* token made for r.  Running the model is exact: a row predicts the next   *)
(* target token when the cache holds the target's tokens up to that row,    *)
(* and anything else otherwise.                                             *)
(***************************************************************************)
EXTENDS RequestSlots

CONSTANTS NumDrafts,    \* num_speculative_steps
          PromptLen,    \* PromptLen[r]: length of r's prompt
          MaxLen,       \* bound: a request stops at this many tokens
          MaxPreempts   \* bound: preemptions in a behaviour

ASSUME RunnerAssumption ==
    /\ NumDrafts \in Nat
    /\ MaxLen \in Nat
    /\ PromptLen \in [Req -> 1..(MaxLen - 1)]
    /\ MaxPreempts \in Nat

VARIABLES sched,   \* the scheduler's view of every request
          table,   \* req_id_to_index and the free list
          slot,    \* the per-slot tensors of the request states
          kv,      \* kv[r][p]: the token whose key and value r's block p holds
          exec,    \* execute_model_state, or NoState
          phase,   \* the call the engine makes next
          step,    \* parity of the last execute_model call that ran a batch
          offered, \* draft_tokens_handler: requests with drafts to take
          preempts \* preemptions so far

vars == <<sched, table, slot, kv, exec, phase, step, offered, preempts>>

DecodeLen == NumDrafts + 1

\* Sequences of accepted tokens and draft tokens run past MaxLen by one step.
Positions == 0..(MaxLen + DecodeLen)

Tokens == (Req \cup {0}) \X (Positions \cup {-1})
Target(r, p) == <<r, p>>
Wrong(r) == <<r, -1>>
Garbage == <<0, -1>>

NoState == [batch |-> <<>>, inputs |-> <<>>, predicted |-> <<>>, step |-> -1]

-----------------------------------------------------------------------------
(* Batch order and rows.                                                     *)

\* Fault: only the number of tokens orders the batch.
BeforeByLength(a, b) == a.num < b.num \/ (a.num = b.num /\ a.req < b.req)

\* sort_batch_req_ids' key, the (stable) dict order last.
Before(a, b) ==
    LET key(x) == <<x.drafts = 0, x.num # DecodeLen, x.num, x.req>>
        ka == key(a)
        kb == key(b)
    IN  \/ ~ka[1] /\ kb[1]
        \/ ka[1] = kb[1] /\ ~ka[2] /\ kb[2]
        \/ ka[1] = kb[1] /\ ka[2] = kb[2] /\ ka[3] < kb[3]
        \/ ka[1] = kb[1] /\ ka[2] = kb[2] /\ ka[3] = kb[3] /\ ka[4] < kb[4]

BatchOrder(items) == InOrder(items, Before)

\* query_start_loc: rows (from 1) before item i, and item i's rows.
QueryStart(batch, i) == FoldLeft(+, 0, [j \in 1..(i - 1) |-> batch[j].num])
QueryRows(batch, i) ==
    (QueryStart(batch, i) + 1)..(QueryStart(batch, i) + batch[i].num)

\* logits_indices: the last drafts + 1 rows of the query.
LogitsRows(batch, i) ==
    [t \in 1..(batch[i].drafts + 1) |->
        QueryStart(batch, i) + batch[i].num - (batch[i].drafts + 1) + t]

\* The item and the offset in it of a row of the flattened batch.
RowItem(batch, row) == CHOOSE i \in DOMAIN batch : row \in QueryRows(batch, i)
RowOffset(batch, row) == row - QueryStart(batch, RowItem(batch, row)) - 1
NumRows(batch) == QueryStart(batch, Len(batch) + 1)

-----------------------------------------------------------------------------
(* execute_model: the request states, then the inputs, then the forward.     *)

\* req_states.add_request: last and drafts keep what the slot's last owner left.
AddState(s, toks, cached) ==
    [s EXCEPT !.prefill = Len(toks), !.all = toks, !.cpu = cached, !.gpu = cached]

\* Fault: update_requests forgets the host's count of computed tokens.
UpdateStateNever(s, computed) == s

\* update_requests: the host count follows the scheduler's.
UpdateState(s, computed) == [s EXCEPT !.cpu = computed]

\* The slot tensors after add_requests and update_requests.
SlotsFor(out, t) ==
    [x \in Slot |->
        LET owner == {r \in Req : t.index[r] = x} IN
        IF owner \cap out.new # {}
        THEN LET r == CHOOSE r \in owner : r \in out.new IN
             AddState(slot[x], sched.toks[r], out.cached[r])
        ELSE IF owner \cap out.ran # {}
        THEN UpdateState(slot[x], sched.computed[CHOOSE r \in owner : r \in out.ran])
        ELSE slot[x]]

\* has_prefill, from the host's counts.
HasPrefill(batch, ss) ==
    \E i \in DOMAIN batch :
        LET s == ss[batch[i].slot] IN
        (IF s.cpu < s.prefill THEN s.cpu ELSE s.prefill) < s.prefill

\* Fault: a prompt chunk too takes the slot's last sampled token.
TakesSampledAlways(s, item, k) == k >= item.num - (item.drafts + 1)

\* combine_sampled_and_draft_tokens leaves queries inside the prompt alone.
TakesSampled(s, item, k) ==
    s.gpu + item.num > s.prefill /\ k >= item.num - (item.drafts + 1)

\* The token of the k-th row (from 0) of an item, as the kernels compose it.
InputToken(ss, batch, item, k) ==
    LET s == ss[item.slot]
        first == item.num - (item.drafts + 1)
    IN  IF TakesSampled(s, item, k)
        THEN IF k = first THEN s.last ELSE s.drafts[k - first]
        ELSE IF HasPrefill(batch, ss) /\ s.gpu + k < s.prefill
        THEN s.all[s.gpu + k + 1]
        ELSE Garbage

Inputs(ss, batch) ==
    [row \in 1..NumRows(batch) |->
        InputToken(ss, batch, batch[RowItem(batch, row)], RowOffset(batch, row))]

\* Blocks a request still has a claim to: its computed tokens', until it is done.
Held(r, p) == sched.status[r] # "done" /\ p < sched.computed[r]

\* Every query writes the keys of its own positions, from the device's count.
Written(ss, batch, inputs) ==
    [r \in Req |-> [p \in Positions |->
        LET rows == {row \in DOMAIN inputs :
                LET item == batch[RowItem(batch, row)] IN
                item.req = r /\ ss[item.slot].gpu + RowOffset(batch, row) = p}
        IN  IF rows # {} THEN inputs[CHOOSE row \in rows : TRUE]
            ELSE IF Held(r, p) THEN kv[r][p] ELSE Garbage]]

\* The exact model: the token each row's logits rank first.
Predicted(ss, batch, cache) ==
    [row \in 1..NumRows(batch) |->
        LET item == batch[RowItem(batch, row)]
            p == ss[item.slot].gpu + RowOffset(batch, row)
        IN  IF \A q \in 0..p : cache[item.req][q] = Target(item.req, q)
            THEN Target(item.req, p + 1)
            ELSE Garbage]

-----------------------------------------------------------------------------
(* sample_tokens.                                                            *)

\* Greedy verification: the longest prefix of drafts the target agrees with.
Accepted(e, i) ==
    LET rows == LogitsRows(e.batch, i) IN
    Max({a \in 0..(Len(rows) - 1) :
        \A t \in 1..a : e.inputs[rows[t + 1]] = e.predicted[rows[t]]})

\* A chunk that ends inside the prompt samples nothing.
InsidePrompt(s, item) == s.gpu + item.num < s.prefill

Sampled(e, i, s) ==
    IF InsidePrompt(s, e.batch[i])
    THEN <<>>
    ELSE [t \in 1..(Accepted(e, i) + 1) |-> e.predicted[LogitsRows(e.batch, i)[t]]]

Rejected(e, i, s) ==
    IF InsidePrompt(s, e.batch[i]) THEN 0 ELSE e.batch[i].drafts - Accepted(e, i)

\* Fault: rejected drafts stay counted as computed on the device.
PostUpdateKeepsRejected(s, item, new, rejected) ==
    [s EXCEPT !.gpu = @ + item.num,
              !.last = IF new = <<>> THEN @ ELSE Last(new),
              !.all = @ \o new]

\* postprocess_sampled, for one slot of the batch.
PostUpdate(s, item, new, rejected) ==
    [s EXCEPT !.gpu = @ + item.num - rejected,
              !.last = IF new = <<>> THEN @ ELSE Last(new),
              !.all = @ \o new]

\* What the drafter may propose after position p: right for its first n tokens.
Proposal(r, p, n) ==
    [j \in 1..NumDrafts |-> IF j <= n THEN Target(r, p + j) ELSE Wrong(r)]

\* Fault: the drafts are stored in batch order instead of by slot.
DraftSlotBatchOrder(batch, i) == i - 1

\* draft_tokens[idx_mapping] = ...: where item i's drafts are stored.
DraftSlot(batch, i) == batch[i].slot

-----------------------------------------------------------------------------
(* The engine's calls.                                                       *)

Running == {r \in Req : sched.status[r] = "running"}
Waiting == {r \in Req : sched.status[r] = "waiting"}

Init ==
    /\ sched = [status   |-> [r \in Req |-> "waiting"],
                toks     |-> [r \in Req |-> [p \in 1..PromptLen[r] |-> Target(r, p - 1)]],
                computed |-> [r \in Req |-> 0],
                drafts   |-> [r \in Req |-> 0],
                chunked  |-> {},
                finished |-> {}]
    /\ table = FreshTable
    /\ slot = [x \in Slot |-> [prefill |-> 0, all |-> <<>>, cpu |-> 0, gpu |-> 0,
                               last |-> Garbage,
                               drafts |-> [j \in 1..NumDrafts |-> Garbage]]]
    /\ kv = [r \in Req |-> [p \in Positions |-> Garbage]]
    /\ exec = NoState
    /\ phase = "execute"
    /\ step = 0
    /\ offered = {}
    /\ preempts = 0

\* What the scheduler may run of r from its cached-th token: a chunk of what is
\* left of a prompt, or one token with any prefix of r's drafts.  A query with
\* one row fewer than its drafts need is one the runner is expected to refuse.
Work(r, cached) ==
    LET left == Len(sched.toks[r]) - cached IN
    [req : {r}, num : 1..left, drafts : {0}]
    \cup IF left = 1
         THEN {w \in [req : {r}, num : 1..DecodeLen, drafts : 1..sched.drafts[r]] :
                 w.num \in {w.drafts, w.drafts + 1}}
         ELSE {}

\* prepare_inputs' assertion.
RowsSuffice(batch) == \A i \in DOMAIN batch : batch[i].num >= batch[i].drafts + 1

SchedulerOutputs ==
    {out \in [preempted : {S \in SUBSET Running : preempts + Cardinality(S) <= MaxPreempts},
              new : SUBSET Waiting, ran : SUBSET Running] :
        /\ out.preempted \cap out.ran = {}
        /\ Cardinality((Running \ out.preempted) \cup out.new) <= NumSlots}

\* One choice of work for each scheduled request.
Batches(out) ==
    LET from(r) == IF r \in out.new THEN out.cached[r] ELSE sched.computed[r]
        all == out.new \cup out.ran
    IN  {{f[r] : r \in all} : f \in {g \in [all -> UNION {Work(r, from(r)) : r \in all}] :
                                        \A r \in all : g[r] \in Work(r, from(r))}}

\* The scheduler's own bookkeeping when it hands out a batch.
Scheduled(out, work) ==
    LET num(r) == (CHOOSE w \in work : w.req = r).num
        from(r) == IF r \in out.new THEN out.cached[r] ELSE sched.computed[r]
        sent == {w.req : w \in work}
    IN  [sched EXCEPT
          !.status = [r \in Req |-> IF r \in out.new THEN "running"
                                    ELSE IF r \in out.preempted THEN "waiting" ELSE @[r]],
          !.computed = [r \in Req |-> IF r \in sent THEN from(r) + num(r) ELSE @[r]],
          !.drafts = [r \in Req |-> IF r \in sent \cup out.preempted THEN 0 ELSE @[r]],
          !.chunked = {r \in sent : from(r) + num(r) < Len(sched.toks[r])},
          !.finished = {}]

\* The forward of a batch: with a raise, no step's state is left to sample.
Forward(ss, batch) ==
    LET inputs == Inputs(ss, batch)
        cache == Written(ss, batch, inputs)
    IN  /\ RowsSuffice(batch)
        /\ kv' = cache
        /\ exec' = [batch |-> batch, inputs |-> inputs,
                    predicted |-> Predicted(ss, batch, cache), step |-> 1 - step]

Raise == UNCHANGED <<kv, exec>>

\* The top of execute_model, common to steps with and without a batch.
UpdateRequests(out) ==
    /\ \E order \in FinishOrders(sched.finished \cup out.preempted) :
         table' = UpdateTable(table, order, SortedIds(out.new))
    /\ slot' = SlotsFor(out, table')
    /\ preempts' = preempts + Cardinality(out.preempted)
    /\ UNCHANGED offered

\* execute_model for a batch.  A preempted request comes back as a new one, from
\* the start or from what the prefix cache still holds of it.
Execute ==
    /\ phase = "execute"
    /\ \E so \in SchedulerOutputs :
       \E cached \in {f \in [so.new -> 0..MaxLen] :
                        \A r \in so.new : f[r] \in {0, sched.computed[r]}} :
         LET out == [preempted |-> so.preempted, new |-> so.new, ran |-> so.ran,
                     cached |-> cached] IN
         \E work \in Batches(out) :
            /\ work # {}
            /\ sched' = Scheduled(out, work)
            /\ UpdateRequests(out)
            /\ LET batch == BatchOrder({[req |-> w.req, num |-> w.num, drafts |-> w.drafts,
                                         slot |-> table'.index[w.req]] : w \in work})
               IN  Forward(slot', batch) \/ Raise
    /\ phase' = "sample"
    /\ step' = 1 - step

\* execute_model with nothing to run: only the finished and the preempted go.
ExecuteNothing ==
    /\ phase = "execute"
    /\ \E so \in SchedulerOutputs :
         /\ so.new = {} /\ so.ran = {}
         /\ so.preempted # {} \/ sched.finished # {}
         /\ LET out == [preempted |-> so.preempted, new |-> {}, ran |-> {},
                        cached |-> <<>>] IN
            /\ sched' = Scheduled(out, {})
            /\ UpdateRequests(out)
    /\ UNCHANGED <<kv, exec, phase, step>>

\* Fault: the state a step was sampled from is kept.
AfterSampleKeeps(e) == e

\* sample_tokens clears the state before it samples.
AfterSample(e) == NoState

ItemOf(batch, r) == CHOOSE i \in DOMAIN batch : batch[i].req = r

\* The scheduler takes the sampled tokens, no more than the request may have.
Accounted(e, ss) ==
    LET reqs == {e.batch[i].req : i \in DOMAIN e.batch}
        new(r) == Sampled(e, ItemOf(e.batch, r), ss[e.batch[ItemOf(e.batch, r)].slot])
        rej(r) == Rejected(e, ItemOf(e.batch, r), ss[e.batch[ItemOf(e.batch, r)].slot])
        toks == [r \in Req |->
                   IF r \in reqs
                   THEN LET all == sched.toks[r] \o new(r) IN
                        SubSeq(all, 1, Min({Len(all), MaxLen}))
                   ELSE sched.toks[r]]
        over == {r \in reqs : Len(toks[r]) = MaxLen}
    IN  [sched EXCEPT
          !.toks = toks,
          !.computed = [r \in Req |-> IF r \in over THEN 0
                                      ELSE IF r \in reqs THEN @[r] - rej(r) ELSE @[r]],
          !.status = [r \in Req |-> IF r \in over THEN "done" ELSE @[r]],
          !.finished = @ \cup over]

\* sample_tokens: verify, account, propose drafts for every request of the batch.
SampleTokens ==
    /\ phase = "sample"
    /\ exec # NoState
    /\ exec' = AfterSample(exec)
    /\ sched' = Accounted(exec, slot)
    /\ LET e == exec
           post == [x \in Slot |->
              LET mine == {i \in DOMAIN e.batch : e.batch[i].slot = x} IN
              IF mine = {} THEN slot[x]
              ELSE LET i == CHOOSE i \in mine : TRUE IN
                   PostUpdate(slot[x], e.batch[i], Sampled(e, i, slot[x]),
                              Rejected(e, i, slot[x]))]
           \* Drafts made inside a prompt or past the end: wrong, at worst.
           reads == {i \in DOMAIN e.batch :
                       e.batch[i].req \notin sched'.chunked \cup sched'.finished}
       IN \E right \in {f \in [DOMAIN e.batch -> 0..NumDrafts] :
                           \A i \in DOMAIN e.batch \ reads : f[i] = 0} :
            /\ slot' = [x \in Slot |->
                 LET to == {i \in DOMAIN e.batch : DraftSlot(e.batch, i) = x} IN
                 IF to = {} THEN post[x]
                 ELSE LET i == CHOOSE i \in to : TRUE IN
                      [post[x] EXCEPT !.drafts =
                         Proposal(e.batch[i].req, post[e.batch[i].slot].gpu, right[i])]]
            /\ offered' = {e.batch[i].req : i \in DOMAIN e.batch}
    /\ phase' = "drafts"
    /\ UNCHANGED <<table, kv, step, preempts>>

\* sample_tokens after an execute_model that raised; the engine stops on the raise.
SampleNothing ==
    /\ phase = "sample"
    /\ exec = NoState
    /\ phase' = "stopped"
    /\ UNCHANGED <<sched, table, slot, kv, exec, step, offered, preempts>>

\* take_draft_token_ids: the scheduler ignores drafts made inside a prompt.
TakeDraftTokenIds ==
    /\ phase = "drafts"
    /\ sched' = [sched EXCEPT !.drafts =
         [r \in Req |-> IF /\ r \in offered
                           /\ sched.status[r] = "running"
                           /\ r \notin sched.chunked
                        THEN NumDrafts ELSE @[r]]]
    /\ offered' = {}
    /\ phase' = "execute"
    /\ UNCHANGED <<table, slot, kv, exec, step, preempts>>

\* A client gives up between two steps; the runner learns of it in the next one.
Abort(r) ==
    /\ phase = "execute"
    /\ sched.status[r] # "done"
    /\ sched' = [sched EXCEPT
                   !.status[r] = "done", !.computed[r] = 0, !.drafts[r] = 0,
                   !.chunked = @ \ {r},
                   !.finished = IF sched.status[r] = "running" THEN @ \cup {r} ELSE @]
    /\ UNCHANGED <<table, slot, kv, exec, phase, step, offered, preempts>>

Next ==
    \/ Execute \/ ExecuteNothing
    \/ SampleTokens \/ SampleNothing
    \/ TakeDraftTokenIds
    \/ \E r \in Req : Abort(r)

Spec == Init /\ [][Next]_vars

-----------------------------------------------------------------------------
\* Speculation is lossless: whatever the drafts, chunks, preemptions and slot
\* reuse, a request's tokens are the ones the target alone would have produced.
OutputsAreTargets ==
    \A r \in Req : \A p \in DOMAIN sched.toks[r] : sched.toks[r][p] = Target(r, p - 1)

\* The counts of computed tokens are true.  Between steps the cache below the
\* device's count holds the request's own accepted tokens: a rejected draft's keys
\* are never kept as history (postprocess_sampled).  And when a batch runs, the
\* scheduler's count that the host bounds the sequence lengths with, and that
\* decides whether prompts are copied, is the device's.
CountsAreTrue ==
    /\ phase = "execute" =>
         \A r \in Running : LET s == slot[table.index[r]] IN
             \A p \in 0..(s.gpu - 1) : kv[r][p] = Target(r, p)
    /\ phase = "sample" /\ exec # NoState =>
         \A i \in DOMAIN exec.batch :
             slot[exec.batch[i].slot].cpu = slot[exec.batch[i].slot].gpu

\* No row of a batch is fed a token made for another request, and the rows whose
\* logits are sampled for a request lie in its own query: what the last owner of
\* a slot left in its last-sampled and draft rows is never read.  The order of the
\* batch is the one split_decodes_and_prefills relies on: full verifications lead,
\* and no query longer than a decode comes before one that is not.
RowsAreOwn ==
    /\ \A i \in DOMAIN exec.batch :
         LET rows == LogitsRows(exec.batch, i)
             own  == QueryRows(exec.batch, i)
         IN  /\ \A row \in own : exec.inputs[row][1] = exec.batch[i].req
             /\ \A t \in DOMAIN rows : rows[t] \in own
    /\ \A i, j \in DOMAIN exec.batch : i < j =>
         /\ exec.batch[i].num > DecodeLen => exec.batch[j].num > DecodeLen
         /\ exec.batch[j].drafts = NumDrafts => exec.batch[i].drafts = NumDrafts

\* A state to sample is that of the last execute_model: after one that raised,
\* sample_tokens finds none, not the state an earlier step left.
SamplesLastStep == exec # NoState => phase = "sample" /\ exec.step = step
=============================================================================
