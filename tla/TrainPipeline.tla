--------------------------- MODULE TrainPipeline ---------------------------
(***************************************************************************)
(* The pipelined training loop: JaggedMegatronTrainPipelineSparseDist      *)
(* ("native") and JaggedMegatronPrefetchTrainPipelineSparseDist            *)
(* ("prefetch") of examples/commons/pipeline, with the balanced batch      *)
(* shuffler of examples/commons/distributed, on data-parallel ranks.       *)
(*                                                                         *)
(* The host thread of a rank runs progress() once per batch.  It launches  *)
(* work on the CUDA streams, hands tasks to the KK thread, and stops where *)
(* it needs a result: one action from each such point to the next.  Work   *)
(* on a stream runs in order and after what it waits for; a collective     *)
(* runs when it is the oldest of its communicator on every rank.           *)
(***************************************************************************)
EXTENDS Naturals, Sequences, SequencesExt

CONSTANTS
    NumRanks,    \* data-parallel ranks
    Pipelines,   \* which of "native" and "prefetch"
    Shufflers,   \* which of "identity" and "balanced"
    Plans        \* what the trainer runs: sequences of slices of a loader

ASSUME TrainAssumption ==
    /\ NumRanks \in Nat \ {0}
    /\ Pipelines \subseteq {"native", "prefetch"} /\ Shufflers \subseteq {"identity", "balanced"}
    /\ Plans \subseteq Seq([mode : {"train", "eval"}, size : Nat])

VARIABLES
    kind, shuffler, plan,   \* this job
    pc,        \* by rank: where the host thread is in progress()
    slice,     \* by rank: the slice the trainer loops over
    loader,    \* by rank: _dataloader_iter, _dataloader_exhausted, batches drawn
    slots,     \* by rank: batches, or _batch_i and _batch_ip1
    raw,       \* by rank: raw_batch of this call
    contexts,  \* by rank: contexts, or the one _context
    forwards,  \* by rank: the batches given to the model, and in which loop
    device,    \* by rank: what is launched on each stream and has not run, how
               \* much was launched, the collectives of each communicator in order
    kk,        \* by rank: tasks of the single-worker _kk_executor
    ran,       \* by rank: what has been computed
    stale      \* by rank: what was computed from inputs that were not there

jobVars == <<kind, shuffler, plan>>
hostVars == <<pc, slice, loader, slots, raw, contexts, forwards>>
trainVars == <<jobVars, hostVars, device, kk, ran, stale>>

Rank == 1 .. NumRanks
Stream == {"memcpy", "dist", "prefetch", "default"}
Communicator == {"world", "dp"}
Balanced == shuffler = "balanced"
Prefetching == kind = "prefetch"
None == 0

\* The batches are numbered as the loaders yield them: slice k has those after Before(k).
Before(k) ==
    LET upTo[n \in 0 .. Len(plan)] == IF n = 0 THEN 0 ELSE upTo[n - 1] + plan[n].size
    IN  upTo[k - 1]
Training(r) == plan[slice[r]].mode = "train"
-----------------------------------------------------------------------------
(* Work on the streams.                                                    *)

\* A launch on stream s that first waits for the streams in after.
Launch(s, op, b, data, after) ==
    [stream |-> s, op |-> op, batch |-> b, data |-> data, after |-> after]
If(test, code) == IF test THEN code ELSE <<>>

CommunicatorOf(op) ==
    CASE op \in {"tokens", "splits", "tensors", "forward", "backward"} -> {"world"}
      [] op \in {"workloads", "shuffle", "grads"} -> {"dp"}
      [] OTHER -> {}

\* One launch.  wait_stream: all that was launched on the other stream so far
\* comes first.
Issue(d, w) ==
    [queue  |-> [d.queue EXCEPT ![w.stream] =
                    Append(@, [w EXCEPT !.after = {<<s, d.count[s]>> : s \in @}])],
     count  |-> [d.count EXCEPT ![w.stream] = @ + 1],
     issued |-> [c \in Communicator |-> d.issued[c] \o If(c \in CommunicatorOf(w.op), <<<<w.op, w.batch>>>>)]]

Enqueue(d, code) ==
    LET upTo[n \in 0 .. Len(code)] == IF n = 0 THEN d ELSE Issue(upTo[n - 1], code[n])
    IN  upTo[Len(code)]

Launches(r, code) == device' = [device EXCEPT ![r] = Enqueue(@, code)]

\* A result the host has to wait for.
Pending(r, op, b) ==
    \/ op = "kk" /\ Contains(kk[r], b)
    \/ \E s \in Stream : \E i \in DOMAIN device[r].queue[s] :
          device[r].queue[s][i].op = op /\ device[r].queue[s][i].batch = b
-----------------------------------------------------------------------------
(* The loader and the shuffler.                                            *)

\* Mutant: the flag outlives the iterator it was set for.
NextBatchStaysExhausted(r) ==
    IF loader[r].exhausted \/ loader[r].drawn >= Before(slice[r] + 1) THEN None
    ELSE loader[r].drawn + 1

\* _next_batch: an exhausted iterator is not asked again; a new one resets the flag.
NextBatch(r) ==
    IF \/ loader[r].exhausted /\ loader[r].iter = slice[r]
       \/ loader[r].drawn >= Before(slice[r] + 1)
    THEN None ELSE loader[r].drawn + 1

Draw(r) ==
    LET b == NextBatch(r)
    IN  loader' = [loader EXCEPT ![r] = [iter |-> slice[r], exhausted |-> b = None,
                                         drawn |-> IF b = None THEN @.drawn ELSE b]]

\* _to_device
CopyBatch(b) == If(b # None, <<Launch("memcpy", "copy", b, b, {})>>)

\* get_workloads and their all-gather, in shuffle and start_shuffle_async.
Workloads(b) == If(b # None /\ Balanced, <<Launch("memcpy", "workloads", b, b, {})>>)

\* Mutant: the KK thread is handed the gathered workloads on the device.
WorkloadsReadAtOnce(r, b) == TRUE

\* The host has read the gathered workloads (tensor_to_cpu_list).
WorkloadsRead(r, b) == ~Pending(r, "workloads", b)

\* shuffle_batch_by_global_indices, in shuffle and finish_shuffle.
Redistribute(b) == If(b # None /\ Balanced, <<Launch("memcpy", "shuffle", b, b, {})>>)
-----------------------------------------------------------------------------
(* The input dist and its contexts.                                        *)

NewContext == [splits |-> None, next |-> None, tensors |-> None, module |-> None, post |-> <<None, None>>]

\* start_sparse_data_dist: the all-to-all of the splits.
StartSparseDataDist(b) == If(b # None, <<Launch("dist", "splits", b, b, {"memcpy"})>>)
Started(c, b) == IF b = None THEN c ELSE [c EXCEPT !.splits = b, !.next = b]

\* wait_sparse_data_dist, once the splits are there: the all-to-all of the
\* tensors.  Only the contexts of version 1 forget the splits: _context keeps
\* them, and waiting again issues the tensors again.
WaitSparseDataDist(c) == If(c.splits # None, <<Launch("dist", "tensors", c.splits, c.splits, {})>>)
Waited(c) == IF c.splits = None THEN c
             ELSE [c EXCEPT !.tensors = c.splits, !.module = c.next,
                            !.splits = IF Prefetching THEN @ ELSE None]

\* _prefetch and _prefetch_embeddings: the rows of batch b come to the cache.
Prefetch(c, b) == If(b # None, <<Launch("prefetch", "rows", b, c.tensors, {"dist"})>>)
Prefetched(c, b) == IF b = None THEN c
                    ELSE [c EXCEPT !.tensors = None, !.module = None, !.post = <<c.tensors, c.module>>]

\* What PipelinedForward or PrefetchPipelinedForward pops.
ForwardData(c) == IF ~Prefetching THEN c.tensors
                  ELSE IF c.post[1] = c.post[2] THEN c.post[1] ELSE None
Popped(c) == IF Prefetching THEN [c EXCEPT !.post = <<None, None>>] ELSE [c EXCEPT !.tensors = None]
-----------------------------------------------------------------------------
(* fill_pipeline and _fill_pipeline, which do something on an empty        *)
(* pipeline only.                                                          *)

\* Batch i is drawn and copied; without one progress raises StopIteration and
\* the trainer goes on with its next slice.
FillFirst(r) ==
    LET b == NextBatch(r)
    IN  /\ pc[r] = "call" /\ slots[r] = <<>> /\ slice[r] <= Len(plan)
        /\ Draw(r)
        /\ IF b = None
           THEN slice' = [slice EXCEPT ![r] = @ + 1] /\ UNCHANGED <<pc, slots, contexts, device>>
           ELSE /\ slots' = [slots EXCEPT ![r] = <<b>>]
                /\ contexts' = [contexts EXCEPT ![r] = IF Prefetching THEN @ ELSE <<NewContext>>]
                /\ Launches(r, CopyBatch(b) \o Workloads(b))
                /\ pc' = [pc EXCEPT ![r] = "fill"]
                /\ UNCHANGED slice
        /\ UNCHANGED <<jobVars, raw, forwards, kk, ran, stale>>

\* Its input dist starts, in _fill_pipeline twice.
FillDist(r) ==
    LET b == slots[r][1]
    IN  /\ pc[r] = "fill" /\ pc' = [pc EXCEPT ![r] = "filled"]
        /\ WorkloadsRead(r, b)
        /\ contexts' = [contexts EXCEPT ![r][1] = Started(@, b)]
        /\ Launches(r, Redistribute(b) \o StartSparseDataDist(b)
                       \o If(Prefetching, StartSparseDataDist(b)))
        /\ UNCHANGED <<jobVars, slice, loader, slots, raw, forwards, kk, ran, stale>>

\* ... and is waited for; the batch is prefetched and batch i + 1 is copied.
FillSecond(r) ==
    LET b == NextBatch(r)
        c == Waited(contexts[r][1])
    IN  /\ pc[r] = "filled" /\ pc' = [pc EXCEPT ![r] = "second"]
        /\ ~Pending(r, "splits", slots[r][1])
        /\ Draw(r) /\ raw' = [raw EXCEPT ![r] = b]
        /\ contexts' = [contexts EXCEPT ![r][1] = IF Prefetching THEN Prefetched(c, slots[r][1]) ELSE c]
        /\ Launches(r, WaitSparseDataDist(contexts[r][1])
                       \o If(Prefetching, Prefetch(c, slots[r][1]))
                       \o CopyBatch(b) \o Workloads(b))
        /\ UNCHANGED <<jobVars, slice, slots, forwards, kk, ran, stale>>

\* raw_batch joins the pipeline.
Queued(r, c) ==
    /\ slots' = [slots EXCEPT ![r] = IF raw[r] = None THEN @ ELSE Append(@, raw[r])]
    /\ contexts' = [contexts EXCEPT ![r] =
                       IF Prefetching THEN <<Started(c, raw[r])>>
                       ELSE IF raw[r] = None THEN <<c>> \o Tail(@) ELSE <<c>> \o Tail(@) \o <<NewContext>>]

FillEnd(r) ==
    /\ pc[r] = "second" /\ pc' = [pc EXCEPT ![r] = "begin"]
    /\ WorkloadsRead(r, raw[r])
    /\ Queued(r, contexts[r][1])
    /\ Launches(r, Redistribute(raw[r]) \o If(Prefetching, StartSparseDataDist(raw[r])))
    /\ UNCHANGED <<jobVars, slice, loader, raw, forwards, kk, ran, stale>>
-----------------------------------------------------------------------------
(* The rest of progress.                                                   *)

\* Mutant: a rank whose batch has no loss tokens skips the all-reduce.
GlobalTokensIfAny(r, b) ==
    If(Training(r) /\ <<r, b>> # <<1, 1>>, <<Launch("default", "tokens", b, b, {})>>)

\* num_loss_tokens and their all-reduce, before _wait_for_batch.
GlobalTokens(r, b) == If(Training(r), <<Launch("default", "tokens", b, b, {})>>)

\* The loss tokens are counted, the input dist of batch i + 1 starts ("native"),
\* batch i + 2 is copied.
Begin(r) ==
    LET b == NextBatch(r)
        ahead == ~Prefetching /\ Len(slots[r]) >= 2
    IN  /\ pc[r] = "begin" \/ (pc[r] = "call" /\ slots[r] # <<>>)
        /\ pc' = [pc EXCEPT ![r] = "dist"]
        /\ Draw(r) /\ raw' = [raw EXCEPT ![r] = b]
        /\ contexts' = [contexts EXCEPT ![r] =
                           IF ahead THEN [contexts[r] EXCEPT ![2] = Started(@, slots[r][2])] ELSE @]
        /\ Launches(r, GlobalTokens(r, slots[r][1])
                       \o If(ahead, StartSparseDataDist(slots[r][2])) \o CopyBatch(b))
        /\ UNCHANGED <<jobVars, slice, slots, forwards, kk, ran, stale>>

\* The splits are waited for; then the shuffle starts.
WaitDist(r) ==
    LET i == IF Prefetching THEN 1 ELSE 2
        there == i \in DOMAIN contexts[r]
    IN  /\ pc[r] = "dist" /\ pc' = [pc EXCEPT ![r] = "forward"]
        /\ there => ~Pending(r, "splits", contexts[r][i].splits)
        /\ contexts' = [contexts EXCEPT ![r] = IF there THEN [contexts[r] EXCEPT ![i] = Waited(@)] ELSE @]
        /\ Launches(r, If(there, WaitSparseDataDist(contexts[r][i])) \o Workloads(raw[r]))
        /\ UNCHANGED <<jobVars, slice, loader, slots, raw, forwards, kk, ran, stale>>

\* start_shuffle_async submits the workloads to the KK thread; the model runs
\* on batch i, after _wait_for_batch.
Forward(r) ==
    LET b == slots[r][1]
        c == contexts[r][1]
    IN  /\ pc[r] = "forward" /\ pc' = [pc EXCEPT ![r] = "finish"]
        /\ WorkloadsRead(r, raw[r])
        /\ kk' = [kk EXCEPT ![r] = @ \o If(raw[r] # None /\ Balanced, <<raw[r]>>)]
        /\ forwards' = [forwards EXCEPT ![r] = Append(@, <<b, plan[slice[r]].mode>>)]
        /\ contexts' = [contexts EXCEPT ![r][1] = Popped(@)]
        /\ Launches(r, <<Launch("default", "forward", b, ForwardData(c),
                                IF Prefetching THEN {"dist", "prefetch"} ELSE {"dist"})>>)
        /\ UNCHANGED <<jobVars, slice, loader, slots, raw, ran, stale>>

\* The guard before the loss: the default stream waits for the shuffle.  It is there
\* for the race of two streams that Collective leaves out, so here it only delays.
CommunicatorGuard == If(Balanced, <<Launch("default", "wait", None, None, {"memcpy"})>>)

\* backward and finalize_model_grads.
Backward(r, b) ==
    If(Training(r), <<Launch("default", "backward", b, b, IF Prefetching THEN {"prefetch"} ELSE {}),
                      Launch("default", "grads", b, b, {})>>)

\* finish_shuffle with the partition of the KK thread, prefetch, backward, the
\* input dist of batch i + 2 ("prefetch"), and the next batch becomes batch i.
Finish(r) ==
    LET b == slots[r][1]
        ahead == IF Prefetching /\ Len(slots[r]) >= 2 THEN slots[r][2] ELSE None
        c == contexts[r][1]
        left == Tail(slots[r]) \o If(raw[r] # None, <<raw[r]>>)
    IN  /\ pc[r] = "finish" /\ pc' = [pc EXCEPT ![r] = "call"]
        /\ ~Pending(r, "kk", raw[r])
        /\ slots' = [slots EXCEPT ![r] = left]
        /\ contexts' = [contexts EXCEPT ![r] =
                           IF Prefetching THEN <<Started(Prefetched(c, ahead), raw[r])>>
                           ELSE Tail(@) \o If(raw[r] # None, <<NewContext>>)]
        /\ raw' = [raw EXCEPT ![r] = None]
        /\ Launches(r, Redistribute(raw[r]) \o CommunicatorGuard \o Prefetch(c, ahead) \o Backward(r, b)
                       \o If(Prefetching, StartSparseDataDist(raw[r])))
        /\ UNCHANGED <<jobVars, slice, loader, forwards, kk, ran, stale>>
-----------------------------------------------------------------------------
(* The KK thread and the devices.                                          *)

\* What a computation reads: the batch as it is trained on, the results of the
\* input dist it was handed.
Trained(b) == IF Balanced THEN <<"shuffle", b>> ELSE <<"copy", b>>
Needs(w) ==
    CASE w.op = "workloads" -> {<<"copy", w.batch>>}
      [] w.op = "kk"        -> {<<"workloads", w.batch>>}
      [] w.op = "shuffle"   -> {<<"workloads", w.batch>>, <<"copy", w.batch>>}
      [] w.op \in {"splits", "tokens"} -> {Trained(w.batch)}
      [] w.op = "tensors"   -> {<<"splits", w.data>>}
      [] w.op = "rows"      -> {<<"tensors", w.data>>}
      [] w.op = "forward"   -> {Trained(w.batch), <<IF Prefetching THEN "rows" ELSE "tensors", w.data>>}
      [] w.op = "backward"  -> {<<"forward", w.batch>>, <<"tokens", w.batch>>}
      [] w.op = "grads"     -> {<<"backward", w.batch>>}
      [] OTHER -> {}
Sound(r, w) == w.data = w.batch /\ Needs(w) \subseteq ran[r]

\* The effect of w on what rank r has computed.
Computed(r, w) == IF w.op = "wait" THEN ran[r] ELSE ran[r] \cup {<<w.op, w.batch>>}
Spoilt(r, w) == IF Sound(r, w) THEN stale[r] ELSE stale[r] \cup {<<w.op, w.batch>>}

Done(r, s) == device[r].count[s] - Len(device[r].queue[s])
Ready(r, s) ==
    /\ device[r].queue[s] # <<>>
    /\ \A a \in Head(device[r].queue[s]).after : Done(r, a[1]) >= a[2]

\* Work of one rank: a copy, the prefetch, a wait.
Run(r, s) ==
    LET w == Head(device[r].queue[s])
    IN  /\ Ready(r, s) /\ CommunicatorOf(w.op) = {}
        /\ device' = [device EXCEPT ![r].queue[s] = Tail(@)]
        /\ ran' = [ran EXCEPT ![r] = Computed(r, w)]
        /\ stale' = [stale EXCEPT ![r] = Spoilt(r, w)]
        /\ UNCHANGED <<jobVars, hostVars, kk>>

\* A collective: every rank has come to it, as the oldest of its communicator.  A
\* communicator takes its collectives in the order in which the host issued them,
\* whatever streams they are on: two streams never race for one.
Collective(c, at) ==
    LET work == [r \in Rank |-> Head(device[r].queue[at[r]])]
    IN  /\ \A r \in Rank : /\ Ready(r, at[r])
                           /\ device[r].issued[c] # <<>>
                           /\ Head(device[r].issued[c]) = <<work[r].op, work[r].batch>>
                           /\ Head(device[r].issued[c]) = Head(device[1].issued[c])
        /\ device' = [r \in Rank |-> [device[r] EXCEPT !.queue[at[r]] = Tail(@), !.issued[c] = Tail(@)]]
        /\ ran' = [r \in Rank |-> Computed(r, work[r])]
        /\ stale' = [r \in Rank |-> Spoilt(r, work[r])]
        /\ UNCHANGED <<jobVars, hostVars, kk>>

\* The KK thread partitions the oldest task.
RunKK(r) ==
    /\ kk[r] # <<>>
    /\ LET w == [op |-> "kk", batch |-> Head(kk[r]), data |-> Head(kk[r])]
       IN  /\ ran' = [ran EXCEPT ![r] = Computed(r, w)]
           /\ stale' = [stale EXCEPT ![r] = Spoilt(r, w)]
    /\ kk' = [kk EXCEPT ![r] = Tail(@)]
    /\ UNCHANGED <<jobVars, hostVars, device>>
-----------------------------------------------------------------------------
Init ==
    /\ kind \in Pipelines /\ shuffler \in Shufflers /\ plan \in Plans
    /\ pc = [r \in Rank |-> "call"] /\ slice = [r \in Rank |-> 1]
    /\ loader = [r \in Rank |-> [iter |-> 0, exhausted |-> FALSE, drawn |-> 0]]
    /\ slots = [r \in Rank |-> <<>>] /\ raw = [r \in Rank |-> None]
    /\ contexts = [r \in Rank |-> If(Prefetching, <<NewContext>>)]
    /\ forwards = [r \in Rank |-> <<>>]
    /\ device = [r \in Rank |-> [queue |-> [s \in Stream |-> <<>>], count |-> [s \in Stream |-> 0],
                                 issued |-> [c \in Communicator |-> <<>>]]]
    /\ kk = [r \in Rank |-> <<>>]
    /\ ran = [r \in Rank |-> {}] /\ stale = [r \in Rank |-> {}]

Host(r) == \/ FillFirst(r) \/ FillDist(r) \/ FillSecond(r) \/ FillEnd(r)
           \/ Begin(r) \/ WaitDist(r) \/ Forward(r) \/ Finish(r)

Next ==
    \/ \E r \in Rank : Host(r) \/ RunKK(r) \/ \E s \in Stream : Run(r, s)
    \/ \E c \in Communicator : \E at \in [Rank -> Stream] : Collective(c, at)

Spec == Init /\ [][Next]_trainVars

\* The threads are scheduled and the devices run what is launched on them.
FairSpec == Spec /\ WF_trainVars(Next)
-----------------------------------------------------------------------------
(* Properties.                                                             *)

\* Nothing is computed before, or from something else than, its inputs: not
\* the loss tokens of a batch still being copied, not the partition from
\* workloads still being gathered, not the model on the input dist or the
\* prefetched rows of another batch.
NothingReadEarly == \A r \in Rank : stale[r] = {}

\* training.py:52-57: the pipeline drains at the end of each slice.  Every
\* batch goes through the model once, in the loader's order, in the training
\* or evaluation loop it was loaded for.
BatchesInOrder ==
    \A r \in Rank :
        /\ \A i \in DOMAIN forwards[r] : \E k \in DOMAIN plan :
              /\ i > Before(k) /\ i <= Before(k + 1)
              /\ forwards[r][i] = <<i, plan[k].mode>>
        /\ Len(forwards[r]) >= Before(slice[r])

\* "a deterministic per-rank enqueue order on each NCCL communicator and
\* avoiding deadlocks" (train_pipeline.py:702): all ranks get through the plan.
JobEnds == <>(\A r \in Rank : /\ slice[r] > Len(plan) /\ kk[r] = <<>>
                              /\ \A s \in Stream : device[r].queue[s] = <<>>)
=============================================================================
