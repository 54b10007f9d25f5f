------------------------- MODULE ContinuousScheduler -------------------------
(***************************************************************************)
(* Continuous batching of the SID-GR server: GRContinuousScheduler, the    *)
(* executor that runs its ticks (GRContinuousServingExecutor), the KV      *)
(* lease allocator and the two dense KV pools.                             *)
(*                                                                         *)
(* A tick runs under the worker's lock; its stages are the values of phase *)
(* and everything that takes the lock waits for "idle".  Tensors, tokens   *)
(* and scores are left out; beam widths are fixed per request.             *)
(***************************************************************************)
EXTENDS Integers, Sequences, FiniteSets, SequencesExt, FiniteSetsExt, Functions,
        SeqSelect

CONSTANTS
    Request,       \* request ids
    DecodeSteps,   \* [Request -> max_decode_steps]
    Width,         \* [Request -> beam_width]
    Context,       \* [Request -> context tokens]
    Timeout,       \* [Request -> timeout_ticks], NoTimeout when not given
    NoTimeout,
    MaxPrefill,    \* max_prefill_batch_size
    MaxDecode,     \* max_decode_batch_size
    MaxRunning,    \* max_running_requests
    MaxContext,    \* max_context_tokens
    MaxBeams,      \* max_beam_slots
    MaxFinished,   \* max_finished_requests
    BeamSlots,     \* capacity of the BeamKV pool
    ContextSlots,  \* capacity of the ContextKV pool
    Faults         \* which executors may raise: a subset of {"prefill", "decode"}

ASSUME PolicyAssumption ==
    /\ {MaxPrefill, MaxDecode, MaxRunning, MaxContext, MaxBeams, MaxFinished}
          \subseteq Nat \ {0}
    /\ BeamSlots \in Nat \ {0} /\ ContextSlots \in Nat \ {0}
ASSUME RequestAssumption ==
    /\ IsFiniteSet(Request)
    /\ {DecodeSteps, Width, Context} \subseteq [Request -> Nat \ {0}]
    /\ NoTimeout \notin Nat
    /\ Timeout \in [Request -> Nat \cup {NoTimeout}]

VARIABLES
    states,        \* ids of the dict states, in submission order
    stage,         \* [Request -> stage of its state], "unknown" when it has none
    waiting,       \* the deque waiting_prefill
    decoding,      \* ids of the dict decoding, in admission order
    finished,      \* ids of the dict finished (the retained answers), oldest first
    reason,        \* [Request -> stop_reason]
    step,          \* [Request -> current_decode_step]
    age,           \* [Request -> tick_count - submitted_tick], where a timeout reads it
    leases,        \* requests with a lease of kv_allocator
    beam,          \* the BeamKV pool: its free slots and the slots leased to requests
    ctx,           \* the ContextKV pool
    phase,         \* where the tick is
    prefill,       \* prefill_ids of this tick
    groups,        \* requests_by_shape of this tick, the groups still to run
    batches,       \* decode_batches of this tick
    at,            \* the decode batch to run next
    done,          \* ids _run_decode_batches finished so far in this tick
    ended          \* finished_request_ids of this tick

requestVars == <<states, stage, waiting, decoding, finished, reason, step, age, leases>>
poolVars == <<beam, ctx>>
tickVars == <<prefill, groups, batches, at, done, ended>>
schedVars == <<requestVars, poolVars, phase, tickVars>>

Outcomes == {"decoded", "cancelled", "prefill_failed", "decode_failed",
             "request_timeout", "timeout"}
-----------------------------------------------------------------------------
(* The lease allocator and the pools.                                      *)

Total(cost, S) == MapThenSumSet(LAMBDA r : cost[r], S)

CanAllocate(r) ==
    \/ r \in leases
    \/ /\ Cardinality(leases) + 1 <= MaxRunning
       /\ Total(Context, leases) + Context[r] <= MaxContext
       /\ Total([q \in Request |-> DecodeSteps[q] * Width[q]], leases)
             + DecodeSteps[r] * Width[r] <= MaxBeams

Pool(n) == [free |-> 0 .. n - 1, lease |-> << >>]
Lease(pool, r, slot) ==
    [free |-> pool.free \ {slot},
     lease |-> [q \in DOMAIN pool.lease \cup {r} |-> IF q = r THEN slot ELSE pool.lease[q]]]

\* allocate: the lowest free slot for each request in turn, as long as there is one.
Allocate(pool, q) ==
    LET after[n \in 0 .. Len(q)] ==
            IF n = 0 THEN pool
            ELSE IF after[n - 1].free = {} THEN after[n - 1]
            ELSE Lease(after[n - 1], q[n], Min(after[n - 1].free))
    IN  after[Len(q)]

\* allocate_batch: the first run of free slots that is long enough, or nothing.
AllocateBatch(pool, q) ==
    LET starts == {s \in pool.free : s .. s + Len(q) - 1 \subseteq pool.free}
        slot(r) == Min(starts) + (CHOOSE i \in DOMAIN q : q[i] = r) - 1
    IN  IF starts = {} THEN pool
        ELSE [free |-> pool.free \ (Min(starts) .. Min(starts) + Len(q) - 1),
              lease |-> [r \in DOMAIN pool.lease \cup Range(q) |->
                            IF r \in Range(q) THEN slot(r) ELSE pool.lease[r]]]

\* Mutant: the slot is freed and the lease stays.
ReleaseKeepsLease(pool, S) ==
    [pool EXCEPT !.free = @ \cup {pool.lease[r] : r \in S \cap DOMAIN pool.lease}]

Release(pool, S) ==
    LET gone == S \cap DOMAIN pool.lease
    IN  [free |-> pool.free \cup {pool.lease[r] : r \in gone},
         lease |-> Restrict(pool.lease, DOMAIN pool.lease \ gone)]
-----------------------------------------------------------------------------
(* Ending requests: _fail_state, _finish_state and the tail of cancel.     *)

\* _store_finished_response keeps the newest MaxFinished answers.
Retain(q) == SubSeq(q, Max({0, Len(q) - MaxFinished}) + 1, Len(q))

Ends(q, why) ==
    LET S == Range(q)
    IN  /\ stage' = [r \in Request |-> IF r \in S THEN "finished" ELSE stage[r]]
        /\ reason' = [r \in Request |-> IF r \in S THEN why ELSE reason[r]]
        /\ finished' = Retain(finished \o q)

\* Mutants: the lease is not released; the request stays in the queue.
LeavesLease(S) ==
    /\ waiting' = Without(waiting, S) /\ decoding' = Without(decoding, S)
    /\ UNCHANGED leases
LeavesQueued(S) ==
    /\ decoding' = Without(decoding, S) /\ leases' = leases \ S
    /\ UNCHANGED waiting

Leaves(S) ==
    /\ waiting' = Without(waiting, S)
    /\ decoding' = Without(decoding, S)
    /\ leases' = leases \ S

Finish(q, why) == Ends(q, why) /\ Leaves(Range(q))

\* Mutant: the context slots are not released.
AttachBeamOnly(S) == beam' = Release(beam, S) /\ UNCHANGED ctx

\* _attach_execution_metadata: the pools take back the slots of these requests.
Attach(S) ==
    /\ beam' = Release(beam, S)
    /\ ctx' = Release(ctx, S)
-----------------------------------------------------------------------------
(* Operations besides the tick.                                            *)

\* facade.submit_many when it accepts: every request gets a state and is queued.
SubmitAll(q) ==
    /\ states' = states \o q
    /\ stage' = [r \in Request |-> IF r \in Range(q) THEN "waiting_prefill" ELSE stage[r]]
    /\ waiting' = waiting \o q
    /\ UNCHANGED <<decoding, finished, reason, step, age, leases>>

\* Mutant: an answer that is retained is not looked for.
CancelAgain(r) ==
    /\ phase = "idle" /\ stage[r] # "unknown"
    /\ Finish(<<r>>, "cancelled")
    /\ Attach({r})
    /\ UNCHANGED <<states, step, age, phase, tickVars>>

\* cancel.  A request whose answer is retained keeps it; one that finished and
\* whose answer is no longer retained is answered again.
Cancel(r) ==
    /\ phase = "idle"
    /\ stage[r] # "unknown"
    /\ \/ /\ r \in Range(finished)
          /\ UNCHANGED <<stage, waiting, decoding, finished, reason, leases>>
       \/ r \notin Range(finished) /\ Finish(<<r>>, "cancelled")
    /\ Attach({r})
    /\ UNCHANGED <<states, step, age, phase, tickVars>>

\* fail_unfinished, at the end of a run_until_empty that ran out of ticks.
FailUnfinished ==
    /\ Finish(waiting \o decoding, "timeout")
    /\ Attach(Range(waiting \o decoding))
    /\ UNCHANGED <<states, step, age>>
-----------------------------------------------------------------------------
(* The tick.                                                               *)

\* tick_count moves on and requests older than their timeout_ticks fail.
FailTimedOut ==
    /\ phase = "timeouts"
    /\ LET open == {r \in Request : stage[r] \in {"waiting_prefill", "decoding"}}
           timed == {r \in open : Timeout[r] # NoTimeout}
           late == {r \in timed : age[r] + 1 > Timeout[r]}
       IN  /\ age' = [r \in Request |-> IF r \in timed THEN age[r] + 1 ELSE age[r]]
           /\ Finish(Only(states, late), "request_timeout")
           /\ ended' = late
    /\ phase' = "admit"
    /\ prefill' = <<>>
    /\ UNCHANGED <<states, step, poolVars, groups, batches, at, done>>

\* _admit_prefill_batch: requests leave the queue while the budget allows.
Admitting == phase = "admit" /\ Len(prefill) < MaxPrefill /\ waiting # <<>>

Admit ==
    /\ Admitting /\ CanAllocate(Head(waiting))
    /\ LET r == Head(waiting)
       IN  /\ leases' = leases \cup {r}
           /\ stage' = [stage EXCEPT ![r] = "decoding"]
           /\ decoding' = Append(decoding, r)
           /\ prefill' = Append(prefill, r)
    /\ waiting' = Tail(waiting)
    /\ UNCHANGED <<states, finished, reason, step, age, poolVars, phase,
                   groups, batches, at, done, ended>>

\* Mutant: the request goes to the back of the queue.
DeferBack(q) == Append(Tail(q), Head(q))

\* A request that does not fit is popped and pushed back to the front.
Defer(q) == <<Head(q)>> \o Tail(q)

\* _run_prefill groups the admitted requests by the shape of their input, in
\* the order in which the shapes come up.
ShapeGroups(q) ==
    LET heads == Only(q, {q[i] : i \in {n \in DOMAIN q :
                                            \A k \in 1 .. n - 1 : Context[q[k]] # Context[q[n]]}})
    IN  [i \in DOMAIN heads |-> Only(q, {r \in Range(q) : Context[r] = Context[heads[i]]})]

AdmitEnd ==
    /\ phase = "admit"
    /\ \/ ~Admitting /\ UNCHANGED waiting
       \/ /\ Admitting /\ ~CanAllocate(Head(waiting)) /\ leases # {}
          /\ waiting' = Defer(waiting)
    /\ groups' = ShapeGroups(prefill)
    /\ phase' = "prefill"
    /\ UNCHANGED <<states, stage, decoding, finished, reason, step, age, leases, poolVars,
                   prefill, batches, at, done, ended>>

\* A request that does not fit into an idle server makes the tick raise after
\* it was popped; the rest of the tick, releasing slots included, is skipped.
OverBudget ==
    /\ Admitting /\ ~CanAllocate(Head(waiting)) /\ leases = {}
    /\ waiting' = Tail(waiting)
    /\ phase' = "idle"
    /\ ended' = {}
    /\ UNCHANGED <<states, stage, decoding, finished, reason, step, age, leases, poolVars,
                   prefill, groups, batches, at, done>>

\* One group of _run_prefill: context slots for the group, a beam slot for each request.
Prefill ==
    /\ phase = "prefill" /\ groups # <<>>
    /\ Len(Head(groups)) <= Cardinality(beam.free)
    /\ ctx' = AllocateBatch(ctx, Head(groups))
    /\ beam' = Allocate(beam, Head(groups))
    /\ groups' = Tail(groups)
    /\ UNCHANGED <<requestVars, phase, prefill, batches, at, done, ended>>

\* The prefill executor raises, or the beam pool is exhausted, after some of
\* the group's slots were taken: every request admitted in this tick fails.
PrefillFails ==
    /\ phase = "prefill" /\ groups # <<>>
    /\ \E k \in 0 .. Len(Head(groups)), c \in {ctx, AllocateBatch(ctx, Head(groups))} :
          /\ \/ "prefill" \in Faults
             \/ k = Cardinality(beam.free) /\ k < Len(Head(groups))
          /\ k > 0 => c = AllocateBatch(ctx, Head(groups))
          /\ ctx' = c
          /\ beam' = Allocate(beam, SubSeq(Head(groups), 1, k))
    /\ Finish(prefill, "prefill_failed")
    /\ ended' = ended \cup Range(prefill)
    /\ phase' = "attach"
    /\ UNCHANGED <<states, step, age, prefill, groups, batches, at, done>>

\* _plan_decode_batches: decoding requests of equal step, width and context,
\* in the order of these keys, in batches of at most MaxDecode.
Key(r) == <<step[r], Width[r], Context[r]>>
Before(a, b) == \E i \in 1..3 : a[i] < b[i] /\ \A j \in 1 .. i - 1 : a[j] = b[j]
\* Mutant: a last batch that is not full is left out.
ChunksFull(q) == [i \in 1 .. Len(q) \div MaxDecode |->
                     SubSeq(q, (i - 1) * MaxDecode + 1, i * MaxDecode)]

Chunks(q) == [i \in 1 .. (Len(q) + MaxDecode - 1) \div MaxDecode |->
                 SubSeq(q, (i - 1) * MaxDecode + 1, Min({i * MaxDecode, Len(q)}))]
Ascending(K) == CHOOSE f \in [1 .. Cardinality(K) -> K] :
                    \A i, j \in DOMAIN f : i < j => Before(f[i], f[j])
Plan == LET keys == Ascending({Key(r) : r \in Range(decoding)})
        IN  FlattenSeq([i \in DOMAIN keys |->
                           Chunks(Only(decoding, {r \in Range(decoding) : Key(r) = keys[i]}))])

PlanDecode ==
    /\ phase = "prefill" /\ groups = <<>>
    /\ batches' = Plan /\ at' = 1 /\ done' = {}
    /\ phase' = "decode"
    /\ UNCHANGED <<requestVars, poolVars, prefill, groups, ended>>

LastStep(r) == step[r] + 1 >= DecodeSteps[r]

\* _run_decode_batch: the requests of the batch advance in turn; those at their
\* last step, or whose beams all chose a stop token, finish.  It may raise at one
\* that has advanced: those before it are done, and those behind it have not run.
Decode ==
    /\ phase = "decode" /\ at <= Len(batches)
    /\ LET b == batches[at]
           First(n) == Range(SubSeq(b, 1, n))
       IN  \E n \in DOMAIN b, m \in 0 .. Len(b) :
              /\ \/ n = Len(b) /\ m = n /\ phase' = phase
                 \/ "decode" \in Faults /\ m = n - 1 /\ phase' = "raised"
              /\ step' = [r \in Request |-> IF r \in First(n) THEN step[r] + 1 ELSE step[r]]
              /\ \E S \in SUBSET First(m) :
                    /\ {r \in First(m) : LastStep(r)} \subseteq S
                    /\ Finish(Only(b, S), "decoded")
                    /\ done' = done \cup S
    /\ at' = at + 1
    /\ UNCHANGED <<states, age, poolVars, prefill, groups, batches, ended>>

\* The decode executor raises, in a batch or before its requests advance: the planned
\* requests that have not finished fail, and the ids that have are forgotten.
DecodeFails ==
    /\ \/ phase = "raised"
       \/ phase = "decode" /\ at <= Len(batches) /\ "decode" \in Faults
    /\ LET failed == Without(FlattenSeq(batches), {r \in Request : stage[r] = "finished"})
       IN  /\ Finish(failed, "decode_failed")
           /\ ended' = ended \cup Range(failed)
    /\ phase' = "attach"
    /\ UNCHANGED <<states, step, age, poolVars, prefill, groups, batches, at, done>>

DecodeEnd ==
    /\ phase = "decode" /\ at > Len(batches)
    /\ ended' = ended \cup done
    /\ phase' = "attach"
    /\ UNCHANGED <<requestVars, poolVars, prefill, groups, batches, at, done>>

\* executor.tick releases the pool slots of the requests the tick reports.
TickEnd ==
    /\ phase = "attach"
    /\ Attach(ended)
    /\ phase' = "idle"
    /\ prefill' = <<>> /\ groups' = <<>> /\ batches' = <<>> /\ at' = 1
    /\ done' = {} /\ ended' = {}
    /\ UNCHANGED requestVars

TickStep ==
    \/ FailTimedOut \/ Admit \/ AdmitEnd \/ Prefill \/ PrefillFails
    \/ PlanDecode \/ Decode \/ DecodeFails \/ DecodeEnd \/ TickEnd

SchedInit ==
    /\ states = <<>> /\ waiting = <<>> /\ decoding = <<>> /\ finished = <<>>
    /\ stage = [r \in Request |-> "unknown"]
    /\ reason = [r \in Request |-> "none"]
    /\ step = [r \in Request |-> 0]
    /\ age = [r \in Request |-> 0]
    /\ leases = {}
    /\ beam = Pool(BeamSlots) /\ ctx = Pool(ContextSlots)
    /\ phase = "idle"
    /\ prefill = <<>> /\ groups = <<>> /\ batches = <<>> /\ at = 1
    /\ done = {} /\ ended = {}
=============================================================================
