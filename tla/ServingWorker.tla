---------------------------- MODULE ServingWorker ----------------------------
(***************************************************************************)
(* GRServingWorker and GRInProcessServingFacade: clients append to the     *)
(* pending submissions without the worker's lock; the worker thread, and   *)
(* every other call, works on the scheduler while it holds that lock.      *)
(***************************************************************************)
EXTENDS ContinuousScheduler

CONSTANTS
    MaxSubmits,    \* bound: how often one request id is submitted
    MaxMany,       \* bound: requests of one submit_many
    MaxTicks,      \* max_ticks of shutdown
    Uses           \* what clients call: a subset of {"cancel", "drain", "shutdown", "tick"}

ASSUME BoundAssumption == {MaxSubmits, MaxMany, MaxTicks} \subseteq Nat

VARIABLES
    pending,       \* _pending_submissions
    submitted,     \* [Request -> how often it was submitted]
    accepting,     \* accepting_requests of the facade
    holder,        \* who holds _lock across steps: the thread, a client's tick, shutdown
    ticks,         \* ticks run by shutdown
    stop,          \* _stop_event: clear, about to be set by shutdown, set
    thread         \* the worker thread in _run: at the loop's test, in its body, dead

workerVars == <<pending, submitted, accepting, holder, ticks, stop, thread>>
vars == <<schedVars, workerVars>>

Count(q, r) == Cardinality({i \in DOMAIN q : q[i] = r})
SchedulerHasWork == waiting # <<>> \/ decoding # <<>>

\* submit and submit_many: validated, appended and acknowledged.
Submit(q) ==
    /\ \A r \in Range(q) : submitted[r] + Count(q, r) <= MaxSubmits
    /\ pending' = pending \o q
    /\ submitted' = [r \in Request |-> submitted[r] + Count(q, r)]
    /\ UNCHANGED <<schedVars, accepting, holder, ticks, stop, thread>>

\* facade.submit_many accepts all of them or raises.
Accepts(q) ==
    /\ accepting
    /\ IsInjective(q)
    /\ \A r \in Range(q) : stage[r] = "unknown"

\* Mutant: one submission is handed over, all of them are cleared.
TakeFirst(who) ==
    /\ holder = "none"
    /\ pending = <<>> \/ Accepts(pending)
    /\ SubmitAll(IF pending = <<>> THEN <<>> ELSE <<Head(pending)>>)
    /\ pending' = <<>>
    /\ holder' = who /\ phase' = "timeouts"
    /\ UNCHANGED <<poolVars, tickVars, submitted, accepting, ticks, stop, thread>>
\* _drain_pending_submissions_unlocked and the start of facade.tick: the
\* pending submissions are taken and handed to the facade, and the tick begins.
Take(who) ==
    /\ holder = "none"
    /\ pending = <<>> \/ Accepts(pending)
    /\ SubmitAll(pending)
    /\ pending' = <<>>
    /\ holder' = who /\ phase' = "timeouts"
    /\ UNCHANGED <<poolVars, tickVars, submitted, accepting, ticks, stop, thread>>

\* The facade raises: the submissions that were taken are gone.
TakeRaises ==
    /\ holder = "none"
    /\ pending # <<>> /\ ~Accepts(pending)
    /\ pending' = <<>>
    /\ UNCHANGED <<schedVars, submitted, accepting, holder, ticks, stop>>

\* _run: the stop event is tested, then the body runs under the lock.
LoopTest ==
    /\ thread = "test"
    /\ thread' = IF stop = "set" THEN "dead" ELSE "body"
    /\ UNCHANGED <<schedVars, pending, submitted, accepting, holder, ticks, stop>>

\* Mutant: only the scheduler's queues count as work.
HasWorkScheduled == SchedulerHasWork
HasWork == pending # <<>> \/ SchedulerHasWork

LoopIdle ==
    /\ thread = "body" /\ holder = "none" /\ ~HasWork
    /\ thread' = "test"
    /\ UNCHANGED <<schedVars, pending, submitted, accepting, holder, ticks, stop>>

LoopTick == thread = "body" /\ HasWork /\ Take("thread")

\* _run records the error and goes on.
LoopTakeRaises == thread = "body" /\ TakeRaises /\ thread' = "test"

\* A client's tick, where the HTTP policy allows it.
ManualTick == "tick" \in Uses /\ Take("client")
ManualTakeRaises == "tick" \in Uses /\ TakeRaises /\ UNCHANGED thread

\* The lock is released: the thread goes on with its loop.
Unlock ==
    /\ holder' = "none"
    /\ thread' = IF holder = "thread" THEN "test" ELSE thread

\* A stage of the tick, by whoever holds the lock.
RunTick ==
    /\ holder # "none"
    /\ TickStep
    /\ IF phase' = "idle" /\ holder # "shutdown" THEN Unlock
                                                 ELSE UNCHANGED <<holder, thread>>
    /\ UNCHANGED <<pending, submitted, accepting, ticks, stop>>

\* The tick raises: the thread goes on with its loop, a shutdown is abandoned.
TickRaises ==
    /\ holder # "none"
    /\ OverBudget
    /\ Unlock
    /\ UNCHANGED <<pending, submitted, accepting, ticks, stop>>

CancelRequest(r) ==
    /\ "cancel" \in Uses /\ holder = "none"
    /\ Cancel(r)
    /\ UNCHANGED workerVars

Drain ==
    /\ "drain" \in Uses /\ holder = "none"
    /\ accepting' = FALSE
    /\ UNCHANGED <<schedVars, pending, submitted, holder, ticks, stop, thread>>

\* shutdown: drain and run_until_empty with at most MaxTicks ticks, under the lock.
ShutdownBegin ==
    /\ "shutdown" \in Uses /\ holder = "none" /\ stop = "clear"
    /\ accepting' = FALSE
    /\ holder' = "shutdown" /\ ticks' = 0
    /\ UNCHANGED <<schedVars, pending, submitted, stop, thread>>

ShutdownTick ==
    /\ holder = "shutdown" /\ phase = "idle"
    /\ SchedulerHasWork /\ ticks < MaxTicks
    /\ ticks' = ticks + 1 /\ phase' = "timeouts"
    /\ UNCHANGED <<requestVars, poolVars, tickVars, pending, submitted, accepting,
                   holder, stop, thread>>

ShutdownEnd ==
    /\ holder = "shutdown" /\ phase = "idle"
    /\ SchedulerHasWork => ticks >= MaxTicks
    /\ \/ UNCHANGED <<requestVars, poolVars>>
       \/ SchedulerHasWork /\ FailUnfinished
    /\ holder' = "none" /\ stop' = "asked"
    /\ UNCHANGED <<phase, tickVars, pending, submitted, accepting, ticks, thread>>

\* stop comes after the lock is free: the thread may tick once more in between.
StopWorker ==
    /\ stop = "asked" /\ stop' = "set"
    /\ UNCHANGED <<schedVars, pending, submitted, accepting, holder, ticks, thread>>

Init ==
    /\ SchedInit
    /\ pending = <<>> /\ submitted = [r \in Request |-> 0]
    /\ accepting = TRUE /\ holder = "none" /\ ticks = 0
    /\ stop = "clear" /\ thread = "test"

Worker == LoopTest \/ LoopIdle \/ LoopTick \/ LoopTakeRaises \/ RunTick \/ TickRaises
Shutdown == ShutdownTick \/ ShutdownEnd \/ StopWorker
Client ==
    \/ \E n \in 1..MaxMany : \E q \in [1..n -> Request] : Submit(q)
    \/ \E r \in Request : CancelRequest(r)
    \/ Drain \/ ShutdownBegin \/ ManualTick \/ ManualTakeRaises

Next == Worker \/ Shutdown \/ Client
Spec == Init /\ [][Next]_vars

\* The thread runs as long as it lives, and a shutdown that began goes on; the
\* lock is free between two ticks, and clients call only finitely often.
FairSpec == Spec /\ WF_vars(Worker) /\ WF_vars(Shutdown)
-----------------------------------------------------------------------------
(* Properties.                                                             *)

Holders(pool) == DOMAIN pool.lease

\* kv_health: the requests with a KV lease are exactly the ones in decoding, in
\* every state a status call can see and between the stages of a tick.
KVHealth == leases = Range(decoding)

\* The dicts and the queue agree with the stage of each state: nobody is in two
\* places, and an unfinished request is in the one where it will be served.
QueuesMatchStages ==
    /\ Range(states) = {r \in Request : stage[r] # "unknown"}
    /\ Range(decoding) = {r \in Request : stage[r] = "decoding"}
    /\ Range(waiting) \subseteq {r \in Request : stage[r] = "waiting_prefill"}
    /\ IsInjective(waiting) /\ IsInjective(decoding) /\ IsInjective(states)
    /\ {r \in Request : reason[r] # "none"} = {r \in Request : stage[r] = "finished"}

\* Dense pool slots: no two requests share one, and a free slot has no owner.
SlotsHaveOneOwner ==
    \A pool \in {beam, ctx} :
        /\ IsInjective(pool.lease)
        /\ Range(pool.lease) \cap pool.free = {}

\* beam_kv_pool_health: while the lock is free no finished request holds a pool slot.
PoolHealth ==
    phase = "idle" => Holders(beam) \cup Holders(ctx) \subseteq Range(decoding)

\* Every request that is decoded has been prefilled and has its beam slot, and
\* the tick's batches hold every decoding request once, grouped by equal keys.
PlanSound ==
    phase = "decode" /\ at = 1 =>
        /\ Range(decoding) \subseteq Holders(beam)
        /\ IsInjective(FlattenSeq(batches))
        /\ Range(FlattenSeq(batches)) = Range(decoding)
        /\ \A i \in DOMAIN batches :
              /\ Len(batches[i]) \in 1..MaxDecode
              /\ \A r, q \in Range(batches[i]) : Key(r) = Key(q)

\* An answer a client can still fetch never changes, and it leaves the retained
\* answers only when MaxFinished newer ones are there.
RetainedAnswersStay ==
    [][\A r \in Range(finished) :
          /\ reason'[r] = reason[r]
          /\ r \in Range(finished') \/ Len(finished') = MaxFinished]_vars

\* While the facade accepts, an acknowledged submission is pending or known to
\* the scheduler, whoever takes the pending ones (ids are submitted once).
NoSubmissionLost ==
    accepting =>
        \A r \in Request : submitted[r] = 1 => r \in Range(pending) \/ stage[r] # "unknown"

\* The request server the scheduler implements: the queue is its line, the
\* leased requests run, and the stop reasons are the outcomes.
Server == INSTANCE RequestServer WITH
    Outcome <- Outcomes, NoOutcome <- "none", Capacity <- MaxRunning,
    line <- waiting, running <- leases, outcome <- reason

\* Continuous batching implements the request server: first come first started,
\* within capacity, one outcome each, and (with a fair worker) an outcome for all.
ImplementsServer == Server!ServerSpec

\* A pending submission is eventually taken by the worker, unless it stops.
PendingIsTaken == \A r \in Request : r \in Range(pending) ~> (r \notin Range(pending) \/ stop = "set")
=============================================================================
