---------------------------- MODULE LayerPipeline ----------------------------
(***************************************************************************)
(* The device side of the native backend: what onload_kvcache and          *)
(* offload_kvcache enqueue, layer by layer, on four CUDA streams, and what *)
(* the model enqueues on the compute stream.  Every layer passes through   *)
(* one of two device buffers, and only events and one blocking read of a   *)
(* device value order the streams.                                         *)
(*                                                                         *)
(* A call enqueues all of its work at once: the host does not look at the  *)
(* device while it enqueues, so a stream that runs ahead of the enqueueing *)
(* is a stream that is still to run.  The events of a call are its own,    *)
(* since every call has a new handle.  Which page a request gets, and that *)
(* pages of an unfinished offload are not given away, is KVCacheManager's. *)
(***************************************************************************)
EXTENDS Integers, Sequences

CONSTANTS
    NumLayers,     \* num_layers
    Page,          \* the GPU pages; a request uses one
    Data,          \* the histories: the KV data of a user's prefix
    MaxRequests    \* bound on the forward passes

ASSUME PipelineAssumption ==
    NumLayers \in Nat \ {0} /\ MaxRequests \in Nat /\ "none" \notin Data

VARIABLES
    mem,           \* value of every device and pinned cell
    queue,         \* what is enqueued on each stream
    events,        \* events that were recorded and have completed
    holder,        \* page table: the data each page is for
    tasks,         \* ongoing_offload_tasks
    hosted,        \* data that finish_offload has made known to the host lookup
    calls,         \* forward passes so far
    predicted      \* the data of the forward pass whose offload is next, or "none"

pipeVars == <<mem, queue, events, holder, tasks, hosted, calls, predicted>>

Layer == 0 .. NumLayers - 1
Stream == {"compute", "onload", "scatter", "gather", "offload"}
Buffer == 2

OnBuf(l) == <<"onload", l % Buffer>>
OffBuf(l) == <<"offload", l % Buffer>>
Gpu(p, l) == <<"gpu", p, l>>
Host(d, l) == <<"host", d, l>>
Cell == {OnBuf(l) : l \in Layer} \cup {OffBuf(l) : l \in Layer}
        \cup {Gpu(p, l) : p \in Page, l \in Layer} \cup {Host(d, l) : d \in Data, l \in Layer}
KV(d, l) == <<d, l>>

\* Work on a stream: the events it waits for, what it does, the event recorded after it.
Copy(after, from, to, event) == [after |-> after, kind |-> "copy", a |-> from, b |-> to, event |-> event]
Write(after, to, v, event) == [after |-> after, kind |-> "write", a |-> to, b |-> v, event |-> event]
Read(after, from, v, event) == [after |-> after, kind |-> "read", a |-> from, b |-> v, event |-> event]
Wait(after) == [after |-> after, kind |-> "wait", a |-> <<>>, b |-> <<>>, event |-> <<>>]

PerLayer(f(_)) == [i \in 1 .. NumLayers |-> f(i - 1)]
-----------------------------------------------------------------------------
(* onload_kvcache.                                                         *)

\* Mutant: the copies do not wait for the scatter.
OnBufFreeAtOnce(n, l) == {}

\* The buffer of layer l is free once the scatter of layer l - 2 is complete.
OnBufFree(n, l) == IF l >= Buffer THEN {<<"compl", n, l - Buffer>>} ELSE {}

OnloadWork(n, d) ==
    PerLayer(LAMBDA l : Copy(OnBufFree(n, l), Host(d, l), OnBuf(l), <<"loaded", n, l>>))
    \o <<Wait({<<"compl", n, NumLayers - 1>>})>>

\* Mutant: complete_host leaves the last layer out.
ScatterWorkUnsignalled(n, p) ==
    PerLayer(LAMBDA l : Copy({<<"loaded", n, l>>}, OnBuf(l), Gpu(p, l),
                             IF l = NumLayers - 1 THEN <<>> ELSE <<"compl", n, l>>))

ScatterWork(n, p) ==
    PerLayer(LAMBDA l : Copy({<<"loaded", n, l>>}, OnBuf(l), Gpu(p, l), <<"compl", n, l>>))
-----------------------------------------------------------------------------
(* offload_kvcache.                                                        *)

OffBufFree(n, l) == IF l >= Buffer THEN {<<"ready", n, l - Buffer>>} ELSE {}

\* Mutant: the next offload does not wait for this one.
GatherWorkOpenEnd(n, p) ==
    <<Wait({<<"inference", n>>})>>
    \o PerLayer(LAMBDA l : Copy(OffBufFree(n, l), Gpu(p, l), OffBuf(l), <<"gathered", n, l>>))

GatherWork(n, p) ==
    <<Wait({<<"inference", n>>})>>
    \o PerLayer(LAMBDA l : Copy(OffBufFree(n, l), Gpu(p, l), OffBuf(l), <<"gathered", n, l>>))
    \o <<Wait({<<"ready", n, NumLayers - 1>>})>>

OffloadWork(n, d) ==
    PerLayer(LAMBDA l : Copy({<<"gathered", n, l>>}, OffBuf(l), Host(d, l), <<"ready", n, l>>))

\* inference_event: recorded on the compute stream behind all of the forward pass.
InferenceEvent(n) == <<[Wait({}) EXCEPT !.event = <<"inference", n>>]>>
-----------------------------------------------------------------------------
(* The forward pass: append the new KV of a layer, wait for the onload of  *)
(* that layer, attend.                                                     *)

Attend(n, d, p, loads) ==
    PerLayer(LAMBDA l : Read(IF loads THEN {<<"compl", n, l>>} ELSE {}, Gpu(p, l), KV(d, l), <<>>))
AppendAndAttend(d, p) ==
    [i \in 1 .. 2 * NumLayers |->
        LET l == (i - 1) \div 2
        IN  IF i % 2 = 1 THEN Write({}, Gpu(p, l), KV(d, l), <<>>)
            ELSE Read({}, Gpu(p, l), KV(d, l), <<>>)]

Enqueue(work) == queue' = [s \in Stream |-> IF s \in DOMAIN work THEN queue[s] \o work[s] ELSE queue[s]]

Locked == {t.page : t \in tasks}
OnGpu(d) == \E p \in Page : holder[p] = d

\* The host starts a pass once the compute stream has run the last one:
\* onboard_kvcache_launch narrows kv_indices at an offset kept on the device,
\* a blocking read, and nothing else orders the scatter of a pass after the
\* attention of the one before.
HostStarts == queue["compute"] = <<>>

Forward(d, p) ==
    /\ predicted = "none" /\ calls < MaxRequests /\ HostStarts
    /\ calls' = calls + 1
    /\ predicted' = d
    /\ holder' = [holder EXCEPT ![p] = d]
    /\ UNCHANGED <<mem, events, tasks, hosted>>

\* The history is in the page: nothing to onboard.
GpuHit(d, p) ==
    /\ holder[p] = d
    /\ Forward(d, p)
    /\ Enqueue([compute |-> Attend(calls', d, p, FALSE)])

\* The history is on the host: it is onboarded while the model runs.
Onboard(d, p) ==
    /\ ~OnGpu(d) /\ d \in hosted /\ p \notin Locked
    /\ Forward(d, p)
    /\ Enqueue([onload |-> OnloadWork(calls', d), scatter |-> ScatterWork(calls', p),
                compute |-> Attend(calls', d, p, TRUE)])

\* The history is nowhere: the model computes and appends it.
Compute(d, p) ==
    /\ ~OnGpu(d) /\ d \notin hosted /\ p \notin Locked
    /\ Forward(d, p)
    /\ Enqueue([compute |-> AppendAndAttend(d, p)])

\* Mutant: the task is done when its first layer is.
ReadyFirst(t) == <<"ready", t.call, 0>> \in events

\* offload_try_wait: the last ready_event of a task has completed.
Ready(t) == <<"ready", t.call, NumLayers - 1>> \in events

Left == {t \in tasks : ~Ready(t)}
Reap == hosted' = hosted \cup {t.data : t \in tasks \ Left}

\* After the forward pass: offload_try_wait, then offload_launch.
TryWaitAndOffload ==
    LET d == predicted
        p == CHOOSE q \in Page : holder[q] = d
    IN  /\ d # "none"
        /\ predicted' = "none"
        /\ Reap
        /\ IF d \in hosted' \/ \E t \in Left : t.data = d
           THEN tasks' = Left /\ UNCHANGED queue
           ELSE /\ tasks' = Left \cup {[call |-> calls, data |-> d, page |-> p]}
                /\ Enqueue([compute |-> InferenceEvent(calls), gather |-> GatherWork(calls, p),
                            offload |-> OffloadWork(calls, d)])
        /\ UNCHANGED <<mem, events, holder, calls>>

\* A client's offload_reap_completed.
ReapCompleted ==
    /\ predicted = "none" /\ Left # tasks
    /\ Reap /\ tasks' = Left
    /\ UNCHANGED <<mem, queue, events, holder, calls, predicted>>
-----------------------------------------------------------------------------
(* The device: each stream runs its work in order.                         *)

Run(s) ==
    LET w == Head(queue[s])
    IN  /\ queue[s] # <<>> /\ w.after \subseteq events
        /\ mem' = CASE w.kind = "copy" -> [mem EXCEPT ![w.b] = mem[w.a]]
                    [] w.kind = "write" -> [mem EXCEPT ![w.a] = w.b]
                    [] OTHER -> mem
        /\ events' = IF w.event = <<>> THEN events ELSE events \cup {w.event}
        /\ queue' = [queue EXCEPT ![s] = Tail(@)]
        /\ UNCHANGED <<holder, tasks, hosted, calls, predicted>>

Init ==
    /\ mem = [c \in Cell |-> <<>>]
    /\ queue = [s \in Stream |-> <<>>]
    /\ events = {} /\ tasks = {} /\ hosted = {}
    /\ holder = [p \in Page |-> "none"]
    /\ calls = 0 /\ predicted = "none"

Next ==
    \/ \E d \in Data, p \in Page : GpuHit(d, p) \/ Onboard(d, p) \/ Compute(d, p)
    \/ TryWaitAndOffload
    \/ ReapCompleted
    \/ \E s \in Stream : Run(s)

Spec == Init /\ [][Next]_pipeVars

\* Every stream makes progress, and the host finishes the pass it has begun.
FairSpec == Spec /\ WF_pipeVars(TryWaitAndOffload) /\ \A s \in Stream : WF_pipeVars(Run(s))
-----------------------------------------------------------------------------
(* Properties.                                                             *)

\* Attention on a layer, whenever it may run, finds that layer of its own
\* history in its page: not the layer that used the buffer before or after it,
\* nor the history of the request before or after it.
AttendsOwnLayer ==
    LET w == Head(queue["compute"])
    IN  queue["compute"] # <<>> /\ w.kind = "read" /\ w.after \subseteq events => mem[w.a] = w.b

\* Once offload_try_wait has reported a history, all its layers are in the
\* pinned memory and stay there, also while later calls use the same buffers.
HostedIsComplete == \A d \in hosted, l \in Layer : mem[Host(d, l)] = KV(d, l)

\* A page that is not locked may be given away: no gather is still to read it.
NoGatherFromFreePages ==
    \A i \in DOMAIN queue["gather"] :
        LET w == queue["gather"][i]
        IN  w.kind = "copy" => \E t \in tasks, l \in Layer : w.a = Gpu(t.page, l)

\* The streams wait on each other but never all: every forward pass ends, and
\* its offload is complete in the end.
PassesEnd == \A s \in Stream : []<>(queue[s] = <<>>)
=============================================================================
