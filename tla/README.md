# TLA+ models of recsys-examples

Specifications, model checking and proofs for the stateful parts of this
repository:

- the KV cache of the HSTU ranking inference (`corelib/recsys_kvcache_manager`):
  a paged GPU cache in front of a pinned host storage, with asynchronous
  offloads between them, down to the layers on their CUDA streams;
- the SID-GR server (`examples/sid-gr-inference/…/gr_serving`): worker thread,
  continuous batching with KV leases and pools, and the prompt prefix cache;
- the cache of DynamicEmb tables (`corelib/dynamicemb`) with prefetched batches;
- the pipelined training loops (`examples/commons/pipeline`).

File names below are relative to the repository; `gpu…impl.cpp` and
`native…impl.cpp` stand for `corelib/recsys_kvcache_manager/src/`
`gpu_kvcache_manager_impl.cpp` and `native_host_kvcache_manager_impl.cpp`.

## 1. Inventory

| Component | State | Operations | What is hard | What makes it correct |
|---|---|---|---|---|
| **GPU page table** (`gpu…impl.cpp`, `gpu_kvcache_manager.py`) | free pages, page list, start, length, offloaded length per user, LRU list, offload lock counts, `total_offloaded_pages` | `lookup`, `allocate`, `evict`, `evict_all`, `check_for_offload`, `acquire_offload_pages`, `release_offload_pages`, `revoke_onboard_pages` | nested eviction loops over a list they modify; lengths kept in four maps; pools at their limit | pages partitioned between users and pool; lists agree with lengths; LRU list complete |
| **Native host storage** (`native…impl.cpp`, `native_host_kvcache_manager.py`) | free chunks, chunk lists and length per user, LRU list | `lookup_kvcache`, `offload_kvcache`, `finish_offload`, `cancel_offload`, `evict`, `evict_all` | several offloads of one user under way, cancelled ones whose copies still run, offloads that start inside a chunk | chunks partitioned; the first `length` tokens of a user are that user's history |
| **Default backend and request flow** (`default_kvcache_backend.py`, `kvcache_utils.py`, `inference_ranking_gr.py`, `inference_dense_module.py`) | ongoing offload tasks, the request's lookup result | `lookup_kvcache`, `allocate_kvcache`, `onboard_launch`, `offload_try_wait`, `offload_launch`, `offload_flush`, `evict`, `evict_all` | decisions on lengths looked up earlier; locks and tasks that must balance; timeouts and the two failure policies | a request reads its own history; locks match tasks; no gap between the tiers; requests end |
| **Layer pipeline of the copies** (`native…impl.cpp` 393-442, 537-630, `paged_hstu_infer_layer.py`) | two device buffers per direction, events per layer and call, five streams | gather / copy / scatter per layer, append and attend | buffers reused by layer *n+2* and by the next call, ordered by events only | attention sees its own layer; a reported offload is complete |
| **FlexKV backend** (`flex_kvcache_manager.py`) | tasks of an external service | match, get, put, wait, cancel | partial success, late answers, `revoke_onboard_pages` | GPU lengths never include what was not brought in |
| **Exported runtime and bindings** (`src/runtime`, `src/torch_binding`) | the same objects behind AOTInductor | the same calls | – | – |
| **SID-GR scheduler and executor** (`continuous.py`, `memory.py`) | states, queue, decoding dict, KV leases, BeamKV and ContextKV pools, retained answers | `submit`, `tick` (timeouts, admission, prefill, decode), `cancel`, `fail_unfinished` | a failure between admission and release; slots of two pools; bounded retention | every lease and slot released; one outcome per request; order of arrival |
| **SID-GR prefix cache** (`prefix_cache.py`) | LRU dict of prefills, radix tree per namespace, token totals | `insert`, `match`, `configure`, `set_max_entries`, `clear` | nodes that outlive their entries; counters that decide evictions | the longest shared prefix, of an entry that is there; LRU bounds |
| **SID-GR worker and facade** (`worker.py`, `api.py`, `queue.py`, `http.py`) | pending submissions, tick thread, accepting flag, stop event | `submit`, `tick`, `cancel`, `drain`, `shutdown` | client threads against the tick thread | no accepted request lost |
| **SID-GR CUDA graphs** | captured graphs by shape | capture, replay | – | – |
| **DynamicEmb tables** (`corelib/dynamicemb`) | hash table of the cache with reference counters and overflow slots, storage, admission counters, queue of prefetched batches | `prefetch`, `forward`, `backward`, `flush`, `reset_cache_states`, dump, load | rows moved between tiers, eviction under prefetched batches, two streams | no update lost between tiers; rows in use stay |
| **DynamicEmb planner, sharding, optimizers** | configuration | – | – | – |
| **Training pipelines** (`train_pipeline.py`, `utils.py`, `batch_shuffler.py`, `training.py`) | batches in stages, contexts, four streams, KK thread, communicators | `progress` | order of stages over streams and of collectives over ranks | each batch used once, with its own embeddings, and no deadlock |
| **Attention kernels, models, docker, CI** | none | – | – | – |

How the KV cache parts interact. One inference thread runs each request:

    lookup_kvcache -> allocate_kvcache -> onboard_launch -> forward
                   -> offload_try_wait -> offload_launch

`lookup` asks both tiers and merges the answers; the request's tokens are then
stripped by the merged length. `allocate` decides again, from the page table's
own state and the host lengths of the lookup, how many tokens are cached.
`onboard_launch` copies what the host has into the new page list. The forward
pass appends the remaining tokens. `offload_launch` locks users, and enqueues
copies of page slices on GPU streams; a later `offload_try_wait` sees the
copies done (or timed out), extends the host's length and unlocks. Between a
launch and its settlement any number of requests may run, which is where most
of the listed hazards come from.

How the SID-GR parts interact. Client threads append to the worker's pending
submissions under a small lock of their own. The worker thread, a manual
`tick`, `cancel`, `drain` and `shutdown` hold the worker's lock; a tick takes
the pending submissions, hands them to the facade, and runs the scheduler's
stages: timeouts, admission against the KV lease budget, prefill by input
shape, decode batches by step, width and context, release of pool slots.

How training and DynamicEmb interact. `progress()` keeps three batches under
way: the model runs on batch *i* while the embedding rows of *i+1* are
prefetched into the cache and *i+2* is copied, shuffled between ranks and
distributed. `TrainPipeline` models the order of that work on streams, ranks
and threads; `EmbeddingTiers` what a prefetch and a backward pass do to the
cache, in the order that the pipeline (`Overlap`) or a loop without it gives
them. They meet in one fact, used as a guard there (`PrefetchTurn`,
`Backward`): the next batch is prefetched between the forward and the backward
of the current one, and backward waits for the prefetch stream.

## 2. Modules

| Module | Models | Composes |
|---|---|---|
| `SeqSelect` | filtering a sequence by a set, used by the other modules | – |
| `KVCacheParams` | parameters and page arithmetic of `KVCacheConfig` | `SeqSelect` |
| `GPUKVCache` | `GPUKVCacheManagerImpl` | `KVCacheParams` |
| `HostKVStorage` | `HostKVStorageImpl`, `NativeHostKVStorage` | `KVCacheParams` |
| `KVCacheManager` | `DefaultKVCacheBackend`, the request flow, the copies | both tiers |
| `LayerPipeline` | the same copies, layer by layer on the streams | – |
| `ContinuousScheduler` | `GRContinuousScheduler`, its executor, `GRKVLeaseAllocator`, the dense pools | – |
| `ServingWorker` | `GRServingWorker`, `GRInProcessServingFacade` | `ContinuousScheduler` |
| `RequestServer` | what a client is promised (abstract) | – |
| `PrefixCache` | `GRPromptPrefixCache` | `SeqSelect` |
| `EmbeddingTiers` | one DynamicEmb table in caching mode | – |
| `TrainPipeline` | both Jagged pipelines, the balanced shuffler, the ranks | – |
| `MC…` | instances for TLC | – |
| `GPUKVCacheProofs` | theorems about `GPUKVCache` | `GPUKVCache` |
| `KVCacheManagerProofs` | theorems about `KVCacheManager` and the host tier | `KVCacheManager`, `GPUKVCacheProofs`, `SequenceLemmas` |
| `SequenceLemmas` | lemmas about sequences and recursive functions | `SeqSelect` |
| `ServingProofs` | lemmas about the scheduler's helpers, theorems about `ServingWorker` | `ServingWorker`, `SequenceLemmas` |
| `PrefixCacheProofs` | theorems about `PrefixCache` | `PrefixCache`, `SequenceLemmas` |
| `EmbeddingTiersProofs` | theorems about `EmbeddingTiers` | `EmbeddingTiers` |
| `TrainPipelineProofs` | theorems about `TrainPipeline` | `TrainPipeline`, `SequenceLemmas` |
| `LayerPipelineProofs` | theorems about `LayerPipeline` | `LayerPipeline` |

### GPUKVCache

Variables keep the code's maps as total functions with the default the code's
`operator[]` inserts. `allocate()` is not atomic here: its three loops are
steps of `phase`, one action per iteration, so that the erasures inside the
iteration over `_lru_list` (variable `cursor`) are what the code does.

| Code | Definition |
|---|---|
| `allocate`, first loop | `AllocateCall`, `Reconcile` |
| `retain` in `alloc_single_sequence` | `RetainStep` |
| "Evict offloaded pages first" loop | `EvictOffloadedStep` (`EvictOffloaded`, `EraseIfEmptied`) |
| "then evict by user" loop, `getUIdToEvict` | `EvictUserStep` (`UIdToEvict`, `EvictAsserts`) |
| building the page list | `TakePages` (`PageList`) |
| `check_for_offload` | `CheckForOffload` |
| `acquire_offload_pages`, `release_offload_pages` | `AcquireOffloadPages`, `ReleaseOffloadPages` |
| `evict`, `evict_all` | `Evict`, `EvictAll` |

`_empty_pages` is a FIFO queue in the code; the model takes any free page.
`phase = "undefined"` is where the code leaves defined behaviour: the
`assert(false)` of `getUIdToEvict`, or reads past the end of the page list of a
user that was evicted to make room for itself. Whether the assertion is
compiled in depends on the build, so when it is reached `EvictUserStep` may
also go on with the oldest user. Nothing is promised after "undefined".

`GPUSpec` is the page table on its own, under every caller that respects the
contract: a request's total covers the user's history, and lengths reported as
being on the host lie within that history. It is at the same time the abstract
specification the composed system implements: `client_evicts` checks `GPUSpec`
as a property of `KVCacheManager` and `ImplementsPageTable` proves it, so that
what is proved of `GPUSpec` holds in the system.

### HostKVStorage

A run of adjacent unit chunks is written as the list of its unit chunks, and
the pool is a set. (As a set it could not show one chunk being pushed twice, so
the model means nothing beyond the first violation of `ChunkPartition`; passing
runs check that there is none.) `get_empty_pinned_chunks` is all or nothing:
`EvictionPlans` is the shortest prefix of the victims that makes room, and is
empty when the launch fails.

### KVCacheManager

`pc` says which call the inference thread makes next. `offload_try_wait` is one
action per task (`PollReady`, `PollLaunched`, `PollTimeout`, `PollRaise`,
`PollReturn`). `OffloadCopy` is the GPU: it runs the oldest launched offload at
any time after the launch, since all copies are queued on the same streams.
`pageData` and `chunkData` are ghost contents: `<<u, i, n>>` is the first `n`
tokens of page `i` of `u`'s history. They turn "the right data" into a state
predicate. Onboarding is one step: attention waits for it layer by layer and
later offloads are ordered behind it.

Four flags choose among configurations of the code:

- `Timeouts`: `offload_timeout_ms > 0`. A task whose copies have not run may
  then be found timed out at any poll.
- `FailClose`: `host_kvstorage_fail_policy == "fail_close"`.
- `PollBeforeAllocate`: the optional `offload_try_wait` between lookup and
  allocate that the README of the package describes (line 150).
- `ClientEvicts`: the application calls `evict` and `evict_all` between
  requests with no offload under way, as the tests do after `offload_flush`.

### LayerPipeline

A call puts all its work on the streams at once, as records of what to wait for,
what to move and which event to record; `Run` lets each stream execute its
queue in order at any speed. Memory cells hold `<<history, layer>>`, so a buffer
overwritten too early shows as a wrong layer in the attention of some request.
`HostStarts` is the blocking read of `kv_indptr` in `onboard_kvcache_launch`:
without it the scatter of a request could overtake the attention of the one
before (take the conjunct out of `Forward` and `AttendsOwnLayer` fails). The
source has a TODO at that line asking whether there is such a read.

### ContinuousScheduler, ServingWorker, RequestServer

`phase` is the stage of the tick, and `holder` who runs it under the worker's
lock; everything that takes the lock waits. Between two steps of a tick only
submissions can happen, as in the code. Prefill takes slots of both pools and
may raise after any number of them (`PrefillFails`); decode may raise before any
batch and, within one, at any of its requests (`Decode` then leaves the phase
`"raised"`; `DecodeFails` is the handler). The decode stop condition is the last step, or any
subset of a batch whose beams all chose a stop token.

`RequestServer` is the abstract specification: a line, a set of at most
`Capacity` running requests, one outcome each. `ImplementsServer` maps `waiting`
to the line, `leases` to the running set and the stop reasons to the outcomes,
and includes fairness: every open request gets an outcome.

### PrefixCache

A tree node is its namespace and its path from the root. `Reached`, `Below` and
`Child` are the walk of `match` and `_insert_entry` (a child is looked up by the
next page, then compared). `MatchIsLongest` compares the result with a
definition over the list of entries alone. `recent` is a history variable: the
keys used since the last `clear` or `configure` in the order of their last use,
whether still cached or not. `KeepsTheNewest` compares the entries with it, and
so asks of every hit and every insert that it moved its own key and dropped no
more than it had to. No guard reads it.

### EmbeddingTiers

A value is the number of optimizer updates it has received. `Prefetch`,
`PinHitsRead/Write`, `Insert` and `PinInsertedRead/Write` are the numbered parts
of `_prefetch_cache_path`; `Update`, `UnpinRead/Write` the backward pass. The
counter kernels read and write without an atomic, so each is two steps.
`Placements` is every outcome of the threads of `table_insert_and_evict_kernel`
with its overflow scan; the victim's score is left to choice. `Junk` is
uninitialised memory.

### TrainPipeline

The host thread of a rank runs from one point where it needs a result to the
next as one action. Launches carry the streams they wait for; a collective runs
when it is the oldest of its communicator on every rank, and the age is that of
the call by the host, which is the order the class's docstring relies on
(`train_pipeline.py:698-704`). The comment at lines 972-982 fears that two
streams race for a communicator and guards with a `wait_stream`. That race is
not in the model: `CommunicatorGuard` is there, but `JobEnds` would hold without
it and is no evidence for it. What `JobEnds` covers is that the ranks issue the
same collectives in the same order, and that each can come to the head of its
stream on all of them. `ran` and `stale` are
ghosts: what has been computed, and what was computed although an input
(`Needs`) was not there, or from the input dist of another batch.

## 3. Runs

Passing (distinct states):

| Run | Instance | Shows |
|---|---|---|
| `overlap_pressure` | 3 users, 4 pages of 2 tokens, 4 chunks, 2 offloads under way (47 thousand) | locked pages stay, every request reads its own history although pages change hands |
| `unaligned_chunks` | 1 user, 5 pages, chunks of 2 pages, 2 offloads, timeouts (47 thousand) | offloads that continue inside a chunk; late copies of cancelled ones; a prefix grows or goes |
| `client_evicts` | 2 users, 3 pages, one chunk, batches of 2, one offload, timeouts under `fail_close` (578 thousand) | batches that do not fit, `evict` and `evict_all`: no page or chunk lost, the exception keeps task and lock paired, and all of it is `GPUSpec` |
| `progress` | 2 users, 2 pages, 2 chunks, one offload, timeouts, poll before allocate, fairness (32 thousand) | no gap between the tiers, both computations of the cached length agree, requests end, `offload_flush` returns |
| `serving` | 3 requests, 2 running, timeouts, failing executors, cancel, drain, manual ticks, fairness (189 thousand) | refinement of `RequestServer`; leases and queues agree with the stages; acknowledged submissions are taken |
| `serving_edges` | 5 requests, 4 of them alike and one over the budget, up to 4 submissions with at most two of one id, pools of 3 slots, one retained answer, failing prefills, cancel, shutdown (521 thousand) | slots have one owner and come back; each decoding request is in one batch; retained answers stay |
| `prefix_cache` | 2 namespaces, 6 prompts, 3 configurations, up to 4 keys used since the last `clear` or `configure` (26 thousand) | the longest shared prefix, the totals, the limits, the entries are those used last |
| `layer_pipeline` | 3 layers, 2 pages, 2 histories, 5 requests, fairness (50 thousand) | the two buffers and the events are enough |
| `embedding_tiers` | 6 keys in one bucket, cache of 2 plus 3 overflow slots, 4 batches, 2 ahead, admission at 2 (1.3 million) | counters, rows in use, no update lost |
| `train_pipeline` | 2 ranks, both pipelines, both shufflers, plans of up to 4 batches with an evaluation in between, fairness (21 thousand) | nothing read early, each batch once and in its loop, no deadlock |

Violations (each with a finding in `PROJECT.json`):

| Run | Property | What the code does |
|---|---|---|
| `locked_user_evicted` | `OffloadingPagesStay` | when every user is locked or in the batch, `getUIdToEvict` returns the front of the list, locked or not; the pages go to another user while the copy has yet to read them (and `HostHoldsOwnHistory` fails with the same constants) |
| `counter_race` | `HeldRowsStay` | with prefetches on a stream of their own, `increment_counter` of a prefetch and `decrement_counter` of a backward pass update the same counter without an atomic; one is lost and a row in use is evicted |

### Where the boundaries are

The passing runs are sized so that known departures cannot arise in them; each
departure below shows with the constants given.

KV cache (`MCKVCache`):

- `overlap_pressure` needs its four chunks and the victim that three users
  leave. With three chunks the host evicts a prefix of which the GPU keeps the
  continuation, and `ReadsOwnHistory` fails.
- `NoGapAtLookup` fails when the host evicts a user of whom the GPU keeps only
  the suffix (`Chunk <- Chunks1` in `progress`): `merge` takes its branch for a host
  length of 0 before the assertion "No gaps allowed" (`kvcache_utils.py:77`).
  The tokens are then stripped by the length of the suffix and
  `AppendsWhatIsFed` fails as well.
- `LocksMatchTasks` fails with `PollBeforeAllocate` and two tasks
  (`MaxTasks = 2` in `progress`):
  `acquire_offload_pages` locks users it returns no slice for.
- `OffloadsHaveNoGap` fails with three users, three pages and two chunks of one
  token, batches of two, `MaxHistory = 2`, one task: `check_for_offload` trusts the remembered offloaded length, `acquire_offload_pages` the host's,
  which may have become 0; the slice starts before the page list.
- Under `fail_close` with two tasks (`client_evicts` with `MaxTasks = 2`,
  `Chunk <- Chunks2` and one user) `ChunkPartition` fails: the exception of a timed-out task leaves
  `offload_try_wait` before `ongoing_offload_tasks` is replaced, so a task
  finished in the same call is finished again by the next one.

- `HostHoldsOwnHistory` fails with cancels (`Timeouts`, not `FailClose`), two
  users, five pages of one token, chunks of two tokens and two tasks. Two
  offloads of a user continue the same partial chunk; the first is copied and
  finished, the second times out and is cancelled, which unlocks the pages it
  reads. Another user gets one of them before the late copy runs, and the copy
  writes it into the chunk the first offload has completed. `cancel` returns the
  fresh chunks only; the shared one is protected by no lock.
- It also fails without timeouts, with seven pages, five chunks and three tasks:
  the host evicts a user while an offload continues its partial chunk
  (`get_empty_pinned_chunks` spares only the users it serves). An older task of
  that user, launched when the host had nothing, then finishes and brings the
  length back to where the other one starts, which is accepted in turn although
  its copy went to the chunk the user has lost. `PartialChunkStays`
  (`KVCacheManagerProofs`) excludes the eviction.

Server (`MCServing`):

- `NoSubmissionLost` is stated for a facade that accepts and ids submitted once.
  After a drain, and for a batch with a repeated id, the submissions already
  cleared from the worker are gone when `submit_many` raises. (A test expects
  the rejection, `test_serving_http.py:437`.) A cancelled pending request raises
  `KeyError` and runs later; after `shutdown` pending requests stay unanswered.
- `PoolHealth` fails with `"decode" \in Faults` (two requests, `MaxDecode = 1`):
  requests finished by an earlier batch of the tick are not reported when a later
  batch raises, and their slots are not released.
- A request over the budget is popped before the tick raises and is never
  answered; that is why `serving`, which asks for an outcome for all, has none.
- `cancel` of a request whose answer is no longer retained answers it again,
  with another reason, so `ImplementsServer` needs `MaxFinished >= 3` here.

Prefix cache: `configure` with another page size skips the capacity check. The
class is documented as "LRU-bounded" (`prefix_cache.py:61`); `WithinLimits`
allows for it through `repaged`.

DynamicEmb (`MCEmbeddingTiers`):

- With three buckets of one slot, every key in the same bucket and batches
  `{1, 2, 3}` and `{4, 5}`, the guard on outstanding keys passes (3 keys, then 2
  once the first batch is forwarded, against a capacity of 3) while the first
  batch still pins three of the four slots its keys can use, the overflow slots
  included: one key of the second gets no slot, is listed as evicted with a
  negative index, and an uninitialised row is written to the storage.
  `NoUpdateLost` fails.
- A prefetch that raises leaves its keys counted as outstanding; a forward
  without a backward keeps its pins. Both are in the model (the first as
  `PrefetchRaises`); no property asks for more.

Training: the loss tokens are read before `_wait_for_batch`; `NothingReadEarly`
holds because the host has waited for the splits of that batch before. The one
`_context` of the prefetch pipeline keeps its splits, so the input dist of the
last batch is issued a second time on every rank; it is harmless there.

### Bounds

- Users are interchangeable, and so are pages, chunks and namespaces (SYMMETRY,
  in the runs without liveness properties). Two users are the least with a victim and a requester; three are
  needed for a locked user, a victim and a requester at once.
- `MaxHistory` of one and a half pages (3 tokens on pages of 2) gives full and
  partial pages, growth inside a page and across a boundary; the runs with
  pages of one token keep batches or chunks of several pages affordable.
- `MaxTokens` (in `overlap_pressure`) cuts exploration where the three histories
  together exceed it: two full ones and a third of one token already need five
  of the four pages.
- `MaxTasks` bounds the offloads not both settled and copied: `Lookup` waits
  for a free id. Two let offloads of the same user overlap.
- `total_offloaded_pages` drifts away from the sum it stands for (it is not
  raised when `allocate` takes the offloaded length from a lookup).
  `MaxDrift` and `MaxOffloaded` cut exploration beyond a distance; the states
  at the cut are still checked. The counter only decides whether
  `check_for_offload` looks at users outside the batch.
- `NumLayers = 3` is the least at which a buffer is used twice in a call, and
  five requests let a page and a buffer pass through three owners.
- Three requests with two running: one waits, one is ahead of it; `MaxSubmits`
  and `MaxMany` bound what clients submit, `MaxTicks` is a parameter of
  `shutdown`. An age is counted only where a timeout reads it.
- `MaxSubmissions` (in `serving_edges`) cuts exploration after four
  submissions: enough for one request that has ended, one that decodes on the
  middle slot, and a group of two that meets three context slots of which the
  outer two are free. No adjacent pair is found and the group goes on without
  slots.
- `MaxRecent` (in `prefix_cache`) cuts exploration where more than four keys have
  been used since the last `clear` or `configure`: a cache holds at most three,
  so there are keys that were dropped, and some that come back.
- Prompts share prefixes of one to three tokens, with page sizes 1 and 2: nodes
  are extended, split and realigned.
- Six keys in one bucket of one slot and three overflow slots: evictions,
  overflow and pinned victims all occur within `MaxBatches = 4`. `Depth` is how
  many batches are prefetched ahead.
- Two ranks can disagree about an order; three batches fill the pipeline, and a
  plan with two training slices around an evaluation empties and refills it.
- `CHECK_DEADLOCK FALSE` where the clients or the batches are bounded: the
  server, the layer pipeline, the embedding tiers and the training job come to
  an end.

### Fairness

- `KVCacheManager`: weak fairness of the inference thread's own steps and of
  `OffloadCopy`: a Python thread in a call keeps running, and CUDA streams
  execute what is queued. Lookups, flushes and evictions are the client's and
  are not assumed. A timeout may happen at any poll but need not, so flushing is
  shown to depend on the copies and not on giving up. The cut by `MaxDrift`
  removes behaviours that drift further; the drift enters no guard of the loops
  the two properties are about.
- `ServingWorker`: weak fairness of the worker's loop and of a shutdown that has
  begun. The lock is free between ticks and clients call finitely often, so the
  loop gets it.
- `LayerPipeline`: every stream runs what is at its head and not waiting, and
  the host finishes the pass it has begun.
- `TrainPipeline`: some step is taken while one is possible; all steps are of
  threads and devices that do nothing else.

## 4. Proofs

Everything in this section is proved for every value of the constants: any
number of users, pages, chunks, requests, keys, ranks and batches.

### The page table (`GPUKVCacheProofs`)

`GPUInvariant`: `GPUSpec => []GPUInv`, and from it `GPUTypeCorrect`,
`PagesPartitioned`, `PageListsMatch`, `LruComplete`, `OffloadedWithin`.

Assumptions: `PageSizeAssumption`, `ChunkSizeAssumption` (the constructor
divides them; `kvcache_config.py`), `BoundsAssumption`, `NoPageAssumption`, and
the caller's contract inside `GPUNext`.

Why the invariant has the parts it has. `PagePartition` alone is not inductive:
`evict_offloaded` removes a number of pages computed from lengths, so the page
lists must agree with the lengths (`PageListsMatchLengths`) and the offloaded
length must not exceed the history (`OffloadedWithinHistory`), or more pages
would be erased than there are. `TakePages` takes `TotalPages - CurPages` pages
and copies the cached ones in between; that this count is right rests on the
start being on a page boundary and on `total` covering the history
(`RequestSound`). That nothing but the served user loses its pages in
`EvictOffloadedStep` rests on `LruListsCachedUsers` and on the batch being
frozen. `GPUTypeOK` includes that page lists hold pages only, which is the
absence of out-of-bounds reads outside phase "undefined".

The proof regroups the invariant (`Parts`) by the variables each piece reads,
so that steps that touch only the request need not look at the table. Lemmas on
page arithmetic, on `RemoveFirst`, and one each for `Evict`, `EvictOffloaded`
and `TakePages` carry the weight; there is one lemma per action of `GPUNext`.

### The cache as a whole (`KVCacheManagerProofs`)

- `CacheInvariant`, `ImplementsPageTable` (`Spec => GPUSpec`) and
  `PageTableInSystem`: the caller's contract of the page table is not only
  assumed, the system keeps it. The contract bounds the lengths reported as
  being on the host by the user's history. Those lengths come from offloads
  launched earlier and finished at any later poll, so `CacheInv` carries the
  bound through the whole chain: every launched task ends within the history
  (`TasksOK`), hence what `finish_offload` makes of it (`HostOK`), hence what a
  lookup reports until `allocate` uses it (`LookedUp`); `FlowOK` ties the
  request's position to the phase of `allocate`. No constants are restricted:
  timeouts, both fail policies, the extra poll and the client's evictions are
  included.
- `PrefixGrows`: an action property from the same invariant. Two offloads of a
  user may be under way and settle in either outcome; the later of two ends
  never undoes the earlier.
- `ChunksPartitioned`: `ChunkInv` says that the free chunks and all the places
  that hold one (the users' lists, the fresh chunks of every task still in
  `ongoing_offload_tasks` and of those the current poll keeps) are a partition.
  The places are written as a family of lists (`HeldLists`), and each step is
  shown to be a renaming of places, some of them taken from or given to the pool
  (`Transfer`, `Takes`, then `SettleChunks`, `KeepChunks`, `DropChunks`, …).
  It assumes that nothing is raised (`~(Timeouts /\ FailClose)`).
  `ChunksPartitionedUnlessLost` covers the rest: the partition holds as long as
  `RaisesUnsettled`, that is, unless a time-out is raised after the same poll has
  settled a task, which is the last boundary of the KV cache in section 3. That
  the fresh chunks of a task are given out once rests on the shape of the poll
  (`FlightInv`, `NoneLost`): what it has not yet visited and what it keeps is, in
  order, what was launched and is not settled.
- `AppendsAgree`: what Python cuts off the fed sequence and what `allocate`
  appends are computed from two different snapshots. `KeptOK` relates the
  looked-up lengths to the page table from lookup to allocation; polls and
  evictions in between change only what the host holds.
- `LocksCoverTasks` and `LocksMatch`: the lock of a user counts the unsettled
  handles that carry it. `LocksCover` (at least as many locks as handles) is
  inductive without further hypothesis than `RaisesUnsettled`; the equality needs
  `CheckedAcquire` as well, that `check_for_offload` and `acquire_offload_pages`
  agree on who sends, because the second locks every user of the first.
- `PagesStay` follows the pages of an unsettled offload through the loop of
  `allocate`: its users are locked (`CarriedLocked`), so neither
  `evict_offloaded` nor `getUIdToEvict` takes them (`RoomSpares`), and a user
  that is served again keeps its old pages in the middle of the new list
  (`TakenList`). At the launch the slice lies within the page list.

- `HostKeepsHistories` and `RequestsReadHistories` follow the tokens themselves
  round the whole loop: forward pass, page, copy, chunk, onboarding, page. What is
  read from the GPU may have come from the host and the other way round, so the
  two are proved from one invariant, `HistoryInv`, whose parts are:
  - *On the GPU* (`GpuHolds`): of each user, the pages between `First` and `Limit`
    are in the list at their place and hold that page of the history. While
    `allocate` and the onboarding are under way the bounds are those of the lookup,
    because the new list has pages that nothing has filled yet; `ServedOK` says
    which users of a batch have such a list. One lemma (`GpuKept`) covers every
    step that only shortens, drops or renames lists; the onboarding and the forward
    pass fill exactly the pages that the new bounds add.
  - *From lookup to onboarding*: `LookupFits`, and `HeldAtLookup`, that the host
    still has what the lookup found when the onboarding reads it. Polls in between
    may only extend it.
  - *Under way* (`HandlePlaced`): the pages an unsettled offload will read are
    still at their places between the bounds, so a copy reads the pages of its
    own user however late it runs.
  - *On the host* (`HostInv`): the handles not yet copied are the last of the
    tasks, in order (`StreamIs`). Chunk lists have the length that the host length
    asks for; each handle continues the chunks as they will be when it is settled
    (`HandleShape`, `Continues`); a later offload of a user does not end before an
    earlier one (`EndsGrow`) and one still to be copied does not end before what
    the host already promises (`Behind`). So a copy that rewrites slots of a shared
    partial chunk rewrites them with the tokens they hold. Chunks of different
    places differ by `ChunkInv`, so it disturbs no other user. A finished task
    either adds chunks that its copy has filled, or is stale and changes nothing.

The last six theorems have hypotheses of the form `[]P`, and each `P` is a
condition under which the code is meant to run, not a restriction of sizes:
`NoGapAtLookup` is the assertion of `kvcache_utils.py:97`, `OffloadsHaveNoGap`
the comment at `gpu_kvcache_manager_impl.cpp:510`, `VictimFound` that
`getUIdToEvict` ends in its loop, `CheckedAcquire` that two places which compute
the same thing agree, `PartialChunkStays` that the host does not evict a user
under offload in the middle of a chunk. `Orderly` is the conjunction for the last
two. Section 3 and the run `locked_user_evicted` have an instance where each
fails. They hold in
all states of the passing runs that check the property concerned, and of
`locked_user_evicted`, which violates `OffloadingPagesStay`, all but
`VictimFound` hold: by the theorem, the fallback of `getUIdToEvict` is the only
way there. `Orderly` holds in every reachable state of `overlap_pressure`, which
is therefore an instance of both theorems. They assume
`Timeouts => FailClose` as well, that no task is cancelled. This is not a
convenience of the proof: section 3 has a cancelled offload whose late copy
spoils what the host promises. `unaligned_chunks` checks `HostHoldsOwnHistory`
with cancels, for one user.

### The layer pipeline (`LayerPipelineProofs`)

`OwnLayerAttended`, `HostedComplete` and `GathersFromLockedPages`, from
`PipelineInvariant`, for every number of layers, pages, histories and passes and
without any hypothesis but `PipelineAssumption`. `PipeInv` never names a position
in a queue: it says which work is pending, in which order the work of one stream
stands (`QueuesOrdered`), and what follows from an event having happened.

- *Onload.* While a scatter is pending, its buffer holds its layer from its
  `loaded` event on (`ScattersOK`). A copy into that buffer waits for the
  scatter of two layers before, and scatters are in order, so the layer it
  overwrites has left.
- *Attention.* A page has each layer of its history unless an append or a
  scatter of that layer is pending (`PagesOK`); an append stands before its read
  in the stream, and a read that waits for an onload waits for the scatter.
  A pass starts when the compute stream is empty, which leaves no scatter of the
  pass before (`Quiet`): the blocking read of the code is what this rests on.
- *Offload.* The same for the other two buffers, within a call by the `ready`
  events and between calls by the wait at the end of a gather (`SendsOK`: while
  a copy to the host is pending, so is that wait). A page of an unsettled offload
  may still be written only by the call that is offloading it, and the gather
  waits for the end of that forward pass (`Mine`, `PageIsWhole`).
- *Settling.* The copies of a call are in order, so the last `ready` event means
  all layers are there and no gather is pending (`Settled`).

### The server (`ServingProofs`)

- `ServingInvariant`: types, queues by stage, the leases, the tick's own lists
  and the worker. From it `HealthyLeases` and `StagesMatch`. A tick breaks the
  simple relations for a while (an admitted request decodes before its prefill
  has run), so `TickOK` says for every phase who is where.
- `OneOwnerPerSlot` and `PlansAreSound` from `SlotsOK`, which follows the slots
  through a prefill that raises between the two pools. The plan of decode
  batches is shown by `PlanGood` to cover the decoding list once, for every list.
- `NoSlotLeaks` assumes `TicksReport`, `SubmissionsAreKept` assumes
  `MaxSubmits = 1`, and `ImplementsServerSafety` assumes `ServerPolicy` (every
  request fits into an idle server, and where clients cancel no answer has been
  dropped). Each is the boundary of section 3 turned into a hypothesis; the
  passing runs satisfy them.
- `AnswersAreRetained`: an action property.
- `ImplementsServerSafety` is the refinement of `RequestServer` without its
  fairness: every step of a tick is a step of the abstract server or a stutter.

### The prefix cache (`PrefixCacheProofs`)

`FindsLongestPrefix`, `TotalsAlwaysMatch`, `StaysWithinLimits` and
`HoldsTheLastUsed`, from `RadixTreeOfEntries`, for every set of prompts,
namespaces and configurations; the assumptions are that prompts are sequences of
integers and that page sizes are positive (`configure` rejects others).

- *Why the tree matters to the counters.* A hit moves the source of a tree node
  to the end of the entries. If that source were no longer cached, the move would
  bring back an entry that is not counted. So even `TotalsMatch` needs that the
  tree is one of the present entries (`TreeOf`).
- *`TreeOf`* has three parts. `Sound`: a node is whole pages long, and its source
  is cached, of its namespace and begins with it. `Complete`: every entry of a
  page or more has its node. `Branching`: where two nodes part, rounded down to
  whole pages, there is a node. The third is what makes the walk right: the
  nodes beyond the reached point that share another page with the prompt all
  continue one child (`BelowShares`), so no other branch can share more, and the
  source of that child, wherever its edge is left, shares as much.
- *`_insert_entry`* keeps the three (`InsertKeepsTree`): a new leaf parts from
  the nodes off its way at or above the reached point, where there is a node
  (`MeetsAbove`), and from those below it at the fork that the split inserts.
  `_rebuild_tree` is then an induction over the entries (`RebuildIsTree`).
- *The sums.* `Tokens`, `TreeTokens` and `Len` are sums of weights over the
  entries; splitting, appending, and taking one element out of a sequence without
  repetitions change them as they should (`WeighSplit`, `WeighAppend`,
  `WeighWithout`). `_enforce_capacity` decides on the counter, so that it stops
  at all, and within the limits, rests on `TotalsMatch` (`KeptProps`).
- *The order.* `KeepsTheNewest` is inductive once the invariant also says that
  no key is twice in `recent` (`Newest`). A use takes its key out of both
  sequences and appends it to both, which keeps one a suffix of the other
  (`MovesHistory`); what `_enforce_capacity` drops stands directly before what
  stays, and the last one dropped did not fit (`Over`, `NewestInserted`).

### The embedding tiers (`EmbeddingTiersProofs`)

For one stream (`~Overlap`; with two, `counter_race` shows the opposite):
`TiersInvariant`, `CountersMatch`, `RowsStay`. Because the counter kernels read
and write in two steps, exact counters need that at most one kernel is between
its read and its write (`OneAtATime`) and that what it read is still current
(`ReadsFresh`); then a slot used by a batch in flight has a positive counter and
is no victim (`HeldOK`). `UpdatesKept` adds `CacheOK` and `ValuesOK`, under the
hypothesis `[]RoomForAll` that every inserted key finds a slot: without it
an update is lost, as section 3 says.

### The training pipelines (`TrainPipelineProofs`)

`BatchesLinedUp` and `EveryBatchOnce`. For each rank, whatever its point in
`progress()`, the slots hold the numbers that follow those already given to the
model, and the loader continues them (`Lined`); the slice they belong to is the
one the trainer is in (`OfSlice`). Where a slice ends the pipeline is empty, so
that the loop of the next slice starts with its own first batch.

`InputsComeFirst` proves `NothingReadEarly` from `StreamsInOrder`, whose
invariant (`RunsOK`) has three parts. `DeviceOK`: each launch that has not run is
behind all it reads, that is, every input is computed, or was launched earlier on
the same stream, or lies within the part of another stream that the launch waits
for (`Behind`, `Due`). `RanOK`: rows come from tensors, tensors from splits, splits
from the batch as it is trained on, which is why a forward pass need not wait for
the copy itself. `Relied`: at each point of `progress()`, what the host thread has
launched and which batch its contexts hold. A launch is shown to keep the first
part because the third names the stream on which each input is; running work
keeps it because what is due on a stream stays due or is computed. The KK thread
reads only workloads the host has read before (`TasksRead`). The argument is
about one rank, so it holds for any number of them and any order in which
streams and collectives get on.

### How data induction is done

`SequenceLemmas` derives induction over the naturals for *sets*
(`SetInduction`), that a function defined by recursion exists and unfolds
(`Recursion`, `Unfold`), and from these what `Only`, `Without` and the other
recursive functions of the model compute (`PrefixCacheProofs` does the same for
its sums and for the tree). `SelectSeq`, `FoldLeft` and `SortSeq`
take operators and stay opaque to the provers; the modules with proofs use
`Only`, `Without` and recursive functions in their place.

### Model-checked only

- Liveness (`RequestEnds`, `FlushDrains`, `PendingIsTaken`, `PassesEnd`,
  `JobEnds`, the fairness part of `ImplementsServer`): outside the prover's reach.
- `NoGapAtLookup`, no invariant of larger instances; section 3 gives one where it
  fails. It is a hypothesis of the theorems above.
- `HostHoldsOwnHistory` where offloads are cancelled (`unaligned_chunks`).

### How far the runs go

Some hazards are wider than the run that names them; their notes in
`PROJECT.json` say so.

- Pages that pass to another user under a copy: `overlap_pressure` has it for
  locks and reads. `HostHoldsOwnHistory` runs with one user, and across users it
  is proved only where nothing is cancelled.
- The host evicts under a user whose suffix is on the GPU: no passing run has
  it, since the code does not survive it (section 3).
- `fail_close` with two tasks: as above; `client_evicts` has one task.
- Two streams that race for a communicator: excluded by `Collective`.
- Overflow slots that run out: no passing run has it (section 3).

## 5. Not modelled

- The contents of tensors, dtypes and strides; kernels are what they copy.
- **FlexKV** and `revoke_onboard_pages`: every branch depends on what an
  external service answers. Read while surveying: `revoke_onboard_pages` is
  given lengths that need not be page aligned although its comment assumes they
  are, and it revokes for every user of the failed task.
- The exported runtime: the same calls as `KVCacheManager` behind tensors.
- `offload_mode`: stored by the backend and not read by it.
- Concurrent callers of one KV backend: the code has no locking and is used by
  one thread.
- **Server**: `run_until_idle`, a second `start`, the wait for a fuller batch,
  the HTTP layer with its admission check, beam width policies, CUDA graphs, and
  the executor's use of the prefix cache (the cache is modelled on its own).
- **DynamicEmb**: storage without a cache, `HybridStorage`, eviction, expansion
  and `NO_EVICTION` of the storage, several tables, dump and load, deterministic
  mode, lookups in evaluation.
- **Training**: `detach` and `attach`, `execute_all_batches=False`, loaders of
  unequal length on the ranks, the pipelines without a Jagged subclass.
- Attention kernels and networks (most of the repository's lines): floating
  point computation without state to explore.

## 6. Plan

1. Done: the KV cache with its page table, its refinement of it, its chunks,
   locks and histories proved; the layer pipeline, proved but for progress; the server with its
   refinement, proved but for fairness; the prefix cache, proved; the embedding
   tiers and the training pipelines with the theorems of section 4.
2. To add: the storage without a cache and `HybridStorage` of DynamicEmb, the
   executor's use of the prefix cache, and FlexKV once its service can be
   described.
