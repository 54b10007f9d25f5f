--------------------------- MODULE KVCacheManager ---------------------------
(***************************************************************************)
(* The KV cache of the HSTU ranking inference: DefaultKVCacheBackend with  *)
(* the native host tier, driven by one inference thread, and the GPU       *)
(* streams that copy the data behind it.                                   *)
(*                                                                         *)
(* A request is  lookup -> allocate -> onboard -> forward -> poll the      *)
(* offloads -> launch an offload  (InferenceRankingGR.forward_with_kvcache *)
(* and InferenceDenseModule.forward_with_kvcache).  An offload only        *)
(* enqueues work: OffloadCopy reads the GPU pages and writes the host      *)
(* chunks at any later time, in launch order.                              *)
(*                                                                         *)
(* pageData and chunkData say which tokens a page or a chunk slot really   *)
(* holds: <<u, i, n>> is the first n tokens of page i of u's history.      *)
(* Histories only grow, so equal positions hold equal tokens.  The layers  *)
(* of the model share one page table and are one here.                     *)
(***************************************************************************)
EXTENDS GPUKVCache, HostKVStorage

CONSTANTS
    MaxTasks,            \* bound: offloads launched and not settled or copied
    Timeouts,            \* offload_timeout_ms > 0
    FailClose,           \* host_kvstorage_fail_policy = "fail_close"
    PollBeforeAllocate,  \* the optional offload_try_wait of the README
    ClientEvicts         \* the application calls evict and evict_all

ASSUME ManagerAssumption ==
    /\ MaxTasks \in Nat \ {0}
    /\ {Timeouts, FailClose, PollBeforeAllocate, ClientEvicts} \subseteq BOOLEAN

VARIABLES
    pc,         \* what the inference thread does next
    ret,        \* where offload_try_wait returns to
    lookup,     \* KVIndexMeta and KVLookupResult of the request
    ongoing,    \* ongoing_offload_tasks
    polled,     \* position of offload_try_wait in ongoing
    remain,     \* remain_tasks
    stream,     \* offloads whose copies have not run, in launch order
    pageData,   \* contents of the GPU pages
    chunkData   \* contents of the slots of the host chunks

pollVars == <<ongoing, polled, remain>>
dataVars == <<pageData, chunkData>>
vars == <<gpuVars, hostVars, pc, ret, lookup, pollVars, stream, dataVars>>

Junk == <<>>
Slots == 0 .. PagesPerChunk - 1
NoLookup == [batch |-> <<>>, total |-> Zero, gpuStart |-> Zero, gpuLen |-> Zero,
             hostLen |-> Zero]
Of(us, f) == [u \in User |-> IF u \in us THEN f[u] ELSE 0]
Smaller(m, n) == IF m < n THEN m ELSE n
Larger(m, n) == IF m > n THEN m ELSE n

Init ==
    /\ GPUInit /\ HostInit
    /\ pc = "idle" /\ ret = "idle"
    /\ lookup = NoLookup
    /\ ongoing = <<>> /\ polled = 1 /\ remain = <<>>
    /\ stream = <<>>
    /\ pageData = [p \in Page |-> Junk]
    /\ chunkData = [c \in Chunk |-> [s \in Slots |-> Junk]]

Ids(handles) == {handles[i].id : i \in DOMAIN handles}
FreeIds == (1..MaxTasks) \ (Ids(ongoing) \cup Ids(stream))
-----------------------------------------------------------------------------
(***************************************************************************)
(* lookup_kvcache and KVLookupResult.merge.                                *)
(***************************************************************************)
Lookup(b, tot) ==
    /\ pc = "idle" /\ FreeIds # {}
    /\ \A i \in DOMAIN b : tot[b[i]] > 0 /\ history[b[i]] <= tot[b[i]]
    /\ lookup' = [batch |-> b, total |-> tot, gpuStart |-> Of(Range(b), startPos),
                  gpuLen |-> Of(Range(b), cachedLen), hostLen |-> Of(Range(b), hostLen)]
    /\ \/ pc' = "allocate" /\ UNCHANGED <<ret, polled, remain>>
       \/ /\ PollBeforeAllocate /\ ongoing # <<>>
          /\ pc' = "poll" /\ ret' = "allocate" /\ polled' = 1 /\ remain' = <<>>
    /\ UNCHANGED <<gpuVars, hostVars, ongoing, stream, dataVars>>

\* Mutant: a user that is on the host only counts as uncached.
MergedLenGPUOnly(u) ==
    IF lookup.hostLen[u] = 0 \/ lookup.gpuLen[u] = 0 THEN lookup.gpuLen[u]
    ELSE Larger(lookup.hostLen[u], lookup.gpuStart[u] + lookup.gpuLen[u])

\* The cached length the request's tokens are stripped by.
MergedLen(u) ==
    CASE lookup.hostLen[u] = 0 -> lookup.gpuLen[u]
      [] lookup.gpuLen[u] = 0  -> lookup.hostLen[u]
      [] OTHER -> Larger(lookup.hostLen[u], lookup.gpuStart[u] + lookup.gpuLen[u])

Allocate ==
    /\ pc = "allocate" /\ pc' = "allocating"
    /\ AllocateCall(lookup.batch, lookup.total, lookup.hostLen)
    /\ UNCHANGED <<hostVars, ret, lookup, pollVars, stream, dataVars>>

AllocateStep ==
    /\ pc = "allocating"
    /\ Reconcile \/ RetainStep \/ EvictOffloadedStep \/ EvictUserStep \/ TakePages
    /\ pc' = IF phase' = "returned" THEN "onboard" ELSE "allocating"
    /\ UNCHANGED <<hostVars, ret, lookup, pollVars, stream, dataVars>>
-----------------------------------------------------------------------------
(***************************************************************************)
(* onboard_launch: host chunks to the first pages of the request.  The     *)
(* copies are ordered before the attention that reads the pages and before *)
(* any later offload, so they are one step.                                *)
(***************************************************************************)
\* Mutant: what precedes a GPU suffix is not brought back.
OnloadLenBeyondGPU(u) == IF lookup.gpuStart[u] + lookup.gpuLen[u] < lookup.hostLen[u]
                         THEN lookup.hostLen[u] ELSE 0
OnloadLen(u) == IF lookup.gpuStart[u] + lookup.gpuLen[u] < lookup.hostLen[u]
                THEN lookup.hostLen[u] ELSE lookup.gpuStart[u]
OnloadStart(u) == LET end == lookup.gpuStart[u] + lookup.gpuLen[u]
                  IN  IF lookup.gpuStart[u] = 0 /\ end < lookup.hostLen[u] THEN end ELSE 0

HostPage(u, i) ==
    LET c == (i - 1) \div PagesPerChunk + 1
    IN  IF c \in DOMAIN hostChunks[u] THEN chunkData[hostChunks[u][c]][(i - 1) % PagesPerChunk]
        ELSE Junk

\* The places of the page lists of the request.
ListedPages == {w \in User \X (1..Pages(MaxHistory)) : w[2] <= Len(pageIndices[w[1]])}

\* New contents for the pages from[u] + 1 .. from[u] + count[u] of the users of
\* a request; a page written for two users is junk.
Writes(new, from, count) ==
    LET To(p) == {w \in ListedPages :
                     /\ w[2] > from[w[1]] /\ w[2] <= from[w[1]] + count[w[1]]
                     /\ pageIndices[w[1]][w[2]] = p}
    IN  [p \in Page |-> CASE To(p) = {} -> pageData[p]
                          [] Cardinality(To(p)) = 1 ->
                                new[CHOOSE w \in To(p) : TRUE]
                          [] OTHER -> Junk]

Onboard ==
    LET InPages(n) == [u \in User |-> IF Frozen(u) THEN n[u] \div PageSize ELSE 0]
        from == InPages([u \in User |-> OnloadStart(u)])
        count == InPages([u \in User |-> OnloadLen(u)])
        fromHost == [w \in ListedPages |-> HostPage(w[1], w[2] - from[w[1]])]
    IN  /\ pc = "onboard" /\ pc' = "forward"
        /\ pageData' = Writes(fromHost, from, count)
        /\ UNCHANGED <<gpuVars, hostVars, ret, lookup, pollVars, stream, chunkData>>

\* The forward pass appends the tokens from kept on; it was given those from
\* MergedLen on.
Appended(u, i) ==
    LET lo == (i - 1) * PageSize
        hi == Smaller(i * PageSize, total[u])
        old == pageData[pageIndices[u][i]]
        prefix == \E n \in 1..PageSize : old = <<u, i, n>> /\ lo + n >= kept[u]
    IN  IF hi <= kept[u] THEN old
        ELSE IF kept[u] = MergedLen(u) /\ (kept[u] <= lo \/ prefix) THEN <<u, i, hi - lo>>
        ELSE Junk

Forward ==
    /\ pc = "forward"
    /\ pageData' = Writes([w \in ListedPages |-> Appended(w[1], w[2])],
                          Zero, [u \in User |-> Len(pageIndices[u])])
    /\ pc' = "poll" /\ ret' = "offload" /\ polled' = 1 /\ remain' = <<>>
    /\ UNCHANGED <<gpuVars, hostVars, lookup, ongoing, stream, chunkData>>
-----------------------------------------------------------------------------
(***************************************************************************)
(* offload_try_wait, one action per task of ongoing_offload_tasks.         *)
(***************************************************************************)
\* Mutant: the events are never seen.
NeverReady(h) == FALSE

Polling == pc = "poll" /\ polled <= Len(ongoing)
Task == ongoing[polled]
Ready(h) == h.id \notin Ids(stream)

\* release_offload_pages with the outcome finish_task or cancel_task gave.
Settle(h, done) ==
    /\ ReleaseOffloadPages(HandleUsers(h), done, [u \in User |-> OffloadEnd(h, u)])
    /\ polled' = polled + 1
    /\ UNCHANGED <<requestRest, pc, ret, lookup, ongoing, remain, stream, dataVars>>

PollReady ==
    /\ Polling /\ Ready(Task)
    /\ FinishOffload(Task)
    /\ Settle(Task, FinishedUsers(Task))

PollLaunched ==
    /\ Polling /\ ~Ready(Task)
    /\ polled' = polled + 1 /\ remain' = Append(remain, Task)
    /\ UNCHANGED <<gpuVars, hostVars, pc, ret, lookup, ongoing, stream, dataVars>>

\* Mutant: a cancelled offload is released as if it had succeeded.
PollTimeoutSucceeds ==
    /\ Polling /\ ~Ready(Task) /\ Timeouts /\ ~FailClose
    /\ CancelOffload(Task)
    /\ Settle(Task, HandleUsers(Task))

PollTimeout ==
    /\ Polling /\ ~Ready(Task) /\ Timeouts /\ ~FailClose
    /\ CancelOffload(Task)
    /\ Settle(Task, {})

\* Mutant: the exception also drops the tasks.
PollRaiseDropsTasks ==
    /\ Polling /\ ~Ready(Task) /\ Timeouts /\ FailClose
    /\ polled' = 1 /\ remain' = <<>> /\ pc' = "idle" /\ ret' = "idle"
    /\ lookup' = NoLookup /\ DropRequest
    /\ ongoing' = remain
    /\ UNCHANGED <<history, tableVars, offloadVars, hostVars, stream, dataVars>>

\* fail_close: the exception leaves ongoing_offload_tasks as it was, and ends
\* the request.
PollRaise ==
    /\ Polling /\ ~Ready(Task) /\ Timeouts /\ FailClose
    /\ polled' = 1 /\ remain' = <<>> /\ pc' = "idle" /\ ret' = "idle"
    /\ lookup' = NoLookup /\ DropRequest
    /\ UNCHANGED <<history, tableVars, offloadVars, hostVars, ongoing, stream, dataVars>>

\* Leaving the loop; offload_flush polls again while a task remains.
PollReturn ==
    /\ pc = "poll" /\ polled > Len(ongoing)
    /\ ongoing' = remain /\ remain' = <<>> /\ polled' = 1
    /\ IF ret = "flush" /\ remain # <<>> THEN UNCHANGED <<pc, ret>>
       ELSE pc' = (IF ret = "flush" THEN "idle" ELSE ret) /\ ret' = "idle"
    /\ UNCHANGED <<gpuVars, hostVars, lookup, stream, dataVars>>

\* offload_flush, or one offload_reap_completed between requests.
OffloadFlush ==
    /\ pc = "idle" /\ ongoing # <<>>
    /\ pc' = "poll" /\ ret' \in {"flush", "idle"}
    /\ UNCHANGED <<gpuVars, hostVars, lookup, pollVars, stream, dataVars>>
-----------------------------------------------------------------------------
(***************************************************************************)
(* offload_launch                                                          *)
(***************************************************************************)
Launch(users, fresh) ==
    LET pages == [u \in User |-> IF Contains(users, u) THEN Slice(u, hostLen) ELSE <<>>]
        h == [id |-> Min(FreeIds), users |-> users,
              start |-> Of(Range(users), hostLen), pages |-> pages,
              fresh |-> fresh,
              chunks |-> [u \in User |-> IF Contains(users, u)
                                         THEN Written(u, hostLen, fresh) ELSE <<>>]]
    IN  /\ LaunchOffload(users, hostLen, pages, fresh)
        /\ ongoing' = Append(ongoing, h) /\ stream' = Append(stream, h)

OffloadLaunch ==
    LET check == CheckForOffload(batch)
        users == Only(check, {u \in User : Acquires(u, hostLen)})
        pages == [u \in User |-> IF Contains(users, u) THEN Slice(u, hostLen) ELSE <<>>]
        fails == LaunchFails(users, hostLen, pages)
    IN  /\ pc = "offload" /\ pc' = "idle"
        /\ AcquireOffloadPages(Range(check), hostLen,
                               IF users # <<>> /\ fails THEN Range(users) ELSE {})
        /\ IF users = <<>> \/ fails THEN UNCHANGED <<hostVars, ongoing, stream>>
           ELSE \E fresh \in FreshLists(users, hostLen, pages, Chunk) : Launch(users, fresh)
        /\ DropRequest /\ lookup' = NoLookup
        /\ UNCHANGED <<ret, polled, remain, dataVars>>

\* The GPU runs the oldest launched offload: gather, then copy to the host.
\* Slots past the data of the last chunk receive whatever the buffer held.
SlotSource(h, u, k, s) ==
    LET i == (k - 1) * PagesPerChunk + s + 1
             - (IF Unaligned(h.start[u]) THEN UsedPages(h.start[u]) ELSE 0)
    IN  IF i > Len(h.pages[u]) \/ h.pages[u][i] = NoPage THEN Junk
        ELSE pageData[h.pages[u][i]]

Untouched(h, u, k, s) == k = 1 /\ s < UsedPages(h.start[u])

OffloadCopy ==
    /\ stream # <<>>
    /\ LET h == Head(stream)
           Dest(c) == UNION {{u} \X {k \in 1..Len(h.chunks[u]) : h.chunks[u][k] = c} : u \in User}
       IN  chunkData' = [c \in Chunk |-> [s \in Slots |->
                IF Dest(c) = {} THEN chunkData[c][s]
                ELSE LET d == CHOOSE d \in Dest(c) : TRUE
                     IN  IF Untouched(h, d[1], d[2], s) THEN chunkData[c][s]
                         ELSE SlotSource(h, d[1], d[2], s)]]
    /\ stream' = Tail(stream)
    /\ UNCHANGED <<gpuVars, hostVars, pc, ret, lookup, pollVars, pageData>>
-----------------------------------------------------------------------------
(***************************************************************************)
(* evict and evict_all, called by the application between requests with no *)
(* offload under way, as the tests do after offload_flush.                 *)
(***************************************************************************)
\* Mutant: the forward pass under way is not waited for.
ClientQuietMidRequest == ClientEvicts /\ pc \in {"idle", "forward"} /\ ongoing = <<>>
ClientQuiet == ClientEvicts /\ pc = "idle" /\ ongoing = <<>>

ClientEvictGPU(u) ==
    /\ ClientQuiet /\ Evict(u)
    /\ UNCHANGED <<history, offloadLock, requestRest, hostVars, pc, ret, lookup, pollVars, stream, dataVars>>

ClientEvictHost(u) ==
    /\ ClientQuiet /\ HostEvict(u)
    /\ UNCHANGED <<gpuVars, pc, ret, lookup, pollVars, stream, dataVars>>

ClientEvictAllGPU ==
    /\ ClientQuiet /\ EvictAll
    /\ UNCHANGED <<history, requestRest, hostVars, pc, ret, lookup, pollVars, stream,
                   dataVars>>

ClientEvictAllHost ==
    /\ ClientQuiet /\ HostEvictAll
    /\ UNCHANGED <<gpuVars, pc, ret, lookup, pollVars, stream, dataVars>>
-----------------------------------------------------------------------------
\* allocate() asserted or read outside a page list: nothing more is promised.
Crashed == phase = "undefined" /\ UNCHANGED vars

ThreadStep ==
    \/ Allocate \/ AllocateStep \/ Onboard \/ Forward \/ OffloadLaunch
    \/ PollReady \/ PollLaunched \/ PollTimeout \/ PollRaise \/ PollReturn

Next ==
    \/ \E b \in Batch : \E tot \in [User -> Lengths] :
          /\ \A u \in User \ Range(b) : tot[u] = 0
          /\ Lookup(b, tot)
    \/ ThreadStep
    \/ OffloadFlush
    \/ OffloadCopy
    \/ \E u \in User : ClientEvictGPU(u) \/ ClientEvictHost(u)
    \/ ClientEvictAllGPU \/ ClientEvictAllHost
    \/ Crashed

Spec == Init /\ [][Next]_vars

\* The inference thread keeps running and the GPU keeps executing the work
\* queued on its streams.  Requests, flushes and evictions are the client's.
FairSpec == Spec /\ WF_vars(ThreadStep) /\ WF_vars(OffloadCopy)
-----------------------------------------------------------------------------
(***************************************************************************)
(* Properties                                                              *)
(***************************************************************************)
\* The launched offloads that offload_try_wait has not settled yet.
InFlight == IF pc = "poll" THEN remain \o SubSeq(ongoing, polled, Len(ongoing)) ELSE ongoing

\* Each chunk is free or in one place of one user's list of one holder.
ListPlaces(lists) == UNION {UNION {{<<k, u, i>> : i \in 1..Len(lists[k][u])} : u \in User} :
                           k \in DOMAIN lists}
ChunkAt(lists, p) == lists[p[1]][p[2]][p[3]]
Partition(free, lists) ==
    /\ \A p \in ListPlaces(lists) : ChunkAt(lists, p) \notin free
    /\ \A p, q \in ListPlaces(lists) : ChunkAt(lists, p) = ChunkAt(lists, q) => p = q
    /\ \A c \in Chunk : c \in free \/ \E p \in ListPlaces(lists) : ChunkAt(lists, p) = c

\* The lists of chunks by holder: the host (0), and the unsettled offloads, those
\* of ongoing from the position polled on (k > 0) and those in remain (k < 0).
HeldLists(host, tasks, from, rest) ==
    [k \in {0} \cup {i \in 1..Len(tasks) : i >= from} \cup {-i : i \in 1..Len(rest)} |->
        IF k = 0 THEN host ELSE IF k > 0 THEN tasks[k].fresh ELSE rest[-k].fresh]

\* A unit chunk of the pinned buffer is free, or in one place of one user's
\* list, or fresh in one place of one unsettled offload, and never lost:
\* get_empty_pinned_chunks, finish_offload, cancel_offload and evict together.
ChunkPartition == Partition(emptyChunks, HeldLists(hostChunks, ongoing, polled, remain))

\* The assertions left in comments of get_kvdata (lines 306 and 328): the
\* chunks of a user hold the pages its length promises, each one with that
\* page of that user's own history, whatever copies ran late.
HostHoldsOwnHistory ==
    \A u \in User : \A i \in 1..(hostLen[u] \div PageSize) : HostPage(u, i) = <<u, i, PageSize>>

\* The attention of a request reads, in the pages it was given, the whole of
\* its own user's history and nothing else.
Attended == pc = "offload" \/ (pc = "poll" /\ ret = "offload")
ReadsOwnHistory ==
    Attended => \A k \in DOMAIN batch :
        LET u == batch[k]
        IN  /\ Len(pageIndices[u]) = Pages(total[u])
            /\ \A i \in 1..Len(pageIndices[u]) :
                 pageData[pageIndices[u][i]] =
                     <<u, i, Smaller(PageSize, total[u] - (i - 1) * PageSize)>>

\* The tokens stripped from the request by the Python side are those the page
\* table appends after (new_hist_lengths in gpu_kvcache_manager.py:104 and
\* new_history_offsets in gpu_kvcache_manager_impl.cpp:359).
AppendsWhatIsFed ==
    pc = "forward" => \A k \in DOMAIN batch : kept[batch[k]] = MergedLen(batch[k])

\* A user is locked once for every unsettled offload that carries it, and
\* not otherwise: acquire_offload_pages and release_offload_pages pair up.
LocksMatchTasks ==
    \A u \in User : offloadLock[u] =
        Cardinality({k \in DOMAIN InFlight : u \in HandleUsers(InFlight[k])})

\* "a slice of the _uid_to_page_id[uid] in gpu_kvcache_mgr, which will be
\* locked during offloading" (gpu_kvcache_manager_impl.cpp:524): the pages of
\* an offload that has not been copied stay with their user.
OffloadingPagesStay ==
    \A k \in DOMAIN InFlight :
        InFlight[k].id \in Ids(stream) =>
            \A u \in HandleUsers(InFlight[k]) :
                Range(InFlight[k].pages[u]) \subseteq Range(pageIds[u])

\* "No gaps allowed: GPU cache start index should be smaller than or equal to
\* host cached length" (kvcache_utils.py:97).
NoGapAtLookup ==
    \A u \in User : lookup.gpuLen[u] > 0 => lookup.gpuStart[u] <= lookup.hostLen[u]

\* "Should not have gap" (gpu_kvcache_manager_impl.cpp:510): an offload sends
\* pages of its user's page list only.
OffloadsHaveNoGap ==
    \A k \in DOMAIN ongoing : \A u \in User : NoPage \notin Range(ongoing[k].pages[u])

\* What the host holds of a user is a prefix that grows or is dropped whole:
\* neither a late finish_offload nor one of a stale task may shorten it.
PrefixGrowsOrGoes ==
    [][\A u \in User : hostLen'[u] >= hostLen[u] \/ hostLen'[u] = 0]_hostLen

\* Every request ends: allocate() finds its pages or gives up on a batch that
\* needs more than the pool, and the polling loop ends.
RequestEnds == (pc = "allocate") ~> (pc = "idle" \/ phase = "undefined")

\* offload_flush returns with nothing under way.
FlushDrains == (ret = "flush") ~> (ongoing = <<>>)
=============================================================================
