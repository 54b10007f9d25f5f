----------------------------- MODULE GPUKVCache -----------------------------
(***************************************************************************)
(* The page table of the GPU KV cache: GPUKVCacheManagerImpl in            *)
(* corelib/recsys_kvcache_manager/src/gpu_kvcache_manager_impl.cpp.        *)
(*                                                                         *)
(* A fixed pool of pages is shared by the users.  A user's cached tokens   *)
(* are [startPos, startPos + cachedLen) of its history, in a list of pages *)
(* (_uid_to_page_id); the prefix [0, offloadedLen) is also in the host     *)
(* storage, so its pages may be dropped first.  allocate() runs on the     *)
(* single inference thread; its loops are steps of the variable phase, so  *)
(* that every iteration is one action.  The order of the free pages in the *)
(* queue _empty_pages is abstracted to a set from which any page may come. *)
(*                                                                         *)
(* total functions with default 0 (or <<>>) stand for the unordered_maps:  *)
(* the code reads them with operator[], which inserts that default.        *)
(***************************************************************************)
EXTENDS KVCacheParams

VARIABLES
    history,       \* length of each user's history at its last allocation
    emptyPages,    \* _empty_pages
    lruList,       \* _lru_list, least recently used first
    pageIds,       \* _uid_to_page_id
    startPos,      \* _uid_to_paged_cache_startpos
    cachedLen,     \* _uid_to_paged_cache_length
    offloadedLen,  \* _uid_to_offloaded_length
    offloadLock,   \* _uid_offload_lock
    totalOffloaded,\* total_offloaded_pages
    phase,         \* where the inference thread is in allocate()
    batch,         \* user_ids of the request
    total,         \* total_hist_lens of the request
    hostHit,       \* host_cached_lengths the request was looked up with
    kept,          \* cached_lengths computed by allocate()
    at,            \* seq_idx
    cursor,        \* the iterator of the loop over _lru_list
    pageIndices    \* page_indices handed to the attention kernels, by user

tableVars == <<emptyPages, lruList, pageIds, startPos, cachedLen>>
offloadVars == <<offloadedLen, offloadLock, totalOffloaded>>
requestVars == <<batch, total, hostHit>>
gpuVars == <<history, tableVars, offloadVars, requestVars, phase, kept, at,
             cursor, pageIndices>>

Phases == {"idle", "reconcile", "retain", "room", "returned", "undefined"}

EndPos(u) == startPos[u] + cachedLen[u]
OffloadedPages(u) == Positive((offloadedLen[u] - startPos[u]) \div PageSize)
Locked(u) == offloadLock[u] > 0
Frozen(u) == u \in Range(batch)

GPUInit ==
    /\ history = Zero
    /\ emptyPages = Page
    /\ lruList = <<>>
    /\ pageIds = NoList
    /\ startPos = Zero /\ cachedLen = Zero
    /\ offloadedLen = Zero /\ offloadLock = Zero /\ totalOffloaded = 0
    /\ phase = "idle"
    /\ batch = <<>> /\ total = Zero /\ hostHit = Zero /\ kept = Zero
    /\ at = 1 /\ cursor = 1
    /\ pageIndices = NoList
-----------------------------------------------------------------------------
(***************************************************************************)
(* Eviction.                                                               *)
(***************************************************************************)
\* evict(uid): all pages and all entries of a cached user go.
Evict(u) ==
    IF Contains(lruList, u)
    THEN /\ lruList' = RemoveFirst(lruList, u)
         /\ emptyPages' = emptyPages \cup Range(pageIds[u])
         /\ totalOffloaded' = totalOffloaded - OffloadedPages(u)
         /\ pageIds' = [pageIds EXCEPT ![u] = <<>>]
         /\ startPos' = [startPos EXCEPT ![u] = 0]
         /\ cachedLen' = [cachedLen EXCEPT ![u] = 0]
         /\ offloadedLen' = [offloadedLen EXCEPT ![u] = 0]
    ELSE UNCHANGED <<tableVars, offloadedLen, totalOffloaded>>

\* Mutant: the cached length is left as it was.
EvictOffloadedKeepsLength(u) ==
    LET n == OffloadedPages(u)
    IN  /\ emptyPages' = emptyPages \cup {pageIds[u][i] : i \in 1..n}
        /\ pageIds' = [pageIds EXCEPT ![u] = SubSeq(@, n + 1, Len(@))]
        /\ totalOffloaded' = totalOffloaded - n
        /\ UNCHANGED cachedLen

\* evict_offloaded(uid): the pages wholly below offloadedLen go.
EvictOffloaded(u) ==
    LET n == OffloadedPages(u)
    IN  /\ emptyPages' = emptyPages \cup {pageIds[u][i] : i \in 1..n}
        /\ pageIds' = [pageIds EXCEPT ![u] = SubSeq(@, n + 1, Len(@))]
        /\ cachedLen' = [cachedLen EXCEPT ![u] = @ - n * PageSize]
        /\ totalOffloaded' = totalOffloaded - n

\* ... its caller erases a user left without tokens, else moves on.
EraseIfEmptied(u) ==
    LET n == OffloadedPages(u)
        emptied == cachedLen[u] = n * PageSize
    IN  /\ startPos' = [startPos EXCEPT ![u] = IF emptied THEN 0 ELSE @ + n * PageSize]
        /\ offloadedLen' = [offloadedLen EXCEPT ![u] = IF emptied THEN 0 ELSE @]
        /\ lruList' = IF emptied THEN RemoveFirst(lruList, u) ELSE lruList
        /\ cursor' = IF emptied THEN cursor ELSE cursor + 1

\* Mutant: the page lists are not cleared.
EvictAllKeepsLists ==
    /\ emptyPages' = Page
    /\ lruList' = <<>>
    /\ startPos' = Zero /\ cachedLen' = Zero
    /\ offloadedLen' = Zero /\ offloadLock' = Zero /\ totalOffloaded' = 0
    /\ UNCHANGED pageIds

\* Mutant: _lru_list is not cleared.
EvictAllKeepsLru ==
    /\ emptyPages' = Page
    /\ pageIds' = NoList
    /\ startPos' = Zero /\ cachedLen' = Zero
    /\ offloadedLen' = Zero /\ offloadLock' = Zero /\ totalOffloaded' = 0
    /\ UNCHANGED lruList

\* evict_all(): the offload locks are dropped too.
EvictAll ==
    /\ emptyPages' = Page
    /\ lruList' = <<>>
    /\ pageIds' = NoList
    /\ startPos' = Zero /\ cachedLen' = Zero
    /\ offloadedLen' = Zero /\ offloadLock' = Zero /\ totalOffloaded' = 0

\* Mutant: users that are being offloaded are not skipped.
EvictableLocked(u) == ~Frozen(u)

\* getUIdToEvict: the oldest user that is neither being offloaded nor in the
\* batch; when there is none, the oldest user whoever it is.
Evictable(u) == ~Locked(u) /\ ~Frozen(u)
UIdToEvict == IF \E i \in 1..Len(lruList) : Evictable(lruList[i])
              THEN lruList[SelectInSeq(lruList, Evictable)]
              ELSE lruList[1]
\* ... and, unless NDEBUG is defined, assert(false) when nothing is offloaded.
EvictAsserts == /\ \A i \in 1..Len(lruList) : ~Evictable(lruList[i])
                /\ \A u \in User : ~Locked(u)

\* retain(uid): uid becomes the most recently used.
Retain(u) == lruList' = Append(RemoveFirst(lruList, u), u)
-----------------------------------------------------------------------------
(***************************************************************************)
(* allocate(), one action per loop iteration.                              *)
(***************************************************************************)
\* Call with the request's total lengths and the host lengths of its lookup.
AllocateCall(b, tot, hit) ==
    /\ phase = "idle"
    /\ batch' = b /\ total' = tot /\ hostHit' = hit
    /\ phase' = "reconcile" /\ at' = 1
    /\ UNCHANGED <<history, tableVars, offloadVars, kept, cursor, pageIndices>>

\* First loop: a user whose GPU suffix starts beyond what the host holds is
\* evicted, any other one has its offloaded length taken from the lookup.
Reconcile ==
    LET u == batch[at]
        gap == cachedLen[u] > 0 /\ hostHit[u] < startPos[u]
        last == at = Len(batch)
    IN  /\ phase = "reconcile"
        /\ IF gap
           THEN /\ Evict(u)
                /\ kept' = [kept EXCEPT ![u] = 0]
           ELSE /\ kept' = [kept EXCEPT ![u] = IF hostHit[u] > EndPos(u)
                                               THEN hostHit[u] ELSE EndPos(u)]
                /\ offloadedLen' = [offloadedLen EXCEPT ![u] = hostHit[u]]
                /\ UNCHANGED <<tableVars, totalOffloaded>>
        /\ phase' = IF last THEN "retain" ELSE "reconcile"
        /\ at' = IF last THEN 1 ELSE at + 1
        /\ UNCHANGED <<history, offloadLock, requestVars, cursor, pageIndices>>

\* alloc_single_sequence begins.
RetainStep ==
    /\ phase = "retain"
    /\ Retain(batch[at])
    /\ phase' = "room" /\ cursor' = 1
    /\ UNCHANGED <<history, emptyPages, pageIds, startPos, cachedLen, offloadVars,
                   requestVars, kept, at, pageIndices>>

\* Pages in front of, inside and in all of the new page list of batch[at].
OnloadPages(u) == IF cachedLen[u] = 0 THEN Pages(hostHit[u])
                                      ELSE startPos[u] \div PageSize
CurPages(u) == Pages(cachedLen[u])
TotalPages(u) == Pages(total[u])
RequiredPages(u) == TotalPages(u) - CurPages(u)
Enough == RequiredPages(batch[at]) <= Cardinality(emptyPages)

\* Mutant: the iterator is not advanced past a skipped user.
EvictOffloadedStepStuck ==
    /\ phase = "room" /\ ~Enough /\ cursor <= Len(lruList)
    /\ IF Evictable(lruList[cursor])
       THEN EvictOffloaded(lruList[cursor]) /\ EraseIfEmptied(lruList[cursor])
       ELSE UNCHANGED <<cursor, tableVars, offloadedLen, totalOffloaded>>
    /\ UNCHANGED <<history, offloadLock, requestVars, phase, kept, at, pageIndices>>

\* "Evict offloaded pages first": one step of the walk over _lru_list.
EvictOffloadedStep ==
    /\ phase = "room" /\ ~Enough /\ cursor <= Len(lruList)
    /\ IF Evictable(lruList[cursor])
       THEN EvictOffloaded(lruList[cursor]) /\ EraseIfEmptied(lruList[cursor])
       ELSE /\ cursor' = cursor + 1
            /\ UNCHANGED <<tableVars, offloadedLen, totalOffloaded>>
    /\ UNCHANGED <<history, offloadLock, requestVars, phase, kept, at, pageIndices>>

\* "then evict by user until enough pages".  Evicting the user whose pages
\* are being listed leaves the reads of its page list out of bounds.  Whether
\* the assertion is compiled in depends on the build: both outcomes are here.
EvictUserStep ==
    /\ phase = "room" /\ ~Enough /\ cursor > Len(lruList)
    /\ \/ /\ EvictAsserts /\ phase' = "undefined"
          /\ UNCHANGED <<tableVars, offloadedLen, totalOffloaded>>
       \/ /\ Evict(UIdToEvict)
          /\ phase' = IF UIdToEvict = batch[at] THEN "undefined" ELSE "room"
    /\ UNCHANGED <<history, offloadLock, requestVars, kept, at, cursor, pageIndices>>

\* The new page list: fresh pages around the cached ones.
FreshSlots(u) == {i \in 1..TotalPages(u) :
                     i <= OnloadPages(u) \/ i > OnloadPages(u) + CurPages(u)}
\* Mutant: the cached pages are not copied into the new list.
PageListFreshOnly(u, take) ==
    [i \in 1..TotalPages(u) |-> IF i \in FreshSlots(u) THEN take[i] ELSE NoPage]
PageList(u, take) ==
    [i \in 1..TotalPages(u) |-> IF i \in FreshSlots(u) THEN take[i]
                               ELSE pageIds[u][i - OnloadPages(u)]]

TakePages ==
    LET u == batch[at]
        last == at = Len(batch)
    IN  /\ phase = "room" /\ Enough
        /\ \E take \in Injection(FreshSlots(u), emptyPages) :
             /\ emptyPages' = emptyPages \ {take[i] : i \in FreshSlots(u)}
             /\ pageIds' = [pageIds EXCEPT ![u] = PageList(u, take)]
             /\ pageIndices' = [pageIndices EXCEPT ![u] = PageList(u, take)]
        /\ startPos' = [startPos EXCEPT ![u] = 0]
        /\ cachedLen' = [cachedLen EXCEPT ![u] = total[u]]
        /\ history' = [history EXCEPT ![u] = total[u]]
        /\ phase' = IF last THEN "returned" ELSE "retain"
        /\ at' = IF last THEN 1 ELSE at + 1
        /\ cursor' = 1
        /\ UNCHANGED <<lruList, offloadVars, requestVars, kept>>

\* The request is over and its metadata is dropped.
DropRequest ==
    /\ phase \in {"idle", "returned"}
    /\ phase' = "idle"
    /\ batch' = <<>> /\ total' = Zero /\ hostHit' = Zero /\ kept' = Zero
    /\ at' = 1 /\ cursor' = 1
    /\ pageIndices' = NoList
-----------------------------------------------------------------------------
(***************************************************************************)
(* Offloading: which users, the slice of pages each one sends, and the     *)
(* lock that should keep those pages in place meanwhile.                   *)
(***************************************************************************)
Pending(u) == EndPos(u) - offloadedLen[u]

\* check_for_offload: the users of the batch with a chunk to offload, then
\* others from the oldest on.  The test that ends the walk is evaluated in
\* unsigned arithmetic, so a negative sum also ends it.
CheckForOffload(users) ==
    LET first == Only(users, {u \in User : Pending(u) >= ChunkSize})
        pages[n \in 0..Len(users)] ==
            IF n = 0 THEN 0 ELSE pages[n - 1] + Pending(users[n]) \div PageSize
        Stop(n) == LET s == totalOffloaded + n + Cardinality(emptyPages)
                   IN  s < 0 \/ s > BufferPages
        Visit(acc, u) ==
            LET n == acc.pages + Pending(u) \div PageSize
            IN  IF acc.stop \/ Stop(acc.pages) THEN [acc EXCEPT !.stop = TRUE]
                ELSE IF Contains(first, u) \/ offloadedLen[u] < startPos[u]
                          \/ Pending(u) < ChunkSize THEN acc
                ELSE IF n > MaxOffloadPages THEN [acc EXCEPT !.stop = TRUE]
                ELSE [acc EXCEPT !.pages = n, !.users = Append(@, u)]
        walk[n \in 0..Len(lruList)] ==
            IF n = 0 THEN [stop |-> FALSE, pages |-> pages[Len(users)], users |-> first]
            ELSE Visit(walk[n - 1], lruList[n])
    IN  walk[Len(lruList)].users

\* Mutant: a partial page is sent.
SliceLenRoundedUp(u, lens) == Pages(EndPos(u) - lens[u])

\* acquire_offload_pages(users, lengths): the offloaded length is taken from
\* the host; a user with a chunk to send gets a slice of its page list.
SliceStart(u, lens) == (lens[u] - startPos[u]) \div PageSize
SliceLen(u, lens) == (EndPos(u) - lens[u]) \div PageSize
Acquires(u, lens) == EndPos(u) - lens[u] >= ChunkSize
Slice(u, lens) == [i \in 1..SliceLen(u, lens) |->
                      LET j == SliceStart(u, lens) + i
                      IN  IF j \in 1..Len(pageIds[u]) THEN pageIds[u][j] ELSE NoPage]

\* released: the users unlocked again by the same call of the backend.
AcquireOffloadPages(users, lens, released) ==
    /\ phase \in {"idle", "returned"}
    /\ offloadedLen' = [u \in User |-> IF u \in users THEN lens[u] ELSE offloadedLen[u]]
    /\ offloadLock' = [u \in User |-> IF u \in users \ released
                                      THEN offloadLock[u] + 1 ELSE offloadLock[u]]
    /\ UNCHANGED <<history, tableVars, totalOffloaded>>

\* release_offload_pages for the users of one task: done are those whose
\* offload succeeded, ends the offloaded length each then has.
ReleaseOffloadPages(users, done, ends) ==
    LET held == {u \in users : Locked(u)}
        moved == held \cap done
        Gain(u) == Positive((ends[u] - startPos[u]) \div PageSize) - OffloadedPages(u)
    IN  /\ offloadLock' = [u \in User |-> IF u \in held THEN offloadLock[u] - 1
                                                       ELSE offloadLock[u]]
        /\ offloadedLen' = [u \in User |-> IF u \in moved THEN ends[u]
                                           ELSE offloadedLen[u]]
        /\ totalOffloaded' = totalOffloaded + MapThenSumSet(Gain, moved)
        /\ UNCHANGED <<history, tableVars>>
-----------------------------------------------------------------------------
(***************************************************************************)
(* The page table under every caller that passes what the host storage can *)
(* answer: a request's total length covers its user's history, and lengths *)
(* said to be on the host are within that history.                         *)
(***************************************************************************)
Quiet == phase \in {"idle", "returned"}
WithinHistory(us, lens) == \A u \in us : lens[u] <= history[u]
requestRest == <<requestVars, phase, kept, at, cursor, pageIndices>>

CallAllocate ==
    /\ phase = "idle" /\ phase' = "reconcile"
    /\ \E b \in Batch : \E tot, hit \in [User -> Lengths] :
          /\ \A u \in Range(b) : tot[u] > 0 /\ history[u] <= tot[u]
          /\ WithinHistory(Range(b), hit)
          /\ AllocateCall(b, tot, hit)

EndRequest == DropRequest /\ UNCHANGED <<history, tableVars, offloadVars>>

CallAcquire ==
    /\ Quiet
    /\ DropRequest
    /\ \E users, released \in SUBSET User : \E lens \in [User -> Lengths] :
          /\ WithinHistory(users, lens)
          /\ AcquireOffloadPages(users, lens, released)

CallRelease ==
    /\ Quiet
    /\ UNCHANGED requestRest
    /\ \E users, done \in SUBSET User : \E ends \in [User -> Lengths] :
          /\ WithinHistory(users, ends)
          /\ ReleaseOffloadPages(users, done, ends)

CallEvict ==
    /\ phase = "idle"
    /\ \/ (\E u \in User : Evict(u)) /\ UNCHANGED offloadLock
       \/ EvictAll
    /\ UNCHANGED <<history, requestRest>>

GPUNext ==
    \/ CallAllocate
    \/ Reconcile \/ RetainStep \/ EvictOffloadedStep \/ EvictUserStep \/ TakePages
    \/ EndRequest \/ CallAcquire \/ CallRelease \/ CallEvict

GPUSpec == GPUInit /\ [][GPUNext]_gpuVars
-----------------------------------------------------------------------------
(***************************************************************************)
(* Properties                                                              *)
(***************************************************************************)
\* Types of the page table's state (gpu_kvcache_manager_impl.h, 108-126).
GPUTypeOK ==
    /\ history \in [User -> Lengths]
    /\ emptyPages \subseteq Page
    /\ lruList \in Seq(User)
    /\ pageIds \in [User -> Seq(Page)]
    /\ startPos \in [User -> Nat] /\ cachedLen \in [User -> Nat]
    /\ offloadedLen \in [User -> Nat] /\ offloadLock \in [User -> Nat]
    /\ phase \in Phases
    /\ batch \in Seq(User) /\ at \in Nat /\ cursor \in Nat \ {0}
    /\ total \in [User -> Lengths] /\ hostHit \in [User -> Lengths]
    /\ kept \in [User -> Nat]
    /\ pageIndices \in [User -> Seq(Page)]

\* No page is lost and none is given twice: every page is either free or in
\* exactly one place of one user's page list, through every eviction path of
\* allocate() and evict (gpu_kvcache_manager_impl.cpp, 120-160 and 236-280).
PagePartition ==
    /\ \A u \in User : \A i \in 1..Len(pageIds[u]) : pageIds[u][i] \notin emptyPages
    /\ \A u, v \in User : \A i \in 1..Len(pageIds[u]), j \in 1..Len(pageIds[v]) :
          pageIds[u][i] = pageIds[v][j] => u = v /\ i = j
    /\ \A p \in Page : p \in emptyPages
                       \/ \E u \in User : \E i \in 1..Len(pageIds[u]) : pageIds[u][i] = p

\* The assertion left in a comment of alloc_single_sequence (lines 226-227):
\* a page list has exactly the pages its cached tokens need.  Those tokens
\* start at a page boundary (line 217) and end where the history ends.
PageListsMatchLengths ==
    \A u \in User :
        /\ Len(pageIds[u]) = Pages(cachedLen[u])
        /\ startPos[u] % PageSize = 0
        /\ IF cachedLen[u] = 0 THEN startPos[u] = 0 ELSE EndPos(u) = history[u]

\* _lru_list names each cached user once and nobody else, so whatever holds
\* pages can be evicted; the user being allocated is there before its pages.
LruListsCachedUsers ==
    /\ IsInjective(lruList)
    /\ \A u \in User : cachedLen[u] > 0 => Contains(lruList, u)
    /\ \A u \in User : Contains(lruList, u) =>
          cachedLen[u] > 0 \/ (phase \in {"room", "undefined"} /\ u = batch[at])

\* What was offloaded is part of the history, so evict_offloaded never erases
\* more pages than the list has (lines 142-154).
OffloadedWithinHistory == \A u \in User : offloadedLen[u] <= history[u]

\* The request under way: its users are distinct, its total lengths cover
\* their histories and what it was told the host holds lies within them; the
\* user being served is in _lru_list until its page list is built.
RequestSound ==
    phase # "idle" =>
        /\ at \in 1..Len(batch)
        /\ IsInjective(batch)
        /\ \A i \in 1..Len(batch) : /\ total[batch[i]] > 0
                                    /\ history[batch[i]] <= total[batch[i]]
                                    /\ hostHit[batch[i]] <= history[batch[i]]
        /\ phase = "room" => Contains(lruList, batch[at])

\* The inductive invariant of the page table: the properties above support
\* one another, and need the request to be sound.
GPUInv ==
    /\ GPUTypeOK /\ RequestSound
    /\ PagePartition /\ PageListsMatchLengths /\ LruListsCachedUsers /\ OffloadedWithinHistory
=============================================================================
