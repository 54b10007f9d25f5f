---------------------------- MODULE HostKVStorage ----------------------------
(***************************************************************************)
(* The pinned-memory tier: HostKVStorageImpl in                            *)
(* corelib/recsys_kvcache_manager/src/native_host_kvcache_manager_impl.cpp *)
(* and its Python wrapper NativeHostKVStorage.                             *)
(*                                                                         *)
(* The buffer is a pool of unit chunks.  _empty_chunks and _uid_to_chunks  *)
(* keep runs of adjacent unit chunks; only their unit chunks and the order *)
(* within a user matter here, so a run is written as the list of its unit  *)
(* chunks.  A user's data is always the prefix [0, hostLen) of its history *)
(* laid out page by page over its chunks.                                  *)
(*                                                                         *)
(* A handle (KVOffloadHandle) is a launched offload: the users it carries, *)
(* where each one starts, the GPU pages to read and the chunks to write.   *)
(***************************************************************************)
EXTENDS KVCacheParams

VARIABLES
    emptyChunks,   \* _empty_chunks
    hostChunks,    \* _uid_to_chunks
    hostLen,       \* _uid_to_length
    hostLru        \* _lru_list, most recently used first

hostVars == <<emptyChunks, hostChunks, hostLen, hostLru>>

HostInit ==
    /\ emptyChunks = Chunk
    /\ hostChunks = NoList
    /\ hostLen = Zero
    /\ hostLru = <<>>
-----------------------------------------------------------------------------
(***************************************************************************)
(* get_empty_pinned_chunks: room for a whole batch of users or for none.   *)
(***************************************************************************)
\* Pages of the user's last chunk already in use when it starts at pos.
UsedPages(pos) == (pos % ChunkSize) \div PageSize
Unaligned(pos) == pos % ChunkSize # 0

\* Unit chunks to take from the pool for n pages that start at pos.
FreshChunks(pos, n) ==
    LET used == IF UsedPages(pos) = 0 THEN PagesPerChunk ELSE UsedPages(pos)
    IN  (n + used - 1) \div PagesPerChunk

\* Users that may be evicted for the batch, the least recently used first.
Victims(users) == Without(Reverse(hostLru), Range(users))
ChunksOf(us) == UNION {Range(hostChunks[u]) : u \in us}
FirstOf(s, n) == {s[i] : i \in 1..n}

RoomWith(needed, victims) ==
    needed <= Cardinality(emptyChunks) + Cardinality(ChunksOf(victims))

\* The shortest prefix of the candidates that makes room, if there is one.
EvictionPlans(users, needed) ==
    LET cand == Victims(users)
    IN  {FirstOf(cand, n) : n \in
            {n \in 0..Len(cand) : /\ RoomWith(needed, FirstOf(cand, n))
                                  /\ \A m \in 0..(n-1) : ~RoomWith(needed, FirstOf(cand, m))}}

Needed(users, start, pages) ==
    FoldLeft(LAMBDA n, u : n + FreshChunks(start[u], Len(pages[u])), 0, users)

\* The fresh chunks of a batch, one list per user: distinct chunks of pool.
FreshLists(users, start, pages, pool) ==
    LET Count(u) == IF Contains(users, u) THEN FreshChunks(start[u], Len(pages[u])) ELSE 0
        slots == UNION {{u} \X (1..Count(u)) : u \in User}
    IN  {[u \in User |-> [i \in 1..Count(u) |-> take[<<u, i>>]]] :
            take \in Injection(slots, pool)}

\* The chunks a handle writes for u: the user's last one first when the
\* data continues in the middle of it.
Written(u, start, fresh) ==
    IF Unaligned(start[u]) THEN <<Last(hostChunks[u])>> \o fresh[u] ELSE fresh[u]

\* offload_kvcache: what the launch does to the pool; fails with no effect.
LaunchFails(users, start, pages) ==
    EvictionPlans(users, Needed(users, start, pages)) = {}

LaunchOffload(users, start, pages, fresh) ==
    \E evicted \in EvictionPlans(users, Needed(users, start, pages)) :
        LET pool == emptyChunks \cup ChunksOf(evicted)
        IN  /\ fresh \in FreshLists(users, start, pages, pool)
            /\ emptyChunks' = pool \ UNION {Range(fresh[u]) : u \in User}
            /\ hostChunks' = [u \in User |-> IF u \in evicted THEN <<>> ELSE hostChunks[u]]
            /\ hostLen' = [u \in User |-> IF u \in evicted THEN 0 ELSE hostLen[u]]
            /\ hostLru' = Without(hostLru, evicted)
-----------------------------------------------------------------------------
\* Mutant: the offload's own start is forgotten.
OffloadEndFromZero(h, u) == Len(h.pages[u]) * PageSize
HandleUsers(h) == Range(h.users)
OffloadEnd(h, u) == h.start[u] + Len(h.pages[u]) * PageSize

\* Mutant: a stale offload is accepted.
FinishesAll(h) == HandleUsers(h)

\* finish_offload: a user is extended when the host still ends where the
\* offload began, else its fresh chunks go back to the pool.
FinishedUsers(h) == {u \in HandleUsers(h) : h.start[u] = hostLen[u]}

FinishOffload(h) ==
    LET done == FinishedUsers(h)
        kept == Only(h.users, done)
    IN  /\ emptyChunks' = emptyChunks \cup
                UNION {Range(h.fresh[u]) : u \in HandleUsers(h) \ done}
        /\ hostChunks' = [u \in User |-> IF u \in done THEN hostChunks[u] \o h.fresh[u]
                                         ELSE hostChunks[u]]
        /\ hostLen' = [u \in User |-> IF u \in done THEN OffloadEnd(h, u) ELSE hostLen[u]]
        /\ hostLru' = Reverse(kept) \o Without(hostLru, done)

\* Mutant: the chunks of a cancelled offload are lost.
CancelLosesChunks(h) == UNCHANGED <<emptyChunks, hostChunks, hostLen, hostLru>>

\* cancel_offload: the fresh chunks go back; the launched copies are not undone.
CancelOffload(h) ==
    /\ emptyChunks' = emptyChunks \cup UNION {Range(h.fresh[u]) : u \in HandleUsers(h)}
    /\ UNCHANGED <<hostChunks, hostLen, hostLru>>

\* Mutant: the chunk list of the evicted user stays.
HostEvictKeepsChunks(u) ==
    /\ emptyChunks' = emptyChunks \cup Range(hostChunks[u])
    /\ hostLen' = [hostLen EXCEPT ![u] = 0]
    /\ hostLru' = IF hostChunks[u] = <<>> THEN hostLru ELSE Without(hostLru, {u})
    /\ UNCHANGED hostChunks

\* evict(uid): a user without chunks keeps its place in _lru_list, unless a
\* launch that failed has since given it an empty entry in _uid_to_chunks.
HostEvict(u) ==
    /\ emptyChunks' = emptyChunks \cup Range(hostChunks[u])
    /\ hostChunks' = [hostChunks EXCEPT ![u] = <<>>]
    /\ hostLen' = [hostLen EXCEPT ![u] = 0]
    /\ hostLru' \in {Without(hostLru, {u})} \cup (IF hostChunks[u] = <<>> THEN {hostLru} ELSE {})

\* evict_all(): the users stay in _lru_list.
HostEvictAll ==
    /\ emptyChunks' = Chunk
    /\ hostChunks' = NoList
    /\ hostLen' = Zero
    /\ UNCHANGED hostLru
=============================================================================
