---------------------------- MODULE KVCacheParams ----------------------------
(***************************************************************************)
(* Parameters shared by the two tiers of the KV cache, and the arithmetic  *)
(* on pages and chunks (KVCacheConfig and the constructors of              *)
(* GPUKVCacheManagerImpl and HostKVStorageImpl).                           *)
(***************************************************************************)
EXTENDS Integers, Sequences, FiniteSets, SequencesExt, Functions, SeqSelect

CONSTANTS
    User,          \* user ids
    Page,          \* GPU page ids, 0 .. num_primary_cache_pages - 1
    NoPage,        \* what a read outside a page list yields
    Chunk,         \* unit chunks of the pinned host buffer
    PageSize,      \* num_tokens_per_page
    ChunkSize,     \* num_tokens_per_chunk
    BufferPages,   \* num_buffer_pages
    MaxBatch,      \* max_batch_size
    MaxHistory     \* max_sequence_length

ASSUME PageSizeAssumption  == PageSize \in Nat \ {0}
ASSUME ChunkSizeAssumption == ChunkSize \in Nat \ {0} /\ ChunkSize % PageSize = 0
ASSUME BoundsAssumption    == /\ MaxBatch \in Nat \ {0}
                              /\ MaxHistory \in Nat \ {0}
                              /\ BufferPages \in Nat
ASSUME NoPageAssumption    == NoPage \notin Page

PagesPerChunk == ChunkSize \div PageSize    \* num_pages_per_chunk
MaxOffloadPages == MaxBatch * ((MaxHistory + PageSize - 1) \div PageSize)

Lengths == 0 .. MaxHistory
Batch == {b \in UNION {[1..n -> User] : n \in 1..MaxBatch} : IsInjective(b)}
Zero == [u \in User |-> 0]
NoList == [u \in User |-> <<>>]

Pages(n) == (n + PageSize - 1) \div PageSize
Positive(n) == IF n > 0 THEN n ELSE 0
=============================================================================
