--------------------------- MODULE EmbeddingTiers ---------------------------
(***************************************************************************)
(* The tiers of one DynamicEmb table in caching mode: a GPU cache in front *)
(* of a storage, a queue of prefetched batches, and the training steps     *)
(* that use them.  A row of the cache is pinned by a reference counter     *)
(* from the prefetch of a batch to the end of its backward pass; a prefetch *)
(* may evict only rows that nobody pins, and writes them back.             *)
(*                                                                         *)
(* Prefetches run on a stream of their own (Overlap) or on the stream of   *)
(* the training step.  The counter kernels read a counter and then write   *)
(* it, without an atomic; each is two steps here.  A value is the number   *)
(* of optimizer updates it has received, so that a lost update shows.      *)
(***************************************************************************)
EXTENDS Integers, FiniteSets, Sequences, SequencesExt

CONSTANTS
  Key,           \* embedding indices: a finite set of positive integers
  NumBuckets,    \* buckets of the cache's hash table
  BucketCap,     \* bucket_capacity
  Home,          \* Home[k]: the bucket key k hashes to
  Batch,         \* the batches, as sets of unique keys
  Threshold,     \* of FrequencyAdmissionStrategy
  Overlap,       \* prefetches have a stream of their own
  Loaded,        \* the keys the storage starts with
  Depth,         \* bound: prefetched batches in the queue
  MaxBatches     \* bound: calls of prefetch

ASSUME TiersAssumption ==
  /\ Key \subseteq Nat \ {0} /\ IsFiniteSet(Key)
  /\ NumBuckets \in Nat \ {0} /\ BucketCap \in Nat \ {0}
  /\ Home \in [Key -> 1..NumBuckets]
  /\ Batch \subseteq SUBSET Key
  /\ Threshold \in Nat /\ Depth \in Nat /\ MaxBatches \in Nat
  /\ Overlap \in BOOLEAN /\ Loaded \subseteq Key

NoKey == 0
NoSlot == 0
Junk == -1       \* what torch.empty holds
Absent == -2     \* no value in the storage

Capacity == NumBuckets * BucketCap
Main(b) == ((b - 1) * BucketCap + 1)..(b * BucketCap)
Overflow == (Capacity + 1)..(Capacity + 3 * BucketCap)
Slot == 1..(Capacity + 3 * BucketCap)

VARIABLES
  cached,        \* the key of every slot of the cache
  row,           \* the value in every slot
  pins,          \* _ref_counter
  stored,        \* the values in the storage
  seen,          \* admission counters
  outstanding,   \* _prefetch_outstanding_keys
  queue,         \* _prefetch_states: the slots of each prefetched batch
  call,          \* the prefetch the host is in: none, or one
  pinning,       \* counter kernel still queued on the prefetch stream
  grads,         \* batches between forward and backward
  work,          \* backward passes on the training stream
  issued,        \* calls of prefetch so far
  trained        \* history: updates applied to each key
vars == <<cached, row, pins, stored, seen, outstanding, queue, call, pinning,
          grads, work, issued, trained>>
tables == <<cached, row, stored, seen, trained>>

Init ==
  /\ cached = [s \in Slot |-> NoKey] /\ row = [s \in Slot |-> Junk]
  /\ pins = [s \in Slot |-> 0]
  /\ stored = [k \in Key |-> IF k \in Loaded THEN 0 ELSE Absent]
  /\ seen = [k \in Key |-> 0]
  /\ outstanding = 0 /\ queue = <<>> /\ call = <<>> /\ pinning = <<>>
  /\ grads = <<>> /\ work = <<>> /\ issued = 0
  /\ trained = [k \in Key |-> 0]

Slots(batch) == {batch[k] : k \in DOMAIN batch} \ {NoSlot}

\* cache.lookup: the slot of k in its bucket, else in the overflow slots.
Found(k) == {s \in Main(Home[k]) \cup Overflow : cached[s] = k}

\* The guard of dynamicemb_prefetch on the keys prefetched and not forwarded.
Fits(keys) == outstanding + Cardinality(keys) <= Capacity

\* The host may use the prefetch stream: its last counter kernel precedes; on
\* one stream so does the whole training step.
PrefetchStreamFree == pinning = <<>> /\ (Overlap \/ work = <<>>)

\* In the pipeline's progress() the next batch is prefetched between the forward
\* and the backward of the current one, except the first.
PrefetchTurn == Overlap => issued = 0 \/ grads # <<>>

\* prefetch, first part: the lookup of the batch in the cache.
Prefetch(keys) ==
  /\ call = <<>> /\ issued < MaxBatches /\ Len(queue) < Depth
  /\ PrefetchStreamFree /\ PrefetchTurn
  /\ Fits(keys)
  /\ outstanding' = outstanding + Cardinality(keys)
  /\ issued' = issued + 1
  /\ LET found == [k \in {j \in keys : Found(j) # {}} |-> CHOOSE s \in Found(k) : TRUE]
     IN  call' = <<[keys |-> keys, found |-> found, read |-> <<>>, step |-> "found"]>>
  /\ UNCHANGED <<tables, pins, queue, pinning, grads, work>>

\* The guard raises; the keys it counted stay counted.
PrefetchRaises(keys) ==
  /\ call = <<>> /\ issued < MaxBatches /\ Len(queue) < Depth
  /\ PrefetchTurn /\ ~Fits(keys)
  /\ outstanding' = outstanding + Cardinality(keys)
  /\ issued' = issued + 1
  /\ UNCHANGED <<tables, pins, queue, call, pinning, grads, work>>

\* What a counter kernel writes to the slots it read, given what it read.
Add(delta, read) == [s \in Slot |-> IF s \in DOMAIN read THEN read[s] + delta ELSE pins[s]]

\* increment_counter(found_slots): before anything can be evicted.
PinHitsRead ==
  /\ call # <<>> /\ call[1].step = "found"
  /\ call' = <<[call[1] EXCEPT !.step = "read",
                               !.read = [s \in Slots(call[1].found) |-> pins[s]]]>>
  /\ UNCHANGED <<tables, pins, outstanding, queue, pinning, grads, work, issued>>

PinHitsWrite ==
  /\ call # <<>> /\ call[1].step = "read"
  /\ pins' = Add(1, call[1].read)
  /\ call' = <<[call[1] EXCEPT !.step = "pinned"]>>
  /\ UNCHANGED <<tables, outstanding, queue, pinning, grads, work, issued>>

Missed == call[1].keys \ DOMAIN call[1].found
InStorage == {k \in Missed : stored[k] # Absent}
\* _apply_admission: a new key is admitted when its counter reaches the threshold.
Admitted == {k \in Missed \ InStorage : seen[k] + 1 >= Threshold}

Taken(place, keys) == {place[k] : k \in keys} \ {NoSlot}

\* Mutant: the victim's counter is not looked at.
MayTakeAny(s) == cached[s] # NoKey \/ cached[s] = NoKey
\* A slot an insertion may take: empty, or with no pin (the overflow scan asks
\* for a counter of exactly zero).
MayTake(s) == cached[s] = NoKey \/ pins[s] = 0 \/ (s <= Capacity /\ pins[s] < 0)

\* Where the threads of insert_and_evict may put the keys.  A slot taken stays
\* locked to the end of the kernel.  A key prefers an empty slot of its bucket,
\* then an unpinned one, then the overflow slots, and is Busy (NoSlot) when all
\* are pinned or taken.
Placements(keys) ==
  {place \in [keys -> Slot \cup {NoSlot}] :
     /\ \A k \in keys : place[k] # NoSlot =>
          /\ place[k] \in Main(Home[k]) \cup Overflow /\ MayTake(place[k])
          /\ \A j \in keys \ {k} : place[j] # place[k]
     /\ \A k \in keys : place[k] \notin Main(Home[k]) =>
          \A s \in Main(Home[k]) : ~MayTake(s) \/ s \in Taken(place, keys)
     /\ \A k \in keys : place[k] \in Main(Home[k]) /\ cached[place[k]] # NoKey =>
          \A s \in Main(Home[k]) : cached[s] = NoKey => s \in Taken(place, keys)
     /\ \A k \in keys : place[k] = NoSlot =>
          \A s \in Overflow : ~MayTake(s) \/ s \in Taken(place, keys)}

\* Mutant: the evicted values are loaded after their slots are overwritten.
WriteBackLate(place) ==
  LET evicted == {cached[s] : s \in Slots(place)} \ {NoKey}
      heir(e) == CHOOSE k \in DOMAIN place : place[k] # NoSlot /\ cached[place[k]] = e
  IN  [k \in Key |->
         CASE k \in evicted -> IF stored[heir(k)] = Absent THEN 0 ELSE stored[heir(k)]
           [] k \in DOMAIN place /\ place[k] = NoSlot -> Junk
           [] OTHER -> stored[k]]
\* The storage after the write-back: evicted keys with the values loaded from
\* their slots.  A Busy key is listed as evicted with a negative index, for
\* which load_from_flat leaves its buffer as allocated.
WriteBack(place) ==
  [k \in Key |->
     IF \E s \in Slots(place) : cached[s] = k
       THEN row[CHOOSE s \in Slots(place) : cached[s] = k]
     ELSE IF k \in DOMAIN place /\ place[k] = NoSlot THEN Junk
     ELSE stored[k]]

\* prefetch, second part: the misses.  Read from the storage, admit, insert and
\* evict, fill the rows, write back; the counters follow in the stream.
Insert ==
  /\ call # <<>> /\ call[1].step = "pinned"
  /\ seen' = [k \in Key |-> IF k \in Admitted THEN 0
                            ELSE IF k \in Missed \ InStorage THEN seen[k] + 1
                            ELSE seen[k]]
  /\ \E place \in Placements(InStorage \cup Admitted) :
       LET owner(s) == {k \in DOMAIN place : place[k] = s}
       IN  /\ cached' = [s \in Slot |-> IF owner(s) = {} THEN cached[s]
                                        ELSE CHOOSE k \in owner(s) : TRUE]
           /\ row' = [s \in Slot |->
                IF owner(s) = {} THEN row[s]
                ELSE IF owner(s) \subseteq Admitted THEN 0
                ELSE stored[CHOOSE k \in owner(s) : TRUE]]
           /\ stored' = WriteBack(place)
           /\ pinning' = IF DOMAIN place = {} THEN <<>>
                         ELSE <<[n |-> issued, slots |-> Slots(place), read |-> <<>>]>>
           /\ queue' = Append(queue, [k \in call[1].keys |->
                IF k \in DOMAIN call[1].found THEN call[1].found[k]
                ELSE IF k \in DOMAIN place THEN place[k] ELSE NoSlot])
  /\ call' = <<>>
  /\ UNCHANGED <<pins, outstanding, grads, work, issued, trained>>

\* increment_counter(cache_insert_indices), a kernel the host does not wait for.
PinInsertedRead ==
  /\ pinning # <<>> /\ pinning[1].read = <<>> /\ pinning[1].slots # {}
  /\ pinning' = <<[pinning[1] EXCEPT !.read = [s \in pinning[1].slots |-> pins[s]]]>>
  /\ UNCHANGED <<tables, pins, outstanding, queue, call, grads, work, issued>>

PinInsertedWrite ==
  /\ pinning # <<>> /\ DOMAIN pinning[1].read = pinning[1].slots
  /\ pins' = Add(1, pinning[1].read)
  /\ pinning' = <<>>
  /\ UNCHANGED <<tables, outstanding, queue, call, grads, work, issued>>

\* forward: the oldest prefetched batch is popped and no longer outstanding.
Forward ==
  /\ call = <<>> /\ queue # <<>> /\ grads = <<>>
  /\ outstanding' = outstanding - Cardinality(DOMAIN Head(queue))
  /\ queue' = Tail(queue)
  /\ grads' = <<Head(queue)>>
  /\ UNCHANGED <<tables, pins, call, pinning, work, issued>>

\* backward, called by the host: the pass is queued behind what both streams
\* hold now (the pipeline waits for the prefetch stream first).
Backward ==
  /\ call = <<>> /\ grads # <<>>
  /\ work' = Append(work, [batch |-> grads[1], after |-> issued, step |-> "update",
                           read |-> <<>>])
  /\ grads' = <<>>
  /\ UNCHANGED <<tables, pins, outstanding, queue, call, pinning, issued>>

\* The prefetch stream has finished what the head of work waits for.
Reached == \A i \in DOMAIN pinning : pinning[i].n > Head(work).after

Stepped(step, read) == [work EXCEPT ![1].step = step, ![1].read = read]

\* The optimizer updates the rows of the batch in place.
Update ==
  /\ work # <<>> /\ Head(work).step = "update" /\ Reached
  /\ LET batch == Head(work).batch
     IN  /\ row' = [s \in Slot |-> IF s \in Slots(batch) /\ row[s] # Junk
                                   THEN row[s] + 1 ELSE row[s]]
         /\ trained' = [k \in Key |-> IF k \in DOMAIN batch /\ batch[k] # NoSlot
                                      THEN trained[k] + 1 ELSE trained[k]]
  /\ work' = Stepped("unpin", <<>>)
  /\ UNCHANGED <<cached, pins, stored, seen, outstanding, queue, call, pinning, grads, issued>>

\* decrement_counter(update_slot_indices).
UnpinRead ==
  /\ work # <<>> /\ Head(work).step = "unpin"
  /\ work' = Stepped("write", [s \in Slots(Head(work).batch) |-> pins[s]])
  /\ UNCHANGED <<tables, pins, outstanding, queue, call, pinning, grads, issued>>

\* Mutant: the backward pass leaves its pins.
UnpinWriteNot ==
  /\ work # <<>> /\ Head(work).step = "write"
  /\ work' = Tail(work)
  /\ UNCHANGED <<tables, pins, outstanding, queue, call, pinning, grads, issued>>
UnpinWrite ==
  /\ work # <<>> /\ Head(work).step = "write"
  /\ pins' = Add(-1, Head(work).read)
  /\ work' = Tail(work)
  /\ UNCHANGED <<tables, outstanding, queue, call, pinning, grads, issued>>

\* flush_cache: every cached row, the overflow slots included, to the storage.
Flush ==
  /\ call = <<>> /\ work = <<>>
  /\ \E s \in Slot : cached[s] # NoKey /\ row[s] # stored[cached[s]]
  /\ stored' = [k \in Key |-> IF \E s \in Slot : cached[s] = k
                              THEN row[CHOOSE s \in Slot : cached[s] = k] ELSE stored[k]]
  /\ UNCHANGED <<cached, row, pins, seen, outstanding, queue, call, pinning, grads, work,
                 issued, trained>>

\* reset_cache_states, called as its callers do: after flush, with no batch in
\* flight.
ResetCacheStates ==
  /\ call = <<>> /\ work = <<>> /\ queue = <<>> /\ grads = <<>> /\ pinning = <<>>
  /\ \E s \in Slot : cached[s] # NoKey
  /\ \A s \in Slot : cached[s] # NoKey => row[s] = stored[cached[s]]
  /\ cached' = [s \in Slot |-> NoKey]
  /\ pins' = [s \in Slot |-> 0]
  /\ outstanding' = 0
  /\ UNCHANGED <<row, stored, seen, queue, call, pinning, grads, work, issued, trained>>

Next ==
  \/ \E keys \in Batch : Prefetch(keys) \/ PrefetchRaises(keys)
  \/ PinHitsRead \/ PinHitsWrite \/ Insert \/ PinInsertedRead \/ PinInsertedWrite
  \/ Forward \/ Backward
  \/ Update \/ UnpinRead \/ UnpinWrite
  \/ Flush \/ ResetCacheStates

Spec == Init /\ [][Next]_vars

-----------------------------------------------------------------------------
\* The batches that hold slots: prefetched, forwarded, or in a backward pass
\* whose decrement has not been written.
InFlight == queue \o grads \o [i \in DOMAIN work |-> work[i].batch]

\* A row that a prefetched batch will read and update stays its own: from the
\* prefetch to the end of the backward pass (the reference counters of the
\* cache) no other prefetch evicts it or gives its slot to another key.
HeldRowsStay ==
  \A i \in DOMAIN InFlight : \A k \in DOMAIN InFlight[i] :
    InFlight[i][k] # NoSlot => cached[InFlight[i][k]] = k

\* The counter of a slot is the number of batches in flight that use it: a pin
\* too many is never evicted again, one too few is evicted in use.
PinsMatch ==
  \A s \in Slot :
    pins[s] = Cardinality({i \in DOMAIN InFlight : s \in Slots(InFlight[i])})
              + Cardinality({i \in DOMAIN call : call[i].step = "pinned" /\ s \in Slots(call[i].found)})
              - Cardinality({i \in DOMAIN pinning : s \in pinning[i].slots})

\* The value a lookup finds, in the cache or else in the storage.
Current(k) ==
  IF \E s \in Slot : cached[s] = k THEN row[CHOOSE s \in Slot : cached[s] = k]
  ELSE IF stored[k] = Absent THEN 0 ELSE stored[k]

\* Whatever was evicted, written back, flushed, reset and fetched again, a key's
\* value has received every optimizer update applied to the key, once.  A prefetch
\* that finds no slot for a key breaks it: the guard on outstanding keys and the
\* overflow slots must leave room for one batch between its forward and the end
\* of its backward.
NoUpdateLost == \A k \in Key : Current(k) = trained[k]

=============================================================================
