------------------------ MODULE EmbeddingTiersProofs ------------------------
(***************************************************************************)
(* Theorems about the DynamicEmb cache with prefetch and training on one   *)
(* stream (~Overlap): the reference counters are exact, a row in use is    *)
(* not evicted, and no update is lost as long as every key finds a slot.   *)
(***************************************************************************)
EXTENDS EmbeddingTiers, FiniteSetTheorems, FunctionTheorems, SequenceTheorems, TLAPS

SlotMap == UNION {[K -> Slot \cup {NoSlot}] : K \in SUBSET Key}
Reading == UNION {[S -> Int] : S \in SUBSET Slot}
Pass == [batch : SlotMap, after : Nat, step : {"update", "unpin", "write"}, read : Reading]
PrefetchCall == [keys : SUBSET Key, found : SlotMap, read : Reading,
                 step : {"found", "read", "pinned"}]
Kernel == [n : Nat, slots : SUBSET Slot, read : Reading]

\* The state is well typed; the host is in one prefetch at most, one batch is
\* between forward and backward, one counter kernel is queued.
TypeOK ==
  /\ cached \in [Slot -> Key \cup {NoKey}]
  /\ pins \in [Slot -> Int]
  /\ issued \in Nat
  /\ queue \in Seq(SlotMap)
  /\ grads \in Seq(SlotMap) /\ Len(grads) <= 1
  /\ work \in Seq(Pass)
  /\ call \in Seq(PrefetchCall) /\ Len(call) <= 1
  /\ pinning \in Seq(Kernel) /\ Len(pinning) <= 1

\* On one stream the counter kernels of a prefetch and of a backward pass
\* exclude each other.
OneAtATime ==
  /\ call # <<>> => work = <<>> /\ pinning = <<>>
  /\ \A i \in DOMAIN work : i # 1 => work[i].step = "update"
  /\ pinning # <<>> =>
       /\ pinning[1].n <= issued
       /\ \A i \in DOMAIN work : work[i].step = "update" /\ work[i].after >= pinning[1].n

\* What a counter kernel has read is what the counters are.
Fresh(slots, read) == read = [s \in slots |-> pins[s]]
ReadsFresh ==
  /\ call # <<>> /\ call[1].step = "read" => Fresh(Slots(call[1].found), call[1].read)
  /\ pinning # <<>> => pinning[1].read = <<>> \/ Fresh(pinning[1].slots, pinning[1].read)
  /\ work # <<>> /\ work[1].step = "write" => Fresh(Slots(work[1].batch), work[1].read)

\* The slots of a batch hold the keys of the batch.
Holds(c, batch) == \A k \in DOMAIN batch : batch[k] # NoSlot => c[batch[k]] = k
HeldOK ==
  /\ \A i \in DOMAIN queue : Holds(cached, queue[i])
  /\ \A i \in DOMAIN grads : Holds(cached, grads[i])
  /\ \A i \in DOMAIN work : Holds(cached, work[i].batch)
  /\ call # <<>> => /\ Holds(cached, call[1].found)
                    /\ \A k \in DOMAIN call[1].found : call[1].found[k] # NoSlot
                    /\ DOMAIN call[1].found \subseteq call[1].keys

Using(s) == {b \in SlotMap : s \in Slots(b)}
Count(q, S) == Cardinality({i \in DOMAIN q : q[i] \in S})
Batches(w) == [i \in DOMAIN w |-> w[i].batch]
Pinned(s) == IF call # <<>> /\ call[1].step = "pinned" /\ s \in Slots(call[1].found) THEN 1 ELSE 0
Unpinned(s) == IF pinning # <<>> /\ s \in pinning[1].slots THEN 1 ELSE 0

\* A counter is the number of the batches in flight that use the slot.
CountersExact ==
  \A s \in Slot :
    pins[s] = Count(queue, Using(s)) + Count(grads, Using(s)) + Count(Batches(work), Using(s))
              + Pinned(s) - Unpinned(s)

TiersOK == TypeOK /\ OneAtATime /\ ReadsFresh /\ HeldOK /\ CountersExact

\* The cache holds a key once, in a slot where a lookup finds it.
CacheOK ==
  /\ \A s \in Slot : cached[s] # NoKey => s \in Main(Home[cached[s]]) \cup Overflow
  /\ \A s, t \in Slot : cached[s] # NoKey /\ cached[s] = cached[t] => s = t
  /\ call # <<>> => \A k \in call[1].keys \ DOMAIN call[1].found : \A s \in Slot : cached[s] # k

\* Every update is in the cached row or, for a key that is not cached, in the storage.
ValuesOK ==
  /\ row \in [Slot -> Int] /\ stored \in [Key -> Int] /\ trained \in [Key -> Nat]
  /\ \A s \in Slot : cached[s] # NoKey => row[s] = trained[cached[s]]
  /\ \A k \in Key : (\A s \in Slot : cached[s] # k) =>
        stored[k] = trained[k] \/ (stored[k] = Absent /\ trained[k] = 0)

\* Every key a prefetch inserts finds a slot.
RoomForAll ==
  call # <<>> /\ call[1].step = "pinned" =>
    \A place \in Placements(InStorage \cup Admitted) : \A k \in DOMAIN place : place[k] # NoSlot

-----------------------------------------------------------------------------
(* Counting in sequences.                                                  *)

\* The indices of a sequence with an element in S are finitely many.
LEMMA CountNat ==
  ASSUME NEW T, NEW q \in Seq(T), NEW S
  PROVE  /\ IsFiniteSet({i \in DOMAIN q : q[i] \in S})
         /\ Count(q, S) \in Nat
<1>1. DOMAIN q = 1..Len(q) /\ Len(q) \in Nat
  OBVIOUS
<1>2. IsFiniteSet(1..Len(q))
  BY <1>1, FS_Interval
<1>3. IsFiniteSet({i \in DOMAIN q : q[i] \in S})
  BY <1>1, <1>2, FS_Subset
<1> QED BY <1>3, FS_CardinalityType DEF Count

\* Concatenation adds the counts.
LEMMA CountConcat ==
  ASSUME NEW T, NEW p \in Seq(T), NEW q \in Seq(T), NEW S
  PROVE  Count(p \o q, S) = Count(p, S) + Count(q, S)
<1> DEFINE A == {i \in DOMAIN p : p[i] \in S}
           B == {i \in DOMAIN q : q[i] \in S}
           shift == [i \in B |-> i + Len(p)]
           C == {i + Len(p) : i \in B}
           U == {i \in DOMAIN (p \o q) : (p \o q)[i] \in S}
<1>1. /\ p \o q \in Seq(T) /\ Len(p) \in Nat /\ Len(q) \in Nat
      /\ Len(p \o q) = Len(p) + Len(q)
      /\ DOMAIN p = 1..Len(p) /\ DOMAIN q = 1..Len(q) /\ DOMAIN (p \o q) = 1..(Len(p) + Len(q))
  OBVIOUS
<1>2. \A i \in 1..(Len(p) + Len(q)) : (p \o q)[i] = IF i <= Len(p) THEN p[i] ELSE q[i - Len(p)]
  BY <1>1
<1>3. U = A \cup C
  <2>1. ASSUME NEW i \in U PROVE i \in A \cup C
    <3>1. i \in 1..(Len(p) + Len(q)) /\ (p \o q)[i] \in S
      BY <1>1
    <3>2. CASE i <= Len(p)
      BY <1>1, <1>2, <3>1, <3>2
    <3>3. CASE ~(i <= Len(p))
      <4>1. i - Len(p) \in 1..Len(q) /\ q[i - Len(p)] \in S /\ i = (i - Len(p)) + Len(p)
        BY <1>1, <1>2, <3>1, <3>3
      <4> QED BY <4>1, <1>1
    <3> QED BY <3>2, <3>3
  <2>2. ASSUME NEW i \in A PROVE i \in U
    BY <1>1, <1>2
  <2>3. ASSUME NEW j \in B PROVE j + Len(p) \in U
    <3>1. j \in 1..Len(q) /\ q[j] \in S
      BY <1>1
    <3>2. /\ j + Len(p) \in 1..(Len(p) + Len(q)) /\ ~(j + Len(p) <= Len(p))
          /\ (j + Len(p)) - Len(p) = j
      BY <1>1, <3>1
    <3> QED BY <1>1, <1>2, <3>1, <3>2
  <2> QED BY <2>1, <2>2, <2>3
<1>4. A \cap C = {}
  <2>1. ASSUME NEW i \in A, NEW j \in B PROVE i # j + Len(p)
    <3>1. i \in 1..Len(p) /\ j \in 1..Len(q)
      BY <1>1
    <3> QED BY <1>1, <3>1
  <2> QED BY <2>1
<1>5. IsFiniteSet(A) /\ IsFiniteSet(B)
  BY CountNat
<1>6. shift \in Bijection(B, C)
  <2>1. \A i \in B : i \in Nat
    BY <1>1
  <2>2. shift \in [B -> C] /\ \A i \in B : shift[i] = i + Len(p)
    OBVIOUS
  <2>3. \A i, j \in B : shift[i] = shift[j] => i = j
    BY <1>1, <2>1, <2>2
  <2>4. \A c \in C : \E i \in B : shift[i] = c
    BY <2>2
  <2> HIDE DEF shift, B, C
  <2> QED BY <2>2, <2>3, <2>4, Fun_IsBij
<1>7. IsFiniteSet(C) /\ Cardinality(C) = Cardinality(B)
  <2>1. ExistsBijection(B, C)
    BY <1>6 DEF ExistsBijection
  <2> HIDE DEF shift, B, C
  <2> QED BY <1>5, <2>1, FS_Bijection
<1>8. Cardinality(A \cup C) = Cardinality(A) + Cardinality(C) - Cardinality(A \cap C)
  BY <1>5, <1>7, FS_Union
<1>9. Cardinality(A \cap C) = 0
  BY <1>4, FS_EmptySet
<1>10. Cardinality(A) \in Nat /\ Cardinality(C) \in Nat
  BY <1>5, <1>7, FS_CardinalityType
<1>11. Count(p, S) = Cardinality(A) /\ Count(q, S) = Cardinality(B) /\ Count(p \o q, S) = Cardinality(U)
  BY DEF Count
<1> HIDE DEF A, B, C, U
<1> QED BY <1>3, <1>7, <1>8, <1>9, <1>10, <1>11

\* A sequence of one element.
LEMMA CountOne ==
  ASSUME NEW x, NEW S
  PROVE  Count(<<x>>, S) = IF x \in S THEN 1 ELSE 0
<1>1. CASE x \in S
  <2>1. {i \in DOMAIN <<x>> : <<x>>[i] \in S} = {1}
    BY <1>1
  <2> QED BY <1>1, <2>1, FS_Singleton DEF Count
<1>2. CASE x \notin S
  <2>1. {i \in DOMAIN <<x>> : <<x>>[i] \in S} = {}
    BY <1>2
  <2> QED BY <1>2, <2>1, FS_EmptySet DEF Count
<1> QED BY <1>1, <1>2

\* The empty sequence, and the first element of another.
LEMMA CountHead ==
  ASSUME NEW T, NEW q \in Seq(T), NEW S
  PROVE  /\ Count(<<>>, S) = 0
         /\ q # <<>> => Count(q, S) = (IF q[1] \in S THEN 1 ELSE 0) + Count(Tail(q), S)
<1>1. Count(<<>>, S) = 0
  <2>1. {i \in DOMAIN <<>> : <<>>[i] \in S} = {}
    OBVIOUS
  <2> QED BY <2>1, FS_EmptySet DEF Count
<1>2. ASSUME q # <<>> PROVE Count(q, S) = (IF q[1] \in S THEN 1 ELSE 0) + Count(Tail(q), S)
  <2>1. q[1] \in T /\ Tail(q) \in Seq(T) /\ <<q[1]>> \in Seq(T)
    BY <1>2
  <2>2. q = <<q[1]>> \o Tail(q)
    BY <1>2
  <2>3. Count(<<q[1]>> \o Tail(q), S) = Count(<<q[1]>>, S) + Count(Tail(q), S)
    BY <2>1, CountConcat
  <2>4. Count(<<q[1]>>, S) = IF q[1] \in S THEN 1 ELSE 0
    BY CountOne
  <2> QED BY <2>2, <2>3, <2>4
<1> QED BY <1>1, <1>2

\* One more element at the end.
LEMMA CountAppend ==
  ASSUME NEW T, NEW q \in Seq(T), NEW x \in T, NEW S
  PROVE  Count(Append(q, x), S) = Count(q, S) + IF x \in S THEN 1 ELSE 0
<1>1. Append(q, x) = q \o <<x>> /\ <<x>> \in Seq(T)
  OBVIOUS
<1>2. Count(q \o <<x>>, S) = Count(q, S) + Count(<<x>>, S)
  BY <1>1, CountConcat
<1>3. Count(<<x>>, S) = IF x \in S THEN 1 ELSE 0
  BY CountOne
<1> QED BY <1>1, <1>2, <1>3

-----------------------------------------------------------------------------
(* Slots and batches.                                                      *)

\* The slots of a bucket and the overflow slots are slots of the cache.
LEMMA MainSlots ==
  ASSUME NEW k \in Key
  PROVE  Main(Home[k]) \cup Overflow \subseteq Slot
<1>1. Home[k] \in 1..NumBuckets /\ NumBuckets \in Nat /\ BucketCap \in Nat /\ BucketCap >= 1
  BY TiersAssumption
<1> DEFINE b == Home[k]
<1>2. PICK d \in Nat : NumBuckets = b + d
  <2>1. NumBuckets - b \in Nat /\ NumBuckets = b + (NumBuckets - b)
    BY <1>1
  <2> QED BY <2>1
<1>3. PICK e \in Nat : b = e + 1
  <2>1. b - 1 \in Nat /\ b = (b - 1) + 1
    BY <1>1
  <2> QED BY <2>1
<1>4. NumBuckets * BucketCap = b * BucketCap + d * BucketCap
  BY <1>1, <1>2
<1>5. d * BucketCap \in Nat /\ b * BucketCap \in Nat /\ e * BucketCap \in Nat
  BY <1>1, <1>2, <1>3
<1>6. (b - 1) * BucketCap = e * BucketCap
  BY <1>1, <1>3
<1>7. Main(b) \subseteq 1..Capacity /\ Capacity \in Nat
  BY <1>1, <1>4, <1>5, <1>6 DEF Main, Capacity
<1>8. 3 * BucketCap \in Nat
  BY <1>1
<1>9. Overflow \subseteq Slot /\ 1..Capacity \subseteq Slot
  BY <1>7, <1>8 DEF Overflow, Slot
<1> QED BY <1>7, <1>9

\* Slot numbers are positive, so NoSlot is none, and keys are positive too.
LEMMA Positive ==
  /\ Slot \subseteq Nat \ {0} /\ NoSlot \notin Slot /\ NoKey \notin Key
BY TiersAssumption DEF Slot, NoSlot, NoKey

\* The slots of a batch are slots of the cache.
LEMMA SlotsType ==
  ASSUME NEW b \in SlotMap
  PROVE  /\ Slots(b) \subseteq Slot
         /\ \A s : s \in Slots(b) <=> \E k \in DOMAIN b : b[k] = s /\ s # NoSlot
         /\ \A s \in Slot : b \in Using(s) <=> s \in Slots(b)
         /\ DOMAIN b \subseteq Key
<1>1. PICK K \in SUBSET Key : b \in [K -> Slot \cup {NoSlot}]
  BY DEF SlotMap
<1>2. Slots(b) \subseteq Slot
  BY <1>1 DEF Slots
<1>3. \A s : s \in Slots(b) <=> \E k \in DOMAIN b : b[k] = s /\ s # NoSlot
  BY DEF Slots
<1> QED BY <1>1, <1>2, <1>3 DEF Using

\* No reading yet.
LEMMA EmptyReading == <<>> \in Reading
<1>1. <<>> \in [{} -> Int]
  <2>1. <<>> = [i \in {} |-> 0]
    OBVIOUS
  <2> QED BY <2>1
<1> QED BY <1>1 DEF Reading

\* A reading of the counters of some slots.
LEMMA SomeReading ==
  ASSUME NEW S \in SUBSET Slot, pins \in [Slot -> Int]
  PROVE  [s \in S |-> pins[s]] \in Reading
<1>1. [s \in S |-> pins[s]] \in [S -> Int]
  OBVIOUS
<1> QED BY <1>1 DEF Reading

\* The fields of a pass.
LEMMA PassFields ==
  ASSUME NEW x \in Pass
  PROVE  x.batch \in SlotMap /\ x.after \in Nat /\ x.step \in {"update", "unpin", "write"} /\ x.read \in Reading
BY DEF Pass

\* A sequence is the function of its elements.
LEMMA AsFunction ==
  ASSUME NEW T, NEW q \in Seq(T)
  PROVE  q = [i \in 1..Len(q) |-> q[i]]
OBVIOUS

\* The batches of the passes.
LEMMA BatchesProps ==
  ASSUME NEW w \in Seq(Pass)
  PROVE  /\ Batches(w) \in Seq(SlotMap) /\ Len(Batches(w)) = Len(w)
         /\ \A i \in 1..Len(w) : Batches(w)[i] = w[i].batch
         /\ \A x \in Pass : Batches(Append(w, x)) = Append(Batches(w), x.batch)
         /\ w # <<>> => Batches(Tail(w)) = Tail(Batches(w))
<1>1. \A i \in 1..Len(w) : w[i] \in Pass /\ w[i].batch \in SlotMap
  BY PassFields
<1>2. /\ Batches(w) \in Seq(SlotMap) /\ Len(Batches(w)) = Len(w)
      /\ \A i \in 1..Len(w) : Batches(w)[i] = w[i].batch
  <2>1. Batches(w) = [i \in 1..Len(w) |-> w[i].batch] /\ Len(w) \in Nat
    BY DEF Batches
  <2>2. \A i \in 1..Len(w) : w[i].batch \in SlotMap
    BY <1>1
  <2> QED BY <2>1, <2>2
<1>3. ASSUME NEW x \in Pass PROVE Batches(Append(w, x)) = Append(Batches(w), x.batch)
  <2>1. x.batch \in SlotMap
    BY PassFields
  <2>2. Len(Append(w, x)) = Len(w) + 1 /\ DOMAIN Append(w, x) = 1..(Len(w) + 1) /\ Len(w) \in Nat
    OBVIOUS
  <2>3. DOMAIN Append(Batches(w), x.batch) = 1..(Len(w) + 1)
    BY <1>2, <2>1
  <2>4. \A i \in 1..(Len(w) + 1) : Append(w, x)[i].batch = Append(Batches(w), x.batch)[i]
    BY <1>2, <2>1, <2>2
  <2>5. Append(Batches(w), x.batch) \in Seq(SlotMap) /\ Len(Append(Batches(w), x.batch)) = Len(w) + 1
    BY <1>2, <2>1
  <2>6. Batches(Append(w, x)) = [i \in 1..(Len(w) + 1) |-> Append(w, x)[i].batch]
    BY <2>2 DEF Batches
  <2>7. Append(Batches(w), x.batch) = [i \in 1..(Len(w) + 1) |-> Append(Batches(w), x.batch)[i]]
    BY <2>5
  <2> QED BY <2>4, <2>6, <2>7
<1>4. ASSUME w # <<>> PROVE Batches(Tail(w)) = Tail(Batches(w))
  <2>1. /\ DOMAIN Tail(w) = 1..(Len(w) - 1) /\ Len(w) \in Nat /\ Len(w) >= 1
        /\ \A i \in 1..(Len(w) - 1) : Tail(w)[i] = w[i + 1]
    BY <1>4
  <2>2. Batches(w) # <<>>
    <3>1. Len(Batches(w)) # 0
      BY <1>2, <2>1
    <3> QED BY <3>1
  <2>3. /\ Tail(Batches(w)) \in Seq(SlotMap) /\ Len(Tail(Batches(w))) = Len(w) - 1
        /\ \A i \in 1..(Len(w) - 1) : Tail(Batches(w))[i] = Batches(w)[i + 1]
    BY <1>2, <2>1, <2>2
  <2>4. Batches(Tail(w)) = [i \in 1..(Len(w) - 1) |-> Tail(w)[i].batch]
    BY <2>1 DEF Batches
  <2>5. Tail(Batches(w)) = [i \in 1..(Len(w) - 1) |-> Tail(Batches(w))[i]]
    BY <2>3, AsFunction
  <2>6. \A i \in 1..(Len(w) - 1) : Tail(w)[i].batch = Tail(Batches(w))[i]
    BY <1>2, <2>1, <2>3
  <2> QED BY <2>4, <2>5, <2>6
<1> QED BY <1>2, <1>3, <1>4

-----------------------------------------------------------------------------
(* The steps of a prefetch.                                                *)

\* A sequence with one element at most.
LEMMA AtMostOne ==
  ASSUME NEW T, NEW q \in Seq(T), Len(q) <= 1, q # <<>>
  PROVE  q = <<q[1]>> /\ q[1] \in T
<1>1. Len(q) = 1
  <2>1. Len(q) \in Nat /\ Len(q) # 0
    BY EmptySeq
  <2> QED BY <2>1
<1>2. q[1] \in T
  BY <1>1
<1> QED BY <1>1, <1>2

\* What the last parts of the invariant say of the one call, kernel or pass.
LEMMA Singles ==
  ASSUME TypeOK
  PROVE  /\ call # <<>> => call = <<call[1]>> /\ call[1] \in PrefetchCall
         /\ pinning # <<>> => pinning = <<pinning[1]>> /\ pinning[1] \in Kernel
         /\ grads # <<>> => grads = <<grads[1]>> /\ grads[1] \in SlotMap
         /\ work # <<>> => work[1] \in Pass /\ Head(work) = work[1] /\ 1 \in DOMAIN work
         /\ queue # <<>> => queue[1] \in SlotMap /\ Head(queue) = queue[1] /\ 1 \in DOMAIN queue
<1>1. call # <<>> => call = <<call[1]>> /\ call[1] \in PrefetchCall
  BY AtMostOne DEF TypeOK
<1>2. pinning # <<>> => pinning = <<pinning[1]>> /\ pinning[1] \in Kernel
  BY AtMostOne DEF TypeOK
<1>3. grads # <<>> => grads = <<grads[1]>> /\ grads[1] \in SlotMap
  BY AtMostOne DEF TypeOK
<1>4. work # <<>> => work[1] \in Pass /\ Head(work) = work[1] /\ 1 \in DOMAIN work
  BY DEF TypeOK
<1>5. queue # <<>> => queue[1] \in SlotMap /\ Head(queue) = queue[1] /\ 1 \in DOMAIN queue
  BY DEF TypeOK
<1> QED BY <1>1, <1>2, <1>3, <1>4, <1>5

\* The fields of a prefetch call.
LEMMA CallFields ==
  ASSUME NEW x \in PrefetchCall
  PROVE  /\ x.keys \in SUBSET Key /\ x.found \in SlotMap
         /\ x.read \in Reading /\ x.step \in {"found", "read", "pinned"}
BY DEF PrefetchCall

\* The fields of a counter kernel of a prefetch.
LEMMA KernelFields ==
  ASSUME NEW x \in Kernel
  PROVE  x.n \in Nat /\ x.slots \in SUBSET Slot /\ x.read \in Reading
BY DEF Kernel

\* The cache lookup of a batch.
LEMMA FoundProps ==
  ASSUME TypeOK, NEW keys \in SUBSET Key
  PROVE  LET found == [k \in {j \in keys : Found(j) # {}} |-> CHOOSE s \in Found(k) : TRUE]
         IN  /\ found \in SlotMap /\ Holds(cached, found)
             /\ DOMAIN found = {j \in keys : Found(j) # {}}
             /\ \A k \in DOMAIN found : found[k] # NoSlot
<1> DEFINE D == {j \in keys : Found(j) # {}}
           found == [k \in D |-> CHOOSE s \in Found(k) : TRUE]
<1>1. ASSUME NEW k \in D PROVE found[k] \in Slot /\ cached[found[k]] = k
  <2>1. k \in Key /\ found[k] \in Found(k)
    OBVIOUS
  <2>2. Found(k) \subseteq Slot
    BY <2>1, MainSlots DEF Found
  <2> QED BY <2>1, <2>2 DEF Found
<1>2. DOMAIN found = D /\ D \in SUBSET Key
  OBVIOUS
<1> HIDE DEF found
<1>3. found \in [D -> Slot \cup {NoSlot}]
  <2>1. found = [k \in D |-> found[k]]
    BY DEF found
  <2> QED BY <1>1, <2>1
<1>4. found \in SlotMap
  BY <1>2, <1>3 DEF SlotMap
<1>5. Holds(cached, found) /\ \A k \in DOMAIN found : found[k] # NoSlot
  BY <1>1, <1>2, Positive DEF Holds
<1> QED BY <1>2, <1>4, <1>5 DEF found

\* The lookup pins nothing and changes no table.
LEMMA PrefetchKeeps ==
  ASSUME ~Overlap, TiersOK, NEW keys \in Batch, Prefetch(keys)
  PROVE  TiersOK'
<1> DEFINE found == [k \in {j \in keys : Found(j) # {}} |-> CHOOSE s \in Found(k) : TRUE]
           c == [keys |-> keys, found |-> found, read |-> <<>>, step |-> "found"]
<1>1. keys \in SUBSET Key
  BY TiersAssumption
<1>2. /\ found \in SlotMap /\ Holds(cached, found)
      /\ DOMAIN found \subseteq keys
      /\ \A k \in DOMAIN found : found[k] # NoSlot
  BY <1>1, FoundProps DEF TiersOK
<1>3. /\ call = <<>> /\ pinning = <<>> /\ work = <<>> /\ call' = <<c>> /\ issued' = issued + 1
      /\ UNCHANGED <<tables, pins, queue, pinning, grads, work>>
  BY DEF Prefetch, PrefetchStreamFree
<1> HIDE DEF found
<1>4. c \in PrefetchCall /\ c.step = "found" /\ c.found = found /\ c.keys = keys
  BY <1>1, <1>2, EmptyReading DEF PrefetchCall
<1> HIDE DEF c
<1>5. call' # <<>> /\ call'[1] = c /\ call' \in Seq(PrefetchCall) /\ Len(call') = 1
  BY <1>3, <1>4
<1>6. TypeOK'
  BY <1>3, <1>5 DEF TiersOK, TypeOK, tables
<1>7. OneAtATime'
  BY <1>3 DEF TiersOK, OneAtATime
<1>8. ReadsFresh'
  BY <1>3, <1>4, <1>5 DEF TiersOK, ReadsFresh, Fresh
<1>9. HeldOK'
  BY <1>2, <1>3, <1>4, <1>5 DEF TiersOK, HeldOK, tables
<1>10. CountersExact'
  BY <1>3, <1>4, <1>5 DEF TiersOK, CountersExact, Pinned, Unpinned
<1> QED BY <1>6, <1>7, <1>8, <1>9, <1>10 DEF TiersOK

\* A refused prefetch only counts its keys.
LEMMA RaisesKeeps ==
  ASSUME TiersOK, NEW keys \in Batch, PrefetchRaises(keys)
  PROVE  TiersOK'
<1>1. issued' = issued + 1 /\ UNCHANGED <<tables, pins, queue, call, pinning, grads, work>>
  BY DEF PrefetchRaises
<1>2. TypeOK'
  BY <1>1 DEF TiersOK, TypeOK, tables
<1>3. OneAtATime'
  <2>1. pinning # <<>> => pinning[1].n \in Nat /\ issued \in Nat
    BY Singles, KernelFields DEF TiersOK, TypeOK
  <2> QED BY <1>1, <2>1 DEF TiersOK, OneAtATime
<1>4. ReadsFresh'
  BY <1>1 DEF TiersOK, ReadsFresh, Fresh
<1>5. HeldOK'
  BY <1>1 DEF TiersOK, HeldOK, tables
<1>6. CountersExact'
  BY <1>1 DEF TiersOK, CountersExact, Pinned, Unpinned
<1> QED BY <1>2, <1>3, <1>4, <1>5, <1>6 DEF TiersOK

\* The counters of the hits are read.
LEMMA PinHitsReadKeeps ==
  ASSUME TiersOK, PinHitsRead
  PROVE  TiersOK'
<1> DEFINE c == [call[1] EXCEPT !.step = "read", !.read = [s \in Slots(call[1].found) |-> pins[s]]]
<1>1. /\ call # <<>> /\ call[1].step = "found" /\ call' = <<c>>
      /\ UNCHANGED <<tables, pins, queue, pinning, grads, work, issued>>
  BY DEF PinHitsRead
<1>2. call[1] \in PrefetchCall
  BY <1>1, Singles DEF TiersOK
<1>3. Slots(call[1].found) \in SUBSET Slot
  BY <1>2, CallFields, SlotsType
<1>4. [s \in Slots(call[1].found) |-> pins[s]] \in Reading
  BY <1>3, SomeReading DEF TiersOK, TypeOK
<1>5. /\ c \in PrefetchCall /\ c.step = "read" /\ c.found = call[1].found /\ c.keys = call[1].keys
      /\ c.read = [s \in Slots(call[1].found) |-> pins[s]]
  BY <1>2, <1>4 DEF PrefetchCall
<1> HIDE DEF c
<1>6. call' # <<>> /\ call'[1] = c /\ call' \in Seq(PrefetchCall) /\ Len(call') = 1
  BY <1>1, <1>5
<1>7. TypeOK'
  BY <1>1, <1>6 DEF TiersOK, TypeOK, tables
<1>8. OneAtATime'
  BY <1>1 DEF TiersOK, OneAtATime
<1>9. ReadsFresh'
  BY <1>1, <1>5, <1>6 DEF TiersOK, ReadsFresh, Fresh
<1>10. HeldOK'
  BY <1>1, <1>5, <1>6 DEF TiersOK, HeldOK, tables
<1>11. CountersExact'
  BY <1>1, <1>5, <1>6 DEF TiersOK, CountersExact, Pinned, Unpinned
<1> QED BY <1>7, <1>8, <1>9, <1>10, <1>11 DEF TiersOK

\* ... and written: on one stream nobody else has changed them meanwhile.
LEMMA PinHitsWriteKeeps ==
  ASSUME TiersOK, PinHitsWrite
  PROVE  TiersOK'
<1> DEFINE c == [call[1] EXCEPT !.step = "pinned"]
<1>1. /\ call # <<>> /\ call[1].step = "read" /\ call' = <<c>> /\ pins' = Add(1, call[1].read)
      /\ UNCHANGED <<tables, queue, pinning, grads, work, issued>>
  BY DEF PinHitsWrite
<1>2. call[1] \in PrefetchCall /\ work = <<>> /\ pinning = <<>>
  BY <1>1, Singles DEF TiersOK, OneAtATime
<1>3. Slots(call[1].found) \in SUBSET Slot
  BY <1>2, CallFields, SlotsType
<1>4. call[1].read = [s \in Slots(call[1].found) |-> pins[s]]
  BY <1>1 DEF TiersOK, ReadsFresh, Fresh
<1>5. c \in PrefetchCall /\ c.step = "pinned" /\ c.found = call[1].found /\ c.keys = call[1].keys
  BY <1>2 DEF PrefetchCall
<1> HIDE DEF c
<1>6. call' # <<>> /\ call'[1] = c /\ call' \in Seq(PrefetchCall) /\ Len(call') = 1
  BY <1>1, <1>5
<1>7. /\ pins' \in [Slot -> Int]
      /\ \A s \in Slot : pins'[s] = IF s \in Slots(call[1].found) THEN pins[s] + 1 ELSE pins[s]
  BY <1>1, <1>3, <1>4 DEF Add, TiersOK, TypeOK
<1>8. TypeOK'
  BY <1>1, <1>6, <1>7 DEF TiersOK, TypeOK, tables
<1>9. OneAtATime'
  BY <1>1 DEF TiersOK, OneAtATime
<1>10. ReadsFresh'
  BY <1>1, <1>2, <1>5, <1>6 DEF ReadsFresh
<1>11. HeldOK'
  BY <1>1, <1>5, <1>6 DEF TiersOK, HeldOK, tables
<1>12. CountersExact'
  <2>1. ASSUME NEW s \in Slot
        PROVE  pins'[s] = Count(queue', Using(s)) + Count(grads', Using(s)) + Count(Batches(work'), Using(s))
                          + Pinned(s)' - Unpinned(s)'
    <3>1. pins[s] \in Int /\ Count(queue, Using(s)) \in Nat /\ Count(grads, Using(s)) \in Nat
          /\ Count(Batches(work), Using(s)) \in Nat
      BY CountNat, BatchesProps DEF TiersOK, TypeOK
    <3>2. Pinned(s) = 0 /\ Pinned(s)' = IF s \in Slots(call[1].found) THEN 1 ELSE 0
      BY <1>1, <1>5, <1>6 DEF Pinned
    <3>3. Unpinned(s) = 0 /\ Unpinned(s)' = 0
      BY <1>1, <1>2 DEF Unpinned
    <3> QED BY <3>1, <3>2, <3>3, <1>1, <1>7 DEF TiersOK, CountersExact
  <2> QED BY <2>1 DEF CountersExact
<1> QED BY <1>8, <1>9, <1>10, <1>11, <1>12 DEF TiersOK

-----------------------------------------------------------------------------
(* The insertion of the misses.                                            *)

\* An element that counts.
LEMMA CountSome ==
  ASSUME NEW T, NEW q \in Seq(T), NEW S, NEW i \in DOMAIN q, q[i] \in S
  PROVE  Count(q, S) >= 1
<1> DEFINE A == {j \in DOMAIN q : q[j] \in S}
<1>1. IsFiniteSet(A) /\ Count(q, S) \in Nat /\ Count(q, S) = Cardinality(A)
  BY CountNat DEF Count
<1>2. A # {}
  OBVIOUS
<1>3. Cardinality(A) # 0
  BY <1>1, <1>2, FS_EmptySet
<1> QED BY <1>1, <1>3

\* A slot used by a batch in flight, or by the hits of the call, is pinned.
LEMMA UsedIsPinned ==
  ASSUME TiersOK, call # <<>>, call[1].step = "pinned", NEW s \in Slot,
         \/ \E i \in DOMAIN queue : s \in Slots(queue[i])
         \/ \E i \in DOMAIN grads : s \in Slots(grads[i])
         \/ s \in Slots(call[1].found)
  PROVE  pins[s] >= 1
<1>1. work \in Seq(Pass) /\ queue \in Seq(SlotMap) /\ grads \in Seq(SlotMap)
  BY DEF TiersOK, TypeOK
<1>2. /\ Count(queue, Using(s)) \in Nat /\ Count(grads, Using(s)) \in Nat
      /\ Count(Batches(work), Using(s)) \in Nat
  BY <1>1, CountNat, BatchesProps
<1>3. Unpinned(s) = 0 /\ Pinned(s) \in {0, 1}
  BY DEF TiersOK, OneAtATime, Unpinned, Pinned
<1>4. pins[s] = Count(queue, Using(s)) + Count(grads, Using(s)) + Count(Batches(work), Using(s))
                + Pinned(s) - Unpinned(s)
  BY DEF TiersOK, CountersExact
<1>5. CASE \E i \in DOMAIN queue : s \in Slots(queue[i])
  <2>1. PICK i \in DOMAIN queue : s \in Slots(queue[i])
    BY <1>5
  <2>2. queue[i] \in SlotMap
    BY <1>1
  <2>3. Count(queue, Using(s)) >= 1
    BY <1>1, <2>1, <2>2, SlotsType, CountSome
  <2> QED BY <1>2, <1>3, <1>4, <2>3
<1>6. CASE \E i \in DOMAIN grads : s \in Slots(grads[i])
  <2>1. PICK i \in DOMAIN grads : s \in Slots(grads[i])
    BY <1>6
  <2>2. grads[i] \in SlotMap
    BY <1>1
  <2>3. Count(grads, Using(s)) >= 1
    BY <1>1, <2>1, <2>2, SlotsType, CountSome
  <2> QED BY <1>2, <1>3, <1>4, <2>3
<1>7. CASE s \in Slots(call[1].found)
  <2>1. Pinned(s) = 1
    BY <1>7 DEF Pinned
  <2> QED BY <1>2, <1>3, <1>4, <2>1
<1> QED BY <1>5, <1>6, <1>7

\* What a placement of the misses is: of keys that were not found, in slots of
\* their own that are empty or not pinned.
LEMMA PlacementFacts ==
  ASSUME TiersOK, call # <<>>, NEW place \in Placements(InStorage \cup Admitted)
  PROVE  /\ place \in SlotMap
         /\ DOMAIN place = InStorage \cup Admitted
         /\ DOMAIN place \subseteq call[1].keys \ DOMAIN call[1].found
         /\ DOMAIN place \subseteq Key
         /\ \A k \in DOMAIN place : place[k] # NoSlot =>
               /\ place[k] \in Slot /\ place[k] \in Main(Home[k]) \cup Overflow
               /\ cached[place[k]] = NoKey \/ pins[place[k]] <= 0
               /\ \A j \in DOMAIN place : place[j] = place[k] => j = k
<1> DEFINE keys == InStorage \cup Admitted
<1>1. keys \subseteq Missed /\ Missed = call[1].keys \ DOMAIN call[1].found
  BY DEF InStorage, Admitted, Missed
<1>2. call[1].keys \in SUBSET Key
  BY Singles, CallFields DEF TiersOK
<1>3. place \in [keys -> Slot \cup {NoSlot}]
  BY DEF Placements
<1>4. \A k \in keys : place[k] # NoSlot =>
          /\ place[k] \in Main(Home[k]) \cup Overflow /\ MayTake(place[k])
          /\ \A j \in keys \ {k} : place[j] # place[k]
  BY DEF Placements
<1> HIDE DEF keys
<1>5. DOMAIN place = keys /\ keys \in SUBSET Key
  BY <1>1, <1>2, <1>3
<1>6. place \in SlotMap
  BY <1>3, <1>5 DEF SlotMap
<1>7. ASSUME NEW k \in keys, place[k] # NoSlot
      PROVE  /\ place[k] \in Slot
             /\ cached[place[k]] = NoKey \/ pins[place[k]] <= 0
  <2>1. place[k] \in Slot
    BY <1>3, <1>7
  <2>2. pins[place[k]] \in Int
    BY <2>1 DEF TiersOK, TypeOK
  <2> QED BY <1>4, <1>7, <2>1, <2>2 DEF MayTake
<1>8. ASSUME NEW k \in keys, place[k] # NoSlot, NEW j \in keys, place[j] = place[k] PROVE j = k
  BY <1>4, <1>8
<1> QED BY <1>1, <1>4, <1>5, <1>6, <1>7, <1>8 DEF keys

\* The slots a placement takes are used by nobody.
LEMMA TakenUnused ==
  ASSUME TiersOK, call # <<>>, call[1].step = "pinned",
         NEW place \in Placements(InStorage \cup Admitted), NEW s \in Slots(place)
  PROVE  /\ s \in Slot
         /\ \A i \in DOMAIN queue : s \notin Slots(queue[i])
         /\ \A i \in DOMAIN grads : s \notin Slots(grads[i])
         /\ s \notin Slots(call[1].found)
<1>1. PICK k \in DOMAIN place : place[k] = s /\ s # NoSlot
  BY PlacementFacts, SlotsType
<1>2. s \in Slot /\ (cached[s] = NoKey \/ pins[s] <= 0)
  BY <1>1, PlacementFacts
<1>3. pins[s] \in Int
  BY <1>2 DEF TiersOK, TypeOK
<1>4. ASSUME NEW b \in SlotMap, Holds(cached, b), s \in Slots(b) PROVE cached[s] # NoKey
  <2>1. PICK j \in DOMAIN b : b[j] = s /\ s # NoSlot
    BY <1>4, SlotsType
  <2>2. j \in Key /\ cached[s] = j
    BY <1>4, <2>1, SlotsType DEF Holds
  <2> QED BY <2>2, Positive
<1>5. ASSUME NEW i \in DOMAIN queue, s \in Slots(queue[i]) PROVE FALSE
  <2>1. queue[i] \in SlotMap /\ Holds(cached, queue[i])
    BY DEF TiersOK, TypeOK, HeldOK
  <2>2. cached[s] # NoKey
    BY <1>4, <1>5, <2>1
  <2>3. pins[s] >= 1
    BY <1>2, <1>5, UsedIsPinned
  <2> QED BY <1>2, <1>3, <2>2, <2>3
<1>6. ASSUME NEW i \in DOMAIN grads, s \in Slots(grads[i]) PROVE FALSE
  <2>1. grads[i] \in SlotMap /\ Holds(cached, grads[i])
    BY DEF TiersOK, TypeOK, HeldOK
  <2>2. cached[s] # NoKey
    BY <1>4, <1>6, <2>1
  <2>3. pins[s] >= 1
    BY <1>2, <1>6, UsedIsPinned
  <2> QED BY <1>2, <1>3, <2>2, <2>3
<1>7. ASSUME s \in Slots(call[1].found) PROVE FALSE
  <2>1. call[1].found \in SlotMap /\ Holds(cached, call[1].found)
    BY Singles, CallFields DEF TiersOK, HeldOK
  <2>2. cached[s] # NoKey
    BY <1>4, <1>7, <2>1
  <2>3. pins[s] >= 1
    BY <1>2, <1>7, UsedIsPinned
  <2> QED BY <1>2, <1>3, <2>2, <2>3
<1> QED BY <1>2, <1>5, <1>6, <1>7

\* The cache after a placement: its keys in their slots, the other slots as before.
Placed(place) == [s \in Slot |-> IF {k \in DOMAIN place : place[k] = s} = {} THEN cached[s]
                                    ELSE CHOOSE k \in {j \in DOMAIN place : place[j] = s} : TRUE]

\* ... slot by slot.
LEMMA PlacedProps ==
  ASSUME TiersOK, call # <<>>, NEW place \in Placements(InStorage \cup Admitted)
  PROVE  /\ Placed(place) \in [Slot -> Key \cup {NoKey}]
         /\ Holds(Placed(place), place)
         /\ \A s \in Slot \ Slots(place) : Placed(place)[s] = cached[s]
<1> DEFINE c == Placed(place)
<1>1. \A s \in Slot : c[s] = IF {k \in DOMAIN place : place[k] = s} = {} THEN cached[s]
                             ELSE CHOOSE k \in {j \in DOMAIN place : place[j] = s} : TRUE
  BY DEF Placed
<1>2. ASSUME NEW s \in Slot \ Slots(place) PROVE c[s] = cached[s]
  <2>1. {k \in DOMAIN place : place[k] = s} = {}
    BY PlacementFacts, SlotsType, Positive
  <2> QED BY <1>1, <2>1
<1>3. ASSUME NEW k \in DOMAIN place, place[k] # NoSlot PROVE c[place[k]] = k
  <2>1. place[k] \in Slot /\ {j \in DOMAIN place : place[j] = place[k]} = {k}
    BY <1>3, PlacementFacts
  <2> QED BY <1>1, <2>1
<1>4. ASSUME NEW s \in Slot PROVE c[s] \in Key \cup {NoKey}
  <2>1. CASE s \in Slots(place)
    <3>1. PICK k \in DOMAIN place : place[k] = s /\ s # NoSlot
      BY <2>1, PlacementFacts, SlotsType
    <3> QED BY <1>3, <3>1, PlacementFacts
  <2>2. CASE s \notin Slots(place)
    BY <1>2, <2>2 DEF TiersOK, TypeOK
  <2> QED BY <2>1, <2>2
<1>5. c = [s \in Slot |-> c[s]]
  BY DEF Placed
<1> HIDE DEF c
<1>6. c \in [Slot -> Key \cup {NoKey}]
  BY <1>4, <1>5
<1> QED BY <1>2, <1>3, <1>6 DEF c, Holds

\* The batch that joins the queue: the hits and the placed misses.
Joined(place) == [k \in call[1].keys |->
                    IF k \in DOMAIN call[1].found THEN call[1].found[k]
                    ELSE IF k \in DOMAIN place THEN place[k] ELSE NoSlot]

\* ... uses the slots of both.
LEMMA JoinedProps ==
  ASSUME TiersOK, call # <<>>, NEW place \in Placements(InStorage \cup Admitted)
  PROVE  /\ Joined(place) \in SlotMap
         /\ Slots(Joined(place)) = Slots(call[1].found) \cup Slots(place)
         /\ \A k \in DOMAIN Joined(place) : Joined(place)[k] # NoSlot =>
               \/ k \in DOMAIN call[1].found /\ Joined(place)[k] = call[1].found[k]
               \/ k \in DOMAIN place /\ Joined(place)[k] = place[k]
<1> DEFINE b == Joined(place)
           found == call[1].found
           keys == call[1].keys
<1>1. found \in SlotMap /\ keys \in SUBSET Key
  BY Singles, CallFields DEF TiersOK
<1>2. DOMAIN found \subseteq keys /\ DOMAIN place \subseteq keys \ DOMAIN found /\ place \in SlotMap
  BY PlacementFacts DEF TiersOK, HeldOK
<1>3. /\ b = [k \in keys |-> b[k]] /\ DOMAIN b = keys
      /\ \A k \in keys : b[k] = IF k \in DOMAIN found THEN found[k]
                                ELSE IF k \in DOMAIN place THEN place[k] ELSE NoSlot
  BY DEF Joined
<1>4. /\ \A k \in DOMAIN found : found[k] \in Slot \cup {NoSlot}
      /\ \A k \in DOMAIN place : place[k] \in Slot \cup {NoSlot}
  BY <1>1, <1>2 DEF SlotMap
<1> HIDE DEF b, found, keys
<1>5. b \in [keys -> Slot \cup {NoSlot}]
  BY <1>3, <1>4
<1>6. b \in SlotMap
  BY <1>1, <1>5 DEF SlotMap
<1>7. ASSUME NEW s PROVE s \in Slots(b) <=> s \in Slots(found) \/ s \in Slots(place)
  <2>1. s \in Slots(b) <=> \E k \in keys : b[k] = s /\ s # NoSlot
    BY <1>3, <1>6, SlotsType
  <2>2. s \in Slots(found) <=> \E k \in DOMAIN found : found[k] = s /\ s # NoSlot
    BY <1>1, SlotsType
  <2>3. s \in Slots(place) <=> \E k \in DOMAIN place : place[k] = s /\ s # NoSlot
    BY <1>2, SlotsType
  <2> QED BY <1>2, <1>3, <2>1, <2>2, <2>3
<1>8. Slots(b) = Slots(found) \cup Slots(place)
  BY <1>7
<1> QED BY <1>3, <1>6, <1>8 DEF b, found

\* The batch joins the queue with its hits pinned and its insertions about to be.
LEMMA InsertKeeps ==
  ASSUME TiersOK, Insert
  PROVE  TiersOK'
<1>1. call # <<>> /\ call[1].step = "pinned" /\ work = <<>> /\ pinning = <<>>
  BY DEF Insert, TiersOK, OneAtATime
<1>2. PICK place \in Placements(InStorage \cup Admitted) :
        /\ cached' = Placed(place)
        /\ pinning' = IF DOMAIN place = {} THEN <<>>
                      ELSE <<[n |-> issued, slots |-> Slots(place), read |-> <<>>]>>
        /\ queue' = Append(queue, Joined(place))
  BY DEF Insert, Placed, Joined
<1>3. call' = <<>> /\ UNCHANGED <<pins, grads, work, issued>>
  BY DEF Insert
<1> DEFINE b == Joined(place)
           found == call[1].found
           krn == [n |-> issued, slots |-> Slots(place), read |-> <<>>]
<1>4. /\ b \in SlotMap /\ Slots(b) = Slots(found) \cup Slots(place)
      /\ \A k \in DOMAIN b : b[k] # NoSlot => \/ k \in DOMAIN found /\ b[k] = found[k]
                                              \/ k \in DOMAIN place /\ b[k] = place[k]
  BY <1>1, JoinedProps
<1>5. /\ cached' \in [Slot -> Key \cup {NoKey}] /\ Holds(cached', place)
      /\ \A s \in Slot \ Slots(place) : cached'[s] = cached[s]
  BY <1>1, <1>2, PlacedProps
<1>6. /\ \A s \in Slots(place) : /\ s \in Slot
                                 /\ \A i \in DOMAIN queue : s \notin Slots(queue[i])
                                 /\ \A i \in DOMAIN grads : s \notin Slots(grads[i])
                                 /\ s \notin Slots(found)
      /\ place \in SlotMap
  BY <1>1, TakenUnused, PlacementFacts
<1>7. found \in SlotMap /\ Holds(cached, found)
  BY <1>1, Singles, CallFields DEF TiersOK, HeldOK
<1> HIDE DEF b, found
<1>8. krn \in Kernel /\ krn.n = issued /\ krn.slots = Slots(place) /\ krn.read = <<>>
  <2>1. Slots(place) \in SUBSET Slot
    BY <1>6, SlotsType
  <2> QED BY <2>1, EmptyReading DEF Kernel, TiersOK, TypeOK
<1> HIDE DEF krn
<1>9. /\ pinning' = IF DOMAIN place = {} THEN <<>> ELSE <<krn>>
      /\ pinning' \in Seq(Kernel) /\ Len(pinning') <= 1
      /\ pinning' # <<>> => pinning'[1] = krn
  BY <1>2, <1>8 DEF krn
<1>10. /\ queue' = Append(queue, b) /\ queue' \in Seq(SlotMap)
       /\ \A i \in DOMAIN queue' : (i \in DOMAIN queue /\ queue'[i] = queue[i]) \/ queue'[i] = b
  BY <1>2, <1>4 DEF TiersOK, TypeOK, b
<1>11. TypeOK'
  BY <1>3, <1>5, <1>9, <1>10 DEF TiersOK, TypeOK
<1>12. OneAtATime'
  <2>1. issued \in Nat
    BY DEF TiersOK, TypeOK
  <2> QED BY <1>1, <1>3, <1>8, <1>9, <2>1 DEF OneAtATime
<1>13. ReadsFresh'
  BY <1>1, <1>3, <1>8, <1>9 DEF ReadsFresh
<1>14. ASSUME NEW a \in SlotMap, Holds(cached, a), \A s \in Slots(place) : s \notin Slots(a)
       PROVE  Holds(cached', a)
  <2>1. ASSUME NEW k \in DOMAIN a, a[k] # NoSlot PROVE cached'[a[k]] = k
    <3>1. a[k] \in Slots(a) /\ a[k] \in Slot
      BY <2>1, SlotsType
    <3> QED BY <1>5, <1>14, <2>1, <3>1 DEF Holds
  <2> QED BY <2>1 DEF Holds
<1>15. HeldOK'
  <2>1. Holds(cached', found)
    BY <1>6, <1>7, <1>14
  <2>2. Holds(cached', b)
    BY <1>4, <1>5, <2>1 DEF Holds
  <2>3. ASSUME NEW i \in DOMAIN queue PROVE Holds(cached', queue[i])
    <3>1. queue[i] \in SlotMap /\ Holds(cached, queue[i])
      BY DEF TiersOK, TypeOK, HeldOK
    <3> QED BY <1>6, <1>14, <3>1
  <2>4. ASSUME NEW i \in DOMAIN grads PROVE Holds(cached', grads[i])
    <3>1. grads[i] \in SlotMap /\ Holds(cached, grads[i])
      BY DEF TiersOK, TypeOK, HeldOK
    <3> QED BY <1>6, <1>14, <3>1
  <2>5. \A i \in DOMAIN queue' : Holds(cached', queue'[i])
    BY <1>10, <2>2, <2>3
  <2> QED BY <1>1, <1>3, <2>4, <2>5 DEF HeldOK
<1>16. CountersExact'
  <2>1. ASSUME NEW s \in Slot
        PROVE  pins'[s] = Count(queue', Using(s)) + Count(grads', Using(s)) + Count(Batches(work'), Using(s))
                          + Pinned(s)' - Unpinned(s)'
    <3>1. pins[s] \in Int /\ Count(queue, Using(s)) \in Nat /\ Count(grads, Using(s)) \in Nat
          /\ Count(Batches(work), Using(s)) \in Nat
      BY CountNat, BatchesProps DEF TiersOK, TypeOK
    <3>2. Count(queue', Using(s)) = Count(queue, Using(s)) + IF s \in Slots(b) THEN 1 ELSE 0
      BY <1>4, <1>10, CountAppend, SlotsType DEF TiersOK, TypeOK
    <3>3. Pinned(s)' = 0 /\ Pinned(s) = IF s \in Slots(found) THEN 1 ELSE 0
      BY <1>1, <1>3 DEF Pinned, found
    <3>4. DOMAIN place = {} => s \notin Slots(place)
      BY <1>6, SlotsType
    <3>5. Unpinned(s) = 0 /\ Unpinned(s)' = IF s \in Slots(place) THEN 1 ELSE 0
      BY <1>1, <1>8, <1>9, <3>4 DEF Unpinned
    <3>6. s \notin Slots(found) \/ s \notin Slots(place)
      BY <1>6
    <3>7. pins[s] = Count(queue, Using(s)) + Count(grads, Using(s)) + Count(Batches(work), Using(s))
                    + Pinned(s) - Unpinned(s)
      BY DEF TiersOK, CountersExact
    <3> QED BY <1>3, <1>4, <3>1, <3>2, <3>3, <3>5, <3>6, <3>7
  <2> QED BY <2>1 DEF CountersExact
<1> QED BY <1>11, <1>12, <1>13, <1>15, <1>16 DEF TiersOK

-----------------------------------------------------------------------------
(* The counter kernel of a prefetch, and the training step.                *)

\* The counters of the inserted rows are read.
LEMMA PinInsertedReadKeeps ==
  ASSUME TiersOK, PinInsertedRead
  PROVE  TiersOK'
<1> DEFINE x == [pinning[1] EXCEPT !.read = [s \in pinning[1].slots |-> pins[s]]]
<1>1. /\ pinning # <<>> /\ pinning' = <<x>>
      /\ UNCHANGED <<tables, pins, queue, call, grads, work, issued>>
  BY DEF PinInsertedRead
<1>2. pinning[1] \in Kernel
  BY <1>1, Singles DEF TiersOK
<1>3. [s \in pinning[1].slots |-> pins[s]] \in Reading
  BY <1>2, KernelFields, SomeReading DEF TiersOK, TypeOK
<1>4. /\ x \in Kernel /\ x.n = pinning[1].n /\ x.slots = pinning[1].slots
      /\ x.read = [s \in pinning[1].slots |-> pins[s]]
  BY <1>2, <1>3 DEF Kernel
<1> HIDE DEF x
<1>5. pinning' # <<>> /\ pinning'[1] = x /\ pinning' \in Seq(Kernel) /\ Len(pinning') = 1
  BY <1>1, <1>4
<1>6. TypeOK'
  BY <1>1, <1>5 DEF TiersOK, TypeOK, tables
<1>7. OneAtATime'
  BY <1>1, <1>4, <1>5 DEF TiersOK, OneAtATime
<1>8. ReadsFresh'
  BY <1>1, <1>4, <1>5 DEF TiersOK, ReadsFresh, Fresh
<1>9. HeldOK'
  BY <1>1 DEF TiersOK, HeldOK, tables
<1>10. CountersExact'
  BY <1>1, <1>4, <1>5 DEF TiersOK, CountersExact, Pinned, Unpinned
<1> QED BY <1>6, <1>7, <1>8, <1>9, <1>10 DEF TiersOK

\* ... and written: no backward pass has come to its counters meanwhile.
LEMMA PinInsertedWriteKeeps ==
  ASSUME TiersOK, PinInsertedWrite
  PROVE  TiersOK'
<1> DEFINE S == pinning[1].slots
<1>1. /\ pinning # <<>> /\ pinning' = <<>> /\ pins' = Add(1, pinning[1].read)
      /\ DOMAIN pinning[1].read = S
      /\ UNCHANGED <<tables, queue, call, grads, work, issued>>
  BY DEF PinInsertedWrite
<1>2. S \in SUBSET Slot
  BY <1>1, Singles, KernelFields DEF TiersOK
<1>3. call = <<>> /\ \A i \in DOMAIN work : work[i].step = "update"
  BY <1>1 DEF TiersOK, OneAtATime
<1>4. ASSUME NEW s \in S PROVE pinning[1].read[s] = pins[s]
  <2>1. CASE pinning[1].read = <<>>
    <3>1. S = {}
      BY <1>1, <2>1
    <3> QED BY <3>1
  <2>2. CASE Fresh(S, pinning[1].read)
    BY <2>2 DEF Fresh
  <2> QED BY <1>1, <2>1, <2>2 DEF TiersOK, ReadsFresh
<1>5. pins \in [Slot -> Int]
  BY DEF TiersOK, TypeOK
<1>6. /\ pins' \in [Slot -> Int]
      /\ \A s \in Slot : pins'[s] = IF s \in S THEN pins[s] + 1 ELSE pins[s]
  BY <1>1, <1>2, <1>4, <1>5 DEF Add
<1>7. TypeOK'
  BY <1>1, <1>6 DEF TiersOK, TypeOK, tables
<1>8. OneAtATime'
  BY <1>1 DEF TiersOK, OneAtATime
<1>9. ReadsFresh'
  <2>1. work # <<>> => work[1].step = "update"
    BY <1>3, Singles DEF TiersOK
  <2> QED BY <1>1, <1>3, <2>1 DEF ReadsFresh
<1>10. HeldOK'
  BY <1>1 DEF TiersOK, HeldOK, tables
<1>11. CountersExact'
  <2>1. ASSUME NEW s \in Slot
        PROVE  pins'[s] = Count(queue', Using(s)) + Count(grads', Using(s)) + Count(Batches(work'), Using(s))
                          + Pinned(s)' - Unpinned(s)'
    <3>1. pins[s] \in Int /\ Count(queue, Using(s)) \in Nat /\ Count(grads, Using(s)) \in Nat
          /\ Count(Batches(work), Using(s)) \in Nat
      BY CountNat, BatchesProps DEF TiersOK, TypeOK
    <3>2. Pinned(s)' = 0 /\ Pinned(s) = 0
      BY <1>1, <1>3 DEF Pinned
    <3>3. Unpinned(s)' = 0 /\ Unpinned(s) = IF s \in S THEN 1 ELSE 0
      BY <1>1 DEF Unpinned
    <3>4. pins[s] = Count(queue, Using(s)) + Count(grads, Using(s)) + Count(Batches(work), Using(s))
                    + Pinned(s) - Unpinned(s)
      BY DEF TiersOK, CountersExact
    <3> QED BY <1>1, <1>6, <3>1, <3>2, <3>3, <3>4
  <2> QED BY <2>1 DEF CountersExact
<1> QED BY <1>7, <1>8, <1>9, <1>10, <1>11 DEF TiersOK

\* The oldest batch goes from the queue to its training step.
LEMMA ForwardKeeps ==
  ASSUME TiersOK, Forward
  PROVE  TiersOK'
<1>1. /\ call = <<>> /\ queue # <<>> /\ grads = <<>> /\ queue' = Tail(queue)
      /\ grads' = <<Head(queue)>> /\ UNCHANGED <<tables, pins, call, pinning, work, issued>>
  BY DEF Forward
<1>2. /\ queue \in Seq(SlotMap) /\ queue[1] \in SlotMap /\ Head(queue) = queue[1]
      /\ 1 \in DOMAIN queue
  BY <1>1, Singles DEF TiersOK, TypeOK
<1>3. /\ queue' \in Seq(SlotMap)
      /\ \A i \in DOMAIN queue' : i + 1 \in DOMAIN queue /\ queue'[i] = queue[i + 1]
  BY <1>1, <1>2
<1>4. grads' = <<queue[1]>> /\ grads' \in Seq(SlotMap) /\ Len(grads') = 1
  BY <1>1, <1>2
<1>5. TypeOK'
  BY <1>1, <1>3, <1>4 DEF TiersOK, TypeOK, tables
<1>6. OneAtATime'
  BY <1>1 DEF TiersOK, OneAtATime
<1>7. ReadsFresh'
  BY <1>1 DEF TiersOK, ReadsFresh, Fresh
<1>8. HeldOK'
  <2>1. Holds(cached, queue[1]) /\ \A i \in DOMAIN queue' : Holds(cached, queue'[i])
    BY <1>2, <1>3 DEF TiersOK, HeldOK
  <2>2. \A i \in DOMAIN grads' : grads'[i] = queue[1]
    BY <1>4
  <2> QED BY <1>1, <2>1, <2>2 DEF TiersOK, HeldOK, tables
<1>9. CountersExact'
  <2>1. ASSUME NEW s \in Slot
        PROVE  pins'[s] = Count(queue', Using(s)) + Count(grads', Using(s)) + Count(Batches(work'), Using(s))
                          + Pinned(s)' - Unpinned(s)'
    <3>1. /\ pins[s] \in Int /\ Count(queue', Using(s)) \in Nat /\ Count(queue, Using(s)) \in Nat
          /\ Count(Batches(work), Using(s)) \in Nat
      BY <1>3, CountNat, BatchesProps DEF TiersOK, TypeOK
    <3>2. Count(queue, Using(s)) = (IF queue[1] \in Using(s) THEN 1 ELSE 0) + Count(queue', Using(s))
      BY <1>1, <1>2, CountHead
    <3>3. Count(grads, Using(s)) = 0
      BY <1>1, CountHead DEF TiersOK, TypeOK
    <3>4. Count(grads', Using(s)) = IF queue[1] \in Using(s) THEN 1 ELSE 0
      BY <1>4, CountOne
    <3>5. Pinned(s)' = Pinned(s) /\ Unpinned(s)' = Unpinned(s) /\ Pinned(s) \in {0, 1} /\ Unpinned(s) \in {0, 1}
      BY <1>1 DEF Pinned, Unpinned
    <3>6. pins[s] = Count(queue, Using(s)) + Count(grads, Using(s)) + Count(Batches(work), Using(s))
                    + Pinned(s) - Unpinned(s)
      BY DEF TiersOK, CountersExact
    <3> QED BY <1>1, <3>1, <3>2, <3>3, <3>4, <3>5, <3>6
  <2> QED BY <2>1 DEF CountersExact
<1> QED BY <1>5, <1>6, <1>7, <1>8, <1>9 DEF TiersOK

\* Its backward pass is queued behind the counter kernels so far.
LEMMA BackwardKeeps ==
  ASSUME TiersOK, Backward
  PROVE  TiersOK'
<1> DEFINE x == [batch |-> grads[1], after |-> issued, step |-> "update", read |-> <<>>]
<1>1. /\ call = <<>> /\ grads # <<>> /\ work' = Append(work, x) /\ grads' = <<>>
      /\ UNCHANGED <<tables, pins, queue, call, pinning, issued>>
  BY DEF Backward
<1>2. grads = <<grads[1]>> /\ grads[1] \in SlotMap /\ issued \in Nat /\ work \in Seq(Pass)
  BY <1>1, Singles DEF TiersOK, TypeOK
<1>3. x \in Pass /\ x.batch = grads[1] /\ x.after = issued /\ x.step = "update"
  BY <1>2, EmptyReading DEF Pass
<1> HIDE DEF x
<1>4. /\ work' \in Seq(Pass)
      /\ \A i \in DOMAIN work' : (i \in DOMAIN work /\ work'[i] = work[i]) \/ work'[i] = x
      /\ work # <<>> => work'[1] = work[1]
      /\ work = <<>> => work'[1] = x
  BY <1>1, <1>2, <1>3
<1>5. TypeOK'
  BY <1>1, <1>4 DEF TiersOK, TypeOK, tables
<1>6. OneAtATime'
  <2>1. pinning # <<>> => pinning[1].n \in Nat /\ pinning[1].n <= issued
    BY Singles, KernelFields DEF TiersOK, OneAtATime
  <2> QED BY <1>1, <1>2, <1>3, <1>4, <2>1 DEF TiersOK, OneAtATime
<1>7. ReadsFresh'
  BY <1>1, <1>3, <1>4 DEF TiersOK, ReadsFresh, Fresh
<1>8. HeldOK'
  <2>1. Holds(cached, grads[1])
    <3>1. 1 \in DOMAIN grads
      BY <1>2
    <3> QED BY <3>1 DEF TiersOK, HeldOK
  <2> QED BY <1>1, <1>3, <1>4, <2>1 DEF TiersOK, HeldOK, tables
<1>9. CountersExact'
  <2>1. ASSUME NEW s \in Slot
        PROVE  pins'[s] = Count(queue', Using(s)) + Count(grads', Using(s)) + Count(Batches(work'), Using(s))
                          + Pinned(s)' - Unpinned(s)'
    <3>1. /\ pins[s] \in Int /\ Count(queue, Using(s)) \in Nat
          /\ Count(Batches(work), Using(s)) \in Nat
      BY CountNat, BatchesProps DEF TiersOK, TypeOK
    <3>2. Batches(work') = Append(Batches(work), grads[1]) /\ Batches(work) \in Seq(SlotMap)
      BY <1>1, <1>2, <1>3, BatchesProps
    <3>3. Count(Batches(work'), Using(s)) = Count(Batches(work), Using(s))
                                            + IF grads[1] \in Using(s) THEN 1 ELSE 0
      BY <1>2, <3>2, CountAppend
    <3>4. Count(grads', Using(s)) = 0
      BY <1>1, <1>2, CountHead DEF TiersOK, TypeOK
    <3>5. Count(grads, Using(s)) = IF grads[1] \in Using(s) THEN 1 ELSE 0
      BY <1>2, CountOne
    <3>6. Pinned(s)' = Pinned(s) /\ Unpinned(s)' = Unpinned(s) /\ Pinned(s) \in {0, 1} /\ Unpinned(s) \in {0, 1}
      BY <1>1 DEF Pinned, Unpinned
    <3>7. pins[s] = Count(queue, Using(s)) + Count(grads, Using(s)) + Count(Batches(work), Using(s))
                    + Pinned(s) - Unpinned(s)
      BY DEF TiersOK, CountersExact
    <3> QED BY <1>1, <3>1, <3>3, <3>4, <3>5, <3>6, <3>7
  <2> QED BY <2>1 DEF CountersExact
<1> QED BY <1>5, <1>6, <1>7, <1>8, <1>9 DEF TiersOK

\* The oldest pass goes on to its next kernel.
LEMMA SteppedProps ==
  ASSUME work \in Seq(Pass), work # <<>>,
         NEW step \in {"update", "unpin", "write"}, NEW read \in Reading
  PROVE  LET w == Stepped(step, read)
         IN  /\ w \in Seq(Pass) /\ Len(w) = Len(work) /\ w # <<>> /\ DOMAIN w = DOMAIN work
             /\ w[1].batch = work[1].batch /\ w[1].after = work[1].after
             /\ w[1].step = step /\ w[1].read = read
             /\ \A i \in DOMAIN work : i # 1 => w[i] = work[i]
             /\ Batches(w) = Batches(work)
<1> DEFINE w == Stepped(step, read)
           x == [work[1] EXCEPT !.step = step, !.read = read]
<1>1. work[1] \in Pass /\ 1 \in DOMAIN work
  OBVIOUS
<1>2. x \in Pass /\ x.batch = work[1].batch /\ x.after = work[1].after /\ x.step = step /\ x.read = read
  BY <1>1 DEF Pass
<1>3. w = [work EXCEPT ![1] = x]
  BY <1>1 DEF Stepped
<1> HIDE DEF x, w
<1>4. /\ w \in Seq(Pass) /\ Len(w) = Len(work) /\ DOMAIN w = DOMAIN work /\ w[1] = x
      /\ \A i \in DOMAIN work : i # 1 => w[i] = work[i]
  BY <1>1, <1>2, <1>3
<1>5. w # <<>>
  BY <1>1, <1>4
<1>6. Batches(w) = Batches(work)
  BY <1>2, <1>4 DEF Batches
<1> QED BY <1>2, <1>4, <1>5, <1>6 DEF w

\* The update runs after the counter kernels of earlier prefetches.
LEMMA NothingPinning ==
  ASSUME TiersOK, work # <<>>, Reached \/ Head(work).step # "update"
  PROVE  pinning = <<>> /\ call = <<>>
<1>1. call = <<>>
  BY DEF TiersOK, OneAtATime
<1>2. work[1] \in Pass /\ Head(work) = work[1] /\ 1 \in DOMAIN work /\ work[1].after \in Nat
  BY Singles, PassFields DEF TiersOK
<1>3. ASSUME pinning # <<>> PROVE FALSE
  <2>1. pinning = <<pinning[1]>> /\ pinning[1].n \in Nat
    BY <1>3, Singles, KernelFields DEF TiersOK
  <2>2. 1 \in DOMAIN pinning
    BY <2>1
  <2>3. work[1].step = "update" /\ work[1].after >= pinning[1].n
    BY <1>2, <1>3 DEF TiersOK, OneAtATime
  <2> QED BY <1>2, <2>1, <2>2, <2>3 DEF Reached
<1> QED BY <1>1, <1>3

\* The optimizer changes values only.
LEMMA UpdateKeeps ==
  ASSUME TiersOK, Update
  PROVE  TiersOK'
<1>1. /\ work # <<>> /\ Head(work).step = "update" /\ Reached /\ work' = Stepped("unpin", <<>>)
      /\ UNCHANGED <<cached, pins, queue, call, pinning, grads, issued>>
  BY DEF Update
<1>2. pinning = <<>> /\ call = <<>>
  BY <1>1, NothingPinning
<1>3. /\ work' \in Seq(Pass) /\ Len(work') = Len(work) /\ work' # <<>> /\ DOMAIN work' = DOMAIN work
      /\ work'[1].batch = work[1].batch /\ work'[1].step = "unpin"
      /\ \A i \in DOMAIN work : i # 1 => work'[i] = work[i]
      /\ Batches(work') = Batches(work)
  BY <1>1, SteppedProps, EmptyReading DEF TiersOK, TypeOK
<1>4. TypeOK'
  BY <1>1, <1>3 DEF TiersOK, TypeOK
<1>5. OneAtATime'
  BY <1>1, <1>2, <1>3 DEF TiersOK, OneAtATime
<1>6. ReadsFresh'
  BY <1>1, <1>2, <1>3 DEF ReadsFresh
<1>7. HeldOK'
  BY <1>1, <1>2, <1>3 DEF TiersOK, HeldOK
<1>8. CountersExact'
  BY <1>1, <1>3 DEF TiersOK, CountersExact, Pinned, Unpinned
<1> QED BY <1>4, <1>5, <1>6, <1>7, <1>8 DEF TiersOK

\* The counters of the batch are read.
LEMMA UnpinReadKeeps ==
  ASSUME TiersOK, UnpinRead
  PROVE  TiersOK'
<1> DEFINE r == [s \in Slots(Head(work).batch) |-> pins[s]]
<1>1. /\ work # <<>> /\ Head(work).step = "unpin" /\ work' = Stepped("write", r)
      /\ UNCHANGED <<tables, pins, queue, call, pinning, grads, issued>>
  BY DEF UnpinRead
<1>2. pinning = <<>> /\ call = <<>>
  BY <1>1, NothingPinning
<1>3. Head(work) = work[1] /\ work[1].batch \in SlotMap
  BY <1>1, Singles, PassFields DEF TiersOK
<1>4. Slots(work[1].batch) \in SUBSET Slot
  BY <1>3, SlotsType
<1>5. r \in Reading /\ r = [s \in Slots(work[1].batch) |-> pins[s]]
  BY <1>3, <1>4, SomeReading DEF TiersOK, TypeOK
<1> HIDE DEF r
<1>6. /\ work' \in Seq(Pass) /\ Len(work') = Len(work) /\ work' # <<>> /\ DOMAIN work' = DOMAIN work
      /\ work'[1].batch = work[1].batch /\ work'[1].step = "write" /\ work'[1].read = r
      /\ \A i \in DOMAIN work : i # 1 => work'[i] = work[i]
      /\ Batches(work') = Batches(work)
  <2>1. work \in Seq(Pass) /\ "write" \in {"update", "unpin", "write"}
    BY DEF TiersOK, TypeOK
  <2>2. work # <<>> /\ work' = Stepped("write", r) /\ r \in Reading
    BY <1>1, <1>5
  <2> QED BY <2>1, <2>2, SteppedProps
<1>7. TypeOK'
  BY <1>1, <1>6 DEF TiersOK, TypeOK, tables
<1>8. OneAtATime'
  BY <1>1, <1>2, <1>6 DEF TiersOK, OneAtATime
<1>9. ReadsFresh'
  BY <1>1, <1>2, <1>5, <1>6 DEF ReadsFresh, Fresh
<1>10. HeldOK'
  BY <1>1, <1>2, <1>6 DEF TiersOK, HeldOK, tables
<1>11. CountersExact'
  BY <1>1, <1>6 DEF TiersOK, CountersExact, Pinned, Unpinned
<1> QED BY <1>7, <1>8, <1>9, <1>10, <1>11 DEF TiersOK

\* ... and written, and the batch is done.
LEMMA UnpinWriteKeeps ==
  ASSUME TiersOK, UnpinWrite
  PROVE  TiersOK'
<1> DEFINE S == Slots(work[1].batch)
<1>1. /\ work # <<>> /\ Head(work).step = "write" /\ pins' = Add(-1, Head(work).read)
      /\ work' = Tail(work) /\ UNCHANGED <<tables, queue, call, pinning, grads, issued>>
  BY DEF UnpinWrite
<1>2. pinning = <<>> /\ call = <<>>
  BY <1>1, NothingPinning
<1>3. /\ Head(work) = work[1] /\ 1 \in DOMAIN work /\ work \in Seq(Pass) /\ work[1].batch \in SlotMap
  BY <1>1, Singles, PassFields DEF TiersOK, TypeOK
<1>4. S \in SUBSET Slot /\ work[1].read = [s \in S |-> pins[s]]
  BY <1>1, <1>3, SlotsType DEF TiersOK, ReadsFresh, Fresh
<1> HIDE DEF S
<1>5. /\ pins' \in [Slot -> Int]
      /\ \A s \in Slot : pins'[s] = IF s \in S THEN pins[s] - 1 ELSE pins[s]
  BY <1>1, <1>3, <1>4 DEF Add, TiersOK, TypeOK
<1>6. /\ work' \in Seq(Pass)
      /\ \A i \in DOMAIN work' : i + 1 \in DOMAIN work /\ i + 1 # 1 /\ work'[i] = work[i + 1]
  BY <1>1, <1>3
<1>7. \A i \in DOMAIN work' : work'[i].step = "update"
  BY <1>6 DEF TiersOK, OneAtATime
<1>8. TypeOK'
  BY <1>1, <1>5, <1>6 DEF TiersOK, TypeOK, tables
<1>9. OneAtATime'
  BY <1>1, <1>2, <1>7 DEF OneAtATime
<1>10. ReadsFresh'
  <2>1. work' # <<>> => 1 \in DOMAIN work'
    BY <1>6
  <2> QED BY <1>1, <1>2, <1>7, <2>1 DEF ReadsFresh
<1>11. HeldOK'
  BY <1>1, <1>2, <1>6 DEF TiersOK, HeldOK, tables
<1>12. CountersExact'
  <2>1. ASSUME NEW s \in Slot
        PROVE  pins'[s] = Count(queue', Using(s)) + Count(grads', Using(s)) + Count(Batches(work'), Using(s))
                          + Pinned(s)' - Unpinned(s)'
    <3>1. /\ pins[s] \in Int /\ Count(queue, Using(s)) \in Nat /\ Count(grads, Using(s)) \in Nat
          /\ Count(Batches(work'), Using(s)) \in Nat
      BY <1>6, CountNat, BatchesProps DEF TiersOK, TypeOK
    <3>2. /\ Batches(work') = Tail(Batches(work)) /\ Batches(work) \in Seq(SlotMap)
          /\ Len(Batches(work)) = Len(work) /\ Len(work) # 0 /\ Batches(work)[1] = work[1].batch
      BY <1>1, <1>3, BatchesProps
    <3>3. Batches(work) # <<>>
      BY <3>2
    <3>4. Count(Batches(work), Using(s)) = (IF work[1].batch \in Using(s) THEN 1 ELSE 0)
                                            + Count(Batches(work'), Using(s))
      BY <3>2, <3>3, CountHead
    <3>5. work[1].batch \in Using(s) <=> s \in S
      BY <1>3, SlotsType DEF S
    <3>6. Pinned(s)' = 0 /\ Unpinned(s)' = 0 /\ Pinned(s) = 0 /\ Unpinned(s) = 0
      BY <1>1, <1>2 DEF Pinned, Unpinned
    <3>7. pins[s] = Count(queue, Using(s)) + Count(grads, Using(s)) + Count(Batches(work), Using(s))
                    + Pinned(s) - Unpinned(s)
      BY DEF TiersOK, CountersExact
    <3> QED BY <1>1, <1>5, <3>1, <3>4, <3>5, <3>6, <3>7
  <2> QED BY <2>1 DEF CountersExact
<1> QED BY <1>8, <1>9, <1>10, <1>11, <1>12 DEF TiersOK

\* A flush copies values; a reset happens with no batch in flight.
LEMMA FlushResetKeeps ==
  ASSUME TiersOK, Flush \/ ResetCacheStates \/ UNCHANGED vars
  PROVE  TiersOK'
<1>1. CASE Flush \/ UNCHANGED vars
  <2>1. UNCHANGED <<cached, pins, queue, call, pinning, grads, work, issued>>
    BY <1>1 DEF Flush, vars
  <2>2. TypeOK'
    BY <2>1 DEF TiersOK, TypeOK
  <2>3. OneAtATime'
    BY <2>1 DEF TiersOK, OneAtATime
  <2>4. ReadsFresh'
    BY <2>1 DEF TiersOK, ReadsFresh, Fresh
  <2>5. HeldOK'
    BY <2>1 DEF TiersOK, HeldOK
  <2>6. CountersExact'
    BY <2>1 DEF TiersOK, CountersExact, Pinned, Unpinned
  <2> QED BY <2>2, <2>3, <2>4, <2>5, <2>6 DEF TiersOK
<1>2. CASE ResetCacheStates
  <2>1. /\ call = <<>> /\ work = <<>> /\ queue = <<>> /\ grads = <<>> /\ pinning = <<>>
        /\ cached' = [s \in Slot |-> NoKey] /\ pins' = [s \in Slot |-> 0]
        /\ UNCHANGED <<queue, call, pinning, grads, work, issued>>
    BY <1>2 DEF ResetCacheStates
  <2>2. TypeOK'
    BY <2>1 DEF TiersOK, TypeOK
  <2>3. OneAtATime'
    BY <2>1 DEF TiersOK, OneAtATime
  <2>4. ReadsFresh'
    BY <2>1 DEF ReadsFresh
  <2>5. HeldOK'
    BY <2>1 DEF HeldOK
  <2>6. CountersExact'
    <3>1. Batches(work) = <<>> /\ <<>> \in Seq(SlotMap)
      BY <2>1 DEF Batches
    <3>2. \A s \in Slot : Count(<<>>, Using(s)) = 0
      BY <3>1, CountHead
    <3>3. \A s \in Slot : Pinned(s)' = 0 /\ Unpinned(s)' = 0
      BY <2>1 DEF Pinned, Unpinned
    <3> QED BY <2>1, <3>1, <3>2, <3>3 DEF CountersExact
  <2> QED BY <2>2, <2>3, <2>4, <2>5, <2>6 DEF TiersOK
<1> QED BY <1>1, <1>2

\* The initial state: an empty cache and no batch.
LEMMA InitTiers == Init => TiersOK
<1> SUFFICES ASSUME Init PROVE TiersOK
  OBVIOUS
<1>1. /\ call = <<>> /\ work = <<>> /\ queue = <<>> /\ grads = <<>> /\ pinning = <<>>
      /\ cached = [s \in Slot |-> NoKey] /\ pins = [s \in Slot |-> 0] /\ issued = 0
  BY DEF Init
<1>2. TypeOK
  BY <1>1 DEF TypeOK
<1>3. OneAtATime /\ ReadsFresh
  BY <1>1 DEF OneAtATime, ReadsFresh
<1>4. HeldOK
  BY <1>1 DEF HeldOK
<1>5. CountersExact
  <2>1. Batches(work) = <<>> /\ <<>> \in Seq(SlotMap)
    BY <1>1 DEF Batches
  <2>2. \A s \in Slot : Count(<<>>, Using(s)) = 0
    BY <2>1, CountHead
  <2>3. \A s \in Slot : Pinned(s) = 0 /\ Unpinned(s) = 0
    BY <1>1 DEF Pinned, Unpinned
  <2> QED BY <1>1, <2>1, <2>2, <2>3 DEF CountersExact
<1> QED BY <1>2, <1>3, <1>4, <1>5 DEF TiersOK

-----------------------------------------------------------------------------
(* Exact counters and rows that stay.                                      *)

\* Every step keeps the invariant, on one stream.
LEMMA TiersStep ==
  ASSUME ~Overlap, TiersOK, [Next]_vars
  PROVE  TiersOK'
<1>1. CASE \E keys \in Batch : Prefetch(keys)
  BY <1>1, PrefetchKeeps
<1>2. CASE \E keys \in Batch : PrefetchRaises(keys)
  BY <1>2, RaisesKeeps
<1>3. CASE PinHitsRead
  BY <1>3, PinHitsReadKeeps
<1>4. CASE PinHitsWrite
  BY <1>4, PinHitsWriteKeeps
<1>5. CASE Insert
  BY <1>5, InsertKeeps
<1>6. CASE PinInsertedRead
  BY <1>6, PinInsertedReadKeeps
<1>7. CASE PinInsertedWrite
  BY <1>7, PinInsertedWriteKeeps
<1>8. CASE Forward
  BY <1>8, ForwardKeeps
<1>9. CASE Backward
  BY <1>9, BackwardKeeps
<1>10. CASE Update
  BY <1>10, UpdateKeeps
<1>11. CASE UnpinRead
  BY <1>11, UnpinReadKeeps
<1>12. CASE UnpinWrite
  BY <1>12, UnpinWriteKeeps
<1>13. CASE Flush \/ ResetCacheStates \/ UNCHANGED vars
  BY <1>13, FlushResetKeeps
<1> QED BY <1>1, <1>2, <1>3, <1>4, <1>5, <1>6, <1>7, <1>8, <1>9, <1>10, <1>11, <1>12, <1>13 DEF Next

\* With prefetch and training on one stream, the counter kernels exclude each
\* other, what they read is current, the slots of a batch hold its keys, and the
\* counters are exact.
THEOREM TiersInvariant ==
  ASSUME ~Overlap
  PROVE  Spec => []TiersOK
<1>1. Init => TiersOK
  BY InitTiers
<1>2. TiersOK /\ [Next]_vars => TiersOK'
  BY TiersStep
<1> QED BY <1>1, <1>2, PTL DEF Spec

\* The batches in flight, in their three places.
LEMMA InFlightProps ==
  ASSUME TiersOK
  PROVE  /\ InFlight \in Seq(SlotMap)
         /\ \A S : Count(InFlight, S) = Count(queue, S) + Count(grads, S) + Count(Batches(work), S)
         /\ \A i \in DOMAIN InFlight : Holds(cached, InFlight[i])
<1> DEFINE w == Batches(work)
<1>1. queue \in Seq(SlotMap) /\ grads \in Seq(SlotMap) /\ work \in Seq(Pass)
  BY DEF TiersOK, TypeOK
<1>2. w \in Seq(SlotMap) /\ Len(w) = Len(work) /\ \A i \in 1..Len(work) : w[i] = work[i].batch
  BY <1>1, BatchesProps
<1>3. InFlight = (queue \o grads) \o w
  BY DEF InFlight, Batches
<1> HIDE DEF w
<1>4. queue \o grads \in Seq(SlotMap) /\ InFlight \in Seq(SlotMap)
  BY <1>1, <1>2, <1>3
<1>5. ASSUME NEW S PROVE Count(InFlight, S) = Count(queue, S) + Count(grads, S) + Count(w, S)
  <2>1. Count(InFlight, S) = Count(queue \o grads, S) + Count(w, S)
    BY <1>2, <1>3, <1>4, CountConcat
  <2>2. Count(queue \o grads, S) = Count(queue, S) + Count(grads, S)
    BY <1>1, CountConcat
  <2> QED BY <2>1, <2>2
<1>6. /\ \A i \in DOMAIN queue : Holds(cached, queue[i])
      /\ \A i \in DOMAIN grads : Holds(cached, grads[i])
      /\ \A i \in DOMAIN w : Holds(cached, w[i])
  BY <1>1, <1>2 DEF TiersOK, HeldOK
<1>7. \A i \in DOMAIN (queue \o grads) : Holds(cached, (queue \o grads)[i])
  <2>1. ASSUME NEW i \in DOMAIN (queue \o grads)
        PROVE  \/ i \in DOMAIN queue /\ (queue \o grads)[i] = queue[i]
               \/ i - Len(queue) \in DOMAIN grads /\ (queue \o grads)[i] = grads[i - Len(queue)]
    BY <1>1
  <2> QED BY <1>6, <2>1
<1>8. \A i \in DOMAIN InFlight : Holds(cached, InFlight[i])
  <2> DEFINE p == queue \o grads
  <2> HIDE DEF p
  <2>1. p \in Seq(SlotMap) /\ InFlight = p \o w /\ \A i \in DOMAIN p : Holds(cached, p[i])
    BY <1>3, <1>4, <1>7 DEF p
  <2>2. ASSUME NEW i \in DOMAIN (p \o w)
        PROVE  \/ i \in DOMAIN p /\ (p \o w)[i] = p[i]
               \/ i - Len(p) \in DOMAIN w /\ (p \o w)[i] = w[i - Len(p)]
    BY <1>2, <2>1
  <2> QED BY <1>6, <2>1, <2>2
<1> QED BY <1>4, <1>5, <1>8 DEF w

\* On one stream a row that a batch in flight uses is not evicted and its slot
\* is not given to another key, from the prefetch to the end of the backward
\* pass.  (On two streams counter_race shows that it may be.)
THEOREM RowsStay ==
  ASSUME ~Overlap
  PROVE  Spec => []HeldRowsStay
<1>1. TiersOK => HeldRowsStay
  BY InFlightProps DEF HeldRowsStay, Holds
<1> QED BY <1>1, TiersInvariant, PTL

\* The cardinality of a selection from a sequence of one element at most.
LEMMA OneOrNone ==
  ASSUME NEW T, NEW q \in Seq(T), Len(q) <= 1, NEW I \in SUBSET DOMAIN q
  PROVE  Cardinality(I) = IF q # <<>> /\ 1 \in I THEN 1 ELSE 0
<1>1. CASE q = <<>>
  <2>1. I = {}
    BY <1>1
  <2> QED BY <1>1, <2>1, FS_EmptySet
<1>2. CASE q # <<>>
  <2>1. q = <<q[1]>>
    BY <1>2, AtMostOne
  <2>2. DOMAIN q = {1}
    BY <2>1
  <2>3. CASE 1 \in I
    <3>1. I = {1}
      BY <2>2, <2>3
    <3> QED BY <1>2, <2>3, <3>1, FS_Singleton
  <2>4. CASE 1 \notin I
    <3>1. I = {}
      BY <2>2, <2>4
    <3> QED BY <2>4, <3>1, FS_EmptySet
  <2> QED BY <2>3, <2>4
<1> QED BY <1>1, <1>2

\* On one stream the reference counter of a slot is the number of batches in
\* flight that use it, whatever was prefetched, refused, trained or reset.
THEOREM CountersMatch ==
  ASSUME ~Overlap
  PROVE  Spec => []PinsMatch
<1>1. ASSUME TiersOK, NEW s \in Slot
      PROVE  pins[s] = Cardinality({i \in DOMAIN InFlight : s \in Slots(InFlight[i])})
                       + Cardinality({i \in DOMAIN call : call[i].step = "pinned" /\ s \in Slots(call[i].found)})
                       - Cardinality({i \in DOMAIN pinning : s \in pinning[i].slots})
  <2> DEFINE C == {i \in DOMAIN call : call[i].step = "pinned" /\ s \in Slots(call[i].found)}
             P == {i \in DOMAIN pinning : s \in pinning[i].slots}
             F == {i \in DOMAIN InFlight : s \in Slots(InFlight[i])}
  <2>1. F = {i \in DOMAIN InFlight : InFlight[i] \in Using(s)}
    <3>1. \A i \in DOMAIN InFlight : InFlight[i] \in SlotMap
      BY <1>1, InFlightProps
    <3> QED BY <3>1, SlotsType
  <2>2. Cardinality(F) = Count(queue, Using(s)) + Count(grads, Using(s)) + Count(Batches(work), Using(s))
    BY <1>1, <2>1, InFlightProps DEF Count
  <2>3. call \in Seq(PrefetchCall) /\ Len(call) <= 1 /\ pinning \in Seq(Kernel) /\ Len(pinning) <= 1
    BY <1>1 DEF TiersOK, TypeOK
  <2>4. Cardinality(C) = IF call # <<>> /\ 1 \in C THEN 1 ELSE 0
    BY <2>3, OneOrNone
  <2>5. Cardinality(P) = IF pinning # <<>> /\ 1 \in P THEN 1 ELSE 0
    BY <2>3, OneOrNone
  <2>6. (call # <<>> => 1 \in DOMAIN call) /\ (pinning # <<>> => 1 \in DOMAIN pinning)
    BY <2>3
  <2>7. Cardinality(C) = Pinned(s)
    BY <2>4, <2>6 DEF Pinned
  <2>8. Cardinality(P) = Unpinned(s)
    BY <2>5, <2>6 DEF Unpinned
  <2> HIDE DEF C, P, F
  <2>9. pins[s] = Cardinality(F) + Cardinality(C) - Cardinality(P)
    BY <1>1, <2>2, <2>7, <2>8 DEF TiersOK, CountersExact
  <2> QED BY <2>9 DEF C, P, F
<1>2. TiersOK => PinsMatch
  BY <1>1 DEF PinsMatch
<1> QED BY <1>2, TiersInvariant, PTL

-----------------------------------------------------------------------------
(* No update is lost.                                                      *)

\* What is said of the tables, for a call that looks for the same keys or is over.
LEMMA UntouchedKeeps ==
  ASSUME CacheOK, ValuesOK, UNCHANGED tables,
         call' = <<>> \/ (/\ call # <<>>
                          /\ call'[1].keys = call[1].keys /\ call'[1].found = call[1].found)
  PROVE  CacheOK' /\ ValuesOK'
<1>1. UNCHANGED <<cached, row, stored, trained>>
  BY DEF tables
<1>2. CacheOK'
  BY <1>1 DEF CacheOK
<1>3. ValuesOK'
  BY <1>1 DEF ValuesOK
<1> QED BY <1>2, <1>3

\* A key that the lookup of a prefetch does not find is nowhere in the cache.
LEMMA PrefetchValues ==
  ASSUME TiersOK, CacheOK, ValuesOK, NEW keys \in Batch, Prefetch(keys)
  PROVE  CacheOK' /\ ValuesOK'
<1> DEFINE found == [k \in {j \in keys : Found(j) # {}} |-> CHOOSE s \in Found(k) : TRUE]
           c == [keys |-> keys, found |-> found, read |-> <<>>, step |-> "found"]
<1>1. UNCHANGED <<cached, row, stored, trained>> /\ call' = <<c>>
  BY DEF Prefetch, tables
<1>2. c.keys = keys /\ DOMAIN c.found = {j \in keys : Found(j) # {}}
  OBVIOUS
<1> HIDE DEF c
<1>3. call'[1] = c
  BY <1>1
<1>4. ASSUME NEW k \in keys \ DOMAIN c.found, NEW s \in Slot PROVE cached[s] # k
  <2>1. k \in Key /\ Found(k) = {}
    BY <1>2, <1>4, TiersAssumption
  <2>2. k # NoKey
    BY <2>1, Positive
  <2>3. cached[s] # NoKey => s \in Main(Home[cached[s]]) \cup Overflow
    BY DEF CacheOK
  <2> QED BY <2>1, <2>2, <2>3 DEF Found
<1>5. CacheOK'
  BY <1>1, <1>2, <1>3, <1>4 DEF CacheOK
<1>6. ValuesOK'
  BY <1>1 DEF ValuesOK
<1> QED BY <1>5, <1>6

\* An eviction writes its row back before the key can be fetched again, and a
\* fetched or new row starts from the updates its key has received.
LEMMA InsertValues ==
  ASSUME TiersOK, CacheOK, ValuesOK, RoomForAll, Insert
  PROVE  CacheOK' /\ ValuesOK'
<1> DEFINE owner(p, s) == {k \in DOMAIN p : p[k] = s}
<1>1. call # <<>> /\ call[1].step = "pinned" /\ call' = <<>> /\ trained' = trained
  BY DEF Insert
<1>2. PICK place \in Placements(InStorage \cup Admitted) :
        /\ cached' = Placed(place)
        /\ row' = [s \in Slot |-> IF owner(place, s) = {} THEN row[s]
                                  ELSE IF owner(place, s) \subseteq Admitted THEN 0
                                  ELSE stored[CHOOSE k \in owner(place, s) : TRUE]]
        /\ stored' = WriteBack(place)
  BY DEF Insert, Placed
<1>3. \A k \in DOMAIN place : place[k] # NoSlot
  BY <1>1, <1>2 DEF RoomForAll
<1>4. /\ place \in SlotMap /\ DOMAIN place = InStorage \cup Admitted /\ DOMAIN place \subseteq Key
      /\ \A k \in DOMAIN place :
            /\ place[k] \in Slot /\ place[k] \in Main(Home[k]) \cup Overflow
            /\ \A j \in DOMAIN place : place[j] = place[k] => j = k
            /\ \A s \in Slot : cached[s] # k
  BY <1>1, <1>2, <1>3, PlacementFacts DEF CacheOK
<1>5. /\ cached' \in [Slot -> Key \cup {NoKey}]
      /\ \A k \in DOMAIN place : cached'[place[k]] = k
      /\ \A s \in Slot \ Slots(place) : cached'[s] = cached[s]
  BY <1>1, <1>2, <1>3, PlacedProps DEF Holds
<1>6. \A s : s \in Slots(place) <=> \E k \in DOMAIN place : place[k] = s
  BY <1>3, <1>4, SlotsType
<1>7. /\ row \in [Slot -> Int] /\ stored \in [Key -> Int] /\ trained \in [Key -> Nat]
      /\ \A s \in Slot : cached[s] # NoKey => row[s] = trained[cached[s]]
      /\ \A k \in Key : (\A s \in Slot : cached[s] # k) =>
            stored[k] = trained[k] \/ (stored[k] = Absent /\ trained[k] = 0)
      /\ cached \in [Slot -> Key \cup {NoKey}]
  BY DEF ValuesOK, TiersOK, TypeOK
<1>8. ASSUME NEW k \in DOMAIN place PROVE row'[place[k]] = trained[k]
  <2>1. owner(place, place[k]) = {k} /\ place[k] \in Slot /\ k \in Key
    BY <1>4
  <2>2. row'[place[k]] = IF k \in Admitted THEN 0 ELSE stored[k]
    BY <1>2, <2>1
  <2>3. stored[k] = trained[k] \/ (stored[k] = Absent /\ trained[k] = 0)
    BY <1>4, <1>7, <2>1
  <2>4. k \in Admitted => stored[k] = Absent
    BY DEF Admitted, InStorage
  <2>5. k \notin Admitted => stored[k] # Absent
    BY <1>4 DEF InStorage
  <2>6. trained[k] # Absent
    BY <1>7, <2>1 DEF Absent
  <2> QED BY <2>2, <2>3, <2>4, <2>5, <2>6
<1>9. ASSUME NEW s \in Slot \ Slots(place) PROVE row'[s] = row[s]
  <2>1. owner(place, s) = {}
    BY <1>6
  <2> QED BY <1>2, <2>1
<1>10. row' \in [Slot -> Int]
  <2>1. ASSUME NEW s \in Slot PROVE row'[s] \in Int
    <3>1. CASE s \in Slots(place)
      <4>1. PICK k \in DOMAIN place : place[k] = s
        BY <1>6, <3>1
      <4>2. k \in Key /\ trained[k] \in Int
        BY <1>4, <1>7
      <4> QED BY <1>8, <4>1, <4>2
    <3>2. CASE s \notin Slots(place)
      BY <1>7, <1>9, <3>2
    <3> QED BY <3>1, <3>2
  <2>2. row' = [s \in Slot |-> row'[s]]
    BY <1>2
  <2> QED BY <2>1, <2>2
<1>11. ASSUME NEW k \in Key, NEW t \in Slots(place), cached[t] = k PROVE stored'[k] = trained[k]
  <2> DEFINE u == CHOOSE s \in Slots(place) : cached[s] = k
  <2>1. stored'[k] = row[u]
    BY <1>2, <1>11 DEF WriteBack
  <2>2. u \in Slots(place) /\ cached[u] = k
    BY <1>11
  <2>3. u \in Slot /\ k # NoKey
    BY <1>4, <2>2, SlotsType, Positive
  <2> QED BY <1>7, <2>1, <2>2, <2>3
<1>12. ASSUME NEW k \in Key, \A t \in Slots(place) : cached[t] # k PROVE stored'[k] = stored[k]
  BY <1>2, <1>3, <1>12 DEF WriteBack
<1>13. stored' \in [Key -> Int]
  <2>1. ASSUME NEW k \in Key PROVE stored'[k] \in Int
    BY <1>7, <1>11, <1>12
  <2>2. stored' = [k \in Key |-> stored'[k]]
    BY <1>2 DEF WriteBack
  <2> QED BY <2>1, <2>2
<1>14. CacheOK'
  <2>1. ASSUME NEW s \in Slot, cached'[s] # NoKey
        PROVE  s \in Main(Home[cached'[s]]) \cup Overflow
    <3>1. CASE s \in Slots(place)
      BY <1>4, <1>5, <1>6, <3>1
    <3>2. CASE s \notin Slots(place)
      BY <1>5, <2>1, <3>2 DEF CacheOK
    <3> QED BY <3>1, <3>2
  <2>2. ASSUME NEW s \in Slot, NEW t \in Slot, cached'[s] # NoKey, cached'[s] = cached'[t]
        PROVE  s = t
    <3>1. CASE s \in Slots(place) /\ t \in Slots(place)
      BY <1>5, <1>6, <2>2, <3>1
    <3>2. CASE s \in Slots(place) /\ t \notin Slots(place)
      BY <1>4, <1>5, <1>6, <2>2, <3>2
    <3>3. CASE s \notin Slots(place) /\ t \in Slots(place)
      BY <1>4, <1>5, <1>6, <2>2, <3>3
    <3>4. CASE s \notin Slots(place) /\ t \notin Slots(place)
      BY <1>5, <2>2, <3>4 DEF CacheOK
    <3> QED BY <3>1, <3>2, <3>3, <3>4
  <2> QED BY <1>1, <2>1, <2>2 DEF CacheOK
<1>15. ASSUME NEW s \in Slot, cached'[s] # NoKey PROVE row'[s] = trained[cached'[s]]
  <2>1. CASE s \in Slots(place)
    BY <1>5, <1>6, <1>8, <2>1
  <2>2. CASE s \notin Slots(place)
    BY <1>5, <1>7, <1>9, <1>15, <2>2
  <2> QED BY <2>1, <2>2
<1>16. ASSUME NEW k \in Key, \A s \in Slot : cached'[s] # k
       PROVE  stored'[k] = trained[k] \/ (stored'[k] = Absent /\ trained[k] = 0)
  <2>1. CASE \E t \in Slots(place) : cached[t] = k
    BY <1>11, <2>1
  <2>2. CASE \A t \in Slots(place) : cached[t] # k
    <3>1. \A s \in Slot : cached[s] # k
      BY <1>5, <1>16, <2>2
    <3> QED BY <1>7, <1>12, <2>2, <3>1
  <2> QED BY <2>1, <2>2
<1>17. ValuesOK'
  BY <1>1, <1>7, <1>10, <1>13, <1>15, <1>16 DEF ValuesOK
<1> QED BY <1>14, <1>17

\* The optimizer finds the rows of the batch where the batch has them.
LEMMA UpdateValues ==
  ASSUME TiersOK, CacheOK, ValuesOK, Update
  PROVE  CacheOK' /\ ValuesOK'
<1> DEFINE b == work[1].batch
<1>1. /\ work # <<>> /\ UNCHANGED <<cached, stored, call>>
      /\ row' = [s \in Slot |-> IF s \in Slots(Head(work).batch) /\ row[s] # Junk
                                THEN row[s] + 1 ELSE row[s]]
      /\ trained' = [k \in Key |-> IF k \in DOMAIN Head(work).batch /\ Head(work).batch[k] # NoSlot
                                   THEN trained[k] + 1 ELSE trained[k]]
  BY DEF Update
<1>2. Head(work) = work[1] /\ b \in SlotMap /\ Holds(cached, b)
  BY <1>1, Singles, PassFields DEF TiersOK, HeldOK
<1> HIDE DEF b
<1>3. /\ row' = [s \in Slot |-> IF s \in Slots(b) /\ row[s] # Junk THEN row[s] + 1 ELSE row[s]]
      /\ trained' = [k \in Key |-> IF k \in DOMAIN b /\ b[k] # NoSlot THEN trained[k] + 1 ELSE trained[k]]
  BY <1>1, <1>2 DEF b
<1>4. /\ row \in [Slot -> Int] /\ stored \in [Key -> Int] /\ trained \in [Key -> Nat]
      /\ \A s \in Slot : cached[s] # NoKey => row[s] = trained[cached[s]]
      /\ \A k \in Key : (\A s \in Slot : cached[s] # k) =>
            stored[k] = trained[k] \/ (stored[k] = Absent /\ trained[k] = 0)
      /\ cached \in [Slot -> Key \cup {NoKey}]
      /\ \A s, t \in Slot : cached[s] # NoKey /\ cached[s] = cached[t] => s = t
  BY DEF ValuesOK, TiersOK, TypeOK, CacheOK
<1>5. row' \in [Slot -> Int] /\ trained' \in [Key -> Nat]
  BY <1>3, <1>4
<1>6. \A k \in DOMAIN b : b[k] # NoSlot => b[k] \in Slot /\ b[k] \in Slots(b) /\ cached[b[k]] = k
  BY <1>2, SlotsType DEF Holds
<1>7. ASSUME NEW s \in Slot, cached[s] # NoKey PROVE row'[s] = trained'[cached[s]]
  <2> DEFINE k == cached[s]
  <2>1. k \in Key /\ row[s] = trained[k] /\ row[s] # Junk
    BY <1>4, <1>7 DEF Junk
  <2>2. s \in Slots(b) <=> k \in DOMAIN b /\ b[k] # NoSlot
    <3>1. ASSUME s \in Slots(b) PROVE k \in DOMAIN b /\ b[k] # NoSlot
      <4>1. PICK j \in DOMAIN b : b[j] = s /\ s # NoSlot
        BY <1>2, <3>1, SlotsType
      <4> QED BY <1>6, <4>1
    <3>2. ASSUME k \in DOMAIN b, b[k] # NoSlot PROVE s \in Slots(b)
      BY <1>4, <1>6, <1>7, <3>2
    <3> QED BY <3>1, <3>2
  <2> QED BY <1>3, <2>1, <2>2
<1>8. ASSUME NEW k \in Key, \A s \in Slot : cached[s] # k
      PROVE  stored[k] = trained'[k] \/ (stored[k] = Absent /\ trained'[k] = 0)
  <2>1. ~(k \in DOMAIN b /\ b[k] # NoSlot)
    BY <1>6, <1>8
  <2>2. trained'[k] = trained[k]
    BY <1>3, <2>1
  <2> QED BY <1>4, <1>8, <2>2
<1>9. CacheOK'
  BY <1>1 DEF CacheOK
<1>10. ValuesOK'
  BY <1>1, <1>4, <1>5, <1>7, <1>8 DEF ValuesOK
<1> QED BY <1>9, <1>10

\* A flush leaves the cache as it is; a reset drops rows that the storage has.
LEMMA FlushResetValues ==
  ASSUME TiersOK, CacheOK, ValuesOK, Flush \/ ResetCacheStates
  PROVE  CacheOK' /\ ValuesOK'
<1>1. /\ row \in [Slot -> Int] /\ stored \in [Key -> Int] /\ trained \in [Key -> Nat]
      /\ \A s \in Slot : cached[s] # NoKey => row[s] = trained[cached[s]]
      /\ \A k \in Key : (\A s \in Slot : cached[s] # k) =>
            stored[k] = trained[k] \/ (stored[k] = Absent /\ trained[k] = 0)
  BY DEF ValuesOK
<1>2. CASE Flush
  <2>1. /\ UNCHANGED <<cached, row, trained, call>>
        /\ stored' = [k \in Key |-> IF \E s \in Slot : cached[s] = k
                                    THEN row[CHOOSE s \in Slot : cached[s] = k] ELSE stored[k]]
    BY <1>2 DEF Flush
  <2>2. ASSUME NEW k \in Key PROVE stored'[k] \in Int
    <3>1. CASE \E s \in Slot : cached[s] = k
      <4>1. (CHOOSE s \in Slot : cached[s] = k) \in Slot
        BY <3>1
      <4> QED BY <1>1, <2>1, <3>1, <4>1
    <3>2. CASE ~(\E s \in Slot : cached[s] = k)
      BY <1>1, <2>1, <3>2
    <3> QED BY <3>1, <3>2
  <2>3. stored' = [k \in Key |-> stored'[k]]
    BY <2>1
  <2>4. stored' \in [Key -> Int]
    BY <2>2, <2>3
  <2>5. \A k \in Key : (\A s \in Slot : cached[s] # k) => stored'[k] = stored[k]
    BY <2>1
  <2>6. CacheOK'
    BY <2>1 DEF CacheOK
  <2>7. ValuesOK'
    BY <1>1, <2>1, <2>4, <2>5 DEF ValuesOK
  <2> QED BY <2>6, <2>7
<1>3. CASE ResetCacheStates
  <2>1. /\ UNCHANGED <<row, stored, trained, call>> /\ call = <<>>
        /\ cached' = [s \in Slot |-> NoKey]
        /\ \A s \in Slot : cached[s] # NoKey => row[s] = stored[cached[s]]
    BY <1>3 DEF ResetCacheStates
  <2>2. ASSUME NEW k \in Key PROVE stored[k] = trained[k] \/ (stored[k] = Absent /\ trained[k] = 0)
    <3>1. ASSUME NEW s \in Slot, cached[s] = k PROVE stored[k] = trained[k]
      BY <1>1, <2>1, <3>1, Positive
    <3> QED BY <1>1, <3>1
  <2>3. CacheOK'
    BY <2>1 DEF CacheOK
  <2>4. ValuesOK'
    BY <1>1, <2>1, <2>2 DEF ValuesOK
  <2> QED BY <2>3, <2>4
<1> QED BY <1>2, <1>3

\* Every step keeps the values, when every key that is inserted finds a slot.
LEMMA ValuesStep ==
  ASSUME TiersOK, CacheOK, ValuesOK, RoomForAll, [Next]_vars
  PROVE  CacheOK' /\ ValuesOK'
<1>1. CASE \E keys \in Batch : Prefetch(keys)
  BY <1>1, PrefetchValues
<1>2. CASE Insert
  BY <1>2, InsertValues
<1>3. CASE Update
  BY <1>3, UpdateValues
<1>4. CASE Flush \/ ResetCacheStates
  BY <1>4, FlushResetValues
<1>5. CASE PinHitsRead \/ PinHitsWrite
  <2>1. PICK r, p : /\ call # <<>> /\ call' = <<[call[1] EXCEPT !.step = p, !.read = r]>>
                    /\ UNCHANGED tables
    <3>1. CASE PinHitsRead
      BY <3>1 DEF PinHitsRead, tables
    <3>2. CASE PinHitsWrite
      <4>1. call # <<>> /\ call' = <<[call[1] EXCEPT !.step = "pinned"]>> /\ UNCHANGED tables
        BY <3>2 DEF PinHitsWrite, tables
      <4>2. call[1] \in PrefetchCall
        BY <4>1, Singles DEF TiersOK
      <4>3. [call[1] EXCEPT !.step = "pinned"] = [call[1] EXCEPT !.step = "pinned", !.read = call[1].read]
        BY <4>2 DEF PrefetchCall
      <4> QED BY <4>1, <4>3
    <3> QED BY <1>5, <3>1, <3>2
  <2>2. call[1] \in PrefetchCall
    BY <2>1, Singles DEF TiersOK
  <2>3. call'[1].keys = call[1].keys /\ call'[1].found = call[1].found
    BY <2>1, <2>2 DEF PrefetchCall
  <2> QED BY <2>1, <2>3, UntouchedKeeps
<1>6. CASE \E keys \in Batch : PrefetchRaises(keys)
  <2>1. UNCHANGED <<tables, call>>
    BY <1>6 DEF PrefetchRaises, tables
  <2> QED BY <2>1, UntouchedKeeps, Singles DEF TiersOK
<1>7. CASE \/ PinInsertedRead \/ PinInsertedWrite \/ Forward \/ Backward \/ UnpinRead \/ UnpinWrite
           \/ UNCHANGED vars
  <2>1. UNCHANGED <<tables, call>>
    BY <1>7 DEF PinInsertedRead, PinInsertedWrite, Forward, Backward, UnpinRead, UnpinWrite, vars, tables
  <2> QED BY <2>1, UntouchedKeeps
<1> QED BY <1>1, <1>2, <1>3, <1>4, <1>5, <1>6, <1>7 DEF Next

\* The initial tables: an empty cache and the keys the storage was loaded with.
LEMMA InitValues == Init => CacheOK /\ ValuesOK
<1> SUFFICES ASSUME Init PROVE CacheOK /\ ValuesOK
  OBVIOUS
<1>1. /\ call = <<>> /\ cached = [s \in Slot |-> NoKey] /\ row = [s \in Slot |-> Junk]
      /\ stored = [k \in Key |-> IF k \in Loaded THEN 0 ELSE Absent] /\ trained = [k \in Key |-> 0]
  BY DEF Init
<1>2. CacheOK
  BY <1>1 DEF CacheOK
<1>3. ValuesOK
  BY <1>1 DEF ValuesOK, Junk, Absent
<1> QED BY <1>2, <1>3

\* With prefetch and training on one stream, as long as every key that a
\* prefetch inserts finds a slot, the value of a key, wherever a lookup finds it,
\* has received every optimizer update applied to the key.
THEOREM UpdatesKept ==
  ASSUME ~Overlap
  PROVE  Spec /\ []RoomForAll => []NoUpdateLost
<1>1. ASSUME TiersOK, CacheOK, ValuesOK PROVE NoUpdateLost
  <2>1. ASSUME NEW k \in Key PROVE Current(k) = trained[k]
    <3>1. trained[k] \in Nat /\ trained[k] # Absent /\ k # NoKey
      BY <1>1, Positive DEF ValuesOK, Absent
    <3>2. CASE \E s \in Slot : cached[s] = k
      <4> DEFINE t == CHOOSE s \in Slot : cached[s] = k
      <4>1. t \in Slot /\ cached[t] = k
        BY <3>2
      <4>2. Current(k) = row[t]
        BY <3>2 DEF Current
      <4> HIDE DEF t
      <4> QED BY <1>1, <3>1, <4>1, <4>2 DEF ValuesOK
    <3>3. CASE ~(\E s \in Slot : cached[s] = k)
      <4>1. Current(k) = IF stored[k] = Absent THEN 0 ELSE stored[k]
        BY <3>3 DEF Current
      <4>2. stored[k] = trained[k] \/ (stored[k] = Absent /\ trained[k] = 0)
        BY <1>1, <3>3 DEF ValuesOK
      <4> QED BY <3>1, <4>1, <4>2
    <3> QED BY <3>2, <3>3
  <2> QED BY <2>1 DEF NoUpdateLost
<1>2. Init => TiersOK /\ CacheOK /\ ValuesOK
  BY InitTiers, InitValues
<1>3. TiersOK /\ CacheOK /\ ValuesOK /\ RoomForAll /\ [Next]_vars => (TiersOK /\ CacheOK /\ ValuesOK)'
  BY TiersStep, ValuesStep
<1>4. TiersOK /\ CacheOK /\ ValuesOK => NoUpdateLost
  BY <1>1
<1> QED BY <1>2, <1>3, <1>4, PTL DEF Spec
=============================================================================
