----------------------------- MODULE ServingProofs -----------------------------
(***************************************************************************)
(* Proofs about the serving worker: the queues, the KV pools, the decode   *)
(* plan, the retained answers, and that continuous batching implements     *)
(* the request server.                                                     *)
(***************************************************************************)
EXTENDS ServingWorker, SequenceLemmas

-----------------------------------------------------------------------------
(* The pools.                                                              *)

\* A pool whose slots have at most one owner each.
PoolType(p) ==
    /\ p = [free |-> p.free, lease |-> p.lease]
    /\ p.free \subseteq Nat /\ IsFiniteSet(p.free)
    /\ DOMAIN p.lease \subseteq Request
    /\ p.lease \in [DOMAIN p.lease -> Nat]
OneOwner(p) ==
    /\ IsInjective(p.lease)
    /\ Range(p.lease) \cap p.free = {}
GoodPool(p) == PoolType(p) /\ OneOwner(p)

\* A new pool has no owners.
LEMMA PoolGood ==
  ASSUME NEW n \in Nat
  PROVE  GoodPool(Pool(n)) /\ DOMAIN Pool(n).lease = {}
<1>1. IsFiniteSet(0 .. n - 1)
  BY FS_Interval
<1>2. 0 .. n - 1 \subseteq Nat /\ DOMAIN << >> = {}
  OBVIOUS
<1> QED BY <1>1, <1>2 DEF Pool, GoodPool, PoolType, OneOwner, IsInjective, Range

\* Leasing a free slot to a request, which then owns that slot alone.
LEMMA LeaseGood ==
  ASSUME NEW p, GoodPool(p), NEW r \in Request, NEW slot \in p.free
  PROVE  /\ GoodPool(Lease(p, r, slot))
         /\ DOMAIN Lease(p, r, slot).lease = DOMAIN p.lease \cup {r}
         /\ Lease(p, r, slot).free = p.free \ {slot}
<1> DEFINE l == Lease(p, r, slot)
           D == DOMAIN p.lease \cup {r}
<1>1. /\ l = [free |-> l.free, lease |-> l.lease]
      /\ l.free = p.free \ {slot}
      /\ l.lease = [q \in D |-> IF q = r THEN slot ELSE p.lease[q]]
  BY DEF Lease
<1>2. slot \in Nat /\ \A q \in DOMAIN p.lease : p.lease[q] \in Nat
  BY DEF GoodPool, PoolType
<1>3. DOMAIN l.lease = D
  BY <1>1
<1>4. \A q \in D : l.lease[q] = IF q = r THEN slot ELSE p.lease[q]
  BY <1>1
<1>5. l.lease \in [D -> Nat]
  BY <1>1, <1>2
<1>6. IsFiniteSet(p.free \ {slot})
  BY FS_Difference DEF GoodPool, PoolType
<1> HIDE DEF l
<1>7. PoolType(l)
  BY <1>1, <1>3, <1>5, <1>6 DEF PoolType, GoodPool
<1>8. \A q \in DOMAIN p.lease : p.lease[q] # slot
  BY DEF GoodPool, OneOwner, Range
<1>9. IsInjective(l.lease)
  <2>1. \A a, b \in DOMAIN p.lease : p.lease[a] = p.lease[b] => a = b
    BY DEF GoodPool, OneOwner, IsInjective
  <2> QED BY <1>3, <1>4, <1>8, <2>1 DEF IsInjective
<1>10. Range(l.lease) \cap l.free = {}
  <2>1. \A q \in DOMAIN p.lease : p.lease[q] \notin p.free
    BY DEF GoodPool, OneOwner, Range
  <2> QED BY <1>1, <1>3, <1>4, <2>1 DEF Range
<1> QED BY <1>1, <1>3, <1>7, <1>9, <1>10 DEF l, GoodPool, OneOwner

\* Releasing the slots of some requests.
LEMMA ReleaseGood ==
  ASSUME NEW p, GoodPool(p), NEW S
  PROVE  /\ GoodPool(Release(p, S))
         /\ DOMAIN Release(p, S).lease = DOMAIN p.lease \ S
<1> DEFINE gone == S \cap DOMAIN p.lease
           l == Release(p, S)
           back == {p.lease[r] : r \in gone}
<1>1. /\ l = [free |-> l.free, lease |-> l.lease]
      /\ l.free = p.free \cup back
      /\ l.lease = [q \in DOMAIN p.lease \ gone |-> p.lease[q]]
  BY DEF Release, Restrict
<1>2. back \subseteq Nat
  BY DEF GoodPool, PoolType
<1>3. IsFiniteSet(back)
  <2>1. IsFiniteSet(gone)
    <3>1. IsFiniteSet(Request) /\ gone \subseteq Request
      BY RequestAssumption DEF GoodPool, PoolType
    <3> HIDE DEF gone
    <3> QED BY <3>1, FS_Subset
  <2>2. [r \in gone |-> p.lease[r]] \in Surjection(gone, back)
    BY DEF Surjection
  <2> HIDE DEF gone, back
  <2> QED BY <2>1, <2>2, FS_Surjection
<1>4. IsFiniteSet(p.free \cup back)
  <2> HIDE DEF back
  <2> QED BY <1>3, FS_Union DEF GoodPool, PoolType
<1>5. DOMAIN l.lease = DOMAIN p.lease \ S /\ \A q \in DOMAIN l.lease : l.lease[q] = p.lease[q]
  BY <1>1
<1>6. \A a, b \in DOMAIN p.lease : p.lease[a] = p.lease[b] => a = b
  BY DEF GoodPool, OneOwner, IsInjective
<1>7. \A q \in DOMAIN p.lease : p.lease[q] \notin p.free /\ p.lease[q] \in Nat
  BY DEF GoodPool, PoolType, OneOwner, Range
<1>8. \A q \in DOMAIN p.lease \ S : p.lease[q] \notin back
  BY <1>6
<1> HIDE DEF l, back, gone
<1>9. PoolType(l)
  <2>1. l.lease \in [DOMAIN l.lease -> Nat]
    BY <1>1, <1>5, <1>7
  <2> QED BY <1>1, <1>2, <1>4, <1>5, <2>1 DEF PoolType, GoodPool
<1>10. OneOwner(l)
  <2>1. IsInjective(l.lease)
    BY <1>5, <1>6 DEF IsInjective
  <2>2. Range(l.lease) \cap l.free = {}
    BY <1>1, <1>5, <1>7, <1>8 DEF Range
  <2> QED BY <2>1, <2>2 DEF OneOwner
<1> QED BY <1>5, <1>9, <1>10 DEF GoodPool, l

\* The context pool gives a group a run of free slots or nothing.
LEMMA AllocateBatchGood ==
  ASSUME NEW p, GoodPool(p), NEW q \in Seq(Request)
  PROVE  /\ GoodPool(AllocateBatch(p, q))
         /\ DOMAIN AllocateBatch(p, q).lease \in {DOMAIN p.lease, DOMAIN p.lease \cup Range(q)}
<1> DEFINE starts == {s \in p.free : s .. s + Len(q) - 1 \subseteq p.free}
           m == Min(starts)
           at_(r) == CHOOSE i \in DOMAIN q : q[i] = r
           D == DOMAIN p.lease \cup Range(q)
           l == [free |-> p.free \ (m .. m + Len(q) - 1),
                 lease |-> [r \in D |-> IF r \in Range(q) THEN m + at_(r) - 1 ELSE p.lease[r]]]
<1>1. AllocateBatch(p, q) = IF starts = {} THEN p ELSE l
  BY DEF AllocateBatch
<1>2. CASE starts = {}
  BY <1>1, <1>2
<1>3. CASE starts # {}
  <2>1. starts \subseteq Nat
    BY DEF GoodPool, PoolType
  <2>2. m \in starts
    <3> HIDE DEF starts
    <3> QED BY <1>3, <2>1, MinProps
  <2>3. m \in Nat /\ m .. m + Len(q) - 1 \subseteq p.free
    BY <2>1, <2>2
  <2>4. Len(q) \in Nat /\ DOMAIN q = 1..Len(q) /\ Range(q) \subseteq Request
    BY DEF Range
  <2> HIDE DEF starts, m
  <2>5. \A r \in Range(q) : at_(r) \in 1..Len(q) /\ q[at_(r)] = r
    BY <2>4 DEF Range
  <2>6. \A r \in Range(q) : m + at_(r) - 1 \in m .. m + Len(q) - 1 /\ m + at_(r) - 1 \in Nat
    <3> HIDE DEF at_
    <3> QED BY <2>3, <2>4, <2>5
  <2> HIDE DEF at_
  <2>7. \A r \in Range(q) : m + at_(r) - 1 \in p.free
    BY <2>3, <2>6
  <2>8. \A r, t \in Range(q) : m + at_(r) - 1 = m + at_(t) - 1 => r = t
    <3> TAKE r, t \in Range(q)
    <3> HAVE m + at_(r) - 1 = m + at_(t) - 1
    <3>1. at_(r) = at_(t)
      BY <2>3, <2>4, <2>5
    <3> QED BY <3>1, <2>5
  <2>9. \A r \in DOMAIN p.lease : p.lease[r] \notin p.free /\ p.lease[r] \in Nat
    BY DEF GoodPool, PoolType, OneOwner, Range
  <2>10. \A r, t \in DOMAIN p.lease : p.lease[r] = p.lease[t] => r = t
    BY DEF GoodPool, OneOwner, IsInjective
  <2>11. DOMAIN l.lease = D /\ D \subseteq Request
    BY <2>4 DEF GoodPool, PoolType
  <2>12. \A r \in D : l.lease[r] = IF r \in Range(q) THEN m + at_(r) - 1 ELSE p.lease[r]
    OBVIOUS
  <2>13. l.free = p.free \ (m .. m + Len(q) - 1) /\ l = [free |-> l.free, lease |-> l.lease]
    OBVIOUS
  <2>14. l.lease \in [D -> Nat]
    BY <2>6, <2>9
  <2>15. IsFiniteSet(l.free)
    BY FS_Difference, <2>13 DEF GoodPool, PoolType
  <2> HIDE DEF l
  <2>16. PoolType(l)
    BY <2>11, <2>13, <2>14, <2>15 DEF PoolType, GoodPool
  <2>17. IsInjective(l.lease)
    <3>1. \A r, t \in D : l.lease[r] = l.lease[t] => r = t
      <4> TAKE r, t \in D
      <4>1. CASE r \in Range(q) /\ t \in Range(q)
        BY <4>1, <2>8, <2>12
      <4>2. CASE r \in Range(q) /\ t \notin Range(q)
        BY <4>2, <2>7, <2>9, <2>12
      <4>3. CASE r \notin Range(q) /\ t \in Range(q)
        BY <4>3, <2>7, <2>9, <2>12
      <4>4. CASE r \notin Range(q) /\ t \notin Range(q)
        BY <4>4, <2>10, <2>12
      <4> QED BY <4>1, <4>2, <4>3, <4>4
    <3> QED BY <3>1, <2>11 DEF IsInjective
  <2>18. Range(l.lease) \cap l.free = {}
    <3>1. \A r \in D : l.lease[r] \notin l.free
      <4> TAKE r \in D
      <4>1. CASE r \in Range(q)
        BY <4>1, <2>6, <2>12, <2>13
      <4>2. CASE r \notin Range(q)
        BY <4>2, <2>9, <2>12, <2>13
      <4> QED BY <4>1, <4>2
    <3> QED BY <3>1, <2>11 DEF Range
  <2>19. AllocateBatch(p, q) = l
    BY <1>1, <1>3 DEF l
  <2> QED BY <2>11, <2>16, <2>17, <2>18, <2>19 DEF GoodPool, OneOwner
<1> QED BY <1>2, <1>3

\* f[i] is the pool after the first i requests of q asked for a slot.
Leasing(f, pool, q) ==
    /\ f[0] = pool
    /\ \A i \in 1..Len(q) :
          f[i] = IF f[i-1].free = {} THEN f[i-1]
                 ELSE Lease(f[i-1], q[i], Min(f[i-1].free))

Pools == {p \in [free : SUBSET Nat, lease : UNION {[D -> Nat] : D \in SUBSET Request}] : GoodPool(p)}

\* Pools is the set of the good pools, for functions that range over them.
LEMMA InPools ==
  ASSUME NEW p
  PROVE  p \in Pools <=> GoodPool(p)
<1>1. GoodPool(p) => p \in [free : SUBSET Nat, lease : UNION {[D -> Nat] : D \in SUBSET Request}]
  BY DEF GoodPool, PoolType
<1> QED BY <1>1 DEF Pools

\* The beam pool serves the requests of a group one after the other.
LEMMA AllocateRec ==
  ASSUME NEW p, GoodPool(p), NEW q \in Seq(Request)
  PROVE  \E f \in [0..Len(q) -> Pools] : Leasing(f, p, q) /\ Allocate(p, q) = f[Len(q)]
<1> DEFINE n == Len(q)
           Next1(z, i) == IF z.free = {} THEN z ELSE Lease(z, q[i], Min(z.free))
           g == [i \in 1..n |-> [z \in Pools |-> Next1(z, i)]]
           D(h) == [i \in 0..n |-> IF i = 0 THEN p
                                   ELSE IF h[i-1].free = {} THEN h[i-1]
                                   ELSE Lease(h[i-1], q[i], Min(h[i-1].free))]
           a == CHOOSE h : h = D(h)
<1>1. n \in Nat /\ p \in Pools
  BY InPools
<1>2. ASSUME NEW i \in 1..n, NEW z \in Pools PROVE Next1(z, i) \in Pools
  <2>1. CASE z.free = {}
    BY <2>1
  <2>2. CASE z.free # {}
    <3>1. GoodPool(z) /\ q[i] \in Request
      BY InPools
    <3>2. Min(z.free) \in z.free
      BY <2>2, <3>1, MinProps DEF GoodPool, PoolType
    <3>3. GoodPool(Lease(z, q[i], Min(z.free)))
      BY <3>1, <3>2, LeaseGood
    <3> QED BY <2>2, <3>3, InPools
  <2> QED BY <2>1, <2>2
<1>3. \A i \in 1..n : g[i] \in [Pools -> Pools]
  <2> HIDE DEF Next1
  <2> QED BY <1>2
<1>4. PICK f : f \in [0..n -> Pools] /\ Iterates(f, g, p, n)
  <2> HIDE DEF g, n
  <2> QED BY <1>1, <1>3, Recursion
<1>5. f[0] = p
  BY <1>4 DEF Iterates
<1>6. ASSUME NEW i \in 1..n PROVE f[i] = Next1(f[i-1], i)
  <2>1. f[i-1] \in Pools
    BY <1>4
  <2>2. g[i] = [z \in Pools |-> Next1(z, i)]
    OBVIOUS
  <2>3. f[i] = g[i][f[i-1]]
    <3> HIDE DEF g
    <3> QED BY <1>4 DEF Iterates
  <2> HIDE DEF g, Next1
  <2> QED BY <2>1, <2>2, <2>3
<1> HIDE DEF g
<1>7. Leasing(f, p, q)
  BY <1>5, <1>6 DEF Leasing
<1>8. f = D(f)
  <2>1. ASSUME NEW i \in 0..n PROVE f[i] = D(f)[i]
    <3>1. CASE i = 0
      BY <3>1, <1>5
    <3>2. CASE i # 0
      <4>1. i \in 1..n
        BY <3>2
      <4>2. f[i] = Next1(f[i-1], i)
        BY <4>1, <1>6
      <4> QED BY <4>2, <3>2
    <3> QED BY <3>1, <3>2
  <2>2. f = [i \in 0..n |-> f[i]]
    BY <1>4
  <2>3. D(f) = [i \in 0..n |-> D(f)[i]]
    OBVIOUS
  <2> HIDE DEF D
  <2> QED BY <2>1, <2>2, <2>3
<1>9. a = D(a)
  BY <1>8
<1>10. Allocate(p, q) = a[n]
  BY DEF Allocate
<1> HIDE DEF a
<1>11. \A i \in 0..n : f[i] = a[i]
  <2>1. f[0] = a[0]
    BY <1>1, <1>5, <1>9
  <2>2. ASSUME NEW i \in 1..n, f[i-1] = a[i-1] PROVE f[i] = a[i]
    <3>1. a[i] = D(a)[i]
      BY <1>9
    <3>2. D(a)[i] = Next1(a[i-1], i)
      OBVIOUS
    <3> HIDE DEF Next1, D
    <3> QED BY <3>1, <3>2, <2>2, <1>6
  <2>3. SameSteps(f, a, n)
    BY <2>1, <2>2 DEF SameSteps
  <2> HIDE DEF D, n
  <2> QED BY <1>1, <2>3, Unfold
<1>12. Allocate(p, q) = f[n]
  BY <1>1, <1>10, <1>11
<1> QED BY <1>4, <1>7, <1>12

\* Every request of a group gets a slot when the pool has enough of them.
LEMMA AllocateGood ==
  ASSUME NEW p, GoodPool(p), NEW q \in Seq(Request)
  PROVE  /\ GoodPool(Allocate(p, q))
         /\ DOMAIN p.lease \subseteq DOMAIN Allocate(p, q).lease
         /\ DOMAIN Allocate(p, q).lease \subseteq DOMAIN p.lease \cup Range(q)
         /\ Len(q) <= Cardinality(p.free) => Range(q) \subseteq DOMAIN Allocate(p, q).lease
<1>1. PICK f : f \in [0..Len(q) -> Pools] /\ Leasing(f, p, q) /\ Allocate(p, q) = f[Len(q)]
  BY AllocateRec
<1> DEFINE Seen(i) == {q[k] : k \in 1..i}
           enough == Len(q) <= Cardinality(p.free)
           Good(i) == /\ DOMAIN p.lease \subseteq DOMAIN f[i].lease
                      /\ DOMAIN f[i].lease \subseteq DOMAIN p.lease \cup Seen(i)
                      /\ enough => /\ Cardinality(f[i].free) = Cardinality(p.free) - i
                                   /\ Seen(i) \subseteq DOMAIN f[i].lease
           T == {i \in 0..Len(q) : Good(i)}
<1>2. Len(q) \in Nat /\ Range(q) = Seen(Len(q)) /\ \A i \in 1..Len(q) : q[i] \in Request
  BY DEF Range
<1>3. Cardinality(p.free) \in Nat
  BY FS_CardinalityType DEF GoodPool, PoolType
<1>4. 0 \in T
  <2>1. f[0] = p /\ Seen(0) = {}
    BY <1>1 DEF Leasing
  <2> HIDE DEF Seen
  <2> QED BY <2>1, <1>2, <1>3
<1>5. ASSUME NEW i \in 1..Len(q), i - 1 \in T PROVE i \in T
  <2>1. Good(i - 1)
    BY <1>5
  <2> DEFINE u == f[i-1]
  <2>2. GoodPool(u)
    <3>1. i - 1 \in 0..Len(q)
      OBVIOUS
    <3> QED BY <3>1, <1>1, InPools
  <2>3. f[i] = IF u.free = {} THEN u ELSE Lease(u, q[i], Min(u.free))
    BY <1>1 DEF Leasing
  <2>4. Seen(i) = Seen(i - 1) \cup {q[i]}
    <3>1. 1..i = 1..(i-1) \cup {i}
      OBVIOUS
    <3> QED BY <3>1
  <2> HIDE DEF u, Seen
  <2>5. enough => u.free # {}
    <3>1. ASSUME enough, u.free = {} PROVE FALSE
      <4>1. Cardinality(u.free) = 0
        BY <3>1, FS_EmptySet
      <4>2. Cardinality(u.free) = Cardinality(p.free) - (i - 1)
        BY <3>1, <2>1 DEF u
      <4> QED BY <4>1, <4>2, <3>1, <1>3
    <3> QED BY <3>1
  <2>6. CASE u.free = {}
    <3>1. f[i] = u /\ ~enough
      BY <2>3, <2>5, <2>6
    <3>2. /\ DOMAIN p.lease \subseteq DOMAIN u.lease
          /\ DOMAIN u.lease \subseteq DOMAIN p.lease \cup Seen(i - 1)
      BY <2>1 DEF u
    <3> QED BY <3>1, <3>2, <2>4
  <2>7. CASE u.free # {}
    <3> DEFINE m == Min(u.free)
    <3>0. u.free \subseteq Nat
      BY <2>2 DEF GoodPool, PoolType
    <3>1. m \in u.free
      BY <3>0, <2>7, MinProps
    <3>2. q[i] \in Request
      BY <1>2
    <3> HIDE DEF m
    <3>3. /\ DOMAIN Lease(u, q[i], m).lease = DOMAIN u.lease \cup {q[i]}
          /\ Lease(u, q[i], m).free = u.free \ {m}
      BY <2>2, <3>1, <3>2, LeaseGood
    <3>4. f[i] = Lease(u, q[i], m)
      BY <2>3, <2>7 DEF m
    <3>5. Cardinality(u.free \ {m}) = Cardinality(u.free) - 1
      BY <2>2, <3>1, FS_RemoveElement DEF GoodPool, PoolType
    <3>6. /\ DOMAIN p.lease \subseteq DOMAIN u.lease
          /\ DOMAIN u.lease \subseteq DOMAIN p.lease \cup Seen(i - 1)
          /\ enough => /\ Cardinality(u.free) = Cardinality(p.free) - (i - 1)
                       /\ Seen(i - 1) \subseteq DOMAIN u.lease
      BY <2>1 DEF u
    <3>7. /\ DOMAIN p.lease \subseteq DOMAIN f[i].lease
          /\ DOMAIN f[i].lease \subseteq DOMAIN p.lease \cup Seen(i)
          /\ enough => Seen(i) \subseteq DOMAIN f[i].lease
      BY <3>3, <3>4, <3>6, <2>4
    <3>8. enough => Cardinality(f[i].free) = Cardinality(p.free) - i
      <4>1. i \in Int
        OBVIOUS
      <4>2. Cardinality(f[i].free) = Cardinality(u.free) - 1
        BY <3>3, <3>4, <3>5
      <4>3. enough => Cardinality(u.free) = Cardinality(p.free) - (i - 1)
        BY <3>6
      <4> HIDE DEF enough
      <4> QED BY <4>1, <4>2, <4>3, <1>3
    <3> QED BY <3>7, <3>8
  <2> QED BY <2>6, <2>7
<1>6. Len(q) \in T
  <2> HIDE DEF T
  <2>1. 0..Len(q) \subseteq T
    BY <1>2, <1>4, <1>5, UpTo
  <2> QED BY <1>2, <2>1
<1>7. Good(Len(q))
  BY <1>6
<1>8. GoodPool(f[Len(q)])
  BY <1>1, <1>2, InPools
<1> HIDE DEF Seen
<1> QED BY <1>1, <1>2, <1>7, <1>8

-----------------------------------------------------------------------------
(* The groups of a prefill.                                                *)

\* The groups hold the admitted requests, each one once.
LEMMA ShapeGroupsGood ==
  ASSUME NEW q \in Seq(Request), IsInjective(q)
  PROVE  LET gs == ShapeGroups(q)
         IN  /\ gs \in Seq(Seq(Request))
             /\ \A i \in 1..Len(gs) : Range(gs[i]) \subseteq Range(q) /\ IsInjective(gs[i])
             /\ \A r \in Range(q) : \E i \in 1..Len(gs) : r \in Range(gs[i])
<1> DEFINE firsts == {n \in DOMAIN q : \A k \in 1 .. n - 1 : Context[q[k]] # Context[q[n]]}
           H == {q[i] : i \in firsts}
           heads == Only(q, H)
           Same(i) == {r \in Range(q) : Context[r] = Context[heads[i]]}
           gs == [i \in DOMAIN heads |-> Only(q, Same(i))]
<1>1. heads \in Seq(Request) /\ Range(heads) = Range(q) \cap H
  <2> HIDE DEF H
  <2> QED BY OnlyProps
<1>2. DOMAIN heads = 1..Len(heads) /\ Len(heads) \in Nat
  <2> HIDE DEF heads
  <2> QED BY <1>1
<1>3. \A i \in DOMAIN heads :
         /\ Only(q, Same(i)) \in Seq(Request)
         /\ Range(Only(q, Same(i))) = Range(q) \cap Same(i)
         /\ IsInjective(Only(q, Same(i)))
  <2> HIDE DEF Same, heads
  <2> QED BY OnlyProps
<1>4. gs \in Seq(Seq(Request)) /\ Len(gs) = Len(heads) /\ \A i \in 1..Len(gs) : gs[i] = Only(q, Same(i))
  <2> HIDE DEF heads, Same
  <2> QED BY <1>2, <1>3
<1>5. ASSUME NEW r \in Range(q) PROVE \E i \in 1..Len(heads) : Context[r] = Context[heads[i]]
  <2>1. PICK n \in DOMAIN q : r = q[n]
    BY DEF Range
  <2> DEFINE E == {k \in DOMAIN q : Context[q[k]] = Context[r]}
  <2>2. E \subseteq Nat /\ E # {}
    BY <2>1
  <2> DEFINE m == Min(E)
  <2>3. m \in E /\ \A k \in E : m <= k
    <3> HIDE DEF E
    <3> QED BY <2>2, MinProps
  <2> HIDE DEF m
  <2>4. m \in DOMAIN q /\ Context[q[m]] = Context[r]
    BY <2>3
  <2>5. m \in firsts
    <3>1. ASSUME NEW k \in 1 .. m - 1, Context[q[k]] = Context[q[m]] PROVE FALSE
      <4>1. k \in DOMAIN q /\ k < m
        BY <2>4
      <4> QED BY <4>1, <3>1, <2>3, <2>4
    <3> QED BY <3>1, <2>4
  <2>6. q[m] \in Range(heads)
    BY <1>1, <2>4, <2>5 DEF Range
  <2> HIDE DEF heads
  <2>7. PICK i \in 1..Len(heads) : heads[i] = q[m]
    BY <1>2, <2>6 DEF Range
  <2> QED BY <2>4, <2>7
<1>6. ShapeGroups(q) = gs
  BY DEF ShapeGroups
<1>7. \A i \in 1..Len(gs) : Range(gs[i]) = Range(q) \cap Same(i) /\ IsInjective(gs[i])
  <2> HIDE DEF gs, Same, heads
  <2> QED BY <1>2, <1>3, <1>4
<1>8. \A r \in Range(q) : \E i \in 1..Len(gs) : r \in Range(gs[i])
  <2> TAKE r \in Range(q)
  <2>1. PICK i \in 1..Len(heads) : Context[r] = Context[heads[i]]
    BY <1>5
  <2>2. r \in Same(i)
    BY <2>1
  <2> HIDE DEF gs, Same, heads
  <2> QED BY <2>1, <2>2, <1>4, <1>7
<1> HIDE DEF gs
<1> QED BY <1>4, <1>6, <1>7, <1>8

-----------------------------------------------------------------------------
(* The batches of a decode plan.                                           *)

\* Cutting L items into pieces of at most M: piece i starts before the end, every
\* item is in a piece, and pieces do not overlap.
LEMMA Pieces ==
  ASSUME NEW M \in Nat \ {0}, NEW L \in Nat
  PROVE  LET N == (L + M - 1) \div M
         IN  /\ N \in Nat
             /\ \A i \in 1..N : (i - 1) * M \in Nat /\ (i - 1) * M < L
             /\ \A k \in 1..L : \E i \in 1..N : (i - 1) * M < k /\ k <= i * M
             /\ \A i, j \in 1..N : i < j => i * M <= (j - 1) * M
<1> DEFINE N == (L + M - 1) \div M
<1>1. N \in Int /\ N * M <= L + M - 1 /\ L + M - 1 < N * M + M
  OBVIOUS
<1>2. N \in Nat
  <2>1. ASSUME N < 0 PROVE FALSE
    <3>1. N + 1 <= 0
      BY <1>1, <2>1
    <3>2. (N + 1) * M <= 0
      BY <1>1, <3>1
    <3>3. (N + 1) * M = N * M + M
      BY <1>1
    <3> QED BY <1>1, <3>2, <3>3
  <2> QED BY <1>1, <2>1
<1> HIDE DEF N
<1>3. ASSUME NEW i \in 1..N PROVE (i - 1) * M \in Nat /\ (i - 1) * M < L
  <2>1. i * M <= N * M
    BY <1>2
  <2>2. (i - 1) * M = i * M - M
    BY <1>2
  <2>3. (i - 1) * M \in Nat
    BY <1>2
  <2>4. i * M \in Int /\ N * M \in Int
    BY <1>2
  <2> QED BY <1>1, <2>1, <2>2, <2>3, <2>4
<1>4. ASSUME NEW k \in 1..L PROVE \E i \in 1..N : (i - 1) * M < k /\ k <= i * M
  <2> DEFINE e == (k - 1) \div M
  <2>1. e \in Int /\ e * M <= k - 1 /\ k - 1 < e * M + M
    OBVIOUS
  <2> HIDE DEF e
  <2>2. e >= 0
    <3>1. ASSUME e < 0 PROVE FALSE
      <4>1. (e + 1) * M <= 0 /\ (e + 1) * M = e * M + M
        BY <2>1, <3>1
      <4> QED BY <2>1, <4>1
    <3> QED BY <2>1, <3>1
  <2>3. e < N
    <3>1. ASSUME e >= N PROVE FALSE
      <4>1. N * M <= e * M
        BY <1>2, <2>1, <3>1
      <4>2. N * M \in Int /\ e * M \in Int
        BY <1>2, <2>1
      <4> QED BY <1>1, <2>1, <4>1, <4>2
    <3> QED BY <1>2, <2>1, <3>1
  <2>4. (e + 1) * M = e * M + M /\ (e + 1) - 1 = e /\ e + 1 \in 1..N
    BY <1>2, <2>1, <2>2, <2>3
  <2>5. ((e + 1) - 1) * M < k /\ k <= (e + 1) * M
    BY <2>1, <2>4
  <2> QED BY <2>4, <2>5
<1>5. ASSUME NEW i \in 1..N, NEW j \in 1..N, i < j PROVE i * M <= (j - 1) * M
  BY <1>2, <1>5
<1> QED BY <1>2, <1>3, <1>4, <1>5 DEF N

\* c cuts the requests of S into batches: none empty, none too long, none with a
\* request twice or with a request of another one.
Batching(c, S) ==
    /\ c \in Seq(Seq(Request))
    /\ \A i \in 1..Len(c) : Len(c[i]) \in 1..MaxDecode /\ Range(c[i]) \subseteq S /\ IsInjective(c[i])
    /\ \A i, j \in 1..Len(c) : i # j => Range(c[i]) \cap Range(c[j]) = {}
    /\ \A r \in S : \E i \in 1..Len(c) : r \in Range(c[i])

\* The chunks of a group: none empty, none too long, every element in one of them.
LEMMA ChunksGood ==
  ASSUME NEW q \in Seq(Request), IsInjective(q)
  PROVE  Batching(Chunks(q), Range(q))
<1> DEFINE L == Len(q)
           M == MaxDecode
           N == (L + M - 1) \div M
           lo(i) == (i - 1) * M
           hi(i) == Min({i * M, L})
           c == [i \in 1..N |-> SubSeq(q, lo(i) + 1, hi(i))]
<1>1. L \in Nat /\ M \in Nat \ {0} /\ DOMAIN q = 1..L /\ \A k \in 1..L : q[k] \in Request
  BY PolicyAssumption
<1>2. Chunks(q) = c
  BY DEF Chunks
<1> HIDE DEF L, M
<1>3. /\ N \in Nat
      /\ \A i \in 1..N : (i - 1) * M \in Nat /\ (i - 1) * M < L
      /\ \A k \in 1..L : \E i \in 1..N : (i - 1) * M < k /\ k <= i * M
      /\ \A i, j \in 1..N : i < j => i * M <= (j - 1) * M
  BY <1>1, Pieces
<1> HIDE DEF N
<1>4. ASSUME NEW i \in 1..N
      PROVE  /\ lo(i) \in Nat /\ hi(i) \in Nat /\ lo(i) < hi(i)
             /\ hi(i) <= i * M /\ hi(i) <= L /\ hi(i) - lo(i) <= M
             /\ \A k \in 1..L : k <= i * M => k <= hi(i)
  <2>1. i * M \in Nat /\ i * M = (i - 1) * M + M
    BY <1>1, <1>3
  <2>2. {i * M, L} \subseteq Nat /\ {i * M, L} # {}
    BY <1>1, <2>1
  <2>3. hi(i) \in {i * M, L} /\ \A y \in {i * M, L} : hi(i) <= y
    BY <2>2, MinProps
  <2>4. lo(i) \in Nat /\ lo(i) < L
    BY <1>3
  <2>5. lo(i) < i * M /\ i * M - lo(i) = M
    BY <1>1, <2>1, <2>4
  <2> HIDE DEF hi, lo
  <2> QED BY <1>1, <2>1, <2>3, <2>4, <2>5
<1> HIDE DEF hi, lo
<1>5. ASSUME NEW i \in 1..N
      PROVE  /\ c[i] \in Seq(Request) /\ Len(c[i]) = hi(i) - lo(i)
             /\ \A k \in 1..(hi(i) - lo(i)) : c[i][k] = q[lo(i) + k]
  <2> DEFINE m == lo(i) + 1
             n == hi(i)
  <2>1. m \in Int /\ n \in Int /\ m <= n /\ \A k \in m..n : q[k] \in Request
    BY <1>1, <1>4
  <2>2. n - m + 1 = n - lo(i) /\ \A k \in 1..(n - lo(i)) : m + k - 1 = lo(i) + k
    BY <1>4
  <2>3. c[i] = SubSeq(q, m, n)
    OBVIOUS
  <2> HIDE DEF m, n, c
  <2>4. /\ SubSeq(q, m, n) \in Seq(Request)
        /\ Len(SubSeq(q, m, n)) = IF m <= n THEN n - m + 1 ELSE 0
        /\ \A k \in 1..(n - m + 1) : SubSeq(q, m, n)[k] = q[m + k - 1]
    BY <2>1, SubSeqProperties
  <2> QED BY <2>1, <2>2, <2>3, <2>4 DEF n
<1>6. c \in Seq(Seq(Request)) /\ Len(c) = N
  <2>1. \A i \in 1..N : c[i] \in Seq(Request)
    BY <1>5
  <2>2. c = [i \in 1..N |-> c[i]]
    OBVIOUS
  <2> HIDE DEF c
  <2> QED BY <1>3, <2>1, <2>2
<1> HIDE DEF c
<1>7. ASSUME NEW i \in 1..N, NEW r
      PROVE  r \in Range(c[i]) <=> \E k \in 1..L : r = q[k] /\ lo(i) < k /\ k <= hi(i)
  <2>1. DOMAIN c[i] = 1..(hi(i) - lo(i))
    BY <1>5
  <2>2. ASSUME r \in Range(c[i]) PROVE \E k \in 1..L : r = q[k] /\ lo(i) < k /\ k <= hi(i)
    <3>1. PICK k \in 1..(hi(i) - lo(i)) : r = c[i][k]
      BY <2>1, <2>2 DEF Range
    <3>2. r = q[lo(i) + k] /\ lo(i) + k \in 1..L /\ lo(i) < lo(i) + k /\ lo(i) + k <= hi(i)
      BY <3>1, <1>1, <1>4, <1>5
    <3> QED BY <3>2
  <2>3. ASSUME NEW k \in 1..L, r = q[k], lo(i) < k, k <= hi(i) PROVE r \in Range(c[i])
    <3>1. k - lo(i) \in 1..(hi(i) - lo(i)) /\ lo(i) + (k - lo(i)) = k
      BY <2>3, <1>1, <1>4
    <3>2. c[i][k - lo(i)] = r
      BY <3>1, <2>3, <1>5
    <3> QED BY <3>1, <3>2, <2>1 DEF Range
  <2> QED BY <2>2, <2>3
<1>8. ASSUME NEW i \in 1..N
      PROVE  Len(c[i]) \in 1..M /\ Range(c[i]) \subseteq Range(q) /\ IsInjective(c[i])
  <2>1. Len(c[i]) \in 1..M
    BY <1>1, <1>4, <1>5
  <2>2. Range(c[i]) \subseteq Range(q)
    BY <1>1, <1>7 DEF Range
  <2>3. IsInjective(c[i])
    <3>1. DOMAIN c[i] = 1..(hi(i) - lo(i))
      BY <1>5
    <3>2. \A a, b \in 1..(hi(i) - lo(i)) : c[i][a] = c[i][b] => a = b
      <4> TAKE a, b \in 1..(hi(i) - lo(i))
      <4>1. lo(i) + a \in 1..L /\ lo(i) + b \in 1..L
        BY <1>1, <1>4
      <4>2. q[lo(i) + a] = q[lo(i) + b] => lo(i) + a = lo(i) + b
        BY <4>1, <1>1 DEF IsInjective
      <4> QED BY <4>2, <1>4, <1>5
    <3> QED BY <3>1, <3>2 DEF IsInjective
  <2> QED BY <2>1, <2>2, <2>3
<1>9. ASSUME NEW i \in 1..N, NEW j \in 1..N, i < j PROVE Range(c[i]) \cap Range(c[j]) = {}
  <2>1. ASSUME NEW r, r \in Range(c[i]), r \in Range(c[j]) PROVE FALSE
    <3>1. PICK k \in 1..L : r = q[k] /\ k <= hi(i)
      BY <2>1, <1>7
    <3>2. PICK l \in 1..L : r = q[l] /\ lo(j) < l
      BY <2>1, <1>7
    <3>3. k = l
      BY <3>1, <3>2, <1>1 DEF IsInjective
    <3>4. hi(i) <= i * M /\ i * M <= (j - 1) * M /\ hi(i) \in Nat
      BY <1>3, <1>4, <1>9
    <3>5. lo(j) = (j - 1) * M
      BY DEF lo
    <3>6. i * M \in Int /\ (j - 1) * M \in Int
      BY <1>1, <1>3
    <3> QED BY <3>1, <3>2, <3>3, <3>4, <3>5, <3>6
  <2> QED BY <2>1
<1>10. \A i, j \in 1..N : i # j => Range(c[i]) \cap Range(c[j]) = {}
  <2> TAKE i, j \in 1..N
  <2>1. i < j \/ j < i \/ i = j
    BY <1>3
  <2> QED BY <2>1, <1>9
<1>11. \A r \in Range(q) : \E i \in 1..N : r \in Range(c[i])
  <2> TAKE r \in Range(q)
  <2>1. PICK k \in 1..L : r = q[k]
    BY <1>1 DEF Range
  <2>2. PICK i \in 1..N : (i - 1) * M < k /\ k <= i * M
    BY <1>3
  <2>3. lo(i) < k /\ k <= hi(i)
    BY <2>2, <1>4 DEF lo
  <2> QED BY <2>1, <2>3, <1>7
<1>12. Batching(c, Range(q))
  BY <1>6, <1>8, <1>10, <1>11 DEF M, Batching
<1> QED BY <1>2, <1>12

Keys == Nat \X Nat \X Nat

\* Before compares keys from their first component on, and is a strict total order.
LEMMA BeforeOrder ==
  ASSUME NEW a \in Keys, NEW b \in Keys, NEW c \in Keys
  PROVE  /\ ~Before(a, a)
         /\ a # b => Before(a, b) \/ Before(b, a)
         /\ Before(a, b) /\ Before(b, c) => Before(a, c)
<1>1. ASSUME NEW x \in Keys, NEW y \in Keys
      PROVE  Before(x, y) <=> \/ x[1] < y[1]
                              \/ x[1] = y[1] /\ x[2] < y[2]
                              \/ x[1] = y[1] /\ x[2] = y[2] /\ x[3] < y[3]
  <2> DEFINE B(i) == x[i] < y[i] /\ \A j \in 1 .. i - 1 : x[j] = y[j]
  <2>1. Before(x, y) <=> B(1) \/ B(2) \/ B(3)
    BY DEF Before
  <2>2. 1 .. 1 - 1 = {} /\ 1 .. 2 - 1 = {1} /\ 1 .. 3 - 1 = {1, 2}
    OBVIOUS
  <2>3. B(1) <=> x[1] < y[1]
    BY <2>2
  <2>4. B(2) <=> x[1] = y[1] /\ x[2] < y[2]
    BY <2>2
  <2>5. B(3) <=> x[1] = y[1] /\ x[2] = y[2] /\ x[3] < y[3]
    BY <2>2
  <2> HIDE DEF B
  <2> QED BY <2>1, <2>3, <2>4, <2>5
<1>2. \A x \in Keys : /\ x = <<x[1], x[2], x[3]>>
                      /\ x[1] \in Nat /\ x[2] \in Nat /\ x[3] \in Nat
  BY DEF Keys
<1>3. /\ a[1] \in Nat /\ a[2] \in Nat /\ a[3] \in Nat
      /\ b[1] \in Nat /\ b[2] \in Nat /\ b[3] \in Nat
      /\ c[1] \in Nat /\ c[2] \in Nat /\ c[3] \in Nat
  BY <1>2
<1>4. ~Before(a, a)
  BY <1>1, <1>3
<1>5. a # b => Before(a, b) \/ Before(b, a)
  <2>1. a # b => a[1] # b[1] \/ a[2] # b[2] \/ a[3] # b[3]
    BY <1>2
  <2> QED BY <1>1, <1>3, <2>1
<1>6. Before(a, b) /\ Before(b, c) => Before(a, c)
  BY <1>1, <1>3
<1> QED BY <1>4, <1>5, <1>6

\* A finite non-empty set of keys has a last one.
LEMMA LastKey ==
  ASSUME NEW K \in SUBSET Keys, IsFiniteSet(K), K # {}
  PROVE  \E m \in K : \A k \in K \ {m} : Before(k, m)
<1> DEFINE Has(J) == \E m \in J : \A k \in J \ {m} : Before(k, m)
           T == {n \in Nat : \A J \in SUBSET Keys :
                    IsFiniteSet(J) /\ Cardinality(J) = n /\ J # {} => Has(J)}
<1>1. 0 \in T
  BY FS_EmptySet
<1>2. ASSUME NEW n \in Nat, n \in T PROVE n + 1 \in T
  <2>1. SUFFICES ASSUME NEW J \in SUBSET Keys, IsFiniteSet(J), Cardinality(J) = n + 1, J # {}
                 PROVE  Has(J)
    OBVIOUS
  <2>2. PICK y \in J : TRUE
    BY <2>1
  <2> DEFINE I == J \ {y}
  <2>3. IsFiniteSet(I) /\ Cardinality(I) = n
    <3>1. IsFiniteSet(I) /\ Cardinality(I) = Cardinality(J) - 1
      BY <2>1, FS_RemoveElement
    <3> HIDE DEF I
    <3> QED BY <2>1, <3>1
  <2>4. CASE I = {}
    BY <2>4
  <2>5. CASE I # {}
    <3>1. Has(I)
      BY <2>3, <2>5, <1>2
    <3>2. PICK m \in I : \A k \in I \ {m} : Before(k, m)
      BY <3>1
    <3>3. m \in Keys /\ y \in Keys /\ m # y
      BY <2>1
    <3>4. CASE Before(y, m)
      <4>1. \A k \in J \ {m} : Before(k, m)
        BY <3>2, <3>4
      <4> QED BY <4>1
    <3>5. CASE Before(m, y)
      <4>1. \A k \in J \ {y} : Before(k, y)
        <5> TAKE k \in J \ {y}
        <5>1. CASE k = m
          BY <5>1, <3>5
        <5>2. CASE k # m
          <6>1. k \in Keys /\ Before(k, m)
            BY <5>2, <3>2
          <6> QED BY <6>1, <3>3, <3>5, BeforeOrder
        <5> QED BY <5>1, <5>2
      <4> QED BY <4>1
    <3> QED BY <3>3, <3>4, <3>5, BeforeOrder
  <2> QED BY <2>4, <2>5
<1>3. Nat \subseteq T
  <2> HIDE DEF T
  <2> QED BY <1>1, <1>2, SetInduction
<1>4. Cardinality(K) \in T
  BY <1>3, FS_CardinalityType
<1> QED BY <1>4

InOrder(f, K) == /\ f \in [1 .. Cardinality(K) -> K]
                 /\ \A i, j \in DOMAIN f : i < j => Before(f[i], f[j])

\* The keys of a plan can be put in order.
LEMMA SortedKeys ==
  ASSUME NEW K \in SUBSET Keys, IsFiniteSet(K)
  PROVE  \E f : InOrder(f, K)
<1> DEFINE T == {n \in Nat : \A J \in SUBSET Keys :
                    IsFiniteSet(J) /\ Cardinality(J) = n => \E f : InOrder(f, J)}
<1>1. 0 \in T
  <2>1. SUFFICES ASSUME NEW J \in SUBSET Keys, IsFiniteSet(J), Cardinality(J) = 0
                 PROVE  \E f : InOrder(f, J)
    OBVIOUS
  <2> DEFINE f == [i \in 1..0 |-> 0]
  <2>2. f \in [1 .. Cardinality(J) -> J] /\ DOMAIN f = {}
    BY <2>1
  <2>3. InOrder(f, J)
    BY <2>2 DEF InOrder
  <2> QED BY <2>3
<1>2. ASSUME NEW n \in Nat, n \in T PROVE n + 1 \in T
  <2>1. SUFFICES ASSUME NEW J \in SUBSET Keys, IsFiniteSet(J), Cardinality(J) = n + 1
                 PROVE  \E f : InOrder(f, J)
    OBVIOUS
  <2>2. J # {}
    BY <2>1, FS_EmptySet
  <2>3. PICK m \in J : \A k \in J \ {m} : Before(k, m)
    BY <2>1, <2>2, LastKey
  <2>4. IsFiniteSet(J \ {m}) /\ Cardinality(J \ {m}) = n
    <3>1. IsFiniteSet(J \ {m}) /\ Cardinality(J \ {m}) = Cardinality(J) - 1
      BY <2>1, FS_RemoveElement
    <3> QED BY <2>1, <3>1
  <2>5. PICK g : InOrder(g, J \ {m})
    BY <2>4, <1>2
  <2>6. g \in [1..n -> J \ {m}] /\ \A i, j \in 1..n : i < j => Before(g[i], g[j])
    BY <2>4, <2>5 DEF InOrder
  <2> DEFINE f == [i \in 1..(n+1) |-> IF i <= n THEN g[i] ELSE m]
  <2>7. f \in [1..(n+1) -> J]
    BY <2>6
  <2>8. \A i, j \in 1..(n+1) : i < j => Before(f[i], f[j])
    <3> TAKE i, j \in 1..(n+1)
    <3> HAVE i < j
    <3>1. CASE j <= n
      BY <3>1, <2>6
    <3>2. CASE ~(j <= n)
      <4>1. f[i] = g[i] /\ f[j] = m /\ g[i] \in J \ {m}
        BY <3>2, <2>6
      <4> QED BY <4>1, <2>3
    <3> QED BY <3>1, <3>2
  <2> HIDE DEF f
  <2>9. InOrder(f, J)
    BY <2>1, <2>7, <2>8 DEF InOrder
  <2> QED BY <2>9
<1>3. Nat \subseteq T
  <2> HIDE DEF T
  <2> QED BY <1>1, <1>2, SetInduction
<1>4. Cardinality(K) \in T
  BY <1>3, FS_CardinalityType
<1> QED BY <1>4

\* Ascending lists every key once.
LEMMA AscendingGood ==
  ASSUME NEW K \in SUBSET Keys, IsFiniteSet(K)
  PROVE  /\ Ascending(K) \in [1 .. Cardinality(K) -> K]
         /\ IsInjective(Ascending(K))
         /\ \A k \in K : \E i \in 1 .. Cardinality(K) : Ascending(K)[i] = k
<1> DEFINE n == Cardinality(K)
           a == Ascending(K)
<1>1. n \in Nat
  BY FS_CardinalityType
<1>2. PICK f : f \in [1..n -> K] /\ \A i, j \in DOMAIN f : i < j => Before(f[i], f[j])
  BY SortedKeys DEF InOrder
<1>3. a \in [1..n -> K] /\ \A i, j \in DOMAIN a : i < j => Before(a[i], a[j])
  BY <1>2 DEF Ascending
<1> HIDE DEF a, n
<1>4. IsInjective(a)
  <2>1. SUFFICES ASSUME NEW i \in 1..n, NEW j \in 1..n, a[i] = a[j] PROVE i = j
    BY <1>3 DEF IsInjective
  <2>2. a[i] \in Keys /\ ~Before(a[i], a[i])
    BY <1>3, BeforeOrder
  <2>3. ~(i < j) /\ ~(j < i)
    BY <1>3, <2>1, <2>2
  <2> QED BY <2>3, <1>1
<1>5. a \in Surjection(1..n, K)
  <2>1. a \in Injection(1..n, K)
    BY <1>3, <1>4 DEF Injection
  <2>2. IsFiniteSet(1..n) /\ Cardinality(1..n) = n
    BY <1>1, FS_Interval
  <2> QED BY <2>1, <2>2, FS_Injection DEF n
<1>6. \A k \in K : \E i \in 1..n : a[i] = k
  BY <1>5 DEF Surjection
<1> QED BY <1>3, <1>4, <1>6 DEF a, n

\* Every decoding request is in exactly one batch, batches are neither empty nor
\* too long, and the requests of one batch have the same key.
LEMMA PlanGood ==
  ASSUME decoding \in Seq(Request), IsInjective(decoding), step \in [Request -> Nat]
  PROVE  /\ Batching(Plan, Range(decoding))
         /\ \A i \in 1..Len(Plan) : \A r, q \in Range(Plan[i]) : Key(r) = Key(q)
<1> DEFINE R == Range(decoding)
           K == {Key(r) : r \in R}
           n == Cardinality(K)
           keys == Ascending(K)
           S(i) == {r \in R : Key(r) = keys[i]}
           group(i) == Only(decoding, S(i))
           C == [i \in DOMAIN keys |-> Chunks(group(i))]
<1>1. R \subseteq Request
  BY RangeOfSeq
<1> HIDE DEF R
<1>2. K \in SUBSET Keys
  <2>1. ASSUME NEW r \in Request PROVE Key(r) \in Keys
    <3>1. step[r] \in Nat /\ Width[r] \in Nat /\ Context[r] \in Nat
      BY RequestAssumption
    <3> QED BY <3>1 DEF Key, Keys
  <2> QED BY <1>1, <2>1
<1>3. IsFiniteSet(K)
  <2>1. IsFiniteSet(R)
    BY <1>1, FS_Subset, RequestAssumption
  <2>2. [r \in R |-> Key(r)] \in Surjection(R, K)
    BY DEF Surjection
  <2> HIDE DEF K
  <2> QED BY <2>1, <2>2, FS_Surjection
<1>4. /\ keys \in [1..n -> K] /\ IsInjective(keys) /\ n \in Nat
      /\ \A k \in K : \E i \in 1..n : keys[i] = k
  <2> HIDE DEF K
  <2> QED BY <1>2, <1>3, AscendingGood, FS_CardinalityType
<1>5. Plan = FlattenSeq(C)
  BY DEF Plan, R
<1> HIDE DEF keys, n
<1>6. \A i \in 1..n : /\ group(i) \in Seq(Request) /\ IsInjective(group(i))
                      /\ Range(group(i)) = S(i)
  <2> TAKE i \in 1..n
  <2>1. /\ group(i) \in Seq(Request) /\ IsInjective(group(i))
        /\ Range(group(i)) = R \cap S(i)
    <3> HIDE DEF S
    <3> QED BY OnlyProps DEF R
  <2>2. R \cap S(i) = S(i)
    OBVIOUS
  <2> HIDE DEF group, S
  <2> QED BY <2>1, <2>2
<1> HIDE DEF group
<1>7. DOMAIN keys = 1..n /\ \A i \in 1..n : C[i] = Chunks(group(i))
  BY <1>4
<1>8. ASSUME NEW i \in 1..n PROVE Batching(C[i], S(i))
  <2>1. /\ C[i] = Chunks(group(i)) /\ group(i) \in Seq(Request) /\ IsInjective(group(i))
        /\ Range(group(i)) = S(i)
    BY <1>6, <1>7
  <2> HIDE DEF C, S
  <2>2. Batching(Chunks(group(i)), Range(group(i)))
    BY <2>1, ChunksGood
  <2> QED BY <2>1, <2>2
<1>9. C \in Seq(Seq(Seq(Request))) /\ Len(C) = n
  <2> DEFINE X == Seq(Seq(Request))
  <2>1. ASSUME NEW i \in 1..n PROVE C[i] \in X
    <3> HIDE DEF C, S
    <3>1. Batching(C[i], S(i))
      BY <1>8
    <3> QED BY <3>1 DEF Batching
  <2>2. C = [i \in 1..n |-> Chunks(group(i))]
    BY <1>7
  <2>3. \A i \in 1..n : Chunks(group(i)) \in X
    <3> HIDE DEF C, X, S
    <3> QED BY <2>1, <1>7
  <2> HIDE DEF C, X
  <2>4. C \in [1..n -> X]
    BY <2>2, <2>3
  <2>5. DOMAIN C = 1..n
    BY <2>2
  <2>6. C \in Seq(X)
    BY <2>4, <1>4
  <2>7. Len(C) = n
    BY <2>5, <2>6, <1>4
  <2> QED BY <2>6, <2>7 DEF X
<1> HIDE DEF C
<1> DEFINE P == FlattenSeq(C)
<1>10. P \in Seq(Seq(Request))
  BY <1>9, FlattenPlaces
<1>11. PICK row, col : Places(row, col, C, Len(C), P)
  BY <1>9, FlattenPlaces
<1> HIDE DEF P
<1>12. \A k \in 1..Len(P) : /\ row[k] \in 1..n /\ col[k] \in 1..Len(C[row[k]])
                            /\ P[k] = C[row[k]][col[k]]
  BY <1>9, <1>11 DEF Places
<1>13. ASSUME NEW i \in 1..Len(P)
       PROVE  /\ Len(P[i]) \in 1..MaxDecode /\ Range(P[i]) \subseteq S(row[i])
              /\ IsInjective(P[i])
  <2> DEFINE a == row[i]
             b == col[i]
  <2>1. a \in 1..n /\ b \in 1..Len(C[a]) /\ P[i] = C[a][b]
    BY <1>12
  <2> HIDE DEF S
  <2>2. Batching(C[a], S(a))
    BY <1>8, <2>1
  <2> HIDE DEF a, b
  <2>3. Len(P[i]) \in 1..MaxDecode /\ Range(P[i]) \subseteq S(a) /\ IsInjective(P[i])
    BY <2>1, <2>2 DEF Batching
  <2> QED BY <2>3 DEF a
<1>14. ASSUME NEW i \in 1..Len(P), NEW j \in 1..Len(P), i # j
       PROVE  Range(P[i]) \cap Range(P[j]) = {}
  <2>1. row[i] # row[j] \/ col[i] # col[j]
    BY <1>11, <1>14 DEF Places
  <2>2. CASE row[i] = row[j]
    <3> DEFINE a == row[i]
    <3>1. /\ a \in 1..n /\ col[i] \in 1..Len(C[a]) /\ col[j] \in 1..Len(C[a])
          /\ P[i] = C[a][col[i]] /\ P[j] = C[a][col[j]] /\ col[i] # col[j]
      BY <2>1, <2>2, <1>12
    <3> HIDE DEF S
    <3>2. Batching(C[a], S(a))
      BY <1>8, <3>1
    <3> HIDE DEF a
    <3> QED BY <3>1, <3>2 DEF Batching
  <2>3. CASE row[i] # row[j]
    <3>1. keys[row[i]] # keys[row[j]]
      BY <2>3, <1>4, <1>7, <1>12 DEF IsInjective
    <3>2. S(row[i]) \cap S(row[j]) = {}
      BY <3>1
    <3> HIDE DEF S
    <3> QED BY <3>2, <1>13
  <2> QED BY <2>2, <2>3
<1>15. ASSUME NEW r \in R PROVE \E i \in 1..Len(P) : r \in Range(P[i])
  <2>1. PICK i \in 1..n : keys[i] = Key(r)
    BY <1>4
  <2>2. r \in S(i)
    BY <2>1
  <2> HIDE DEF S
  <2>3. PICK j \in 1..Len(C[i]) : r \in Range(C[i][j])
    BY <2>2, <1>8 DEF Batching
  <2>4. PICK k \in 1..Len(P) : row[k] = i /\ col[k] = j
    BY <1>9, <1>11 DEF Places
  <2> QED BY <2>3, <2>4, <1>12
<1>16. \A i \in 1..Len(P) : Range(P[i]) \subseteq R
  BY <1>13
<1>17. Batching(P, R)
  <2> HIDE DEF S
  <2> QED BY <1>10, <1>13, <1>14, <1>15, <1>16 DEF Batching
<1>18. \A i \in 1..Len(P) : \A r, q \in Range(P[i]) : Key(r) = Key(q)
  BY <1>13
<1> QED BY <1>5, <1>17, <1>18 DEF P, R
-----------------------------------------------------------------------------
(* The worker.                                                             *)

Stages == {"unknown", "waiting_prefill", "decoding", "finished"}
In(s) == {r \in Request : stage[r] = s}

\* Every request fits into the budget of an idle server, so OverBudget cannot happen.
FitsAlone ==
    \A r \in Request : Context[r] <= MaxContext /\ DecodeSteps[r] * Width[r] <= MaxBeams

TypeOK ==
    /\ states \in Seq(Request) /\ waiting \in Seq(Request) /\ decoding \in Seq(Request)
    /\ finished \in Seq(Request) /\ prefill \in Seq(Request)
    /\ stage \in [Request -> Stages]
    /\ reason \in [Request -> Outcomes \cup {"none"}]
    /\ step \in [Request -> Nat]
    /\ groups \in Seq(Seq(Request)) /\ batches \in Seq(Seq(Request))
    /\ at \in Nat \ {0}

\* The queues, as QueuesMatchStages and KVHealth say, and the retained answers.
Queues ==
    /\ QueuesMatchStages /\ KVHealth
    /\ Range(finished) \subseteq In("finished") /\ IsInjective(finished)
    /\ FitsAlone => In("waiting_prefill") \subseteq Range(waiting)
    /\ Cardinality(Request) <= MaxFinished => In("finished") \subseteq Range(finished)

\* The batches hold the requests that were decoding when the plan was made, and
\* nobody of a batch that is still to run has finished.
BatchesOK ==
    /\ Batching(batches, Range(decoding) \cup done)
    /\ \A i \in at..Len(batches) : Range(batches[i]) \cap done = {}
    /\ at = 1 => /\ done = {}
                 /\ \A i \in 1..Len(batches) : \A r, q \in Range(batches[i]) : Key(r) = Key(q)

\* What a tick in progress remembers agrees with the queues.
TickOK ==
    /\ ended \cup done \subseteq In("finished")
    /\ phase \in {"idle", "timeouts"} => ended = {}
    /\ phase \in {"admit", "prefill"} => Range(prefill) \subseteq Range(decoding) /\ IsInjective(prefill)
    /\ phase = "prefill" =>
          \A i \in 1..Len(groups) : Range(groups[i]) \subseteq Range(prefill) /\ IsInjective(groups[i])
    /\ phase \in {"decode", "raised"} => BatchesOK

WorkerOK ==
    /\ pending \in Seq(Request)
    /\ holder = "none" => phase = "idle"

\* The inductive invariant for the queues.
ServingOK == TypeOK /\ Queues /\ TickOK /\ WorkerOK

\* Requests that decode hold a beam slot, the ones admitted in this tick as soon
\* as their group has run.
SlotsOK ==
    /\ GoodPool(beam) /\ GoodPool(ctx)
    /\ phase \notin {"admit", "prefill"} => Range(decoding) \subseteq Holders(beam)
    /\ phase = "admit" => Range(decoding) \ Range(prefill) \subseteq Holders(beam)
    /\ phase = "prefill" =>
          \A r \in Range(decoding) : r \in Holders(beam) \/ \E i \in 1..Len(groups) : r \in Range(groups[i])

\* A tick reports everyone who ends in it: decode executors do not raise, and no
\* tick that timed somebody out raises afterwards.
TicksReport ==
    /\ "decode" \notin Faults
    /\ FitsAlone \/ \A r \in Request : Timeout[r] = NoTimeout

\* Whoever holds a slot decodes or will be reported at the end of the tick.
HoldersOK ==
    /\ Holders(beam) \cup Holders(ctx)
          \subseteq Range(decoding) \cup ended \cup (IF phase = "decode" THEN done ELSE {})
    /\ (\A r \in Request : Timeout[r] = NoTimeout) /\ phase = "admit" => ended = {}
    /\ phase # "raised"

\* Ids are submitted once: what is pending is not known to the scheduler yet.
PendingOK ==
    /\ submitted \in [Request -> Nat]
    /\ IsInjective(pending)
    /\ \A r \in Range(pending) : submitted[r] = 1 /\ stage[r] = "unknown"
    /\ \A r \in Request : stage[r] # "unknown" => submitted[r] = 1

-----------------------------------------------------------------------------
(* Lemmas about ending requests.                                           *)

\* Nothing is dropped when nobody is to be dropped.
LEMMA WithoutNone ==
  ASSUME NEW X, NEW q \in Seq(X)
  PROVE  Without(q, {}) = q
<1> DEFINE S == {q[i] : i \in DOMAIN q}
           p == [n \in 0..Len(q) |-> SubSeq(q, 1, n)]
<1>1. PICK f \in [0..Len(q) -> Seq(X)] : Keeps(f, q, S) /\ Only(q, S) = f[Len(q)]
  BY OnlyRec
<1>2. Without(q, {}) = Only(q, S)
  <2>1. S \ {} = S
    OBVIOUS
  <2> HIDE DEF S
  <2>2. Without(q, {}) = Only(q, S \ {})
    BY DEF Without, S
  <2> QED BY <2>1, <2>2
<1>3. \A i \in 1..Len(q) : q[i] \in S
  OBVIOUS
<1>4. f[0] = <<>> /\ \A i \in 1..Len(q) : f[i] = Append(f[i-1], q[i])
  <2> HIDE DEF S
  <2> QED BY <1>1, <1>3 DEF Keeps
<1> HIDE DEF S
<1>5. Len(q) \in Nat
  OBVIOUS
<1>6. p[0] = <<>>
  BY <1>5
<1>7. ASSUME NEW i \in 1..Len(q) PROVE p[i] = Append(p[i-1], q[i])
  <2>1. i - 1 \in 0..Len(q) /\ i \in 0..Len(q)
    BY <1>5
  <2>2. p[i] = SubSeq(q, 1, i) /\ p[i-1] = SubSeq(q, 1, i - 1)
    BY <2>1
  <2> QED BY <2>1, <2>2
<1> HIDE DEF p
<1>8. SameSteps(f, p, Len(q))
  BY <1>4, <1>6, <1>7 DEF SameSteps
<1>9. f[Len(q)] = p[Len(q)]
  BY <1>5, <1>8, Unfold
<1>10. p[Len(q)] = q
  BY <1>5 DEF p
<1> QED BY <1>1, <1>2, <1>9, <1>10

\* Retaining the newest answers: all of them when there is room for all.
LEMMA RetainGood ==
  ASSUME NEW q \in Seq(Request)
  PROVE  /\ Retain(q) \in Seq(Request)
         /\ Range(Retain(q)) \subseteq Range(q)
         /\ IsInjective(q) => IsInjective(Retain(q))
         /\ Len(q) <= MaxFinished => Retain(q) = q
         /\ Len(q) > MaxFinished => Len(Retain(q)) = MaxFinished
<1> DEFINE n == Len(q)
           M == MaxFinished
           m == Max({0, n - M})
<1>1. n \in Nat /\ M \in Nat \ {0}
  BY PolicyAssumption
<1> HIDE DEF n, M
<1>2. m = IF n <= M THEN 0 ELSE n - M
  <2>1. CASE n <= M
    <3>1. \A x \in {0, n - M} : (\A y \in {0, n - M} : x >= y) <=> x = 0
      BY <1>1, <2>1
    <3> QED BY <3>1, <1>1, <2>1 DEF Max
  <2>2. CASE n > M
    <3>1. \A x \in {0, n - M} : (\A y \in {0, n - M} : x >= y) <=> x = n - M
      BY <1>1, <2>2
    <3> QED BY <3>1, <1>1, <2>2 DEF Max
  <2> QED BY <1>1, <2>1, <2>2
<1>3. Retain(q) = SubSeq(q, m + 1, n)
  BY DEF Retain, n, M
<1> HIDE DEF m
<1> DEFINE t == SubSeq(q, m + 1, n)
<1>4. m \in Nat /\ m <= n
  BY <1>1, <1>2
<1>5. /\ t \in Seq(Request) /\ Len(t) = n - m
      /\ \A k \in 1..(n - m) : t[k] = q[m + k]
  <2>1. \A k \in (m+1)..n : q[k] \in Request
    BY <1>4 DEF n
  <2>2. /\ SubSeq(q, m+1, n) \in Seq(Request)
        /\ Len(SubSeq(q, m+1, n)) = IF m+1 <= n THEN n - (m+1) + 1 ELSE 0
        /\ \A k \in 1..(n - (m+1) + 1) : SubSeq(q, m+1, n)[k] = q[m+1 + k - 1]
    BY <1>1, <1>4, <2>1, SubSeqProperties
  <2>3. n - (m+1) + 1 = n - m /\ \A k \in 1..(n-m) : m+1 + k - 1 = m + k
    BY <1>1, <1>4
  <2> QED BY <1>1, <1>4, <2>2, <2>3
<1> HIDE DEF t
<1>6. DOMAIN t = 1..(n - m) /\ DOMAIN q = 1..n
  BY <1>5 DEF n
<1>7. \A k \in 1..(n - m) : m + k \in 1..n
  BY <1>1, <1>4
<1>8. Range(t) \subseteq Range(q)
  BY <1>5, <1>6, <1>7 DEF Range
<1>9. IsInjective(q) => IsInjective(t)
  <2> SUFFICES ASSUME IsInjective(q), NEW a \in 1..(n-m), NEW b \in 1..(n-m), t[a] = t[b] PROVE a = b
    BY <1>6 DEF IsInjective
  <2>1. m + a = m + b
    BY <1>5, <1>6, <1>7 DEF IsInjective
  <2> QED BY <2>1, <1>1, <1>4
<1>10. n <= M => t = q
  <2> SUFFICES ASSUME n <= M PROVE t = q
    OBVIOUS
  <2>1. m + 1 = 1
    BY <1>2
  <2>2. t = SubSeq(q, 1, n)
    BY <2>1 DEF t
  <2> QED BY <2>2 DEF n
<1>11. n > M => Len(t) = M
  BY <1>1, <1>2, <1>5
<1> QED BY <1>3, <1>5, <1>8, <1>9, <1>10, <1>11 DEF n, M, t

\* A sequence without repetitions is no longer than the set it is over.
LEMMA LenBound ==
  ASSUME NEW q \in Seq(Request), IsInjective(q)
  PROVE  Len(q) <= Cardinality(Request) /\ Cardinality(Request) \in Nat
<1>1. q \in Injection(1..Len(q), Request)
  <2>1. q \in [1..Len(q) -> Request] /\ DOMAIN q = 1..Len(q)
    OBVIOUS
  <2> QED BY <2>1 DEF IsInjective, Injection
<1>2. IsFiniteSet(1..Len(q)) /\ Cardinality(1..Len(q)) = Len(q)
  <2>1. Len(q) \in Nat
    OBVIOUS
  <2> QED BY <2>1, FS_Interval, SMTT(30)
<1>3. IsFiniteSet(Request)
  BY RequestAssumption
<1> QED BY <1>1, <1>2, <1>3, FS_Injection, FS_CardinalityType

\* What ends when the requests of q finish with outcome why.
LEMMA FinishFacts ==
  ASSUME TypeOK, Queues,
         NEW q \in Seq(Request), IsInjective(q),
         \A r \in Range(q) : stage[r] # "unknown" /\ r \notin Range(finished),
         NEW why \in Outcomes, Finish(q, why)
  PROVE  /\ stage' = [r \in Request |-> IF r \in Range(q) THEN "finished" ELSE stage[r]]
         /\ reason' = [r \in Request |-> IF r \in Range(q) THEN why ELSE reason[r]]
         /\ leases' = leases \ Range(q)
         /\ waiting' = Without(waiting, Range(q))
         /\ waiting' \in Seq(Request) /\ IsInjective(waiting') /\ Range(waiting') = Range(waiting) \ Range(q)
         /\ decoding' \in Seq(Request) /\ IsInjective(decoding') /\ Range(decoding') = Range(decoding) \ Range(q)
         /\ finished' \in Seq(Request) /\ IsInjective(finished')
         /\ Range(finished') \subseteq Range(finished) \cup Range(q)
         /\ Range(finished) \cup Range(q) \subseteq Range(finished') \/ Len(finished') = MaxFinished
         /\ Cardinality(Request) <= MaxFinished => Range(finished) \cup Range(q) \subseteq Range(finished')
         /\ In("finished")' = In("finished") \cup Range(q)
         /\ Range(q) \subseteq Request
<1> DEFINE f == finished \o q
<1>1. Range(q) \subseteq Request
  BY RangeOfSeq
<1>2. finished \in Seq(Request) /\ IsInjective(finished) /\ Range(finished) \cap Range(q) = {}
  BY DEF TypeOK, Queues
<1>3. f \in Seq(Request) /\ Range(f) = Range(finished) \cup Range(q) /\ IsInjective(f)
  BY <1>2, ConcatRange
<1> HIDE DEF f
<1>4. /\ stage' = [r \in Request |-> IF r \in Range(q) THEN "finished" ELSE stage[r]]
      /\ reason' = [r \in Request |-> IF r \in Range(q) THEN why ELSE reason[r]]
      /\ leases' = leases \ Range(q)
      /\ finished' = Retain(f)
      /\ waiting' = Without(waiting, Range(q)) /\ decoding' = Without(decoding, Range(q))
  BY DEF Finish, Ends, Leaves, f
<1>5. /\ waiting \in Seq(Request) /\ decoding \in Seq(Request)
      /\ IsInjective(waiting) /\ IsInjective(decoding)
  BY DEF TypeOK, Queues, QueuesMatchStages
<1>6. waiting' \in Seq(Request) /\ IsInjective(waiting') /\ Range(waiting') = Range(waiting) \ Range(q)
  BY <1>4, <1>5, WithoutProps
<1>7. decoding' \in Seq(Request) /\ IsInjective(decoding') /\ Range(decoding') = Range(decoding) \ Range(q)
  BY <1>4, <1>5, WithoutProps
<1>8. /\ finished' \in Seq(Request) /\ IsInjective(finished')
      /\ Range(finished') \subseteq Range(finished) \cup Range(q)
      /\ Range(f) \subseteq Range(finished') \/ Len(finished') = MaxFinished
  <2>1. Len(f) \in Nat /\ MaxFinished \in Nat
    BY <1>3, PolicyAssumption
  <2>2. /\ Retain(f) \in Seq(Request) /\ Range(Retain(f)) \subseteq Range(f)
        /\ IsInjective(Retain(f))
        /\ Len(f) <= MaxFinished => Retain(f) = f
        /\ Len(f) > MaxFinished => Len(Retain(f)) = MaxFinished
    BY <1>3, RetainGood
  <2>3. Range(f) \subseteq Range(Retain(f)) \/ Len(Retain(f)) = MaxFinished
    <3>1. CASE Len(f) <= MaxFinished
      BY <2>2, <3>1
    <3>2. CASE Len(f) > MaxFinished
      BY <2>2, <3>2
    <3> QED BY <2>1, <3>1, <3>2
  <2> QED BY <1>3, <1>4, <2>2, <2>3
<1>9. Cardinality(Request) <= MaxFinished => Range(f) \subseteq Range(finished')
  <2>1. Len(f) <= Cardinality(Request) /\ Cardinality(Request) \in Nat
    BY <1>3, LenBound
  <2>2. Len(f) \in Nat /\ MaxFinished \in Nat
    BY <1>3, PolicyAssumption
  <2> QED BY <1>3, <1>4, <2>1, <2>2, RetainGood
<1>10. In("finished")' = In("finished") \cup Range(q)
  BY <1>1, <1>4 DEF In, TypeOK
<1> QED BY <1>1, <1>3, <1>4, <1>6, <1>7, <1>8, <1>9, <1>10

\* Finishing requests that are known and whose answer is not retained keeps the
\* queues, the stages, the leases and the retained answers in agreement.
LEMMA FinishKeeps ==
  ASSUME TypeOK, Queues,
         NEW q \in Seq(Request), IsInjective(q),
         \A r \in Range(q) : stage[r] # "unknown" /\ r \notin Range(finished),
         NEW why \in Outcomes, Finish(q, why), states' = states
  PROVE  Queues'
<1> DEFINE S == Range(q)
<1>1. /\ stage' = [r \in Request |-> IF r \in S THEN "finished" ELSE stage[r]]
      /\ reason' = [r \in Request |-> IF r \in S THEN why ELSE reason[r]]
      /\ leases' = leases \ S
      /\ IsInjective(waiting') /\ Range(waiting') = Range(waiting) \ S
      /\ IsInjective(decoding') /\ Range(decoding') = Range(decoding) \ S
      /\ IsInjective(finished')
      /\ Range(finished') \subseteq Range(finished) \cup S
      /\ Cardinality(Request) <= MaxFinished => Range(finished) \cup S \subseteq Range(finished')
      /\ In("finished")' = In("finished") \cup S
      /\ S \subseteq Request
  BY FinishFacts
<1>2. \A r \in S : stage[r] # "unknown"
  OBVIOUS
<1> HIDE DEF S
<1>3. why # "none"
  BY DEF Outcomes
<1>4. stage \in [Request -> Stages] /\ reason \in [Request -> Outcomes \cup {"none"}]
  BY DEF TypeOK
<1>5. \A s \in {"unknown", "waiting_prefill", "decoding"} : In(s)' = In(s) \ S
  BY <1>1, <1>4 DEF In
<1>6. /\ Range(states) = {r \in Request : stage[r] # "unknown"}
      /\ Range(decoding) = In("decoding")
      /\ Range(waiting) \subseteq In("waiting_prefill")
      /\ IsInjective(states)
      /\ {r \in Request : reason[r] # "none"} = In("finished")
      /\ leases = Range(decoding)
      /\ FitsAlone => In("waiting_prefill") \subseteq Range(waiting)
      /\ Cardinality(Request) <= MaxFinished => In("finished") \subseteq Range(finished)
      /\ Range(finished) \subseteq In("finished")
  BY DEF Queues, QueuesMatchStages, KVHealth, In
<1>7. {r \in Request : stage'[r] # "unknown"} = {r \in Request : stage[r] # "unknown"}
  BY <1>1, <1>2, <1>4
<1>8. {r \in Request : reason'[r] # "none"} = In("finished") \cup S
  BY <1>1, <1>3, <1>4, <1>6
<1>9. QueuesMatchStages'
  <2>1. Range(states') = {r \in Request : stage'[r] # "unknown"} /\ IsInjective(states')
    BY <1>6, <1>7
  <2>2. Range(decoding') = In("decoding")' /\ Range(waiting') \subseteq In("waiting_prefill")'
    BY <1>1, <1>5, <1>6
  <2>3. {r \in Request : reason'[r] # "none"} = In("finished")'
    BY <1>1, <1>8
  <2> QED BY <1>1, <2>1, <2>2, <2>3 DEF QueuesMatchStages, In
<1>10. KVHealth'
  BY <1>1, <1>6 DEF KVHealth
<1>11. Range(finished') \subseteq In("finished")'
  BY <1>1, <1>6
<1>12. FitsAlone => In("waiting_prefill")' \subseteq Range(waiting')
  BY <1>1, <1>5, <1>6
<1>13. Cardinality(Request) <= MaxFinished => In("finished")' \subseteq Range(finished')
  BY <1>1, <1>6
<1>14. FitsAlone' <=> FitsAlone
  BY DEF FitsAlone
<1> QED BY <1>1, <1>9, <1>10, <1>11, <1>12, <1>13, <1>14 DEF Queues

-----------------------------------------------------------------------------
(* Who ends in a step.                                                     *)

\* The requests that have not ended.
Unended == In("waiting_prefill") \cup In("decoding")

\* The requests of q, none of which has ended, end with outcome why.
Ending(q, why) ==
    /\ q \in Seq(Request) /\ IsInjective(q) /\ Range(q) \subseteq Unended
    /\ why \in Outcomes
    /\ Finish(q, why)
    /\ states' = states

\* An ending keeps the queues in agreement and makes its requests finished.
LEMMA EndingKeeps ==
  ASSUME TypeOK, Queues, NEW q, NEW why, Ending(q, why)
  PROVE  /\ Queues'
         /\ stage' = [r \in Request |-> IF r \in Range(q) THEN "finished" ELSE stage[r]]
         /\ reason' = [r \in Request |-> IF r \in Range(q) THEN why ELSE reason[r]]
         /\ leases' = leases \ Range(q)
         /\ waiting' = Without(waiting, Range(q))
         /\ waiting' \in Seq(Request) /\ decoding' \in Seq(Request) /\ finished' \in Seq(Request)
         /\ Range(decoding') = Range(decoding) \ Range(q)
         /\ Range(finished) \cup Range(q) \subseteq Range(finished') \/ Len(finished') = MaxFinished
         /\ In("finished")' = In("finished") \cup Range(q)
         /\ \A r \in Range(finished) : r \notin Range(q)
         /\ Range(q) \subseteq Request
<1>1. q \in Seq(Request) /\ IsInjective(q) /\ why \in Outcomes /\ Finish(q, why) /\ states' = states
  BY DEF Ending
<1>2. \A r \in Range(q) : stage[r] # "unknown" /\ r \notin Range(finished)
  BY DEF Ending, Unended, In, Queues
<1>3. Queues'
  BY <1>1, <1>2, FinishKeeps
<1>4. /\ stage' = [r \in Request |-> IF r \in Range(q) THEN "finished" ELSE stage[r]]
      /\ reason' = [r \in Request |-> IF r \in Range(q) THEN why ELSE reason[r]]
      /\ leases' = leases \ Range(q)
      /\ waiting' = Without(waiting, Range(q))
      /\ waiting' \in Seq(Request) /\ decoding' \in Seq(Request) /\ finished' \in Seq(Request)
      /\ Range(decoding') = Range(decoding) \ Range(q)
      /\ Range(finished) \cup Range(q) \subseteq Range(finished') \/ Len(finished') = MaxFinished
      /\ In("finished")' = In("finished") \cup Range(q)
      /\ Range(q) \subseteq Request
  BY <1>1, <1>2, FinishFacts
<1> QED BY <1>2, <1>3, <1>4

\* The requests that are late end, and the tick reports them.
LEMMA TimedOutEnds ==
  ASSUME ServingOK, FailTimedOut
  PROVE  \E q : Ending(q, "request_timeout") /\ Range(q) = ended'
<1> DEFINE late == ended'
           q == Only(states, late)
<1>1. /\ Finish(q, "request_timeout") /\ states' = states
      /\ late \subseteq {r \in Request : stage[r] \in {"waiting_prefill", "decoding"}}
  BY DEF FailTimedOut
<1>2. late \subseteq Unended
  BY <1>1 DEF Unended, In
<1> HIDE DEF late
<1>3. /\ states \in Seq(Request) /\ IsInjective(states)
      /\ Range(states) = {r \in Request : stage[r] # "unknown"}
  BY DEF ServingOK, TypeOK, Queues, QueuesMatchStages
<1>4. q \in Seq(Request) /\ Range(q) = Range(states) \cap late /\ IsInjective(q)
  BY <1>3, OnlyProps
<1>5. late \subseteq Range(states)
  BY <1>2, <1>3 DEF Unended, In
<1> HIDE DEF q
<1>6. Range(q) = late
  BY <1>4, <1>5
<1> QED BY <1>1, <1>2, <1>4, <1>6 DEF Ending, Outcomes, late

\* A prefill that fails ends the requests admitted in this tick.
LEMMA PrefillEnds ==
  ASSUME ServingOK, PrefillFails
  PROVE  Ending(prefill, "prefill_failed")
<1>1. phase = "prefill" /\ Finish(prefill, "prefill_failed") /\ states' = states
  BY DEF PrefillFails
<1>2. prefill \in Seq(Request) /\ IsInjective(prefill) /\ Range(prefill) \subseteq Range(decoding)
  BY <1>1 DEF ServingOK, TypeOK, TickOK
<1>3. Range(decoding) = In("decoding")
  BY DEF ServingOK, Queues, QueuesMatchStages, In
<1> QED BY <1>1, <1>2, <1>3 DEF Ending, Unended, Outcomes

\* Nobody in a batch that is still to run has ended.
LEMMA NextBatch ==
  ASSUME ServingOK, phase = "decode", at <= Len(batches)
  PROVE  /\ batches[at] \in Seq(Request) /\ IsInjective(batches[at])
         /\ Range(batches[at]) \subseteq Range(decoding)
         /\ at \in 1..Len(batches)
<1>1. at \in 1..Len(batches) /\ at \in at..Len(batches)
  BY DEF ServingOK, TypeOK
<1>2. Batching(batches, Range(decoding) \cup done) /\ Range(batches[at]) \cap done = {}
  BY <1>1 DEF ServingOK, TickOK, BatchesOK
<1>3. batches[at] \in Seq(Request)
  BY <1>1 DEF ServingOK, TypeOK
<1>4. IsInjective(batches[at]) /\ Range(batches[at]) \subseteq Range(decoding) \cup done
  BY <1>1, <1>2 DEF Batching
<1> QED BY <1>1, <1>2, <1>3, <1>4

\* Requests of the batch that just ran end, and the tick has them among its done ones.
LEMMA DecodeEnds ==
  ASSUME ServingOK, Decode
  PROVE  \E q : /\ Ending(q, "decoded") /\ Range(q) \subseteq Range(batches[at])
                /\ done' = done \cup Range(q)
<1> DEFINE b == batches[at]
<1>1. b \in Seq(Request) /\ IsInjective(b) /\ Range(b) \subseteq Range(decoding)
  BY NextBatch DEF Decode
<1>2. PICK S \in SUBSET Range(b) : Finish(Only(b, S), "decoded") /\ done' = done \cup S
  <2>1. PICK m \in 0 .. Len(b) : \E S \in SUBSET Range(SubSeq(b, 1, m)) :
          Finish(Only(b, S), "decoded") /\ done' = done \cup S
    BY DEF Decode
  <2>2. Range(SubSeq(b, 1, m)) \subseteq Range(b)
    <3>1. Len(SubSeq(b, 1, m)) = m /\ \A i \in 1..m : SubSeq(b, 1, m)[i] = b[i]
      BY <1>1, SubSeqProperties
    <3>2. DOMAIN SubSeq(b, 1, m) = 1..m /\ 1..m \subseteq DOMAIN b
      BY <1>1, <3>1
    <3> QED BY <3>1, <3>2 DEF Range
  <2> QED BY <2>1, <2>2
<1>3. states' = states
  BY DEF Decode
<1> HIDE DEF b
<1> DEFINE q == Only(b, S)
<1>4. q \in Seq(Request) /\ IsInjective(q) /\ Range(q) = S
  <2>1. q \in Seq(Request) /\ IsInjective(q) /\ Range(q) = Range(b) \cap S
    BY <1>1, OnlyProps
  <2>2. Range(b) \cap S = S
    OBVIOUS
  <2> QED BY <2>1, <2>2
<1>5. Range(decoding) = In("decoding")
  BY DEF ServingOK, Queues, QueuesMatchStages, In
<1>6. Ending(q, "decoded")
  BY <1>1, <1>2, <1>3, <1>4, <1>5 DEF Ending, Unended, Outcomes
<1> HIDE DEF q
<1> QED BY <1>2, <1>4, <1>6 DEF b

\* A decode that fails ends the planned requests that have not ended, and the
\* tick reports these.
LEMMA DecodeFailsEnds ==
  ASSUME ServingOK, DecodeFails
  PROVE  \E q : Ending(q, "decode_failed") /\ ended' = ended \cup Range(q)
<1> DEFINE F == FlattenSeq(batches)
           fin == In("finished")
           q == Without(F, fin)
<1>1. /\ phase \in {"decode", "raised"} /\ states' = states
      /\ Finish(q, "decode_failed") /\ ended' = ended \cup Range(q)
  BY DEF DecodeFails, In
<1>2. Batching(batches, Range(decoding) \cup done) /\ done \subseteq fin
  BY <1>1 DEF ServingOK, TickOK, BatchesOK
<1>3. batches \in Seq(Seq(Request))
  BY DEF ServingOK, TypeOK
<1> HIDE DEF fin
<1>4. /\ F \in Seq(Request)
      /\ \A r \in Range(F) : \E i \in 1..Len(batches) : r \in Range(batches[i])
  BY <1>3, FlattenProps
<1>5. IsInjective(F)
  <2>1. /\ \A i \in 1..Len(batches) : IsInjective(batches[i])
        /\ \A i, j \in 1..Len(batches) : i # j => Range(batches[i]) \cap Range(batches[j]) = {}
    BY <1>2 DEF Batching
  <2> QED BY <1>3, <2>1, FlattenProps
<1>6. Range(F) \subseteq Range(decoding) \cup done
  BY <1>2, <1>4 DEF Batching
<1> HIDE DEF F
<1>7. q \in Seq(Request) /\ Range(q) = Range(F) \ fin /\ IsInjective(q)
  BY <1>4, <1>5, WithoutProps
<1>8. Range(decoding) = In("decoding")
  BY DEF ServingOK, Queues, QueuesMatchStages, In
<1> HIDE DEF q
<1>9. Range(q) \subseteq Unended
  BY <1>2, <1>6, <1>7, <1>8 DEF Unended
<1> QED BY <1>1, <1>7, <1>9 DEF Ending, Outcomes

\* A shutdown that runs out of ticks ends everyone in the queue or decoding.
LEMMA ShutdownEnds ==
  ASSUME ServingOK, FailUnfinished
  PROVE  Ending(waiting \o decoding, "timeout")
<1>1. Finish(waiting \o decoding, "timeout") /\ states' = states
  BY DEF FailUnfinished
<1>2. /\ waiting \in Seq(Request) /\ decoding \in Seq(Request)
      /\ IsInjective(waiting) /\ IsInjective(decoding)
      /\ Range(waiting) \subseteq In("waiting_prefill") /\ Range(decoding) = In("decoding")
  BY DEF ServingOK, TypeOK, Queues, QueuesMatchStages, In
<1>3. Range(waiting) \cap Range(decoding) = {}
  BY <1>2 DEF In
<1>4. /\ waiting \o decoding \in Seq(Request)
      /\ Range(waiting \o decoding) = Range(waiting) \cup Range(decoding)
      /\ IsInjective(waiting \o decoding)
  BY <1>2, <1>3, ConcatRange
<1> QED BY <1>1, <1>2, <1>4 DEF Ending, Unended, Outcomes

-----------------------------------------------------------------------------
(* The other steps that move requests.                                     *)

\* Nobody is in the queue twice, so it is no longer than the set of ids; and the
\* pending requests the facade accepts join it.
LEMMA SubmitKeeps ==
  ASSUME TypeOK, Queues, pending \in Seq(Request),
         pending = <<>> \/ Accepts(pending), SubmitAll(pending)
  PROVE  /\ Queues'
         /\ stage' \in [Request -> Stages]
         /\ states' \in Seq(Request) /\ waiting' \in Seq(Request)
         /\ waiting' = waiting \o pending
         /\ \A r \in Request : r \in Range(pending) => stage[r] = "unknown" /\ stage'[r] # "unknown"
         /\ \A r \in Request : r \notin Range(pending) => stage'[r] = stage[r]
         /\ IsInjective(pending) /\ Range(pending) \subseteq Request
         /\ UNCHANGED <<decoding, finished, reason, step, age, leases>>
<1> DEFINE S == Range(pending)
<1>1. S \subseteq Request /\ IsInjective(pending) /\ \A r \in S : stage[r] = "unknown"
  <2>1. CASE pending = <<>>
    BY <2>1 DEF IsInjective, Range
  <2>2. CASE Accepts(pending)
    BY <2>2, RangeOfSeq DEF Accepts
  <2> QED BY <2>1, <2>2
<1>2. /\ states' = states \o pending /\ waiting' = waiting \o pending
      /\ stage' = [r \in Request |-> IF r \in S THEN "waiting_prefill" ELSE stage[r]]
      /\ UNCHANGED <<decoding, finished, reason, step, age, leases>>
  BY DEF SubmitAll
<1> HIDE DEF S
<1>3. /\ states \in Seq(Request) /\ waiting \in Seq(Request)
      /\ stage \in [Request -> Stages]
  BY DEF TypeOK
<1>4. /\ Range(states) = {r \in Request : stage[r] # "unknown"}
      /\ Range(decoding) = In("decoding")
      /\ Range(waiting) \subseteq In("waiting_prefill")
      /\ IsInjective(waiting) /\ IsInjective(decoding) /\ IsInjective(states)
      /\ {r \in Request : reason[r] # "none"} = In("finished")
      /\ leases = Range(decoding)
      /\ FitsAlone => In("waiting_prefill") \subseteq Range(waiting)
      /\ Cardinality(Request) <= MaxFinished => In("finished") \subseteq Range(finished)
      /\ Range(finished) \subseteq In("finished") /\ IsInjective(finished)
  BY DEF Queues, QueuesMatchStages, KVHealth, In
<1>5. Range(states) \cap S = {} /\ Range(waiting) \cap S = {}
  BY <1>1, <1>4 DEF In
<1>6. states' \in Seq(Request) /\ IsInjective(states') /\ Range(states') = Range(states) \cup S
  BY <1>1, <1>2, <1>3, <1>4, <1>5, ConcatRange DEF S
<1>7. waiting' \in Seq(Request) /\ IsInjective(waiting') /\ Range(waiting') = Range(waiting) \cup S
  BY <1>1, <1>2, <1>3, <1>4, <1>5, ConcatRange DEF S
<1>8. /\ In("decoding")' = In("decoding") /\ In("finished")' = In("finished")
      /\ In("waiting_prefill")' = In("waiting_prefill") \cup S
      /\ {r \in Request : stage'[r] # "unknown"} = {r \in Request : stage[r] # "unknown"} \cup S
  BY <1>1, <1>2, <1>3 DEF In
<1>9. QueuesMatchStages'
  <2>1. Range(states') = {r \in Request : stage'[r] # "unknown"}
    BY <1>4, <1>6, <1>8
  <2>2. Range(decoding') = In("decoding")' /\ Range(waiting') \subseteq In("waiting_prefill")'
    BY <1>2, <1>4, <1>7, <1>8
  <2>3. {r \in Request : reason'[r] # "none"} = In("finished")'
    BY <1>2, <1>4, <1>8
  <2>4. IsInjective(decoding')
    BY <1>2, <1>4
  <2> QED BY <1>6, <1>7, <2>1, <2>2, <2>3, <2>4 DEF QueuesMatchStages, In
<1>10. KVHealth'
  BY <1>2, <1>4 DEF KVHealth
<1>11. Range(finished') \subseteq In("finished")' /\ IsInjective(finished')
  BY <1>2, <1>4, <1>8
<1>12. FitsAlone => In("waiting_prefill")' \subseteq Range(waiting')
  BY <1>4, <1>7, <1>8
<1>13. Cardinality(Request) <= MaxFinished => In("finished")' \subseteq Range(finished')
  BY <1>2, <1>4, <1>8
<1>14. FitsAlone' <=> FitsAlone
  BY DEF FitsAlone
<1>15. Queues'
  BY <1>9, <1>10, <1>11, <1>12, <1>13, <1>14 DEF Queues
<1>16. /\ stage' \in [Request -> Stages]
       /\ \A r \in Request : r \in S => stage[r] = "unknown" /\ stage'[r] # "unknown"
       /\ \A r \in Request : r \notin S => stage'[r] = stage[r]
  BY <1>1, <1>2, <1>3 DEF Stages
<1> QED BY <1>1, <1>2, <1>6, <1>7, <1>15, <1>16 DEF S

\* The head of the queue starts.
LEMMA AdmitKeeps ==
  ASSUME TypeOK, Queues, Admit, phase = "admit" => Range(prefill) \subseteq Range(decoding) /\ IsInjective(prefill)
  PROVE  /\ Queues'
         /\ stage' \in [Request -> Stages]
         /\ waiting' \in Seq(Request) /\ decoding' \in Seq(Request) /\ prefill' \in Seq(Request)
         /\ Range(prefill') \subseteq Range(decoding') /\ IsInjective(prefill')
         /\ Range(decoding') = Range(decoding) \cup {Head(waiting)}
         /\ Range(prefill') = Range(prefill) \cup {Head(waiting)}
         /\ In("finished")' = In("finished")
         /\ waiting # <<>> /\ Head(waiting) \notin leases /\ waiting' = Tail(waiting)
         /\ leases' = leases \cup {Head(waiting)} /\ reason' = reason
<1> DEFINE h == Head(waiting)
<1>1. /\ phase = "admit" /\ waiting # <<>>
      /\ leases' = leases \cup {h} /\ stage' = [stage EXCEPT ![h] = "decoding"]
      /\ decoding' = Append(decoding, h) /\ prefill' = Append(prefill, h)
      /\ waiting' = Tail(waiting)
      /\ UNCHANGED <<states, finished, reason, step>>
  BY DEF Admit, Admitting
<1>2. /\ waiting \in Seq(Request) /\ decoding \in Seq(Request) /\ prefill \in Seq(Request)
      /\ stage \in [Request -> Stages]
  BY DEF TypeOK
<1>3. /\ Range(states) = {r \in Request : stage[r] # "unknown"}
      /\ Range(decoding) = In("decoding")
      /\ Range(waiting) \subseteq In("waiting_prefill")
      /\ IsInjective(waiting) /\ IsInjective(decoding) /\ IsInjective(states)
      /\ {r \in Request : reason[r] # "none"} = In("finished")
      /\ leases = Range(decoding)
      /\ FitsAlone => In("waiting_prefill") \subseteq Range(waiting)
      /\ Cardinality(Request) <= MaxFinished => In("finished") \subseteq Range(finished)
      /\ Range(finished) \subseteq In("finished") /\ IsInjective(finished)
  BY DEF Queues, QueuesMatchStages, KVHealth, In
<1>4. /\ h \in Request /\ Tail(waiting) \in Seq(Request)
      /\ Range(waiting) = {h} \cup Range(Tail(waiting))
      /\ IsInjective(Tail(waiting)) /\ h \notin Range(Tail(waiting))
  BY <1>1, <1>2, <1>3, HeadTailRange
<1> HIDE DEF h
<1>5. stage[h] = "waiting_prefill" /\ h \notin Range(decoding) /\ h \notin Range(prefill)
  BY <1>1, <1>3, <1>4 DEF In
<1>6. decoding' \in Seq(Request) /\ IsInjective(decoding') /\ Range(decoding') = Range(decoding) \cup {h}
  BY <1>1, <1>2, <1>3, <1>4, <1>5, AppendRange
<1>7. prefill' \in Seq(Request) /\ IsInjective(prefill') /\ Range(prefill') = Range(prefill) \cup {h}
  BY <1>1, <1>2, <1>4, <1>5, AppendRange
<1>8. /\ In("decoding")' = In("decoding") \cup {h} /\ In("finished")' = In("finished")
      /\ In("waiting_prefill")' = In("waiting_prefill") \ {h}
      /\ {r \in Request : stage'[r] # "unknown"} = {r \in Request : stage[r] # "unknown"}
  BY <1>1, <1>2, <1>4, <1>5 DEF In
<1>9. QueuesMatchStages'
  <2>1. Range(states') = {r \in Request : stage'[r] # "unknown"} /\ IsInjective(states')
    BY <1>1, <1>3, <1>8
  <2>2. Range(decoding') = In("decoding")' /\ Range(waiting') \subseteq In("waiting_prefill")'
    BY <1>1, <1>3, <1>4, <1>6, <1>8
  <2>3. {r \in Request : reason'[r] # "none"} = In("finished")'
    BY <1>1, <1>3, <1>8
  <2>4. IsInjective(waiting')
    BY <1>1, <1>4
  <2> QED BY <1>6, <2>1, <2>2, <2>3, <2>4 DEF QueuesMatchStages, In
<1>10. KVHealth'
  BY <1>1, <1>3, <1>6 DEF KVHealth
<1>11. Range(finished') \subseteq In("finished")' /\ IsInjective(finished')
  BY <1>1, <1>3, <1>8
<1>12. FitsAlone => In("waiting_prefill")' \subseteq Range(waiting')
  BY <1>1, <1>3, <1>4, <1>8
<1>13. Cardinality(Request) <= MaxFinished => In("finished")' \subseteq Range(finished')
  BY <1>1, <1>3, <1>8
<1>14. FitsAlone' <=> FitsAlone
  BY DEF FitsAlone
<1>15. Queues'
  BY <1>9, <1>10, <1>11, <1>12, <1>13, <1>14 DEF Queues
<1>16. stage' \in [Request -> Stages]
  BY <1>1, <1>2 DEF Stages
<1>17. h \notin leases /\ Range(prefill') \subseteq Range(decoding')
  BY <1>1, <1>3, <1>5, <1>6, <1>7
<1>18. waiting' \in Seq(Request)
  BY <1>1, <1>4
<1> QED BY <1>1, <1>4, <1>6, <1>7, <1>8, <1>15, <1>16, <1>17, <1>18 DEF h

\* A request that is deferred stays at the head of the queue.
LEMMA AdmitEndKeeps ==
  ASSUME TypeOK, AdmitEnd
  PROVE  waiting' = waiting
<1>1. waiting \in Seq(Request)
  BY DEF TypeOK
<1>2. CASE waiting' = Defer(waiting) /\ waiting # <<>>
  <2>1. waiting = <<Head(waiting)>> \o Tail(waiting)
    BY <1>1, <1>2
  <2> QED BY <1>2, <2>1 DEF Defer
<1> QED BY <1>2 DEF AdmitEnd, Admitting

\* A request that fits alone is never refused by an idle server.
LEMMA NoOverBudget ==
  ASSUME FitsAlone, TypeOK, OverBudget
  PROVE  FALSE
<1> DEFINE h == Head(waiting)
<1>1. leases = {} /\ ~CanAllocate(h) /\ waiting # <<>>
  BY DEF OverBudget, Admitting
<1>2. h \in Request
  BY <1>1, HeadTailRange DEF TypeOK
<1>3. \A cost : Total(cost, {}) = 0
  BY DEF Total, MapThenSumSet, MapThenFoldSet
<1>4. 0 + 1 <= MaxRunning
  BY PolicyAssumption
<1>5. Cardinality({}) = 0
  BY FS_EmptySet
<1>6. /\ Context[h] \in Nat /\ DecodeSteps[h] * Width[h] \in Nat
      /\ Context[h] <= MaxContext /\ DecodeSteps[h] * Width[h] <= MaxBeams
  BY <1>2, RequestAssumption DEF FitsAlone
<1> HIDE DEF h
<1>7. CanAllocate(h)
  BY <1>1, <1>3, <1>4, <1>5, <1>6 DEF CanAllocate
<1> QED BY <1>1, <1>7

-----------------------------------------------------------------------------
(* The inductive invariant of the queues.                                  *)

\* Queues is about the requests only.
LEMMA QueuesSame ==
  ASSUME Queues, UNCHANGED requestVars
  PROVE  Queues'
BY DEF Queues, QueuesMatchStages, KVHealth, In, FitsAlone, requestVars

\* Every stage of a tick keeps the types, the queues and what the tick remembers.
LEMMA TickKeeps ==
  ASSUME ServingOK, TickStep
  PROVE  TypeOK' /\ Queues' /\ TickOK'
<1>1. TypeOK /\ Queues /\ TickOK
  BY DEF ServingOK
<1>2. ASSUME NEW q, NEW why, Ending(q, why)
      PROVE  /\ Queues'
             /\ states' \in Seq(Request) /\ waiting' \in Seq(Request) /\ decoding' \in Seq(Request)
             /\ finished' \in Seq(Request)
             /\ stage' \in [Request -> Stages] /\ reason' \in [Request -> Outcomes \cup {"none"}]
             /\ Range(decoding') = Range(decoding) \ Range(q)
             /\ In("finished")' = In("finished") \cup Range(q)
  <2>1. /\ Queues'
        /\ stage' = [r \in Request |-> IF r \in Range(q) THEN "finished" ELSE stage[r]]
        /\ reason' = [r \in Request |-> IF r \in Range(q) THEN why ELSE reason[r]]
        /\ waiting' \in Seq(Request) /\ decoding' \in Seq(Request) /\ finished' \in Seq(Request)
        /\ Range(decoding') = Range(decoding) \ Range(q)
        /\ In("finished")' = In("finished") \cup Range(q)
    BY <1>1, <1>2, EndingKeeps
  <2>2. states' = states /\ why \in Outcomes
    BY <1>2 DEF Ending
  <2>3. stage' \in [Request -> Stages]
    BY <1>1, <2>1 DEF TypeOK, Stages
  <2>4. reason' \in [Request -> Outcomes \cup {"none"}]
    BY <1>1, <2>1, <2>2 DEF TypeOK
  <2> QED BY <1>1, <2>1, <2>2, <2>3, <2>4 DEF TypeOK
<1>3. CASE FailTimedOut
  <2>1. PICK q : Ending(q, "request_timeout") /\ Range(q) = ended'
    BY <1>3, TimedOutEnds
  <2>2. /\ phase' = "admit" /\ prefill' = <<>>
        /\ UNCHANGED <<step, groups, batches, at, done>>
    BY <1>3 DEF FailTimedOut
  <2>3. TypeOK'
    BY <1>1, <1>2, <2>1, <2>2 DEF TypeOK
  <2>4. TickOK'
    <3>1. ended' \cup done' \subseteq In("finished")'
      BY <1>1, <1>2, <2>1, <2>2 DEF TickOK
    <3>2. Range(prefill') = {} /\ IsInjective(prefill')
      BY <2>2 DEF Range, IsInjective
    <3> QED BY <2>2, <3>1, <3>2 DEF TickOK
  <2> QED BY <1>2, <2>1, <2>3, <2>4
<1>4. CASE Admit
  <2>1. /\ phase = "admit" /\ phase' = "admit"
        /\ UNCHANGED <<states, finished, reason, step, groups, batches, at, done, ended>>
    BY <1>4 DEF Admit, Admitting
  <2>2. Range(prefill) \subseteq Range(decoding) /\ IsInjective(prefill)
    BY <1>1, <2>1 DEF TickOK
  <2>3. /\ Queues' /\ stage' \in [Request -> Stages]
        /\ waiting' \in Seq(Request) /\ decoding' \in Seq(Request) /\ prefill' \in Seq(Request)
        /\ Range(prefill') \subseteq Range(decoding') /\ IsInjective(prefill')
        /\ In("finished")' = In("finished")
    BY <1>1, <1>4, <2>2, AdmitKeeps
  <2>4. TypeOK'
    BY <1>1, <2>1, <2>3 DEF TypeOK
  <2>5. TickOK'
    BY <1>1, <2>1, <2>3 DEF TickOK
  <2> QED BY <2>3, <2>4, <2>5
<1>5. CASE AdmitEnd
  <2>1. waiting' = waiting
    BY <1>1, <1>5, AdmitEndKeeps
  <2>2. /\ phase = "admit" /\ phase' = "prefill" /\ groups' = ShapeGroups(prefill)
        /\ UNCHANGED <<states, stage, decoding, finished, reason, step, age, leases,
                       prefill, batches, at, done, ended>>
    BY <1>5 DEF AdmitEnd
  <2>3. Queues'
    BY <1>1, <2>1, <2>2, QueuesSame DEF requestVars
  <2>4. /\ groups' \in Seq(Seq(Request))
        /\ \A i \in 1..Len(groups') : Range(groups'[i]) \subseteq Range(prefill) /\ IsInjective(groups'[i])
    BY <1>1, <2>2, ShapeGroupsGood DEF TypeOK, TickOK
  <2>5. TypeOK'
    BY <1>1, <2>1, <2>2, <2>4 DEF TypeOK
  <2>6. TickOK'
    BY <1>1, <2>2, <2>4 DEF TickOK, In
  <2> QED BY <2>3, <2>5, <2>6
<1>6. CASE Prefill
  <2>1. /\ phase = "prefill" /\ groups # <<>> /\ groups' = Tail(groups)
        /\ UNCHANGED <<requestVars, phase, prefill, batches, at, done, ended>>
    BY <1>6 DEF Prefill
  <2>2. Queues'
    BY <1>1, <2>1, QueuesSame
  <2>3. groups' \in Seq(Seq(Request)) /\ Range(groups) = {Head(groups)} \cup Range(groups')
    BY <1>1, <2>1, HeadTailRange DEF TypeOK
  <2>4. \A i \in 1..Len(groups') : \E j \in 1..Len(groups) : groups'[i] = groups[j]
    BY <1>1, <2>1, <2>3 DEF TypeOK
  <2>5. TypeOK'
    BY <1>1, <2>1, <2>3 DEF TypeOK, requestVars
  <2>6. TickOK'
    BY <1>1, <2>1, <2>4 DEF TickOK, In, requestVars
  <2> QED BY <2>2, <2>5, <2>6
<1>7. CASE PrefillFails
  <2>1. Ending(prefill, "prefill_failed")
    BY <1>7, PrefillEnds
  <2>2. /\ phase' = "attach" /\ ended' = ended \cup Range(prefill)
        /\ UNCHANGED <<step, prefill, groups, batches, at, done>>
    BY <1>7 DEF PrefillFails
  <2>3. TypeOK'
    BY <1>1, <1>2, <2>1, <2>2 DEF TypeOK
  <2>4. TickOK'
    BY <1>1, <1>2, <2>1, <2>2 DEF TickOK
  <2> QED BY <1>2, <2>1, <2>3, <2>4
<1>8. CASE PlanDecode
  <2>1. /\ phase' = "decode" /\ batches' = Plan /\ at' = 1 /\ done' = {}
        /\ UNCHANGED <<requestVars, prefill, groups, ended>>
    BY <1>8 DEF PlanDecode
  <2>2. Queues'
    BY <1>1, <2>1, QueuesSame
  <2>3. decoding \in Seq(Request) /\ IsInjective(decoding) /\ step \in [Request -> Nat]
    BY <1>1 DEF TypeOK, Queues, QueuesMatchStages
  <2>4. /\ Batching(Plan, Range(decoding))
        /\ \A i \in 1..Len(Plan) : \A r, q \in Range(Plan[i]) : Key(r) = Key(q)
    BY <2>3, PlanGood
  <2>5. Plan \in Seq(Seq(Request))
    BY <2>4 DEF Batching
  <2>6. TypeOK'
    BY <1>1, <2>1, <2>5 DEF TypeOK, requestVars
  <2>7. Range(decoding') \cup done' = Range(decoding)
    BY <2>1 DEF requestVars
  <2>8. BatchesOK'
    <3>1. Batching(batches', Range(decoding') \cup done')
      BY <2>1, <2>4, <2>7
    <3>2. \A r \in Request : Key(r)' = Key(r)
      BY <2>1 DEF Key, requestVars
    <3>3. \A i \in 1..Len(Plan) : Range(Plan[i]) \subseteq Request
      BY <2>5, RangeOfSeq
    <3>4. \A i \in 1..Len(batches') : \A r, q \in Range(batches'[i]) : Key(r)' = Key(q)'
      <4> HIDE DEF Key
      <4> QED BY <2>1, <2>4, <3>2, <3>3
    <3> QED BY <2>1, <3>1, <3>4 DEF BatchesOK, Batching
  <2>9. TickOK'
    BY <1>1, <2>1, <2>8 DEF TickOK, In, requestVars
  <2> QED BY <2>2, <2>6, <2>9
<1>9. CASE Decode
  <2> DEFINE b == batches[at]
  <2>1. PICK q : /\ Ending(q, "decoded") /\ Range(q) \subseteq Range(b)
                 /\ done' = done \cup Range(q)
    BY <1>9, DecodeEnds
  <2>2. /\ phase = "decode" /\ at <= Len(batches) /\ at' = at + 1
        /\ phase' \in {"decode", "raised"}
        /\ UNCHANGED <<prefill, groups, batches, ended>>
        /\ \E A : step' = [r \in Request |-> IF r \in A THEN step[r] + 1 ELSE step[r]]
    BY <1>9 DEF Decode
  <2>3. Range(b) \subseteq Range(decoding) /\ at \in 1..Len(batches)
    BY <2>2, NextBatch
  <2> HIDE DEF b
  <2>4. TypeOK'
    BY <1>1, <1>2, <2>1, <2>2, SMTT(30) DEF TypeOK
  <2>5. BatchesOK'
    <3>1. BatchesOK
      BY <1>1, <2>2 DEF TickOK
    <3>2. Range(decoding') \cup done' = Range(decoding) \cup done
      BY <1>2, <2>1, <2>3
    <3>3. Batching(batches', Range(decoding') \cup done')
      BY <2>2, <3>1, <3>2 DEF BatchesOK
    <3>4. ASSUME NEW i \in (at + 1)..Len(batches) PROVE Range(batches[i]) \cap done' = {}
      <4>1. i \in at..Len(batches) /\ i \in 1..Len(batches) /\ i # at
        BY <1>1 DEF TypeOK
      <4>2. Range(batches[i]) \cap Range(b) = {}
        BY <2>3, <3>1, <4>1 DEF BatchesOK, Batching, b
      <4> QED BY <2>1, <3>1, <4>1, <4>2 DEF BatchesOK
    <3>5. at' # 1
      BY <1>1, <2>2 DEF TypeOK
    <3> QED BY <2>2, <3>3, <3>4, <3>5 DEF BatchesOK
  <2>6. TickOK'
    BY <1>1, <1>2, <2>1, <2>2, <2>5 DEF TickOK
  <2> QED BY <1>2, <2>1, <2>4, <2>6
<1>10. CASE DecodeFails
  <2>1. PICK q : Ending(q, "decode_failed") /\ ended' = ended \cup Range(q)
    BY <1>10, DecodeFailsEnds
  <2>2. phase' = "attach" /\ UNCHANGED <<step, prefill, groups, batches, at, done>>
    BY <1>10 DEF DecodeFails
  <2>3. TypeOK'
    BY <1>1, <1>2, <2>1, <2>2 DEF TypeOK
  <2>4. TickOK'
    BY <1>1, <1>2, <2>1, <2>2 DEF TickOK
  <2> QED BY <1>2, <2>1, <2>3, <2>4
<1>11. CASE DecodeEnd
  <2>1. /\ phase' = "attach" /\ ended' = ended \cup done
        /\ UNCHANGED <<requestVars, prefill, groups, batches, at, done>>
    BY <1>11 DEF DecodeEnd
  <2>2. Queues'
    BY <1>1, <2>1, QueuesSame
  <2>3. TypeOK' /\ TickOK'
    BY <1>1, <2>1 DEF TypeOK, TickOK, In, requestVars
  <2> QED BY <2>2, <2>3
<1>12. CASE TickEnd
  <2>1. /\ phase' = "idle" /\ prefill' = <<>> /\ groups' = <<>> /\ batches' = <<>> /\ at' = 1
        /\ done' = {} /\ ended' = {} /\ UNCHANGED requestVars
    BY <1>12 DEF TickEnd
  <2>2. Queues'
    BY <1>1, <2>1, QueuesSame
  <2>3. TypeOK' /\ TickOK'
    BY <1>1, <2>1 DEF TypeOK, TickOK, requestVars
  <2> QED BY <2>2, <2>3
<1> QED BY <1>3, <1>4, <1>5, <1>6, <1>7, <1>8, <1>9, <1>10, <1>11, <1>12 DEF TickStep

\* A cancel keeps them too.
LEMMA CancelKeeps ==
  ASSUME ServingOK, NEW r \in Request, Cancel(r)
  PROVE  /\ TypeOK' /\ Queues' /\ TickOK'
         /\ \/ /\ UNCHANGED <<stage, waiting, decoding, finished, reason, leases>>
               /\ r \in Range(finished)
            \/ /\ Finish(<<r>>, "cancelled") /\ r \notin Range(finished)
               /\ stage[r] # "unknown" /\ Range(<<r>>) = {r}
               /\ Range(decoding') = Range(decoding) \ {r}
               /\ Range(finished) \cup {r} \subseteq Range(finished') \/ Len(finished') = MaxFinished
<1>1. TypeOK /\ Queues /\ TickOK
  BY DEF ServingOK
<1>2. /\ phase = "idle" /\ stage[r] # "unknown"
      /\ UNCHANGED <<states, step, age, phase, prefill, groups, batches, at, done, ended>>
  BY DEF Cancel, tickVars
<1>3. CASE r \in Range(finished) /\ UNCHANGED <<stage, waiting, decoding, finished, reason, leases>>
  <2>1. UNCHANGED requestVars
    BY <1>2, <1>3 DEF requestVars
  <2>2. Queues'
    BY <1>1, <2>1, QueuesSame
  <2> QED BY <1>1, <1>2, <1>3, <2>2 DEF TypeOK, TickOK, In
<1>4. CASE r \notin Range(finished) /\ Finish(<<r>>, "cancelled")
  <2> DEFINE q == <<r>>
  <2>1. q \in Seq(Request) /\ IsInjective(q) /\ Range(q) = {r}
    BY DEF IsInjective, Range
  <2>2. "cancelled" \in Outcomes
    BY DEF Outcomes
  <2> HIDE DEF q
  <2>3. Finish(q, "cancelled") /\ \A x \in Range(q) : stage[x] # "unknown" /\ x \notin Range(finished)
    BY <1>2, <1>4, <2>1 DEF q
  <2>4. Queues'
    BY <1>1, <1>2, <2>1, <2>2, <2>3, FinishKeeps
  <2>5. /\ stage' = [x \in Request |-> IF x \in Range(q) THEN "finished" ELSE stage[x]]
        /\ reason' = [x \in Request |-> IF x \in Range(q) THEN "cancelled" ELSE reason[x]]
        /\ waiting' \in Seq(Request) /\ decoding' \in Seq(Request) /\ finished' \in Seq(Request)
        /\ Range(decoding') = Range(decoding) \ Range(q)
        /\ Range(finished) \cup Range(q) \subseteq Range(finished') \/ Len(finished') = MaxFinished
        /\ In("finished")' = In("finished") \cup Range(q)
    BY <1>1, <2>1, <2>2, <2>3, FinishFacts
  <2>6. stage' \in [Request -> Stages] /\ reason' \in [Request -> Outcomes \cup {"none"}]
    BY <1>1, <2>2, <2>5 DEF TypeOK, Stages
  <2>7. TypeOK'
    BY <1>1, <1>2, <2>5, <2>6 DEF TypeOK
  <2>8. TickOK'
    BY <1>1, <1>2, <2>5 DEF TickOK
  <2> QED BY <1>2, <1>4, <2>1, <2>4, <2>5, <2>7, <2>8 DEF q
<1> QED BY <1>3, <1>4 DEF Cancel

\* ServingOK is about no other variable of the worker.
LEMMA ServingSame ==
  ASSUME ServingOK, UNCHANGED schedVars, pending' \in Seq(Request),
         holder' = "none" => holder = "none" \/ phase = "idle"
  PROVE  ServingOK'
<1>1. UNCHANGED requestVars /\ UNCHANGED <<phase, prefill, groups, batches, at, done, ended>>
  BY DEF schedVars, tickVars
<1>2. Queues'
  BY <1>1, QueuesSame DEF ServingOK
<1>3. TypeOK'
  BY <1>1 DEF ServingOK, TypeOK, requestVars
<1>4. BatchesOK => BatchesOK'
  <2>1. \A r : Key(r)' = Key(r)
    BY <1>1 DEF Key, requestVars
  <2>2. batches' = batches /\ at' = at /\ done' = done /\ decoding' = decoding
    BY <1>1 DEF requestVars
  <2>3. Batching(batches, Range(decoding) \cup done)'
          <=> Batching(batches, Range(decoding) \cup done)
    BY <2>2
  <2> HIDE DEF Key
  <2> QED BY <2>1, <2>2, <2>3 DEF BatchesOK
<1>5. TickOK'
  BY <1>1, <1>4 DEF ServingOK, TickOK, In, requestVars
<1>6. WorkerOK'
  BY <1>1 DEF ServingOK, WorkerOK
<1> QED BY <1>2, <1>3, <1>5, <1>6 DEF ServingOK

\* The submissions that are taken join the queue, and the tick begins.
LEMMA TakeKeeps ==
  ASSUME ServingOK, NEW who, who # "none", Take(who)
  PROVE  ServingOK'
<1>1. /\ SubmitAll(pending) /\ (pending = <<>> \/ Accepts(pending))
      /\ holder = "none" /\ holder' = who /\ phase' = "timeouts" /\ pending' = <<>>
      /\ UNCHANGED <<prefill, groups, batches, at, done, ended>>
  BY DEF Take, tickVars
<1>2. TypeOK /\ Queues /\ TickOK /\ pending \in Seq(Request) /\ phase = "idle"
  BY <1>1 DEF ServingOK, WorkerOK
<1>3. /\ Queues' /\ stage' \in [Request -> Stages]
      /\ states' \in Seq(Request) /\ waiting' \in Seq(Request)
      /\ \A r \in Request : r \in Range(pending) => stage[r] = "unknown" /\ stage'[r] # "unknown"
      /\ \A r \in Request : r \notin Range(pending) => stage'[r] = stage[r]
      /\ UNCHANGED <<decoding, finished, reason, step, age, leases>>
  BY <1>1, <1>2, SubmitKeeps
<1>4. TypeOK'
  BY <1>1, <1>2, <1>3 DEF TypeOK
<1>5. TickOK'
  <2>1. In("finished") \subseteq In("finished")'
    BY <1>3 DEF In
  <2> QED BY <1>1, <1>2, <2>1 DEF TickOK
<1>6. WorkerOK'
  BY <1>1 DEF WorkerOK
<1> QED BY <1>3, <1>4, <1>5, <1>6 DEF ServingOK

\* Initially nothing is queued, running or answered.
LEMMA ServingInit ==
  ASSUME Init
  PROVE  ServingOK
<1>1. /\ states = <<>> /\ waiting = <<>> /\ decoding = <<>> /\ finished = <<>>
      /\ stage = [r \in Request |-> "unknown"] /\ reason = [r \in Request |-> "none"]
      /\ step = [r \in Request |-> 0] /\ leases = {} /\ phase = "idle"
      /\ prefill = <<>> /\ groups = <<>> /\ batches = <<>> /\ at = 1
      /\ done = {} /\ ended = {} /\ pending = <<>> /\ holder = "none"
  BY DEF Init, SchedInit
<1>2. Range(<<>>) = {} /\ IsInjective(<<>>)
  BY DEF Range, IsInjective
<1>3. TypeOK
  BY <1>1 DEF TypeOK, Stages
<1>4. Queues
  BY <1>1, <1>2 DEF Queues, QueuesMatchStages, KVHealth, In
<1>5. TickOK
  BY <1>1 DEF TickOK, In
<1>6. WorkerOK
  BY <1>1 DEF WorkerOK
<1> QED BY <1>3, <1>4, <1>5, <1>6 DEF ServingOK

\* Every step keeps the inductive invariant.
LEMMA ServingNext ==
  ASSUME ServingOK, [Next]_vars
  PROVE  ServingOK'
<1>1. pending \in Seq(Request) /\ (holder = "none" => phase = "idle")
  BY DEF ServingOK, WorkerOK
<1>2. CASE LoopTest \/ LoopIdle \/ Drain \/ ShutdownBegin \/ StopWorker
  <2>1. UNCHANGED schedVars /\ pending' = pending /\ (holder' = holder \/ holder' = "shutdown")
    BY <1>2 DEF LoopTest, LoopIdle, Drain, ShutdownBegin, StopWorker
  <2> QED BY <1>1, <2>1, ServingSame
<1>3. CASE LoopTick
  BY <1>3, TakeKeeps DEF LoopTick
<1>4. CASE ManualTick
  BY <1>4, TakeKeeps DEF ManualTick
<1>5. CASE LoopTakeRaises \/ ManualTakeRaises
  <2>1. UNCHANGED schedVars /\ pending' = <<>> /\ holder' = holder
    BY <1>5 DEF LoopTakeRaises, ManualTakeRaises, TakeRaises
  <2>2. pending' \in Seq(Request)
    BY <2>1
  <2> QED BY <2>1, <2>2, ServingSame
<1>6. CASE RunTick
  <2>1. TickStep
    BY <1>6 DEF RunTick
  <2>2. TypeOK' /\ Queues' /\ TickOK'
    BY <2>1, TickKeeps
  <2>3. WorkerOK'
    BY <1>1, <1>6 DEF RunTick, Unlock, WorkerOK
  <2> QED BY <2>2, <2>3 DEF ServingOK
<1>7. CASE TickRaises
  <2>1. /\ phase' = "idle" /\ ended' = {} /\ pending' = pending /\ waiting' = Tail(waiting)
        /\ waiting # <<>> /\ leases = {}
        /\ UNCHANGED <<states, stage, decoding, finished, reason, step, age, leases,
                       prefill, groups, batches, at, done>>
    BY <1>7 DEF TickRaises, OverBudget, Admitting
  <2>2. TypeOK /\ Queues /\ TickOK /\ waiting \in Seq(Request)
    BY DEF ServingOK, TypeOK
  <2>3. ~FitsAlone
    BY <1>7, <2>2, NoOverBudget DEF TickRaises
  <2>4. /\ waiting' \in Seq(Request) /\ Range(waiting') \subseteq Range(waiting)
        /\ IsInjective(waiting) => IsInjective(waiting')
    BY <2>1, <2>2, HeadTailRange
  <2>5. Queues'
    BY <2>1, <2>2, <2>3, <2>4 DEF Queues, QueuesMatchStages, KVHealth, In, FitsAlone
  <2>6. TypeOK' /\ TickOK'
    BY <2>1, <2>2, <2>4 DEF TypeOK, TickOK, In
  <2>7. WorkerOK'
    BY <1>1, <2>1 DEF WorkerOK
  <2> QED BY <2>5, <2>6, <2>7 DEF ServingOK
<1>8. ASSUME NEW r \in Request, CancelRequest(r) PROVE ServingOK'
  <2>1. Cancel(r) /\ UNCHANGED workerVars
    BY <1>8 DEF CancelRequest
  <2>2. TypeOK' /\ Queues' /\ TickOK'
    BY <2>1, CancelKeeps
  <2>3. WorkerOK'
    BY <1>1, <2>1 DEF WorkerOK, workerVars, Cancel
  <2> QED BY <2>2, <2>3 DEF ServingOK
<1>9. CASE ShutdownTick
  <2>1. /\ phase = "idle" /\ phase' = "timeouts" /\ holder = "shutdown"
        /\ UNCHANGED requestVars
        /\ UNCHANGED <<prefill, groups, batches, at, done, ended, pending, holder>>
    BY <1>9 DEF ShutdownTick, tickVars
  <2>2. Queues'
    BY <2>1, QueuesSame DEF ServingOK
  <2>3. TypeOK' /\ TickOK' /\ WorkerOK'
    BY <2>1 DEF ServingOK, TypeOK, TickOK, WorkerOK, In, requestVars
  <2> QED BY <2>2, <2>3 DEF ServingOK
<1>10. CASE ShutdownEnd
  <2>1. /\ phase = "idle"
        /\ UNCHANGED <<phase, prefill, groups, batches, at, done, ended, pending>>
        /\ UNCHANGED requestVars \/ FailUnfinished
    BY <1>10 DEF ShutdownEnd, tickVars
  <2>2. TypeOK /\ Queues /\ TickOK
    BY DEF ServingOK
  <2>3. CASE UNCHANGED requestVars
    <3>1. Queues'
      BY <2>2, <2>3, QueuesSame
    <3>2. TypeOK' /\ TickOK' /\ WorkerOK'
      BY <1>1, <2>1, <2>2, <2>3 DEF TypeOK, TickOK, WorkerOK, In, requestVars
    <3> QED BY <3>1, <3>2 DEF ServingOK
  <2>4. CASE FailUnfinished
    <3> DEFINE q == waiting \o decoding
    <3>1. Ending(q, "timeout")
      BY <2>4, ShutdownEnds
    <3>2. UNCHANGED <<states, step, age>>
      BY <2>4 DEF FailUnfinished
    <3> HIDE DEF q
    <3>3. /\ Queues'
          /\ stage' = [r \in Request |-> IF r \in Range(q) THEN "finished" ELSE stage[r]]
          /\ reason' = [r \in Request |-> IF r \in Range(q) THEN "timeout" ELSE reason[r]]
          /\ waiting' \in Seq(Request) /\ decoding' \in Seq(Request) /\ finished' \in Seq(Request)
          /\ In("finished")' = In("finished") \cup Range(q)
      BY <2>2, <3>1, EndingKeeps
    <3>4. stage' \in [Request -> Stages] /\ reason' \in [Request -> Outcomes \cup {"none"}]
      BY <2>2, <3>3 DEF TypeOK, Stages, Outcomes
    <3>5. TypeOK' /\ TickOK' /\ WorkerOK'
      BY <1>1, <2>1, <2>2, <3>2, <3>3, <3>4 DEF TypeOK, TickOK, WorkerOK
    <3> QED BY <3>3, <3>5 DEF ServingOK
  <2> QED BY <2>1, <2>3, <2>4
<1>11. ASSUME NEW n \in 1..MaxMany, NEW q \in [1..n -> Request], Submit(q) PROVE ServingOK'
  <2>1. UNCHANGED schedVars /\ pending' = pending \o q /\ holder' = holder
    BY <1>11 DEF Submit
  <2>2. q \in Seq(Request)
    BY BoundAssumption
  <2>3. pending' \in Seq(Request)
    BY <1>1, <2>1, <2>2
  <2> QED BY <1>1, <2>1, <2>3, ServingSame
<1>12. CASE UNCHANGED vars
  <2>1. UNCHANGED schedVars /\ pending' = pending /\ holder' = holder
    BY <1>12 DEF vars, workerVars
  <2> QED BY <1>1, <2>1, ServingSame
<1> QED BY <1>2, <1>3, <1>4, <1>5, <1>6, <1>7, <1>8, <1>9, <1>10, <1>11, <1>12
        DEF Next, Worker, Shutdown, Client

\* The queues, the stages, the leases and the retained answers agree in every
\* state, and a tick in progress remembers only requests it may act on.
THEOREM ServingInvariant == Spec => []ServingOK
<1>1. Init => ServingOK
  BY ServingInit
<1>2. ServingOK /\ [Next]_vars => ServingOK'
  BY ServingNext
<1> QED BY <1>1, <1>2, PTL DEF Spec

\* kv_health: the requests with a KV lease are the ones decoding.
THEOREM HealthyLeases == Spec => []KVHealth
<1>1. ServingOK => KVHealth
  BY DEF ServingOK, Queues
<1> QED BY <1>1, ServingInvariant, PTL

\* The dicts and the queue of the scheduler agree with the stage of each request.
THEOREM StagesMatch == Spec => []QueuesMatchStages
<1>1. ServingOK => QueuesMatchStages
  BY DEF ServingOK, Queues
<1> QED BY <1>1, ServingInvariant, PTL

-----------------------------------------------------------------------------
(* The pools.                                                              *)

\* Attaching takes the slots of the requests of S back, and no others.
LEMMA AttachSlots ==
  ASSUME GoodPool(beam), GoodPool(ctx), NEW S, Attach(S)
  PROVE  /\ GoodPool(beam') /\ GoodPool(ctx')
         /\ Holders(beam') = Holders(beam) \ S /\ Holders(ctx') = Holders(ctx) \ S
BY ReleaseGood DEF Attach, Holders

\* A group that runs gets its slots, and nobody loses one.
LEMMA PrefillSlots ==
  ASSUME ServingOK, GoodPool(beam), GoodPool(ctx), Prefill
  PROVE  /\ GoodPool(beam') /\ GoodPool(ctx')
         /\ Holders(beam) \cup Range(Head(groups)) = Holders(beam')
         /\ Holders(ctx') \subseteq Holders(ctx) \cup Range(Head(groups))
         /\ Range(Head(groups)) \subseteq Range(prefill)
<1> DEFINE g == Head(groups)
<1>1. /\ phase = "prefill" /\ groups # <<>> /\ Len(g) <= Cardinality(beam.free)
      /\ ctx' = AllocateBatch(ctx, g) /\ beam' = Allocate(beam, g)
  BY DEF Prefill
<1>2. groups \in Seq(Seq(Request))
  BY DEF ServingOK, TypeOK
<1>3. g \in Seq(Request)
  BY <1>1, <1>2, HeadTailRange
<1>4. Range(g) \subseteq Range(prefill)
  <2>1. g = groups[1] /\ 1 \in 1..Len(groups)
    BY <1>1, <1>2
  <2> HIDE DEF g
  <2> QED BY <1>1, <2>1 DEF ServingOK, TickOK
<1> HIDE DEF g
<1>5. /\ GoodPool(beam') /\ DOMAIN beam.lease \subseteq DOMAIN beam'.lease
      /\ DOMAIN beam'.lease \subseteq DOMAIN beam.lease \cup Range(g)
      /\ Range(g) \subseteq DOMAIN beam'.lease
  BY <1>1, <1>3, AllocateGood
<1>6. GoodPool(ctx') /\ DOMAIN ctx'.lease \in {DOMAIN ctx.lease, DOMAIN ctx.lease \cup Range(g)}
  BY <1>1, <1>3, AllocateBatchGood
<1> QED BY <1>4, <1>5, <1>6 DEF Holders, g

\* A prefill that fails may have given slots to requests it then ends.
LEMMA PrefillFailsSlots ==
  ASSUME ServingOK, GoodPool(beam), GoodPool(ctx), PrefillFails
  PROVE  /\ GoodPool(beam') /\ GoodPool(ctx')
         /\ Holders(beam) \subseteq Holders(beam')
         /\ Holders(beam') \cup Holders(ctx') \subseteq Holders(beam) \cup Holders(ctx) \cup Range(prefill)
<1> DEFINE g == Head(groups)
<1>1. PICK k \in 0..Len(g), c \in {ctx, AllocateBatch(ctx, g)} :
         ctx' = c /\ beam' = Allocate(beam, SubSeq(g, 1, k))
  BY DEF PrefillFails
<1>2. phase = "prefill" /\ groups # <<>>
  BY DEF PrefillFails
<1>3. groups \in Seq(Seq(Request))
  BY DEF ServingOK, TypeOK
<1>4. g \in Seq(Request)
  BY <1>2, <1>3, HeadTailRange
<1>5. Range(g) \subseteq Range(prefill)
  <2>1. g = groups[1] /\ 1 \in 1..Len(groups)
    BY <1>2, <1>3
  <2> HIDE DEF g
  <2> QED BY <1>2, <2>1 DEF ServingOK, TickOK
<1> HIDE DEF g
<1> DEFINE s == SubSeq(g, 1, k)
<1>6. s \in Seq(Request) /\ Range(s) \subseteq Range(g)
  <2>1. k \in Nat /\ k <= Len(g) /\ Len(g) \in Nat
    BY <1>4
  <2>2. s \in Seq(Request) /\ Len(s) = k /\ \A i \in 1..k : s[i] = g[i]
    BY <1>4, <2>1
  <2> HIDE DEF s
  <2>3. \A i \in 1..k : i \in DOMAIN g
    BY <1>4, <2>1
  <2> QED BY <2>2, <2>3 DEF Range
<1> HIDE DEF s
<1>7. /\ GoodPool(beam') /\ DOMAIN beam.lease \subseteq DOMAIN beam'.lease
      /\ DOMAIN beam'.lease \subseteq DOMAIN beam.lease \cup Range(s)
  <2>1. beam' = Allocate(beam, s)
    BY <1>1 DEF s
  <2> QED BY <1>6, <2>1, AllocateGood
<1>8. GoodPool(ctx') /\ DOMAIN ctx'.lease \subseteq DOMAIN ctx.lease \cup Range(g)
  <2>1. /\ GoodPool(AllocateBatch(ctx, g))
        /\ DOMAIN AllocateBatch(ctx, g).lease \in {DOMAIN ctx.lease, DOMAIN ctx.lease \cup Range(g)}
    BY <1>4, AllocateBatchGood
  <2> QED BY <1>1, <2>1
<1> QED BY <1>5, <1>6, <1>7, <1>8 DEF Holders

\* Every stage of a tick keeps the slots where they belong.
LEMMA TickSlots ==
  ASSUME ServingOK, SlotsOK, TickStep
  PROVE  SlotsOK'
<1>1. TypeOK /\ Queues /\ TickOK /\ GoodPool(beam) /\ GoodPool(ctx)
  BY DEF ServingOK, SlotsOK
<1>2. Range(decoding) = In("decoding")
  BY <1>1 DEF Queues, QueuesMatchStages, In
<1>3. CASE FailTimedOut
  <2>1. PICK q : Ending(q, "request_timeout") /\ Range(q) = ended'
    BY <1>3, TimedOutEnds
  <2>2. Range(decoding') = Range(decoding) \ Range(q)
    BY <1>1, <2>1, EndingKeeps
  <2>3. phase = "timeouts" /\ phase' = "admit" /\ UNCHANGED poolVars
    BY <1>3 DEF FailTimedOut
  <2> QED BY <2>2, <2>3 DEF SlotsOK, Holders, poolVars
<1>4. CASE Admit
  <2>1. phase = "admit" /\ phase' = "admit" /\ UNCHANGED poolVars
    BY <1>4 DEF Admit, Admitting
  <2>2. Range(prefill) \subseteq Range(decoding) /\ IsInjective(prefill)
    BY <1>1, <2>1 DEF TickOK
  <2>3. /\ Range(decoding') = Range(decoding) \cup {Head(waiting)}
        /\ Range(prefill') = Range(prefill) \cup {Head(waiting)}
    BY <1>1, <1>4, <2>2, AdmitKeeps
  <2> QED BY <2>1, <2>3 DEF SlotsOK, Holders, poolVars
<1>5. CASE AdmitEnd
  <2>1. /\ phase = "admit" /\ phase' = "prefill" /\ groups' = ShapeGroups(prefill)
        /\ decoding' = decoding /\ UNCHANGED poolVars
    BY <1>5 DEF AdmitEnd
  <2>2. \A r \in Range(prefill) : \E i \in 1..Len(groups') : r \in Range(groups'[i])
    BY <1>1, <2>1, ShapeGroupsGood DEF TypeOK, TickOK
  <2> QED BY <2>1, <2>2 DEF SlotsOK, Holders, poolVars
<1>6. CASE Prefill
  <2>1. /\ phase = "prefill" /\ phase' = "prefill" /\ groups # <<>>
        /\ groups' = Tail(groups) /\ decoding' = decoding
    BY <1>6 DEF Prefill, requestVars
  <2>2. /\ GoodPool(beam') /\ GoodPool(ctx')
        /\ Holders(beam) \cup Range(Head(groups)) = Holders(beam')
    BY <1>1, <1>6, PrefillSlots
  <2>3. \A i \in 1..Len(groups) : groups[i] = Head(groups) \/ \E j \in 1..Len(groups') : groups[i] = groups'[j]
    <3>1. groups \in Seq(Seq(Request))
      BY <1>1 DEF TypeOK
    <3>2. /\ groups' \in Seq(Seq(Request)) /\ Range(groups) = {Head(groups)} \cup Range(groups')
      BY <2>1, <3>1, HeadTailRange
    <3>3. \A i \in 1..Len(groups) : groups[i] \in Range(groups)
      BY <3>1 DEF Range
    <3>4. \A x \in Range(groups') : \E j \in 1..Len(groups') : x = groups'[j]
      BY <3>2 DEF Range
    <3> QED BY <3>2, <3>3, <3>4
  <2>4. \A r \in Range(decoding') : r \in Holders(beam') \/ \E i \in 1..Len(groups') : r \in Range(groups'[i])
    <3> HIDE DEF Holders
    <3> QED BY <2>1, <2>2, <2>3 DEF SlotsOK
  <2> HIDE DEF Holders
  <2> QED BY <2>1, <2>2, <2>4 DEF SlotsOK
<1>7. CASE PrefillFails
  <2>1. Range(decoding') = Range(decoding) \ Range(prefill)
    BY <1>1, <1>7, PrefillEnds, EndingKeeps
  <2>2. phase = "prefill" /\ phase' = "attach"
    BY <1>7 DEF PrefillFails
  <2>3. GoodPool(beam') /\ GoodPool(ctx') /\ Holders(beam) \subseteq Holders(beam')
    BY <1>1, <1>7, PrefillFailsSlots
  <2>4. \A i \in 1..Len(groups) : Range(groups[i]) \subseteq Range(prefill)
    BY <1>1, <2>2 DEF TickOK
  <2>5. Range(decoding') \subseteq Holders(beam')
    BY <2>1, <2>2, <2>3, <2>4 DEF SlotsOK
  <2> QED BY <2>2, <2>3, <2>5 DEF SlotsOK
<1>8. CASE PlanDecode
  <2>1. phase = "prefill" /\ phase' = "decode" /\ groups = <<>> /\ decoding' = decoding /\ UNCHANGED poolVars
    BY <1>8 DEF PlanDecode, requestVars
  <2>2. Len(groups) = 0
    BY <2>1
  <2>3. Range(decoding) \subseteq Holders(beam)
    BY <2>1, <2>2 DEF SlotsOK
  <2> QED BY <2>1, <2>3 DEF SlotsOK, Holders, poolVars
<1>9. CASE Decode
  <2>1. PICK q : Ending(q, "decoded")
    BY <1>9, DecodeEnds
  <2>2. Range(decoding') = Range(decoding) \ Range(q)
    BY <1>1, <2>1, EndingKeeps
  <2>3. phase = "decode" /\ phase' \in {"decode", "raised"} /\ UNCHANGED poolVars
    BY <1>9 DEF Decode
  <2> QED BY <2>2, <2>3 DEF SlotsOK, Holders, poolVars
<1>10. CASE DecodeFails
  <2>1. PICK q : Ending(q, "decode_failed")
    BY <1>10, DecodeFailsEnds
  <2>2. Range(decoding') = Range(decoding) \ Range(q)
    BY <1>1, <2>1, EndingKeeps
  <2>3. phase \in {"decode", "raised"} /\ phase' = "attach" /\ UNCHANGED poolVars
    BY <1>10 DEF DecodeFails
  <2> QED BY <2>2, <2>3 DEF SlotsOK, Holders, poolVars
<1>11. CASE DecodeEnd
  <2>1. phase = "decode" /\ phase' = "attach" /\ decoding' = decoding /\ UNCHANGED poolVars
    BY <1>11 DEF DecodeEnd, requestVars
  <2> QED BY <2>1 DEF SlotsOK, Holders, poolVars
<1>12. CASE TickEnd
  <2>1. phase = "attach" /\ phase' = "idle" /\ Attach(ended) /\ decoding' = decoding
    BY <1>12 DEF TickEnd, requestVars
  <2>2. /\ GoodPool(beam') /\ GoodPool(ctx') /\ Holders(beam') = Holders(beam) \ ended
    BY <1>1, <2>1, AttachSlots
  <2>3. Range(decoding) \cap ended = {}
    BY <1>1, <1>2 DEF TickOK, In
  <2>4. Range(decoding) \subseteq Holders(beam)
    BY <2>1 DEF SlotsOK
  <2> QED BY <2>1, <2>2, <2>3, <2>4 DEF SlotsOK
<1> QED BY <1>3, <1>4, <1>5, <1>6, <1>7, <1>8, <1>9, <1>10, <1>11, <1>12 DEF TickStep

\* Every step does.
LEMMA SlotsNext ==
  ASSUME ServingOK, SlotsOK, [Next]_vars
  PROVE  SlotsOK'
<1>1. TypeOK /\ Queues /\ TickOK /\ GoodPool(beam) /\ GoodPool(ctx)
  BY DEF ServingOK, SlotsOK
<1>2. Range(decoding) = In("decoding")
  BY <1>1 DEF Queues, QueuesMatchStages, In
<1>3. /\ UNCHANGED <<decoding, prefill, groups, beam, ctx>>
      /\ phase' = phase \/ (phase = "idle" /\ phase' = "timeouts")
      => SlotsOK'
  BY DEF SlotsOK, Holders
<1>4. CASE UNCHANGED schedVars
  <2>1. UNCHANGED <<decoding, prefill, groups, beam, ctx>> /\ phase' = phase
    BY <1>4 DEF schedVars, requestVars, poolVars, tickVars
  <2> QED BY <1>3, <2>1
<1>5. ASSUME NEW who, Take(who) PROVE SlotsOK'
  <2>1. /\ UNCHANGED <<decoding, prefill, groups, beam, ctx>> /\ phase' = "timeouts" /\ holder = "none"
    BY <1>5 DEF Take, SubmitAll, poolVars, tickVars
  <2>2. phase = "idle"
    BY <2>1 DEF ServingOK, WorkerOK
  <2> QED BY <1>3, <2>1, <2>2
<1>6. CASE RunTick
  BY <1>6, TickSlots DEF RunTick
<1>7. CASE TickRaises
  <2>1. leases = {} /\ decoding' = decoding /\ phase' = "idle" /\ UNCHANGED poolVars
    BY <1>7 DEF TickRaises, OverBudget
  <2>2. Range(decoding) = {}
    BY <1>1, <2>1 DEF Queues, KVHealth
  <2> QED BY <2>1, <2>2 DEF SlotsOK, poolVars
<1>8. ASSUME NEW r \in Request, CancelRequest(r) PROVE SlotsOK'
  <2>1. Cancel(r)
    BY <1>8 DEF CancelRequest
  <2>2. phase = "idle" /\ phase' = "idle" /\ Attach({r})
    BY <2>1 DEF Cancel
  <2>3. r \notin Range(decoding') /\ Range(decoding') \subseteq Range(decoding)
    <3>1. CASE r \in Range(finished) /\ decoding' = decoding
      <4>1. stage[r] = "finished"
        BY <1>1, <3>1 DEF Queues, In
      <4> QED BY <1>2, <3>1, <4>1 DEF In
    <3>2. CASE Range(decoding') = Range(decoding) \ {r}
      BY <3>2
    <3> QED BY <2>1, <3>1, <3>2, CancelKeeps
  <2>4. /\ GoodPool(beam') /\ GoodPool(ctx') /\ Holders(beam') = Holders(beam) \ {r}
    BY <1>1, <2>2, AttachSlots
  <2>5. Range(decoding) \subseteq Holders(beam)
    BY <2>2 DEF SlotsOK
  <2> QED BY <2>2, <2>3, <2>4, <2>5 DEF SlotsOK
<1>9. CASE ShutdownTick
  <2>1. UNCHANGED <<decoding, prefill, groups, beam, ctx>> /\ phase = "idle" /\ phase' = "timeouts"
    BY <1>9 DEF ShutdownTick, requestVars, poolVars, tickVars
  <2> QED BY <1>3, <2>1
<1>10. CASE ShutdownEnd
  <2>1. /\ phase = "idle" /\ UNCHANGED <<phase, prefill, groups>>
        /\ UNCHANGED <<decoding, beam, ctx>> \/ FailUnfinished
    BY <1>10 DEF ShutdownEnd, requestVars, poolVars, tickVars
  <2>2. CASE FailUnfinished
    <3> DEFINE q == waiting \o decoding
    <3>1. Ending(q, "timeout") /\ Attach(Range(q))
      BY <2>2, ShutdownEnds DEF FailUnfinished
    <3> HIDE DEF q
    <3>2. Range(decoding') = Range(decoding) \ Range(q)
      BY <1>1, <3>1, EndingKeeps
    <3>3. /\ GoodPool(beam') /\ GoodPool(ctx') /\ Holders(beam') = Holders(beam) \ Range(q)
      BY <1>1, <3>1, AttachSlots
    <3>4. Range(decoding) \subseteq Holders(beam)
      BY <2>1 DEF SlotsOK
    <3> QED BY <2>1, <3>2, <3>3, <3>4 DEF SlotsOK
  <2> QED BY <1>3, <2>1, <2>2
<1>11. CASE LoopTest \/ LoopIdle \/ LoopTakeRaises \/ StopWorker \/ Drain \/ ShutdownBegin \/ ManualTakeRaises
            \/ (\E n \in 1..MaxMany : \E q \in [1..n -> Request] : Submit(q)) \/ UNCHANGED vars
  <2>1. UNCHANGED schedVars
    BY <1>11 DEF LoopTest, LoopIdle, LoopTakeRaises, StopWorker, Drain, ShutdownBegin,
                 ManualTakeRaises, TakeRaises, Submit, vars
  <2> QED BY <1>4, <2>1
<1>12. CASE LoopTick \/ ManualTick
  BY <1>5, <1>12 DEF LoopTick, ManualTick
<1> QED BY <1>6, <1>7, <1>8, <1>9, <1>10, <1>11, <1>12 DEF Next, Worker, Shutdown, Client

\* Dense pool slots: in every state no two requests share one, and a free slot has
\* no owner; and every decoding request has been prefilled into a beam slot.
THEOREM SlotsInvariant == Spec => []SlotsOK
<1>1. Init => SlotsOK
  <2> SUFFICES ASSUME Init PROVE SlotsOK
    OBVIOUS
  <2>1. beam = Pool(BeamSlots) /\ ctx = Pool(ContextSlots) /\ decoding = <<>> /\ phase = "idle"
    BY DEF Init, SchedInit
  <2>2. Range(decoding) = {}
    BY <2>1 DEF Range
  <2>3. GoodPool(beam) /\ GoodPool(ctx)
    BY <2>1, PoolGood, PolicyAssumption
  <2> QED BY <2>1, <2>2, <2>3 DEF SlotsOK
<1>2. ServingOK /\ SlotsOK /\ [Next]_vars => SlotsOK'
  BY SlotsNext
<1> QED BY <1>1, <1>2, ServingInvariant, PTL DEF Spec

\* No two requests share a dense slot, and a free slot has no owner.
THEOREM OneOwnerPerSlot == Spec => []SlotsHaveOneOwner
<1>1. SlotsOK => SlotsHaveOneOwner
  BY DEF SlotsOK, SlotsHaveOneOwner, GoodPool, OneOwner
<1> QED BY <1>1, SlotsInvariant, PTL

\* The decode plan of a tick holds every decoding request once, each with its
\* beam slot, in batches of at most MaxDecode requests with equal keys.
THEOREM PlansAreSound == Spec => []PlanSound
<1>1. ASSUME ServingOK, SlotsOK, phase = "decode", at = 1
      PROVE  /\ Range(decoding) \subseteq Holders(beam)
             /\ IsInjective(FlattenSeq(batches))
             /\ Range(FlattenSeq(batches)) = Range(decoding)
             /\ \A i \in DOMAIN batches :
                   /\ Len(batches[i]) \in 1..MaxDecode
                   /\ \A r, q \in Range(batches[i]) : Key(r) = Key(q)
  <2>1. BatchesOK /\ batches \in Seq(Seq(Request))
    BY <1>1 DEF ServingOK, TickOK, TypeOK
  <2>2. Range(decoding) \cup done = Range(decoding)
    BY <1>1, <2>1 DEF BatchesOK
  <2>3. /\ Batching(batches, Range(decoding))
        /\ \A i \in 1..Len(batches) : \A r, q \in Range(batches[i]) : Key(r) = Key(q)
    BY <1>1, <2>1, <2>2 DEF BatchesOK
  <2>4. IsInjective(FlattenSeq(batches))
    <3>1. /\ \A i \in 1..Len(batches) : IsInjective(batches[i])
          /\ \A i, j \in 1..Len(batches) : i # j => Range(batches[i]) \cap Range(batches[j]) = {}
      BY <2>3 DEF Batching
    <3> QED BY <2>1, <3>1, FlattenProps
  <2>5. Range(FlattenSeq(batches)) = Range(decoding)
    <3>1. \A x : x \in Range(FlattenSeq(batches)) <=> \E i \in 1..Len(batches) : x \in Range(batches[i])
      BY <2>1, FlattenProps
    <3>2. \A i \in 1..Len(batches) : Range(batches[i]) \subseteq Range(decoding)
      BY <2>3 DEF Batching
    <3>3. \A r \in Range(decoding) : \E i \in 1..Len(batches) : r \in Range(batches[i])
      BY <2>3 DEF Batching
    <3> QED BY <3>1, <3>2, <3>3
  <2>6. DOMAIN batches = 1..Len(batches)
    BY <2>1
  <2>7. \A i \in 1..Len(batches) : Len(batches[i]) \in 1..MaxDecode
    BY <2>3 DEF Batching
  <2>8. Range(decoding) \subseteq Holders(beam)
    BY <1>1 DEF SlotsOK
  <2> QED BY <2>3, <2>4, <2>5, <2>6, <2>7, <2>8
<1>2. ServingOK /\ SlotsOK => PlanSound
  BY <1>1 DEF PlanSound
<1> QED BY <1>2, ServingInvariant, SlotsInvariant, PTL

-----------------------------------------------------------------------------
(* Slots are not leaked.                                                   *)

\* A stage of a tick leaves no slot with a request that nobody will report.
LEMMA TickHolders ==
  ASSUME TicksReport, ServingOK, SlotsOK, HoldersOK, TickStep
  PROVE  HoldersOK'
<1>1. TypeOK /\ Queues /\ TickOK /\ GoodPool(beam) /\ GoodPool(ctx)
  BY DEF ServingOK, SlotsOK
<1>2. CASE FailTimedOut
  <2>1. PICK q : Ending(q, "request_timeout") /\ Range(q) = ended'
    BY <1>2, TimedOutEnds
  <2>2. Range(decoding') = Range(decoding) \ Range(q)
    BY <1>1, <2>1, EndingKeeps
  <2>3. phase = "timeouts" /\ phase' = "admit" /\ UNCHANGED poolVars
    BY <1>2 DEF FailTimedOut
  <2>4. ended = {}
    BY <1>1, <2>3 DEF TickOK
  <2>5. (\A r \in Request : Timeout[r] = NoTimeout) => ended' = {}
    BY <1>2 DEF FailTimedOut
  <2> QED BY <2>1, <2>2, <2>3, <2>4, <2>5 DEF HoldersOK, Holders, poolVars
<1>3. CASE Admit
  <2>1. phase = "admit" /\ phase' = "admit" /\ UNCHANGED poolVars /\ ended' = ended
    BY <1>3 DEF Admit, Admitting
  <2>2. Range(prefill) \subseteq Range(decoding) /\ IsInjective(prefill)
    BY <1>1, <2>1 DEF TickOK
  <2>3. Range(decoding) \subseteq Range(decoding')
    BY <1>1, <1>3, <2>2, AdmitKeeps
  <2> QED BY <2>1, <2>3 DEF HoldersOK, Holders, poolVars
<1>4. CASE AdmitEnd
  <2>1. phase = "admit" /\ phase' = "prefill" /\ decoding' = decoding /\ ended' = ended /\ UNCHANGED poolVars
    BY <1>4 DEF AdmitEnd
  <2> QED BY <2>1 DEF HoldersOK, Holders, poolVars
<1>5. CASE Prefill
  <2>1. phase = "prefill" /\ phase' = "prefill" /\ decoding' = decoding /\ ended' = ended
    BY <1>5 DEF Prefill, requestVars
  <2>2. /\ Holders(beam) \cup Range(Head(groups)) = Holders(beam')
        /\ Holders(ctx') \subseteq Holders(ctx) \cup Range(Head(groups))
        /\ Range(Head(groups)) \subseteq Range(prefill)
    BY <1>1, <1>5, PrefillSlots
  <2>3. Range(prefill) \subseteq Range(decoding)
    BY <1>1, <2>1 DEF TickOK
  <2> HIDE DEF Holders
  <2> QED BY <2>1, <2>2, <2>3 DEF HoldersOK
<1>6. CASE PrefillFails
  <2>1. Range(decoding') = Range(decoding) \ Range(prefill)
    BY <1>1, <1>6, PrefillEnds, EndingKeeps
  <2>2. phase = "prefill" /\ phase' = "attach" /\ ended' = ended \cup Range(prefill)
    BY <1>6 DEF PrefillFails
  <2>3. Holders(beam') \cup Holders(ctx') \subseteq Holders(beam) \cup Holders(ctx) \cup Range(prefill)
    BY <1>1, <1>6, PrefillFailsSlots
  <2> HIDE DEF Holders
  <2> QED BY <2>1, <2>2, <2>3 DEF HoldersOK
<1>7. CASE PlanDecode
  <2>1. phase = "prefill" /\ phase' = "decode" /\ decoding' = decoding /\ ended' = ended /\ UNCHANGED poolVars
    BY <1>7 DEF PlanDecode, requestVars
  <2> QED BY <2>1 DEF HoldersOK, Holders, poolVars
<1>8. CASE Decode
  <2>1. PICK q : Ending(q, "decoded") /\ done' = done \cup Range(q)
    BY <1>8, DecodeEnds
  <2>2. Range(decoding') = Range(decoding) \ Range(q)
    BY <1>1, <2>1, EndingKeeps
  <2>3. phase = "decode" /\ phase' = "decode" /\ ended' = ended /\ UNCHANGED poolVars
    BY <1>8 DEF Decode, TicksReport
  <2> QED BY <2>1, <2>2, <2>3 DEF HoldersOK, Holders, poolVars
<1>9. ~DecodeFails
  BY DEF DecodeFails, TicksReport, HoldersOK
<1>10. CASE DecodeEnd
  <2>1. /\ phase = "decode" /\ phase' = "attach" /\ decoding' = decoding
        /\ ended' = ended \cup done /\ UNCHANGED poolVars
    BY <1>10 DEF DecodeEnd, requestVars
  <2> QED BY <2>1 DEF HoldersOK, Holders, poolVars
<1>11. CASE TickEnd
  <2>1. phase = "attach" /\ phase' = "idle" /\ Attach(ended) /\ decoding' = decoding
    BY <1>11 DEF TickEnd, requestVars
  <2>2. Holders(beam') = Holders(beam) \ ended /\ Holders(ctx') = Holders(ctx) \ ended
    BY <1>1, <2>1, AttachSlots
  <2> HIDE DEF Holders
  <2> QED BY <2>1, <2>2 DEF HoldersOK
<1> QED BY <1>2, <1>3, <1>4, <1>5, <1>6, <1>7, <1>8, <1>9, <1>10, <1>11 DEF TickStep

\* Nor does any other step.
LEMMA HoldersNext ==
  ASSUME TicksReport, ServingOK, SlotsOK, HoldersOK, [Next]_vars
  PROVE  HoldersOK'
<1>1. TypeOK /\ Queues /\ TickOK /\ GoodPool(beam) /\ GoodPool(ctx)
  BY DEF ServingOK, SlotsOK
<1>2. /\ UNCHANGED <<decoding, ended, done, beam, ctx>>
      /\ phase' = phase \/ (phase = "idle" /\ phase' = "timeouts")
      => HoldersOK'
  BY DEF HoldersOK, Holders
<1>3. UNCHANGED schedVars => HoldersOK'
  <2>1. UNCHANGED schedVars => UNCHANGED <<decoding, ended, done, beam, ctx>> /\ phase' = phase
    BY DEF schedVars, requestVars, poolVars, tickVars
  <2> QED BY <1>2, <2>1
<1>4. ASSUME NEW who, Take(who) PROVE HoldersOK'
  <2>1. /\ UNCHANGED <<decoding, ended, done, beam, ctx>> /\ phase' = "timeouts" /\ holder = "none"
    BY <1>4 DEF Take, SubmitAll, poolVars, tickVars
  <2>2. phase = "idle"
    BY <2>1 DEF ServingOK, WorkerOK
  <2> QED BY <1>2, <2>1, <2>2
<1>5. CASE RunTick
  BY <1>5, TickHolders DEF RunTick
<1>6. CASE TickRaises
  <2>1. leases = {} /\ phase = "admit" /\ decoding' = decoding /\ phase' = "idle" /\ UNCHANGED poolVars
    BY <1>6 DEF TickRaises, OverBudget, Admitting
  <2>2. Range(decoding) = {}
    BY <1>1, <2>1 DEF Queues, KVHealth
  <2>3. ~FitsAlone
    BY <1>1, <1>6, NoOverBudget DEF TickRaises
  <2>4. ended = {}
    BY <2>1, <2>3 DEF TicksReport, HoldersOK
  <2> QED BY <2>1, <2>2, <2>4 DEF HoldersOK, Holders, poolVars
<1>7. ASSUME NEW r \in Request, CancelRequest(r) PROVE HoldersOK'
  <2>1. Cancel(r)
    BY <1>7 DEF CancelRequest
  <2>2. phase = "idle" /\ phase' = "idle" /\ Attach({r}) /\ ended' = ended
    BY <2>1 DEF Cancel, tickVars
  <2>3. Range(decoding) \ {r} \subseteq Range(decoding')
    BY <2>1, CancelKeeps
  <2>4. Holders(beam') = Holders(beam) \ {r} /\ Holders(ctx') = Holders(ctx) \ {r}
    BY <1>1, <2>2, AttachSlots
  <2>5. ended = {}
    BY <1>1, <2>2 DEF TickOK
  <2> HIDE DEF Holders
  <2> QED BY <2>2, <2>3, <2>4, <2>5 DEF HoldersOK
<1>8. CASE ShutdownTick
  <2>1. UNCHANGED <<decoding, ended, done, beam, ctx>> /\ phase = "idle" /\ phase' = "timeouts"
    BY <1>8 DEF ShutdownTick, requestVars, poolVars, tickVars
  <2> QED BY <1>2, <2>1
<1>9. CASE ShutdownEnd
  <2>1. /\ phase = "idle" /\ UNCHANGED <<phase, ended, done>>
        /\ UNCHANGED <<decoding, beam, ctx>> \/ FailUnfinished
    BY <1>9 DEF ShutdownEnd, requestVars, poolVars, tickVars
  <2>2. CASE FailUnfinished
    <3> DEFINE q == waiting \o decoding
    <3>1. Ending(q, "timeout") /\ Attach(Range(q))
      BY <2>2, ShutdownEnds DEF FailUnfinished
    <3> HIDE DEF q
    <3>2. Range(decoding') = Range(decoding) \ Range(q)
      BY <1>1, <3>1, EndingKeeps
    <3>3. Holders(beam') = Holders(beam) \ Range(q) /\ Holders(ctx') = Holders(ctx) \ Range(q)
      BY <1>1, <3>1, AttachSlots
    <3>4. ended = {}
      BY <1>1, <2>1 DEF TickOK
    <3> HIDE DEF Holders
    <3> QED BY <2>1, <3>2, <3>3, <3>4 DEF HoldersOK
  <2> QED BY <1>2, <2>1, <2>2
<1>10. CASE LoopTest \/ LoopIdle \/ LoopTakeRaises \/ StopWorker \/ Drain \/ ShutdownBegin \/ ManualTakeRaises
            \/ (\E n \in 1..MaxMany : \E q \in [1..n -> Request] : Submit(q)) \/ UNCHANGED vars
  <2>1. UNCHANGED schedVars
    BY <1>10 DEF LoopTest, LoopIdle, LoopTakeRaises, StopWorker, Drain, ShutdownBegin,
                 ManualTakeRaises, TakeRaises, Submit, vars
  <2> QED BY <1>3, <2>1
<1>11. CASE LoopTick \/ ManualTick
  BY <1>4, <1>11 DEF LoopTick, ManualTick
<1> QED BY <1>5, <1>6, <1>7, <1>8, <1>9, <1>10, <1>11 DEF Next, Worker, Shutdown, Client

\* beam_kv_pool_health: as long as a tick reports everyone who ends in it, no
\* finished request holds a pool slot while the worker's lock is free.
THEOREM NoSlotLeaks ==
  ASSUME TicksReport
  PROVE  Spec => []PoolHealth
<1>1. Init => HoldersOK
  <2> SUFFICES ASSUME Init PROVE HoldersOK
    OBVIOUS
  <2>1. beam = Pool(BeamSlots) /\ ctx = Pool(ContextSlots) /\ phase = "idle"
    BY DEF Init, SchedInit
  <2>2. Holders(beam) = {} /\ Holders(ctx) = {}
    BY <2>1, PoolGood, PolicyAssumption DEF Holders
  <2> QED BY <2>1, <2>2 DEF HoldersOK
<1>2. ServingOK /\ SlotsOK /\ HoldersOK /\ [Next]_vars => HoldersOK'
  BY HoldersNext
<1>3. ServingOK /\ HoldersOK => PoolHealth
  BY DEF ServingOK, TickOK, HoldersOK, PoolHealth
<1> QED BY <1>1, <1>2, <1>3, ServingInvariant, SlotsInvariant, PTL DEF Spec

-----------------------------------------------------------------------------
(* The retained answers.                                                   *)

\* Once given, an answer stays as it is until MaxFinished newer ones are retained.
AnswersStay ==
    \A r \in Range(finished) :
       /\ reason'[r] = reason[r]
       /\ r \in Range(finished') \/ Len(finished') = MaxFinished

\* An ending changes no answer that is retained.
LEMMA EndingAnswers ==
  ASSUME ServingOK, NEW q, NEW why, Ending(q, why)
  PROVE  AnswersStay
<1>1. TypeOK /\ Queues
  BY DEF ServingOK
<1>2. /\ reason' = [r \in Request |-> IF r \in Range(q) THEN why ELSE reason[r]]
      /\ Range(finished) \cup Range(q) \subseteq Range(finished') \/ Len(finished') = MaxFinished
      /\ \A r \in Range(finished) : r \notin Range(q)
  BY <1>1, EndingKeeps
<1>3. Range(finished) \subseteq Request
  BY <1>1, RangeOfSeq DEF TypeOK
<1> QED BY <1>2, <1>3 DEF AnswersStay

\* Whatever the worker, the clients and a shutdown do, an answer a client can
\* still fetch does not change, and only newer ones replace it.
THEOREM AnswersAreRetained == Spec => RetainedAnswersStay
<1>1. ASSUME ServingOK, [Next]_vars PROVE AnswersStay
  <2>1. UNCHANGED <<finished, reason>> => AnswersStay
    BY DEF AnswersStay
  <2>2. UNCHANGED schedVars => AnswersStay
    BY <2>1 DEF schedVars, requestVars
  <2>3. ASSUME NEW who, Take(who) PROVE AnswersStay
    BY <2>1, <2>3 DEF Take, SubmitAll
  <2>4. CASE RunTick
    <3>1. TickStep
      BY <2>4 DEF RunTick
    <3>2. CASE FailTimedOut
      BY <1>1, <3>2, TimedOutEnds, EndingAnswers
    <3>3. CASE PrefillFails
      BY <1>1, <3>3, PrefillEnds, EndingAnswers
    <3>4. CASE Decode
      BY <1>1, <3>4, DecodeEnds, EndingAnswers
    <3>5. CASE DecodeFails
      BY <1>1, <3>5, DecodeFailsEnds, EndingAnswers
    <3>6. CASE Admit \/ AdmitEnd \/ Prefill \/ PlanDecode \/ DecodeEnd \/ TickEnd
      BY <2>1, <3>6 DEF Admit, AdmitEnd, Prefill, PlanDecode, DecodeEnd, TickEnd, requestVars
    <3> QED BY <3>1, <3>2, <3>3, <3>4, <3>5, <3>6 DEF TickStep
  <2>5. CASE TickRaises
    BY <2>1, <2>5 DEF TickRaises, OverBudget
  <2>6. ASSUME NEW r \in Request, CancelRequest(r) PROVE AnswersStay
    <3>1. Cancel(r)
      BY <2>6 DEF CancelRequest
    <3>2. CASE r \notin Range(finished) /\ Finish(<<r>>, "cancelled")
      <4>1. /\ reason' = [x \in Request |-> IF x \in Range(<<r>>) THEN "cancelled" ELSE reason[x]]
            /\ Range(<<r>>) = {r}
        BY <3>2 DEF Finish, Ends, Range
      <4>2. Range(finished) \subseteq Range(finished') \/ Len(finished') = MaxFinished
        BY <1>1, <3>1, <3>2, CancelKeeps
      <4>3. Range(finished) \subseteq Request
        BY <1>1, RangeOfSeq DEF ServingOK, TypeOK
      <4> QED BY <3>2, <4>1, <4>2, <4>3 DEF AnswersStay
    <3>3. CASE UNCHANGED <<stage, waiting, decoding, finished, reason, leases>>
      BY <2>1, <3>3
    <3> QED BY <1>1, <3>1, <3>2, <3>3, CancelKeeps
  <2>7. CASE ShutdownTick
    BY <2>1, <2>7 DEF ShutdownTick, requestVars
  <2>8. CASE ShutdownEnd
    <3>1. UNCHANGED requestVars \/ FailUnfinished
      BY <2>8 DEF ShutdownEnd
    <3>2. CASE FailUnfinished
      BY <1>1, <3>2, ShutdownEnds, EndingAnswers
    <3>3. CASE UNCHANGED requestVars
      BY <2>1, <3>3 DEF requestVars
    <3> QED BY <3>1, <3>2, <3>3
  <2>9. CASE LoopTest \/ LoopIdle \/ LoopTakeRaises \/ StopWorker \/ Drain \/ ShutdownBegin \/ ManualTakeRaises
              \/ (\E n \in 1..MaxMany : \E q \in [1..n -> Request] : Submit(q)) \/ UNCHANGED vars
    <3>1. UNCHANGED schedVars
      BY <2>9 DEF LoopTest, LoopIdle, LoopTakeRaises, StopWorker, Drain, ShutdownBegin,
                  ManualTakeRaises, TakeRaises, Submit, vars
    <3> QED BY <2>2, <3>1
  <2>10. CASE LoopTick \/ ManualTick
    BY <2>3, <2>10 DEF LoopTick, ManualTick
  <2> QED BY <1>1, <2>4, <2>5, <2>6, <2>7, <2>8, <2>9, <2>10 DEF Next, Worker, Shutdown, Client
<1>2. ServingOK /\ [Next]_vars => [AnswersStay]_vars
  BY <1>1
<1>3. [][AnswersStay]_vars => RetainedAnswersStay
  BY PTL DEF AnswersStay, RetainedAnswersStay
<1> QED BY <1>2, <1>3, ServingInvariant, PTL DEF Spec
-----------------------------------------------------------------------------
(* The submissions.                                                        *)

\* How often an id is among the submitted ones.
LEMMA CountProps ==
  ASSUME NEW q \in Seq(Request), NEW r \in Request
  PROVE  /\ Count(q, r) \in Nat
         /\ r \in Range(q) => Count(q, r) >= 1
         /\ r \notin Range(q) => Count(q, r) = 0
         /\ Count(q, r) <= 1 => \A i, j \in DOMAIN q : q[i] = r /\ q[j] = r => i = j
<1> DEFINE I == {i \in DOMAIN q : q[i] = r}
<1>1. DOMAIN q = 1..Len(q) /\ Len(q) \in Nat
  OBVIOUS
<1>2. IsFiniteSet(I)
  <2>1. IsFiniteSet(1..Len(q))
    BY <1>1, FS_Interval
  <2>2. I \subseteq 1..Len(q)
    BY <1>1
  <2> QED BY <2>1, <2>2, FS_Subset
<1>3. Count(q, r) = Cardinality(I)
  BY DEF Count
<1>4. Cardinality(I) \in Nat /\ (Cardinality(I) = 0 <=> I = {})
  BY <1>2, FS_CardinalityType, FS_EmptySet
<1>5. r \in Range(q) <=> I # {}
  BY DEF Range
<1>6. ASSUME Cardinality(I) <= 1, NEW i \in I, NEW j \in I PROVE i = j
  <2>1. Cardinality(I) = 1
    BY <1>4, <1>6
  <2>2. PICK x : I = {x}
    BY <1>2, <2>1, FS_Singleton
  <2> QED BY <2>2
<1>7. Cardinality(I) <= 1 => \A i, j \in DOMAIN q : q[i] = r /\ q[j] = r => i = j
  <2> SUFFICES ASSUME Cardinality(I) <= 1, NEW i \in DOMAIN q, NEW j \in DOMAIN q, q[i] = r, q[j] = r
               PROVE  i = j
    OBVIOUS
  <2>1. i \in I /\ j \in I
    OBVIOUS
  <2> QED BY <1>6, <2>1
<1> HIDE DEF I
<1> QED BY <1>3, <1>4, <1>5, <1>7

\* While every id is submitted once, a submission that was acknowledged is pending
\* or known to the scheduler as long as the facade accepts: no submission is lost,
\* whoever takes the pending ones.
THEOREM SubmissionsAreKept ==
  ASSUME MaxSubmits = 1
  PROVE  Spec => []NoSubmissionLost
<1> DEFINE Inv == PendingOK /\ NoSubmissionLost
<1>1. Init => Inv
  <2> SUFFICES ASSUME Init PROVE Inv
    OBVIOUS
  <2>1. pending = <<>> /\ submitted = [r \in Request |-> 0] /\ stage = [r \in Request |-> "unknown"]
    BY DEF Init, SchedInit
  <2> QED BY <2>1 DEF PendingOK, NoSubmissionLost, IsInjective, Range
<1>2. ASSUME ServingOK, ServingOK', Inv, [Next]_vars PROVE Inv'
  <2>1. \A r \in Request : states' = states => (stage'[r] = "unknown" <=> stage[r] = "unknown")
    <3>1. /\ Range(states) = {r \in Request : stage[r] # "unknown"}
          /\ Range(states') = {r \in Request : stage'[r] # "unknown"}
      BY <1>2 DEF ServingOK, Queues, QueuesMatchStages
    <3> QED BY <3>1
  <2>2. /\ states' = states /\ UNCHANGED <<pending, submitted>>
        /\ accepting' => accepting
        => Inv'
    <3>1. Range(pending) \subseteq Request
      BY <1>2, RangeOfSeq DEF ServingOK, WorkerOK
    <3>2. SUFFICES ASSUME states' = states, UNCHANGED <<pending, submitted>>, accepting' => accepting
                   PROVE  Inv'
      OBVIOUS
    <3>3. \A r \in Request : stage'[r] = "unknown" <=> stage[r] = "unknown"
      BY <2>1, <3>2
    <3>4. PendingOK'
      BY <1>2, <3>1, <3>2, <3>3 DEF PendingOK
    <3>5. NoSubmissionLost'
      BY <1>2, <3>2, <3>3 DEF NoSubmissionLost
    <3> QED BY <3>4, <3>5
  <2>3. ASSUME NEW n \in 1..MaxMany, NEW q \in [1..n -> Request], Submit(q) PROVE Inv'
    <3>1. /\ \A r \in Range(q) : submitted[r] + Count(q, r) <= 1
          /\ pending' = pending \o q
          /\ submitted' = [r \in Request |-> submitted[r] + Count(q, r)]
          /\ UNCHANGED <<stage, accepting>>
      BY <2>3 DEF Submit, schedVars, requestVars
    <3>2. q \in Seq(Request) /\ DOMAIN q = 1..n
      BY BoundAssumption
    <3>3. pending \in Seq(Request) /\ PendingOK
      BY <1>2 DEF ServingOK, WorkerOK
    <3>4. \A r \in Request : submitted[r] \in Nat
      BY <3>3 DEF PendingOK
    <3>5. Range(q) \subseteq Request
      BY <3>2, RangeOfSeq
    <3>6. \A r \in Range(q) : /\ submitted[r] = 0 /\ Count(q, r) = 1 /\ submitted'[r] = 1
                              /\ \A i, j \in DOMAIN q : q[i] = r /\ q[j] = r => i = j
      <4> TAKE r \in Range(q)
      <4>1. /\ Count(q, r) \in Nat /\ Count(q, r) >= 1
            /\ Count(q, r) <= 1 => \A i, j \in DOMAIN q : q[i] = r /\ q[j] = r => i = j
        BY <3>2, <3>5, CountProps
      <4>2. submitted[r] + Count(q, r) <= 1 /\ submitted[r] \in Nat
        BY <3>1, <3>4, <3>5
      <4>3. submitted[r] = 0 /\ Count(q, r) = 1
        BY <4>1, <4>2
      <4> QED BY <3>1, <3>5, <4>1, <4>3
    <3>7. \A r \in Request \ Range(q) : submitted'[r] = submitted[r]
      <4> TAKE r \in Request \ Range(q)
      <4>1. Count(q, r) = 0
        BY <3>2, CountProps
      <4> QED BY <3>1, <3>4, <4>1
    <3>8. IsInjective(q)
      <4> SUFFICES ASSUME NEW i \in DOMAIN q, NEW j \in DOMAIN q, q[i] = q[j] PROVE i = j
        BY DEF IsInjective
      <4>1. q[i] \in Range(q)
        BY DEF Range
      <4> QED BY <3>6, <4>1
    <3>9. Range(pending) \cap Range(q) = {}
      BY <3>3, <3>6 DEF PendingOK
    <3>10. /\ Range(pending') = Range(pending) \cup Range(q)
           /\ IsInjective(pending')
      BY <3>1, <3>2, <3>3, <3>8, <3>9, ConcatRange DEF PendingOK
    <3>11. submitted' \in [Request -> Nat]
      <4>1. \A r \in Request : Count(q, r) \in Nat
        BY <3>2, CountProps
      <4> QED BY <3>1, <3>4, <4>1
    <3>12. \A r \in Range(q) : stage[r] = "unknown"
      BY <3>3, <3>5, <3>6 DEF PendingOK
    <3>13. Range(pending) \subseteq Request
      BY <3>3, RangeOfSeq
    <3>14. PendingOK'
      <4>1. \A r \in Range(pending') : submitted'[r] = 1 /\ stage'[r] = "unknown"
        BY <3>1, <3>3, <3>6, <3>7, <3>10, <3>12, <3>13 DEF PendingOK
      <4>2. \A r \in Request : stage'[r] # "unknown" => submitted'[r] = 1
        BY <3>1, <3>3, <3>7, <3>12 DEF PendingOK
      <4> QED BY <3>10, <3>11, <4>1, <4>2 DEF PendingOK
    <3>15. NoSubmissionLost'
      BY <1>2, <3>1, <3>7, <3>10 DEF NoSubmissionLost
    <3> QED BY <3>14, <3>15
  <2>4. ASSUME NEW who, Take(who) PROVE Inv'
    <3>1. /\ SubmitAll(pending) /\ (pending = <<>> \/ Accepts(pending))
          /\ pending' = <<>> /\ UNCHANGED <<submitted, accepting>>
      BY <2>4 DEF Take
    <3>2. TypeOK /\ Queues /\ pending \in Seq(Request)
      BY <1>2 DEF ServingOK, WorkerOK
    <3>3. /\ \A r \in Request : r \in Range(pending) => stage[r] = "unknown" /\ stage'[r] # "unknown"
          /\ \A r \in Request : r \notin Range(pending) => stage'[r] = stage[r]
          /\ Range(pending) \subseteq Request
      BY <3>1, <3>2, SubmitKeeps
    <3>4. Range(pending') = {} /\ IsInjective(pending')
      BY <3>1 DEF Range, IsInjective
    <3> QED BY <1>2, <3>1, <3>3, <3>4 DEF PendingOK, NoSubmissionLost
  <2>5. CASE LoopTakeRaises \/ ManualTakeRaises
    <3>1. /\ pending # <<>> /\ ~Accepts(pending) /\ pending' = <<>>
          /\ UNCHANGED <<states, stage, submitted, accepting>>
      BY <2>5 DEF LoopTakeRaises, ManualTakeRaises, TakeRaises, schedVars, requestVars
    <3>2. ~accepting
      BY <1>2, <3>1 DEF Accepts, PendingOK
    <3>3. Range(pending') = {} /\ IsInjective(pending')
      BY <3>1 DEF Range, IsInjective
    <3> QED BY <1>2, <3>1, <3>2, <3>3 DEF PendingOK, NoSubmissionLost
  <2>6. CASE RunTick
    <3>1. TickStep /\ UNCHANGED <<pending, submitted, accepting>>
      BY <2>6 DEF RunTick
    <3>2. states' = states
      BY <3>1 DEF TickStep, FailTimedOut, Admit, AdmitEnd, Prefill, PrefillFails, PlanDecode,
                  Decode, DecodeFails, DecodeEnd, TickEnd, requestVars
    <3> QED BY <2>2, <3>1, <3>2
  <2>7. CASE TickRaises
    BY <2>2, <2>7 DEF TickRaises, OverBudget
  <2>8. ASSUME NEW r \in Request, CancelRequest(r) PROVE Inv'
    BY <2>2, <2>8 DEF CancelRequest, Cancel, workerVars
  <2>9. CASE ShutdownTick
    BY <2>2, <2>9 DEF ShutdownTick, requestVars
  <2>10. CASE ShutdownEnd
    <3>1. states' = states /\ UNCHANGED <<pending, submitted, accepting>>
      BY <2>10 DEF ShutdownEnd, requestVars, FailUnfinished
    <3> QED BY <2>2, <3>1
  <2>11. CASE LoopTest \/ LoopIdle \/ StopWorker \/ Drain \/ ShutdownBegin \/ UNCHANGED vars
    <3>1. states' = states /\ UNCHANGED <<pending, submitted>> /\ (accepting' => accepting)
      BY <2>11 DEF LoopTest, LoopIdle, StopWorker, Drain, ShutdownBegin, vars, workerVars,
                   schedVars, requestVars
    <3> QED BY <2>2, <3>1
  <2>12. CASE LoopTick \/ ManualTick
    BY <2>4, <2>12 DEF LoopTick, ManualTick
  <2> QED BY <1>2, <2>3, <2>5, <2>6, <2>7, <2>8, <2>9, <2>10, <2>11, <2>12
          DEF Next, Worker, Shutdown, Client
<1>3. Inv => NoSubmissionLost
  OBVIOUS
<1> HIDE DEF Inv
<1>4. ServingOK /\ ServingOK' /\ Inv /\ [Next]_vars => Inv'
  BY <1>2
<1> QED BY <1>1, <1>3, <1>4, ServingInvariant, PTL DEF Spec

-----------------------------------------------------------------------------
(* Continuous batching implements the request server.                      *)

\* What the refinement needs of the policy: every request fits into an idle
\* server, and where clients cancel, the answer of no finished request is dropped
\* (otherwise a cancel may answer it again).
ServerPolicy ==
    /\ FitsAlone
    /\ "cancel" \in Uses => Cardinality(Request) <= MaxFinished

\* The server counts as the scheduler does.
LEMMA ServerCounts == \A S : Server!Cardinality(S) = Cardinality(S)
BY DEF Server!Cardinality, Cardinality

\* Requests that end in the scheduler are answered by the server.
LEMMA EndingAnswered ==
  ASSUME FitsAlone, ServingOK, NEW q, NEW why, Ending(q, why)
  PROVE  Server!ServerNext \/ UNCHANGED Server!serverVars
<1> DEFINE S == Range(q)
<1>1. TypeOK /\ Queues
  BY DEF ServingOK
<1>2. /\ reason' = [r \in Request |-> IF r \in S THEN why ELSE reason[r]]
      /\ leases' = leases \ S
      /\ waiting' = Without(waiting, S)
      /\ S \subseteq Request
  BY <1>1, EndingKeeps
<1>3. S \subseteq Unended /\ why \in Outcomes
  BY DEF Ending
<1> HIDE DEF S
<1>4. Unended \subseteq Range(waiting) \cup leases
  BY <1>1 DEF Unended, Queues, QueuesMatchStages, KVHealth, In
<1>5. CASE S = {}
  <2>1. leases' = leases
    BY <1>2, <1>5
  <2>2. waiting' = waiting
    BY <1>1, <1>2, <1>5, WithoutNone DEF TypeOK
  <2>3. reason' = reason
    BY <1>1, <1>2, <1>5 DEF TypeOK
  <2> QED BY <2>1, <2>2, <2>3 DEF Server!serverVars
<1>6. CASE S # {}
  <2>1. PICK r \in S : TRUE
    BY <1>6
  <2>2. S \subseteq Server!Open
    BY <1>3, <1>4 DEF Server!Open, Server!Range, Range
  <2>3. waiting' = Server!Without(waiting, S)
    BY <1>2 DEF Server!Without, Server!Only, Without, Only
  <2>4. Server!Answer(S, why)
    BY <1>2, <1>6, <2>2, <2>3 DEF Server!Answer
  <2>5. Server!AnswerOne(r)
    BY <1>3, <2>1, <2>2, <2>4 DEF Server!AnswerOne
  <2> QED BY <1>2, <2>1, <2>5 DEF Server!ServerNext
<1> QED BY <1>5, <1>6

\* The queue is a line: requests join it together.
LEMMA TakeJoins ==
  ASSUME ServingOK, NEW who, Take(who)
  PROVE  Server!ServerNext \/ UNCHANGED Server!serverVars
<1>1. SubmitAll(pending) /\ (pending = <<>> \/ Accepts(pending))
  BY DEF Take
<1>2. TypeOK /\ Queues /\ pending \in Seq(Request)
  BY DEF ServingOK, WorkerOK
<1>3. /\ waiting' = waiting \o pending
      /\ \A r \in Range(pending) : r \in Request /\ stage[r] = "unknown"
      /\ IsInjective(pending)
      /\ UNCHANGED <<reason, leases>>
  BY <1>1, <1>2, SubmitKeeps
<1>4. CASE pending = <<>>
  <2>1. waiting' = waiting
    BY <1>2, <1>3, <1>4 DEF TypeOK
  <2> QED BY <1>3, <2>1 DEF Server!serverVars
<1>5. CASE pending # <<>>
  <2>1. \A r \in Range(pending) : r \notin Server!Open /\ reason[r] = "none"
    BY <1>2, <1>3 DEF Server!Open, Server!Range, Range, Queues, QueuesMatchStages, KVHealth, In
  <2>2. Server!Join(pending)
    BY <1>3, <2>1 DEF Server!Join, Server!IsInjective, IsInjective, Server!Range, Range
  <2>3. Len(pending) \in 1..Cardinality(Request) /\ pending \in [1..Len(pending) -> Request]
    <3>1. Len(pending) <= Cardinality(Request) /\ Cardinality(Request) \in Nat
      BY <1>2, <1>3, LenBound
    <3>2. Len(pending) \in Nat \ {0}
      BY <1>2, <1>5
    <3> QED BY <1>2, <3>1, <3>2
  <2> QED BY <2>2, <2>3, ServerCounts DEF Server!ServerNext
<1> QED BY <1>4, <1>5

\* Every step of the worker is a step of the request server or changes nothing of it.
LEMMA ServerStep ==
  ASSUME ServerPolicy, ServingOK, [Next]_vars
  PROVE  [Server!ServerNext]_(Server!serverVars)
<1> DEFINE Step == Server!ServerNext \/ UNCHANGED Server!serverVars
<1>1. TypeOK /\ Queues /\ TickOK /\ FitsAlone
  BY DEF ServingOK, ServerPolicy
<1>2. UNCHANGED <<waiting, leases, reason>> => Step
  BY DEF Server!serverVars
<1>3. UNCHANGED schedVars => Step
  BY <1>2 DEF schedVars, requestVars
<1>4. CASE RunTick
  <2>1. TickStep
    BY <1>4 DEF RunTick
  <2>2. CASE FailTimedOut
    BY <1>1, <2>2, TimedOutEnds, EndingAnswered
  <2>3. CASE PrefillFails
    BY <1>1, <2>3, PrefillEnds, EndingAnswered
  <2>4. CASE Decode
    BY <1>1, <2>4, DecodeEnds, EndingAnswered
  <2>5. CASE DecodeFails
    BY <1>1, <2>5, DecodeFailsEnds, EndingAnswered
  <2>6. CASE Admit
    <3>1. phase = "admit" /\ CanAllocate(Head(waiting))
      BY <2>6 DEF Admit, Admitting
    <3>2. Range(prefill) \subseteq Range(decoding) /\ IsInjective(prefill)
      BY <1>1, <3>1 DEF TickOK
    <3>3. /\ waiting # <<>> /\ Head(waiting) \notin leases /\ waiting' = Tail(waiting)
          /\ leases' = leases \cup {Head(waiting)} /\ reason' = reason
      BY <1>1, <2>6, <3>2, AdmitKeeps
    <3>4. Cardinality(leases) + 1 <= MaxRunning
      BY <3>1, <3>3 DEF CanAllocate
    <3>5. Cardinality(leases) \in Nat /\ MaxRunning \in Nat
      <4>1. leases \subseteq Request
        BY <1>1, RangeOfSeq DEF Queues, KVHealth, TypeOK
      <4> QED BY <4>1, RequestAssumption, PolicyAssumption, FS_Subset, FS_CardinalityType
    <3>6. Cardinality(leases) < MaxRunning
      BY <3>4, <3>5
    <3>7. Server!Start
      BY <3>3, <3>6, ServerCounts DEF Server!Start
    <3> QED BY <3>7 DEF Server!ServerNext
  <2>7. CASE AdmitEnd
    <3>1. waiting' = waiting /\ UNCHANGED <<leases, reason>>
      BY <1>1, <2>7, AdmitEndKeeps DEF AdmitEnd
    <3> QED BY <1>2, <3>1
  <2>8. CASE Prefill \/ PlanDecode \/ DecodeEnd \/ TickEnd
    BY <1>2, <2>8 DEF Prefill, PlanDecode, DecodeEnd, TickEnd, requestVars
  <2> QED BY <2>1, <2>2, <2>3, <2>4, <2>5, <2>6, <2>7, <2>8 DEF TickStep
<1>5. ~TickRaises
  BY <1>1, NoOverBudget DEF TickRaises
<1>6. ASSUME NEW r \in Request, CancelRequest(r) PROVE Step
  <2>1. Cancel(r) /\ "cancel" \in Uses
    BY <1>6 DEF CancelRequest
  <2>2. CASE r \notin Range(finished) /\ Finish(<<r>>, "cancelled") /\ stage[r] # "unknown"
    <3> DEFINE q == <<r>>
    <3>1. q \in Seq(Request) /\ IsInjective(q) /\ Range(q) = {r}
      BY DEF IsInjective, Range
    <3>2. In("finished") \subseteq Range(finished)
      BY <1>1, <2>1 DEF ServerPolicy, Queues
    <3>3. r \in Unended
      BY <1>1, <2>2, <3>2 DEF Unended, In, TypeOK, Stages
    <3>4. states' = states /\ Finish(q, "cancelled")
      BY <2>1, <2>2 DEF Cancel
    <3> HIDE DEF q
    <3>5. Ending(q, "cancelled")
      BY <3>1, <3>3, <3>4 DEF Ending, Outcomes
    <3> QED BY <1>1, <3>5, EndingAnswered
  <2>3. CASE UNCHANGED <<stage, waiting, decoding, finished, reason, leases>>
    BY <1>2, <2>3
  <2> QED BY <2>1, <2>2, <2>3, CancelKeeps
<1>7. CASE ShutdownTick
  BY <1>2, <1>7 DEF ShutdownTick, requestVars
<1>8. CASE ShutdownEnd
  <2>1. UNCHANGED requestVars \/ FailUnfinished
    BY <1>8 DEF ShutdownEnd
  <2>2. CASE FailUnfinished
    BY <1>1, <2>2, ShutdownEnds, EndingAnswered
  <2>3. CASE UNCHANGED requestVars
    BY <1>2, <2>3 DEF requestVars
  <2> QED BY <2>1, <2>2, <2>3
<1>9. CASE LoopTest \/ LoopIdle \/ LoopTakeRaises \/ StopWorker \/ Drain \/ ShutdownBegin \/ ManualTakeRaises
            \/ (\E n \in 1..MaxMany : \E q \in [1..n -> Request] : Submit(q)) \/ UNCHANGED vars
  <2>1. UNCHANGED schedVars
    BY <1>9 DEF LoopTest, LoopIdle, LoopTakeRaises, StopWorker, Drain, ShutdownBegin,
                ManualTakeRaises, TakeRaises, Submit, vars
  <2> QED BY <1>3, <2>1
<1>10. CASE LoopTick \/ ManualTick
  BY <1>10, TakeJoins DEF LoopTick, ManualTick
<1> QED BY <1>4, <1>5, <1>6, <1>7, <1>8, <1>9, <1>10 DEF Next, Worker, Shutdown, Client

\* Continuous batching implements the safety of the request server: requests start
\* in the order in which they were taken, at most MaxRunning of them run at a
\* time, and each of them gets one outcome that stays.
THEOREM ImplementsServerSafety ==
  ASSUME ServerPolicy
  PROVE  Spec => Server!ServerSafety
<1>1. Init => Server!ServerInit
  BY DEF Init, SchedInit, Server!ServerInit
<1>2. ServingOK /\ [Next]_vars => [Server!ServerNext]_(Server!serverVars)
  BY ServerStep
<1> QED BY <1>1, <1>2, ServingInvariant, PTL DEF Spec, Server!ServerSafety
=============================================================================
