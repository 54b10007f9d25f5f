-------------------------- MODULE GPUKVCacheProofs --------------------------
(***************************************************************************)
(* The page table keeps GPUInv for every number of users, pages and        *)
(* tokens per page, under every caller that GPUNext allows.                *)
(***************************************************************************)
EXTENDS GPUKVCache, SequenceTheorems, TLAPS

-----------------------------------------------------------------------------
(***************************************************************************)
(* Arithmetic on pages.                                                    *)
(***************************************************************************)
\* Euclidean division by the page size.
LEMMA DivPageSize ==
    ASSUME NEW n \in Int
    PROVE  /\ n \div PageSize \in Int
           /\ (n \div PageSize) * PageSize <= n
           /\ n < (n \div PageSize) * PageSize + PageSize
  BY PageSizeAssumption

\* The quotient is determined by its bounds.
LEMMA DivUnique ==
    ASSUME NEW n \in Int, NEW q \in Int,
           q * PageSize <= n, n < q * PageSize + PageSize
    PROVE  n \div PageSize = q
  BY PageSizeAssumption

\* Pages(n) is the least number of pages that n tokens fit in.
LEMMA PagesCover ==
    ASSUME NEW n \in Nat
    PROVE  /\ Pages(n) \in Nat
           /\ n <= Pages(n) * PageSize
           /\ Pages(n) * PageSize < n + PageSize
           /\ n = 0 => Pages(n) = 0
           /\ n > 0 => Pages(n) > 0
  BY DivPageSize, PageSizeAssumption DEF Pages

\* Whole pages may be taken off the front.
LEMMA PagesSplit ==
    ASSUME NEW c \in Nat, NEW n \in Nat, n * PageSize <= c
    PROVE  n <= Pages(c) /\ Pages(c - n * PageSize) = Pages(c) - n
  <1>1. n * PageSize \in Nat /\ c - n * PageSize \in Nat  BY PageSizeAssumption
  <1>2. /\ Pages(c) \in Nat /\ c <= Pages(c) * PageSize
        /\ Pages(c) * PageSize < c + PageSize
    BY PagesCover
  <1>3. n <= Pages(c)  BY <1>2, PageSizeAssumption
  <1>4. (Pages(c) - n) * PageSize = Pages(c) * PageSize - n * PageSize
    BY <1>2, PageSizeAssumption
  <1>5. (c - n * PageSize + PageSize - 1) \div PageSize = Pages(c) - n
    <2> DEFINE m == c - n * PageSize + PageSize - 1
               q == Pages(c) - n
    <2>1. m \in Int /\ q \in Int  BY <1>1, <1>2, PageSizeAssumption
    <2>2. q * PageSize <= m /\ m < q * PageSize + PageSize
      BY <1>1, <1>2, <1>4, PageSizeAssumption
    <2> HIDE DEF m, q
    <2>3. m \div PageSize = q  BY <2>1, <2>2, DivUnique
    <2> QED  BY <2>3 DEF m, q
  <1> QED  BY <1>3, <1>5 DEF Pages

\* A position on a page boundary stays on one when whole pages are added.
LEMMA PageBoundary ==
    ASSUME NEW s \in Nat, NEW n \in Nat, s % PageSize = 0
    PROVE  /\ (s + n * PageSize) % PageSize = 0
           /\ s = (s \div PageSize) * PageSize
  <1>1. ASSUME NEW x \in Int PROVE x % PageSize = x - (x \div PageSize) * PageSize
    BY PageSizeAssumption
  <1> DEFINE q == s \div PageSize
  <1>2. q \in Int /\ s = q * PageSize  BY <1>1, DivPageSize, PageSizeAssumption
  <1> HIDE DEF q
  <1>3. s + n * PageSize = (q + n) * PageSize  BY <1>2, PageSizeAssumption
  <1>4. (s + n * PageSize) \div PageSize = q + n
    BY <1>2, <1>3, DivUnique, PageSizeAssumption
  <1>5. (s + n * PageSize) % PageSize = 0
    <2> DEFINE x == s + n * PageSize
    <2>1. x \in Int  BY PageSizeAssumption
    <2>2. x = (x \div PageSize) * PageSize  BY <1>3, <1>4
    <2> HIDE DEF x
    <2>3. x % PageSize = 0  BY <2>1, <2>2, <1>1
    <2> QED  BY <2>3 DEF x
  <1> QED  BY <1>2, <1>5 DEF q

\* More tokens need no fewer pages.
LEMMA PagesMonotone ==
    ASSUME NEW m \in Nat, NEW n \in Nat, m <= n
    PROVE  Pages(m) <= Pages(n)
  <1>1. Pages(m) \in Nat /\ Pages(m) * PageSize < m + PageSize  BY PagesCover
  <1>2. Pages(n) \in Nat /\ n <= Pages(n) * PageSize  BY PagesCover
  <1>3. Pages(m) * PageSize < (Pages(n) + 1) * PageSize
    BY <1>1, <1>2, PageSizeAssumption
  <1> QED  BY <1>1, <1>2, <1>3, PageSizeAssumption

\* Position 0 is a page boundary.
LEMMA ZeroBoundary == 0 % PageSize = 0
  BY PageSizeAssumption
-----------------------------------------------------------------------------
(***************************************************************************)
(* _lru_list                                                               *)
(***************************************************************************)
\* Erasing the only occurrence of an element keeps the others, in order.
LEMMA RemoveAtKeeps ==
    ASSUME NEW S, NEW s \in Seq(S), NEW k \in 1..Len(s), IsInjective(s)
    PROVE  /\ RemoveAt(s, k) \in Seq(S)
           /\ IsInjective(RemoveAt(s, k))
           /\ \A v : Contains(RemoveAt(s, k), v) <=> Contains(s, v) /\ v # s[k]
  <1> DEFINE t == RemoveAt(s, k)
  <1>1. /\ t \in Seq(S)
        /\ Len(t) = Len(s) - 1
        /\ \A i \in 1..Len(t) : t[i] = IF i < k THEN s[i] ELSE s[i + 1]
    <2> DEFINE front == SubSeq(s, 1, k - 1)
               back == SubSeq(s, k + 1, Len(s))
    <2>1. /\ front \in Seq(S) /\ Len(front) = k - 1
          /\ \A i \in 1..(k - 1) : front[i] = s[i]
      BY SubSeqProperties
    <2>2. /\ back \in Seq(S) /\ Len(back) = Len(s) - k
          /\ \A i \in 1..(Len(s) - k) : back[i] = s[k + i]
      BY SubSeqProperties
    <2>3. t = front \o back  BY DEF RemoveAt
    <2> HIDE DEF front, back, t
    <2>4. t \in Seq(S) /\ Len(t) = Len(s) - 1  BY <2>1, <2>2, <2>3
    <2>5. ASSUME NEW i \in 1..Len(t), i < k PROVE t[i] = s[i]
      BY <2>1, <2>2, <2>3, <2>4, <2>5
    <2>6. ASSUME NEW i \in 1..Len(t), i >= k PROVE t[i] = s[i + 1]
      <3>1. t[i] = back[i - (k - 1)]  BY <2>1, <2>2, <2>3, <2>4, <2>6
      <3>2. i - (k - 1) \in 1..(Len(s) - k)  BY <2>4, <2>6
      <3> QED  BY <3>1, <3>2, <2>2
    <2> QED  BY <2>4, <2>5, <2>6
  <1> HIDE DEF t
  <1>2. IsInjective(t)
    <2> SUFFICES ASSUME NEW i \in 1..Len(t), NEW j \in 1..Len(t), t[i] = t[j]
                 PROVE  i = j
      BY <1>1 DEF IsInjective
    <2> DEFINE from(n) == IF n < k THEN n ELSE n + 1
    <2>1. from(i) \in 1..Len(s) /\ from(j) \in 1..Len(s)  BY <1>1
    <2>2. s[from(i)] = s[from(j)]  BY <1>1
    <2>3. from(i) = from(j)  BY <2>1, <2>2 DEF IsInjective
    <2> QED  BY <2>3
  <1>3. ASSUME NEW v PROVE Contains(t, v) => Contains(s, v) /\ v # s[k]
    BY <1>1 DEF IsInjective, Contains
  <1>4. ASSUME NEW v, Contains(s, v), v # s[k] PROVE Contains(t, v)
    <2>1. PICK i \in 1..Len(s) : s[i] = v  BY <1>4 DEF Contains
    <2>2. CASE i < k  BY <2>1, <2>2, <1>1 DEF Contains
    <2>3. CASE i > k
      <3>1. i - 1 \in 1..Len(t) /\ t[i - 1] = v  BY <2>1, <2>3, <1>1
      <3> QED  BY <3>1 DEF Contains
    <2> QED  BY <2>1, <2>2, <2>3, <1>4
  <1> QED  BY <1>1, <1>2, <1>3, <1>4 DEF t

\* What erase from _lru_list through _lru_lookup_table leaves.
LEMMA RemoveFirstKeeps ==
    ASSUME NEW S, NEW s \in Seq(S), NEW u, IsInjective(s)
    PROVE  /\ RemoveFirst(s, u) \in Seq(S)
           /\ IsInjective(RemoveFirst(s, u))
           /\ \A v : Contains(RemoveFirst(s, u), v) <=> Contains(s, v) /\ v # u
  <1>1. CASE Contains(s, u)
    <2>1. PICK k \in 1..Len(s) : s[k] = u  BY <1>1 DEF Contains
    <2>2. {i \in 1..Len(s) : s[i] = u} = {k}  BY <2>1 DEF IsInjective
    <2>3. Min({k}) = k  BY DEF Min
    <2>4. SelectInSeq(s, LAMBDA v : v = u) = k  BY <2>2, <2>3 DEF SelectInSeq
    <2>5. RemoveFirst(s, u) = RemoveAt(s, k)  BY <2>1, <2>4 DEF RemoveFirst
    <2> QED  BY <2>1, <2>5, RemoveAtKeeps
  <1>2. CASE ~Contains(s, u)
    BY <1>2 DEF RemoveFirst, Contains
  <1> QED  BY <1>1, <1>2

\* retain(uid)
LEMMA RetainKeeps ==
    ASSUME NEW s \in Seq(User), NEW u \in User, IsInjective(s)
    PROVE  LET t == Append(RemoveFirst(s, u), u)
           IN  /\ t \in Seq(User)
               /\ IsInjective(t)
               /\ \A v : Contains(t, v) <=> Contains(s, v) \/ v = u
  <1> DEFINE r == RemoveFirst(s, u)
             t == Append(r, u)
  <1>1. /\ r \in Seq(User) /\ IsInjective(r)
        /\ \A v : Contains(r, v) <=> Contains(s, v) /\ v # u
    BY RemoveFirstKeeps
  <1> HIDE DEF r
  <1>2. /\ t \in Seq(User) /\ Len(t) = Len(r) + 1
        /\ \A i \in 1..Len(t) : t[i] = IF i = Len(r) + 1 THEN u ELSE r[i]
    BY <1>1
  <1>3. ~Contains(r, u)  BY <1>1
  <1>4. IsInjective(t)  BY <1>1, <1>2, <1>3 DEF IsInjective, Contains
  <1>5. \A v : Contains(t, v) <=> Contains(r, v) \/ v = u
    BY <1>1, <1>2 DEF Contains
  <1> QED  BY <1>1, <1>2, <1>4, <1>5 DEF r
-----------------------------------------------------------------------------
(***************************************************************************)
(* The table without the request.                                          *)
(***************************************************************************)
TableType ==
    /\ history \in [User -> Lengths]
    /\ emptyPages \subseteq Page
    /\ lruList \in Seq(User)
    /\ pageIds \in [User -> Seq(Page)]
    /\ startPos \in [User -> Nat] /\ cachedLen \in [User -> Nat]
    /\ offloadedLen \in [User -> Nat]

Table ==
    /\ TableType /\ IsInjective(lruList)
    /\ PagePartition /\ PageListsMatchLengths /\ OffloadedWithinHistory

\* What a step that empties at most u does to the users in _lru_list.
LruLoses(u) ==
    /\ IsInjective(lruList')
    /\ \A v \in User \ {u} : /\ Contains(lruList', v) <=> Contains(lruList, v)
                             /\ cachedLen'[v] = cachedLen[v]
    /\ Contains(lruList', u) => Contains(lruList, u) /\ cachedLen'[u] > 0
    /\ cachedLen'[u] > 0 => Contains(lruList', u)

\* evict(uid) of a cached user gives back exactly its pages.
LEMMA EvictKeeps ==
    ASSUME Table, NEW u \in User, Contains(lruList, u), Evict(u), UNCHANGED history
    PROVE  Table' /\ LruLoses(u) /\ cachedLen'[u] = 0
  <1> USE DEF Table, TableType
  <1>1. /\ lruList' = RemoveFirst(lruList, u)
        /\ emptyPages' = emptyPages \cup Range(pageIds[u])
        /\ pageIds' = [pageIds EXCEPT ![u] = <<>>]
        /\ startPos' = [startPos EXCEPT ![u] = 0]
        /\ cachedLen' = [cachedLen EXCEPT ![u] = 0]
        /\ offloadedLen' = [offloadedLen EXCEPT ![u] = 0]
    BY DEF Evict
  <1>2. /\ lruList' \in Seq(User) /\ IsInjective(lruList')
        /\ \A v : Contains(lruList', v) <=> Contains(lruList, v) /\ v # u
    BY <1>1, RemoveFirstKeeps
  <1>3. Range(pageIds[u]) = {pageIds[u][i] : i \in 1..Len(pageIds[u])}
    BY DEF Range
  <1>4. Range(pageIds[u]) \subseteq Page
    BY <1>3
  <1>5. TableType'
    BY <1>1, <1>2, <1>4
  <1>6. PagePartition'
    <2>1. pageIds'[u] = <<>> /\ \A v \in User \ {u} : pageIds'[v] = pageIds[v]
      BY <1>1
    <2>2. ASSUME NEW v \in User, NEW i \in 1..Len(pageIds'[v])
          PROVE  pageIds'[v][i] \notin emptyPages'
      <3>1. v # u /\ pageIds'[v] = pageIds[v] /\ i \in 1..Len(pageIds[v])  BY <2>1
      <3>2. pageIds[v][i] \notin emptyPages  BY <3>1 DEF PagePartition
      <3>3. pageIds[v][i] \notin Range(pageIds[u])  BY <3>1, <1>3 DEF PagePartition
      <3> QED  BY <3>1, <3>2, <3>3, <1>1
    <2>3. ASSUME NEW v \in User, NEW w \in User, NEW i \in 1..Len(pageIds'[v]),
                 NEW j \in 1..Len(pageIds'[w]), pageIds'[v][i] = pageIds'[w][j]
          PROVE  v = w /\ i = j
      <3>1. v # u /\ pageIds'[v] = pageIds[v] /\ i \in 1..Len(pageIds[v])  BY <2>1
      <3>2. w # u /\ pageIds'[w] = pageIds[w] /\ j \in 1..Len(pageIds[w])  BY <2>1
      <3> QED  BY <3>1, <3>2, <2>3 DEF PagePartition
    <2>4. ASSUME NEW p \in Page, p \notin emptyPages'
          PROVE  \E v \in User : \E i \in 1..Len(pageIds'[v]) : pageIds'[v][i] = p
      <3>1. PICK v \in User : \E i \in 1..Len(pageIds[v]) : pageIds[v][i] = p
        BY <2>4, <1>1 DEF PagePartition
      <3>2. v # u  BY <3>1, <2>4, <1>1, <1>3
      <3>3. pageIds'[v] = pageIds[v]  BY <3>2, <1>1
      <3> QED  BY <3>1, <3>3
    <2> QED  BY <2>2, <2>3, <2>4 DEF PagePartition
  <1>7. PageListsMatchLengths'
    <2> SUFFICES ASSUME NEW v \in User
                 PROVE  /\ Len(pageIds'[v]) = Pages(cachedLen'[v])
                        /\ startPos'[v] % PageSize = 0
                        /\ IF cachedLen'[v] = 0 THEN startPos'[v] = 0
                           ELSE startPos'[v] + cachedLen'[v] = history'[v]
      BY DEF PageListsMatchLengths, EndPos
    <2>1. CASE v = u
      BY <2>1, <1>1, PagesCover, PageSizeAssumption
    <2>2. CASE v # u
      BY <2>2, <1>1 DEF PageListsMatchLengths, EndPos
    <2> QED  BY <2>1, <2>2
  <1>8. OffloadedWithinHistory'
    BY <1>1, BoundsAssumption DEF OffloadedWithinHistory, Lengths
  <1>9. LruLoses(u) /\ cachedLen'[u] = 0
    BY <1>1, <1>2 DEF LruLoses
  <1> QED  BY <1>2, <1>5, <1>6, <1>7, <1>8, <1>9

\* A page is listed in one place only.
LEMMA PageInOnePlace ==
    ASSUME PagePartition,
           NEW v \in User, NEW w \in User,
           NEW a \in 1..Len(pageIds[v]), NEW b \in 1..Len(pageIds[w])
    PROVE  pageIds[v][a] = pageIds[w][b] => v = w /\ a = b
  BY DEF PagePartition

\* What may be dropped first: whole pages below offloadedLen, all cached.
LEMMA OffloadedPagesCached ==
    ASSUME Table, NEW u \in User, cachedLen[u] > 0
    PROVE  /\ OffloadedPages(u) \in Nat
           /\ OffloadedPages(u) * PageSize \in Nat
           /\ OffloadedPages(u) * PageSize <= cachedLen[u]
           /\ OffloadedPages(u) <= Len(pageIds[u])
           /\ Pages(cachedLen[u] - OffloadedPages(u) * PageSize)
                = Len(pageIds[u]) - OffloadedPages(u)
  <1> DEFINE q == (offloadedLen[u] - startPos[u]) \div PageSize
             n == OffloadedPages(u)
  <1>1. /\ offloadedLen[u] \in Nat /\ startPos[u] \in Nat /\ cachedLen[u] \in Nat
        /\ history[u] \in Int
    BY BoundsAssumption DEF Table, TableType, Lengths
  <1>2. offloadedLen[u] <= startPos[u] + cachedLen[u]
    BY <1>1 DEF Table, PageListsMatchLengths, OffloadedWithinHistory, EndPos
  <1>3. q \in Int /\ q * PageSize <= cachedLen[u]
    BY <1>1, <1>2, DivPageSize, PageSizeAssumption
  <1>4. n = IF q > 0 THEN q ELSE 0  BY DEF OffloadedPages, Positive
  <1> HIDE DEF q, n
  <1>5. n \in Nat /\ n * PageSize \in Nat /\ n * PageSize <= cachedLen[u]
    BY <1>1, <1>3, <1>4, PageSizeAssumption
  <1>6. n <= Pages(cachedLen[u]) /\ Pages(cachedLen[u] - n * PageSize) = Pages(cachedLen[u]) - n
    BY <1>1, <1>5, PagesSplit
  <1>7. Len(pageIds[u]) = Pages(cachedLen[u])
    BY DEF Table, PageListsMatchLengths
  <1> QED  BY <1>5, <1>6, <1>7 DEF n

\* evict_offloaded(uid) and its caller.
LEMMA EvictOffloadedKeeps ==
    ASSUME Table, NEW u \in User, Contains(lruList, u), cachedLen[u] > 0,
           EvictOffloaded(u), EraseIfEmptied(u), UNCHANGED history
    PROVE  Table' /\ LruLoses(u)
  <1> DEFINE n == OffloadedPages(u)
             s == pageIds[u]
             left == SubSeq(s, n + 1, Len(s))
             emptied == cachedLen[u] = n * PageSize
  <1> USE DEF Table, TableType
  <1>1. /\ emptyPages' = emptyPages \cup {s[i] : i \in 1..n}
        /\ pageIds' = [pageIds EXCEPT ![u] = left]
        /\ cachedLen' = [cachedLen EXCEPT ![u] = cachedLen[u] - n * PageSize]
    BY DEF EvictOffloaded
  <1>2. /\ startPos' = [startPos EXCEPT ![u] = IF emptied THEN 0 ELSE startPos[u] + n * PageSize]
        /\ offloadedLen' = [offloadedLen EXCEPT ![u] = IF emptied THEN 0 ELSE offloadedLen[u]]
        /\ lruList' = IF emptied THEN RemoveFirst(lruList, u) ELSE lruList
    BY DEF EraseIfEmptied
  <1>3. /\ n \in Nat /\ n * PageSize \in Nat /\ n * PageSize <= cachedLen[u]
        /\ n <= Len(s)
        /\ Pages(cachedLen[u] - n * PageSize) = Len(s) - n
    BY OffloadedPagesCached
  <1>4. s \in Seq(Page) /\ Len(s) \in Nat /\ \A i \in 1..Len(s) : s[i] \in Page
    OBVIOUS
  <1> HIDE DEF n, s
  <1>5. /\ left \in Seq(Page) /\ Len(left) = Len(s) - n
        /\ \A i \in 1..Len(left) : left[i] = s[n + i]
    BY <1>3, <1>4, SubSeqProperties
  <1> HIDE DEF left
  <1>6. emptyPages' \subseteq Page /\ pageIds' \in [User -> Seq(Page)]
    BY <1>1, <1>3, <1>4, <1>5
  <1>7. /\ startPos' \in [User -> Nat] /\ cachedLen' \in [User -> Nat]
        /\ offloadedLen' \in [User -> Nat]
    BY <1>1, <1>2, <1>3
  <1>8. /\ lruList' \in Seq(User) /\ IsInjective(lruList')
        /\ \A v : Contains(lruList', v) <=> Contains(lruList, v) /\ (emptied => v # u)
    <2>1. CASE emptied  BY <2>1, <1>2, RemoveFirstKeeps
    <2>2. CASE ~emptied  BY <2>2, <1>2
    <2> QED  BY <2>1, <2>2
  <1>9. PagePartition'
    <2> DEFINE from(v, i) == IF v = u THEN n + i ELSE i
    <2>1. pageIds'[u] = left /\ \A v \in User \ {u} : pageIds'[v] = pageIds[v]
      BY <1>1
    <2>2. ASSUME NEW v \in User, NEW i \in 1..Len(pageIds'[v])
          PROVE  /\ from(v, i) \in 1..Len(pageIds[v])
                 /\ pageIds'[v][i] = pageIds[v][from(v, i)]
      <3>1. CASE v = u  BY <3>1, <2>1, <1>3, <1>4, <1>5 DEF s
      <3>2. CASE v # u  BY <3>2, <2>1
      <3> QED  BY <3>1, <3>2
    <2>3. ASSUME NEW v \in User, NEW i \in 1..Len(pageIds'[v])
          PROVE  pageIds'[v][i] \notin emptyPages'
      <3>1. pageIds[v][from(v, i)] \notin emptyPages  BY <2>2 DEF PagePartition
      <3>2. ASSUME NEW k \in 1..n PROVE pageIds[v][from(v, i)] # s[k]
        <4>1. k \in 1..Len(pageIds[u]) /\ s[k] = pageIds[u][k]  BY <1>3, <1>4 DEF s
        <4>2. i \in Int  BY <1>6
        <4>3. v = u => from(v, i) # k  BY <4>2, <2>1, <1>3, <1>5
        <4>4. PICK a \in 1..Len(pageIds[v]) : a = from(v, i)  BY <2>2
        <4> HIDE DEF from
        <4>5. pageIds[v][a] = pageIds[u][k] => v = u /\ a = k
          BY <4>1, PageInOnePlace
        <4> QED  BY <4>1, <4>3, <4>4, <4>5
      <3> QED  BY <3>1, <3>2, <2>2, <1>1
    <2>4. ASSUME NEW v \in User, NEW w \in User, NEW i \in 1..Len(pageIds'[v]),
                 NEW j \in 1..Len(pageIds'[w]), pageIds'[v][i] = pageIds'[w][j]
          PROVE  v = w /\ i = j
      <3>1. v = w /\ from(v, i) = from(w, j)
        <4>1. PICK a \in 1..Len(pageIds[v]) : a = from(v, i) /\ pageIds'[v][i] = pageIds[v][a]
          BY <2>2
        <4>2. PICK b \in 1..Len(pageIds[w]) : b = from(w, j) /\ pageIds'[w][j] = pageIds[w][b]
          BY <2>2
        <4>3. pageIds[v][a] = pageIds[w][b]  BY <4>1, <4>2, <2>4
        <4>4. v = w /\ a = b  BY <4>3, PageInOnePlace
        <4> QED  BY <4>1, <4>2, <4>4
      <3>2. i \in Int /\ j \in Int  BY <1>6
      <3> QED  BY <3>1, <3>2, <1>3
    <2>5. ASSUME NEW p \in Page, p \notin emptyPages'
          PROVE  \E v \in User : \E i \in 1..Len(pageIds'[v]) : pageIds'[v][i] = p
      <3>1. PICK v \in User : \E i \in 1..Len(pageIds[v]) : pageIds[v][i] = p
        BY <2>5, <1>1 DEF PagePartition
      <3>2. PICK i \in 1..Len(pageIds[v]) : pageIds[v][i] = p  BY <3>1
      <3>3. CASE v = u
        <4>1. i \in 1..Len(s) /\ s[i] = p  BY <3>2, <3>3 DEF s
        <4>2. ~(i <= n)  BY <4>1, <2>5, <1>1, <1>3
        <4>3. i - n \in 1..Len(left) /\ left[i - n] = p  BY <4>1, <4>2, <1>3, <1>4, <1>5
        <4> QED  BY <4>3, <2>1
      <3>4. CASE v # u  BY <3>2, <3>4, <2>1
      <3> QED  BY <3>3, <3>4
    <2> QED  BY <2>3, <2>4, <2>5 DEF PagePartition
  <1>10. PageListsMatchLengths'
    <2> SUFFICES ASSUME NEW v \in User
                 PROVE  /\ Len(pageIds'[v]) = Pages(cachedLen'[v])
                        /\ startPos'[v] % PageSize = 0
                        /\ IF cachedLen'[v] = 0 THEN startPos'[v] = 0
                           ELSE startPos'[v] + cachedLen'[v] = history'[v]
      BY DEF PageListsMatchLengths, EndPos
    <2>1. CASE v = u
      <3>1. Len(pageIds'[v]) = Pages(cachedLen'[v])  BY <2>1, <1>1, <1>3, <1>5
      <3>2. startPos[u] % PageSize = 0 /\ startPos[u] + cachedLen[u] = history[u]
        BY DEF PageListsMatchLengths, EndPos
      <3>3. (startPos[u] + n * PageSize) % PageSize = 0
        BY <3>2, <1>3, PageBoundary
      <3>4. CASE emptied  BY <2>1, <3>1, <3>4, <1>1, <1>2, <1>3, PageSizeAssumption
      <3>5. CASE ~emptied
        BY <2>1, <3>1, <3>2, <3>3, <3>5, <1>1, <1>2, <1>3
      <3> QED  BY <3>4, <3>5
    <2>2. CASE v # u
      BY <2>2, <1>1, <1>2 DEF PageListsMatchLengths, EndPos
    <2> QED  BY <2>1, <2>2
  <1>11. OffloadedWithinHistory'
    BY <1>2, BoundsAssumption DEF OffloadedWithinHistory, Lengths
  <1>12. LruLoses(u)
    BY <1>1, <1>3, <1>8 DEF LruLoses
  <1> QED  BY <1>6, <1>7, <1>8, <1>9, <1>10, <1>11, <1>12

\* Where the cached pages go in the list alloc_single_sequence builds.
LEMMA CachedPagesFit ==
    ASSUME Table, NEW u \in User, total \in [User -> Lengths], hostHit \in [User -> Lengths],
           history[u] <= total[u]
    PROVE  /\ TotalPages(u) \in Nat /\ OnloadPages(u) \in Nat
           /\ CurPages(u) = Len(pageIds[u])
           /\ CurPages(u) > 0 => OnloadPages(u) + CurPages(u) <= TotalPages(u)
  <1>1. /\ startPos[u] \in Nat /\ cachedLen[u] \in Nat /\ history[u] \in Nat
        /\ total[u] \in Nat /\ hostHit[u] \in Nat
    BY BoundsAssumption DEF Table, TableType, Lengths
  <1>2. TotalPages(u) \in Nat  BY <1>1, PagesCover DEF TotalPages
  <1>3. CurPages(u) = Len(pageIds[u])  BY DEF Table, PageListsMatchLengths, CurPages
  <1>4. CASE cachedLen[u] = 0
    <2>1. CurPages(u) = 0  BY <1>4, <1>1, PagesCover DEF CurPages
    <2>2. OnloadPages(u) \in Nat  BY <1>4, <1>1, PagesCover DEF OnloadPages
    <2> QED  BY <1>2, <1>3, <2>1, <2>2
  <1>5. CASE cachedLen[u] # 0
    <2> DEFINE o == startPos[u] \div PageSize
    <2>1. OnloadPages(u) = o  BY <1>5 DEF OnloadPages
    <2>2. startPos[u] % PageSize = 0 /\ startPos[u] + cachedLen[u] = history[u]
      BY <1>5 DEF Table, PageListsMatchLengths, EndPos
    <2>3. startPos[u] = o * PageSize  BY <1>1, <2>2, PageBoundary
    <2>4. o \in Nat  BY <1>1, <2>3, DivPageSize, PageSizeAssumption
    <2> HIDE DEF o
    <2>5. /\ history[u] - o * PageSize = cachedLen[u] /\ o * PageSize <= history[u]
      BY <1>1, <2>2, <2>3
    <2>6. o <= Pages(history[u]) /\ Pages(cachedLen[u]) = Pages(history[u]) - o
      BY <1>1, <2>4, <2>5, PagesSplit
    <2>7. Pages(history[u]) <= Pages(total[u])  BY <1>1, PagesMonotone
    <2>8. Pages(history[u]) \in Nat  BY <1>1, PagesCover
    <2> QED  BY <1>2, <1>3, <2>1, <2>4, <2>6, <2>7, <2>8 DEF CurPages, TotalPages
  <1> QED  BY <1>4, <1>5

\* The list built around the cached pages takes its fresh pages off
\* _empty_pages, once each.
LEMMA TakePagesKeeps ==
    ASSUME Table, NEW u \in User, total \in [User -> Lengths], hostHit \in [User -> Lengths],
           total[u] > 0, history[u] <= total[u],
           NEW take \in Injection(FreshSlots(u), emptyPages),
           emptyPages' = emptyPages \ {take[i] : i \in FreshSlots(u)},
           pageIds' = [pageIds EXCEPT ![u] = PageList(u, take)],
           startPos' = [startPos EXCEPT ![u] = 0],
           cachedLen' = [cachedLen EXCEPT ![u] = total[u]],
           history' = [history EXCEPT ![u] = total[u]],
           UNCHANGED <<lruList, offloadedLen>>
    PROVE  Table' /\ PageList(u, take) \in Seq(Page)
  <1> DEFINE s == pageIds[u]
             L == PageList(u, take)
             F == FreshSlots(u)
             T == TotalPages(u)
             o == OnloadPages(u)
  <1> USE DEF Table, TableType
  <1>1. /\ T \in Nat /\ o \in Nat /\ s \in Seq(Page) /\ Len(s) \in Nat
        /\ CurPages(u) = Len(s)
        /\ Len(s) > 0 => o + Len(s) <= T
    <2>1. s \in Seq(Page) /\ Len(s) \in Nat  OBVIOUS
    <2>2. /\ T \in Nat /\ o \in Nat /\ CurPages(u) = Len(s)
          /\ CurPages(u) > 0 => o + CurPages(u) <= T
      <3> HIDE DEF Table, TableType
      <3> QED  BY CachedPagesFit
    <2> QED  BY <2>1, <2>2
  <1>2. F = {i \in 1..T : i <= o \/ i > o + Len(s)}
    BY <1>1 DEF FreshSlots
  <1>3. /\ take \in [F -> emptyPages]
        /\ \A i, j \in F : take[i] = take[j] => i = j
    BY DEF Injection, IsInjective
  <1>4. L = [i \in 1..T |-> IF i \in F THEN take[i] ELSE s[i - o]]
    BY DEF PageList
  <1>5. /\ emptyPages' = emptyPages \ {take[i] : i \in F}
        /\ pageIds' = [pageIds EXCEPT ![u] = L]
    OBVIOUS
  <1> HIDE DEF L, F, T, o
  <1>6. ASSUME NEW i \in 1..T, i \notin F
        PROVE  i - o \in 1..Len(s) /\ L[i] = s[i - o] /\ L[i] \in Page
    BY <1>1, <1>2, <1>4, <1>6
  <1>7. ASSUME NEW i \in F
        PROVE  i \in 1..T /\ L[i] = take[i] /\ L[i] \in emptyPages
    BY <1>1, <1>2, <1>3, <1>4
  <1>8. L \in Seq(Page) /\ Len(L) = T
    BY <1>1, <1>4, <1>6, <1>7
  <1>9. TableType'
    BY <1>5, <1>8, BoundsAssumption DEF Lengths
  <1>10. PagePartition'
    <2>1. pageIds'[u] = L /\ \A v \in User \ {u} : pageIds'[v] = pageIds[v]
      BY <1>5
    <2>2. ASSUME NEW v \in User, NEW i \in 1..Len(pageIds'[v])
          PROVE  pageIds'[v][i] \notin emptyPages'
      <3>1. CASE v # u  BY <3>1, <2>1, <1>5 DEF PagePartition
      <3>2. CASE v = u /\ i \in F  BY <3>2, <2>1, <1>5, <1>7
      <3>3. CASE v = u /\ i \notin F
        <4>1. i - o \in 1..Len(s) /\ L[i] = s[i - o]  BY <3>3, <2>1, <1>6, <1>8
        <4>2. s[i - o] \notin emptyPages  BY <4>1 DEF PagePartition
        <4> QED  BY <4>1, <4>2, <3>3, <2>1, <1>5
      <3> QED  BY <3>1, <3>2, <3>3
    <2>3. ASSUME NEW v \in User \ {u}, NEW i \in 1..T, NEW j \in 1..Len(pageIds[v])
          PROVE  L[i] # pageIds[v][j]
      <3>1. CASE i \in F  BY <3>1, <1>7 DEF PagePartition
      <3>2. CASE i \notin F
        <4>1. PICK a \in 1..Len(s) : L[i] = pageIds[u][a]  BY <3>2, <1>6
        <4>2. pageIds[u][a] = pageIds[v][j] => u = v  BY PageInOnePlace
        <4> QED  BY <4>1, <4>2
      <3> QED  BY <3>1, <3>2
    <2>4. ASSUME NEW i \in 1..T, NEW j \in 1..T, L[i] = L[j]
          PROVE  i = j
      <3>1. CASE i \in F /\ j \in F  BY <3>1, <2>4, <1>3, <1>7
      <3>2. ASSUME NEW x \in F, NEW y \in 1..T, y \notin F PROVE L[x] # L[y]
        <4>1. L[x] \in emptyPages  BY <1>7
        <4>2. PICK a \in 1..Len(s) : L[y] = pageIds[u][a]  BY <3>2, <1>6
        <4> QED  BY <4>1, <4>2 DEF PagePartition
      <3>3. CASE i \notin F /\ j \notin F
        <4>1. PICK a \in 1..Len(s) : a = i - o /\ L[i] = pageIds[u][a]  BY <3>3, <1>6
        <4>2. PICK b \in 1..Len(s) : b = j - o /\ L[j] = pageIds[u][b]  BY <3>3, <1>6
        <4>3. pageIds[u][a] = pageIds[u][b]  BY <4>1, <4>2, <2>4
        <4>4. a = b  BY <4>3, PageInOnePlace
        <4> QED  BY <4>1, <4>2, <4>4, <1>1
      <3> QED  BY <3>1, <3>2, <3>3, <2>4
    <2>5. ASSUME NEW v \in User, NEW w \in User, NEW i \in 1..Len(pageIds'[v]),
                 NEW j \in 1..Len(pageIds'[w]), pageIds'[v][i] = pageIds'[w][j]
          PROVE  v = w /\ i = j
      <3>1. CASE v = u /\ w = u  BY <3>1, <2>1, <2>4, <2>5, <1>8
      <3>2. CASE v = u /\ w # u  BY <3>2, <2>1, <2>3, <2>5, <1>8
      <3>3. CASE v # u /\ w = u  BY <3>3, <2>1, <2>3, <2>5, <1>8
      <3>4. CASE v # u /\ w # u
        <4>1. /\ pageIds'[v] = pageIds[v] /\ i \in 1..Len(pageIds[v])
              /\ pageIds'[w] = pageIds[w] /\ j \in 1..Len(pageIds[w])
          BY <3>4, <2>1
        <4> QED  BY <4>1, <2>5, PageInOnePlace
      <3> QED  BY <3>1, <3>2, <3>3, <3>4
    <2>6. ASSUME NEW p \in Page, p \notin emptyPages'
          PROVE  \E v \in User : \E i \in 1..Len(pageIds'[v]) : pageIds'[v][i] = p
      <3>1. CASE p \in emptyPages
        <4>1. PICK i \in F : take[i] = p  BY <3>1, <2>6, <1>5
        <4>2. i \in 1..Len(pageIds'[u]) /\ pageIds'[u][i] = p  BY <4>1, <2>1, <1>7, <1>8
        <4> QED  BY <4>2
      <3>2. CASE p \notin emptyPages
        <4>1. PICK v \in User : \E i \in 1..Len(pageIds[v]) : pageIds[v][i] = p
          BY <3>2 DEF PagePartition
        <4>2. CASE v # u  BY <4>1, <4>2, <2>1
        <4>3. CASE v = u
          <5>1. PICK k \in 1..Len(s) : s[k] = p  BY <4>1, <4>3
          <5>2. o + k \in 1..T /\ o + k \notin F  BY <1>1, <1>2
          <5>3. L[o + k] = p  BY <5>1, <5>2, <1>1, <1>4
          <5> QED  BY <5>2, <5>3, <2>1, <1>8
        <4> QED  BY <4>2, <4>3
      <3> QED  BY <3>1, <3>2
    <2> QED  BY <2>2, <2>5, <2>6 DEF PagePartition
  <1>11. PageListsMatchLengths'
    <2> SUFFICES ASSUME NEW v \in User
                 PROVE  /\ Len(pageIds'[v]) = Pages(cachedLen'[v])
                        /\ startPos'[v] % PageSize = 0
                        /\ IF cachedLen'[v] = 0 THEN startPos'[v] = 0
                           ELSE startPos'[v] + cachedLen'[v] = history'[v]
      BY DEF PageListsMatchLengths, EndPos
    <2>1. CASE v = u
      <3>1. /\ pageIds'[u] = L /\ startPos'[u] = 0
            /\ cachedLen'[u] = total[u] /\ history'[u] = total[u]
        BY <1>5
      <3>2. Len(L) = Pages(total[u])  BY <1>8 DEF T, TotalPages
      <3>3. total[u] \in Nat  BY BoundsAssumption DEF Lengths
      <3>4. 0 % PageSize = 0  BY ZeroBoundary
      <3> QED  BY <2>1, <3>1, <3>2, <3>3, <3>4
    <2>2. CASE v # u
      BY <2>2, <1>5 DEF PageListsMatchLengths, EndPos
    <2> QED  BY <2>1, <2>2
  <1>12. OffloadedWithinHistory'
    BY BoundsAssumption DEF OffloadedWithinHistory, Lengths
  <1> QED  BY <1>8, <1>9, <1>10, <1>11, <1>12 DEF L
-----------------------------------------------------------------------------
(***************************************************************************)
(* The inductive invariant, one lemma per action.                          *)
(***************************************************************************)
RequestType ==
    /\ offloadLock \in [User -> Nat]
    /\ phase \in Phases
    /\ batch \in Seq(User) /\ at \in Nat /\ cursor \in Nat \ {0}
    /\ total \in [User -> Lengths] /\ hostHit \in [User -> Lengths]
    /\ kept \in [User -> Nat]
    /\ pageIndices \in [User -> Seq(Page)]

\* Only the request can be where a listed user has no tokens yet.
LruMatches ==
    \A u \in User :
        /\ cachedLen[u] > 0 => Contains(lruList, u)
        /\ Contains(lruList, u) =>
              cachedLen[u] > 0 \/ (phase \in {"room", "undefined"} /\ u = batch[at])

Parts == Table /\ RequestType /\ RequestSound /\ LruMatches

\* The invariant regrouped: the table, and what ties the request to it.
LEMMA PartsOfInv == GPUInv <=> Parts
  BY DEF GPUInv, Parts, GPUTypeOK, Table, TableType, RequestType, LruMatches,
         LruListsCachedUsers

\* A step that leaves the table alone keeps its part of the invariant.
LEMMA TableUnchanged ==
    ASSUME Table, UNCHANGED <<history, tableVars, offloadedLen>>
    PROVE  Table'
  BY DEF Table, TableType, tableVars, PagePartition, PageListsMatchLengths, EndPos,
         OffloadedWithinHistory

\* The offloaded lengths may be replaced by any others within the histories.
LEMMA TableOffloaded ==
    ASSUME Table, UNCHANGED <<history, tableVars>>,
           offloadedLen' \in [User -> Nat],
           \A u \in User : offloadedLen'[u] <= history[u]
    PROVE  Table'
  BY DEF Table, TableType, tableVars, PagePartition, PageListsMatchLengths, EndPos,
         OffloadedWithinHistory

\* The constructor establishes the invariant.
LEMMA InitParts ==
    ASSUME GPUInit PROVE Parts
  <1> USE DEF GPUInit, Zero, NoList
  <1>1. TableType  BY BoundsAssumption DEF TableType, Lengths
  <1>2. IsInjective(lruList)  BY DEF IsInjective
  <1>3. PagePartition  BY DEF PagePartition
  <1>4. PageListsMatchLengths
    BY PagesCover, ZeroBoundary DEF PageListsMatchLengths, EndPos
  <1>5. OffloadedWithinHistory  BY DEF OffloadedWithinHistory
  <1>6. RequestType  BY BoundsAssumption DEF RequestType, Phases, Lengths
  <1>7. RequestSound  BY DEF RequestSound
  <1>8. LruMatches  BY DEF LruMatches, Contains
  <1> QED  BY <1>1, <1>2, <1>3, <1>4, <1>5, <1>6, <1>7, <1>8 DEF Parts, Table

\* Entering allocate() with lengths the host storage can answer.
LEMMA CallAllocateKeeps ==
    ASSUME Parts, CallAllocate PROVE Parts'
  <1>1. PICK b \in Batch, tot \in [User -> Lengths], hit \in [User -> Lengths] :
            /\ \A u \in Range(b) : tot[u] > 0 /\ history[u] <= tot[u]
            /\ \A u \in Range(b) : hit[u] <= history[u]
            /\ AllocateCall(b, tot, hit)
    BY DEF CallAllocate, WithinHistory
  <1>2. PICK n \in 1..MaxBatch : b \in [1..n -> User] /\ IsInjective(b)
    BY BoundsAssumption DEF Batch
  <1>3. b \in Seq(User) /\ Len(b) = n /\ n \in Nat /\ n >= 1
    BY <1>2, BoundsAssumption
  <1>4. /\ phase = "idle" /\ phase' = "reconcile" /\ at' = 1
        /\ batch' = b /\ total' = tot /\ hostHit' = hit
        /\ UNCHANGED <<history, tableVars, offloadVars, kept, cursor, pageIndices>>
    BY <1>1 DEF AllocateCall
  <1>5. Table'  BY <1>4, TableUnchanged DEF Parts, offloadVars
  <1>6. RequestType'
    BY <1>1, <1>3, <1>4 DEF Parts, RequestType, offloadVars, Phases
  <1>7. RequestSound'
    <2>1. \A i \in 1..Len(b) : b[i] \in Range(b)  BY <1>2, <1>3 DEF Range
    <2> QED  BY <2>1, <1>1, <1>2, <1>3, <1>4 DEF RequestSound
  <1>8. LruMatches'
    BY <1>4 DEF Parts, LruMatches, tableVars
  <1> QED  BY <1>5, <1>6, <1>7, <1>8 DEF Parts

\* alloc_single_sequence begins by moving its user to the back.
LEMMA RetainStepKeeps ==
    ASSUME Parts, RetainStep PROVE Parts'
  <1>1. /\ phase = "retain" /\ phase' = "room" /\ cursor' = 1
        /\ lruList' = Append(RemoveFirst(lruList, batch[at]), batch[at])
        /\ UNCHANGED <<history, emptyPages, pageIds, startPos, cachedLen, offloadVars,
                       requestVars, kept, at, pageIndices>>
    BY DEF RetainStep, Retain
  <1>2. batch[at] \in User  BY <1>1 DEF Parts, RequestType, RequestSound
  <1>3. /\ lruList' \in Seq(User) /\ IsInjective(lruList')
        /\ \A v : Contains(lruList', v) <=> Contains(lruList, v) \/ v = batch[at]
    BY <1>1, <1>2, RetainKeeps DEF Parts, Table, TableType
  <1>4. Table'
    BY <1>1, <1>3 DEF Parts, Table, TableType, offloadVars, PagePartition,
                      PageListsMatchLengths, EndPos, OffloadedWithinHistory
  <1>5. RequestType'
    BY <1>1 DEF Parts, RequestType, offloadVars, requestVars, Phases
  <1>6. RequestSound'
    BY <1>1, <1>3 DEF Parts, RequestSound, requestVars
  <1>7. LruMatches'
    BY <1>1, <1>3 DEF Parts, LruMatches, requestVars
  <1> QED  BY <1>4, <1>5, <1>6, <1>7 DEF Parts

\* The first loop of allocate(): evict on a gap, else take the host length.
LEMMA ReconcileKeeps ==
    ASSUME Parts, Reconcile PROVE Parts'
  <1> DEFINE u == batch[at]
  <1>1. /\ phase = "reconcile"
        /\ phase' = IF at = Len(batch) THEN "retain" ELSE "reconcile"
        /\ at' = IF at = Len(batch) THEN 1 ELSE at + 1
        /\ UNCHANGED <<history, offloadLock, requestVars, cursor, pageIndices>>
    BY DEF Reconcile
  <1>2. /\ at \in 1..Len(batch) /\ Len(batch) \in Nat /\ u \in User
        /\ batch \in Seq(User)
    BY <1>1 DEF Parts, RequestType, RequestSound
  <1>3. hostHit[u] \in Nat /\ hostHit[u] <= history[u]
    BY <1>1, <1>2, BoundsAssumption DEF Parts, RequestType, RequestSound, Lengths
  <1>4. at' \in 1..Len(batch)  BY <1>1, <1>2
  <1>5. CASE cachedLen[u] > 0 /\ hostHit[u] < startPos[u]
    <2>1. Evict(u) /\ kept' = [kept EXCEPT ![u] = 0]  BY <1>5 DEF Reconcile
    <2>2. Contains(lruList, u)  BY <1>2, <1>5 DEF Parts, LruMatches
    <2>3. Table' /\ LruLoses(u)
      BY <1>1, <1>2, <2>1, <2>2, EvictKeeps DEF Parts
    <2>4. RequestType'
      <3>1. kept' \in [User -> Nat]  BY <1>2, <2>1 DEF Parts, RequestType
      <3>2. phase' \in Phases /\ at' \in Nat  BY <1>1, <1>4 DEF Phases
      <3> QED  BY <3>1, <3>2, <1>1 DEF Parts, RequestType, requestVars
    <2>5. RequestSound'
      BY <1>1, <1>4 DEF Parts, RequestSound, requestVars
    <2>6. LruMatches'
      <3>1. \A v \in User : cachedLen[v] > 0 <=> Contains(lruList, v)
        BY <1>1 DEF Parts, LruMatches
      <3> QED  BY <3>1, <2>3, <1>2 DEF LruLoses, LruMatches
    <2> QED  BY <2>3, <2>4, <2>5, <2>6 DEF Parts
  <1>6. CASE ~(cachedLen[u] > 0 /\ hostHit[u] < startPos[u])
    <2>1. /\ kept' = [kept EXCEPT ![u] = IF hostHit[u] > EndPos(u) THEN hostHit[u] ELSE EndPos(u)]
          /\ offloadedLen' = [offloadedLen EXCEPT ![u] = hostHit[u]]
          /\ UNCHANGED tableVars
      BY <1>6 DEF Reconcile
    <2>2. EndPos(u) \in Nat
      <3>1. startPos \in [User -> Nat] /\ cachedLen \in [User -> Nat]
        BY DEF Parts, Table, TableType
      <3>2. u \in User  BY <1>2
      <3> HIDE DEF u
      <3>3. startPos[u] \in Nat /\ cachedLen[u] \in Nat  BY <3>1, <3>2
      <3> QED  BY <3>3 DEF EndPos
    <2>3. Table'
      <3>1. /\ offloadedLen' \in [User -> Nat]
            /\ \A v \in User : offloadedLen'[v] <= history[v]
        BY <1>2, <1>3, <2>1 DEF Parts, Table, TableType, OffloadedWithinHistory
      <3> QED  BY <3>1, <1>1, <2>1, TableOffloaded DEF Parts
    <2>4. RequestType'
      <3>1. kept' \in [User -> Nat]  BY <1>2, <1>3, <2>1, <2>2 DEF Parts, RequestType
      <3>2. phase' \in Phases /\ at' \in Nat  BY <1>1, <1>4 DEF Phases
      <3> QED  BY <3>1, <3>2, <1>1 DEF Parts, RequestType, requestVars
    <2>5. RequestSound'
      BY <1>1, <1>4 DEF Parts, RequestSound, requestVars
    <2>6. LruMatches'
      BY <1>1, <2>1 DEF Parts, LruMatches, tableVars
    <2> QED  BY <2>3, <2>4, <2>5, <2>6 DEF Parts
  <1> QED  BY <1>5, <1>6

\* One step of the walk that drops offloaded pages.
LEMMA EvictOffloadedStepKeeps ==
    ASSUME Parts, EvictOffloadedStep PROVE Parts'
  <1> DEFINE u == lruList[cursor]
  <1>1. /\ phase = "room" /\ cursor <= Len(lruList)
        /\ UNCHANGED <<history, offloadLock, requestVars, phase, kept, at, pageIndices>>
    BY DEF EvictOffloadedStep
  <1>2. batch[at] \in User /\ batch[at] \in Range(batch) /\ Contains(lruList, batch[at])
    BY <1>1 DEF Parts, RequestType, RequestSound, Range
  <1>3. ASSUME cursor' \in Nat \ {0} PROVE RequestType'
    BY <1>1, <1>3 DEF Parts, RequestType, requestVars
  <1>4. ASSUME Contains(lruList', batch[at]) PROVE RequestSound'
    BY <1>1, <1>4 DEF Parts, RequestSound, requestVars
  <1>5. CASE ~Evictable(u)
    <2>1. cursor' = cursor + 1 /\ UNCHANGED <<tableVars, offloadedLen>>
      BY <1>5 DEF EvictOffloadedStep
    <2>2. Table'  BY <1>1, <2>1, TableUnchanged DEF Parts
    <2>3. RequestType'  BY <1>3, <2>1 DEF Parts, RequestType
    <2>4. RequestSound'  BY <1>2, <1>4, <2>1 DEF tableVars
    <2>5. LruMatches'  BY <1>1, <2>1 DEF Parts, LruMatches, tableVars, requestVars
    <2> QED  BY <2>2, <2>3, <2>4, <2>5 DEF Parts
  <1>6. CASE Evictable(u)
    <2>1. EvictOffloaded(u) /\ EraseIfEmptied(u)  BY <1>6 DEF EvictOffloadedStep
    <2>2. cursor' \in Nat \ {0} /\ cursor >= 1
      BY <2>1 DEF EraseIfEmptied, Parts, RequestType
    <2>3. u \in User /\ Contains(lruList, u)
      BY <1>1, <2>2 DEF Parts, Table, TableType, RequestType, Contains
    <2>4. u # batch[at]  BY <1>2, <1>6 DEF Evictable, Frozen
    <2>5. cachedLen[u] > 0  BY <2>3, <2>4 DEF Parts, LruMatches
    <2>6. Table' /\ LruLoses(u)
      BY <1>1, <2>1, <2>3, <2>5, EvictOffloadedKeeps DEF Parts
    <2>7. RequestSound'  BY <1>2, <1>4, <2>4, <2>6 DEF LruLoses
    <2>8. LruMatches'
      BY <1>1, <2>3, <2>6 DEF Parts, LruMatches, LruLoses, requestVars
    <2> QED  BY <1>3, <2>2, <2>6, <2>7, <2>8 DEF Parts
  <1> QED  BY <1>5, <1>6

\* One eviction of a whole user.
LEMMA EvictUserStepKeeps ==
    ASSUME Parts, EvictUserStep PROVE Parts'
  <1> DEFINE u == UIdToEvict
  <1>1. /\ phase = "room"
        /\ UNCHANGED <<history, offloadLock, requestVars, kept, at, cursor, pageIndices>>
    BY DEF EvictUserStep
  <1>2. batch[at] \in User /\ Contains(lruList, batch[at])
    BY <1>1 DEF Parts, RequestType, RequestSound
  <1>3. ASSUME phase' \in Phases PROVE RequestType'
    BY <1>1, <1>3 DEF Parts, RequestType, requestVars
  <1>4. CASE phase' = "undefined" /\ UNCHANGED <<tableVars, offloadedLen>>
    <2>1. Table'  BY <1>1, <1>4, TableUnchanged DEF Parts
    <2>2. RequestType'  BY <1>3, <1>4 DEF Phases
    <2>3. RequestSound'  BY <1>1, <1>4 DEF Parts, RequestSound, requestVars
    <2>4. LruMatches'  BY <1>1, <1>4 DEF Parts, LruMatches, tableVars, requestVars
    <2> QED  BY <2>1, <2>2, <2>3, <2>4 DEF Parts
  <1>5. CASE Evict(u) /\ phase' = IF u = batch[at] THEN "undefined" ELSE "room"
    <2> HIDE DEF u
    <2>1. RequestType'  BY <1>3, <1>5 DEF Phases
    <2>2. CASE Contains(lruList, u)
      <3>1. u \in User  BY <2>2 DEF Parts, Table, TableType, Contains
      <3>2. Table' /\ LruLoses(u)  BY <1>1, <1>5, <2>2, <3>1, EvictKeeps DEF Parts
      <3>3. u # batch[at] => Contains(lruList', batch[at])
        BY <1>2, <3>2 DEF LruLoses
      <3>4. RequestSound'
        BY <1>1, <1>5, <3>3 DEF Parts, RequestSound, requestVars
      <3>5. LruMatches'
        BY <1>1, <1>5, <3>1, <3>2 DEF Parts, LruMatches, LruLoses, requestVars
      <3> QED  BY <2>1, <3>2, <3>4, <3>5 DEF Parts
    <2>3. CASE ~Contains(lruList, u)
      <3>1. UNCHANGED <<tableVars, offloadedLen>>  BY <1>5, <2>3 DEF Evict
      <3>2. Table'  BY <1>1, <3>1, TableUnchanged DEF Parts
      <3>3. RequestSound'
        BY <1>1, <1>2, <1>5, <3>1 DEF Parts, RequestSound, requestVars, tableVars
      <3>4. LruMatches'
        BY <1>1, <1>5, <3>1 DEF Parts, LruMatches, requestVars, tableVars
      <3> QED  BY <2>1, <3>2, <3>3, <3>4 DEF Parts
    <2> QED  BY <2>2, <2>3
  <1> QED  BY <1>4, <1>5 DEF EvictUserStep

\* The new page list of the user being served.
LEMMA TakePagesStepKeeps ==
    ASSUME Parts, TakePages PROVE Parts'
  <1> DEFINE u == batch[at]
  <1>1. /\ phase = "room"
        /\ startPos' = [startPos EXCEPT ![u] = 0]
        /\ cachedLen' = [cachedLen EXCEPT ![u] = total[u]]
        /\ history' = [history EXCEPT ![u] = total[u]]
        /\ phase' = IF at = Len(batch) THEN "returned" ELSE "retain"
        /\ at' = IF at = Len(batch) THEN 1 ELSE at + 1
        /\ cursor' = 1
        /\ UNCHANGED <<lruList, offloadVars, requestVars, kept>>
    BY DEF TakePages
  <1>2. PICK take \in Injection(FreshSlots(u), emptyPages) :
            /\ emptyPages' = emptyPages \ {take[i] : i \in FreshSlots(u)}
            /\ pageIds' = [pageIds EXCEPT ![u] = PageList(u, take)]
            /\ pageIndices' = [pageIndices EXCEPT ![u] = PageList(u, take)]
    BY DEF TakePages
  <1>3. /\ at \in 1..Len(batch) /\ Len(batch) \in Nat /\ u \in User
        /\ batch \in Seq(User) /\ Contains(lruList, u)
        /\ total \in [User -> Lengths] /\ hostHit \in [User -> Lengths]
        /\ total[u] > 0 /\ history[u] <= total[u]
    BY <1>1 DEF Parts, RequestType, RequestSound
  <1> HIDE DEF u
  <1>4. Table' /\ PageList(u, take) \in Seq(Page)
    BY <1>1, <1>2, <1>3, TakePagesKeeps DEF Parts, offloadVars
  <1>5. at' \in 1..Len(batch)  BY <1>1, <1>3
  <1>6. RequestType'
    <2>1. pageIndices' \in [User -> Seq(Page)]
      BY <1>2, <1>3, <1>4 DEF Parts, RequestType
    <2>2. phase' \in Phases /\ at' \in Nat /\ cursor' \in Nat \ {0}
      BY <1>1, <1>5 DEF Phases
    <2> QED  BY <2>1, <2>2, <1>1 DEF Parts, RequestType, offloadVars, requestVars
  <1>7. RequestSound'
    <2>1. ASSUME NEW i \in 1..Len(batch)
          PROVE  /\ total[batch[i]] > 0
                 /\ history'[batch[i]] <= total[batch[i]]
                 /\ hostHit[batch[i]] <= history'[batch[i]]
      <3>1. /\ batch[i] \in User /\ total[batch[i]] > 0
            /\ history[batch[i]] <= total[batch[i]]
            /\ hostHit[batch[i]] <= history[batch[i]]
        BY <1>1, <1>3 DEF Parts, RequestSound
      <3>2. /\ total[batch[i]] \in Int /\ history[batch[i]] \in Int /\ hostHit[batch[i]] \in Int
        BY <3>1, <1>3, BoundsAssumption DEF Parts, Table, TableType, Lengths
      <3>3. history'[batch[i]] = IF batch[i] = u THEN total[u] ELSE history[batch[i]]
        <4>1. history \in [User -> Lengths]  BY DEF Parts, Table, TableType
        <4>2. history' = [history EXCEPT ![u] = total[u]]  BY <1>1
        <4> QED  BY <4>1, <4>2, <3>1, <1>3
      <3>4. CASE batch[i] = u  BY <3>1, <3>2, <3>3, <3>4
      <3>5. CASE batch[i] # u  BY <3>1, <3>3, <3>5
      <3> QED  BY <3>4, <3>5
    <2> QED  BY <2>1, <1>1, <1>5 DEF Parts, RequestSound, requestVars
  <1>8. LruMatches'
    BY <1>1, <1>3 DEF Parts, LruMatches, requestVars, Table, TableType, u
  <1> QED  BY <1>4, <1>6, <1>7, <1>8 DEF Parts

\* The end of a request, whatever else of the offload state changed with it.
LEMMA DropRequestKeeps ==
    ASSUME Parts, DropRequest, Table', offloadLock' \in [User -> Nat],
           UNCHANGED <<history, tableVars>>
    PROVE  Parts'
  <1>1. /\ phase \in {"idle", "returned"} /\ phase' = "idle"
        /\ batch' = <<>> /\ total' = Zero /\ hostHit' = Zero /\ kept' = Zero
        /\ at' = 1 /\ cursor' = 1 /\ pageIndices' = NoList
    BY DEF DropRequest
  <1>2. RequestType'
    BY <1>1, BoundsAssumption DEF RequestType, Zero, NoList, Phases, Lengths
  <1>3. RequestSound'  BY <1>1 DEF RequestSound
  <1>4. LruMatches'  BY <1>1 DEF Parts, LruMatches, tableVars
  <1> QED  BY <1>2, <1>3, <1>4 DEF Parts

\* The end of a request.
LEMMA EndRequestKeeps ==
    ASSUME Parts, EndRequest PROVE Parts'
  <1>1. Table'  BY TableUnchanged DEF Parts, EndRequest, offloadVars
  <1> QED  BY <1>1, DropRequestKeeps DEF Parts, RequestType, EndRequest, offloadVars

\* acquire_offload_pages with lengths within the histories.
LEMMA CallAcquireKeeps ==
    ASSUME Parts, CallAcquire PROVE Parts'
  <1>1. PICK users \in SUBSET User, released \in SUBSET User, lens \in [User -> Lengths] :
            /\ \A u \in users : lens[u] <= history[u]
            /\ AcquireOffloadPages(users, lens, released)
    BY DEF CallAcquire, WithinHistory
  <1>2. /\ offloadedLen' = [u \in User |-> IF u \in users THEN lens[u] ELSE offloadedLen[u]]
        /\ offloadLock' = [u \in User |-> IF u \in users \ released
                                          THEN offloadLock[u] + 1 ELSE offloadLock[u]]
        /\ UNCHANGED <<history, tableVars>>
    BY <1>1 DEF AcquireOffloadPages
  <1>3. offloadLock' \in [User -> Nat]  BY <1>2 DEF Parts, RequestType
  <1>4. /\ offloadedLen' \in [User -> Nat]
        /\ \A u \in User : offloadedLen'[u] <= history[u]
    BY <1>1, <1>2, BoundsAssumption
       DEF Parts, Table, TableType, OffloadedWithinHistory, Lengths
  <1>5. Table'  BY <1>2, <1>4, TableOffloaded DEF Parts
  <1> QED  BY <1>2, <1>3, <1>5, DropRequestKeeps DEF CallAcquire

\* release_offload_pages with lengths within the histories.
LEMMA CallReleaseKeeps ==
    ASSUME Parts, CallRelease PROVE Parts'
  <1>1. PICK users \in SUBSET User, done \in SUBSET User, ends \in [User -> Lengths] :
            /\ \A u \in users : ends[u] <= history[u]
            /\ ReleaseOffloadPages(users, done, ends)
    BY DEF CallRelease, WithinHistory
  <1> DEFINE held == {u \in users : Locked(u)}
  <1>2. /\ offloadLock' = [u \in User |-> IF u \in held THEN offloadLock[u] - 1
                                                       ELSE offloadLock[u]]
        /\ offloadedLen' = [u \in User |-> IF u \in held \cap done THEN ends[u]
                                           ELSE offloadedLen[u]]
        /\ UNCHANGED <<history, tableVars>>
    BY <1>1 DEF ReleaseOffloadPages
  <1>3. UNCHANGED requestRest  BY DEF CallRelease
  <1>4. offloadLock' \in [User -> Nat]  BY <1>2 DEF Parts, RequestType, Locked
  <1>5. /\ offloadedLen' \in [User -> Nat]
        /\ \A u \in User : offloadedLen'[u] <= history[u]
    BY <1>1, <1>2, BoundsAssumption
       DEF Parts, Table, TableType, OffloadedWithinHistory, Lengths
  <1>6. Table'  BY <1>2, <1>5, TableOffloaded DEF Parts
  <1>7. RequestType'
    BY <1>3, <1>4 DEF Parts, RequestType, requestRest, requestVars
  <1>8. RequestSound' /\ LruMatches'
    BY <1>2, <1>3 DEF Parts, RequestSound, LruMatches, requestRest, requestVars, tableVars
  <1> QED  BY <1>6, <1>7, <1>8 DEF Parts

\* evict and evict_all between requests.
LEMMA CallEvictKeeps ==
    ASSUME Parts, CallEvict PROVE Parts'
  <1>1. phase = "idle" /\ UNCHANGED <<history, requestRest>>  BY DEF CallEvict
  <1>2. ASSUME offloadLock' \in [User -> Nat] PROVE RequestType' /\ RequestSound'
    BY <1>1, <1>2 DEF Parts, RequestType, RequestSound, requestRest, requestVars
  <1>3. ASSUME NEW u \in User, Evict(u), UNCHANGED offloadLock PROVE Parts'
    <2>1. RequestType' /\ RequestSound'  BY <1>2, <1>3 DEF Parts, RequestType
    <2>2. CASE Contains(lruList, u)
      <3>1. Table' /\ LruLoses(u)  BY <1>1, <1>3, <2>2, EvictKeeps DEF Parts
      <3>2. LruMatches'  BY <1>1, <3>1 DEF Parts, LruMatches, LruLoses
      <3> QED  BY <2>1, <3>1, <3>2 DEF Parts
    <2>3. CASE ~Contains(lruList, u)
      <3>1. UNCHANGED <<tableVars, offloadedLen>>  BY <1>3, <2>3 DEF Evict
      <3>2. Table'  BY <1>1, <3>1, TableUnchanged DEF Parts
      <3>3. LruMatches'  BY <1>1, <3>1 DEF Parts, LruMatches, tableVars
      <3> QED  BY <2>1, <3>2, <3>3 DEF Parts
    <2> QED  BY <2>2, <2>3
  <1>4. CASE EvictAll
    <2> USE DEF Zero, NoList
    <2>1. /\ emptyPages' = Page /\ lruList' = <<>> /\ pageIds' = NoList
          /\ startPos' = Zero /\ cachedLen' = Zero
          /\ offloadedLen' = Zero /\ offloadLock' = Zero
      BY <1>4 DEF EvictAll
    <2>2. TableType'  BY <1>1, <2>1 DEF Parts, Table, TableType
    <2>3. IsInjective(lruList')  BY <2>1 DEF IsInjective
    <2>4. PagePartition'  BY <2>1 DEF PagePartition
    <2>5. PageListsMatchLengths'
      BY <2>1, PagesCover, ZeroBoundary DEF PageListsMatchLengths, EndPos
    <2>6. OffloadedWithinHistory'
      BY <1>1, <2>1, BoundsAssumption
         DEF Parts, Table, TableType, OffloadedWithinHistory, Lengths
    <2>7. LruMatches'  BY <2>1 DEF LruMatches, Contains
    <2>8. RequestType' /\ RequestSound'  BY <1>2, <2>1
    <2> QED  BY <2>2, <2>3, <2>4, <2>5, <2>6, <2>7, <2>8 DEF Parts, Table
  <1> QED  BY <1>3, <1>4 DEF CallEvict
-----------------------------------------------------------------------------
\* Every step of the page table keeps the invariant.
LEMMA NextKeeps ==
    ASSUME Parts, [GPUNext]_gpuVars PROVE Parts'
  <1>1. CASE UNCHANGED gpuVars
    <2>1. Table'  BY <1>1, TableUnchanged DEF Parts, gpuVars, offloadVars
    <2> QED  BY <1>1, <2>1 DEF Parts, RequestType, RequestSound, LruMatches, gpuVars,
                               tableVars, offloadVars, requestVars
  <1>2. CASE GPUNext
    BY <1>2, CallAllocateKeeps, ReconcileKeeps, RetainStepKeeps, EvictOffloadedStepKeeps,
       EvictUserStepKeeps, TakePagesStepKeeps, EndRequestKeeps, CallAcquireKeeps,
       CallReleaseKeeps, CallEvictKeeps DEF GPUNext
  <1> QED  BY <1>1, <1>2

\* The inductive invariant holds of every behaviour of the page table.
THEOREM GPUInvariant == GPUSpec => []GPUInv
  <1>1. GPUInit => GPUInv  BY InitParts, PartsOfInv
  <1>2. GPUInv /\ [GPUNext]_gpuVars => GPUInv'
    <2> SUFFICES ASSUME GPUInv, [GPUNext]_gpuVars PROVE GPUInv'  OBVIOUS
    <2>1. Parts  BY PartsOfInv
    <2>2. Parts'  BY <2>1, NextKeeps
    <2> QED  BY <2>2 DEF GPUInv, Parts, GPUTypeOK, Table, TableType, RequestType, LruMatches,
                         LruListsCachedUsers
  <1> QED  BY <1>1, <1>2, PTL DEF GPUSpec

\* The state of the page table is well typed.
THEOREM GPUTypeCorrect == GPUSpec => []GPUTypeOK
  <1>1. GPUInv => GPUTypeOK  BY DEF GPUInv
  <1> QED  BY <1>1, GPUInvariant, PTL

\* No page is lost and none is given twice, whatever is evicted while a
\* request looks for room (gpu_kvcache_manager_impl.cpp, 120-284).
THEOREM PagesPartitioned == GPUSpec => []PagePartition
  <1>1. GPUInv => PagePartition  BY DEF GPUInv
  <1> QED  BY <1>1, GPUInvariant, PTL

\* The page lists always have the pages the cached lengths need, so the reads
\* of alloc_single_sequence and evict_offloaded stay inside them.
THEOREM PageListsMatch == GPUSpec => []PageListsMatchLengths
  <1>1. GPUInv => PageListsMatchLengths  BY DEF GPUInv
  <1> QED  BY <1>1, GPUInvariant, PTL

\* Whatever holds pages is in _lru_list, so it can be evicted.
THEOREM LruComplete == GPUSpec => []LruListsCachedUsers
  <1>1. GPUInv => LruListsCachedUsers  BY DEF GPUInv
  <1> QED  BY <1>1, GPUInvariant, PTL

\* What is said to be offloaded never exceeds the history, so evict_offloaded
\* drops no more pages than the list has (lines 140-160).
THEOREM OffloadedWithin == GPUSpec => []OffloadedWithinHistory
  <1>1. GPUInv => OffloadedWithinHistory  BY DEF GPUInv
  <1> QED  BY <1>1, GPUInvariant, PTL
=============================================================================
