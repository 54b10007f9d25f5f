------------------------ MODULE KVCacheManagerProofs ------------------------
(***************************************************************************)
(* The KV cache as a whole.  The request flow and the host tier drive the  *)
(* page table only as GPUKVCache allows, so that what is proved of the     *)
(* page table holds of every behaviour of the system.  The two sides of a  *)
(* request agree on the tokens appended; no chunk of the host tier is lost *)
(* or given twice; a user is locked exactly while an offload carries it,   *)
(* and the pages that offload reads stay in its list.  Last, the history:  *)
(* what the host tier promises of a user, and what a request reads back    *)
(* through the page table, are the user's own tokens in their order.       *)
(***************************************************************************)
EXTENDS KVCacheManager, GPUKVCacheProofs, SequenceLemmas

(***************************************************************************)
(* check_for_offload.                                                      *)
(***************************************************************************)
\* A value defined by recursion stays in S when each step does.
LEMMA StaysIn ==
  ASSUME NEW S, NEW n \in Nat, NEW a, a[0] \in S, \A i \in 1..n : a[i-1] \in S => a[i] \in S
  PROVE  \A i \in 0..n : a[i] \in S
<1> DEFINE T == {i \in 0..n : a[i] \in S}
<1>1. 0 \in T /\ \A i \in 1..n : i - 1 \in T => i \in T
  OBVIOUS
<1> HIDE DEF T
<1>2. 0..n \subseteq T
  BY <1>1, UpTo
<1> QED BY <1>2 DEF T

\* The walk of check_for_offload ends with a list of users.
LEMMA CheckUsers ==
  ASSUME GPUTypeOK, NEW users \in Seq(User)
  PROVE  CheckForOffload(users) \in Seq(User)
<1> DEFINE m == Len(users)
           n == Len(lruList)
           Wanting == {u \in User : Pending(u) >= ChunkSize}
           first == Only(users, Wanting)
           PagesOf(u) == Pending(u) \div PageSize
           DP(h) == [i \in 0..Len(users) |-> IF i = 0 THEN 0
                                             ELSE h[i - 1] + Pending(users[i]) \div PageSize]
           p == CHOOSE h : h = DP(h)
           Stop(k) == LET s == totalOffloaded + k + Cardinality(emptyPages)
                      IN  s < 0 \/ s > BufferPages
           Visit(acc, u) ==
              LET k == acc.pages + Pending(u) \div PageSize
              IN  IF acc.stop \/ Stop(acc.pages) THEN [acc EXCEPT !.stop = TRUE]
                  ELSE IF Contains(first, u) \/ offloadedLen[u] < startPos[u]
                            \/ Pending(u) < ChunkSize THEN acc
                  ELSE IF k > MaxOffloadPages THEN [acc EXCEPT !.stop = TRUE]
                  ELSE [acc EXCEPT !.pages = k, !.users = Append(@, u)]
           W0 == [stop |-> FALSE, pages |-> p[Len(users)], users |-> first]
           DW(h) == [i \in 0..Len(lruList) |-> IF i = 0 THEN W0 ELSE Visit(h[i - 1], lruList[i])]
           w == CHOOSE h : h = DW(h)
           S == [stop : BOOLEAN, pages : Int, users : Seq(User)]
           gp == [i \in 1..m |-> [z \in Int |-> z + PagesOf(users[i])]]
           gw == [i \in 1..n |-> [z \in S |-> Visit(z, lruList[i])]]
<1>1. CheckForOffload(users) = w[n].users
  BY DEF CheckForOffload
<1>2. /\ m \in Nat /\ n \in Nat
      /\ \A i \in 1..m : users[i] \in User
      /\ \A i \in 1..n : lruList[i] \in User
  BY DEF GPUTypeOK
<1>3. \A u \in User : PagesOf(u) \in Int
  <2>1. \A u \in User : Pending(u) \in Int
    BY DEF GPUTypeOK, Pending, EndPos
  <2> QED BY <2>1, DivPageSize
<1>4. first \in Seq(User)
  BY OnlyProps
<1>5. \A i \in 1..m : gp[i] \in [Int -> Int]
  <2> HIDE DEF PagesOf, m
  <2> QED BY <1>2, <1>3
<1>6. PICK f : f \in [0..m -> Int] /\ Iterates(f, gp, 0, m)
  <2>1. 0 \in Int
    OBVIOUS
  <2> HIDE DEF gp, m
  <2> QED BY <1>2, <1>5, <2>1, Recursion
<1>7. f[0] = 0
  BY <1>6 DEF Iterates
<1>8. ASSUME NEW i \in 1..m PROVE f[i] = f[i-1] + PagesOf(users[i])
  <2>1. f[i-1] \in Int
    <3>1. i - 1 \in 0..m
      BY <1>2
    <3> HIDE DEF m
    <3> QED BY <3>1, <1>6
  <2>2. gp[i] = [z \in Int |-> z + PagesOf(users[i])]
    OBVIOUS
  <2>3. f[i] = gp[i][f[i-1]]
    <3> HIDE DEF gp
    <3> QED BY <1>6 DEF Iterates
  <2> HIDE DEF gp, PagesOf
  <2> QED BY <2>1, <2>2, <2>3
<1> HIDE DEF gp
<1>9. f = DP(f)
  <2>1. ASSUME NEW i \in 0..m PROVE f[i] = DP(f)[i]
    <3>1. CASE i = 0
      BY <3>1, <1>7
    <3>2. CASE i # 0
      <4>1. i \in 1..m
        BY <3>2
      <4> QED BY <4>1, <1>8, <3>2
    <3> QED BY <3>1, <3>2
  <2>2. f = [i \in 0..m |-> f[i]]
    BY <1>6
  <2>3. DP(f) = [i \in 0..m |-> DP(f)[i]]
    OBVIOUS
  <2> HIDE DEF DP
  <2> QED BY <2>1, <2>2, <2>3
<1>10. p = DP(p)
  BY <1>9
<1> HIDE DEF p
<1>11. p[m] \in Int
  <2>1. p[0] \in Int
    BY <1>2, <1>10
  <2>2. \A i \in 1..m : p[i-1] \in Int => p[i] \in Int
    <3> SUFFICES ASSUME NEW i \in 1..m, p[i-1] \in Int PROVE p[i] \in Int
      OBVIOUS
    <3>1. p[i] = DP(p)[i]
      BY <1>10
    <3>2. DP(p)[i] = p[i-1] + PagesOf(users[i])
      OBVIOUS
    <3>3. users[i] \in User
      BY <1>2
    <3>4. PagesOf(users[i]) \in Int
      <4> HIDE DEF PagesOf
      <4> QED BY <1>3, <3>3
    <3> HIDE DEF DP, PagesOf
    <3> QED BY <3>1, <3>2, <3>4
  <2>3. m \in 0..m
    BY <1>2
  <2> HIDE DEF DP, m
  <2> QED BY <1>2, <2>1, <2>2, <2>3, StaysIn
<1> HIDE DEF DP
<1>12. W0 \in S
  BY <1>4, <1>11
<1>13. ASSUME NEW z \in S, NEW u \in User PROVE Visit(z, u) \in S
  <2>1. z.stop \in BOOLEAN /\ z.pages \in Int /\ z.users \in Seq(User)
    OBVIOUS
  <2>2. [z EXCEPT !.stop = TRUE] \in S
    OBVIOUS
  <2>3. Append(z.users, u) \in Seq(User) /\ z.pages + PagesOf(u) \in Int
    <3> HIDE DEF PagesOf
    <3> QED BY <1>3, <2>1
  <2>4. [z EXCEPT !.pages = z.pages + PagesOf(u), !.users = Append(z.users, u)] \in S
    <3> HIDE DEF PagesOf
    <3> QED BY <2>1, <2>3
  <2> DEFINE k == z.pages + PagesOf(u)
             z1 == [z EXCEPT !.stop = TRUE]
             z2 == [z EXCEPT !.pages = k, !.users = Append(z.users, u)]
  <2>5. Visit(z, u) = IF z.stop \/ Stop(z.pages) THEN z1
                      ELSE IF Contains(first, u) \/ offloadedLen[u] < startPos[u]
                                \/ Pending(u) < ChunkSize THEN z
                      ELSE IF k > MaxOffloadPages THEN z1
                      ELSE z2
    OBVIOUS
  <2>6. z1 \in S /\ z2 \in S
    BY <2>2, <2>4
  <2> HIDE DEF Visit, k, z1, z2, Stop, S, first
  <2> QED BY <2>5, <2>6
<1> HIDE DEF Visit, W0, S
<1>14. \A i \in 1..n : gw[i] \in [S -> S]
  <2> HIDE DEF n
  <2> QED BY <1>2, <1>13
<1>15. PICK v : v \in [0..n -> S] /\ Iterates(v, gw, W0, n)
  <2> HIDE DEF gw, n
  <2> QED BY <1>2, <1>12, <1>14, Recursion
<1>16. v[0] = W0
  BY <1>15 DEF Iterates
<1>17. ASSUME NEW i \in 1..n PROVE v[i] = Visit(v[i-1], lruList[i])
  <2>1. v[i-1] \in S
    <3>1. i - 1 \in 0..n
      BY <1>2
    <3> HIDE DEF n
    <3> QED BY <3>1, <1>15
  <2>2. gw[i] = [z \in S |-> Visit(z, lruList[i])]
    OBVIOUS
  <2>3. v[i] = gw[i][v[i-1]]
    <3> HIDE DEF gw
    <3> QED BY <1>15 DEF Iterates
  <2> HIDE DEF gw
  <2> QED BY <2>1, <2>2, <2>3
<1> HIDE DEF gw
<1>18. v = DW(v)
  <2>1. ASSUME NEW i \in 0..n PROVE v[i] = DW(v)[i]
    <3>1. CASE i = 0
      BY <3>1, <1>16
    <3>2. CASE i # 0
      <4>1. i \in 1..n
        BY <3>2
      <4> QED BY <4>1, <1>17, <3>2
    <3> QED BY <3>1, <3>2
  <2>2. v = [i \in 0..n |-> v[i]]
    BY <1>15
  <2>3. DW(v) = [i \in 0..n |-> DW(v)[i]]
    OBVIOUS
  <2> HIDE DEF DW
  <2> QED BY <2>1, <2>2, <2>3
<1>19. w = DW(w)
  BY <1>18
<1> HIDE DEF w
<1>20. w[n] \in S
  <2>1. w[0] \in S
    BY <1>2, <1>12, <1>19
  <2>2. \A i \in 1..n : w[i-1] \in S => w[i] \in S
    <3> SUFFICES ASSUME NEW i \in 1..n, w[i-1] \in S PROVE w[i] \in S
      OBVIOUS
    <3>1. w[i] = DW(w)[i]
      BY <1>19
    <3>2. DW(w)[i] = Visit(w[i-1], lruList[i])
      OBVIOUS
    <3> HIDE DEF DW
    <3> QED BY <3>1, <3>2, <1>2, <1>13
  <2>3. n \in 0..n
    BY <1>2
  <2> HIDE DEF DW, n
  <2> QED BY <1>2, <2>1, <2>2, <2>3, StaysIn
<1>21. \A z \in S : z.users \in Seq(User)
  BY DEF S
<1> HIDE DEF n
<1> QED BY <1>1, <1>20, <1>21

-----------------------------------------------------------------------------
(***************************************************************************)
(* The invariant of the composition.                                       *)
(***************************************************************************)
IsSeq(q) == \E X : q \in Seq(X)

\* A launched offload ends within the history H of each user, and has fresh
\* chunks for its own users only.
HandleOK(h, H) ==
    /\ h.users \in Seq(User)
    /\ h.fresh \in [User -> Seq(Chunk)]
    /\ \A u \in User : u \notin Range(h.users) => h.fresh[u] = <<>>
    /\ \A u \in User : /\ h.start[u] \in Nat /\ Len(h.pages[u]) \in Nat
                       /\ OffloadEnd(h, u) <= H[u]

HandlesOK(q, H) == IsSeq(q) /\ \A i \in 1..Len(q) : HandleOK(q[i], H)

\* What the request was told when it was looked up still holds when it is allocated.
LookupOK(k, H) ==
    /\ k.batch \in Batch
    /\ k.total \in [User -> Lengths] /\ k.hostLen \in [User -> Lengths]
    /\ \A u \in User : k.hostLen[u] <= H[u]
    /\ \A i \in DOMAIN k.batch : k.total[k.batch[i]] > 0 /\ H[k.batch[i]] <= k.total[k.batch[i]]

\* Where the inference thread is in its request tells where it is in allocate().
FlowOK ==
    /\ ret \in {"idle", "allocate", "offload", "flush"}
    /\ \/ pc \in {"idle", "allocate"} /\ phase = "idle"
       \/ pc = "allocating" /\ phase \in {"reconcile", "retain", "room", "undefined"}
       \/ pc \in {"onboard", "forward", "offload"} /\ phase = "returned"
       \/ pc = "poll" /\ ret = "offload" /\ phase = "returned"
       \/ pc = "poll" /\ ret # "offload" /\ phase = "idle"

HostOK ==
    /\ hostLen \in [User -> Nat]
    /\ \A u \in User : hostLen[u] <= history[u]

TasksOK == polled \in Nat \ {0} /\ HandlesOK(ongoing, history) /\ HandlesOK(remain, history)

LookedUp == pc = "allocate" \/ (pc = "poll" /\ ret = "allocate") => LookupOK(lookup, history)

CacheInv == Parts /\ FlowOK /\ HostOK /\ TasksOK /\ LookedUp
-----------------------------------------------------------------------------
(***************************************************************************)
(* Sequences of handles.                                                   *)
(***************************************************************************)
\* A handle joins a list of handles.
LEMMA HandleJoins ==
  ASSUME NEW q, NEW H, HandlesOK(q, H), NEW h, HandleOK(h, H)
  PROVE  HandlesOK(Append(q, h), H)
<1>1. PICK X : q \in Seq(X)
  BY DEF HandlesOK, IsSeq
<1> DEFINE Y == X \cup {h}
           a == Append(q, h)
<1>2. q \in Seq(Y) /\ h \in Y
  BY <1>1
<1> HIDE DEF Y
<1>3. /\ a \in Seq(Y) /\ Len(a) = Len(q) + 1 /\ Len(q) \in Nat
      /\ \A i \in 1..Len(q) : a[i] = q[i]
      /\ a[Len(q) + 1] = h
  BY <1>2, AppendProperties
<1> HIDE DEF a
<1>4. ASSUME NEW i \in 1..Len(a) PROVE HandleOK(a[i], H)
  <2>1. i \in 1..Len(q) \/ i = Len(q) + 1
    BY <1>3
  <2> QED BY <2>1, <1>3 DEF HandlesOK
<1>5. HandlesOK(a, H)
  BY <1>3, <1>4 DEF HandlesOK, IsSeq
<1> QED BY <1>5 DEF a

\* Histories only grow, so handles stay within them.
LEMMA HandlesStay ==
  ASSUME NEW q, NEW G \in [User -> Nat], NEW H \in [User -> Nat], \A u \in User : G[u] <= H[u],
         HandlesOK(q, G), PageSize \in Nat
  PROVE  HandlesOK(q, H)
<1>1. ASSUME NEW h, HandleOK(h, G) PROVE HandleOK(h, H)
  <2>1. ASSUME NEW u \in User PROVE OffloadEnd(h, u) <= H[u]
    <3>1. OffloadEnd(h, u) <= G[u] /\ G[u] <= H[u] /\ G[u] \in Nat /\ H[u] \in Nat
      BY <1>1 DEF HandleOK
    <3>2. OffloadEnd(h, u) \in Int
      BY <1>1 DEF HandleOK, OffloadEnd
    <3> QED BY <3>1, <3>2
  <2> QED BY <1>1, <2>1 DEF HandleOK
<1> QED BY <1>1 DEF HandlesOK

\* The empty list of handles.
LEMMA NoHandles ==
  ASSUME NEW H
  PROVE  HandlesOK(<<>>, H)
<1>1. <<>> \in Seq({}) /\ Len(<<>>) = 0
  OBVIOUS
<1> QED BY <1>1 DEF HandlesOK, IsSeq

\* The handle of an offload has typed ends.
LEMMA HandleEnds ==
  ASSUME NEW h, NEW H \in [User -> Nat], HandleOK(h, H), NEW u \in User
  PROVE  /\ OffloadEnd(h, u) \in Nat /\ OffloadEnd(h, u) <= H[u]
         /\ h.start[u] \in Nat /\ h.start[u] <= OffloadEnd(h, u)
<1>1. h.start[u] \in Nat /\ Len(h.pages[u]) \in Nat /\ OffloadEnd(h, u) <= H[u] /\ PageSize \in Nat
  BY PageSizeAssumption DEF HandleOK
<1>2. Len(h.pages[u]) * PageSize \in Nat
  BY <1>1
<1> QED BY <1>1, <1>2, SMTT(30) DEF OffloadEnd
-----------------------------------------------------------------------------
(***************************************************************************)
(* Every step of the system is a step of the page table, or leaves it alone. *)
(***************************************************************************)
\* lookup_kvcache.
LEMMA LookupMaps ==
  ASSUME CacheInv, NEW b \in Batch, NEW tot \in [User -> Lengths], Lookup(b, tot)
  PROVE  UNCHANGED gpuVars
BY DEF Lookup

\* allocate() is called with what was looked up.
LEMMA AllocateMaps ==
  ASSUME CacheInv, Allocate
  PROVE  CallAllocate
<1>1. pc = "allocate" /\ AllocateCall(lookup.batch, lookup.total, lookup.hostLen)
  BY DEF Allocate
<1>2. LookupOK(lookup, history) /\ phase = "idle"
  BY <1>1 DEF CacheInv, LookedUp, FlowOK
<1>3. phase' = "reconcile"
  BY <1>1 DEF AllocateCall
<1> DEFINE b == lookup.batch
           t == lookup.total
           n == lookup.hostLen
<1>4. /\ b \in Batch /\ t \in [User -> Lengths] /\ n \in [User -> Lengths]
      /\ \A u \in User : n[u] <= history[u]
      /\ \A i \in DOMAIN b : t[b[i]] > 0 /\ history[b[i]] <= t[b[i]]
  BY <1>2 DEF LookupOK
<1>5. AllocateCall(b, t, n)
  BY <1>1
<1> HIDE DEF b, t, n
<1>6. \A i \in DOMAIN b : b[i] \in User
  BY <1>4 DEF Batch
<1>7. \A u \in Range(b) : t[u] > 0 /\ history[u] <= t[u]
  BY <1>4 DEF Range
<1>8. WithinHistory(Range(b), n)
  BY <1>4, <1>6 DEF WithinHistory, Range
<1> QED BY <1>2, <1>3, <1>4, <1>5, <1>7, <1>8 DEF CallAllocate

\* The handle that offload_try_wait looks at.
LEMMA PolledTask ==
  ASSUME CacheInv, Polling
  PROVE  /\ HandleOK(Task, history) /\ history \in [User -> Nat]
         /\ polled \in Nat
<1>1. history \in [User -> Nat]
  BY BoundsAssumption DEF CacheInv, Parts, Table, TableType, Lengths
<1>2. polled \in Nat \ {0} /\ polled <= Len(ongoing)
  BY DEF CacheInv, TasksOK, Polling
<1>3. PICK X : ongoing \in Seq(X)
  BY DEF CacheInv, TasksOK, HandlesOK, IsSeq
<1>4. polled \in 1..Len(ongoing)
  BY <1>2, <1>3
<1> QED BY <1>1, <1>2, <1>4 DEF CacheInv, TasksOK, HandlesOK, Task

\* finish_task and cancel_task release pages within the histories.
LEMMA SettleMaps ==
  ASSUME CacheInv, Polling, NEW done, done \subseteq HandleUsers(Task), Settle(Task, done)
  PROVE  CallRelease
<1> DEFINE h == Task
           users == HandleUsers(h)
           ends == [u \in User |-> OffloadEnd(h, u)]
<1>1. ReleaseOffloadPages(users, done, ends) /\ UNCHANGED requestRest
  BY DEF Settle
<1>2. HandleOK(h, history) /\ history \in [User -> Nat]
  BY PolledTask
<1>3. history \in [User -> Lengths]
  BY DEF CacheInv, Parts, Table, TableType
<1>4. users \in SUBSET User
  BY <1>2 DEF HandleOK, HandleUsers, Range
<1>5. done \in SUBSET User
  BY <1>4
<1>6. ASSUME NEW u \in User PROVE ends[u] \in Lengths /\ ends[u] <= history[u]
  <2>1. OffloadEnd(h, u) \in Nat /\ OffloadEnd(h, u) <= history[u]
    BY <1>2, HandleEnds
  <2>2. history[u] \in 0..MaxHistory /\ MaxHistory \in Nat
    BY <1>3, BoundsAssumption DEF Lengths
  <2> HIDE DEF h
  <2> QED BY <2>1, <2>2 DEF Lengths
<1>7. ends \in [User -> Lengths]
  BY <1>6
<1>8. Quiet
  BY DEF CacheInv, FlowOK, Polling, Quiet
<1> HIDE DEF ends, users, h
<1>9. WithinHistory(users, ends)
  BY <1>4, <1>6 DEF WithinHistory
<1> QED BY <1>1, <1>4, <1>5, <1>7, <1>8, <1>9 DEF CallRelease

\* offload_launch acquires pages up to what the host holds.
LEMMA OffloadLaunchMaps ==
  ASSUME CacheInv, OffloadLaunch
  PROVE  CallAcquire
<1> DEFINE check == CheckForOffload(batch)
           users == Only(check, {u \in User : Acquires(u, hostLen)})
<1>1. /\ DropRequest /\ pc = "offload"
      /\ \E r : AcquireOffloadPages(Range(check), hostLen, r) /\ r \in {{}, Range(users)}
  BY DEF OffloadLaunch
<1>2. Quiet
  BY <1>1 DEF CacheInv, FlowOK, Quiet
<1>3. GPUTypeOK /\ batch \in Seq(User)
  BY PartsOfInv DEF CacheInv, GPUInv, GPUTypeOK
<1>4. check \in Seq(User)
  BY <1>3, CheckUsers
<1> HIDE DEF check
<1>5. users \in Seq(User)
  BY <1>4, OnlyProps
<1> HIDE DEF users
<1>6. Range(check) \in SUBSET User /\ Range(users) \in SUBSET User
  BY <1>4, <1>5 DEF Range
<1>7. ASSUME NEW u \in User PROVE hostLen[u] \in Lengths /\ hostLen[u] <= history[u]
  <2>1. /\ hostLen[u] \in Nat /\ hostLen[u] <= history[u]
        /\ history[u] \in 0..MaxHistory /\ MaxHistory \in Nat
    BY BoundsAssumption DEF CacheInv, HostOK, Parts, Table, TableType, Lengths
  <2> QED BY <2>1 DEF Lengths
<1>8. hostLen \in [User -> Lengths]
  BY <1>7 DEF CacheInv, HostOK
<1>9. WithinHistory(Range(check), hostLen)
  BY <1>6, <1>7 DEF WithinHistory
<1>10. PICK r \in SUBSET User : AcquireOffloadPages(Range(check), hostLen, r)
  BY <1>1, <1>6
<1> QED BY <1>1, <1>2, <1>6, <1>8, <1>9, <1>10 DEF CallAcquire

\* Nothing but TakePages changes a history, and it extends one.
LEMMA HistoryGrows ==
  ASSUME Parts, [GPUNext]_gpuVars
  PROVE  \A u \in User : history'[u] >= history[u]
<1>0. history \in [User -> Nat] /\ total \in [User -> Nat]
  BY BoundsAssumption DEF Parts, Table, TableType, RequestType, Lengths
<1>1. CASE UNCHANGED history
  BY <1>0, <1>1
<1>2. CASE TakePages
  <2>1. /\ history' = [history EXCEPT ![batch[at]] = total[batch[at]]] /\ phase = "room"
    BY <1>2 DEF TakePages
  <2>2. at \in 1..Len(batch) /\ history[batch[at]] <= total[batch[at]] /\ batch[at] \in User
    BY <2>1 DEF Parts, RequestSound, RequestType
  <2> QED BY <1>0, <2>1, <2>2
<1>3. CASE UNCHANGED gpuVars
  BY <1>1, <1>3 DEF gpuVars
<1>4. ASSUME GPUNext, ~TakePages PROVE UNCHANGED history
  BY <1>4 DEF GPUNext, CallAllocate, AllocateCall, Reconcile, RetainStep, EvictOffloadedStep,
     EvictUserStep, EndRequest, CallAcquire, AcquireOffloadPages, CallRelease,
     ReleaseOffloadPages, CallEvict
<1> QED BY <1>1, <1>2, <1>3, <1>4

\* Every step of the system maps to a step of the page table.
LEMMA StepMaps ==
  ASSUME CacheInv, [Next]_vars
  PROVE  [GPUNext]_gpuVars
<1>1. CASE UNCHANGED vars
  BY <1>1 DEF vars
<1>2. ASSUME NEW b \in Batch, NEW tot \in [User -> Lengths], Lookup(b, tot) PROVE [GPUNext]_gpuVars
  BY <1>2, LookupMaps
<1>3. CASE ThreadStep
  <2>1. CASE Allocate
    BY <2>1, AllocateMaps DEF GPUNext
  <2>2. CASE AllocateStep
    BY <2>2 DEF AllocateStep, GPUNext
  <2>3. CASE Onboard \/ Forward \/ PollLaunched \/ PollReturn
    BY <2>3 DEF Onboard, Forward, PollLaunched, PollReturn
  <2>4. CASE OffloadLaunch
    BY <2>4, OffloadLaunchMaps DEF GPUNext
  <2>5. CASE PollReady
    <3>1. Polling /\ Settle(Task, FinishedUsers(Task))
      BY <2>5 DEF PollReady
    <3>2. FinishedUsers(Task) \subseteq HandleUsers(Task)
      BY DEF FinishedUsers
    <3> QED BY <3>1, <3>2, SettleMaps DEF GPUNext
  <2>6. CASE PollTimeout
    <3>1. Polling /\ Settle(Task, {}) /\ {} \subseteq HandleUsers(Task)
      BY <2>6 DEF PollTimeout
    <3> QED BY <3>1, SettleMaps DEF GPUNext
  <2>7. CASE PollRaise
    BY <2>7 DEF PollRaise, EndRequest, GPUNext
  <2> QED BY <1>3, <2>1, <2>2, <2>3, <2>4, <2>5, <2>6, <2>7 DEF ThreadStep
<1>4. CASE OffloadFlush \/ OffloadCopy \/ ClientEvictAllHost \/ Crashed \/ \E u \in User : ClientEvictHost(u)
  BY <1>4 DEF OffloadFlush, OffloadCopy, ClientEvictAllHost, Crashed, ClientEvictHost, vars
<1>5. CASE ClientEvictAllGPU \/ \E u \in User : ClientEvictGPU(u)
  <2>1. phase = "idle"
    BY <1>5 DEF ClientEvictAllGPU, ClientEvictGPU, ClientQuiet, CacheInv, FlowOK
  <2>2. CallEvict
    BY <1>5, <2>1 DEF ClientEvictAllGPU, ClientEvictGPU, CallEvict
  <2> QED BY <2>2 DEF GPUNext
<1> QED BY <1>1, <1>2, <1>3, <1>4, <1>5 DEF Next

-----------------------------------------------------------------------------
(***************************************************************************)
(* The invariant is kept.                                                  *)
(***************************************************************************)
\* The lengths of the host and of the histories.
LEMMA LengthTypes ==
  ASSUME CacheInv
  PROVE  /\ history \in [User -> Nat] /\ hostLen \in [User -> Nat]
         /\ \A u \in User : hostLen[u] <= history[u] /\ hostLen[u] \in Lengths
<1>1. history \in [User -> 0..MaxHistory] /\ MaxHistory \in Nat
  BY BoundsAssumption DEF CacheInv, Parts, Table, TableType, Lengths
<1>2. hostLen \in [User -> Nat] /\ \A u \in User : hostLen[u] <= history[u]
  BY DEF CacheInv, HostOK
<1> QED BY <1>1, <1>2 DEF Lengths

\* The thread moves on as FlowOK says.
LEMMA FlowStep ==
  ASSUME CacheInv, [Next]_vars
  PROVE  FlowOK'
<1>0. FlowOK
  BY DEF CacheInv
<1>1. CASE UNCHANGED <<pc, ret, phase>>
  BY <1>0, <1>1 DEF FlowOK
<1>2. ASSUME NEW b \in Batch, NEW tot \in [User -> Lengths], Lookup(b, tot) PROVE FlowOK'
  <2>1. /\ pc = "idle" /\ phase' = phase
        /\ \/ pc' = "allocate" /\ ret' = ret
           \/ pc' = "poll" /\ ret' = "allocate"
    BY <1>2 DEF Lookup, gpuVars
  <2> QED BY <1>0, <2>1 DEF FlowOK
<1>3. CASE Allocate
  BY <1>0, <1>3 DEF Allocate, AllocateCall, FlowOK
<1>4. CASE AllocateStep
  <2>1. /\ pc = "allocating" /\ ret' = ret
        /\ pc' = IF phase' = "returned" THEN "onboard" ELSE "allocating"
    BY <1>4 DEF AllocateStep
  <2>2. phase' \in {"reconcile", "retain", "room", "undefined", "returned"}
    BY <1>4 DEF AllocateStep, Reconcile, RetainStep, EvictOffloadedStep, EvictUserStep, TakePages
  <2> QED BY <1>0, <2>1, <2>2 DEF FlowOK
<1>5. CASE Onboard \/ Forward
  BY <1>0, <1>5 DEF Onboard, Forward, FlowOK, gpuVars
<1>6. CASE PollReady \/ PollTimeout \/ PollLaunched
  <2>1. UNCHANGED <<pc, ret, phase>>
    BY <1>6 DEF PollReady, PollTimeout, PollLaunched, Settle, requestRest, gpuVars
  <2> QED BY <1>1, <2>1
<1>7. CASE PollRaise
  BY <1>7 DEF PollRaise, DropRequest, FlowOK
<1>8. CASE PollReturn
  <2>1. /\ pc = "poll" /\ phase' = phase
        /\ \/ UNCHANGED <<pc, ret>>
           \/ pc' = (IF ret = "flush" THEN "idle" ELSE ret) /\ ret' = "idle"
    BY <1>8 DEF PollReturn, gpuVars
  <2> QED BY <1>0, <1>1, <2>1 DEF FlowOK
<1>9. CASE OffloadFlush
  <2>1. pc = "idle" /\ pc' = "poll" /\ ret' \in {"flush", "idle"} /\ phase' = phase
    BY <1>9 DEF OffloadFlush, gpuVars
  <2> QED BY <1>0, <2>1 DEF FlowOK
<1>10. CASE OffloadLaunch
  BY <1>0, <1>10 DEF OffloadLaunch, DropRequest, FlowOK
<1>11. CASE OffloadCopy \/ ClientEvictAllHost \/ \E u \in User : ClientEvictHost(u)
  BY <1>1, <1>11 DEF OffloadCopy, ClientEvictAllHost, ClientEvictHost, gpuVars
<1>12. CASE ClientEvictAllGPU \/ \E u \in User : ClientEvictGPU(u)
  BY <1>1, <1>12 DEF ClientEvictAllGPU, ClientEvictGPU, requestRest
<1>13. CASE Crashed \/ UNCHANGED vars
  BY <1>1, <1>13 DEF Crashed, vars, gpuVars
<1> QED BY <1>2, <1>3, <1>4, <1>5, <1>6, <1>7, <1>8, <1>9, <1>10, <1>11, <1>12, <1>13
     DEF Next, ThreadStep

\* What was looked up is there until it is used.
LEMMA LookedUpStep ==
  ASSUME CacheInv, [Next]_vars
  PROVE  LookedUp'
<1>0. LookedUp
  BY DEF CacheInv
<1>1. CASE UNCHANGED <<pc, ret, lookup, history>>
  BY <1>0, <1>1 DEF LookedUp
<1>2. ASSUME NEW b \in Batch, NEW tot \in [User -> Lengths], Lookup(b, tot) PROVE LookedUp'
  <2> DEFINE n == Of(Range(b), hostLen)
             k == [batch |-> b, total |-> tot, gpuStart |-> Of(Range(b), startPos),
                   gpuLen |-> Of(Range(b), cachedLen), hostLen |-> n]
  <2>1. /\ lookup' = k /\ history' = history
        /\ \A i \in DOMAIN b : tot[b[i]] > 0 /\ history[b[i]] <= tot[b[i]]
    BY <1>2 DEF Lookup, gpuVars
  <2>2. n \in [User -> Lengths] /\ \A u \in User : n[u] <= history[u]
    <3>1. 0 \in Lengths
      BY BoundsAssumption DEF Lengths
    <3> QED BY <3>1, LengthTypes DEF Of
  <2>3. k.batch = b /\ k.total = tot /\ k.hostLen = n
    OBVIOUS
  <2> HIDE DEF n, k
  <2>4. LookupOK(k, history)
    BY <2>1, <2>2, <2>3 DEF LookupOK
  <2> QED BY <2>1, <2>4 DEF LookedUp
<1>3. CASE Allocate \/ AllocateStep \/ Onboard
  BY <1>3 DEF Allocate, AllocateStep, Onboard, LookedUp
<1>4. CASE Forward \/ OffloadLaunch \/ PollRaise
  BY <1>4 DEF Forward, OffloadLaunch, PollRaise, LookedUp
<1>5. CASE PollReady \/ PollTimeout \/ PollLaunched
  <2>1. UNCHANGED <<pc, ret, lookup, history>>
    BY <1>5 DEF PollReady, PollTimeout, PollLaunched, Settle, ReleaseOffloadPages, gpuVars
  <2> QED BY <1>1, <2>1
<1>6. CASE PollReturn
  <2>1. /\ pc = "poll" /\ lookup' = lookup /\ history' = history
        /\ \/ UNCHANGED <<pc, ret>>
           \/ pc' = (IF ret = "flush" THEN "idle" ELSE ret) /\ ret' = "idle"
    BY <1>6 DEF PollReturn, gpuVars
  <2>2. pc' = "poll" => ret' = ret
    BY <2>1 DEF CacheInv, FlowOK
  <2>3. pc' = "allocate" => ret = "allocate"
    BY <2>1
  <2> QED BY <1>0, <2>1, <2>2, <2>3 DEF LookedUp
<1>7. CASE OffloadFlush
  BY <1>7 DEF OffloadFlush, LookedUp
<1>8. CASE OffloadCopy \/ ClientEvictAllHost \/ \E u \in User : ClientEvictHost(u)
  BY <1>1, <1>8 DEF OffloadCopy, ClientEvictAllHost, ClientEvictHost, gpuVars
<1>9. CASE ClientEvictAllGPU \/ \E u \in User : ClientEvictGPU(u)
  BY <1>1, <1>9 DEF ClientEvictAllGPU, ClientEvictGPU
<1>10. CASE Crashed \/ UNCHANGED vars
  BY <1>1, <1>10 DEF Crashed, vars, gpuVars
<1> QED BY <1>2, <1>3, <1>4, <1>5, <1>6, <1>7, <1>8, <1>9, <1>10 DEF Next, ThreadStep

\* An offload is launched from where the host ends to within the history.
LEMMA LaunchedHandle ==
  ASSUME CacheInv, NEW users \in Seq(User), NEW h, h.users = users,
         h.start = Of(Range(users), hostLen),
         h.pages = [u \in User |-> IF Contains(users, u) THEN Slice(u, hostLen) ELSE <<>>],
         h.fresh \in [User -> Seq(Chunk)],
         \A u \in User : u \notin Range(users) => h.fresh[u] = <<>>
  PROVE  HandleOK(h, history)
<1>1. ASSUME NEW u \in User
      PROVE  h.start[u] \in Nat /\ Len(h.pages[u]) \in Nat /\ OffloadEnd(h, u) <= history[u]
  <2>1. hostLen[u] \in Nat /\ hostLen[u] <= history[u] /\ history[u] \in Nat
    BY LengthTypes
  <2>2. startPos[u] \in Nat /\ cachedLen[u] \in Nat /\ EndPos(u) \in Nat /\ EndPos(u) <= history[u]
    <3>1. /\ startPos[u] \in Nat /\ cachedLen[u] \in Nat
          /\ IF cachedLen[u] = 0 THEN startPos[u] = 0 ELSE EndPos(u) = history[u]
      BY DEF CacheInv, Parts, Table, TableType, PageListsMatchLengths
    <3> QED BY <2>1, <3>1 DEF EndPos
  <2> DEFINE n == SliceLen(u, hostLen)
  <2>3. n \in Int /\ n * PageSize <= EndPos(u) - hostLen[u] /\ PageSize \in Nat
    <3> DEFINE d == EndPos(u) - hostLen[u]
    <3>1. d \in Int
      BY <2>1, <2>2
    <3>2. n = d \div PageSize
      BY DEF SliceLen
    <3> HIDE DEF d, n
    <3>3. n \in Int /\ n * PageSize <= d
      BY <3>1, <3>2, DivPageSize
    <3> QED BY <3>3, PageSizeAssumption DEF d
  <2>4. CASE ~Contains(users, u)
    <3>1. u \notin Range(users)
      BY <2>4, SMTT(30) DEF Contains, Range
    <3>2. h.start[u] = 0 /\ h.pages[u] = <<>> /\ Len(<<>>) = 0
      BY <2>4, <3>1 DEF Of
    <3> QED BY <2>1, <2>3, <3>2 DEF OffloadEnd
  <2>5. CASE Contains(users, u)
    <3>1. u \in Range(users)
      BY <2>5 DEF Contains, Range
    <3>2. h.start[u] = hostLen[u] /\ h.pages[u] = Slice(u, hostLen)
      BY <2>5, <3>1 DEF Of
    <3> DEFINE s == Slice(u, hostLen)
    <3>3. s = [i \in 1..n |-> s[i]]
      BY DEF Slice
    <3> HIDE DEF s, n
    <3>4. CASE n >= 0
      <4>1. Len(s) = n
        <5>1. n \in Nat /\ DOMAIN s = 1..n
          BY <2>3, <3>3, <3>4
        <5>2. s \in [1..n -> {s[i] : i \in 1..n}]
          BY <3>3
        <5> QED BY <5>1, <5>2
      <4>2. hostLen[u] + n * PageSize <= history[u]
        <5> DEFINE m == n * PageSize
        <5>1. m \in Int /\ m <= EndPos(u) - hostLen[u]
          BY <2>3
        <5> HIDE DEF m
        <5>2. hostLen[u] + m <= history[u]
          BY <5>1, <2>1, <2>2
        <5> QED BY <5>2 DEF m
      <4>3. Len(h.pages[u]) = n
        BY <3>2, <4>1 DEF s
      <4>4. OffloadEnd(h, u) = hostLen[u] + n * PageSize
        BY <3>2, <4>3 DEF OffloadEnd
      <4>5. n \in Nat
        BY <2>3, <3>4
      <4> QED BY <2>1, <3>2, <4>2, <4>3, <4>4, <4>5
    <3>5. CASE n < 0
      <4>1. 1..n = {}
        BY <2>3, <3>5
      <4>2. s = <<>>
        BY <3>3, <4>1
      <4>3. Len(s) = 0
        BY <4>2
      <4>4. Len(h.pages[u]) = 0
        BY <3>2, <4>3 DEF s
      <4>5. OffloadEnd(h, u) = hostLen[u]
        BY <2>1, <2>3, <3>2, <4>4 DEF OffloadEnd
      <4> QED BY <2>1, <3>2, <4>4, <4>5
    <3> QED BY <2>3, <3>4, <3>5 DEF n
  <2> QED BY <2>4, <2>5
<1> QED BY <1>1 DEF HandleOK

\* The length of a user on the host stays, is dropped, or moves on within the history.
Moves(old, new, most) == new \in Nat /\ (new = old \/ new = 0 \/ (old <= new /\ new <= most))

\* finish_offload, offload_kvcache, evict and evict_all on the lengths of the host.
LEMMA HostMoves ==
  ASSUME CacheInv, [Next]_vars
  PROVE  /\ hostLen' \in [User -> Nat]
         /\ \A u \in User : Moves(hostLen[u], hostLen'[u], history[u])
<1>0. history \in [User -> Nat] /\ hostLen \in [User -> Nat]
  BY LengthTypes
<1>1. CASE UNCHANGED hostLen
  BY <1>0, <1>1 DEF Moves
<1>2. CASE PollReady
  <2> DEFINE h == Task
             done == FinishedUsers(h)
  <2>1. /\ Polling
        /\ hostLen' = [u \in User |-> IF u \in done THEN OffloadEnd(h, u) ELSE hostLen[u]]
    BY <1>2 DEF PollReady, FinishOffload
  <2>2. HandleOK(h, history)
    BY <2>1, PolledTask
  <2>3. \A u \in done : h.start[u] = hostLen[u]
    BY DEF FinishedUsers
  <2> HIDE DEF h, done
  <2>4. ASSUME NEW u \in User PROVE Moves(hostLen[u], hostLen'[u], history[u])
    <3>1. CASE u \in done
      <4>1. hostLen'[u] = OffloadEnd(h, u) /\ h.start[u] = hostLen[u]
        BY <2>1, <2>3, <3>1
      <4>2. OffloadEnd(h, u) \in Nat /\ OffloadEnd(h, u) <= history[u] /\ h.start[u] <= OffloadEnd(h, u)
        BY <1>0, <2>2, HandleEnds
      <4> QED BY <4>1, <4>2 DEF Moves
    <3>2. CASE u \notin done
      BY <1>0, <2>1, <3>2 DEF Moves
    <3> QED BY <3>1, <3>2
  <2> QED BY <2>1, <2>4 DEF Moves
<1>3. CASE OffloadLaunch
  <2>1. \/ UNCHANGED hostLen
        \/ \E evicted : hostLen' = [u \in User |-> IF u \in evicted THEN 0 ELSE hostLen[u]]
    BY <1>3 DEF OffloadLaunch, Launch, LaunchOffload, hostVars
  <2>2. ASSUME NEW evicted, hostLen' = [u \in User |-> IF u \in evicted THEN 0 ELSE hostLen[u]]
        PROVE  /\ hostLen' \in [User -> Nat]
               /\ \A u \in User : Moves(hostLen[u], hostLen'[u], history[u])
    BY <1>0, <2>2 DEF Moves
  <2> QED BY <1>1, <2>1, <2>2
<1>4. CASE ClientEvictAllHost \/ \E u \in User : ClientEvictHost(u)
  <2>1. hostLen' = Zero \/ \E u \in User : hostLen' = [hostLen EXCEPT ![u] = 0]
    BY <1>4 DEF ClientEvictAllHost, ClientEvictHost, HostEvict, HostEvictAll
  <2> QED BY <1>0, <2>1 DEF Moves, Zero
<1>5. ASSUME NEW b \in Batch, NEW tot \in [User -> Lengths], Lookup(b, tot) PROVE UNCHANGED hostLen
  BY <1>5 DEF Lookup, hostVars
<1>6. CASE Allocate \/ AllocateStep \/ Onboard \/ Forward \/ PollLaunched \/ PollRaise \/ PollReturn
  BY <1>1, <1>6 DEF Allocate, AllocateStep, Onboard, Forward, PollLaunched, PollRaise, PollReturn,
     hostVars
<1>7. CASE PollTimeout \/ OffloadFlush \/ OffloadCopy \/ ClientEvictAllGPU \/ Crashed \/ UNCHANGED vars
  BY <1>1, <1>7 DEF PollTimeout, CancelOffload, OffloadFlush, OffloadCopy, ClientEvictAllGPU,
     Crashed, vars, hostVars
<1>8. CASE \E u \in User : ClientEvictGPU(u)
  BY <1>1, <1>8 DEF ClientEvictGPU, hostVars
<1> QED BY <1>1, <1>2, <1>3, <1>4, <1>5, <1>6, <1>7, <1>8 DEF Next, ThreadStep

\* What the host holds of a user stays within its history.
LEMMA HostStep ==
  ASSUME CacheInv, [Next]_vars
  PROVE  HostOK'
<1>1. /\ hostLen' \in [User -> Nat]
      /\ \A u \in User : Moves(hostLen[u], hostLen'[u], history[u])
  BY HostMoves
<1>2. Parts /\ [GPUNext]_gpuVars
  BY StepMaps DEF CacheInv
<1>3. Parts' /\ \A u \in User : history'[u] >= history[u]
  BY <1>2, NextKeeps, HistoryGrows
<1>4. history' \in [User -> Nat]
  BY <1>3, BoundsAssumption DEF Parts, Table, TableType, Lengths
<1>5. history \in [User -> Nat] /\ hostLen \in [User -> Nat] /\ \A u \in User : hostLen[u] <= history[u]
  BY LengthTypes
<1>6. ASSUME NEW u \in User PROVE hostLen'[u] <= history'[u]
  <2>1. Moves(hostLen[u], hostLen'[u], history[u]) /\ history'[u] >= history[u]
    BY <1>1, <1>3
  <2>2. history[u] \in Nat /\ history'[u] \in Nat /\ hostLen[u] \in Nat /\ hostLen[u] <= history[u]
    BY <1>4, <1>5
  <2> QED BY <2>1, <2>2 DEF Moves
<1> QED BY <1>1, <1>6 DEF HostOK

\* A function on 1..n is a sequence.
LEMMA SpanLen ==
  ASSUME NEW n \in Int, NEW s, s = [i \in 1..n |-> s[i]]
  PROVE  /\ Len(s) \in Nat /\ Len(s) = Positive(n)
         /\ \A X : (\A i \in 1..n : s[i] \in X) => s \in Seq(X)
<1>1. CASE n >= 0
  <2>1. n \in Nat /\ DOMAIN s = 1..n
    BY <1>1
  <2>2. s \in [1..n -> {s[i] : i \in 1..n}]
    OBVIOUS
  <2>3. Len(s) = n
    BY <2>1, <2>2
  <2>4. ASSUME NEW X, \A i \in 1..n : s[i] \in X PROVE s \in Seq(X)
    <3>1. s \in [1..n -> X]
      BY <2>4
    <3> QED BY <2>1, <3>1
  <2> QED BY <1>1, <2>1, <2>3, <2>4 DEF Positive
<1>2. CASE n < 0
  <2>1. 1..n = {}
    BY <1>2
  <2>2. s = [i \in {} |-> s[i]]
    BY <2>1
  <2>3. s = <<>>
    BY <2>2
  <2>4. Len(<<>>) = 0
    OBVIOUS
  <2>5. ASSUME NEW X PROVE s \in Seq(X)
    <3>1. <<>> \in Seq(X)
      OBVIOUS
    <3> QED BY ONLY <2>3, <3>1
  <2>6. Positive(n) = 0
    BY <1>2 DEF Positive
  <2>7. Len(s) = 0
    BY ONLY <2>3, <2>4
  <2>8. Len(s) \in Nat /\ Len(s) = Positive(n)
    BY ONLY <2>6, <2>7
  <2>9. \A X : (\A i \in 1..n : s[i] \in X) => s \in Seq(X)
    BY ONLY <2>5
  <2> QED BY <2>8, <2>9
<1>3. n >= 0 \/ n < 0
  OBVIOUS
<1> QED BY ONLY <1>1, <1>2, <1>3, Zenon

\* The number of fresh chunks is an integer.
LEMMA FreshInt ==
  ASSUME NEW pos \in Nat, NEW n \in Nat
  PROVE  FreshChunks(pos, n) \in Int
<1>1. PagesPerChunk \in Nat \ {0}
  <2>1. ChunkSize \in Int /\ ChunkSize > 0 /\ PageSize \in Nat \ {0} /\ ChunkSize % PageSize = 0
    BY ChunkSizeAssumption, PageSizeAssumption
  <2> DEFINE q == ChunkSize \div PageSize
  <2>2. q \in Int /\ ChunkSize < q * PageSize + PageSize
    BY <2>1, DivPageSize
  <2>3. q >= 0
    <3> SUFFICES ASSUME q < 0 PROVE FALSE
      BY <2>2
    <3>1. q + 1 <= 0
      BY <2>2
    <3> HIDE DEF q
    <3>2. (q + 1) * PageSize <= 0
      BY <2>1, <2>2, <3>1
    <3> QED BY <2>1, <2>2, <3>2
  <2>4. q # 0
    <3> SUFFICES ASSUME q = 0 PROVE FALSE
      OBVIOUS
    <3>1. ChunkSize < PageSize
      BY <2>1, <2>2
    <3>2. ChunkSize % PageSize = ChunkSize
      BY <2>1, <3>1
    <3> QED BY <2>1, <3>2
  <2> QED BY <2>2, <2>3, <2>4 DEF PagesPerChunk
<1>2. UsedPages(pos) \in Int
  <2>1. pos % ChunkSize \in Int
    BY ChunkSizeAssumption
  <2> QED BY <2>1, DivPageSize DEF UsedPages
<1> DEFINE used == IF UsedPages(pos) = 0 THEN PagesPerChunk ELSE UsedPages(pos)
<1>3. n + used - 1 \in Int
  BY <1>1, <1>2
<1> HIDE DEF used
<1>4. (n + used - 1) \div PagesPerChunk \in Int
  BY <1>1, <1>3
<1> QED BY <1>4 DEF FreshChunks, used

\* The pages sent for a user make a list.
LEMMA SliceLengths ==
  ASSUME CacheInv, NEW users, NEW u \in User
  PROVE  Len([v \in User |-> IF Contains(users, v) THEN Slice(v, hostLen) ELSE <<>>][u]) \in Nat
<1> DEFINE s == IF Contains(users, u) THEN Slice(u, hostLen) ELSE <<>>
           n == SliceLen(u, hostLen)
<1>1. n \in Int
  <2> DEFINE d == EndPos(u) - hostLen[u]
  <2>1. d \in Int
    <3>1. startPos[u] \in Nat /\ cachedLen[u] \in Nat /\ hostLen[u] \in Nat
      BY LengthTypes DEF CacheInv, Parts, Table, TableType
    <3> QED BY <3>1 DEF EndPos
  <2> HIDE DEF d
  <2> QED BY <2>1, DivPageSize DEF SliceLen, d
<1>2. Slice(u, hostLen) = [i \in 1..n |-> Slice(u, hostLen)[i]]
  BY DEF Slice
<1> HIDE DEF n
<1>3. Len(Slice(u, hostLen)) \in Nat
  BY <1>1, <1>2, SpanLen
<1> QED BY <1>3

\* The fresh chunks of a launch: lists of distinct chunks of the pool, for its users.
LEMMA FreshProps ==
  ASSUME NEW users \in Seq(User), NEW start, NEW pages, NEW pool,
         \A u \in User : start[u] \in Nat /\ Len(pages[u]) \in Nat,
         NEW fresh \in FreshLists(users, start, pages, pool)
  PROVE  /\ fresh \in [User -> Seq(pool)]
         /\ \A u \in User : u \notin Range(users) => fresh[u] = <<>>
         /\ \A u, v \in User : \A i \in 1..Len(fresh[u]), j \in 1..Len(fresh[v]) :
               fresh[u][i] = fresh[v][j] => u = v /\ i = j
<1> DEFINE Count(u) == IF Contains(users, u) THEN FreshChunks(start[u], Len(pages[u])) ELSE 0
           slots == UNION {{u} \X (1..Count(u)) : u \in User}
<1>1. PICK take \in Injection(slots, pool) :
         fresh = [u \in User |-> [i \in 1..Count(u) |-> take[<<u, i>>]]]
  BY DEF FreshLists
<1>2. ASSUME NEW u \in User PROVE Count(u) \in Int
  <2>1. start[u] \in Nat /\ Len(pages[u]) \in Nat
    OBVIOUS
  <2>2. FreshChunks(start[u], Len(pages[u])) \in Int
    BY <2>1, FreshInt
  <2> QED BY <2>2
<1>3. ASSUME NEW u \in User PROVE u \notin Range(users) => Count(u) = 0
  BY DEF Contains, Range
<1>4. ASSUME NEW u \in User, NEW i \in 1..Count(u) PROVE <<u, i>> \in slots
  OBVIOUS
<1> HIDE DEF Count, slots
<1>5. take \in [slots -> pool] /\ \A a, b \in slots : take[a] = take[b] => a = b
  BY <1>1 DEF Injection, IsInjective
<1>6. ASSUME NEW u \in User
      PROVE  /\ fresh[u] = [i \in 1..Count(u) |-> take[<<u, i>>]]
             /\ fresh[u] \in Seq(pool)
             /\ Len(fresh[u]) = Positive(Count(u))
  <2>1. fresh[u] = [i \in 1..Count(u) |-> take[<<u, i>>]]
    BY <1>1
  <2>2. \A i \in 1..Count(u) : fresh[u][i] \in pool
    BY <1>4, <1>5, <2>1
  <2>3. fresh[u] = [i \in 1..Count(u) |-> fresh[u][i]]
    BY <2>1
  <2> QED BY <1>2, <2>1, <2>2, <2>3, SpanLen
<1>7. ASSUME NEW u \in User, u \notin Range(users) PROVE fresh[u] = <<>>
  <2>1. Len(fresh[u]) = 0
    BY <1>3, <1>6, <1>7 DEF Positive
  <2> QED BY <1>6, <2>1, EmptySeq
<1>8. ASSUME NEW u \in User, NEW v \in User, NEW i \in 1..Len(fresh[u]), NEW j \in 1..Len(fresh[v]),
             fresh[u][i] = fresh[v][j]
      PROVE  u = v /\ i = j
  <2>0. ASSUME NEW x \in User, NEW n \in 1..Len(fresh[x])
        PROVE  n \in 1..Count(x) /\ fresh[x][n] = take[<<x, n>>]
    <3>1. Len(fresh[x]) = Positive(Count(x)) /\ Count(x) \in Int
      BY <1>2, <1>6
    <3>2. 1..Positive(Count(x)) = 1..Count(x)
      BY <3>1 DEF Positive
    <3>3. n \in 1..Count(x)
      BY <3>1, <3>2
    <3>4. fresh[x] = [i_1 \in 1..Count(x) |-> take[<<x, i_1>>]]
      BY <1>6
    <3> QED BY <3>3, <3>4
  <2>1. i \in 1..Count(u) /\ j \in 1..Count(v)
    BY <2>0
  <2>2. fresh[u][i] = take[<<u, i>>] /\ fresh[v][j] = take[<<v, j>>]
    BY <2>0
  <2>3. <<u, i>> \in slots /\ <<v, j>> \in slots
    BY <1>4, <2>1
  <2>4. <<u, i>> = <<v, j>>
    BY <1>5, <1>8, <2>2, <2>3
  <2> QED BY <2>4
<1>9. fresh \in [User -> Seq(pool)]
  BY <1>1, <1>6
<1> QED BY <1>7, <1>8, <1>9

\* The tasks under way stay within the histories.
LEMMA TasksStep ==
  ASSUME CacheInv, [Next]_vars
  PROVE  TasksOK'
<1>0. polled \in Nat \ {0} /\ HandlesOK(ongoing, history) /\ HandlesOK(remain, history)
  BY DEF CacheInv, TasksOK
<1>1. CASE UNCHANGED <<ongoing, remain, polled, history>>
  BY <1>0, <1>1 DEF TasksOK
<1>2. HandlesOK(<<>>, history)
  BY NoHandles
<1>3. ASSUME NEW b \in Batch, NEW tot \in [User -> Lengths], Lookup(b, tot) PROVE TasksOK'
  <2>1. /\ history' = history /\ ongoing' = ongoing
        /\ \/ UNCHANGED <<polled, remain>>
           \/ polled' = 1 /\ remain' = <<>>
    BY <1>3 DEF Lookup, gpuVars
  <2> QED BY <1>0, <1>2, <2>1 DEF TasksOK
<1>4. CASE AllocateStep
  <2>1. UNCHANGED <<ongoing, remain, polled>>
    BY <1>4 DEF AllocateStep, pollVars
  <2>2. Parts /\ [GPUNext]_gpuVars
    BY StepMaps DEF CacheInv
  <2>3. Parts' /\ \A u \in User : history'[u] >= history[u]
    BY <2>2, NextKeeps, HistoryGrows
  <2>4. history' \in [User -> Nat] /\ history \in [User -> Nat]
    BY <2>3, BoundsAssumption, LengthTypes DEF Parts, Table, TableType, Lengths
  <2>5. \A u \in User : history[u] <= history'[u]
    BY <2>3, <2>4
  <2>6. PageSize \in Nat
    BY PageSizeAssumption
  <2>7. HandlesOK(ongoing, history') /\ HandlesOK(remain, history')
    BY <1>0, <2>4, <2>5, <2>6, HandlesStay
  <2> QED BY <1>0, <2>1, <2>7 DEF TasksOK
<1>5. CASE Forward
  <2>1. UNCHANGED <<ongoing, history>> /\ polled' = 1 /\ remain' = <<>>
    BY <1>5 DEF Forward, gpuVars
  <2> QED BY <1>0, <1>2, <2>1 DEF TasksOK
<1>6. CASE PollReady \/ PollTimeout
  <2>1. UNCHANGED <<ongoing, history, remain>> /\ polled' = polled + 1
    BY <1>6 DEF PollReady, PollTimeout, Settle, ReleaseOffloadPages
  <2> QED BY <1>0, <2>1 DEF TasksOK
<1>7. CASE PollLaunched
  <2>1. UNCHANGED <<ongoing, history>> /\ polled' = polled + 1 /\ remain' = Append(remain, Task) /\ Polling
    BY <1>7 DEF PollLaunched, gpuVars
  <2>2. HandleOK(Task, history)
    BY <2>1, PolledTask
  <2>3. HandlesOK(Append(remain, Task), history)
    BY <1>0, <2>2, HandleJoins
  <2> QED BY <1>0, <2>1, <2>3 DEF TasksOK
<1>8. CASE PollRaise
  <2>1. UNCHANGED <<ongoing, history>> /\ polled' = 1 /\ remain' = <<>>
    BY <1>8 DEF PollRaise
  <2> QED BY <1>0, <1>2, <2>1 DEF TasksOK
<1>9. CASE PollReturn
  <2>1. history' = history /\ ongoing' = remain /\ polled' = 1 /\ remain' = <<>>
    BY <1>9 DEF PollReturn, gpuVars
  <2> QED BY <1>0, <1>2, <2>1 DEF TasksOK
<1>10. CASE OffloadLaunch
  <2> DEFINE check == CheckForOffload(batch)
             users == Only(check, {u \in User : Acquires(u, hostLen)})
             sent == [u \in User |-> IF Contains(users, u) THEN Slice(u, hostLen) ELSE <<>>]
  <2>1. /\ UNCHANGED <<remain, polled, history>>
        /\ ongoing' = ongoing \/ \E fresh \in FreshLists(users, hostLen, sent, Chunk) : Launch(users, fresh)
    BY <1>10 DEF OffloadLaunch, AcquireOffloadPages
  <2>2. GPUTypeOK /\ batch \in Seq(User)
    BY PartsOfInv DEF CacheInv, GPUInv, GPUTypeOK
  <2>3. check \in Seq(User)
    BY <2>2, CheckUsers
  <2> HIDE DEF check
  <2>4. users \in Seq(User)
    BY <2>3, OnlyProps
  <2> HIDE DEF users
  <2>5. ASSUME NEW fresh \in FreshLists(users, hostLen, sent, Chunk), Launch(users, fresh)
        PROVE  HandlesOK(ongoing', history)
    <3> DEFINE h == [id |-> Min(FreeIds), users |-> users,
                     start |-> Of(Range(users), hostLen),
                     pages |-> sent,
                     fresh |-> fresh,
                     chunks |-> [u \in User |-> IF Contains(users, u)
                                                THEN Written(u, hostLen, fresh) ELSE <<>>]]
    <3>1. ongoing' = Append(ongoing, h)
      BY <2>5 DEF Launch
    <3>2. /\ h.users = users /\ h.start = Of(Range(users), hostLen)
          /\ h.pages = [u \in User |-> IF Contains(users, u) THEN Slice(u, hostLen) ELSE <<>>]
          /\ h.fresh = fresh
      OBVIOUS
    <3>4. \A u \in User : hostLen[u] \in Nat /\ Len(sent[u]) \in Nat
      BY LengthTypes, SliceLengths
    <3> HIDE DEF h, sent
    <3>5. /\ fresh \in [User -> Seq(Chunk)]
          /\ \A u \in User : u \notin Range(users) => fresh[u] = <<>>
      BY <2>4, <2>5, <3>4, FreshProps
    <3>3. HandleOK(h, history)
      BY <2>4, <3>2, <3>5, LaunchedHandle
    <3> QED BY <1>0, <3>1, <3>3, HandleJoins
  <2>6. HandlesOK(ongoing', history)
    BY <1>0, <2>1, <2>5
  <2> QED BY <1>0, <2>1, <2>6 DEF TasksOK
<1>11. CASE Allocate \/ Onboard \/ OffloadFlush \/ OffloadCopy
  BY <1>1, <1>11 DEF Allocate, AllocateCall, Onboard, OffloadFlush, OffloadCopy, pollVars, gpuVars
<1>12. CASE ClientEvictAllHost \/ ClientEvictAllGPU \/ Crashed \/ UNCHANGED vars
  BY <1>1, <1>12 DEF ClientEvictAllHost, ClientEvictAllGPU, Crashed, pollVars, gpuVars, vars
<1>13. CASE \E u \in User : ClientEvictHost(u) \/ ClientEvictGPU(u)
  BY <1>1, <1>13 DEF ClientEvictHost, ClientEvictGPU, pollVars, gpuVars
<1> QED BY <1>3, <1>4, <1>5, <1>6, <1>7, <1>8, <1>9, <1>10, <1>11, <1>12, <1>13 DEF Next, ThreadStep

\* The constructors establish the invariant.
LEMMA CacheInit ==
  ASSUME Init
  PROVE  CacheInv
<1>1. Parts
  BY InitParts DEF Init
<1>2. FlowOK /\ LookedUp
  BY DEF Init, GPUInit, FlowOK, LookedUp
<1>3. HostOK
  BY DEF Init, GPUInit, HostInit, HostOK, Zero
<1>4. TasksOK
  BY NoHandles DEF Init, TasksOK
<1> QED BY <1>1, <1>2, <1>3, <1>4 DEF CacheInv

\* Every step of the system keeps the invariant.
LEMMA CacheStep ==
  ASSUME CacheInv, [Next]_vars
  PROVE  CacheInv'
<1>1. Parts'
  BY StepMaps, NextKeeps DEF CacheInv
<1> QED BY <1>1, FlowStep, HostStep, TasksStep, LookedUpStep DEF CacheInv
-----------------------------------------------------------------------------
\* The invariant of the composition holds in every behaviour: the request is
\* where the page table thinks it is, the host never claims more of a user
\* than its history, and no launched offload reaches beyond it, although
\* histories move while offloads are under way.
THEOREM CacheInvariant == Spec => []CacheInv
<1>1. Init => CacheInv
  BY CacheInit
<1>2. CacheInv /\ [Next]_vars => CacheInv'
  BY CacheStep
<1> QED BY <1>1, <1>2, PTL DEF Spec

\* The request flow, the polling of the offloads, the host tier and the
\* client's evictions together use the page table only as its specification
\* allows: every step is one of its operations, with lengths the histories
\* cover, or leaves it alone.
THEOREM ImplementsPageTable == Spec => GPUSpec
<1>1. Init => GPUInit
  BY DEF Init
<1>2. CacheInv /\ [Next]_vars => [GPUNext]_gpuVars
  BY StepMaps
<1> QED BY <1>1, <1>2, CacheInvariant, PTL DEF Spec, GPUSpec

\* Hence the invariant of the page table holds in the whole system.
THEOREM PageTableInSystem == Spec => []GPUInv
BY ImplementsPageTable, GPUInvariant, PTL

\* What the host holds of a user only grows or is dropped whole: neither a
\* late finish_offload nor that of a stale task shortens it.
THEOREM PrefixGrows == Spec => PrefixGrowsOrGoes
<1>1. CacheInv /\ [Next]_vars => [\A u \in User : hostLen'[u] >= hostLen[u] \/ hostLen'[u] = 0]_hostLen
  <2> SUFFICES ASSUME CacheInv, [Next]_vars, NEW u \in User
               PROVE  hostLen'[u] >= hostLen[u] \/ hostLen'[u] = 0
    OBVIOUS
  <2>1. Moves(hostLen[u], hostLen'[u], history[u]) /\ hostLen[u] \in Nat
    BY HostMoves, LengthTypes
  <2> QED BY <2>1 DEF Moves
<1> QED BY <1>1, CacheInvariant, PTL DEF Spec, PrefixGrowsOrGoes

-----------------------------------------------------------------------------
(***************************************************************************)
(* The chunks of the host tier.  A place <<k, u, i>> is position i of the  *)
(* list of user u with holder k.                                           *)
(***************************************************************************)
\* A place is a holder, a user and a position of the list.
LEMMA PlaceIs ==
  ASSUME NEW L, NEW p
  PROVE  p \in ListPlaces(L) <=> \E k \in DOMAIN L, u \in User : \E i \in 1..Len(L[k][u]) : p = <<k, u, i>>
BY DEF ListPlaces

\* What a place holds.
LEMMA PlaceHolds ==
  ASSUME NEW L, NEW k, NEW u, NEW i
  PROVE  ChunkAt(L, <<k, u, i>>) = L[k][u][i]
BY DEF ChunkAt

\* Places may be renamed, and those given up go back to the pool.
LEMMA Transfer ==
  ASSUME NEW E, NEW L, Partition(E, L), NEW F, NEW M, NEW f,
         \A p \in ListPlaces(M) : f[p] \in ListPlaces(L) /\ ChunkAt(L, f[p]) = ChunkAt(M, p),
         \A p, q \in ListPlaces(M) : f[p] = f[q] => p = q,
         \A c : c \in F <=> \/ c \in E
                            \/ \E p \in ListPlaces(L) : /\ ChunkAt(L, p) = c
                                                    /\ \A q \in ListPlaces(M) : f[q] # p
  PROVE  Partition(F, M)
<1>1. ASSUME NEW p \in ListPlaces(M) PROVE ChunkAt(M, p) \notin F
  BY DEF Partition
<1>2. ASSUME NEW p \in ListPlaces(M), NEW q \in ListPlaces(M), ChunkAt(M, p) = ChunkAt(M, q) PROVE p = q
  BY <1>2 DEF Partition
<1>3. ASSUME NEW c \in Chunk, c \notin F PROVE \E p \in ListPlaces(M) : ChunkAt(M, p) = c
  <2>1. PICK q \in ListPlaces(L) : ChunkAt(L, q) = c
    BY <1>3 DEF Partition
  <2>2. PICK p \in ListPlaces(M) : f[p] = q
    BY <1>3, <2>1
  <2> QED BY <2>1, <2>2
<1> QED BY <1>1, <1>2, <1>3 DEF Partition

\* A new holder takes chunks from the pool.
LEMMA Takes ==
  ASSUME NEW E, NEW L, Partition(E, L), NEW F, NEW M, NEW N,
         \A p : p \in ListPlaces(M) <=> p \in ListPlaces(L) \/ p \in N,
         \A p \in ListPlaces(L) : ChunkAt(M, p) = ChunkAt(L, p),
         \A p \in N : ChunkAt(M, p) \in E,
         \A p, q \in N : ChunkAt(M, p) = ChunkAt(M, q) => p = q,
         \A c : c \in F <=> c \in E /\ \A p \in N : ChunkAt(M, p) # c
  PROVE  Partition(F, M)
<1>1. ASSUME NEW p \in ListPlaces(M) PROVE ChunkAt(M, p) \notin F
  BY DEF Partition
<1>2. ASSUME NEW p \in ListPlaces(M), NEW q \in ListPlaces(M), ChunkAt(M, p) = ChunkAt(M, q) PROVE p = q
  BY <1>2 DEF Partition
<1>3. ASSUME NEW c \in Chunk, c \notin F PROVE \E p \in ListPlaces(M) : ChunkAt(M, p) = c
  BY <1>3 DEF Partition
<1> QED BY <1>1, <1>2, <1>3 DEF Partition

\* Renaming the holders.
LEMMA Renamed ==
  ASSUME NEW E, NEW L, Partition(E, L), NEW M, NEW m,
         \A k \in DOMAIN M : m[k] \in DOMAIN L /\ M[k] = L[m[k]],
         \A k, l \in DOMAIN M : m[k] = m[l] => k = l,
         \A k \in DOMAIN L : \E l \in DOMAIN M : m[l] = k
  PROVE  Partition(E, M)
<1> DEFINE f == [p \in ListPlaces(M) |-> <<m[p[1]], p[2], p[3]>>]
<1>1. ASSUME NEW k \in DOMAIN M, NEW u \in User, NEW i \in 1..Len(M[k][u])
      PROVE  /\ <<k, u, i>> \in ListPlaces(M) /\ f[<<k, u, i>>] = <<m[k], u, i>>
             /\ <<m[k], u, i>> \in ListPlaces(L) /\ ChunkAt(L, <<m[k], u, i>>) = ChunkAt(M, <<k, u, i>>)
  <2>1. <<k, u, i>> \in ListPlaces(M)
    BY PlaceIs
  <2>2. M[k] = L[m[k]] /\ m[k] \in DOMAIN L /\ i \in 1..Len(L[m[k]][u])
    OBVIOUS
  <2>3. <<m[k], u, i>> \in ListPlaces(L)
    BY <2>2, PlaceIs
  <2>4. f[<<k, u, i>>] = <<m[k], u, i>>
    BY <2>1
  <2> QED BY <2>1, <2>2, <2>3, <2>4, PlaceHolds
<1> HIDE DEF f
<1>2. ASSUME NEW p \in ListPlaces(M) PROVE f[p] \in ListPlaces(L) /\ ChunkAt(L, f[p]) = ChunkAt(M, p)
  <2>1. PICK k \in DOMAIN M, u \in User : \E i \in 1..Len(M[k][u]) : p = <<k, u, i>>
    BY PlaceIs
  <2>2. PICK i \in 1..Len(M[k][u]) : p = <<k, u, i>>
    BY <2>1
  <2>3. f[<<k, u, i>>] = <<m[k], u, i>> /\ <<m[k], u, i>> \in ListPlaces(L)
        /\ ChunkAt(L, <<m[k], u, i>>) = ChunkAt(M, <<k, u, i>>)
    BY <1>1
  <2> QED BY <2>2, <2>3
<1>3. ASSUME NEW p \in ListPlaces(M), NEW q \in ListPlaces(M), f[p] = f[q] PROVE p = q
  <2>1. PICK k \in DOMAIN M, u \in User : \E i \in 1..Len(M[k][u]) : p = <<k, u, i>>
    BY PlaceIs
  <2>2. PICK i \in 1..Len(M[k][u]) : p = <<k, u, i>>
    BY <2>1
  <2>3. PICK l \in DOMAIN M, v \in User : \E j \in 1..Len(M[l][v]) : q = <<l, v, j>>
    BY PlaceIs
  <2>4. PICK j \in 1..Len(M[l][v]) : q = <<l, v, j>>
    BY <2>3
  <2>5. <<m[k], u, i>> = <<m[l], v, j>>
    <3>1. f[<<k, u, i>>] = <<m[k], u, i>>
      BY ONLY <1>1, k \in DOMAIN M, u \in User, i \in 1..Len(M[k][u])
    <3>2. f[<<l, v, j>>] = <<m[l], v, j>>
      BY ONLY <1>1, l \in DOMAIN M, v \in User, j \in 1..Len(M[l][v])
    <3> QED BY <1>3, <2>2, <2>4, <3>1, <3>2
  <2>6. m[k] = m[l] /\ u = v /\ i = j
    BY <2>5
  <2> QED BY <2>2, <2>4, <2>6
<1>4. ASSUME NEW p \in ListPlaces(L) PROVE \E q \in ListPlaces(M) : f[q] = p
  <2>1. PICK k \in DOMAIN L, u \in User : \E i \in 1..Len(L[k][u]) : p = <<k, u, i>>
    BY PlaceIs
  <2>2. PICK i \in 1..Len(L[k][u]) : p = <<k, u, i>>
    BY <2>1
  <2>3. PICK l \in DOMAIN M : m[l] = k
    OBVIOUS
  <2>4. i \in 1..Len(M[l][u])
    BY <2>3
  <2>5. <<l, u, i>> \in ListPlaces(M) /\ f[<<l, u, i>>] = <<m[l], u, i>>
    BY ONLY <1>1, <2>4, l \in DOMAIN M, u \in User
  <2> QED BY <2>2, <2>3, <2>5
<1> QED BY <1>2, <1>3, <1>4, Transfer

\* The users out of holder z give all their chunks up.
Drops(E, L, z, out, F, M) ==
    /\ z \in DOMAIN L
    /\ DOMAIN M = DOMAIN L /\ \A k \in DOMAIN L : k # z => M[k] = L[k]
    /\ \A u \in User : u \in out => M[z][u] = <<>>
    /\ \A u \in User : u \notin out => M[z][u] = L[z][u]
    /\ \A c : c \in F <=> c \in E \/ \E u \in User : u \in out /\ \E i \in 1..Len(L[z][u]) : c = L[z][u][i]

\* The partition after users have given their chunks up.
LEMMA Dropped ==
  ASSUME NEW E, NEW L, NEW z, NEW out, NEW F, NEW M, Partition(E, L), Drops(E, L, z, out, F, M)
  PROVE  Partition(F, M)
<1> USE DEF Drops
<1> DEFINE f == [p \in ListPlaces(M) |-> p]
<1>1. ASSUME NEW k \in DOMAIN L, NEW u \in User, k # z \/ u \notin out PROVE M[k][u] = L[k][u]
  BY <1>1
<1>2. \A u \in User : u \in out => 1..Len(M[z][u]) = {}
  OBVIOUS
<1>3. ASSUME NEW p \in ListPlaces(M)
      PROVE  p \in ListPlaces(L) /\ ChunkAt(L, p) = ChunkAt(M, p)
  <2>1. PICK k \in DOMAIN M, u \in User : \E i \in 1..Len(M[k][u]) : p = <<k, u, i>>
    BY PlaceIs
  <2>2. PICK i \in 1..Len(M[k][u]) : p = <<k, u, i>>
    BY <2>1
  <2>3. k # z \/ u \notin out
    BY <1>2, <2>2
  <2>4. M[k][u] = L[k][u]
    BY <1>1, <2>3
  <2>5. <<k, u, i>> \in ListPlaces(L)
    BY <2>2, <2>4, PlaceIs
  <2> QED BY <2>2, <2>4, <2>5, PlaceHolds
<1>4. ASSUME NEW p \in ListPlaces(L), \A q \in ListPlaces(M) : q # p PROVE ChunkAt(L, p) \in F
  <2>1. PICK k \in DOMAIN L, u \in User : \E i \in 1..Len(L[k][u]) : p = <<k, u, i>>
    BY PlaceIs
  <2>2. PICK i \in 1..Len(L[k][u]) : p = <<k, u, i>>
    BY <2>1
  <2>3. k = z /\ u \in out
    <3> SUFFICES ASSUME k # z \/ u \notin out PROVE FALSE
      OBVIOUS
    <3>1. M[k][u] = L[k][u]
      BY <1>1
    <3>2. <<k, u, i>> \in ListPlaces(M)
      BY <2>2, <3>1, PlaceIs
    <3> QED BY <1>4, <2>2, <3>2
  <2>4. ChunkAt(L, p) = L[k][u][i]
    BY <2>2, PlaceHolds
  <2> QED BY <2>2, <2>3, <2>4
<1>5. ASSUME NEW u \in User, u \in out, NEW i \in 1..Len(L[z][u])
      PROVE  \E p \in ListPlaces(L) : ChunkAt(L, p) = L[z][u][i] /\ \A q \in ListPlaces(M) : q # p
  <2>1. <<z, u, i>> \in ListPlaces(L) /\ ChunkAt(L, <<z, u, i>>) = L[z][u][i]
    BY PlaceIs, PlaceHolds
  <2>2. <<z, u, i>> \notin ListPlaces(M)
    <3> SUFFICES ASSUME <<z, u, i>> \in ListPlaces(M) PROVE FALSE
      OBVIOUS
    <3>1. PICK k \in DOMAIN M, v \in User : \E j \in 1..Len(M[k][v]) : <<z, u, i>> = <<k, v, j>>
      BY PlaceIs
    <3>2. k = z /\ v = u
      BY <3>1
    <3> QED BY <1>2, <1>5, <3>1, <3>2
  <2> QED BY <2>1, <2>2
<1>6. \A p \in ListPlaces(M) : f[p] = p
  OBVIOUS
<1> HIDE DEF f
<1>7. \A p \in ListPlaces(M) : f[p] \in ListPlaces(L) /\ ChunkAt(L, f[p]) = ChunkAt(M, p)
  BY <1>3, <1>6
<1>8. \A p, q \in ListPlaces(M) : f[p] = f[q] => p = q
  BY <1>6
<1>9. ASSUME NEW c
      PROVE  c \in F <=> \/ c \in E
                         \/ \E p \in ListPlaces(L) : /\ ChunkAt(L, p) = c
                                                     /\ \A q \in ListPlaces(M) : f[q] # p
  <2>1. ASSUME c \in F, c \notin E
        PROVE  \E p \in ListPlaces(L) : ChunkAt(L, p) = c /\ \A q \in ListPlaces(M) : f[q] # p
    <3>1. PICK u \in User : u \in out /\ \E i \in 1..Len(L[z][u]) : c = L[z][u][i]
      BY <2>1
    <3>2. PICK i \in 1..Len(L[z][u]) : c = L[z][u][i]
      BY <3>1
    <3>3. PICK p \in ListPlaces(L) : ChunkAt(L, p) = L[z][u][i] /\ \A q \in ListPlaces(M) : q # p
      BY <1>5, <3>1
    <3> QED BY <1>6, <3>2, <3>3
  <2>2. ASSUME NEW p \in ListPlaces(L), ChunkAt(L, p) = c, \A q \in ListPlaces(M) : f[q] # p PROVE c \in F
    BY <1>4, <1>6, <2>2
  <2> QED BY <2>1, <2>2
<1> QED BY <1>7, <1>8, <1>9, Transfer

\* A new holder j with a list of fresh chunks for each user.
Enters(E, L, j, F, M) ==
    /\ j \notin DOMAIN L
    /\ DOMAIN M = DOMAIN L \cup {j} /\ \A k \in DOMAIN L : M[k] = L[k]
    /\ \A u \in User : \A i \in 1..Len(M[j][u]) : M[j][u][i] \in E
    /\ \A u, v \in User : \A i \in 1..Len(M[j][u]), n \in 1..Len(M[j][v]) :
          M[j][u][i] = M[j][v][n] => u = v /\ i = n
    /\ \A c : c \in F <=> c \in E /\ \A u \in User : \A i \in 1..Len(M[j][u]) : M[j][u][i] # c

\* The partition with a new holder.
LEMMA Taken ==
  ASSUME NEW E, NEW L, NEW j, NEW F, NEW M, Partition(E, L), Enters(E, L, j, F, M)
  PROVE  Partition(F, M)
<1> USE DEF Enters
<1> DEFINE N == {p \in ListPlaces(M) : p[1] = j}
<1>1. ASSUME NEW p PROVE p \in N <=> \E u \in User : \E i \in 1..Len(M[j][u]) : p = <<j, u, i>>
  <2>1. ASSUME p \in N PROVE \E u \in User : \E i \in 1..Len(M[j][u]) : p = <<j, u, i>>
    <3>1. PICK k \in DOMAIN M, u \in User : \E i \in 1..Len(M[k][u]) : p = <<k, u, i>>
      BY <2>1, PlaceIs
    <3>2. k = j
      BY <2>1, <3>1
    <3> QED BY <3>1, <3>2
  <2>2. ASSUME NEW u \in User, NEW i \in 1..Len(M[j][u]), p = <<j, u, i>> PROVE p \in N
    <3>1. <<j, u, i>> \in ListPlaces(M)
      BY PlaceIs
    <3> QED BY <2>2, <3>1
  <2> QED BY <2>1, <2>2
<1> HIDE DEF N
<1>2. ASSUME NEW p PROVE p \in ListPlaces(M) <=> p \in ListPlaces(L) \/ p \in N
  <2>1. ASSUME p \in ListPlaces(M), p \notin ListPlaces(L) PROVE p \in N
    <3>1. PICK k \in DOMAIN M, u \in User : \E i \in 1..Len(M[k][u]) : p = <<k, u, i>>
      BY <2>1, PlaceIs
    <3>2. CASE k = j
      BY <1>1, <3>1, <3>2
    <3>3. CASE k \in DOMAIN L
      <4>1. M[k] = L[k]
        BY <3>3
      <4> QED BY <2>1, <3>1, <3>3, <4>1, PlaceIs
    <3> QED BY <3>2, <3>3
  <2>2. ASSUME p \in ListPlaces(L) PROVE p \in ListPlaces(M)
    <3>1. PICK k \in DOMAIN L, u \in User : \E i \in 1..Len(L[k][u]) : p = <<k, u, i>>
      BY <2>2, PlaceIs
    <3>2. M[k] = L[k] /\ k \in DOMAIN M
      OBVIOUS
    <3> QED BY <3>1, <3>2, PlaceIs
  <2>3. ASSUME p \in N PROVE p \in ListPlaces(M)
    BY <2>3 DEF N
  <2> QED BY <2>1, <2>2, <2>3
<1>3. ASSUME NEW p \in ListPlaces(L) PROVE ChunkAt(M, p) = ChunkAt(L, p)
  <2>1. PICK k \in DOMAIN L, u \in User : \E i \in 1..Len(L[k][u]) : p = <<k, u, i>>
    BY PlaceIs
  <2>2. M[k] = L[k]
    OBVIOUS
  <2> QED BY <2>1, <2>2, PlaceHolds
<1>4. ASSUME NEW p \in N PROVE ChunkAt(M, p) \in E
  <2>1. PICK u \in User : \E i \in 1..Len(M[j][u]) : p = <<j, u, i>>
    BY <1>1
  <2> QED BY <2>1, PlaceHolds
<1>5. ASSUME NEW p \in N, NEW q \in N, ChunkAt(M, p) = ChunkAt(M, q) PROVE p = q
  <2>1. PICK u \in User : \E i \in 1..Len(M[j][u]) : p = <<j, u, i>>
    BY <1>1
  <2>2. PICK i \in 1..Len(M[j][u]) : p = <<j, u, i>>
    BY <2>1
  <2>3. PICK v \in User : \E n \in 1..Len(M[j][v]) : q = <<j, v, n>>
    BY <1>1
  <2>4. PICK n \in 1..Len(M[j][v]) : q = <<j, v, n>>
    BY <2>3
  <2>5. M[j][u][i] = M[j][v][n]
    BY <1>5, <2>2, <2>4, PlaceHolds
  <2>6. u = v /\ i = n
    BY <2>5
  <2> QED BY <2>2, <2>4, <2>6
<1>6. ASSUME NEW c PROVE c \in F <=> c \in E /\ \A p \in N : ChunkAt(M, p) # c
  <2>1. ASSUME c \in F, NEW p \in N PROVE ChunkAt(M, p) # c
    <3>1. PICK u \in User : \E i \in 1..Len(M[j][u]) : p = <<j, u, i>>
      BY <1>1
    <3>2. PICK i \in 1..Len(M[j][u]) : p = <<j, u, i>>
      BY <3>1
    <3>3. ChunkAt(M, p) = M[j][u][i]
      BY <3>2, PlaceHolds
    <3> QED BY <2>1, <3>3
  <2>2. ASSUME c \in E, \A p \in N : ChunkAt(M, p) # c, NEW u \in User, NEW i \in 1..Len(M[j][u])
        PROVE  M[j][u][i] # c
    <3>1. <<j, u, i>> \in N
      BY <1>1
    <3>2. ChunkAt(M, <<j, u, i>>) = M[j][u][i]
      BY PlaceHolds
    <3> QED BY <2>2, <3>1, <3>2
  <2> QED BY <2>1, <2>2
<1> QED BY <1>2, <1>3, <1>4, <1>5, <1>6, Takes

\* The places of two lists put together.
LEMMA ConcatPlaces ==
  ASSUME NEW a \in Seq(Chunk), NEW b \in Seq(Chunk)
  PROVE  /\ Len(a) \in Nat /\ Len(b) \in Nat /\ Len(a \o b) = Len(a) + Len(b)
         /\ \A i \in 1..Len(a) : (a \o b)[i] = a[i]
         /\ \A i \in 1..Len(b) : (a \o b)[Len(a) + i] = b[i]
<1>1. /\ Len(a \o b) = Len(a) + Len(b) /\ Len(a) \in Nat /\ Len(b) \in Nat
      /\ \A i \in 1..(Len(a) + Len(b)) : (a \o b)[i] = IF i <= Len(a) THEN a[i] ELSE b[i - Len(a)]
  BY ConcatProperties
<1>2. ASSUME NEW i \in 1..Len(b) PROVE (a \o b)[Len(a) + i] = b[i]
  <2>1. Len(a) + i \in 1..(Len(a) + Len(b)) /\ ~(Len(a) + i <= Len(a)) /\ (Len(a) + i) - Len(a) = i
    BY <1>1
  <2> QED BY <1>1, <2>1
<1>3. ASSUME NEW i \in 1..Len(a) PROVE (a \o b)[i] = a[i]
  BY <1>1
<1> QED BY <1>1, <1>2, <1>3

\* Holder j settles: the chunks of the users done go behind those that z
\* has for them, the others go back to the pool.
Settles(E, L, z, j, done, F, M) ==
    /\ z \in DOMAIN L /\ j \in DOMAIN L /\ j # z
    /\ L[z] \in [User -> Seq(Chunk)] /\ L[j] \in [User -> Seq(Chunk)]
    /\ DOMAIN M = DOMAIN L \ {j} /\ \A k \in DOMAIN M : k # z => M[k] = L[k]
    /\ \A u \in User : u \in done => M[z][u] = L[z][u] \o L[j][u]
    /\ \A u \in User : u \notin done => M[z][u] = L[z][u]
    /\ \A c : c \in F <=> c \in E \/ \E u \in User : u \notin done /\ \E i \in 1..Len(L[j][u]) : c = L[j][u][i]

\* The partition after a holder has settled.
LEMMA Settled ==
  ASSUME NEW E, NEW L, NEW z, NEW j, NEW done, NEW F, NEW M,
         Partition(E, L), Settles(E, L, z, j, done, F, M)
  PROVE  Partition(F, M)
<1> USE DEF Settles
<1> DEFINE Back(p) == IF p[1] = z /\ p[3] > Len(L[z][p[2]])
                      THEN <<j, p[2], p[3] - Len(L[z][p[2]])>> ELSE p
           f == [p \in ListPlaces(M) |-> Back(p)]
           Came(k, u, i) == /\ k = z /\ u \in done /\ i > Len(L[z][u])
                            /\ i - Len(L[z][u]) \in 1..Len(L[j][u])
                            /\ M[k][u][i] = L[j][u][i - Len(L[z][u])]
                            /\ f[<<k, u, i>>] = <<j, u, i - Len(L[z][u])>>
           Stayed(k, u, i) == /\ i \in 1..Len(L[k][u]) /\ k \in DOMAIN L /\ k # j
                              /\ M[k][u][i] = L[k][u][i] /\ f[<<k, u, i>>] = <<k, u, i>>
<1>1. ASSUME NEW u \in User
      PROVE  /\ Len(L[z][u]) \in Nat /\ Len(L[j][u]) \in Nat
             /\ u \in done => /\ Len(M[z][u]) = Len(L[z][u]) + Len(L[j][u])
                              /\ \A i \in 1..Len(L[z][u]) : M[z][u][i] = L[z][u][i]
                              /\ \A i \in 1..Len(L[j][u]) : M[z][u][Len(L[z][u]) + i] = L[j][u][i]
             /\ u \notin done => M[z][u] = L[z][u]
  <2>1. L[z][u] \in Seq(Chunk) /\ L[j][u] \in Seq(Chunk)
    OBVIOUS
  <2> DEFINE a == L[z][u]
             b == L[j][u]
  <2>2. /\ Len(a) \in Nat /\ Len(b) \in Nat /\ Len(a \o b) = Len(a) + Len(b)
        /\ \A i \in 1..Len(a) : (a \o b)[i] = a[i]
        /\ \A i \in 1..Len(b) : (a \o b)[Len(a) + i] = b[i]
    <3> HIDE DEF a, b
    <3> QED BY <2>1, ConcatPlaces DEF a, b
  <2> QED BY <2>2
<1>2. ASSUME NEW k \in DOMAIN M, NEW u \in User, NEW i \in 1..Len(M[k][u])
      PROVE  Came(k, u, i) \/ Stayed(k, u, i)
  <2>0. <<k, u, i>> \in ListPlaces(M)
    BY PlaceIs
  <2>1. CASE k # z
    <3>1. M[k] = L[k]
      BY <2>1
    <3>2. f[<<k, u, i>>] = <<k, u, i>>
      BY <2>0, <2>1
    <3> QED BY <3>1, <3>2
  <2>2. CASE k = z /\ i <= Len(L[z][u])
    <3>1. i \in Nat /\ i >= 1
      OBVIOUS
    <3>2. ~(i > Len(L[z][u]))
      BY <1>1, <2>2, <3>1
    <3>3. f[<<k, u, i>>] = <<k, u, i>>
      BY <2>0, <2>2, <3>2
    <3>4. M[k][u][i] = L[k][u][i] /\ i \in 1..Len(L[k][u])
      BY <1>1, <2>2, <3>1
    <3> HIDE DEF f
    <3> QED BY <2>2, <3>3, <3>4
  <2>3. CASE k = z /\ i > Len(L[z][u])
    <3>1. i \in Nat /\ i >= 1
      OBVIOUS
    <3>2. f[<<k, u, i>>] = <<j, u, i - Len(L[z][u])>>
      BY <2>0, <2>3
    <3>3. u \in done
      <4>1. u \notin done => Len(M[k][u]) = Len(L[z][u])
        BY <1>1, <2>3
      <4>2. i <= Len(M[k][u])
        OBVIOUS
      <4> HIDE DEF f
      <4> QED BY <1>1, <2>3, <3>1, <4>1, <4>2
    <3> DEFINE n == i - Len(L[z][u])
    <3>4. n \in 1..Len(L[j][u]) /\ Len(L[z][u]) + n = i
      <4>1. i <= Len(L[z][u]) + Len(L[j][u])
        BY <1>1, <2>3, <3>3
      <4> HIDE DEF f
      <4> QED BY <1>1, <2>3, <3>1, <4>1
    <3> HIDE DEF n, f
    <3>5. M[k][u][i] = L[j][u][n]
      BY <1>1, <2>3, <3>3, <3>4
    <3> QED BY <2>3, <3>2, <3>3, <3>4, <3>5 DEF n
  <2>4. i \in Nat /\ Len(L[z][u]) \in Nat
    BY <1>1
  <2>5. i <= Len(L[z][u]) \/ i > Len(L[z][u])
    BY <2>4
  <2> HIDE DEF f
  <2> QED BY <2>1, <2>2, <2>3, <2>5
<1> HIDE DEF f, Came, Stayed
<1>3. ASSUME NEW p \in ListPlaces(M) PROVE f[p] \in ListPlaces(L) /\ ChunkAt(L, f[p]) = ChunkAt(M, p)
  <2>1. PICK k \in DOMAIN M, u \in User : \E i \in 1..Len(M[k][u]) : p = <<k, u, i>>
    BY PlaceIs
  <2>2. PICK i \in 1..Len(M[k][u]) : p = <<k, u, i>>
    BY <2>1
  <2>0. Came(k, u, i) \/ Stayed(k, u, i)
    BY ONLY <1>2, k \in DOMAIN M, u \in User, i \in 1..Len(M[k][u])
  <2>3. CASE Came(k, u, i)
    <3> DEFINE n == i - Len(L[z][u])
    <3>1. n \in 1..Len(L[j][u]) /\ M[k][u][i] = L[j][u][n] /\ f[p] = <<j, u, n>>
      BY <2>2, <2>3 DEF Came
    <3> HIDE DEF n
    <3>2. <<j, u, n>> \in ListPlaces(L)
      BY <3>1, PlaceIs
    <3> QED BY <2>2, <3>1, <3>2, PlaceHolds
  <2>4. CASE Stayed(k, u, i)
    <3>0. i \in 1..Len(L[k][u]) /\ k \in DOMAIN L /\ M[k][u][i] = L[k][u][i] /\ f[p] = <<k, u, i>>
      BY <2>2, <2>4 DEF Stayed
    <3>1. <<k, u, i>> \in ListPlaces(L)
      BY <3>0, PlaceIs
    <3>2. ChunkAt(L, <<k, u, i>>) = L[k][u][i] /\ ChunkAt(M, <<k, u, i>>) = M[k][u][i]
      BY PlaceHolds
    <3> QED BY <2>2, <3>0, <3>1, <3>2
  <2> QED BY <2>0, <2>3, <2>4
<1>4. ASSUME NEW p \in ListPlaces(M), NEW q \in ListPlaces(M), f[p] = f[q] PROVE p = q
  <2>1. PICK k \in DOMAIN M, u \in User : \E i \in 1..Len(M[k][u]) : p = <<k, u, i>>
    BY PlaceIs
  <2>2. PICK i \in 1..Len(M[k][u]) : p = <<k, u, i>>
    BY <2>1
  <2>3. PICK l \in DOMAIN M, v \in User : \E n \in 1..Len(M[l][v]) : q = <<l, v, n>>
    BY PlaceIs
  <2>4. PICK n \in 1..Len(M[l][v]) : q = <<l, v, n>>
    BY <2>3
  <2>5. \/ k = z /\ f[p] = <<j, u, i - Len(L[z][u])>>
        \/ k # j /\ f[p] = <<k, u, i>>
    <3>1. Came(k, u, i) \/ Stayed(k, u, i)
      BY ONLY <1>2, k \in DOMAIN M, u \in User, i \in 1..Len(M[k][u])
    <3> QED BY <2>2, <3>1 DEF Came, Stayed
  <2>6. \/ l = z /\ f[q] = <<j, v, n - Len(L[z][v])>>
        \/ l # j /\ f[q] = <<l, v, n>>
    <3>1. Came(l, v, n) \/ Stayed(l, v, n)
      BY ONLY <1>2, l \in DOMAIN M, v \in User, n \in 1..Len(M[l][v])
    <3> QED BY <2>4, <3>1 DEF Came, Stayed
  <2>7. i \in Int /\ n \in Int /\ Len(L[z][u]) \in Int /\ Len(L[z][v]) \in Int
    BY <1>1
  <2>8. k = l /\ u = v /\ i = n
    BY <1>4, <2>5, <2>6, <2>7
  <2> QED BY <2>2, <2>4, <2>8
<1>5. ASSUME NEW p \in ListPlaces(L), \A q \in ListPlaces(M) : f[q] # p PROVE ChunkAt(L, p) \in F
  <2>1. PICK k \in DOMAIN L, u \in User : \E i \in 1..Len(L[k][u]) : p = <<k, u, i>>
    BY PlaceIs
  <2>2. PICK i \in 1..Len(L[k][u]) : p = <<k, u, i>>
    BY <2>1
  <2>3. k = j
    <3> SUFFICES ASSUME k # j PROVE FALSE
      OBVIOUS
    <3>1. i \in 1..Len(M[k][u])
      <4>1. CASE k = z
        BY <1>1, <2>2, <4>1
      <4>2. CASE k # z
        <5>1. M[k] = L[k]
          BY <4>2
        <5> QED BY <2>2, <5>1
      <4> QED BY <4>1, <4>2
    <3>2. k \in DOMAIN M
      OBVIOUS
    <3>3. <<k, u, i>> \in ListPlaces(M)
      BY <3>1, <3>2, PlaceIs
    <3>4. ~(k = z /\ i > Len(L[z][u]))
      BY <1>1, <2>2
    <3>5. f[<<k, u, i>>] = <<k, u, i>>
      <4>1. Came(k, u, i) \/ Stayed(k, u, i)
        BY ONLY <1>2, <3>1, <3>2, u \in User
      <4> QED BY <3>4, <4>1 DEF Came, Stayed
    <3> QED BY <1>5, <2>2, <3>3, <3>5
  <2>4. u \notin done
    <3> SUFFICES ASSUME u \in done PROVE FALSE
      OBVIOUS
    <3> DEFINE n == Len(L[z][u]) + i
    <3>1. n \in 1..Len(M[z][u]) /\ n - Len(L[z][u]) = i /\ n > Len(L[z][u]) /\ n \in Int
      BY <1>1, <2>2, <2>3
    <3>2. Len(L[z][u]) \in Int /\ ~(n \in 1..Len(L[z][u]))
      BY <1>1, <3>1
    <3> HIDE DEF n
    <3>3. z \in DOMAIN M /\ <<z, u, n>> \in ListPlaces(M)
      BY <3>1, PlaceIs
    <3>4. f[<<z, u, n>>] = <<j, u, n - Len(L[z][u])>>
      <4>1. Came(z, u, n) \/ Stayed(z, u, n)
        BY ONLY <1>2, <3>1, <3>3, u \in User
      <4> QED BY <3>2, <4>1 DEF Came, Stayed
    <3> QED BY <1>5, <2>2, <2>3, <3>1, <3>3, <3>4
  <2>5. ChunkAt(L, p) = L[k][u][i]
    BY <2>2, PlaceHolds
  <2> QED BY <2>2, <2>3, <2>4, <2>5
<1>6. ASSUME NEW u \in User, u \notin done, NEW i \in 1..Len(L[j][u])
      PROVE  \E p \in ListPlaces(L) : ChunkAt(L, p) = L[j][u][i] /\ \A q \in ListPlaces(M) : f[q] # p
  <2>1. <<j, u, i>> \in ListPlaces(L) /\ ChunkAt(L, <<j, u, i>>) = L[j][u][i]
    BY PlaceIs, PlaceHolds
  <2>2. ASSUME NEW q \in ListPlaces(M), f[q] = <<j, u, i>> PROVE FALSE
    <3>1. PICK l \in DOMAIN M, v \in User : \E n \in 1..Len(M[l][v]) : q = <<l, v, n>>
      BY PlaceIs
    <3>2. PICK n \in 1..Len(M[l][v]) : q = <<l, v, n>>
      BY <3>1
    <3>3. \/ v \in done /\ f[q] = <<j, v, n - Len(L[z][v])>>
          \/ l # j /\ f[q] = <<l, v, n>>
      <4>1. Came(l, v, n) \/ Stayed(l, v, n)
        BY ONLY <1>2, l \in DOMAIN M, v \in User, n \in 1..Len(M[l][v])
      <4> QED BY <3>2, <4>1 DEF Came, Stayed
    <3> QED BY <1>6, <2>2, <3>3
  <2> QED BY <2>1, <2>2
<1>7. ASSUME NEW c
      PROVE  c \in F <=> \/ c \in E
                         \/ \E p \in ListPlaces(L) : /\ ChunkAt(L, p) = c
                                                     /\ \A q \in ListPlaces(M) : f[q] # p
  <2>1. ASSUME c \in F, c \notin E
        PROVE  \E p \in ListPlaces(L) : ChunkAt(L, p) = c /\ \A q \in ListPlaces(M) : f[q] # p
    <3>1. PICK u \in User : u \notin done /\ \E i \in 1..Len(L[j][u]) : c = L[j][u][i]
      BY <2>1
    <3>2. PICK i \in 1..Len(L[j][u]) : c = L[j][u][i]
      BY <3>1
    <3> QED BY <1>6, <3>1, <3>2
  <2>2. ASSUME NEW p \in ListPlaces(L), ChunkAt(L, p) = c, \A q \in ListPlaces(M) : f[q] # p PROVE c \in F
    BY <1>5, <2>2
  <2> QED BY <2>1, <2>2
<1>8. \A p, q \in ListPlaces(M) : f[p] = f[q] => p = q
  BY <1>4
<1> QED BY ONLY <1>3, <1>8, <1>7, Partition(E, L), Transfer

\* Who holds which lists.
Holds(L, host, on, from, rem) ==
    /\ \A k : k \in DOMAIN L <=> \/ k = 0 \/ (k \in 1..Len(on) /\ k >= from)
                                 \/ \E i \in 1..Len(rem) : k = -i
    /\ L[0] = host
    /\ \A k \in 1..Len(on) : k >= from => L[k] = on[k].fresh
    /\ \A i \in 1..Len(rem) : L[-i] = rem[i].fresh

\* HeldLists is what Holds says.
LEMMA HeldIs ==
  ASSUME NEW X, NEW host, NEW on, NEW from, NEW rem,
         on \in Seq(X), from \in Nat \ {0}, rem \in Seq(X)
  PROVE  Holds(HeldLists(host, on, from, rem), host, on, from, rem)
<1> DEFINE L == HeldLists(host, on, from, rem)
           D == {0} \cup {i \in 1..Len(on) : i >= from} \cup {-i : i \in 1..Len(rem)}
<1>1. L = [k \in D |-> IF k = 0 THEN host ELSE IF k > 0 THEN on[k].fresh ELSE rem[-k].fresh]
  BY DEF HeldLists
<1>2. DOMAIN L = D
  BY <1>1
<1>3. \A k : k \in D <=> \/ k = 0 \/ (k \in 1..Len(on) /\ k >= from) \/ \E i \in 1..Len(rem) : k = -i
  OBVIOUS
<1> HIDE DEF L, D
<1>4. L[0] = host
  BY <1>1, <1>3
<1>5. ASSUME NEW k \in 1..Len(on), k >= from PROVE L[k] = on[k].fresh
  <2>1. k \in D /\ k # 0 /\ k > 0
    BY <1>3, <1>5
  <2> QED BY <1>1, <2>1
<1>6. ASSUME NEW i \in 1..Len(rem) PROVE L[-i] = rem[i].fresh
  <2>1. -i \in D /\ -i # 0 /\ ~(-i > 0) /\ -(-i) = i
    BY <1>3
  <2> QED BY <1>1, <2>1
<1>7. Holds(L, host, on, from, rem)
  BY <1>2, <1>3, <1>4, <1>5, <1>6 DEF Holds
<1> QED BY <1>7 DEF L

\* With no task under way only the lists of the host hold chunks.
LEMMA NothingUnderWay ==
  ASSUME NEW host, NEW on, NEW from, NEW rem, on = <<>>, from = 1, rem = <<>>
  PROVE  Holds(HeldLists(host, on, from, rem), host, on, from, rem)
<1> DEFINE X == {}
<1>1. on \in Seq(X) /\ from \in Nat \ {0} /\ rem \in Seq(X)
  OBVIOUS
<1> HIDE DEF X
<1> QED BY ONLY <1>1, HeldIs

\* The fresh chunks of the users done are added to their lists, ...
Extended(host, fresh, done, to) ==
    /\ \A u \in User : u \in done => to[u] = host[u] \o fresh[u]
    /\ \A u \in User : u \notin done => to[u] = host[u]
\* ... those of the others are free again.
Returned(E, fresh, done, F) ==
    \A c : c \in F <=> c \in E \/ \E u \in User : u \notin done /\ \E i \in 1..Len(fresh[u]) : c = fresh[u][i]

\* The users out have no chunks any more.
Emptied(E, host, out, F, to) ==
    /\ \A u \in User : u \in out => to[u] = <<>>
    /\ \A u \in User : u \notin out => to[u] = host[u]
    /\ \A c : c \in F <=> c \in E \/ \E u \in User : u \in out /\ \E i \in 1..Len(host[u]) : c = host[u][i]

\* finish_offload and cancel_offload of the task that is polled.
LEMMA SettleChunks ==
  ASSUME NEW X, NEW host \in [User -> Seq(Chunk)], NEW on \in Seq(X), NEW from \in Nat \ {0},
         NEW rem \in Seq(X), from <= Len(on), on[from].fresh \in [User -> Seq(Chunk)],
         NEW E, Partition(E, HeldLists(host, on, from, rem)), NEW done, NEW F, NEW to,
         Extended(host, on[from].fresh, done, to), Returned(E, on[from].fresh, done, F)
  PROVE  Partition(F, HeldLists(to, on, from + 1, rem))
<1> DEFINE L == HeldLists(host, on, from, rem)
           next == from + 1
           M == HeldLists(to, on, next, rem)
           j == from
<1>0. next \in Nat \ {0} /\ from \in 1..Len(on)
  OBVIOUS
<1>1. /\ \A k : k \in DOMAIN L <=> \/ k = 0 \/ (k \in 1..Len(on) /\ k >= from)
                                   \/ \E i \in 1..Len(rem) : k = -i
      /\ L[0] = host
      /\ \A k \in 1..Len(on) : k >= from => L[k] = on[k].fresh
      /\ \A i \in 1..Len(rem) : L[-i] = rem[i].fresh
  <2>1. Holds(L, host, on, from, rem)
    BY HeldIs
  <2> HIDE DEF L
  <2> QED BY <2>1 DEF Holds
<1>2. /\ \A k : k \in DOMAIN M <=> \/ k = 0 \/ (k \in 1..Len(on) /\ k >= next)
                                   \/ \E i \in 1..Len(rem) : k = -i
      /\ M[0] = to
      /\ \A k \in 1..Len(on) : k >= next => M[k] = on[k].fresh
      /\ \A i \in 1..Len(rem) : M[-i] = rem[i].fresh
  <2> HIDE DEF next
  <2>1. Holds(M, to, on, next, rem)
    BY <1>0, HeldIs
  <2> HIDE DEF M
  <2> QED BY <2>1 DEF Holds
<1>3. Partition(E, L)
  OBVIOUS
<1> HIDE DEF L, M
<1>4. 0 \in DOMAIN L /\ j \in DOMAIN L /\ j # 0 /\ L[j] = on[from].fresh /\ L[0] = host
  <2>1. 0 \in DOMAIN L /\ L[0] = host
    BY <1>1
  <2>2. from >= from /\ from # 0
    BY <1>0
  <2>3. from \in DOMAIN L /\ L[from] = on[from].fresh
    BY ONLY <1>0, <1>1, <2>2
  <2> QED BY <2>1, <2>2, <2>3
<1>5. DOMAIN M = DOMAIN L \ {j}
  <2>1. ASSUME NEW k PROVE k \in DOMAIN M <=> k \in DOMAIN L /\ k # j
    BY <1>0, <1>1, <1>2
  <2> QED BY <2>1
<1>6. ASSUME NEW k \in DOMAIN M, k # 0 PROVE M[k] = L[k]
  <2>1. \/ k \in 1..Len(on) /\ k >= next /\ k >= from
        \/ \E i \in 1..Len(rem) : k = -i
    BY <1>0, <1>2, <1>6
  <2> QED BY <1>1, <1>2, <2>1
<1> HIDE DEF j
<1>7. /\ L[0] \in [User -> Seq(Chunk)] /\ L[j] \in [User -> Seq(Chunk)]
      /\ \A u \in User : u \in done => M[0][u] = L[0][u] \o L[j][u]
      /\ \A u \in User : u \notin done => M[0][u] = L[0][u]
      /\ \A c : c \in F <=> c \in E \/ \E u \in User : u \notin done /\ \E i \in 1..Len(L[j][u]) : c = L[j][u][i]
  BY <1>2, <1>4 DEF Extended, Returned
<1> DEFINE z == 0
<1>8. /\ z \in DOMAIN L /\ j \in DOMAIN L /\ j # z
      /\ DOMAIN M = DOMAIN L \ {j} /\ \A k \in DOMAIN M : k # z => M[k] = L[k]
      /\ L[z] \in [User -> Seq(Chunk)] /\ L[j] \in [User -> Seq(Chunk)]
      /\ \A u \in User : u \in done => M[z][u] = L[z][u] \o L[j][u]
      /\ \A u \in User : u \notin done => M[z][u] = L[z][u]
      /\ \A c : c \in F <=> c \in E \/ \E u \in User : u \notin done /\ \E i \in 1..Len(L[j][u]) : c = L[j][u][i]
  BY <1>4, <1>5, <1>6, <1>7
<1> HIDE DEF z
<1>9. Settles(E, L, z, j, done, F, M)
  BY ONLY <1>8 DEF Settles
<1>10. Partition(F, M)
  BY ONLY <1>3, <1>9, Settled
<1> QED BY <1>10 DEF M

\* A task that is not ready is kept.
LEMMA KeepChunks ==
  ASSUME NEW X, NEW host, NEW on \in Seq(X), NEW from \in Nat \ {0},
         NEW rem \in Seq(X), from <= Len(on),
         NEW E, Partition(E, HeldLists(host, on, from, rem))
  PROVE  Partition(E, HeldLists(host, on, from + 1, Append(rem, on[from])))
<1> DEFINE L == HeldLists(host, on, from, rem)
           next == from + 1
           kept2 == Append(rem, on[from])
           M == HeldLists(host, on, next, kept2)
           e == Len(rem) + 1
           m == [k \in DOMAIN M |-> IF k = -e THEN from ELSE k]
<1>0. next \in Nat \ {0} /\ from \in 1..Len(on) /\ on[from] \in X /\ Len(rem) \in Nat
  OBVIOUS
<1>1. /\ \A k : k \in DOMAIN L <=> \/ k = 0 \/ (k \in 1..Len(on) /\ k >= from)
                                   \/ \E i \in 1..Len(rem) : k = -i
      /\ L[0] = host
      /\ \A k \in 1..Len(on) : k >= from => L[k] = on[k].fresh
      /\ \A i \in 1..Len(rem) : L[-i] = rem[i].fresh
  <2>1. Holds(L, host, on, from, rem)
    BY HeldIs
  <2> HIDE DEF L
  <2> QED BY <2>1 DEF Holds
<1>2. /\ kept2 \in Seq(X) /\ Len(kept2) = e /\ kept2[e] = on[from]
      /\ \A i \in 1..Len(rem) : kept2[i] = rem[i]
  BY <1>0, AppendProperties
<1>3. /\ \A k : k \in DOMAIN M <=> \/ k = 0 \/ (k \in 1..Len(on) /\ k >= next)
                                   \/ \E i \in 1..Len(kept2) : k = -i
      /\ M[0] = host
      /\ \A k \in 1..Len(on) : k >= next => M[k] = on[k].fresh
      /\ \A i \in 1..Len(kept2) : M[-i] = kept2[i].fresh
  <2> HIDE DEF next, kept2
  <2>1. Holds(M, host, on, next, kept2)
    BY <1>0, <1>2, HeldIs
  <2> HIDE DEF M
  <2> QED BY <2>1 DEF Holds
<1>4. Partition(E, L)
  OBVIOUS
<1>5. \A k \in DOMAIN M : m[k] = IF k = -e THEN from ELSE k
  OBVIOUS
<1> HIDE DEF L, M, m, kept2
<1>6. -e \in DOMAIN M /\ M[-e] = on[from].fresh /\ m[-e] = from /\ e \in Nat /\ e > 0
  <2>1. e \in 1..Len(kept2)
    BY <1>0, <1>2
  <2> QED BY <1>0, <1>2, <1>3, <1>5, <2>1
<1>7. ASSUME NEW k \in DOMAIN M, k # -e
      PROVE  k \in DOMAIN L /\ k # from /\ m[k] = k /\ M[k] = L[k]
  <2>1. CASE k = 0
    BY <1>0, <1>1, <1>3, <1>5, <1>7, <2>1
  <2>2. CASE k \in 1..Len(on) /\ k >= next
    BY <1>0, <1>1, <1>3, <1>5, <1>7, <2>2
  <2>3. CASE \E i \in 1..Len(kept2) : k = -i
    <3>1. PICK i \in 1..Len(kept2) : k = -i
      BY <2>3
    <3>2. i \in 1..Len(rem) /\ k # from
      BY <1>0, <1>2, <1>7, <3>1
    <3>3. M[-i] = rem[i].fresh /\ L[-i] = rem[i].fresh
      BY <1>1, <1>2, <1>3, <3>1, <3>2
    <3> QED BY <1>1, <1>5, <1>7, <3>1, <3>2, <3>3
  <2> QED BY <1>3, <2>1, <2>2, <2>3
<1>8. from \in DOMAIN L /\ L[from] = on[from].fresh
  BY <1>0, <1>1
<1>9. \A k \in DOMAIN M : m[k] \in DOMAIN L /\ M[k] = L[m[k]]
  BY <1>6, <1>7, <1>8
<1>10. \A k, l \in DOMAIN M : m[k] = m[l] => k = l
  BY <1>6, <1>7
<1>11. ASSUME NEW k \in DOMAIN L PROVE \E l \in DOMAIN M : m[l] = k
  <2>1. CASE k = from
    BY <1>6, <2>1
  <2>2. CASE k # from
    <3>1. k \in DOMAIN M
      <4>1. CASE k = 0
        BY <1>3, <4>1
      <4>2. CASE k \in 1..Len(on) /\ k >= from
        BY <1>0, <1>3, <2>2, <4>2
      <4>3. CASE \E i \in 1..Len(rem) : k = -i
        <5>1. \A i \in 1..Len(rem) : i \in 1..Len(kept2)
          BY <1>0, <1>2
        <5> QED BY <1>3, <4>3, <5>1
      <4> QED BY <1>1, <4>1, <4>2, <4>3
    <3>2. k # -e
      BY <1>0, <1>1
    <3> QED BY <1>7, <3>1, <3>2
  <2> QED BY <2>1, <2>2
<1>12. Partition(E, M)
  BY ONLY <1>4, <1>9, <1>10, <1>11, Renamed
<1> QED BY <1>12 DEF M, kept2

\* The tasks that are kept become the ongoing ones.
LEMMA ReturnChunks ==
  ASSUME NEW X, NEW host, NEW on \in Seq(X), NEW from \in Nat \ {0},
         NEW rem \in Seq(X), from > Len(on),
         NEW E, Partition(E, HeldLists(host, on, from, rem))
  PROVE  Partition(E, HeldLists(host, rem, 1, <<>>))
<1> DEFINE L == HeldLists(host, on, from, rem)
           none == <<>>
           M == HeldLists(host, rem, 1, none)
           m == [k \in DOMAIN M |-> -k]
<1>0. Len(rem) \in Nat /\ Len(on) \in Nat /\ none \in Seq(X) /\ Len(none) = 0 /\ 1 \in Nat \ {0}
  OBVIOUS
<1>1. /\ \A k : k \in DOMAIN L <=> \/ k = 0 \/ (k \in 1..Len(on) /\ k >= from)
                                   \/ \E i \in 1..Len(rem) : k = -i
      /\ L[0] = host
      /\ \A k \in 1..Len(on) : k >= from => L[k] = on[k].fresh
      /\ \A i \in 1..Len(rem) : L[-i] = rem[i].fresh
  <2>1. Holds(L, host, on, from, rem)
    BY HeldIs
  <2> HIDE DEF L
  <2> QED BY <2>1 DEF Holds
<1> HIDE DEF none
<1>2. /\ \A k : k \in DOMAIN M <=> \/ k = 0 \/ (k \in 1..Len(rem) /\ k >= 1)
                                   \/ \E i \in 1..Len(none) : k = -i
      /\ M[0] = host
      /\ \A k \in 1..Len(rem) : k >= 1 => M[k] = rem[k].fresh
  <2>1. Holds(M, host, rem, 1, none)
    BY <1>0, HeldIs
  <2> HIDE DEF M
  <2> QED BY <2>1 DEF Holds
<1>3. Partition(E, L)
  OBVIOUS
<1>4. \A k \in DOMAIN M : m[k] = -k
  OBVIOUS
<1> HIDE DEF L, M, m
<1>5. \A k : k \in DOMAIN M <=> k = 0 \/ k \in 1..Len(rem)
  BY <1>0, <1>2
<1>6. \A k : k \in DOMAIN L <=> k = 0 \/ \E i \in 1..Len(rem) : k = -i
  BY <1>0, <1>1
<1>7. ASSUME NEW k \in DOMAIN M PROVE m[k] \in DOMAIN L /\ M[k] = L[m[k]] /\ k \in Int
  <2>1. CASE k = 0
    BY <1>1, <1>2, <1>4, <1>6, <2>1
  <2>2. CASE k \in 1..Len(rem)
    BY <1>1, <1>2, <1>4, <1>6, <2>2
  <2> QED BY <1>5, <2>1, <2>2
<1>8. \A k, l \in DOMAIN M : m[k] = m[l] => k = l
  BY <1>4, <1>7
<1>9. ASSUME NEW k \in DOMAIN L PROVE \E l \in DOMAIN M : m[l] = k
  <2>1. CASE k = 0
    BY <1>4, <1>5, <2>1
  <2>2. CASE \E i \in 1..Len(rem) : k = -i
    BY <1>4, <1>5, <2>2
  <2> QED BY <1>6, <2>1, <2>2
<1>10. \A k \in DOMAIN M : m[k] \in DOMAIN L /\ M[k] = L[m[k]]
  BY <1>7
<1>11. Partition(E, M)
  BY ONLY <1>3, <1>8, <1>9, <1>10, Renamed
<1> QED BY <1>11 DEF M, none

\* An exception that ends a poll in which nothing was settled: the tasks visited
\* are in remain and become ongoing again.
LEMMA RaiseChunks ==
  ASSUME NEW X, NEW host, NEW on \in Seq(X), NEW from \in Nat \ {0},
         NEW rem \in Seq(X), from = Len(rem) + 1, from <= Len(on),
         \A i \in 1..Len(rem) : rem[i] = on[i],
         NEW E, Partition(E, HeldLists(host, on, from, rem))
  PROVE  Partition(E, HeldLists(host, on, 1, <<>>))
<1> DEFINE L == HeldLists(host, on, from, rem)
           none == <<>>
           M == HeldLists(host, on, 1, none)
           m == [k \in DOMAIN M |-> IF k >= from THEN k ELSE -k]
<1>0. Len(rem) \in Nat /\ Len(on) \in Nat /\ none \in Seq(X) /\ Len(none) = 0 /\ 1 \in Nat \ {0}
  OBVIOUS
<1>1. /\ \A k : k \in DOMAIN L <=> \/ k = 0 \/ (k \in 1..Len(on) /\ k >= from)
                                   \/ \E i \in 1..Len(rem) : k = -i
      /\ L[0] = host
      /\ \A k \in 1..Len(on) : k >= from => L[k] = on[k].fresh
      /\ \A i \in 1..Len(rem) : L[-i] = rem[i].fresh
  <2>1. Holds(L, host, on, from, rem)
    BY HeldIs
  <2> HIDE DEF L
  <2> QED BY <2>1 DEF Holds
<1> HIDE DEF none
<1>2. /\ \A k : k \in DOMAIN M <=> \/ k = 0 \/ (k \in 1..Len(on) /\ k >= 1)
                                   \/ \E i \in 1..Len(none) : k = -i
      /\ M[0] = host
      /\ \A k \in 1..Len(on) : k >= 1 => M[k] = on[k].fresh
  <2>1. Holds(M, host, on, 1, none)
    BY <1>0, HeldIs
  <2> HIDE DEF M
  <2> QED BY <2>1 DEF Holds
<1>3. Partition(E, L)
  OBVIOUS
<1>4. \A k \in DOMAIN M : m[k] = IF k >= from THEN k ELSE -k
  OBVIOUS
<1> HIDE DEF L, M, m
<1>5. \A k : k \in DOMAIN M <=> k = 0 \/ k \in 1..Len(on)
  BY <1>0, <1>2
<1>6. ASSUME NEW k \in DOMAIN M PROVE m[k] \in DOMAIN L /\ M[k] = L[m[k]] /\ k \in Int /\ k >= 0
  <2>1. CASE k = 0
    BY <1>0, <1>1, <1>2, <1>4, <2>1
  <2>2. CASE k \in 1..Len(on) /\ k >= from
    BY <1>1, <1>2, <1>4, <2>2
  <2>3. CASE k \in 1..Len(on) /\ ~(k >= from)
    <3>1. k \in 1..Len(rem) /\ m[k] = -k
      BY <1>0, <1>4, <2>3
    <3> QED BY <1>1, <1>2, <2>3, <3>1
  <2> QED BY <1>5, <2>1, <2>2, <2>3
<1>7. \A k, l \in DOMAIN M : m[k] = m[l] => k = l
  <2> SUFFICES ASSUME NEW k \in DOMAIN M, NEW l \in DOMAIN M, m[k] = m[l] PROVE k = l
    OBVIOUS
  <2>1. k \in Int /\ k >= 0 /\ l \in Int /\ l >= 0 /\ from \in Int
    BY <1>6
  <2> QED BY <1>4, <2>1
<1>8. ASSUME NEW k \in DOMAIN L PROVE \E l \in DOMAIN M : m[l] = k
  <2>1. CASE k = 0 \/ (k \in 1..Len(on) /\ k >= from)
    BY <1>0, <1>4, <1>5, <2>1
  <2>2. ASSUME NEW i \in 1..Len(rem), k = -i PROVE \E l \in DOMAIN M : m[l] = k
    <3>1. i \in 1..Len(on) /\ ~(i >= from)
      BY <1>0
    <3> QED BY <1>4, <1>5, <2>2, <3>1
  <2> QED BY <1>1, <2>1, <2>2
<1>9. \A k \in DOMAIN M : m[k] \in DOMAIN L /\ M[k] = L[m[k]]
  BY <1>6
<1>10. Partition(E, M)
  BY ONLY <1>3, <1>7, <1>8, <1>9, Renamed
<1> QED BY <1>10 DEF M, none

\* The host evicts users.
LEMMA DropChunks ==
  ASSUME NEW X, NEW host, NEW on \in Seq(X), NEW from \in Nat \ {0}, NEW rem \in Seq(X),
         NEW E, Partition(E, HeldLists(host, on, from, rem)), NEW out, NEW F, NEW to,
         Emptied(E, host, out, F, to)
  PROVE  Partition(F, HeldLists(to, on, from, rem))
<1> DEFINE L == HeldLists(host, on, from, rem)
           M == HeldLists(to, on, from, rem)
           z == 0
<1>1. Holds(L, host, on, from, rem) /\ Holds(M, to, on, from, rem)
  BY HeldIs
<1>2. Partition(E, L)
  OBVIOUS
<1> HIDE DEF L, M
<1>3. DOMAIN M = DOMAIN L
  <2>1. \A k : k \in DOMAIN M <=> k \in DOMAIN L
    BY ONLY <1>1 DEF Holds
  <2> QED BY <2>1
<1>4. ASSUME NEW k \in DOMAIN L, k # 0 PROVE M[k] = L[k]
  <2>1. \/ k \in 1..Len(on) /\ k >= from
        \/ \E i \in 1..Len(rem) : k = -i
    BY <1>1, <1>4 DEF Holds
  <2> QED BY <1>1, <2>1 DEF Holds
<1>5. z \in DOMAIN L /\ L[z] = host /\ M[z] = to
  BY <1>1 DEF Holds
<1>6. \A k \in DOMAIN L : k # z => M[k] = L[k]
  BY <1>4
<1> HIDE DEF z
<1>7. Drops(E, L, z, out, F, M)
  BY <1>3, <1>5, <1>6 DEF Drops, Emptied
<1>8. Partition(F, M)
  BY ONLY <1>2, <1>7, Dropped
<1> QED BY <1>8 DEF M

\* A launched offload takes fresh chunks.
LEMMA TakeChunks ==
  ASSUME NEW X, NEW host, NEW on \in Seq(X), NEW h \in X,
         NEW E, Partition(E, HeldLists(host, on, 1, <<>>)), NEW F,
         \A u \in User : \A i \in 1..Len(h.fresh[u]) : h.fresh[u][i] \in E,
         \A u, v \in User : \A i \in 1..Len(h.fresh[u]), n \in 1..Len(h.fresh[v]) :
            h.fresh[u][i] = h.fresh[v][n] => u = v /\ i = n,
         \A c : c \in F <=> c \in E /\ \A u \in User : \A i \in 1..Len(h.fresh[u]) : h.fresh[u][i] # c
  PROVE  Partition(F, HeldLists(host, Append(on, h), 1, <<>>))
<1> DEFINE none == <<>>
           more == Append(on, h)
           L == HeldLists(host, on, 1, none)
           M == HeldLists(host, more, 1, none)
           j == Len(on) + 1
<1>0. Len(on) \in Nat /\ none \in Seq(X) /\ Len(none) = 0 /\ 1 \in Nat \ {0}
  OBVIOUS
<1>1. more \in Seq(X) /\ Len(more) = j /\ more[j] = h /\ \A i \in 1..Len(on) : more[i] = on[i]
  BY AppendProperties
<1>2. Partition(E, L)
  OBVIOUS
<1> HIDE DEF none, more
<1>3. Holds(L, host, on, 1, none) /\ Holds(M, host, more, 1, none)
  BY <1>0, <1>1, HeldIs
<1> HIDE DEF L, M
<1>4. \A k : k \in DOMAIN L <=> k = 0 \/ k \in 1..Len(on)
  BY <1>0, <1>3 DEF Holds
<1>5. \A k : k \in DOMAIN M <=> k = 0 \/ k \in 1..j
  BY <1>0, <1>1, <1>3 DEF Holds
<1>6. j \notin DOMAIN L /\ j \in 1..j /\ j \in Nat
  BY <1>0, <1>4
<1>7. \A k : k \in DOMAIN M <=> k \in DOMAIN L \/ k = j
  BY <1>0, <1>4, <1>5
<1>8. ASSUME NEW k \in DOMAIN L PROVE M[k] = L[k]
  <2>1. CASE k = 0
    BY <1>3, <2>1 DEF Holds
  <2>2. CASE k \in 1..Len(on)
    <3>1. k >= 1 /\ k \in 1..Len(more) /\ more[k] = on[k]
      BY <1>0, <1>1, <2>2
    <3> QED BY <1>3, <2>2, <3>1 DEF Holds
  <2> QED BY <1>4, <2>1, <2>2
<1>9. M[j] = h.fresh
  <2>1. j >= 1 /\ j \in 1..Len(more) /\ more[j] = h
    BY <1>0, <1>1
  <2> HIDE DEF j
  <2> QED BY <1>3, <2>1 DEF Holds
<1> HIDE DEF j
<1>10. DOMAIN M = DOMAIN L \cup {j}
  BY <1>7
<1>11. Enters(E, L, j, F, M)
  BY <1>6, <1>8, <1>9, <1>10 DEF Enters
<1>12. Partition(F, M)
  BY ONLY <1>2, <1>11, Taken
<1> QED BY <1>12 DEF M, none, more

-----------------------------------------------------------------------------
(***************************************************************************)
(* The pinned buffer.                                                      *)
(***************************************************************************)
ChunkTypes ==
    /\ emptyChunks \subseteq Chunk
    /\ hostChunks \in [User -> Seq(Chunk)]
    /\ hostLru \in Seq(User)

\* Between two polls the loop of offload_try_wait has no state of its own.
PollFresh == pc # "poll" => polled = 1 /\ remain = <<>>

ChunkInv == ChunkTypes /\ PollFresh /\ ChunkPartition

\* The elements of a list of chunks.
LEMMA RangeIs ==
  ASSUME NEW X, NEW s \in Seq(X), NEW c
  PROVE  c \in Range(s) <=> \E i \in 1..Len(s) : c = s[i]
BY DEF Range

\* Reversing a list keeps its elements.
LEMMA ReverseType ==
  ASSUME NEW X, NEW s \in Seq(X)
  PROVE  Reverse(s) \in Seq(X)
<1>1. Len(s) \in Nat /\ \A i \in 1..Len(s) : s[i] \in X
  OBVIOUS
<1>2. \A i \in 1..Len(s) : (Len(s) - i) + 1 \in 1..Len(s)
  BY <1>1
<1>3. Reverse(s) \in [1..Len(s) -> X]
  BY <1>1, <1>2 DEF Reverse
<1> QED BY <1>1, <1>3

\* What a settled task adds to the free chunks, as FinishOffload and CancelOffload
\* write it.
GivesBack(E, h, done, F) == F = E \cup UNION {Range(h.fresh[u]) : u \in HandleUsers(h) \ done}

\* The chunks a settled task gives back are those of the users it is not done for.
LEMMA GivenBack ==
  ASSUME NEW h, NEW H, HandleOK(h, H), NEW done, NEW E, NEW F, GivesBack(E, h, done, F)
  PROVE  Returned(E, h.fresh, done, F) /\ (E \subseteq Chunk => F \subseteq Chunk)
<1>1. /\ h.fresh \in [User -> Seq(Chunk)] /\ HandleUsers(h) \subseteq User
      /\ \A u \in User : u \notin HandleUsers(h) => h.fresh[u] = <<>>
  BY DEF HandleOK, HandleUsers, Range
<1>2. ASSUME NEW u \in User, NEW c PROVE c \in Range(h.fresh[u]) <=> \E i \in 1..Len(h.fresh[u]) : c = h.fresh[u][i]
  <2>1. h.fresh[u] \in Seq(Chunk)
    BY <1>1
  <2> QED BY <2>1, RangeIs
<1>3. ASSUME NEW u \in User, NEW c, c \in Range(h.fresh[u]) PROVE u \in HandleUsers(h) /\ c \in Chunk
  <2>1. h.fresh[u] \in Seq(Chunk)
    BY <1>1
  <2>2. PICK i \in 1..Len(h.fresh[u]) : c = h.fresh[u][i]
    BY <1>2, <1>3
  <2>3. c \in Chunk
    BY <2>1, <2>2
  <2>4. u \in HandleUsers(h)
    <3> SUFFICES ASSUME u \notin HandleUsers(h) PROVE FALSE
      OBVIOUS
    <3>1. h.fresh[u] = <<>>
      BY <1>1
    <3> QED BY <2>2, <3>1
  <2> QED BY <2>3, <2>4
<1>4. \A c : c \in F <=> c \in E \/ \E u \in User : u \notin done /\ c \in Range(h.fresh[u])
  BY <1>1, <1>3 DEF GivesBack
<1>5. E \subseteq Chunk => F \subseteq Chunk
  BY <1>3, <1>4
<1>6. ASSUME NEW c
      PROVE  c \in F <=> c \in E \/ \E u \in User : u \notin done /\ \E i \in 1..Len(h.fresh[u]) : c = h.fresh[u][i]
  <2>1. \A u \in User : c \in Range(h.fresh[u]) <=> \E i \in 1..Len(h.fresh[u]) : c = h.fresh[u][i]
    BY <1>2
  <2>2. c \in F <=> c \in E \/ \E u \in User : u \notin done /\ c \in Range(h.fresh[u])
    BY <1>4
  <2> QED BY ONLY <2>1, <2>2, Zenon
<1> QED BY <1>5, <1>6 DEF Returned

\* The chunks of evicted users.
LEMMA EvictedChunks ==
  ASSUME ChunkTypes, NEW out, out \subseteq User
  PROVE  /\ \A c : c \in emptyChunks \cup ChunksOf(out) <=>
                     c \in emptyChunks \/ \E u \in User : u \in out /\ \E i \in 1..Len(hostChunks[u]) : c = hostChunks[u][i]
         /\ emptyChunks \cup ChunksOf(out) \subseteq Chunk
<1>1. ASSUME NEW u \in User, NEW c PROVE c \in Range(hostChunks[u]) <=> \E i \in 1..Len(hostChunks[u]) : c = hostChunks[u][i]
  <2>1. hostChunks[u] \in Seq(Chunk)
    BY DEF ChunkTypes
  <2> QED BY <2>1, RangeIs
<1>2. ASSUME NEW u \in User, NEW i \in 1..Len(hostChunks[u]) PROVE hostChunks[u][i] \in Chunk
  <2>1. hostChunks[u] \in Seq(Chunk)
    BY DEF ChunkTypes
  <2> QED BY <2>1
<1>3. \A c : c \in ChunksOf(out) <=> \E u \in User : u \in out /\ c \in Range(hostChunks[u])
  BY DEF ChunksOf
<1>4. \A c : c \in ChunksOf(out) <=> \E u \in User : u \in out /\ \E i \in 1..Len(hostChunks[u]) : c = hostChunks[u][i]
  <2> SUFFICES ASSUME NEW c
               PROVE  c \in ChunksOf(out) <=> \E u \in User : u \in out /\ \E i \in 1..Len(hostChunks[u]) : c = hostChunks[u][i]
    OBVIOUS
  <2>1. \A u \in User : c \in Range(hostChunks[u]) <=> \E i \in 1..Len(hostChunks[u]) : c = hostChunks[u][i]
    BY <1>1
  <2>2. c \in ChunksOf(out) <=> \E u \in User : u \in out /\ c \in Range(hostChunks[u])
    BY <1>3
  <2> QED BY ONLY <2>1, <2>2, Zenon
<1>5. ChunksOf(out) \subseteq Chunk
  BY <1>2, <1>4
<1> QED BY <1>4, <1>5 DEF ChunkTypes

\* Victims are users.
LEMMA PlanUsers ==
  ASSUME ChunkTypes, NEW users, NEW needed, NEW out \in EvictionPlans(users, needed)
  PROVE  out \subseteq User
<1> DEFINE cand == Victims(users)
<1>1. cand \in Seq(User)
  <2>1. Reverse(hostLru) \in Seq(User)
    BY ReverseType DEF ChunkTypes
  <2> QED BY <2>1, WithoutProps DEF Victims
<1>2. PICK n \in 0..Len(cand) : out = FirstOf(cand, n)
  BY DEF EvictionPlans
<1> HIDE DEF cand
<1>3. \A i \in 1..n : cand[i] \in User
  BY <1>1, <1>2
<1> QED BY <1>2, <1>3 DEF FirstOf

\* What a launch does to the buffer.
LaunchParts(users, sent, fresh, out) ==
    /\ out \subseteq User
    /\ fresh \in FreshLists(users, hostLen, sent, emptyChunks \cup ChunksOf(out))
    /\ emptyChunks' = (emptyChunks \cup ChunksOf(out)) \ UNION {Range(fresh[u]) : u \in User}
    /\ hostChunks' = [u \in User |-> IF u \in out THEN <<>> ELSE hostChunks[u]]
    /\ hostLru' = Without(hostLru, out)

\* offload_launch leaves the buffer alone or takes what LaunchParts says for one new handle.
LEMMA LaunchIs ==
  ASSUME CacheInv, ChunkTypes, OffloadLaunch
  PROVE  \/ UNCHANGED <<emptyChunks, hostChunks, hostLru, ongoing>>
         \/ \E users, fresh, sent, out, h :
               /\ users \in Seq(User)
               /\ \A u \in User : hostLen[u] \in Nat /\ Len(sent[u]) \in Nat
               /\ LaunchParts(users, sent, fresh, out)
               /\ ongoing' = Append(ongoing, h) /\ h.fresh = fresh
<1> DEFINE check == CheckForOffload(batch)
           users == Only(check, {u \in User : Acquires(u, hostLen)})
           sent == [u \in User |-> IF Contains(users, u) THEN Slice(u, hostLen) ELSE <<>>]
<1>1. \/ UNCHANGED <<emptyChunks, hostChunks, hostLru, ongoing>>
      \/ \E fresh : Launch(users, fresh)
  BY DEF OffloadLaunch, hostVars
<1>2. GPUTypeOK /\ batch \in Seq(User)
  BY PartsOfInv DEF CacheInv, GPUInv, GPUTypeOK
<1>3. check \in Seq(User)
  BY <1>2, CheckUsers
<1> HIDE DEF check
<1>4. users \in Seq(User)
  BY <1>3, OnlyProps
<1> HIDE DEF users
<1>5. \A u \in User : hostLen[u] \in Nat /\ Len(sent[u]) \in Nat
  BY LengthTypes, SliceLengths
<1>6. ASSUME NEW fresh, Launch(users, fresh)
      PROVE  \E out, h : LaunchParts(users, sent, fresh, out) /\ ongoing' = Append(ongoing, h) /\ h.fresh = fresh
  <2> DEFINE h == [id |-> Min(FreeIds), users |-> users,
                   start |-> Of(Range(users), hostLen), pages |-> sent, fresh |-> fresh,
                   chunks |-> [u \in User |-> IF Contains(users, u)
                                              THEN Written(u, hostLen, fresh) ELSE <<>>]]
  <2>1. LaunchOffload(users, hostLen, sent, fresh) /\ ongoing' = Append(ongoing, h)
    BY <1>6 DEF Launch
  <2>2. h.fresh = fresh
    OBVIOUS
  <2> HIDE DEF h, sent
  <2>3. PICK out \in EvictionPlans(users, Needed(users, hostLen, sent)) :
           /\ fresh \in FreshLists(users, hostLen, sent, emptyChunks \cup ChunksOf(out))
           /\ emptyChunks' = (emptyChunks \cup ChunksOf(out)) \ UNION {Range(fresh[u]) : u \in User}
           /\ hostChunks' = [u \in User |-> IF u \in out THEN <<>> ELSE hostChunks[u]]
           /\ hostLru' = Without(hostLru, out)
    BY <2>1 DEF LaunchOffload
  <2>4. out \subseteq User
    BY <2>3, PlanUsers
  <2>5. LaunchParts(users, sent, fresh, out)
    BY <2>3, <2>4 DEF LaunchParts
  <2> QED BY <2>1, <2>2, <2>5
<1> HIDE DEF sent
<1> QED BY <1>1, <1>4, <1>5, <1>6

\* The loop variables of offload_try_wait are fresh between polls.
LEMMA PollFreshStep ==
  ASSUME PollFresh, [Next]_vars
  PROVE  PollFresh'
<1>1. CASE UNCHANGED <<pc, polled, remain>>
  BY <1>1 DEF PollFresh
<1>2. ASSUME NEW b \in Batch, NEW tot \in [User -> Lengths], Lookup(b, tot) PROVE PollFresh'
  BY <1>2 DEF Lookup, PollFresh
<1>3. CASE Allocate \/ AllocateStep \/ Onboard \/ Forward
  BY <1>3 DEF Allocate, AllocateStep, Onboard, Forward, pollVars, PollFresh
<1>4. CASE OffloadLaunch
  BY <1>4 DEF OffloadLaunch, PollFresh
<1>5. CASE PollReady \/ PollLaunched \/ PollTimeout
  BY <1>5 DEF PollReady, PollLaunched, PollTimeout, Settle, Polling, PollFresh
<1>6. CASE PollRaise \/ PollReturn \/ OffloadFlush
  BY <1>6 DEF PollRaise, PollReturn, OffloadFlush, PollFresh
<1>7. CASE OffloadCopy \/ ClientEvictAllGPU \/ ClientEvictAllHost \/ Crashed \/ UNCHANGED vars
  BY <1>1, <1>7 DEF OffloadCopy, ClientEvictAllGPU, ClientEvictAllHost, Crashed, pollVars, vars
<1>8. CASE \E u \in User : ClientEvictGPU(u) \/ ClientEvictHost(u)
  BY <1>1, <1>8 DEF ClientEvictGPU, ClientEvictHost, pollVars
<1> QED BY <1>2, <1>3, <1>4, <1>5, <1>6, <1>7, <1>8 DEF Next, ThreadStep

\* finish_offload and cancel_offload on the buffer.
LEMMA SettlePart ==
  ASSUME CacheInv, ChunkInv, PollReady \/ PollTimeout
  PROVE  ChunkTypes' /\ ChunkPartition'
<1> DEFINE h == Task
<1>1. Polling /\ UNCHANGED <<ongoing, remain>> /\ polled' = polled + 1
  BY DEF PollReady, PollTimeout, Settle
<1>2. HandleOK(h, history)
  BY <1>1, PolledTask
<1>3. polled \in Nat \ {0} /\ polled <= Len(ongoing)
  BY <1>1 DEF Polling, CacheInv, TasksOK
<1>4. PICK X : ongoing \in Seq(X) /\ remain \in Seq(X)
  <2>1. PICK Y : ongoing \in Seq(Y)
    BY DEF CacheInv, TasksOK, HandlesOK, IsSeq
  <2>2. PICK Z : remain \in Seq(Z)
    BY DEF CacheInv, TasksOK, HandlesOK, IsSeq
  <2>3. ongoing \in Seq(Y \cup Z) /\ remain \in Seq(Y \cup Z)
    BY <2>1, <2>2
  <2> QED BY <2>3
<1>5. /\ emptyChunks \subseteq Chunk /\ hostChunks \in [User -> Seq(Chunk)] /\ hostLru \in Seq(User)
      /\ Partition(emptyChunks, HeldLists(hostChunks, ongoing, polled, remain))
  BY DEF ChunkInv, ChunkTypes, ChunkPartition
<1>6. h = ongoing[polled]
  BY DEF Task
<1>7. h.fresh \in [User -> Seq(Chunk)] /\ h.users \in Seq(User)
  BY <1>2 DEF HandleOK
<1> HIDE DEF h
<1>8. \E done : /\ emptyChunks' = emptyChunks \cup UNION {Range(h.fresh[u]) : u \in HandleUsers(h) \ done}
                /\ hostChunks' \in [User -> Seq(Chunk)]
                /\ Extended(hostChunks, h.fresh, done, hostChunks')
                /\ hostLru' \in Seq(User)
  <2>1. CASE PollReady
    <3> DEFINE done == FinishedUsers(h)
               new == Only(h.users, done)
    <3>1. /\ emptyChunks' = emptyChunks \cup UNION {Range(h.fresh[u]) : u \in HandleUsers(h) \ done}
          /\ hostChunks' = [u \in User |-> IF u \in done THEN hostChunks[u] \o h.fresh[u]
                                           ELSE hostChunks[u]]
          /\ hostLru' = Reverse(new) \o Without(hostLru, done)
      BY <2>1 DEF PollReady, FinishOffload, h
    <3> HIDE DEF done
    <3>2. hostLru' \in Seq(User)
      <4>1. new \in Seq(User) /\ Without(hostLru, done) \in Seq(User)
        BY <1>5, <1>7, OnlyProps, WithoutProps
      <4> HIDE DEF new
      <4>2. Reverse(new) \in Seq(User)
        BY <4>1, ReverseType
      <4> QED BY <3>1, <4>1, <4>2
    <3>3. \A u \in User : hostChunks[u] \in Seq(Chunk) /\ h.fresh[u] \in Seq(Chunk)
      BY <1>5, <1>7
    <3>4. \A u \in User : hostChunks[u] \o h.fresh[u] \in Seq(Chunk)
      BY <3>3
    <3>5. hostChunks' \in [User -> Seq(Chunk)]
      BY <3>1, <3>3, <3>4
    <3>6. Extended(hostChunks, h.fresh, done, hostChunks')
      BY <3>1 DEF Extended
    <3> QED BY <3>1, <3>2, <3>5, <3>6
  <2>2. CASE PollTimeout
    <3>1. /\ emptyChunks' = emptyChunks \cup UNION {Range(h.fresh[u]) : u \in HandleUsers(h) \ {}}
          /\ hostChunks' = hostChunks /\ hostLru' = hostLru
      BY <2>2 DEF PollTimeout, CancelOffload, h
    <3>2. Extended(hostChunks, h.fresh, {}, hostChunks')
      BY <3>1 DEF Extended
    <3> WITNESS {}
    <3> QED BY <1>5, <3>1, <3>2
  <2> QED BY <2>1, <2>2
<1>9. PICK done : /\ emptyChunks' = emptyChunks \cup UNION {Range(h.fresh[u]) : u \in HandleUsers(h) \ done}
                  /\ hostChunks' \in [User -> Seq(Chunk)]
                  /\ Extended(hostChunks, h.fresh, done, hostChunks')
                  /\ hostLru' \in Seq(User)
  BY <1>8
<1>10. Returned(emptyChunks, h.fresh, done, emptyChunks') /\ emptyChunks' \subseteq Chunk
  <2> DEFINE E == emptyChunks
             F == emptyChunks'
             H == history
  <2>1. GivesBack(E, h, done, F) /\ HandleOK(h, H)
    BY <1>2, <1>9 DEF GivesBack
  <2>2. E \subseteq Chunk
    BY <1>5
  <2> HIDE DEF E, F, H
  <2>3. Returned(E, h.fresh, done, F) /\ (E \subseteq Chunk => F \subseteq Chunk)
    BY ONLY <2>1, GivenBack
  <2> QED BY <2>2, <2>3 DEF E, F
<1>11. Partition(emptyChunks', HeldLists(hostChunks', ongoing, polled + 1, remain))
  <2> DEFINE E == emptyChunks
             F == emptyChunks'
             host == hostChunks
             to == hostChunks'
             on == ongoing
             from == polled
             rem == remain
  <2>1. /\ host \in [User -> Seq(Chunk)] /\ on \in Seq(X) /\ from \in Nat \ {0}
        /\ rem \in Seq(X) /\ from <= Len(on) /\ on[from].fresh \in [User -> Seq(Chunk)]
        /\ Partition(E, HeldLists(host, on, from, rem))
        /\ Extended(host, on[from].fresh, done, to) /\ Returned(E, on[from].fresh, done, F)
    BY <1>3, <1>4, <1>5, <1>6, <1>7, <1>9, <1>10
  <2> HIDE DEF E, F, host, to, on, from, rem
  <2>2. Partition(F, HeldLists(to, on, from + 1, rem))
    BY ONLY <2>1, SettleChunks
  <2> QED BY <2>2 DEF E, F, host, to, on, from, rem
<1>12. ChunkPartition'
  BY <1>1, <1>11 DEF ChunkPartition
<1> QED BY <1>9, <1>10, <1>12 DEF ChunkTypes

\* offload_launch on the buffer.
LEMMA LaunchPart ==
  ASSUME CacheInv, ChunkInv, OffloadLaunch
  PROVE  ChunkTypes' /\ ChunkPartition'
<1>0. UNCHANGED <<polled, remain>> /\ polled = 1 /\ remain = <<>>
  BY DEF OffloadLaunch, ChunkInv, PollFresh
<1>1. CASE UNCHANGED <<emptyChunks, hostChunks, hostLru, ongoing>>
  BY <1>0, <1>1 DEF ChunkInv, ChunkTypes, ChunkPartition
<1>2. ASSUME NEW users, NEW fresh, NEW sent, NEW out, NEW h, users \in Seq(User),
             \A u \in User : hostLen[u] \in Nat /\ Len(sent[u]) \in Nat,
             LaunchParts(users, sent, fresh, out), ongoing' = Append(ongoing, h), h.fresh = fresh
      PROVE  ChunkTypes' /\ ChunkPartition'
  <2>1. PICK Y : ongoing \in Seq(Y)
    BY DEF CacheInv, TasksOK, HandlesOK, IsSeq
  <2> DEFINE X == Y \cup {h}
             pool == emptyChunks \cup ChunksOf(out)
             none == <<>>
  <2>2. ongoing \in Seq(X) /\ h \in X /\ none \in Seq(X)
    BY <2>1
  <2>3. /\ out \subseteq User
        /\ fresh \in FreshLists(users, hostLen, sent, pool)
        /\ emptyChunks' = pool \ UNION {Range(fresh[u]) : u \in User}
        /\ hostChunks' = [u \in User |-> IF u \in out THEN <<>> ELSE hostChunks[u]]
        /\ hostLru' = Without(hostLru, out)
    BY <1>2 DEF LaunchParts
  <2>4. /\ \A c : c \in pool <=> c \in emptyChunks \/ \E u \in User : u \in out /\ \E i \in 1..Len(hostChunks[u]) : c = hostChunks[u][i]
        /\ pool \subseteq Chunk
    BY <2>3, EvictedChunks DEF ChunkInv
  <2> HIDE DEF X, pool, none
  <2>5. /\ fresh \in [User -> Seq(pool)]
        /\ \A u, v \in User : \A i \in 1..Len(fresh[u]), j \in 1..Len(fresh[v]) :
              fresh[u][i] = fresh[v][j] => u = v /\ i = j
    BY <1>2, <2>3, FreshProps
  <2>6. Partition(pool, HeldLists(hostChunks', ongoing, 1, none))
    <3> DEFINE E == emptyChunks
               host == hostChunks
               to == hostChunks'
               on == ongoing
               from == 1
    <3>1. /\ on \in Seq(X) /\ from \in Nat \ {0} /\ none \in Seq(X)
          /\ Partition(E, HeldLists(host, on, from, none))
          /\ Emptied(E, host, out, pool, to)
      <4>1. Emptied(E, host, out, pool, to)
        BY <2>3, <2>4 DEF Emptied
      <4> QED BY <1>0, <2>2, <4>1 DEF ChunkInv, ChunkPartition, none
    <3> HIDE DEF E, host, to, on, from
    <3>2. Partition(pool, HeldLists(to, on, from, none))
      BY ONLY <3>1, DropChunks
    <3> QED BY <3>2 DEF to, on, from
  <2>7. \A u \in User : \A i \in 1..Len(fresh[u]) : fresh[u][i] \in pool
    <3>1. \A u \in User : fresh[u] \in Seq(pool)
      BY <2>5
    <3> QED BY <3>1
  <2>8. ASSUME NEW c PROVE c \in emptyChunks' <=> c \in pool /\ \A u \in User : \A i \in 1..Len(fresh[u]) : fresh[u][i] # c
    <3>1. ASSUME NEW u \in User PROVE c \in Range(fresh[u]) <=> \E i \in 1..Len(fresh[u]) : c = fresh[u][i]
      <4>1. fresh[u] \in Seq(pool)
        BY <2>5
      <4> QED BY <4>1, RangeIs
    <3>2. c \in emptyChunks' <=> c \in pool /\ \A u \in User : c \notin Range(fresh[u])
      BY <2>3
    <3> QED BY <3>1, <3>2
  <2>9. Partition(emptyChunks', HeldLists(hostChunks', Append(ongoing, h), 1, <<>>))
    <3> DEFINE F == emptyChunks'
               host == hostChunks'
               on == ongoing
    <3>1. /\ on \in Seq(X) /\ h \in X
          /\ Partition(pool, HeldLists(host, on, 1, <<>>))
          /\ \A u \in User : \A i \in 1..Len(h.fresh[u]) : h.fresh[u][i] \in pool
          /\ \A u, v \in User : \A i \in 1..Len(h.fresh[u]), n \in 1..Len(h.fresh[v]) :
                h.fresh[u][i] = h.fresh[v][n] => u = v /\ i = n
          /\ \A c : c \in F <=> c \in pool /\ \A u \in User : \A i \in 1..Len(h.fresh[u]) : h.fresh[u][i] # c
      BY <1>2, <2>2, <2>5, <2>6, <2>7, <2>8 DEF none
    <3> HIDE DEF F, host, on
    <3>2. Partition(F, HeldLists(host, Append(on, h), 1, <<>>))
      BY ONLY <3>1, TakeChunks
    <3> QED BY <3>2 DEF F, host, on
  <2>10. ChunkPartition'
    BY <1>0, <1>2, <2>9 DEF ChunkPartition
  <2>11. emptyChunks' \subseteq Chunk
    BY <2>3, <2>4
  <2>12. hostChunks' \in [User -> Seq(Chunk)]
    <3>1. hostChunks \in [User -> Seq(Chunk)] /\ <<>> \in Seq(Chunk)
      BY DEF ChunkInv, ChunkTypes
    <3> QED BY <2>3, <3>1
  <2>13. hostLru' \in Seq(User)
    BY <2>3, WithoutProps DEF ChunkInv, ChunkTypes
  <2> QED BY <2>10, <2>11, <2>12, <2>13 DEF ChunkTypes
<1>3. ChunkTypes
  BY DEF ChunkInv
<1> QED BY <1>1, <1>2, <1>3, LaunchIs

\* evict and evict_all of the host, with nothing under way.
LEMMA EvictPart ==
  ASSUME CacheInv, ChunkInv, ClientEvictAllHost \/ \E u \in User : ClientEvictHost(u)
  PROVE  ChunkTypes' /\ ChunkPartition'
<1>0. UNCHANGED <<ongoing, polled, remain>> /\ ongoing = <<>> /\ polled = 1 /\ remain = <<>>
  BY DEF ClientEvictAllHost, ClientEvictHost, ClientQuiet, pollVars, ChunkInv, PollFresh
<1>1. /\ emptyChunks \subseteq Chunk /\ hostChunks \in [User -> Seq(Chunk)] /\ hostLru \in Seq(User)
      /\ Partition(emptyChunks, HeldLists(hostChunks, ongoing, polled, remain))
  BY DEF ChunkInv, ChunkTypes, ChunkPartition
<1> DEFINE none == <<>>
<1>2. none \in Seq({}) /\ Len(none) = 0 /\ ongoing = none /\ remain = none /\ none \in Seq(Chunk)
  BY <1>0
<1>3. CASE ClientEvictAllHost
  <2>1. emptyChunks' = Chunk /\ hostChunks' = NoList /\ hostLru' = hostLru
    BY <1>3 DEF ClientEvictAllHost, HostEvictAll
  <2> DEFINE M == HeldLists(NoList, none, 1, none)
  <2>2. Holds(M, NoList, none, 1, none)
    <3> DEFINE host == NoList
               from == 1
    <3>1. none = <<>> /\ from = 1
      OBVIOUS
    <3> HIDE DEF none, host, from
    <3>2. Holds(HeldLists(host, none, from, none), host, none, from, none)
      BY ONLY <3>1, NothingUnderWay
    <3> QED BY <3>2 DEF host, from
  <2> HIDE DEF M, none
  <2>3. \A k : k \in DOMAIN M => k = 0 /\ M[k] = NoList
    BY <1>2, <2>2 DEF Holds
  <2>4. ASSUME NEW p \in ListPlaces(M) PROVE FALSE
    <3>1. PICK k \in DOMAIN M, u \in User : \E i \in 1..Len(M[k][u]) : p = <<k, u, i>>
      BY PlaceIs
    <3>2. M[k][u] = <<>>
      BY <2>3 DEF NoList
    <3> QED BY <3>1, <3>2
  <2>5. Partition(Chunk, M)
    BY <2>4 DEF Partition
  <2>6. ChunkPartition'
    BY <1>0, <1>2, <2>1, <2>5 DEF ChunkPartition, M
  <2>7. NoList \in [User -> Seq(Chunk)]
    BY <1>2 DEF NoList, none
  <2> QED BY <1>1, <2>1, <2>6, <2>7 DEF ChunkTypes
<1>4. ASSUME NEW u \in User, ClientEvictHost(u) PROVE ChunkTypes' /\ ChunkPartition'
  <2>1. /\ emptyChunks' = emptyChunks \cup Range(hostChunks[u])
        /\ hostChunks' = [hostChunks EXCEPT ![u] = <<>>]
        /\ hostLru' = Without(hostLru, {u}) \/ hostLru' = hostLru
    BY <1>4 DEF ClientEvictHost, HostEvict
  <2> DEFINE out == {u}
             pool == emptyChunks \cup ChunksOf(out)
  <2>2. emptyChunks' = pool
    BY <2>1 DEF ChunksOf
  <2>3. ChunkTypes /\ out \subseteq User
    BY DEF ChunkInv
  <2>4. /\ \A c : c \in pool <=> c \in emptyChunks \/ \E v \in User : v \in out /\ \E i \in 1..Len(hostChunks[v]) : c = hostChunks[v][i]
        /\ pool \subseteq Chunk
    <3> HIDE DEF out
    <3> QED BY <2>3, EvictedChunks
  <2>5. /\ \A v \in User : v \in out => hostChunks'[v] = <<>>
        /\ \A v \in User : v \notin out => hostChunks'[v] = hostChunks[v]
    BY <1>1, <2>1
  <2> DEFINE E == emptyChunks
             host == hostChunks
             to == hostChunks'
             from == 1
             X == Chunk
  <2> HIDE DEF out, pool
  <2>6. /\ none \in Seq(X) /\ from \in Nat \ {0}
        /\ Partition(E, HeldLists(host, none, from, none))
        /\ Emptied(E, host, out, pool, to)
    <3>1. Emptied(E, host, out, pool, to)
      BY <2>4, <2>5 DEF Emptied
    <3> QED BY <1>0, <1>1, <1>2, <3>1
  <2> HIDE DEF E, host, to, from, none, X
  <2>7. Partition(pool, HeldLists(to, none, from, none))
    BY ONLY <2>6, DropChunks
  <2>8. ChunkPartition'
    BY <1>0, <1>2, <2>2, <2>7 DEF ChunkPartition, to, from
  <2>9. hostChunks' \in [User -> Seq(Chunk)]
    <3>1. <<>> \in Seq(Chunk)
      OBVIOUS
    <3> QED BY <1>1, <2>1, <3>1
  <2>10. hostLru' \in Seq(User)
    BY <1>1, <2>1, WithoutProps
  <2> QED BY <2>2, <2>4, <2>8, <2>9, <2>10 DEF ChunkTypes
<1> QED BY <1>3, <1>4


-----------------------------------------------------------------------------
(***************************************************************************)
(* What the request was told and what allocate() keeps.                    *)
(***************************************************************************)
\* The request has been looked up and allocate() has not been called.
Waiting == pc = "allocate" \/ (pc = "poll" /\ ret = "allocate")
UnderWay == phase \in {"reconcile", "retain", "room", "returned"}

\* The page table has of u what the lookup saw.
AsLookedUp(u) == lookup.gpuStart[u] = startPos[u] /\ lookup.gpuLen[u] = cachedLen[u]

\* The cached length that allocate() computes for u.
KeptLen(u) == Larger(lookup.hostLen[u], lookup.gpuStart[u] + lookup.gpuLen[u])

\* What a lookup answers: a user that the GPU does not hold starts at 0, and the
\* host holds nothing beyond what the GPU does.
LookupTyped ==
    /\ lookup.gpuStart \in [User -> Nat] /\ lookup.gpuLen \in [User -> Nat]
    /\ lookup.hostLen \in [User -> Nat]
    /\ \A u \in User : IF lookup.gpuLen[u] = 0 THEN lookup.gpuStart[u] = 0
                       ELSE lookup.hostLen[u] <= lookup.gpuStart[u] + lookup.gpuLen[u]

KeptOK ==
    /\ LookupTyped
    /\ Waiting => \A i \in DOMAIN lookup.batch : AsLookedUp(lookup.batch[i])
    /\ UnderWay => batch = lookup.batch /\ total = lookup.total /\ hostHit = lookup.hostLen
    /\ phase = "reconcile" => \A i \in DOMAIN batch :
          AsLookedUp(batch[i]) /\ (i < at => kept[batch[i]] = KeptLen(batch[i]))
    /\ phase \in {"retain", "room", "returned"} =>
          \A i \in DOMAIN batch : kept[batch[i]] = KeptLen(batch[i])

\* With no gap the first loop of allocate() leaves the table as it was.
LEMMA ReconcileKeepsTable ==
  ASSUME CacheInv, KeptOK, NoGapAtLookup, Reconcile
  PROVE  /\ UNCHANGED <<tableVars, totalOffloaded, offloadLock>>
         /\ at \in 1..Len(batch) /\ batch[at] \in User /\ DOMAIN batch = 1..Len(batch)
         /\ kept' = [kept EXCEPT ![batch[at]] = KeptLen(batch[at])]
<1> DEFINE u == batch[at]
<1>1. /\ phase = "reconcile" /\ at \in 1..Len(batch) /\ batch \in Seq(User)
  BY DEF Reconcile, CacheInv, Parts, RequestSound, RequestType
<1>2. u \in User /\ DOMAIN batch = 1..Len(batch)
  BY <1>1
<1>3. AsLookedUp(u) /\ hostHit = lookup.hostLen
  BY <1>1, <1>2 DEF KeptOK, UnderWay
<1>4. /\ hostHit[u] \in Int /\ startPos[u] \in Int /\ cachedLen[u] \in Int
  BY <1>2, BoundsAssumption DEF CacheInv, Parts, RequestType, Table, TableType, Lengths
<1>5. ~(cachedLen[u] > 0 /\ hostHit[u] < startPos[u])
  BY <1>2, <1>3, <1>4 DEF NoGapAtLookup, AsLookedUp
<1>6. /\ kept' = [kept EXCEPT ![u] = IF hostHit[u] > EndPos(u) THEN hostHit[u] ELSE EndPos(u)]
      /\ UNCHANGED <<tableVars, totalOffloaded, offloadLock>>
  BY <1>5 DEF Reconcile
<1>7. (IF hostHit[u] > EndPos(u) THEN hostHit[u] ELSE EndPos(u)) = KeptLen(u)
  BY <1>3 DEF AsLookedUp, KeptLen, Larger, EndPos
<1> QED BY <1>1, <1>2, <1>6, <1>7

\* The answers of lookup_kvcache.
LEMMA LookupTypedStep ==
  ASSUME CacheInv, LookupTyped, [Next]_vars
  PROVE  LookupTyped'
<1>1. CASE UNCHANGED lookup
  BY <1>1 DEF LookupTyped
<1>2. ASSUME NEW b \in Batch, NEW tot \in [User -> Lengths], Lookup(b, tot) PROVE LookupTyped'
  <2> DEFINE k == [batch |-> b, total |-> tot, gpuStart |-> Of(Range(b), startPos),
                   gpuLen |-> Of(Range(b), cachedLen), hostLen |-> Of(Range(b), hostLen)]
  <2>1. lookup' = k
    BY <1>2 DEF Lookup
  <2>2. /\ k.gpuStart = Of(Range(b), startPos) /\ k.gpuLen = Of(Range(b), cachedLen)
        /\ k.hostLen = Of(Range(b), hostLen)
    OBVIOUS
  <2> HIDE DEF k
  <2>3. /\ startPos \in [User -> Nat] /\ cachedLen \in [User -> Nat] /\ hostLen \in [User -> Nat]
        /\ history \in [User -> Nat]
    BY LengthTypes DEF CacheInv, Parts, Table, TableType
  <2>4. \A u \in User : IF cachedLen[u] = 0 THEN startPos[u] = 0
                        ELSE hostLen[u] <= startPos[u] + cachedLen[u]
    BY LengthTypes DEF CacheInv, Parts, Table, PageListsMatchLengths, EndPos
  <2>5. /\ k.gpuStart \in [User -> Nat] /\ k.gpuLen \in [User -> Nat] /\ k.hostLen \in [User -> Nat]
    BY <2>2, <2>3 DEF Of
  <2>6. ASSUME NEW u \in User
        PROVE  IF k.gpuLen[u] = 0 THEN k.gpuStart[u] = 0
               ELSE k.hostLen[u] <= k.gpuStart[u] + k.gpuLen[u]
    BY <2>2, <2>4 DEF Of
  <2> QED BY <2>1, <2>5, <2>6 DEF LookupTyped
<1>3. CASE lookup' = NoLookup
  BY <1>3 DEF NoLookup, LookupTyped, Zero
<1>4. CASE OffloadLaunch \/ PollRaise
  BY <1>3, <1>4 DEF OffloadLaunch, PollRaise
<1>5. CASE Allocate \/ AllocateStep \/ Onboard \/ Forward
  BY <1>1, <1>5 DEF Allocate, AllocateStep, Onboard, Forward
<1>6. CASE PollReady \/ PollTimeout \/ PollLaunched \/ PollReturn
  BY <1>1, <1>6 DEF PollReady, PollTimeout, PollLaunched, PollReturn, Settle
<1>7. CASE OffloadFlush \/ OffloadCopy \/ ClientEvictAllGPU \/ ClientEvictAllHost \/ Crashed \/ UNCHANGED vars
  BY <1>1, <1>7 DEF OffloadFlush, OffloadCopy, ClientEvictAllGPU, ClientEvictAllHost, Crashed, vars
<1>8. CASE \E u \in User : ClientEvictGPU(u) \/ ClientEvictHost(u)
  BY <1>1, <1>8 DEF ClientEvictGPU, ClientEvictHost
<1> QED BY <1>2, <1>4, <1>5, <1>6, <1>7, <1>8 DEF Next, ThreadStep

\* The lookup and what is kept agree, whatever runs in between.
LEMMA KeptStep ==
  ASSUME CacheInv, KeptOK, NoGapAtLookup, [Next]_vars
  PROVE  KeptOK'
<1>0. FlowOK /\ RequestType /\ RequestSound /\ LookedUp
  BY DEF CacheInv, Parts
<1>100. LookupTyped'
  BY LookupTypedStep DEF KeptOK
<1> USE <1>100
<1>1. CASE UNCHANGED <<pc, ret, phase, lookup, startPos, cachedLen, requestVars, kept, at>>
  BY <1>1 DEF KeptOK, Waiting, UnderWay, AsLookedUp, KeptLen, requestVars
<1>2. ASSUME NEW b \in Batch, NEW tot \in [User -> Lengths], Lookup(b, tot) PROVE KeptOK'
  <2> DEFINE k == [batch |-> b, total |-> tot, gpuStart |-> Of(Range(b), startPos),
                   gpuLen |-> Of(Range(b), cachedLen), hostLen |-> Of(Range(b), hostLen)]
  <2>1. /\ pc = "idle" /\ lookup' = k /\ UNCHANGED gpuVars
    BY <1>2 DEF Lookup
  <2>2. phase' = "idle"
    BY <1>0, <2>1 DEF FlowOK, gpuVars
  <2>3. \A i \in DOMAIN b : b[i] \in Range(b) /\ b[i] \in User
    BY DEF Batch, Range
  <2>4. /\ k.batch = b /\ k.gpuStart = Of(Range(b), startPos) /\ k.gpuLen = Of(Range(b), cachedLen)
    OBVIOUS
  <2> HIDE DEF k
  <2>5. \A i \in DOMAIN b : k.gpuStart[b[i]] = startPos[b[i]] /\ k.gpuLen[b[i]] = cachedLen[b[i]]
    BY <2>3, <2>4 DEF Of
  <2>6. startPos' = startPos /\ cachedLen' = cachedLen
    BY <2>1 DEF gpuVars, tableVars
  <2> QED BY <2>1, <2>2, <2>4, <2>5, <2>6 DEF KeptOK, UnderWay, AsLookedUp
<1>3. CASE Allocate
  <2>1. /\ pc = "allocate" /\ pc' = "allocating" /\ phase' = "reconcile" /\ at' = 1
        /\ batch' = lookup.batch /\ total' = lookup.total /\ hostHit' = lookup.hostLen
        /\ UNCHANGED <<lookup, startPos, cachedLen>>
    BY <1>3 DEF Allocate, AllocateCall, tableVars
  <2>2. \A i \in DOMAIN lookup.batch : AsLookedUp(lookup.batch[i])
    BY <2>1 DEF KeptOK, Waiting
  <2>3. DOMAIN lookup.batch \subseteq Nat \ {0}
    <3>1. lookup.batch \in Batch
      BY <1>0, <2>1 DEF LookedUp, LookupOK
    <3> QED BY <3>1, BoundsAssumption DEF Batch
  <2> QED BY <2>1, <2>2, <2>3 DEF KeptOK, Waiting, UnderWay, AsLookedUp
<1>4. CASE AllocateStep
  <2>1. /\ pc' \in {"onboard", "allocating"} /\ UNCHANGED lookup /\ UNCHANGED requestVars
    BY <1>4 DEF AllocateStep, Reconcile, RetainStep, EvictOffloadedStep, EvictUserStep, TakePages
  <2>2. UNCHANGED <<batch, total, hostHit>> /\ ~Waiting'
    BY <2>1 DEF requestVars, Waiting
  <2>3. CASE Reconcile
    <3>1. /\ UNCHANGED <<startPos, cachedLen>> /\ phase = "reconcile"
          /\ at \in 1..Len(batch) /\ batch[at] \in User /\ DOMAIN batch = 1..Len(batch)
          /\ kept' = [kept EXCEPT ![batch[at]] = KeptLen(batch[at])]
          /\ \/ phase' = "retain" /\ at = Len(batch)
             \/ phase' = "reconcile" /\ at' = at + 1
      BY <2>3, ReconcileKeepsTable DEF tableVars, Reconcile
    <3>2. batch \in Seq(User) /\ kept \in [User -> Nat] /\ Len(batch) \in Nat
      BY <1>0 DEF RequestType
    <3>3. \A i \in DOMAIN batch : i <= at => kept'[batch[i]] = KeptLen(batch[i])
      <4> SUFFICES ASSUME NEW i \in 1..Len(batch), i <= at PROVE kept'[batch[i]] = KeptLen(batch[i])
        BY <3>1
      <4>1. CASE batch[i] = batch[at]
        BY <3>1, <3>2, <4>1
      <4>2. CASE batch[i] # batch[at]
        <5>1. i < at /\ batch[i] \in User
          <6>1. at \in 1..Len(batch)
            BY <3>1
          <6>3. i \in Int /\ at \in Int
            BY <3>2, <6>1
          <6>4. i # at
            BY <4>2
          <6>2. batch[i] \in User
            BY <3>2
          <6> QED BY <6>2, <6>3, <6>4
        <5>2. kept[batch[i]] = KeptLen(batch[i])
          BY <3>1, <5>1 DEF KeptOK
        <5> QED BY <3>1, <3>2, <4>2, <5>1, <5>2
      <4> QED BY <4>1, <4>2
    <3>4. batch = lookup.batch /\ total = lookup.total /\ hostHit = lookup.hostLen
      BY <3>1 DEF KeptOK, UnderWay
    <3>5. \A i \in DOMAIN batch : AsLookedUp(batch[i])
      BY <3>1 DEF KeptOK
    <3>6. \A v : KeptLen(v)' = KeptLen(v) /\ AsLookedUp(v)' = AsLookedUp(v)
      BY <2>1, <3>1 DEF KeptLen, AsLookedUp
    <3>7. \A i \in DOMAIN batch : (phase' = "reconcile" /\ i < at') => i <= at
      BY <3>1, <3>2
    <3>8. phase' = "retain" => \A i \in DOMAIN batch : i <= at
      BY <3>1, <3>2
    <3> QED BY <2>1, <2>2, <3>1, <3>3, <3>4, <3>5, <3>6, <3>7, <3>8 DEF KeptOK
  <2>4. CASE RetainStep \/ EvictOffloadedStep \/ EvictUserStep \/ TakePages
    <3>1. /\ phase \in {"retain", "room"} /\ phase' # "reconcile" /\ kept' = kept
      BY <2>4 DEF RetainStep, EvictOffloadedStep, EvictUserStep, TakePages
    <3>2. /\ batch = lookup.batch /\ total = lookup.total /\ hostHit = lookup.hostLen
          /\ \A i \in DOMAIN batch : kept[batch[i]] = KeptLen(batch[i])
      BY <3>1 DEF KeptOK, UnderWay
    <3> QED BY <2>1, <2>2, <3>1, <3>2 DEF KeptOK, KeptLen
  <2> QED BY <1>4, <2>3, <2>4 DEF AllocateStep
<1>5. CASE Onboard \/ Forward
  <2>1. /\ UNCHANGED <<phase, lookup, batch, total, hostHit, kept, at>> /\ phase = "returned"
        /\ ~Waiting'
    BY <1>0, <1>5 DEF Onboard, Forward, gpuVars, requestVars, FlowOK, Waiting
  <2> QED BY <2>1 DEF KeptOK, UnderWay, KeptLen
<1>6. CASE OffloadLaunch \/ PollRaise
  <2>1. phase' = "idle" /\ pc' = "idle"
    BY <1>6 DEF OffloadLaunch, PollRaise, DropRequest
  <2> QED BY <2>1 DEF KeptOK, UnderWay, Waiting
<1>7. CASE PollReady \/ PollTimeout \/ PollLaunched
  <2>1. UNCHANGED <<pc, ret, phase, lookup, startPos, cachedLen, requestVars, kept, at>>
    BY <1>7 DEF PollReady, PollTimeout, PollLaunched, Settle, ReleaseOffloadPages, gpuVars, tableVars,
       requestRest
  <2> QED BY <1>1, <2>1
<1>8. CASE PollReturn
  <2>1. /\ pc = "poll" /\ UNCHANGED gpuVars /\ lookup' = lookup
        /\ \/ UNCHANGED <<pc, ret>>
           \/ pc' = (IF ret = "flush" THEN "idle" ELSE ret) /\ ret' = "idle"
    BY <1>8 DEF PollReturn
  <2>2. UNCHANGED <<phase, lookup, startPos, cachedLen, batch, total, hostHit, kept, at>>
    BY <2>1 DEF gpuVars, tableVars, requestVars
  <2>3. Waiting' => Waiting
    BY <1>0, <2>1 DEF Waiting, FlowOK
  <2> QED BY <2>2, <2>3 DEF KeptOK, UnderWay, AsLookedUp, KeptLen
<1>9. CASE OffloadFlush
  <2>1. pc = "idle" /\ UNCHANGED gpuVars /\ ret' \in {"flush", "idle"} /\ pc' = "poll"
    BY <1>9 DEF OffloadFlush
  <2>2. phase' = "idle" /\ ~Waiting'
    BY <1>0, <2>1 DEF FlowOK, gpuVars, Waiting
  <2> QED BY <2>2 DEF KeptOK, UnderWay
<1>10. CASE ClientEvictAllGPU \/ \E u \in User : ClientEvictGPU(u)
  <2>1. pc' = "idle" /\ phase' = "idle"
    BY <1>0, <1>10 DEF ClientEvictAllGPU, ClientEvictGPU, ClientQuiet, requestRest, FlowOK
  <2> QED BY <2>1 DEF KeptOK, UnderWay, Waiting
<1>11. CASE OffloadCopy \/ ClientEvictAllHost \/ Crashed \/ UNCHANGED vars
  BY <1>1, <1>11 DEF OffloadCopy, ClientEvictAllHost, Crashed, gpuVars, tableVars, vars
<1>12. CASE \E u \in User : ClientEvictHost(u)
  BY <1>1, <1>12 DEF ClientEvictHost, gpuVars, tableVars
<1> QED BY <1>2, <1>3, <1>4, <1>5, <1>6, <1>7, <1>8, <1>9, <1>10, <1>11, <1>12 DEF Next, ThreadStep

\* allocate() appends where the Python side cut the tokens off.
LEMMA KeptIsMerged ==
  ASSUME CacheInv, KeptOK, NoGapAtLookup, phase = "returned"
  PROVE  \A k \in DOMAIN batch : kept[batch[k]] = MergedLen(batch[k])
<1> SUFFICES ASSUME NEW k \in DOMAIN batch PROVE kept[batch[k]] = MergedLen(batch[k])
  OBVIOUS
<1> DEFINE u == batch[k]
<1>1. kept[u] = KeptLen(u) /\ u \in User
  BY DEF KeptOK, CacheInv, Parts, RequestType
<1>2. /\ lookup.gpuStart[u] \in Nat /\ lookup.gpuLen[u] \in Nat /\ lookup.hostLen[u] \in Nat
      /\ lookup.gpuLen[u] = 0 => lookup.gpuStart[u] = 0
      /\ lookup.gpuLen[u] > 0 => lookup.gpuStart[u] <= lookup.hostLen[u]
  BY <1>1 DEF KeptOK, LookupTyped, NoGapAtLookup
<1> HIDE DEF u
<1>3. KeptLen(u) = MergedLen(u)
  BY <1>2 DEF KeptLen, MergedLen, Larger
<1> QED BY <1>1, <1>3 DEF u

\* At the start no request is under way.
LEMMA KeptInit ==
  ASSUME Init
  PROVE  KeptOK
BY DEF Init, GPUInit, NoLookup, LookupTyped, KeptOK, Waiting, UnderWay, Zero

\* allocate() appends to each user's list as many tokens as the Python side cut
\* off the sequence it was fed, whatever other threads did between lookup and
\* allocate, provided the lookup found no gap between the two tiers (the assert
\* of kvcache_utils.py:97).
THEOREM AppendsAgree == Spec /\ []NoGapAtLookup => []AppendsWhatIsFed
<1>1. Init => KeptOK
  BY KeptInit
<1>2. CacheInv /\ KeptOK /\ NoGapAtLookup /\ [Next]_vars => KeptOK'
  BY KeptStep
<1>3. CacheInv /\ KeptOK /\ NoGapAtLookup => AppendsWhatIsFed
  BY KeptIsMerged DEF AppendsWhatIsFed, CacheInv, FlowOK
<1> QED BY <1>1, <1>2, <1>3, CacheInvariant, PTL DEF Spec
-----------------------------------------------------------------------------
(***************************************************************************)
(* The unsettled offloads, in launch order.                                *)
(***************************************************************************)
\* The lists of tasks are sequences of one set.
LEMMA TaskLists ==
  ASSUME CacheInv
  PROVE  \E X : ongoing \in Seq(X) /\ remain \in Seq(X)
<1>1. PICK Y : ongoing \in Seq(Y)
  BY DEF CacheInv, TasksOK, HandlesOK, IsSeq
<1>2. PICK Z : remain \in Seq(Z)
  BY DEF CacheInv, TasksOK, HandlesOK, IsSeq
<1>3. ongoing \in Seq(Y \cup Z) /\ remain \in Seq(Y \cup Z)
  BY <1>1, <1>2
<1> QED BY <1>3

\* The same list.
Same(p, q) == Len(p) = Len(q) /\ \A i \in 1..Len(q) : p[i] = q[i]

\* p is q without its element i.
LeavesOut(q, i, p) ==
    /\ i \in 1..Len(q) /\ Len(p) = Len(q) - 1
    /\ \A k \in 1..Len(p) : p[k] = IF k < i THEN q[k] ELSE q[k + 1]

\* p is q and h after it.
Adds(q, h, p) == Len(p) = Len(q) + 1 /\ p[Len(p)] = h /\ \A i \in 1..Len(q) : p[i] = q[i]

\* The tasks a poll has yet to settle: those it keeps, and those it has not visited.
Left(rem, on, from) == rem \o SubSeq(on, from, Len(on))

\* Position by position.
LEMMA LeftIs ==
  ASSUME NEW X, NEW rem \in Seq(X), NEW on \in Seq(X), NEW from \in 1..(Len(on) + 1)
  PROVE  /\ Left(rem, on, from) \in Seq(X)
         /\ Len(rem) \in Nat /\ Len(on) \in Nat
         /\ Len(Left(rem, on, from)) = Len(rem) + Len(on) + 1 - from
         /\ \A i \in 1..(Len(rem) + Len(on) + 1 - from) :
               Left(rem, on, from)[i] = IF i <= Len(rem) THEN rem[i] ELSE on[from + i - Len(rem) - 1]
<1> DEFINE t == SubSeq(on, from, Len(on))
           n == Len(on)
           r == Len(rem)
<1>1. n \in Nat /\ r \in Nat /\ from \in Int /\ from >= 1 /\ from <= n + 1
  OBVIOUS
<1>2. \A i \in from..n : on[i] \in X
  BY <1>1
<1>3. /\ t \in Seq(X) /\ Len(t) = IF from <= n THEN n - from + 1 ELSE 0
      /\ \A i \in 1..(n - from + 1) : t[i] = on[from + i - 1]
  BY <1>1, <1>2, SubSeqProperties
<1>4. Len(t) = n + 1 - from
  BY <1>1, <1>3
<1> HIDE DEF t
<1> DEFINE q == rem \o t
<1>5. q \in Seq(X) /\ Len(q) = r + Len(t) /\ \A i \in 1..(r + Len(t)) : q[i] = IF i <= r THEN rem[i] ELSE t[i - r]
  BY <1>3, ConcatProperties
<1> HIDE DEF q, n
<1>6. ASSUME NEW i \in 1..(r + n + 1 - from) PROVE q[i] = IF i <= r THEN rem[i] ELSE on[from + i - r - 1]
  <2>1. i \in 1..(r + Len(t)) /\ i \in Int
    BY <1>1, <1>4
  <2>2. CASE i <= r
    BY <1>5, <2>1, <2>2
  <2>3. CASE ~(i <= r)
    <3>1. i - r \in 1..(n - from + 1) /\ from + (i - r) - 1 = from + i - r - 1
      BY <1>1, <2>1, <2>3
    <3>2. t[i - r] = on[from + (i - r) - 1]
      BY <1>3, <3>1
    <3> QED BY <1>5, <2>1, <2>3, <3>1, <3>2
  <2> QED BY <2>2, <2>3
<1>7. Left(rem, on, from) = q
  BY DEF Left, q, t, n
<1> HIDE DEF r
<1> QED BY <1>1, <1>4, <1>5, <1>6, <1>7 DEF n, r

\* The polling loop stays within the tasks.
PollBound == polled <= Len(ongoing) + 1

\* q is rem and then on from a position on.
Spans(q, rem, on, from) ==
    /\ Len(q) = Len(rem) + Len(on) + 1 - from
    /\ \A i \in 1..(Len(rem) + Len(on) + 1 - from) :
          q[i] = IF i <= Len(rem) THEN rem[i] ELSE on[from + i - Len(rem) - 1]

\* A poll's tasks are what it keeps and then what it has not visited.
LEMMA LeftSpans ==
  ASSUME NEW X, NEW rem \in Seq(X), NEW on \in Seq(X), NEW from \in 1..(Len(on) + 1)
  PROVE  Spans(Left(rem, on, from), rem, on, from)
BY LeftIs DEF Spans

\* No step takes the poll past the tasks or leaves remain outside them.
LEMMA PollBoundStep ==
  ASSUME CacheInv, PollFresh, PollBound, [Next]_vars
  PROVE  PollBound'
<1>0. PICK X : ongoing \in Seq(X) /\ remain \in Seq(X)
  BY TaskLists
<1>1. Len(ongoing) \in Nat /\ polled \in Nat \ {0} /\ Len(remain) \in Nat
  BY <1>0 DEF CacheInv, TasksOK
<1>2. CASE UNCHANGED <<polled, ongoing>>
  BY <1>2 DEF PollBound
<1>3. CASE polled' = 1 /\ ongoing' = ongoing
  BY <1>1, <1>3 DEF PollBound
<1>4. CASE PollReturn
  BY <1>1, <1>4 DEF PollReturn, PollBound
<1>5. CASE PollReady \/ PollLaunched \/ PollTimeout
  <2>1. polled <= Len(ongoing) /\ polled' = polled + 1 /\ ongoing' = ongoing
    BY <1>5 DEF PollReady, PollLaunched, PollTimeout, Settle, Polling
  <2> QED BY <1>1, <2>1 DEF PollBound
<1>6. CASE OffloadLaunch
  <2>1. polled' = 1
    BY <1>6 DEF OffloadLaunch, PollFresh
  <2>2. ongoing' = ongoing \/ \E h : ongoing' = Append(ongoing, h)
    BY <1>6 DEF OffloadLaunch, Launch
  <2>3. Len(ongoing') \in Nat
    <3>1. ASSUME NEW h, ongoing' = Append(ongoing, h) PROVE Len(ongoing') \in Nat
      <4>1. ongoing \in Seq(X \cup {h}) /\ h \in X \cup {h}
        BY <1>0
      <4> QED BY <3>1, <4>1, AppendProperties
    <3> QED BY <1>1, <2>2, <3>1
  <2> QED BY <2>1, <2>3 DEF PollBound
<1>7. ASSUME NEW b \in Batch, NEW tot \in [User -> Lengths], Lookup(b, tot) PROVE PollBound'
  <2>1. ongoing' = ongoing /\ (polled' = polled \/ polled' = 1)
    BY <1>7 DEF Lookup
  <2> QED BY <1>2, <1>3, <2>1
<1>8. CASE Forward \/ PollRaise
  BY <1>3, <1>8 DEF Forward, PollRaise
<1>9. CASE Allocate \/ AllocateStep \/ Onboard \/ OffloadFlush \/ OffloadCopy
  BY <1>2, <1>9 DEF Allocate, AllocateStep, Onboard, OffloadFlush, OffloadCopy, pollVars
<1>10. CASE ClientEvictAllGPU \/ ClientEvictAllHost \/ Crashed \/ UNCHANGED vars
  BY <1>2, <1>10 DEF ClientEvictAllGPU, ClientEvictAllHost, Crashed, pollVars, vars
<1>11. CASE \E u \in User : ClientEvictGPU(u) \/ ClientEvictHost(u)
  BY <1>2, <1>11 DEF ClientEvictGPU, ClientEvictHost, pollVars
<1> QED BY <1>4, <1>5, <1>6, <1>7, <1>8, <1>9, <1>10, <1>11 DEF Next, ThreadStep

FlightInv == PollFresh /\ PollBound

\* InFlight is Left, whether or not a poll is under way.
LEMMA FlightIs ==
  ASSUME CacheInv, FlightInv
  PROVE  /\ Same(InFlight, Left(remain, ongoing, polled))
         /\ \E X : ongoing \in Seq(X) /\ remain \in Seq(X) /\ InFlight \in Seq(X)
         /\ polled \in 1..(Len(ongoing) + 1)
<1>1. PICK X : ongoing \in Seq(X) /\ remain \in Seq(X)
  BY TaskLists
<1>2. polled \in 1..(Len(ongoing) + 1) /\ Len(ongoing) \in Nat
  BY <1>1 DEF CacheInv, TasksOK, FlightInv, PollBound
<1>3. CASE pc = "poll"
  <2>1. InFlight = Left(remain, ongoing, polled)
    BY <1>3 DEF InFlight, Left
  <2> QED BY <1>1, <1>2, <2>1, LeftIs DEF Same
<1>4. CASE pc # "poll"
  <2>1. polled = 1 /\ remain = <<>> /\ InFlight = ongoing /\ Len(remain) = 0
    BY <1>4 DEF FlightInv, PollFresh, InFlight
  <2>0. PICK q : q = Left(remain, ongoing, polled)
    OBVIOUS
  <2>9. Spans(Left(remain, ongoing, polled), remain, ongoing, polled)
    <3>1. /\ ongoing \in Seq(X) /\ remain \in Seq(X) /\ polled \in 1..(Len(ongoing) + 1)
      BY <1>1, <1>2
    <3> QED BY ONLY <3>1, LeftSpans
  <2>2. /\ Len(q) = Len(remain) + Len(ongoing) + 1 - polled
        /\ \A i \in 1..(Len(remain) + Len(ongoing) + 1 - polled) :
              q[i] = IF i <= Len(remain) THEN remain[i] ELSE ongoing[polled + i - Len(remain) - 1]
    BY <2>0, <2>9 DEF Spans
  <2>3. Len(q) = Len(ongoing)
    BY <1>2, <2>1, <2>2
  <2>4. ASSUME NEW i \in 1..Len(ongoing) PROVE q[i] = ongoing[i]
    <3>1. i \in 1..(Len(remain) + Len(ongoing) + 1 - polled) /\ ~(i <= Len(remain))
          /\ polled + i - Len(remain) - 1 = i
      BY <1>2, <2>1
    <3> QED BY <2>2, <3>1
  <2>5. Same(InFlight, q)
    BY <2>1, <2>3, <2>4 DEF Same
  <2> QED BY <1>1, <1>2, <2>0, <2>1, <2>5
<1> QED BY <1>3, <1>4

\* InFlight by its elements.
FlightAt(rem, on, from, i) == IF i <= Len(rem) THEN rem[i] ELSE on[from + i - Len(rem) - 1]

FlightShape ==
    /\ Len(remain) \in Nat /\ Len(ongoing) \in Nat /\ polled \in 1..(Len(ongoing) + 1)
    /\ Len(InFlight) = Len(remain) + Len(ongoing) + 1 - polled
    /\ \A i \in 1..(Len(remain) + Len(ongoing) + 1 - polled) :
          InFlight[i] = FlightAt(remain, ongoing, polled, i)

\* InFlight element by element.
LEMMA FlightElements == CacheInv /\ FlightInv => FlightShape
<1> SUFFICES ASSUME CacheInv, FlightInv PROVE FlightShape
  OBVIOUS
<1>1. PICK X : ongoing \in Seq(X) /\ remain \in Seq(X)
  BY FlightIs
<1>2. polled \in 1..(Len(ongoing) + 1) /\ Same(InFlight, Left(remain, ongoing, polled))
  BY FlightIs
<1>3. /\ Len(remain) \in Nat /\ Len(ongoing) \in Nat
      /\ Len(Left(remain, ongoing, polled)) = Len(remain) + Len(ongoing) + 1 - polled
      /\ \A i \in 1..(Len(remain) + Len(ongoing) + 1 - polled) :
            Left(remain, ongoing, polled)[i] = FlightAt(remain, ongoing, polled, i)
  BY <1>1, <1>2, LeftIs DEF FlightAt
<1> QED BY <1>2, <1>3 DEF Same, FlightShape

\* Every step keeps the shape of the poll.
LEMMA FlightInvStep ==
  ASSUME CacheInv, FlightInv, [Next]_vars
  PROVE  FlightInv'
BY PollFreshStep, PollBoundStep DEF FlightInv

\* The shape of what is in flight, before and after a step.
LEMMA FlightBoth ==
  ASSUME CacheInv, FlightInv, [Next]_vars
  PROVE  FlightShape /\ FlightShape'
<1>1. CacheInv' /\ FlightInv'
  BY CacheStep, FlightInvStep
<1>2. FlightShape'
  BY <1>1, FlightElements, PTL
<1> QED BY <1>2, FlightElements

\* A settled task leaves, the others stay in order.
LEMMA SettleMoves ==
  ASSUME CacheInv, FlightInv, PollReady \/ PollTimeout
  PROVE  /\ LeavesOut(InFlight, Len(remain) + 1, InFlight')
         /\ InFlight[Len(remain) + 1] = Task
<1>0. [Next]_vars
  BY DEF Next, ThreadStep
<1>1. /\ Len(remain) \in Nat /\ Len(ongoing) \in Nat /\ polled \in 1..(Len(ongoing) + 1)
      /\ Len(InFlight) = Len(remain) + Len(ongoing) + 1 - polled
      /\ \A i \in 1..(Len(remain) + Len(ongoing) + 1 - polled) :
            InFlight[i] = FlightAt(remain, ongoing, polled, i)
  BY <1>0, FlightBoth DEF FlightShape
<1>2. /\ Len(remain') \in Nat /\ Len(ongoing') \in Nat /\ polled' \in 1..(Len(ongoing') + 1)
      /\ Len(InFlight') = Len(remain') + Len(ongoing') + 1 - polled'
      /\ \A i \in 1..(Len(remain') + Len(ongoing') + 1 - polled') :
            InFlight'[i] = FlightAt(remain', ongoing', polled', i)
  BY <1>0, FlightBoth DEF FlightShape
<1>3. /\ polled <= Len(ongoing) /\ polled' = polled + 1 /\ UNCHANGED <<ongoing, remain>>
  BY DEF PollReady, PollTimeout, Settle, Polling
<1>4. Len(remain) + 1 \in 1..Len(InFlight) /\ Len(InFlight') = Len(InFlight) - 1
  BY <1>1, <1>2, <1>3
<1>5. InFlight[Len(remain) + 1] = Task
  <2>1. FlightAt(remain, ongoing, polled, Len(remain) + 1) = ongoing[polled]
    BY <1>1 DEF FlightAt
  <2> QED BY <1>1, <1>4, <2>1 DEF Task
<1>6. ASSUME NEW k \in 1..Len(InFlight')
      PROVE  InFlight'[k] = IF k < Len(remain) + 1 THEN InFlight[k] ELSE InFlight[k + 1]
  <2>1. k \in Int /\ k >= 1 /\ k <= Len(InFlight) - 1
    BY <1>1, <1>4
  <2>2. InFlight'[k] = FlightAt(remain, ongoing, polled + 1, k)
    BY <1>2, <1>3
  <2>3. InFlight[k] = FlightAt(remain, ongoing, polled, k)
        /\ InFlight[k + 1] = FlightAt(remain, ongoing, polled, k + 1)
    BY <1>1, <2>1
  <2>4. CASE k <= Len(remain)
    BY <1>1, <2>1, <2>2, <2>3, <2>4 DEF FlightAt
  <2>5. CASE ~(k <= Len(remain))
    <3>1. polled + 1 + k - Len(remain) - 1 = polled + (k + 1) - Len(remain) - 1
      BY <1>1, <2>1
    <3> QED BY <1>1, <2>1, <2>2, <2>3, <2>5, <3>1 DEF FlightAt
  <2> QED BY <2>4, <2>5
<1>7. LeavesOut(InFlight, Len(remain) + 1, InFlight')
  BY <1>4, <1>6 DEF LeavesOut
<1> QED BY <1>5, <1>7

\* A launch with a new task adds it at the end.
LEMMA LaunchMoves ==
  ASSUME CacheInv, FlightInv, OffloadLaunch
  PROVE  /\ ongoing' = ongoing => Same(InFlight', InFlight)
         /\ \A h : ongoing' = Append(ongoing, h) => Adds(InFlight, h, InFlight')
<1>0. [Next]_vars
  BY DEF Next, ThreadStep
<1>1. /\ Len(remain) \in Nat /\ Len(ongoing) \in Nat /\ polled \in 1..(Len(ongoing) + 1)
      /\ Len(InFlight) = Len(remain) + Len(ongoing) + 1 - polled
      /\ \A i \in 1..(Len(remain) + Len(ongoing) + 1 - polled) :
            InFlight[i] = FlightAt(remain, ongoing, polled, i)
  BY <1>0, FlightBoth DEF FlightShape
<1>2. /\ Len(remain') \in Nat /\ Len(ongoing') \in Nat /\ polled' \in 1..(Len(ongoing') + 1)
      /\ Len(InFlight') = Len(remain') + Len(ongoing') + 1 - polled'
      /\ \A i \in 1..(Len(remain') + Len(ongoing') + 1 - polled') :
            InFlight'[i] = FlightAt(remain', ongoing', polled', i)
  BY <1>0, FlightBoth DEF FlightShape
<1>3. PICK X : ongoing \in Seq(X) /\ remain \in Seq(X)
  BY TaskLists
<1>4. pc = "offload" /\ UNCHANGED <<polled, remain>>
  BY DEF OffloadLaunch
<1>5. polled = 1 /\ Len(remain) = 0
  BY <1>4 DEF FlightInv, PollFresh
<1>6. ASSUME ongoing' = ongoing PROVE Same(InFlight', InFlight)
  BY <1>1, <1>2, <1>4, <1>6 DEF Same
<1>7. ASSUME NEW h, ongoing' = Append(ongoing, h) PROVE Adds(InFlight, h, InFlight')
  <2>1. ongoing \in Seq(X \cup {h}) /\ h \in X \cup {h}
    BY <1>3
  <2>2. /\ Len(ongoing') = Len(ongoing) + 1 /\ ongoing'[Len(ongoing) + 1] = h
        /\ \A i \in 1..Len(ongoing) : ongoing'[i] = ongoing[i]
    BY <1>7, <2>1, AppendProperties
  <2>3. Len(InFlight) = Len(ongoing) /\ Len(InFlight') = Len(ongoing) + 1
    BY <1>1, <1>2, <1>4, <1>5, <2>2
  <2>4. \A i \in 1..Len(ongoing) : InFlight[i] = ongoing[i]
    BY <1>1, <1>5, <2>3 DEF FlightAt
  <2>6. Len(remain') = 0 /\ polled' = 1 /\ Len(remain') + Len(ongoing') + 1 - polled' = Len(ongoing) + 1
    BY <1>1, <1>4, <1>5, <2>2
  <2>5. ASSUME NEW i \in 1..(Len(ongoing) + 1) PROVE InFlight'[i] = ongoing'[i]
    <3>1. InFlight'[i] = FlightAt(remain', ongoing', polled', i)
      BY <1>2, <2>6
    <3>2. ~(i <= Len(remain')) /\ polled' + i - Len(remain') - 1 = i
      BY <1>1, <2>6
    <3> QED BY <3>1, <3>2 DEF FlightAt
  <2>7. /\ Len(InFlight') = Len(InFlight) + 1 /\ InFlight'[Len(InFlight')] = h
        /\ \A i \in 1..Len(InFlight) : InFlight'[i] = InFlight[i]
    <3>1. Len(ongoing) + 1 \in 1..(Len(ongoing) + 1) /\ 1..Len(ongoing) \subseteq 1..(Len(ongoing) + 1)
      BY <1>1
    <3>2. InFlight'[Len(InFlight')] = h
      BY <2>2, <2>3, <2>5, <3>1
    <3>3. \A i \in 1..Len(InFlight) : InFlight'[i] = InFlight[i]
      BY <2>2, <2>3, <2>4, <2>5, <3>1
    <3> QED BY <2>3, <3>2, <3>3
  <2> QED BY <2>7 DEF Adds
<1> QED BY <1>6, <1>7

\* No other step touches what is in flight, but an exception that ends a poll.
LEMMA FlightStays ==
  ASSUME CacheInv, FlightInv, [Next]_vars, ~PollReady, ~PollTimeout, ~OffloadLaunch, ~PollRaise
  PROVE  Same(InFlight', InFlight)
<1>1. /\ Len(remain) \in Nat /\ Len(ongoing) \in Nat /\ polled \in 1..(Len(ongoing) + 1)
      /\ Len(InFlight) = Len(remain) + Len(ongoing) + 1 - polled
      /\ \A i \in 1..(Len(remain) + Len(ongoing) + 1 - polled) :
            InFlight[i] = FlightAt(remain, ongoing, polled, i)
  BY FlightBoth DEF FlightShape
<1>2. /\ Len(remain') \in Nat /\ Len(ongoing') \in Nat /\ polled' \in 1..(Len(ongoing') + 1)
      /\ Len(InFlight') = Len(remain') + Len(ongoing') + 1 - polled'
      /\ \A i \in 1..(Len(remain') + Len(ongoing') + 1 - polled') :
            InFlight'[i] = FlightAt(remain', ongoing', polled', i)
  BY FlightBoth DEF FlightShape
<1>3. PICK X : ongoing \in Seq(X) /\ remain \in Seq(X)
  BY TaskLists
<1>4. ASSUME UNCHANGED <<ongoing, polled, remain>> PROVE Same(InFlight', InFlight)
  BY <1>1, <1>2, <1>4 DEF Same
<1>5. ASSUME pc # "poll", ongoing' = ongoing, polled' = 1, remain' = <<>> PROVE Same(InFlight', InFlight)
  BY <1>4, <1>5 DEF FlightInv, PollFresh
<1>7. CASE PollLaunched
  <2>1. /\ polled <= Len(ongoing) /\ polled' = polled + 1 /\ ongoing' = ongoing
        /\ remain' = Append(remain, ongoing[polled])
    BY <1>7 DEF PollLaunched, Polling, Task
  <2>2. /\ Len(remain') = Len(remain) + 1 /\ remain'[Len(remain) + 1] = ongoing[polled]
        /\ \A i \in 1..Len(remain) : remain'[i] = remain[i]
    BY <1>1, <1>3, <2>1, AppendProperties
  <2>3. Len(InFlight') = Len(InFlight)
    BY <1>1, <1>2, <2>1, <2>2
  <2>4. ASSUME NEW i \in 1..Len(InFlight) PROVE InFlight'[i] = InFlight[i]
    <3>1. i \in Int /\ i >= 1
      BY <1>1
    <3>2. InFlight'[i] = FlightAt(remain', ongoing, polled + 1, i)
      BY <1>1, <1>2, <2>1, <2>3
    <3>3. InFlight[i] = FlightAt(remain, ongoing, polled, i)
      BY <1>1
    <3>4. CASE i <= Len(remain)
      BY <1>1, <2>2, <3>1, <3>2, <3>3, <3>4 DEF FlightAt
    <3>5. CASE i = Len(remain) + 1
      BY <1>1, <2>2, <3>1, <3>2, <3>3, <3>5 DEF FlightAt
    <3>6. CASE i > Len(remain) + 1
      <4>1. polled + 1 + i - Len(remain') - 1 = polled + i - Len(remain) - 1
        BY <1>1, <2>2, <3>1
      <4> QED BY <1>1, <2>2, <3>1, <3>2, <3>3, <3>6, <4>1 DEF FlightAt
    <3> QED BY <1>1, <3>1, <3>4, <3>5, <3>6
  <2> QED BY <2>3, <2>4 DEF Same
<1>8. CASE PollReturn
  <2>1. polled > Len(ongoing) /\ ongoing' = remain /\ remain' = <<>> /\ polled' = 1
    BY <1>8 DEF PollReturn
  <2>2. Len(remain') = 0
    BY <2>1
  <2>3. Len(InFlight') = Len(InFlight) /\ Len(InFlight) = Len(remain)
    <3>1. polled = Len(ongoing) + 1
      BY <1>1, <2>1
    <3>2. Len(ongoing') = Len(remain)
      BY <2>1
    <3> QED BY <1>1, <1>2, <2>1, <2>2, <3>1, <3>2
  <2>4. ASSUME NEW i \in 1..Len(InFlight) PROVE InFlight'[i] = InFlight[i]
    <3>1. i \in Int /\ i >= 1 /\ i <= Len(remain) /\ 1 + i - 0 - 1 = i
      BY <1>1, <2>3
    <3>2. InFlight'[i] = FlightAt(<<>>, remain, 1, i)
      BY <1>1, <1>2, <2>1, <2>2, <2>3
    <3>3. InFlight[i] = FlightAt(remain, ongoing, polled, i)
      BY <1>1
    <3> QED BY <1>1, <2>1, <2>2, <3>1, <3>2, <3>3 DEF FlightAt
  <2> QED BY <2>3, <2>4 DEF Same
<1>10. ASSUME NEW b \in Batch, NEW tot \in [User -> Lengths], Lookup(b, tot) PROVE Same(InFlight', InFlight)
  <2>2. pc # "poll"
    BY <1>10 DEF Lookup
  <2>1. ongoing' = ongoing
        /\ (UNCHANGED <<polled, remain>> \/ (polled' = 1 /\ remain' = <<>>))
    BY <1>10 DEF Lookup
  <2> QED BY <1>4, <1>5, <2>1, <2>2
<1>11. CASE Forward
  BY <1>5, <1>11 DEF Forward
<1>12. CASE Allocate \/ AllocateStep \/ Onboard \/ OffloadFlush \/ OffloadCopy
  BY <1>4, <1>12 DEF Allocate, AllocateStep, Onboard, OffloadFlush, OffloadCopy, pollVars
<1>13. CASE ClientEvictAllGPU \/ ClientEvictAllHost \/ Crashed \/ UNCHANGED vars
  BY <1>4, <1>13 DEF ClientEvictAllGPU, ClientEvictAllHost, Crashed, pollVars, vars
<1>14. CASE \E u \in User : ClientEvictGPU(u) \/ ClientEvictHost(u)
  BY <1>4, <1>14 DEF ClientEvictGPU, ClientEvictHost, pollVars
<1> QED BY <1>7, <1>8, <1>10, <1>11, <1>12, <1>13, <1>14 DEF Next, ThreadStep
-----------------------------------------------------------------------------
(***************************************************************************)
(* What an exception leaves.                                               *)
(***************************************************************************)
\* offload_try_wait never raises once it has settled a task: the exception
\* would have that task polled again.
RaisesUnsettled ==
    Polling /\ ~Ready(Task) /\ Timeouts /\ FailClose => polled = Len(remain) + 1

\* check_for_offload and acquire_offload_pages agree on who has a chunk to send.
CheckedAcquire ==
    pc = "offload" => \A u \in Range(CheckForOffload(batch)) : Acquires(u, hostLen)

\* While nothing is settled, remain is what has been visited.
NoneLost ==
    /\ Len(remain) + 1 <= polled
    /\ Len(remain) + 1 = polled => \A i \in 1..Len(remain) : remain[i] = ongoing[i]

\* Every step keeps NoneLost.
LEMMA NoneLostStep ==
  ASSUME CacheInv, FlightInv, NoneLost, [Next]_vars
  PROVE  NoneLost'
<1>0. CacheInv' /\ FlightInv'
  BY CacheStep, FlightInvStep
<1>1. Len(remain) \in Nat /\ Len(ongoing) \in Nat /\ polled \in 1..(Len(ongoing) + 1)
  BY FlightElements DEF FlightShape
<1>2. PICK X : ongoing \in Seq(X) /\ remain \in Seq(X)
  BY TaskLists
<1>3. CASE pc' # "poll"
  <2>1. polled' = 1 /\ Len(remain') = 0
    BY <1>0, <1>3 DEF FlightInv, PollFresh
  <2> QED BY <2>1 DEF NoneLost
<1>4. CASE UNCHANGED <<ongoing, polled, remain>>
  BY <1>4 DEF NoneLost
<1>5. ASSUME polled' = 1, remain' = <<>> PROVE NoneLost'
  <2>1. Len(remain') = 0
    BY <1>5
  <2> QED BY <1>5, <2>1 DEF NoneLost
<1>6. CASE PollReady \/ PollTimeout
  <2>1. polled' = polled + 1 /\ UNCHANGED <<ongoing, remain>>
    BY <1>6 DEF PollReady, PollTimeout, Settle, Polling
  <2> QED BY <1>1, <2>1 DEF NoneLost
<1>7. CASE PollLaunched
  <2>1. /\ polled <= Len(ongoing) /\ polled' = polled + 1 /\ ongoing' = ongoing
        /\ remain' = Append(remain, ongoing[polled])
    BY <1>7 DEF PollLaunched, Polling, Task
  <2>2. /\ Len(remain') = Len(remain) + 1 /\ remain'[Len(remain) + 1] = ongoing[polled]
        /\ \A i \in 1..Len(remain) : remain'[i] = remain[i]
    BY <1>1, <1>2, <2>1, AppendProperties
  <2>3. ASSUME Len(remain) + 1 = polled, NEW i \in 1..Len(remain') PROVE remain'[i] = ongoing[i]
    <3>1. CASE i = Len(remain) + 1
      BY <2>2, <2>3, <3>1
    <3>2. CASE i # Len(remain) + 1
      <4>1. i \in 1..Len(remain)
        BY <1>1, <2>2, <3>2
      <4> QED BY <2>2, <2>3, <4>1 DEF NoneLost
    <3> QED BY <3>1, <3>2
  <2> QED BY <1>1, <2>1, <2>2, <2>3 DEF NoneLost
<1>8. CASE PollReturn \/ PollRaise \/ Forward
  BY <1>5, <1>8 DEF PollReturn, PollRaise, Forward
<1>9. CASE OffloadLaunch
  BY <1>3, <1>9 DEF OffloadLaunch
<1>10. ASSUME NEW b \in Batch, NEW tot \in [User -> Lengths], Lookup(b, tot) PROVE NoneLost'
  BY <1>4, <1>5, <1>10 DEF Lookup
<1>12. CASE Allocate \/ AllocateStep \/ Onboard \/ OffloadFlush \/ OffloadCopy
  BY <1>4, <1>12 DEF Allocate, AllocateStep, Onboard, OffloadFlush, OffloadCopy, pollVars
<1>13. CASE ClientEvictAllGPU \/ ClientEvictAllHost \/ Crashed \/ UNCHANGED vars
  BY <1>4, <1>13 DEF ClientEvictAllGPU, ClientEvictAllHost, Crashed, pollVars, vars
<1>14. CASE \E u \in User : ClientEvictGPU(u) \/ ClientEvictHost(u)
  BY <1>4, <1>14 DEF ClientEvictGPU, ClientEvictHost, pollVars
<1> QED BY <1>6, <1>7, <1>8, <1>9, <1>10, <1>12, <1>13, <1>14 DEF Next, ThreadStep

\* An exception before anything is settled leaves in flight what was.
LEMMA RaiseKeeps ==
  ASSUME CacheInv, FlightInv, NoneLost, RaisesUnsettled, PollRaise
  PROVE  Same(InFlight', InFlight)
<1>1. [Next]_vars
  BY DEF Next, ThreadStep
<1>2. /\ Len(remain) \in Nat /\ Len(ongoing) \in Nat /\ polled \in 1..(Len(ongoing) + 1)
      /\ Len(InFlight) = Len(remain) + Len(ongoing) + 1 - polled
      /\ \A i \in 1..(Len(remain) + Len(ongoing) + 1 - polled) :
            InFlight[i] = FlightAt(remain, ongoing, polled, i)
  BY FlightElements DEF FlightShape
<1>3. InFlight' = ongoing
  BY DEF PollRaise, InFlight
<1>4. polled = Len(remain) + 1 /\ \A i \in 1..Len(remain) : remain[i] = ongoing[i]
  BY DEF PollRaise, RaisesUnsettled, NoneLost
<1>5. Len(InFlight) = Len(ongoing)
  BY <1>2, <1>4
<1>6. ASSUME NEW i \in 1..Len(ongoing) PROVE InFlight[i] = ongoing[i]
  <2>1. InFlight[i] = FlightAt(remain, ongoing, polled, i)
    BY <1>2, <1>4
  <2>2. polled + i - Len(remain) - 1 = i
    BY <1>2, <1>4
  <2>3. i <= Len(remain) => i \in 1..Len(remain)
    BY <1>2
  <2> QED BY <1>4, <2>1, <2>2, <2>3 DEF FlightAt
<1> QED BY <1>3, <1>5, <1>6 DEF Same

\* Every step keeps the partition of the buffer, unless an exception forgets
\* what was settled.
LEMMA ChunkStep ==
  ASSUME CacheInv, ChunkInv, FlightInv, NoneLost, RaisesUnsettled, [Next]_vars
  PROVE  ChunkInv'
<1>0. PollFresh'
  BY PollFreshStep DEF ChunkInv
<1>1. CASE UNCHANGED <<hostVars, ongoing, polled, remain>>
  BY <1>0, <1>1 DEF ChunkInv, ChunkTypes, ChunkPartition, hostVars
<1>2. ASSUME NEW b \in Batch, NEW tot \in [User -> Lengths], Lookup(b, tot) PROVE ChunkInv'
  <2>1. UNCHANGED <<hostVars, ongoing, polled, remain>>
    BY <1>2 DEF Lookup, ChunkInv, PollFresh
  <2> QED BY <1>1, <2>1
<1>3. CASE Forward
  <2>1. UNCHANGED <<hostVars, ongoing, polled, remain>>
    BY <1>3 DEF Forward, ChunkInv, PollFresh
  <2> QED BY <1>1, <2>1
<1>4. CASE Allocate \/ AllocateStep \/ Onboard \/ OffloadFlush \/ OffloadCopy
  BY <1>1, <1>4 DEF Allocate, AllocateStep, Onboard, OffloadFlush, OffloadCopy, pollVars
<1>5. CASE PollReady \/ PollTimeout
  BY <1>0, <1>5, SettlePart DEF ChunkInv
<1>6. CASE OffloadLaunch
  BY <1>0, <1>6, LaunchPart DEF ChunkInv
<1>7. CASE ClientEvictAllHost \/ \E u \in User : ClientEvictHost(u)
  BY <1>0, <1>7, EvictPart DEF ChunkInv
<1>9. PICK X : ongoing \in Seq(X) /\ remain \in Seq(X)
  <2>1. PICK Y : ongoing \in Seq(Y)
    BY DEF CacheInv, TasksOK, HandlesOK, IsSeq
  <2>2. PICK Z : remain \in Seq(Z)
    BY DEF CacheInv, TasksOK, HandlesOK, IsSeq
  <2>3. ongoing \in Seq(Y \cup Z) /\ remain \in Seq(Y \cup Z)
    BY <2>1, <2>2
  <2> QED BY <2>3
<1>10. /\ Partition(emptyChunks, HeldLists(hostChunks, ongoing, polled, remain))
       /\ polled \in Nat \ {0}
  BY DEF ChunkInv, ChunkPartition, CacheInv, TasksOK
<1>8. CASE PollRaise
  <2>1. /\ polled' = 1 /\ remain' = <<>> /\ UNCHANGED <<hostVars, ongoing>>
        /\ polled = Len(remain) + 1 /\ polled <= Len(ongoing)
        /\ \A i \in 1..Len(remain) : remain[i] = ongoing[i]
    BY <1>8 DEF PollRaise, Polling, RaisesUnsettled, NoneLost
  <2>2. Partition(emptyChunks, HeldLists(hostChunks, ongoing, 1, <<>>))
    BY <1>9, <1>10, <2>1, RaiseChunks
  <2>3. ChunkPartition'
    BY <2>1, <2>2 DEF ChunkPartition, hostVars
  <2>4. ChunkTypes'
    BY <2>1 DEF ChunkInv, ChunkTypes, hostVars
  <2> QED BY <1>0, <2>3, <2>4 DEF ChunkInv
<1>11. CASE PollLaunched
  <2>1. /\ polled <= Len(ongoing) /\ polled' = polled + 1 /\ remain' = Append(remain, ongoing[polled])
        /\ UNCHANGED <<hostVars, ongoing>>
    BY <1>11 DEF PollLaunched, Polling, Task
  <2>2. Partition(emptyChunks, HeldLists(hostChunks, ongoing, polled + 1, Append(remain, ongoing[polled])))
    BY <1>9, <1>10, <2>1, KeepChunks
  <2>3. ChunkPartition'
    BY <2>1, <2>2 DEF ChunkPartition, hostVars
  <2>4. ChunkTypes'
    BY <2>1 DEF ChunkInv, ChunkTypes, hostVars
  <2> QED BY <1>0, <2>3, <2>4 DEF ChunkInv
<1>12. CASE PollReturn
  <2>1. /\ polled > Len(ongoing) /\ polled' = 1 /\ remain' = <<>> /\ ongoing' = remain
        /\ UNCHANGED hostVars
    BY <1>12 DEF PollReturn
  <2>2. Partition(emptyChunks, HeldLists(hostChunks, remain, 1, <<>>))
    BY <1>9, <1>10, <2>1, ReturnChunks
  <2>3. ChunkPartition'
    BY <2>1, <2>2 DEF ChunkPartition, hostVars
  <2>4. ChunkTypes'
    BY <2>1 DEF ChunkInv, ChunkTypes, hostVars
  <2> QED BY <1>0, <2>3, <2>4 DEF ChunkInv
<1>13. CASE ClientEvictAllGPU \/ Crashed \/ UNCHANGED vars
  BY <1>1, <1>13 DEF ClientEvictAllGPU, Crashed, pollVars, vars
<1>14. CASE \E u \in User : ClientEvictGPU(u)
  BY <1>1, <1>14 DEF ClientEvictGPU, pollVars
<1> QED BY <1>2, <1>3, <1>4, <1>5, <1>6, <1>7, <1>8, <1>11, <1>12, <1>13, <1>14 DEF Next, ThreadStep

\* At first all chunks are free.
LEMMA ChunkInit ==
  ASSUME Init
  PROVE  ChunkInv
<1> DEFINE none == <<>>
           M == HeldLists(NoList, none, 1, none)
<1>1. none \in Seq({}) /\ Len(none) = 0 /\ none \in Seq(Chunk) /\ none \in Seq(User)
  OBVIOUS
<1>2. /\ emptyChunks = Chunk /\ hostChunks = NoList /\ hostLru = none
      /\ ongoing = none /\ polled = 1 /\ remain = none
  BY DEF Init, HostInit
<1>3. Holds(M, NoList, none, 1, none)
  <2> DEFINE host == NoList
             from == 1
  <2>1. none = <<>> /\ from = 1
    OBVIOUS
  <2> HIDE DEF M, none, host, from
  <2>2. Holds(HeldLists(host, none, from, none), host, none, from, none)
    BY ONLY <2>1, NothingUnderWay
  <2> QED BY <2>2 DEF M, host, from
<1> HIDE DEF none
<1> HIDE DEF M
<1>4. \A k : k \in DOMAIN M => k = 0 /\ M[k] = NoList
  BY <1>1, <1>3 DEF Holds
<1>5. ASSUME NEW p \in ListPlaces(M) PROVE FALSE
  <2>1. PICK k \in DOMAIN M, u \in User : \E i \in 1..Len(M[k][u]) : p = <<k, u, i>>
    BY PlaceIs
  <2>2. M[k][u] = <<>>
    BY <1>4 DEF NoList
  <2> QED BY <2>1, <2>2
<1>6. Partition(Chunk, M)
  BY <1>5 DEF Partition
<1>7. NoList \in [User -> Seq(Chunk)]
  BY <1>1 DEF NoList, none
<1>8. ChunkTypes
  BY <1>1, <1>2, <1>7 DEF ChunkTypes
<1>9. ChunkPartition
  BY <1>2, <1>6 DEF ChunkPartition, M
<1>10. PollFresh
  BY <1>2 DEF PollFresh, none
<1> QED BY <1>8, <1>9, <1>10 DEF ChunkInv

\* At the start nothing is in flight.
LEMMA FlightStart ==
  ASSUME Init
  PROVE  FlightInv /\ NoneLost
<1>1. pc = "idle" /\ ongoing = <<>> /\ polled = 1 /\ remain = <<>>
  BY DEF Init
<1>2. Len(ongoing) = 0 /\ Len(remain) = 0
  BY <1>1
<1> QED BY <1>1, <1>2 DEF FlightInv, PollFresh, PollBound, NoneLost

\* The poll has its shape in every behaviour.
LEMMA FlightHolds == Spec => [](FlightInv /\ NoneLost)
<1>1. Init => FlightInv /\ NoneLost
  BY FlightStart
<1>2. CacheInv /\ FlightInv /\ NoneLost /\ [Next]_vars => (FlightInv /\ NoneLost)'
  BY FlightInvStep, NoneLostStep
<1> QED BY <1>1, <1>2, CacheInvariant, PTL DEF Spec

\* The chunks are accounted for in every behaviour that raises only before it settles.
LEMMA ChunkInvHolds == Spec /\ []RaisesUnsettled => []ChunkInv
<1>1. Init => ChunkInv
  BY ChunkInit
<1>2. CacheInv /\ ChunkInv /\ FlightInv /\ NoneLost /\ RaisesUnsettled /\ [Next]_vars => ChunkInv'
  BY ChunkStep
<1> QED BY <1>1, <1>2, CacheInvariant, FlightHolds, PTL DEF Spec

\* No chunk of the pinned buffer is lost or given twice: whatever is launched,
\* polled, finished late, cancelled or evicted, in every order, a chunk is
\* free, in one place of one user's list, or fresh in one unsettled offload.
\* The one exception is a time-out raised after the same poll has settled a
\* task: PollRaise leaves that task in ongoing_offload_tasks.
THEOREM ChunksPartitionedUnlessLost == Spec /\ []RaisesUnsettled => []ChunkPartition
<1>1. ChunkInv => ChunkPartition
  BY DEF ChunkInv
<1> QED BY <1>1, ChunkInvHolds, PTL

\* Without fail_close, or without a time-out, nothing is raised and the chunks are
\* partitioned in every behaviour.
THEOREM ChunksPartitioned ==
  ASSUME ~(Timeouts /\ FailClose)
  PROVE  Spec => []ChunkPartition
<1>1. RaisesUnsettled
  BY DEF RaisesUnsettled
<1> QED BY <1>1, ChunksPartitionedUnlessLost, PTL
-----------------------------------------------------------------------------
(***************************************************************************)
(* offload_launch as a whole.                                              *)
(***************************************************************************)
Checked == CheckForOffload(batch)
Sending == Only(Checked, {u \in User : Acquires(u, hostLen)})
Sent == [u \in User |-> IF Contains(Sending, u) THEN Slice(u, hostLen) ELSE <<>>]

\* The handle of a launch with the given fresh chunks.
NewHandle(fresh) ==
    [id |-> Min(FreeIds), users |-> Sending, start |-> Of(Range(Sending), hostLen),
     pages |-> Sent, fresh |-> fresh,
     chunks |-> [u \in User |-> IF Contains(Sending, u) THEN Written(u, hostLen, fresh) ELSE <<>>]]

\* A launch that sends something: the users out leave the host.
Launches(fresh, out) ==
    /\ LaunchParts(Sending, Sent, fresh, out)
    /\ \A u \in out : u \notin Range(Sending)
    /\ hostLen' = [u \in User |-> IF u \in out THEN 0 ELSE hostLen[u]]
    /\ ongoing' = Append(ongoing, NewHandle(fresh)) /\ stream' = Append(stream, NewHandle(fresh))
    /\ offloadLock' = [u \in User |-> IF u \in Range(Checked) THEN offloadLock[u] + 1 ELSE offloadLock[u]]

\* One that sends nothing: it keeps the locks of the users it did not find sending.
LaunchesNothing ==
    /\ UNCHANGED <<hostVars, ongoing, stream>>
    /\ offloadLock' = [u \in User |-> IF u \in Range(Checked) \ Range(Sending)
                                      THEN offloadLock[u] + 1 ELSE offloadLock[u]]

\* The users that send are some of those check_for_offload finds.
LEMMA Senders ==
  ASSUME CacheInv
  PROVE  /\ Checked \in Seq(User) /\ Sending \in Seq(User)
         /\ Range(Sending) \subseteq Range(Checked) /\ Range(Checked) \subseteq User
         /\ \A u \in User : Contains(Sending, u) <=> u \in Range(Sending)
         /\ \A u \in Range(Sending) : Acquires(u, hostLen)
         /\ \A u \in Range(Checked) : Acquires(u, hostLen) => u \in Range(Sending)
<1>1. GPUTypeOK /\ batch \in Seq(User)
  BY PartsOfInv DEF CacheInv, GPUInv, GPUTypeOK
<1>2. Checked \in Seq(User)
  BY <1>1, CheckUsers DEF Checked
<1>3. /\ Sending \in Seq(User)
      /\ Range(Sending) = Range(Checked) \cap {u \in User : Acquires(u, hostLen)}
  BY <1>2, OnlyProps DEF Sending
<1>4. Range(Checked) \subseteq User
  BY <1>2 DEF Range
<1>5. \A u \in User : Contains(Sending, u) <=> u \in Range(Sending)
  <2>1. DOMAIN Sending = 1..Len(Sending)
    BY <1>3
  <2> QED BY <2>1 DEF Contains, Range
<1> QED BY <1>2, <1>3, <1>4, <1>5

\* Nobody is evicted for a launch that sends it.
LEMMA PlanSpares ==
  ASSUME CacheInv, ChunkTypes, NEW users \in Seq(User), NEW needed, NEW out \in EvictionPlans(users, needed)
  PROVE  \A u \in out : u \notin Range(users)
<1> DEFINE cand == Victims(users)
<1>1. Reverse(hostLru) \in Seq(User)
  BY ReverseType DEF ChunkTypes
<1>2. cand \in Seq(User) /\ \A i \in 1..Len(cand) : cand[i] \notin Range(users)
  <2>1. cand \in Seq(User) /\ Range(cand) = Range(Reverse(hostLru)) \ Range(users)
    BY <1>1, WithoutProps DEF Victims
  <2> HIDE DEF cand
  <2>2. \A i \in 1..Len(cand) : cand[i] \in Range(cand)
    BY <2>1 DEF Range
  <2> QED BY <2>1, <2>2
<1>3. PICK n \in 0..Len(cand) : out = FirstOf(cand, n)
  BY DEF EvictionPlans
<1> HIDE DEF cand
<1>4. \A i \in 1..n : cand[i] \notin Range(users)
  BY <1>2, <1>3
<1> QED BY <1>3, <1>4 DEF FirstOf

\* offload_launch sends one handle for the users that acquire pages, or nothing.
LEMMA LaunchWhole ==
  ASSUME CacheInv, ChunkTypes, OffloadLaunch
  PROVE  LaunchesNothing \/ \E fresh, out : Launches(fresh, out)
<1> DEFINE fails == LaunchFails(Sending, hostLen, Sent)
<1>0. /\ Checked \in Seq(User) /\ Sending \in Seq(User) /\ Range(Sending) \subseteq Range(Checked)
  BY Senders
<1>1. /\ AcquireOffloadPages(Range(Checked), hostLen, IF Sending # <<>> /\ fails THEN Range(Sending) ELSE {})
      /\ IF Sending = <<>> \/ fails THEN UNCHANGED <<hostVars, ongoing, stream>>
         ELSE \E fresh \in FreshLists(Sending, hostLen, Sent, Chunk) : Launch(Sending, fresh)
  BY DEF OffloadLaunch, Checked, Sending, Sent
<1>2. offloadLock' = [u \in User |-> IF u \in Range(Checked) \ (IF Sending # <<>> /\ fails THEN Range(Sending) ELSE {})
                                     THEN offloadLock[u] + 1 ELSE offloadLock[u]]
  BY <1>1 DEF AcquireOffloadPages
<1> HIDE DEF fails
<1>3. CASE Sending = <<>> \/ fails
  <2>1. Range(Checked) \ (IF Sending # <<>> /\ fails THEN Range(Sending) ELSE {}) = Range(Checked) \ Range(Sending)
    <3>1. Sending = <<>> => Range(Sending) = {}
      BY DEF Range
    <3> QED BY <1>3, <3>1
  <2> QED BY <1>1, <1>2, <1>3, <2>1 DEF LaunchesNothing
<1>4. CASE ~(Sending = <<>> \/ fails)
  <2>1. PICK fresh : Launch(Sending, fresh)
    BY <1>1, <1>4
  <2>2. /\ LaunchOffload(Sending, hostLen, Sent, fresh)
        /\ ongoing' = Append(ongoing, NewHandle(fresh)) /\ stream' = Append(stream, NewHandle(fresh))
    BY <2>1 DEF Launch, NewHandle, Sent
  <2>3. PICK out \in EvictionPlans(Sending, Needed(Sending, hostLen, Sent)) :
           /\ fresh \in FreshLists(Sending, hostLen, Sent, emptyChunks \cup ChunksOf(out))
           /\ emptyChunks' = (emptyChunks \cup ChunksOf(out)) \ UNION {Range(fresh[u]) : u \in User}
           /\ hostChunks' = [u \in User |-> IF u \in out THEN <<>> ELSE hostChunks[u]]
           /\ hostLen' = [u \in User |-> IF u \in out THEN 0 ELSE hostLen[u]]
           /\ hostLru' = Without(hostLru, out)
    BY <2>2 DEF LaunchOffload
  <2>4. out \subseteq User /\ \A u \in out : u \notin Range(Sending)
    BY <1>0, <2>3, PlanUsers, PlanSpares
  <2>5. offloadLock' = [u \in User |-> IF u \in Range(Checked) THEN offloadLock[u] + 1 ELSE offloadLock[u]]
    BY <1>2, <1>4
  <2> QED BY <2>2, <2>3, <2>4, <2>5 DEF Launches, LaunchParts
<1> QED BY <1>3, <1>4
-----------------------------------------------------------------------------
(***************************************************************************)
(* Locks.                                                                  *)
(***************************************************************************)
\* How many of the tasks F carry u.
Carriers(F, u) == {k \in 1..Len(F) : u \in HandleUsers(F[k])}
Count(F, u) == Cardinality(Carriers(F, u))

\* How many handles carry a user is a number.
LEMMA CountNat ==
  ASSUME NEW F, Len(F) \in Nat, NEW u
  PROVE  IsFiniteSet(Carriers(F, u)) /\ Count(F, u) \in Nat
<1>1. IsFiniteSet(1..Len(F))
  BY FS_Interval
<1>2. Carriers(F, u) \subseteq 1..Len(F)
  BY DEF Carriers
<1>3. IsFiniteSet(Carriers(F, u))
  BY <1>1, <1>2, FS_Subset
<1> QED BY <1>3, FS_CardinalityType DEF Count

\* Lists with the same handles carry the same users.
LEMMA CountSame ==
  ASSUME NEW F, NEW G, Same(G, F), NEW u
  PROVE  Count(G, u) = Count(F, u)
<1>1. Carriers(G, u) = Carriers(F, u)
  BY DEF Same, Carriers
<1> QED BY <1>1 DEF Count

\* A handle added carries each of its users once more.
LEMMA CountAdds ==
  ASSUME NEW F, NEW G, Len(F) \in Nat, NEW h, Adds(F, h, G), NEW u
  PROVE  Count(G, u) = Count(F, u) + (IF u \in HandleUsers(h) THEN 1 ELSE 0)
<1>1. IsFiniteSet(Carriers(F, u)) /\ Count(F, u) \in Nat
  BY CountNat
<1>2. Len(G) = Len(F) + 1 /\ G[Len(F) + 1] = h /\ \A i \in 1..Len(F) : G[i] = F[i]
  BY DEF Adds
<1>3. 1..Len(G) = (1..Len(F)) \cup {Len(F) + 1}
  BY <1>2
<1>4. Carriers(G, u) = Carriers(F, u) \cup (IF u \in HandleUsers(h) THEN {Len(F) + 1} ELSE {})
  BY <1>2, <1>3 DEF Carriers
<1>5. Len(F) + 1 \notin Carriers(F, u)
  BY DEF Carriers
<1>6. CASE u \in HandleUsers(h)
  <2>1. Carriers(G, u) = Carriers(F, u) \cup {Len(F) + 1}
    BY <1>4, <1>6
  <2>2. Cardinality(Carriers(F, u) \cup {Len(F) + 1}) = Cardinality(Carriers(F, u)) + 1
    BY <1>1, <1>5, FS_AddElement
  <2> QED BY <1>6, <2>1, <2>2 DEF Count
<1>7. CASE u \notin HandleUsers(h)
  <2>1. Carriers(G, u) = Carriers(F, u)
    BY <1>4, <1>7
  <2> QED BY <1>1, <1>7, <2>1 DEF Count
<1> QED BY <1>6, <1>7

\* A handle left out carries each of its users once less.
LEMMA CountLeavesOut ==
  ASSUME NEW F, NEW G, Len(F) \in Nat, NEW i, LeavesOut(F, i, G), NEW u
  PROVE  Count(F, u) = Count(G, u) + (IF u \in HandleUsers(F[i]) THEN 1 ELSE 0)
<1>1. /\ i \in 1..Len(F) /\ Len(G) = Len(F) - 1
      /\ \A k \in 1..Len(G) : G[k] = IF k < i THEN F[k] ELSE F[k + 1]
  BY DEF LeavesOut
<1>2. Len(G) \in Nat
  BY <1>1
<1>3. IsFiniteSet(Carriers(F, u)) /\ IsFiniteSet(Carriers(G, u)) /\ Count(G, u) \in Nat
  BY <1>2, CountNat
<1> DEFINE S == Carriers(F, u) \ {i}
           T == Carriers(G, u)
           f == [k \in T |-> IF k < i THEN k ELSE k + 1]
<1>4. \A k \in T : k \in 1..Len(G) /\ u \in HandleUsers(G[k])
  BY DEF Carriers
<1>5. \A k \in T : f[k] \in S
  <2> SUFFICES ASSUME NEW k \in T PROVE f[k] \in S
    OBVIOUS
  <2>1. k \in 1..Len(G) /\ u \in HandleUsers(G[k])
    BY <1>4
  <2>2. f[k] \in 1..Len(F) /\ f[k] # i /\ G[k] = F[f[k]]
    BY <1>1, <1>2, <2>1
  <2> QED BY <2>1, <2>2 DEF Carriers
<1>6. \A k, m \in T : k # m => f[k] # f[m]
  <2> SUFFICES ASSUME NEW k \in T, NEW m \in T, k # m PROVE f[k] # f[m]
    OBVIOUS
  <2>1. k \in Int /\ m \in Int /\ i \in Int
    BY <1>1, <1>4
  <2> QED BY <2>1
<1>7. \A k \in S : \E m \in T : f[m] = k
  <2> SUFFICES ASSUME NEW k \in S PROVE \E m \in T : f[m] = k
    OBVIOUS
  <2>1. k \in 1..Len(F) /\ k # i /\ u \in HandleUsers(F[k])
    BY DEF Carriers
  <2> DEFINE m == IF k < i THEN k ELSE k - 1
  <2>2. m \in 1..Len(G) /\ (IF m < i THEN m ELSE m + 1) = k
    BY <1>1, <2>1
  <2>3. G[m] = F[k]
    BY <1>1, <2>2
  <2>4. m \in T
    BY <2>1, <2>2, <2>3 DEF Carriers
  <2>5. f[m] = k
    BY <2>2, <2>4
  <2> QED BY <2>4, <2>5
<1>8. f \in Bijection(T, S)
  <2>1. f \in [T -> S]
    BY <1>5
  <2> HIDE DEF f, S, T
  <2> QED BY <1>6, <1>7, <2>1 DEF Bijection, Injection, Surjection, IsInjective
<1>9. Cardinality(S) = Cardinality(T)
  <2>1. ExistsBijection(T, S) /\ IsFiniteSet(T)
    BY <1>3, <1>8 DEF ExistsBijection
  <2> HIDE DEF S, T
  <2> QED BY <2>1, FS_Bijection
<1>10. CASE u \in HandleUsers(F[i])
  <2>1. i \in Carriers(F, u)
    BY <1>1, <1>10 DEF Carriers
  <2>2. Cardinality(S) = Cardinality(Carriers(F, u)) - 1
    BY <1>3, <2>1, FS_RemoveElement
  <2>3. Cardinality(Carriers(F, u)) \in Nat
    BY <1>3, FS_CardinalityType
  <2> QED BY <1>3, <1>9, <1>10, <2>2, <2>3 DEF Count
<1>11. CASE u \notin HandleUsers(F[i])
  <2>1. S = Carriers(F, u)
    BY <1>11 DEF Carriers
  <2>2. Cardinality(Carriers(F, u)) = Cardinality(Carriers(G, u))
    <3> HIDE DEF S
    <3> QED BY <1>9, <2>1
  <2> QED BY <1>3, <1>11, <2>2 DEF Count
<1> QED BY <1>10, <1>11

\* Locks are acquired once for every launch that carries their user and released once.
LocksCover == \A u \in User : offloadLock[u] \in Nat /\ Count(InFlight, u) <= offloadLock[u]

\* Every step moves the lock of a user as the handles in flight that carry it.
LEMMA LocksStep ==
  ASSUME CacheInv, ChunkTypes, FlightInv, NoneLost, RaisesUnsettled, LocksCover, [Next]_vars
  PROVE  /\ LocksCover'
         /\ CheckedAcquire => \A u \in User :
               offloadLock[u] = Count(InFlight, u) => offloadLock'[u] = Count(InFlight, u)'
<1> DEFINE Follows ==
       /\ \A u \in User : offloadLock'[u] \in Nat /\ Count(InFlight', u) <= offloadLock'[u]
       /\ CheckedAcquire => \A u \in User :
             offloadLock[u] = Count(InFlight, u) => offloadLock'[u] = Count(InFlight', u)
<1>0. Len(InFlight) \in Nat
  <2>1. FlightShape
    BY FlightElements
  <2> QED BY <2>1 DEF FlightShape
<1>1. \A u \in User : Count(InFlight, u) \in Nat /\ offloadLock[u] \in Nat /\ Count(InFlight, u) <= offloadLock[u]
  BY <1>0, CountNat DEF LocksCover
<1>2. ASSUME Same(InFlight', InFlight), UNCHANGED offloadLock PROVE Follows
  <2>1. \A u \in User : Count(InFlight', u) = Count(InFlight, u)
    BY <1>2, CountSame
  <2> QED BY <1>1, <1>2, <2>1
<1>3. ASSUME PollReady \/ PollTimeout PROVE Follows
  <2>1. PICK done : Settle(Task, done)
    BY <1>3 DEF PollReady, PollTimeout
  <2>2. offloadLock' = [u \in User |-> IF u \in {v \in HandleUsers(Task) : Locked(v)} THEN offloadLock[u] - 1
                                                                                     ELSE offloadLock[u]]
    BY <2>1 DEF Settle, ReleaseOffloadPages
  <2>3. LeavesOut(InFlight, Len(remain) + 1, InFlight') /\ InFlight[Len(remain) + 1] = Task
    BY <1>3, SettleMoves
  <2>4. ASSUME NEW u \in User
        PROVE  Count(InFlight, u) = Count(InFlight', u) + (IF u \in HandleUsers(Task) THEN 1 ELSE 0)
    BY <1>0, <2>3, CountLeavesOut
  <2>5. Len(InFlight') \in Nat
    BY <1>0, <2>3 DEF LeavesOut
  <2>6. ASSUME NEW u \in User
        PROVE  /\ offloadLock'[u] \in Nat /\ Count(InFlight', u) <= offloadLock'[u]
               /\ offloadLock[u] = Count(InFlight, u) => offloadLock'[u] = Count(InFlight', u)
    <3>1. Count(InFlight', u) \in Nat
      BY <2>5, CountNat
    <3>2. CASE u \in HandleUsers(Task)
      <4>1. Locked(u)
        BY <1>1, <2>4, <3>1, <3>2 DEF Locked
      <4>2. offloadLock'[u] = offloadLock[u] - 1
        BY <2>2, <3>2, <4>1
      <4> QED BY <1>1, <2>4, <3>1, <3>2, <4>2
    <3>3. CASE u \notin HandleUsers(Task)
      <4>1. offloadLock'[u] = offloadLock[u]
        BY <2>2, <3>3
      <4> QED BY <1>1, <2>4, <3>1, <3>3, <4>1
    <3> QED BY <3>2, <3>3
  <2> QED BY <2>6
<1>4. ASSUME OffloadLaunch PROVE Follows
  <2>1. LaunchesNothing \/ \E fresh, out : Launches(fresh, out)
    BY <1>4, LaunchWhole
  <2>2. Range(Sending) \subseteq Range(Checked) /\ (CheckedAcquire => Range(Checked) \subseteq Range(Sending))
    <3>1. Range(Sending) \subseteq Range(Checked) /\ pc = "offload"
      BY <1>4, Senders DEF OffloadLaunch
    <3> QED BY <3>1, Senders DEF CheckedAcquire, Checked
  <2>3. CASE LaunchesNothing
    <3>1. \A u \in User : Count(InFlight', u) = Count(InFlight, u)
      BY <1>4, <2>3, LaunchMoves, CountSame DEF LaunchesNothing
    <3>2. \A u \in User : offloadLock'[u] \in Nat /\ offloadLock[u] <= offloadLock'[u]
      BY <1>1, <2>3 DEF LaunchesNothing
    <3>3. ASSUME CheckedAcquire, NEW u \in User PROVE offloadLock'[u] = offloadLock[u]
      BY <2>2, <2>3, <3>3 DEF LaunchesNothing
    <3> QED BY <1>1, <3>1, <3>2, <3>3
  <2>4. ASSUME NEW fresh, NEW out, Launches(fresh, out) PROVE Follows
    <3>1. Adds(InFlight, NewHandle(fresh), InFlight')
      BY <1>4, <2>4, LaunchMoves DEF Launches
    <3>2. HandleUsers(NewHandle(fresh)) = Range(Sending)
      BY DEF NewHandle, HandleUsers
    <3>3. \A u \in User : Count(InFlight', u) = Count(InFlight, u) + (IF u \in Range(Sending) THEN 1 ELSE 0)
      BY <1>0, <3>1, <3>2, CountAdds
    <3>4. \A u \in User : offloadLock'[u] = IF u \in Range(Checked) THEN offloadLock[u] + 1 ELSE offloadLock[u]
      BY <2>4 DEF Launches
    <3> QED BY <1>1, <2>2, <3>3, <3>4
  <2> QED BY <2>1, <2>3, <2>4
<1>5. ASSUME PollRaise PROVE Follows
  BY <1>2, <1>5, RaiseKeeps DEF PollRaise, offloadVars
<1>6. ASSUME ClientEvictAllGPU PROVE Follows
  <2>1. ongoing = <<>> /\ pc = "idle" /\ offloadLock' = Zero
    BY <1>6 DEF ClientEvictAllGPU, ClientQuiet, EvictAll
  <2>2. InFlight = <<>>
    BY <2>1 DEF InFlight
  <2>3. Same(InFlight', InFlight)
    BY <1>6, FlightStays DEF ClientEvictAllGPU, ClientQuiet, PollReady, PollTimeout, OffloadLaunch, PollRaise, Polling
  <2>4. ASSUME NEW u \in User PROVE Count(InFlight', u) = 0
    <3>1. Carriers(InFlight, u) = {}
      BY <2>2 DEF Carriers
    <3>2. Count(InFlight, u) = 0
      BY <3>1, FS_EmptySet DEF Count
    <3> QED BY <2>3, <3>2, CountSame
  <2> QED BY <2>1, <2>4 DEF Zero
<1>7. ASSUME ~PollReady /\ ~PollTimeout /\ ~OffloadLaunch /\ ~PollRaise /\ ~ClientEvictAllGPU PROVE Follows
  <2>1. Same(InFlight', InFlight)
    BY <1>7, FlightStays
  <2>2. UNCHANGED offloadLock
    <3>1. ASSUME NEW b \in Batch, NEW tot \in [User -> Lengths], Lookup(b, tot) PROVE UNCHANGED offloadLock
      BY <3>1 DEF Lookup, gpuVars, offloadVars
    <3>2. CASE Allocate \/ AllocateStep
      BY <3>2 DEF Allocate, AllocateStep, AllocateCall, Reconcile, RetainStep, EvictOffloadedStep, EvictUserStep,
         TakePages, offloadVars
    <3>3. CASE Onboard \/ Forward \/ PollLaunched \/ PollReturn \/ OffloadFlush \/ OffloadCopy
      BY <3>3 DEF Onboard, Forward, PollLaunched, PollReturn, OffloadFlush, OffloadCopy, gpuVars, offloadVars
    <3>4. CASE ClientEvictAllHost \/ Crashed \/ UNCHANGED vars
      BY <3>4 DEF ClientEvictAllHost, Crashed, vars, gpuVars, offloadVars
    <3>5. CASE \E u \in User : ClientEvictGPU(u) \/ ClientEvictHost(u)
      BY <3>5 DEF ClientEvictGPU, ClientEvictHost, gpuVars, offloadVars
    <3> QED BY <1>7, <3>1, <3>2, <3>3, <3>4, <3>5 DEF Next, ThreadStep
  <2> QED BY <1>2, <2>1, <2>2
<1>8. Follows
  BY <1>3, <1>4, <1>5, <1>6, <1>7
<1> QED BY <1>8 DEF LocksCover

\* At the start no user is locked.
LEMMA FlightInit ==
  ASSUME Init
  PROVE  LocksCover /\ \A u \in User : offloadLock[u] = Count(InFlight, u)
<1>1. InFlight = <<>> /\ offloadLock = Zero
  BY DEF Init, InFlight, GPUInit
<1>2. Len(<<>>) = 0
  OBVIOUS
<1>3. ASSUME NEW u \in User PROVE Count(InFlight, u) = 0
  <2>1. Carriers(InFlight, u) = {}
    BY <1>1, <1>2 DEF Carriers
  <2> QED BY <2>1, FS_EmptySet DEF Count
<1> QED BY <1>1, <1>3 DEF LocksCover, Zero

\* A user stays locked against eviction as long as an unsettled offload carries
\* it: _uid_offload_lock counts at least the unsettled handles of each user, over
\* launches, polls, time-outs, cancels and evictions in every order.
THEOREM LocksCoverTasks == Spec /\ []RaisesUnsettled => []LocksCover
<1>1. Init => LocksCover
  BY FlightInit
<1>2. CacheInv /\ ChunkInv /\ FlightInv /\ NoneLost /\ RaisesUnsettled /\ LocksCover /\ [Next]_vars => LocksCover'
  BY LocksStep DEF ChunkInv
<1> QED BY <1>1, <1>2, CacheInvariant, ChunkInvHolds, FlightHolds, PTL DEF Spec

\* A user is locked once for every unsettled handle that carries it.
LocksEqual == \A u \in User : offloadLock[u] = Count(InFlight, u)

\* ... and exactly those when acquire_offload_pages locks no user it does not
\* send: no lock outlives its offload, and none is released twice.
THEOREM LocksMatch == Spec /\ [](RaisesUnsettled /\ CheckedAcquire) => []LocksMatchTasks
<1>1. Init => LocksEqual
  BY FlightInit DEF LocksEqual
<1>2. CacheInv /\ ChunkInv /\ FlightInv /\ NoneLost /\ RaisesUnsettled /\ LocksCover
      /\ CheckedAcquire /\ LocksEqual /\ [Next]_vars => LocksEqual'
  <2> SUFFICES ASSUME CacheInv, ChunkInv, FlightInv, NoneLost, RaisesUnsettled, LocksCover,
                      CheckedAcquire, LocksEqual, [Next]_vars
               PROVE  LocksEqual'
    OBVIOUS
  <2>1. ChunkTypes
    BY DEF ChunkInv
  <2>2. \A u \in User : offloadLock[u] = Count(InFlight, u) => offloadLock'[u] = Count(InFlight, u)'
    BY <2>1, LocksStep
  <2>3. \A u \in User : offloadLock[u] = Count(InFlight, u)
    BY DEF LocksEqual
  <2>4. \A u \in User : offloadLock'[u] = Count(InFlight, u)'
    BY <2>2, <2>3
  <2> QED BY <2>4 DEF LocksEqual
<1>3. CacheInv /\ FlightInv /\ LocksEqual => LocksMatchTasks
  <2> SUFFICES ASSUME CacheInv, FlightInv, LocksEqual PROVE LocksMatchTasks
    OBVIOUS
  <2>1. PICK X : InFlight \in Seq(X)
    BY FlightIs
  <2>2. DOMAIN InFlight = 1..Len(InFlight)
    BY <2>1
  <2>3. \A u : Carriers(InFlight, u) = {k \in DOMAIN InFlight : u \in HandleUsers(InFlight[k])}
    BY <2>2 DEF Carriers
  <2> QED BY <2>3 DEF LocksEqual, LocksMatchTasks, Count
<1> QED BY <1>1, <1>2, <1>3, LocksCoverTasks, CacheInvariant, ChunkInvHolds, FlightHolds, PTL DEF Spec
-----------------------------------------------------------------------------
(***************************************************************************)
(* The pages of an offload.                                                *)
(***************************************************************************)
\* Whenever allocate() must evict whole users, getUIdToEvict finds one that is
\* neither locked nor in the batch: it neither asserts nor falls back on the
\* front of _lru_list.
VictimFound ==
    phase = "room" /\ ~Enough /\ cursor > Len(lruList) => \E i \in 1..Len(lruList) : Evictable(lruList[i])

\* When some user may be evicted, the one chosen may be.
LEMMA VictimIsEvictable ==
  ASSUME lruList \in Seq(User), \E i \in 1..Len(lruList) : Evictable(lruList[i])
  PROVE  Evictable(UIdToEvict)
<1> DEFINE I == {i \in 1..Len(lruList) : Evictable(lruList[i])}
<1>1. I # {} /\ I \subseteq Nat
  OBVIOUS
<1>2. SelectInSeq(lruList, Evictable) = Min(I)
  BY <1>1 DEF SelectInSeq
<1> HIDE DEF I
<1>3. Min(I) \in I
  BY <1>1, MinProps
<1>4. Evictable(lruList[Min(I)])
  BY <1>3 DEF I
<1> QED BY <1>2, <1>4 DEF UIdToEvict

\* What the page table has of v stays.
Spared(v) == pageIds'[v] = pageIds[v] /\ startPos'[v] = startPos[v] /\ cachedLen'[v] = cachedLen[v]

\* Making room touches neither the users under offload nor those of the batch.
LEMMA RoomSpares ==
  ASSUME CacheInv, KeptOK, NoGapAtLookup, VictimFound, AllocateStep, ~TakePages,
         NEW v \in User, Locked(v) \/ Frozen(v)
  PROVE  Spared(v)
<1>0. /\ lruList \in Seq(User) /\ pageIds \in [User -> Seq(Page)]
      /\ startPos \in [User -> Nat] /\ cachedLen \in [User -> Nat]
  BY DEF CacheInv, Parts, Table, TableType
<1>1. CASE UNCHANGED <<pageIds, startPos, cachedLen>>
  BY <1>1 DEF Spared
<1>2. CASE Reconcile
  BY <1>1, <1>2, ReconcileKeepsTable DEF tableVars
<1>3. CASE RetainStep
  BY <1>1, <1>3 DEF RetainStep
<1>4. CASE EvictOffloadedStep
  <2> DEFINE u == lruList[cursor]
  <2>1. CASE ~Evictable(u)
    BY <1>1, <1>4, <2>1 DEF EvictOffloadedStep, tableVars
  <2>2. CASE Evictable(u)
    <3>1. EvictOffloaded(u) /\ EraseIfEmptied(u) /\ u # v
      BY <1>4, <2>2 DEF EvictOffloadedStep, Evictable
    <3> QED BY <1>0, <3>1 DEF EvictOffloaded, EraseIfEmptied, Spared
  <2> QED BY <2>1, <2>2
<1>5. CASE EvictUserStep
  <2>1. phase = "room" /\ ~Enough /\ cursor > Len(lruList)
    BY <1>5 DEF EvictUserStep
  <2>2. UIdToEvict # v
    <3>1. Evictable(UIdToEvict)
      BY <1>0, <2>1, VictimIsEvictable DEF VictimFound
    <3> QED BY <3>1 DEF Evictable
  <2>3. UNCHANGED tableVars \/ Evict(UIdToEvict)
    BY <1>5 DEF EvictUserStep
  <2>4. CASE Evict(UIdToEvict)
    BY <1>0, <2>2, <2>4 DEF Evict, Spared, tableVars
  <2> QED BY <1>1, <2>3, <2>4 DEF tableVars
<1> QED BY <1>2, <1>3, <1>4, <1>5 DEF AllocateStep

\* The page list of the user being served, around the cached one.
LEMMA TakenList ==
  ASSUME CacheInv, TakePages, NEW u, u = batch[at]
  PROVE  /\ u \in User /\ TotalPages(u) \in Nat /\ OnloadPages(u) \in Nat /\ Len(pageIds[u]) \in Nat
         /\ Len(pageIds'[u]) = TotalPages(u) /\ pageIndices'[u] = pageIds'[u]
         /\ \A i \in 1..Len(pageIds[u]) : /\ OnloadPages(u) + i \in 1..TotalPages(u)
                                          /\ pageIds'[u][OnloadPages(u) + i] = pageIds[u][i]
         /\ \A i \in FreshSlots(u) : pageIds'[u][i] \in emptyPages
         /\ \A v \in User \ {u} : Spared(v) /\ pageIndices'[v] = pageIndices[v]
<1>1. /\ phase = "room"
      /\ startPos' = [startPos EXCEPT ![u] = 0]
      /\ cachedLen' = [cachedLen EXCEPT ![u] = total[u]]
  BY DEF TakePages
<1>2. PICK take \in Injection(FreshSlots(u), emptyPages) :
         /\ pageIds' = [pageIds EXCEPT ![u] = PageList(u, take)]
         /\ pageIndices' = [pageIndices EXCEPT ![u] = PageList(u, take)]
  BY DEF TakePages
<1>3. /\ at \in 1..Len(batch) /\ u \in User
      /\ total \in [User -> Lengths] /\ hostHit \in [User -> Lengths] /\ history[u] <= total[u]
      /\ pageIndices \in [User -> Seq(Page)]
  BY <1>1 DEF CacheInv, Parts, RequestType, RequestSound
<1>4. /\ pageIds \in [User -> Seq(Page)] /\ startPos \in [User -> Nat] /\ cachedLen \in [User -> Nat] /\ Table
  BY DEF CacheInv, Parts, Table, TableType
<1>5. /\ TotalPages(u) \in Nat /\ OnloadPages(u) \in Nat
      /\ CurPages(u) = Len(pageIds[u])
      /\ CurPages(u) > 0 => OnloadPages(u) + CurPages(u) <= TotalPages(u)
  BY <1>3, <1>4, CachedPagesFit
<1>6. /\ pageIds'[u] = PageList(u, take) /\ pageIndices'[u] = PageList(u, take)
      /\ \A v \in User \ {u} : pageIds'[v] = pageIds[v] /\ pageIndices'[v] = pageIndices[v]
  BY <1>2, <1>3, <1>4
<1>7. \A v \in User \ {u} : Spared(v)
  BY <1>1, <1>4, <1>6 DEF Spared
<1> DEFINE L == PageList(u, take)
           T == TotalPages(u)
           o == OnloadPages(u)
           n == Len(pageIds[u])
<1>8. L = [i \in 1..T |-> IF i \in FreshSlots(u) THEN take[i] ELSE pageIds[u][i - o]]
  BY DEF PageList
<1>9. FreshSlots(u) = {i \in 1..T : i <= o \/ i > o + n}
  BY <1>5 DEF FreshSlots
<1>10. n \in Nat
  BY <1>3, <1>4
<1>11. Len(L) = T
  <2>1. DOMAIN L = 1..T /\ T \in Nat /\ L \in [1..T -> {L[i] : i \in 1..T}]
    BY <1>5, <1>8
  <2> HIDE DEF L, T
  <2> QED BY <2>1
<1> HIDE DEF L, T, o, n
<1>12. ASSUME NEW i \in 1..n PROVE o + i \in 1..T /\ L[o + i] = pageIds[u][i]
  <2>1. n > 0 /\ o + n <= T /\ o \in Nat /\ T \in Nat
    BY <1>5, <1>10 DEF n, o, T
  <2>2. o + i \in 1..T /\ (o + i) - o = i
    BY <1>10, <2>1
  <2>3. o + i \notin FreshSlots(u)
    BY <1>9, <1>10, <2>1
  <2> QED BY <1>8, <2>2, <2>3
<1>13. ASSUME NEW i \in FreshSlots(u) PROVE L[i] \in emptyPages
  <2>1. take[i] \in emptyPages
    BY DEF Injection
  <2>2. i \in 1..T
    BY <1>9
  <2> QED BY <1>8, <2>1, <2>2
<1> QED BY <1>3, <1>5, <1>6, <1>7, <1>10, <1>11, <1>12, <1>13 DEF L, T, o, n

\* The pages of the users under offload stay theirs until the offload is settled.
LEMMA LockedKeepPages ==
  ASSUME CacheInv, KeptOK, NoGapAtLookup, VictimFound, [Next]_vars,
         ~ClientEvictAllGPU, ~\E u \in User : ClientEvictGPU(u),
         NEW v \in User, Locked(v)
  PROVE  Range(pageIds[v]) \subseteq Range(pageIds'[v])
<1>1. CASE UNCHANGED pageIds
  BY <1>1
<1>2. CASE AllocateStep /\ ~TakePages
  BY <1>2, RoomSpares DEF Spared
<1>3. CASE AllocateStep /\ TakePages
  <2> DEFINE u == batch[at]
  <2>1. CASE v # u
    BY <1>3, <2>1, TakenList DEF Spared
  <2>2. CASE v = u
    <3>1. /\ TotalPages(u) \in Nat /\ Len(pageIds'[u]) = TotalPages(u)
          /\ \A i \in 1..Len(pageIds[u]) : /\ OnloadPages(u) + i \in 1..TotalPages(u)
                                           /\ pageIds'[u][OnloadPages(u) + i] = pageIds[u][i]
      BY <1>3, TakenList
    <3>2. CacheInv'
      BY CacheStep
    <3>3. pageIds[u] \in Seq(Page) /\ pageIds'[u] \in Seq(Page)
      BY <2>2, <3>2 DEF CacheInv, Parts, Table, TableType
    <3> HIDE DEF u
    <3>4. DOMAIN pageIds[u] = 1..Len(pageIds[u]) /\ DOMAIN pageIds'[u] = 1..Len(pageIds'[u])
      BY <3>3
    <3>5. ASSUME NEW i \in DOMAIN pageIds[u] PROVE pageIds[u][i] \in Range(pageIds'[u])
      <4>1. OnloadPages(u) + i \in DOMAIN pageIds'[u] /\ pageIds'[u][OnloadPages(u) + i] = pageIds[u][i]
        BY <3>1, <3>4
      <4> QED BY <4>1 DEF Range
    <3> QED BY <2>2, <3>5 DEF Range
  <2> QED BY <2>1, <2>2
<1>4. ASSUME NEW b \in Batch, NEW tot \in [User -> Lengths], Lookup(b, tot) PROVE UNCHANGED pageIds
  BY <1>4 DEF Lookup, gpuVars, tableVars
<1>5. CASE Allocate \/ Onboard \/ Forward \/ OffloadLaunch
  BY <1>1, <1>5 DEF Allocate, AllocateCall, Onboard, Forward, OffloadLaunch, AcquireOffloadPages, gpuVars, tableVars
<1>6. CASE PollReady \/ PollLaunched \/ PollTimeout \/ PollRaise \/ PollReturn
  BY <1>1, <1>6 DEF PollReady, PollLaunched, PollTimeout, PollRaise, PollReturn, Settle, ReleaseOffloadPages,
     gpuVars, tableVars
<1>7. CASE OffloadFlush \/ OffloadCopy \/ ClientEvictAllHost \/ Crashed \/ UNCHANGED vars
  BY <1>1, <1>7 DEF OffloadFlush, OffloadCopy, ClientEvictAllHost, Crashed, vars, gpuVars, tableVars
<1>8. CASE \E u \in User : ClientEvictHost(u)
  BY <1>1, <1>8 DEF ClientEvictHost, gpuVars, tableVars
<1> QED BY <1>1, <1>2, <1>3, <1>4, <1>5, <1>6, <1>7, <1>8 DEF Next, ThreadStep

\* What is in flight after a step was before, or has just been launched.
LEMMA FlightFrom ==
  ASSUME CacheInv, ChunkTypes, FlightInv, NoneLost, RaisesUnsettled, [Next]_vars,
         NEW k \in 1..Len(InFlight')
  PROVE  \/ \E j \in 1..Len(InFlight) : InFlight'[k] = InFlight[j]
         \/ OffloadLaunch /\ \E fresh, out : Launches(fresh, out) /\ InFlight'[k] = NewHandle(fresh)
<1>0. Len(InFlight) \in Nat
  <2>1. FlightShape
    BY FlightElements
  <2> QED BY <2>1 DEF FlightShape
<1>1. ASSUME Same(InFlight', InFlight) PROVE \E j \in 1..Len(InFlight) : InFlight'[k] = InFlight[j]
  BY <1>1 DEF Same
<1>2. CASE PollReady \/ PollTimeout
  <2>1. /\ Len(InFlight') = Len(InFlight) - 1
        /\ InFlight'[k] = IF k < Len(remain) + 1 THEN InFlight[k] ELSE InFlight[k + 1]
    BY <1>2, SettleMoves DEF LeavesOut
  <2>2. k \in 1..Len(InFlight) /\ k + 1 \in 1..Len(InFlight)
    BY <1>0, <2>1
  <2> QED BY <2>1, <2>2
<1>3. CASE OffloadLaunch
  <2>1. LaunchesNothing \/ \E fresh, out : Launches(fresh, out)
    BY <1>3, LaunchWhole
  <2>2. CASE LaunchesNothing
    BY <1>1, <1>3, <2>2, LaunchMoves DEF LaunchesNothing
  <2>3. ASSUME NEW fresh, NEW out, Launches(fresh, out)
        PROVE  \/ \E j \in 1..Len(InFlight) : InFlight'[k] = InFlight[j]
               \/ Launches(fresh, out) /\ InFlight'[k] = NewHandle(fresh)
    <3>1. Adds(InFlight, NewHandle(fresh), InFlight')
      BY <1>3, <2>3, LaunchMoves DEF Launches
    <3>2. k \in 1..Len(InFlight) \/ k = Len(InFlight')
      BY <1>0, <3>1 DEF Adds
    <3> QED BY <2>3, <3>1, <3>2 DEF Adds
  <2> QED BY <1>3, <2>1, <2>2, <2>3
<1>4. CASE PollRaise
  BY <1>1, <1>4, RaiseKeeps
<1> QED BY <1>1, <1>2, <1>3, <1>4, FlightStays

\* A user carried by an unsettled offload is locked.
LEMMA CarriedLocked ==
  ASSUME CacheInv, FlightInv, LocksCover, NEW k \in 1..Len(InFlight), NEW u \in User,
         u \in HandleUsers(InFlight[k])
  PROVE  Locked(u)
<1>1. Len(InFlight) \in Nat
  <2>1. FlightShape
    BY FlightElements
  <2> QED BY <2>1 DEF FlightShape
<1>2. k \in Carriers(InFlight, u) /\ IsFiniteSet(Carriers(InFlight, u)) /\ Count(InFlight, u) \in Nat
  BY <1>1, CountNat DEF Carriers
<1>3. Count(InFlight, u) # 0
  BY <1>2, FS_EmptySet DEF Count
<1> QED BY <1>2, <1>3 DEF LocksCover, Locked

\* What is in flight is a handle like those of the tasks.
LEMMA FlightHandles ==
  ASSUME CacheInv, FlightInv, NEW k \in 1..Len(InFlight)
  PROVE  HandleOK(InFlight[k], history)
<1>1. /\ Len(remain) \in Nat /\ Len(ongoing) \in Nat /\ polled \in 1..(Len(ongoing) + 1)
      /\ Len(InFlight) = Len(remain) + Len(ongoing) + 1 - polled
      /\ InFlight[k] = FlightAt(remain, ongoing, polled, k)
  <2>1. FlightShape
    BY FlightElements
  <2> QED BY <2>1 DEF FlightShape
<1>2. CASE k <= Len(remain)
  BY <1>1, <1>2 DEF FlightAt, CacheInv, TasksOK, HandlesOK
<1>3. CASE ~(k <= Len(remain))
  <2>1. polled + k - Len(remain) - 1 \in 1..Len(ongoing)
    BY <1>1, <1>3
  <2> QED BY <1>1, <1>3, <2>1 DEF FlightAt, CacheInv, TasksOK, HandlesOK
<1> QED BY <1>2, <1>3

\* The pages of every unsettled handle are still in their user's list.
PagesPlaced ==
    \A k \in 1..Len(InFlight) : \A u \in HandleUsers(InFlight[k]) :
        Range(InFlight[k].pages[u]) \subseteq Range(pageIds[u])

\* Every step leaves the pages under offload with their user.
LEMMA PagesPlacedStep ==
  ASSUME CacheInv, ChunkTypes, FlightInv, NoneLost, RaisesUnsettled, LocksCover, KeptOK,
         NoGapAtLookup, VictimFound, OffloadsHaveNoGap', PagesPlaced, [Next]_vars
  PROVE  PagesPlaced'
<1>0. CacheInv' /\ FlightInv'
  BY CacheStep, FlightInvStep
<1>1. CASE ClientEvictAllGPU \/ \E u \in User : ClientEvictGPU(u)
  <2>1. ongoing' = <<>> /\ pc' = "idle"
    BY <1>1 DEF ClientEvictAllGPU, ClientEvictGPU, ClientQuiet, pollVars
  <2>2. InFlight' = <<>> /\ Len(<<>>) = 0
    BY <2>1 DEF InFlight
  <2> QED BY <2>2 DEF PagesPlaced
<1>2. ASSUME ~ClientEvictAllGPU, ~\E u \in User : ClientEvictGPU(u),
             NEW k \in 1..Len(InFlight'), NEW u \in HandleUsers(InFlight'[k])
      PROVE  Range(InFlight'[k].pages[u]) \subseteq Range(pageIds'[u])
  <2>1. CASE \E j \in 1..Len(InFlight) : InFlight'[k] = InFlight[j]
    <3>1. PICK j \in 1..Len(InFlight) : InFlight'[k] = InFlight[j]
      BY <2>1
    <3>2. u \in HandleUsers(InFlight[j])
      BY <3>1
    <3>3. u \in User
      BY <3>2, FlightHandles DEF HandleOK, HandleUsers, Range
    <3>4. Locked(u)
      BY <3>2, <3>3, CarriedLocked
    <3>5. Range(pageIds[u]) \subseteq Range(pageIds'[u])
      BY <1>2, <3>3, <3>4, LockedKeepPages
    <3> QED BY <3>1, <3>2, <3>5 DEF PagesPlaced
  <2>2. ASSUME OffloadLaunch, NEW fresh, NEW out, Launches(fresh, out), InFlight'[k] = NewHandle(fresh)
        PROVE  Range(InFlight'[k].pages[u]) \subseteq Range(pageIds'[u])
    <3>1. u \in Range(Sending) /\ u \in User /\ Contains(Sending, u)
      BY <1>2, <2>2, Senders DEF NewHandle, HandleUsers
    <3>2. InFlight'[k].pages[u] = Slice(u, hostLen)
      BY <2>2, <3>1 DEF NewHandle, Sent
    <3>3. pageIds' = pageIds
      BY <2>2 DEF OffloadLaunch, AcquireOffloadPages, tableVars
    <3>4. NoPage \notin Range(Slice(u, hostLen))
      <4>1. ongoing' = Append(ongoing, NewHandle(fresh))
        BY <2>2 DEF Launches
      <4>2. PICK X : ongoing \in Seq(X)
        BY TaskLists
      <4>3. ongoing \in Seq(X \cup {NewHandle(fresh)}) /\ NewHandle(fresh) \in X \cup {NewHandle(fresh)}
        BY <4>2
      <4>4. Len(ongoing) + 1 \in DOMAIN ongoing' /\ ongoing'[Len(ongoing) + 1] = NewHandle(fresh)
        BY <4>1, <4>3, AppendProperties
      <4>5. NoPage \notin Range(ongoing'[Len(ongoing) + 1].pages[u])
        BY <3>1, <4>4 DEF OffloadsHaveNoGap
      <4> QED BY <2>2, <3>2, <4>4, <4>5
    <3>5. ASSUME NEW p \in Range(Slice(u, hostLen)) PROVE p \in Range(pageIds[u])
      <4>1. PICK i \in 1..SliceLen(u, hostLen) :
               p = IF SliceStart(u, hostLen) + i \in 1..Len(pageIds[u]) THEN pageIds[u][SliceStart(u, hostLen) + i]
                   ELSE NoPage
        BY DEF Slice, Range
      <4>2. pageIds[u] \in Seq(Page)
        BY <3>1 DEF CacheInv, Parts, Table, TableType
      <4>3. SliceStart(u, hostLen) + i \in DOMAIN pageIds[u] /\ p = pageIds[u][SliceStart(u, hostLen) + i]
        BY <3>4, <4>1, <4>2
      <4> QED BY <4>3 DEF Range
    <3> QED BY <3>2, <3>3, <3>5
  <2> QED BY <2>1, <2>2, FlightFrom
<1> QED BY <1>1, <1>2 DEF PagesPlaced

\* The pages an offload copies from stay in their user's page list until the
\* offload is settled ("locked during offloading", gpu_kvcache_manager_impl.cpp:524):
\* eviction, drops, merges and the allocations of later requests take none of
\* them, unless getUIdToEvict falls back on a locked user.
THEOREM PagesStay ==
  Spec /\ [](RaisesUnsettled /\ NoGapAtLookup /\ VictimFound /\ OffloadsHaveNoGap) => []OffloadingPagesStay
<1>1. Init => PagesPlaced /\ KeptOK
  <2>1. Init => InFlight = <<>> /\ Len(<<>>) = 0
    BY DEF Init, InFlight
  <2> QED BY <2>1, KeptInit DEF PagesPlaced
<1>2. CacheInv /\ KeptOK /\ NoGapAtLookup /\ [Next]_vars => KeptOK'
  BY KeptStep
<1>3. CacheInv /\ ChunkInv /\ FlightInv /\ NoneLost /\ RaisesUnsettled /\ LocksCover /\ KeptOK
      /\ NoGapAtLookup /\ VictimFound /\ OffloadsHaveNoGap' /\ PagesPlaced /\ [Next]_vars => PagesPlaced'
  BY PagesPlacedStep DEF ChunkInv
<1>4. CacheInv /\ FlightInv /\ PagesPlaced => OffloadingPagesStay
  <2> SUFFICES ASSUME CacheInv, FlightInv, PagesPlaced PROVE OffloadingPagesStay
    OBVIOUS
  <2>1. PICK X : InFlight \in Seq(X)
    BY FlightIs
  <2>2. DOMAIN InFlight = 1..Len(InFlight)
    BY <2>1
  <2> QED BY <2>2 DEF PagesPlaced, OffloadingPagesStay
<1> QED BY <1>1, <1>2, <1>3, <1>4, LocksCoverTasks, CacheInvariant, ChunkInvHolds, FlightHolds, PTL DEF Spec
-----------------------------------------------------------------------------
(***************************************************************************)
(* The users of a request that allocate() has served.                      *)
(***************************************************************************)
IsServed(k) == phase = "returned" \/ (phase \in {"retain", "room"} /\ k < at)

\* The user has the page list of the request.
Built(u) == /\ pageIndices[u] = pageIds[u] /\ startPos[u] = 0
            /\ cachedLen[u] = total[u] /\ history[u] = total[u]

\* Those served have their list and nobody else has; the others are as looked up.
ServedOK ==
    /\ phase # "undefined"
    /\ phase \in {"idle", "reconcile"} => pageIndices = NoList
    /\ \A u \in User : ~Frozen(u) => pageIndices[u] = <<>>
    /\ phase # "idle" => \A k \in DOMAIN batch :
          IF IsServed(k) THEN Built(batch[k]) ELSE pageIndices[batch[k]] = <<>> /\ AsLookedUp(batch[k])

\* Every step keeps ServedOK.
LEMMA ServedStep ==
  ASSUME CacheInv, KeptOK, NoGapAtLookup, VictimFound, ServedOK, [Next]_vars
  PROVE  ServedOK'
<1>0. /\ FlowOK /\ RequestType /\ RequestSound /\ TableType
      /\ batch \in Seq(User) /\ Len(batch) \in Nat /\ DOMAIN batch = 1..Len(batch)
      /\ pageIndices \in [User -> Seq(Page)]
  <2>1. FlowOK /\ RequestType /\ RequestSound /\ TableType
    BY DEF CacheInv, Parts, Table
  <2>2. batch \in Seq(User) /\ pageIndices \in [User -> Seq(Page)]
    BY <2>1 DEF RequestType
  <2> QED BY <2>1, <2>2
<1>1. ASSUME UNCHANGED <<phase, at, batch, total, pageIndices, pageIds, startPos, cachedLen, history, lookup>>
      PROVE  ServedOK'
  BY <1>1 DEF ServedOK, IsServed, Built, AsLookedUp, Frozen
<1>2. ASSUME phase' = "idle", pageIndices' = NoList PROVE ServedOK'
  BY <1>2 DEF ServedOK, NoList
<1>3. ASSUME NEW b \in Batch, NEW tot \in [User -> Lengths], Lookup(b, tot) PROVE ServedOK'
  <2>1. pc = "idle" /\ phase' = phase /\ pageIndices' = pageIndices
    BY <1>3 DEF Lookup, gpuVars
  <2> QED BY <1>0, <1>2, <2>1 DEF FlowOK, ServedOK
<1>4. CASE Allocate
  <2>1. phase = "idle" /\ phase' = "reconcile" /\ pageIndices' = pageIndices
    BY <1>4 DEF Allocate, AllocateCall
  <2>2. KeptOK'
    BY KeptStep
  <2>3. \A k \in DOMAIN batch' : AsLookedUp(batch[k])'
    BY <2>1, <2>2 DEF KeptOK
  <2>4. \A k \in DOMAIN batch' : batch'[k] \in User
    <3>1. CacheInv'
      BY CacheStep
    <3>2. batch' \in Seq(User)
      BY <3>1 DEF CacheInv, Parts, RequestType
    <3> QED BY <3>2
  <2>5. pageIndices' = NoList
    BY <2>1 DEF ServedOK
  <2> QED BY <2>1, <2>3, <2>4, <2>5 DEF ServedOK, IsServed, NoList
<1>5. CASE Reconcile /\ AllocateStep
  <2>1. /\ UNCHANGED <<pageIds, startPos, cachedLen, history, batch, total, pageIndices, lookup>>
        /\ phase = "reconcile" /\ at \in 1..Len(batch)
        /\ \/ phase' = "retain" /\ at' = 1
           \/ phase' = "reconcile"
    <3>1. UNCHANGED tableVars /\ at \in 1..Len(batch)
      BY <1>5, ReconcileKeepsTable
    <3> QED BY <1>5, <3>1 DEF Reconcile, AllocateStep, tableVars, requestVars
  <2>2. \A k \in DOMAIN batch : ~IsServed(k) /\ ~IsServed(k)'
    BY <1>0, <2>1 DEF IsServed
  <2>3. pageIndices = NoList
    BY <2>1 DEF ServedOK
  <2> QED BY <2>1, <2>2, <2>3 DEF ServedOK, AsLookedUp, Frozen
<1>6. CASE RetainStep /\ AllocateStep
  <2>1. /\ UNCHANGED <<pageIds, startPos, cachedLen, history, batch, total, pageIndices, lookup, at>>
        /\ phase = "retain" /\ phase' = "room"
    BY <1>6 DEF RetainStep, AllocateStep, requestVars
  <2> QED BY <2>1 DEF ServedOK, IsServed, Built, AsLookedUp, Frozen
<1>7. CASE (EvictOffloadedStep \/ EvictUserStep) /\ AllocateStep
  <2>1. /\ UNCHANGED <<history, batch, total, pageIndices, lookup, at>>
        /\ phase = "room" /\ ~Enough
    BY <1>7 DEF EvictOffloadedStep, EvictUserStep, AllocateStep, requestVars
  <2>2. phase' = "room"
    <3>1. CASE EvictOffloadedStep
      BY <2>1, <3>1 DEF EvictOffloadedStep
    <3>2. CASE EvictUserStep
      <4>1. cursor > Len(lruList)
        BY <3>2 DEF EvictUserStep
      <4>2. \E i \in 1..Len(lruList) : Evictable(lruList[i])
        BY <2>1, <4>1 DEF VictimFound
      <4>3. Evictable(UIdToEvict)
        BY <1>0, <4>2, VictimIsEvictable DEF TableType
      <4>4. UIdToEvict # batch[at]
        <5>1. at \in 1..Len(batch)
          BY <1>0, <2>1 DEF RequestSound
        <5> QED BY <1>0, <4>3, <5>1 DEF Evictable, Frozen, Range
      <4>5. ~EvictAsserts
        BY <4>2 DEF EvictAsserts
      <4> QED BY <2>1, <3>2, <4>4, <4>5 DEF EvictUserStep
    <3> QED BY <1>7, <3>1, <3>2
  <2>3. ~TakePages
    BY <2>1 DEF TakePages
  <2>4. ASSUME NEW k \in DOMAIN batch PROVE Spared(batch[k]) /\ batch[k] \in User
    <3>1. batch[k] \in User /\ Frozen(batch[k])
      BY <1>0 DEF Frozen, Range
    <3> QED BY <1>7, <2>3, <3>1, RoomSpares
  <2> QED BY <2>1, <2>2, <2>4 DEF ServedOK, IsServed, Built, AsLookedUp, Frozen, Spared
<1>8. CASE TakePages /\ AllocateStep
  <2>0. PICK u : u = batch[at]
    OBVIOUS
  <2>1. /\ u \in User /\ pageIndices'[u] = pageIds'[u]
        /\ \A v \in User \ {u} : Spared(v) /\ pageIndices'[v] = pageIndices[v]
    BY <1>8, <2>0, TakenList
  <2>2. /\ phase = "room" /\ UNCHANGED <<batch, total, lookup>>
        /\ startPos' = [startPos EXCEPT ![u] = 0]
        /\ cachedLen' = [cachedLen EXCEPT ![u] = total[u]]
        /\ history' = [history EXCEPT ![u] = total[u]]
        /\ \/ phase' = "returned" /\ at = Len(batch)
           \/ phase' = "retain" /\ at' = at + 1 /\ at # Len(batch)
    BY <1>8, <2>0 DEF TakePages, AllocateStep, requestVars
  <2>3. at \in 1..Len(batch) /\ IsInjective(batch)
    BY <1>0, <2>2 DEF RequestSound
  <2>4. Built(u)'
    <3>1. startPos'[u] = 0 /\ cachedLen'[u] = total[u] /\ history'[u] = total[u]
      BY <1>0, <2>1, <2>2 DEF TableType
    <3> QED BY <2>1, <2>2, <3>1 DEF Built
  <2>5. ASSUME NEW k \in DOMAIN batch, k # at
        PROVE  /\ Built(batch[k]) => Built(batch[k])'
               /\ AsLookedUp(batch[k]) => AsLookedUp(batch[k])'
               /\ pageIndices'[batch[k]] = pageIndices[batch[k]]
    <3>1. batch[k] \in User \ {u}
      BY <1>0, <2>0, <2>3, <2>5 DEF IsInjective
    <3>2. history'[batch[k]] = history[batch[k]]
      BY <1>0, <2>2, <3>1 DEF TableType
    <3> QED BY <2>1, <2>2, <3>1, <3>2 DEF Built, AsLookedUp, Spared
  <2>6. ASSUME NEW k \in DOMAIN batch PROVE IsServed(k)' <=> k <= at
    <3>1. CASE phase' = "returned"
      BY <1>0, <2>2, <2>3, <3>1 DEF IsServed
    <3>2. CASE phase' # "returned"
      <4>1. k \in Int /\ at \in Int
        BY <1>0, <2>3
      <4>2. phase' = "retain" /\ at' = at + 1
        BY <2>2, <3>2
      <4> QED BY <4>1, <4>2 DEF IsServed
    <3> QED BY <3>1, <3>2
  <2>7. \A k \in DOMAIN batch : IsServed(k) <=> k < at
    BY <2>2 DEF IsServed
  <2>8. ASSUME NEW v \in User, ~Frozen(v) PROVE pageIndices'[v] = <<>>
    <3>1. v # u
      BY <1>0, <2>0, <2>3, <2>8 DEF Frozen, Range
    <3> QED BY <2>1, <2>8, <3>1 DEF ServedOK
  <2>9. ASSUME NEW k \in DOMAIN batch
        PROVE IF k <= at THEN Built(batch[k])' ELSE pageIndices'[batch[k]] = <<>> /\ AsLookedUp(batch[k])'
    <3>1. CASE k = at
      <4>1. batch'[k] = u /\ k <= at
        BY <1>0, <2>0, <2>2, <2>3, <3>1
      <4> QED BY <2>4, <4>1
    <3>2. CASE k # at
      <4>1. IF k < at THEN Built(batch[k]) ELSE pageIndices[batch[k]] = <<>> /\ AsLookedUp(batch[k])
        BY <2>2, <2>7 DEF ServedOK
      <4>2. k < at <=> k <= at
        BY <1>0, <2>3, <3>2
      <4> QED BY <2>5, <3>2, <4>1, <4>2
    <3> QED BY <3>1, <3>2
  <2> QED BY <2>2, <2>6, <2>8, <2>9 DEF ServedOK, Frozen
<1>9. CASE Onboard \/ Forward \/ PollReturn \/ OffloadFlush \/ OffloadCopy \/ ClientEvictAllHost \/ Crashed
           \/ UNCHANGED vars
  BY <1>1, <1>9 DEF Onboard, Forward, PollReturn, OffloadFlush, OffloadCopy, ClientEvictAllHost, Crashed,
     gpuVars, tableVars, requestVars, vars
<1>10. CASE \E u \in User : ClientEvictHost(u)
  BY <1>1, <1>10 DEF ClientEvictHost, gpuVars, tableVars, requestVars
<1>11. CASE PollReady \/ PollTimeout \/ PollLaunched
  BY <1>1, <1>11 DEF PollReady, PollTimeout, PollLaunched, Settle, ReleaseOffloadPages, gpuVars, tableVars,
     requestRest, requestVars
<1>12. CASE OffloadLaunch \/ PollRaise
  BY <1>2, <1>12 DEF OffloadLaunch, PollRaise, DropRequest
<1>13. CASE ClientEvictAllGPU \/ \E u \in User : ClientEvictGPU(u)
  <2>1. phase' = "idle" /\ pageIndices' = pageIndices /\ phase = "idle"
    BY <1>0, <1>13 DEF ClientEvictAllGPU, ClientEvictGPU, ClientQuiet, requestRest, FlowOK
  <2> QED BY <1>2, <2>1 DEF ServedOK
<1>14. CASE AllocateStep
  BY <1>5, <1>6, <1>7, <1>8, <1>14 DEF AllocateStep
<1> QED BY <1>3, <1>4, <1>9, <1>10, <1>11, <1>12, <1>13, <1>14 DEF Next, ThreadStep

\* At the start nothing is served.
LEMMA ServedInit ==
  ASSUME Init
  PROVE  ServedOK
BY DEF Init, GPUInit, ServedOK, NoList
-----------------------------------------------------------------------------
(***************************************************************************)
(* What the pages of the GPU hold.                                         *)
(***************************************************************************)
\* While allocate() and onboard_launch are under way a user of the request has
\* its new page list, but only the tokens that were cached at the lookup; the
\* tokens onboarded end at kept.
Building(u) == pc \in {"allocating", "onboard"} /\ pageIndices[u] # <<>>
First(u) == (IF Building(u) THEN lookup.gpuStart[u] ELSE startPos[u]) \div PageSize
Limit(u) == IF Building(u) THEN lookup.gpuStart[u] + lookup.gpuLen[u]
            ELSE IF pc = "forward" /\ pageIndices[u] # <<>> THEN kept[u] ELSE EndPos(u)

\* Page i of u's history is filled, and where it is.
Covers(u, i) == First(u) < i /\ (i - 1) * PageSize < Limit(u)
PlaceOf(u, i) == i - startPos[u] \div PageSize
PageOf(u, i) == pageIds[u][PlaceOf(u, i)]
Tokens(n, i) == Smaller(PageSize, n - (i - 1) * PageSize)

\* Every page filled holds the tokens of its user and place.
GpuHolds ==
    \A u \in User : \A i \in Int : Covers(u, i) =>
        PlaceOf(u, i) \in 1..Len(pageIds[u]) /\ pageData[PageOf(u, i)] = <<u, i, Tokens(Limit(u), i)>>

\* What is filled after a step was filled before, in the same page.
Follows(u) ==
    \A i \in Int : Covers(u, i)' /\ (Covers(u, i) => PlaceOf(u, i) \in 1..Len(pageIds[u])) =>
        /\ Covers(u, i) /\ Limit(u)' = Limit(u)
        /\ PlaceOf(u, i)' \in 1..Len(pageIds'[u]) /\ PageOf(u, i)' = PageOf(u, i)

\* What was filled before a step is so after it, in the same page.
Widens(u) ==
    /\ First(u)' <= First(u) /\ Limit(u) <= Limit(u)'
    /\ \A i \in Int : Covers(u, i) /\ PlaceOf(u, i) \in 1..Len(pageIds[u]) => PageOf(u, i)' = PageOf(u, i)

\* The numbers above are numbers.
LEMMA ViewTypes ==
  ASSUME CacheInv, KeptOK, NEW u \in User
  PROVE  /\ First(u) \in Nat /\ Limit(u) \in Nat
         /\ startPos[u] \in Nat /\ cachedLen[u] \in Nat /\ EndPos(u) \in Nat
         /\ startPos[u] \div PageSize \in Nat
         /\ startPos[u] = (startPos[u] \div PageSize) * PageSize
         /\ Len(pageIds[u]) \in Nat
<1>1. /\ TableType /\ RequestType /\ LookupTyped /\ PageListsMatchLengths
  BY DEF CacheInv, Parts, Table, KeptOK
<1>2. /\ startPos[u] \in Nat /\ cachedLen[u] \in Nat /\ kept[u] \in Nat /\ pageIds[u] \in Seq(Page)
      /\ lookup.gpuStart[u] \in Nat /\ lookup.gpuLen[u] \in Nat /\ startPos[u] % PageSize = 0
  BY <1>1 DEF TableType, RequestType, LookupTyped, PageListsMatchLengths
<1>3. \A n \in Nat : n \div PageSize \in Nat
  <2>1. SUFFICES ASSUME NEW n \in Nat PROVE n \div PageSize \in Nat
    OBVIOUS
  <2> QED BY DivPageSize, PageSizeAssumption
<1>4. EndPos(u) \in Nat
  BY <1>2 DEF EndPos
<1>5. Limit(u) \in Nat
  BY <1>2, <1>4 DEF Limit
<1>6. First(u) \in Nat
  <2>1. (IF Building(u) THEN lookup.gpuStart[u] ELSE startPos[u]) \in Nat
    BY <1>2
  <2> QED BY <1>3, <2>1 DEF First
<1>7. startPos[u] = (startPos[u] \div PageSize) * PageSize
  <2>1. ASSUME NEW s \in Nat, s % PageSize = 0 PROVE s = (s \div PageSize) * PageSize
    BY <2>1, PageBoundary, 0 \in Nat
  <2> QED BY <1>2, <2>1
<1>8. startPos[u] \div PageSize \in Nat /\ Len(pageIds[u]) \in Nat
  <2>1. startPos[u] \in Nat /\ pageIds[u] \in Seq(Page)
    BY <1>2
  <2>2. startPos[u] \div PageSize \in Nat
    BY <1>3, <2>1
  <2> QED BY <2>1, <2>2
<1>9. startPos[u] \in Nat /\ cachedLen[u] \in Nat
  BY <1>2
<1> QED BY <1>4, <1>5, <1>6, <1>7, <1>8, <1>9

\* A user whose pages and lengths stay, and whose list is not begun or handed
\* over, is seen as before.
LEMMA SameUser ==
  ASSUME NEW u \in User, Spared(u), Building(u)' <=> Building(u), Building(u) => lookup' = lookup,
         pc # "forward", pc' # "forward"
  PROVE  /\ First(u)' = First(u) /\ Limit(u)' = Limit(u)
         /\ \A i \in Int : PlaceOf(u, i)' = PlaceOf(u, i) /\ PageOf(u, i)' = PageOf(u, i)
<1>1. First(u)' = First(u)
  BY DEF First, Spared
<1>2. Limit(u)' = Limit(u)
  BY DEF Limit, EndPos, Spared
<1> QED BY <1>1, <1>2 DEF PlaceOf, PageOf, Spared

\* A user whose list, bounds and places are kept grows and moves as allowed.
LEMMA SameFollows ==
  ASSUME NEW u \in User, First(u) \in Nat, Limit(u) \in Nat, First(u)' = First(u), Limit(u)' = Limit(u), pageIds'[u] = pageIds[u],
         \A i \in Int : PlaceOf(u, i)' = PlaceOf(u, i) /\ PageOf(u, i)' = PageOf(u, i)
  PROVE  Follows(u) /\ Widens(u)
BY DEF Follows, Widens, Covers

\* A user evicted has nothing filled.
LEMMA EvictedFollows ==
  ASSUME NEW u \in User, startPos'[u] = 0, cachedLen'[u] = 0, ~Building(u)', pc' # "forward"
  PROVE  Follows(u)
<1>1. First(u)' = 0 /\ Limit(u)' = 0
  <2>1. 0 \div PageSize = 0
    BY PageSizeAssumption, DivUnique
  <2> QED BY <2>1 DEF First, Limit, EndPos
<1>2. \A i \in Int : ~Covers(u, i)'
  BY <1>1, PageSizeAssumption DEF Covers
<1> QED BY <1>2 DEF Follows

\* One that loses its first pages keeps the others.
LEMMA TrimmedFollows ==
  ASSUME CacheInv, KeptOK, NEW u \in User, Contains(lruList, u), cachedLen[u] > 0, EvictOffloaded(u), EraseIfEmptied(u),
         ~Building(u), ~Building(u)', pc # "forward", pc' # "forward"
  PROVE  Follows(u)
<1> DEFINE n == OffloadedPages(u)
<1>1. /\ Table /\ TableType
  BY DEF CacheInv, Parts, Table
<1>2. /\ n \in Nat /\ n * PageSize \in Nat /\ n * PageSize <= cachedLen[u] /\ n <= Len(pageIds[u])
  BY <1>1, OffloadedPagesCached
<1>3. /\ startPos[u] \in Nat /\ cachedLen[u] \in Nat /\ EndPos(u) \in Nat
      /\ startPos[u] \div PageSize \in Nat
      /\ startPos[u] = (startPos[u] \div PageSize) * PageSize
      /\ Len(pageIds[u]) \in Nat /\ pageIds[u] \in Seq(Page)
  BY <1>1, ViewTypes DEF TableType
<1>4. /\ pageIds'[u] = SubSeq(pageIds[u], n + 1, Len(pageIds[u]))
      /\ cachedLen'[u] = cachedLen[u] - n * PageSize
      /\ startPos'[u] = IF cachedLen[u] = n * PageSize THEN 0 ELSE startPos[u] + n * PageSize
  BY <1>1 DEF EvictOffloaded, EraseIfEmptied, TableType
<1> HIDE DEF n
<1>5. CASE cachedLen[u] = n * PageSize
  <2>1. startPos'[u] = 0 /\ cachedLen'[u] = 0
    BY <1>2, <1>3, <1>4, <1>5
  <2> QED BY <2>1, EvictedFollows
<1>6. CASE cachedLen[u] # n * PageSize
  <2> DEFINE f == startPos[u] \div PageSize
  <2>1. startPos'[u] \div PageSize = f + n
    <3>1. startPos'[u] = (f + n) * PageSize
      BY <1>2, <1>3, <1>4, <1>6, PageSizeAssumption
    <3>2. startPos'[u] \in Int /\ f + n \in Int
      BY <1>2, <1>3, <1>4, <1>6
    <3> QED BY <3>1, <3>2, DivUnique, PageSizeAssumption
  <2>2. startPos'[u] + cachedLen'[u] = startPos[u] + cachedLen[u]
    BY <1>2, <1>3, <1>4, <1>6
  <2>3. First(u)' = f + n /\ First(u) = f /\ Limit(u)' = Limit(u) /\ Limit(u) = EndPos(u)
    BY <2>1, <2>2 DEF First, Limit, EndPos
  <2>4. /\ Len(pageIds'[u]) = Len(pageIds[u]) - n
        /\ \A i \in 1..(Len(pageIds[u]) - n) : pageIds'[u][i] = pageIds[u][n + i]
    <3>1. ASSUME NEW s \in Seq(Page), n <= Len(s)
          PROVE  /\ Len(SubSeq(s, n + 1, Len(s))) = Len(s) - n
                 /\ \A i \in 1..(Len(s) - n) : SubSeq(s, n + 1, Len(s))[i] = s[n + i]
      BY <1>2, <3>1, SubSeqProperties
    <3> QED BY <1>2, <1>3, <1>4, <3>1
  <2>5. \A i \in Int : PlaceOf(u, i) = i - f /\ PlaceOf(u, i)' = i - f - n
    BY <1>2, <1>3, <2>1 DEF PlaceOf
  <2>6. \A i \in Int : PageOf(u, i) = pageIds[u][i - f] /\ PageOf(u, i)' = pageIds'[u][i - f - n]
    BY <2>5 DEF PageOf
  <2>7. \A i \in Int : Covers(u, i)' => Covers(u, i) /\ i > f + n
    BY <1>2, <1>3, <2>3 DEF Covers
  <2> HIDE DEF f
  <2>8. f \in Nat
    BY <1>3 DEF f
  <2> SUFFICES ASSUME NEW i \in Int, Covers(u, i)', Covers(u, i) => PlaceOf(u, i) \in 1..Len(pageIds[u])
               PROVE  /\ Covers(u, i) /\ Limit(u)' = Limit(u)
                      /\ PlaceOf(u, i)' \in 1..Len(pageIds'[u]) /\ PageOf(u, i)' = PageOf(u, i)
    BY DEF Follows
  <2>9. i > f + n /\ i - f \in 1..Len(pageIds[u])
    BY <2>5, <2>7
  <2>10. i - f - n \in 1..(Len(pageIds[u]) - n) /\ n + (i - f - n) = i - f
    BY <1>2, <1>3, <2>8, <2>9, SMTT(30)
  <2>11. PageOf(u, i)' = PageOf(u, i)
    BY <2>4, <2>6, <2>10
  <2> QED BY <2>3, <2>4, <2>5, <2>7, <2>10, <2>11
<1> QED BY <1>5, <1>6
-----------------------------------------------------------------------------
\* A user served has its pages from the place they have in its history on.
LEMMA TakenFollows ==
  ASSUME CacheInv, KeptOK, ServedOK, TakePages, AllocateStep, NEW v \in User
  PROVE  Follows(v) /\ Widens(v)
<1>0. PICK u : u = batch[at]
  OBVIOUS
<1>1. /\ u \in User /\ TotalPages(u) \in Nat /\ OnloadPages(u) \in Nat /\ Len(pageIds[u]) \in Nat
      /\ Len(pageIds'[u]) = TotalPages(u) /\ pageIndices'[u] = pageIds'[u]
      /\ \A i \in 1..Len(pageIds[u]) : /\ OnloadPages(u) + i \in 1..TotalPages(u)
                                       /\ pageIds'[u][OnloadPages(u) + i] = pageIds[u][i]
      /\ \A w \in User \ {u} : Spared(w) /\ pageIndices'[w] = pageIndices[w]
  BY <1>0, TakenList
<1>2. /\ pc = "allocating" /\ pc' \in {"allocating", "onboard"} /\ lookup' = lookup /\ phase = "room"
      /\ startPos' = [startPos EXCEPT ![u] = 0]
  BY <1>0 DEF TakePages, AllocateStep
<1>3. /\ First(v) \in Nat /\ Limit(v) \in Nat
  BY ViewTypes
<1>4. CASE v # u
  <2>1. Spared(v) /\ (Building(v)' <=> Building(v))
    BY <1>1, <1>2, <1>4 DEF Building
  <2> QED BY <1>2, <1>3, <2>1, SameUser, SameFollows DEF Spared
<1>5. CASE v = u
  <2>1. FlowOK /\ RequestType /\ RequestSound /\ TableType /\ PageListsMatchLengths
    BY DEF CacheInv, Parts, Table
  <2>2. at \in DOMAIN batch /\ total[u] \in Nat /\ total[u] > 0
    <3>1. at \in 1..Len(batch) /\ batch \in Seq(User) /\ total[u] > 0
      BY <1>0, <1>2, <2>1 DEF RequestSound, RequestType
    <3>2. total[u] \in Nat
      BY <1>1, <2>1, BoundsAssumption DEF RequestType, Lengths
    <3> QED BY <3>1, <3>2
  <2>3. pageIndices[u] = <<>> /\ AsLookedUp(u)
    <3>1. ~IsServed(at)
      BY <1>2, <2>1 DEF IsServed, RequestType
    <3> QED BY <1>0, <1>2, <2>2, <3>1 DEF ServedOK
  <2>4. ~Building(u) /\ Building(u)'
    <3>1. TotalPages(u) > 0
      BY <2>2, PagesCover DEF TotalPages
    <3>2. pageIndices'[u] # <<>>
      BY <1>1, <3>1
    <3> QED BY <1>2, <2>3, <3>2 DEF Building
  <2>5. /\ First(u) = startPos[u] \div PageSize /\ First(u)' = startPos[u] \div PageSize
        /\ Limit(u) = EndPos(u) /\ Limit(u)' = EndPos(u)
    BY <1>2, <2>3, <2>4 DEF First, Limit, AsLookedUp, EndPos
  <2>6. \A i \in Int : PlaceOf(u, i) = i - startPos[u] \div PageSize /\ PlaceOf(u, i)' = i
    <3>1. startPos'[u] = 0
      BY <1>1, <1>2, <2>1 DEF TableType
    <3>2. 0 \div PageSize = 0
      BY PageSizeAssumption, DivUnique
    <3> QED BY <3>1, <3>2 DEF PlaceOf
  <2>7. \A i \in Int : PageOf(u, i) = pageIds[u][i - startPos[u] \div PageSize] /\ PageOf(u, i)' = pageIds'[u][i]
    BY <2>6 DEF PageOf
  <2>8. startPos[u] \div PageSize \in Nat
    BY <1>5, ViewTypes
  <2>9. CASE cachedLen[u] = 0
    <3>1. EndPos(u) = 0
      BY <1>1, <2>1, <2>9 DEF PageListsMatchLengths, EndPos
    <3>2. \A i \in Int : ~Covers(u, i) /\ ~Covers(u, i)'
      BY <2>5, <2>8, <3>1, PageSizeAssumption DEF Covers
    <3> QED BY <1>3, <1>5, <2>5, <3>2 DEF Follows, Widens
  <2>10. CASE cachedLen[u] # 0
    <3> DEFINE f == startPos[u] \div PageSize
    <3>1. OnloadPages(u) = f
      BY <2>10 DEF OnloadPages
    <3>2. \A i \in Int : Covers(u, i)' <=> Covers(u, i)
      BY <2>5 DEF Covers
    <3> HIDE DEF f
    <3>3. ASSUME NEW i \in Int, i - f \in 1..Len(pageIds[u])
          PROVE  i \in 1..Len(pageIds'[u]) /\ pageIds'[u][i] = pageIds[u][i - f]
      <4>1. f + (i - f) = i
        BY <2>8, <3>3 DEF f
      <4>2. f + (i - f) \in 1..TotalPages(u) /\ pageIds'[u][f + (i - f)] = pageIds[u][i - f]
        BY <1>1, <3>1, <3>3
      <4> QED BY <1>1, <4>1, <4>2
    <3>4. \A i \in Int : PageOf(u, i) = pageIds[u][i - f] /\ PlaceOf(u, i) = i - f
      BY <2>6, <2>7 DEF f
    <3>5. Follows(u)
      <4> SUFFICES ASSUME NEW i \in Int, Covers(u, i)', Covers(u, i) => PlaceOf(u, i) \in 1..Len(pageIds[u])
                   PROVE  /\ Covers(u, i) /\ Limit(u)' = Limit(u)
                          /\ PlaceOf(u, i)' \in 1..Len(pageIds'[u]) /\ PageOf(u, i)' = PageOf(u, i)
        BY DEF Follows
      <4>1. Covers(u, i) /\ i - f \in 1..Len(pageIds[u])
        BY <3>2, <3>4
      <4>2. i \in 1..Len(pageIds'[u]) /\ pageIds'[u][i] = pageIds[u][i - f]
        BY <3>3, <4>1
      <4> QED BY <2>5, <2>6, <2>7, <3>4, <4>1, <4>2
    <3>6. Widens(u)
      <4>1. ASSUME NEW i \in Int, PlaceOf(u, i) \in 1..Len(pageIds[u]) PROVE PageOf(u, i)' = PageOf(u, i)
        <5>1. pageIds'[u][i] = pageIds[u][i - f]
          BY <3>3, <3>4, <4>1
        <5> QED BY <2>7, <3>4, <5>1
      <4> QED BY <1>3, <1>5, <2>5, <4>1 DEF Widens
    <3> QED BY <1>5, <3>5, <3>6
  <2> QED BY <2>9, <2>10
<1> QED BY <1>4, <1>5

\* The evictions of allocate(): users of the batch and locked ones stay.
LEMMA EvictionFollows ==
  ASSUME CacheInv, KeptOK, NoGapAtLookup, VictimFound, ServedOK, EvictOffloadedStep \/ EvictUserStep, AllocateStep,
         NEW v \in User
  PROVE  Follows(v) /\ (Locked(v) => Widens(v))
<1>1. /\ pc = "allocating" /\ phase = "room" /\ lookup' = lookup /\ ~Enough
      /\ UNCHANGED <<pageIndices, batch>>
  BY DEF AllocateStep, EvictOffloadedStep, EvictUserStep, requestVars
<1>2. ~TakePages
  BY <1>1 DEF TakePages
<1>3. pc' # "forward" /\ pc # "forward"
  BY <1>1 DEF AllocateStep
<1>4. First(v) \in Nat /\ Limit(v) \in Nat
  BY ViewTypes
<1>5. ASSUME Spared(v) /\ (Building(v)' <=> Building(v))
      PROVE  Follows(v) /\ Widens(v)
  BY <1>1, <1>3, <1>4, <1>5, SameUser, SameFollows DEF Spared
<1>6. phase' # "returned"
  <2>1. CASE EvictOffloadedStep
    BY <1>1, <2>1 DEF EvictOffloadedStep
  <2>2. CASE EvictUserStep
    BY <2>2 DEF EvictUserStep
  <2> QED BY <2>1, <2>2
<1>7. pc' = "allocating"
  BY <1>6 DEF AllocateStep
<1>8. Building(v)' <=> Building(v)
  BY <1>1, <1>7 DEF Building
<1>9. CASE Locked(v) \/ Frozen(v)
  BY <1>2, <1>5, <1>8, <1>9, RoomSpares
<1>10. CASE ~Locked(v) /\ ~Frozen(v)
  <2>1. ~Building(v)
    BY <1>10 DEF ServedOK, Building
  <2>2. CASE Spared(v)
    BY <1>5, <1>8, <2>2
  <2>3. CASE ~Spared(v)
    <3>1. \/ /\ EvictOffloaded(v) /\ EraseIfEmptied(v) /\ Contains(lruList, v) /\ cachedLen[v] > 0
          \/ startPos'[v] = 0 /\ cachedLen'[v] = 0
      <4>1. Table /\ TableType /\ RequestType /\ LruMatches /\ RequestSound
        BY DEF CacheInv, Parts, Table
      <4>2. CASE EvictOffloadedStep
        <5>1. cursor \in 1..Len(lruList) /\ lruList \in Seq(User)
          BY <4>1, <4>2 DEF EvictOffloadedStep, RequestType, TableType
        <5>2. PICK u \in User : u = lruList[cursor]
          BY <5>1
        <5>3. Evictable(u) /\ EvictOffloaded(u) /\ EraseIfEmptied(u)
          BY <2>3, <4>2, <5>2 DEF EvictOffloadedStep, Spared, tableVars
        <5>4. u = v
          BY <2>3, <4>1, <5>3 DEF EvictOffloaded, EraseIfEmptied, Spared, TableType
        <5>5. Contains(lruList, v)
          BY <5>1, <5>2, <5>4 DEF Contains
        <5>6. v # batch[at]
          <6>1. at \in DOMAIN batch
            BY <1>1, <4>1 DEF RequestSound, RequestType
          <6> QED BY <1>10, <6>1 DEF Frozen, Range
        <5> QED BY <4>1, <5>3, <5>4, <5>5, <5>6 DEF LruMatches
      <4>3. CASE EvictUserStep
        <5>1. PICK u : u = UIdToEvict
          OBVIOUS
        <5>2. Evict(u)
          BY <2>3, <4>3, <5>1 DEF EvictUserStep, Spared, tableVars
        <5>3. Contains(lruList, u)
          BY <2>3, <5>2 DEF Evict, Spared, tableVars
        <5>4. u \in User
          BY <4>1, <5>3 DEF Contains, TableType
        <5>5. u = v
          BY <2>3, <4>1, <5>2, <5>3, <5>4 DEF Evict, Spared, TableType
        <5> QED BY <4>1, <5>2, <5>3, <5>5 DEF Evict, TableType
      <4> QED BY <4>2, <4>3
    <3>2. Follows(v)
      BY <1>3, <1>8, <2>1, <3>1, TrimmedFollows, EvictedFollows
    <3> QED BY <1>10, <3>2
  <2> QED BY <2>2, <2>3
<1> QED BY <1>9, <1>10

\* Every step but those that write the pages.
LEMMA TableFollows ==
  ASSUME CacheInv, KeptOK, NoGapAtLookup, VictimFound, ServedOK, [Next]_vars, ~Onboard, ~Forward, NEW v \in User
  PROVE  /\ pageData' = pageData /\ Follows(v)
         /\ ClientEvictAllGPU \/ (\E u \in User : ClientEvictGPU(u)) \/ (Locked(v) => Widens(v))
<1>0. /\ First(v) \in Nat /\ Limit(v) \in Nat
  BY ViewTypes
<1>f. FlowOK /\ TableType
  BY DEF CacheInv, Parts, Table
<1>1. ASSUME Spared(v), Building(v)' <=> Building(v), Building(v) => lookup' = lookup,
             pc # "forward", pc' # "forward"
      PROVE  Follows(v) /\ Widens(v)
  BY <1>0, <1>1, SameUser, SameFollows DEF Spared
<1>2. ASSUME UNCHANGED <<gpuVars, pc, lookup>> PROVE Follows(v) /\ Widens(v)
  <2>1. First(v)' = First(v) /\ Limit(v)' = Limit(v) /\ pageIds'[v] = pageIds[v]
    BY <1>2 DEF First, Limit, Building, EndPos, gpuVars, tableVars
  <2>2. \A i \in Int : PlaceOf(v, i)' = PlaceOf(v, i) /\ PageOf(v, i)' = PageOf(v, i)
    BY <1>2 DEF PlaceOf, PageOf, gpuVars, tableVars
  <2> QED BY <1>0, <2>1, <2>2, SameFollows
<1>3. ASSUME UNCHANGED tableVars, pc \notin {"allocating", "onboard", "forward"}, pc' \notin {"allocating", "onboard", "forward"}
      PROVE  Follows(v) /\ Widens(v)
  BY <1>1, <1>3 DEF Building, Spared, tableVars
<1>4. ASSUME NEW b \in Batch, NEW tot \in [User -> Lengths], Lookup(b, tot)
      PROVE  pageData' = pageData /\ Follows(v) /\ Widens(v)
  BY <1>3, <1>4 DEF Lookup, gpuVars, dataVars
<1>5. CASE Allocate
  <2>1. pageIndices = NoList
    BY <1>5 DEF Allocate, AllocateCall, ServedOK
  <2>2. /\ pc = "allocate" /\ pc' = "allocating" /\ UNCHANGED <<tableVars, pageIndices, dataVars>>
    BY <1>5 DEF Allocate, AllocateCall
  <2>3. ~Building(v) /\ ~Building(v)'
    BY <2>1, <2>2 DEF Building, NoList
  <2> QED BY <1>1, <2>2, <2>3 DEF Spared, tableVars, dataVars
<1>6. CASE AllocateStep
  <2>1. /\ pc = "allocating" /\ pc' \in {"allocating", "onboard"} /\ lookup' = lookup /\ pageData' = pageData
    BY <1>6 DEF AllocateStep, dataVars
  <2>2. CASE Reconcile \/ RetainStep
    <3>1. UNCHANGED <<pageIds, startPos, cachedLen, pageIndices>>
      <4>1. CASE Reconcile
        <5>1. UNCHANGED tableVars
          BY <4>1, ReconcileKeepsTable
        <5> QED BY <4>1, <5>1 DEF Reconcile, tableVars
      <4>2. CASE RetainStep
        BY <4>2 DEF RetainStep
      <4> QED BY <2>2, <4>1, <4>2
    <3>2. Building(v)' <=> Building(v)
      BY <2>1, <3>1 DEF Building
    <3> QED BY <1>1, <2>1, <3>1, <3>2 DEF Spared
  <2>3. CASE EvictOffloadedStep \/ EvictUserStep
    BY <1>6, <2>1, <2>3, EvictionFollows
  <2>4. CASE TakePages
    BY <1>6, <2>1, <2>4, TakenFollows
  <2> QED BY <1>6, <2>2, <2>3, <2>4 DEF AllocateStep
<1>7. CASE OffloadLaunch
  BY <1>3, <1>7 DEF OffloadLaunch, AcquireOffloadPages, dataVars
<1>8. CASE PollReady \/ PollTimeout
  BY <1>3, <1>8 DEF PollReady, PollTimeout, Settle, ReleaseOffloadPages, Polling, dataVars
<1>9. CASE PollRaise \/ OffloadFlush
  BY <1>3, <1>9 DEF PollRaise, OffloadFlush, Polling, gpuVars, dataVars
<1>10. CASE PollReturn
  <2>1. pc = "poll" /\ pc' \in {"poll", "idle", "allocate", "offload"} /\ UNCHANGED <<gpuVars, dataVars>>
    BY <1>10, <1>f DEF PollReturn, FlowOK
  <2> QED BY <1>3, <2>1 DEF gpuVars, dataVars
<1>11. CASE OffloadCopy \/ ClientEvictAllHost \/ PollLaunched \/ Crashed \/ UNCHANGED vars
  BY <1>2, <1>11 DEF OffloadCopy, ClientEvictAllHost, PollLaunched, Crashed, vars, dataVars
<1>12. CASE \E u \in User : ClientEvictHost(u)
  BY <1>2, <1>12 DEF ClientEvictHost, dataVars
<1>13. CASE ClientEvictAllGPU
  <2>1. startPos'[v] = 0 /\ cachedLen'[v] = 0 /\ pc' = "idle" /\ pageData' = pageData
    BY <1>13 DEF ClientEvictAllGPU, ClientQuiet, EvictAll, Zero, dataVars
  <2> QED BY <1>13, <2>1, EvictedFollows DEF Building
<1>14. ASSUME NEW u \in User, ClientEvictGPU(u) PROVE pageData' = pageData /\ Follows(v)
  <2>1. pc' = "idle" /\ pc = "idle" /\ Evict(u) /\ pageData' = pageData
    BY <1>14 DEF ClientEvictGPU, ClientQuiet, dataVars
  <2>2. Spared(v) \/ (startPos'[v] = 0 /\ cachedLen'[v] = 0)
    BY <1>f, <2>1 DEF Evict, Spared, tableVars, TableType
  <2> QED BY <1>1, <2>1, <2>2, EvictedFollows DEF Building
<1>15. CASE ThreadStep
  BY <1>5, <1>6, <1>7, <1>8, <1>9, <1>10, <1>11, <1>15 DEF ThreadStep
<1> QED BY <1>4, <1>9, <1>11, <1>12, <1>13, <1>14, <1>15 DEF Next
-----------------------------------------------------------------------------
\* Pages that lie below n tokens.
LEMMA PageWithin ==
  ASSUME NEW n \in Nat, NEW i \in Int
  PROVE  /\ i * PageSize <= n <=> i <= n \div PageSize
         /\ n % PageSize = 0 => ((i - 1) * PageSize < n <=> i <= n \div PageSize)
<1> DEFINE q == n \div PageSize
<1>1. q \in Int /\ q * PageSize <= n /\ n < q * PageSize + PageSize
  BY DivPageSize
<1>2. n % PageSize = 0 => n = q * PageSize
  BY PageBoundary, 0 \in Nat
<1> HIDE DEF q
<1>3. ASSUME i <= q PROVE i * PageSize <= q * PageSize
  BY <1>1, <1>3, PageSizeAssumption
<1>4. ASSUME i > q PROVE i * PageSize >= q * PageSize + PageSize
  BY <1>1, <1>4, PageSizeAssumption
<1>5. (i - 1) * PageSize = i * PageSize - PageSize
  BY PageSizeAssumption
<1>6. i * PageSize \in Int /\ q * PageSize \in Int /\ PageSize \in Int
  BY <1>1, PageSizeAssumption
<1>7. i * PageSize <= n <=> i <= q
  BY <1>1, <1>3, <1>4, <1>6
<1>8. n % PageSize = 0 => ((i - 1) * PageSize < n <=> i <= q)
  BY <1>1, <1>2, <1>3, <1>4, <1>5, <1>6, PageSizeAssumption
<1> QED BY <1>7, <1>8 DEF q

\* The page list of a user of the request is its own or none; so a page that
\* is written is written for one user and place.
ListsAreOwn == \A v \in User : pageIndices[v] = <<>> \/ pageIndices[v] = pageIds[v]

\* The batch writes the a-th page of u when that place is among the count after from.
IsWritten(u, a, from, count) == pageIndices[u] # <<>> /\ a > from[u] /\ a <= from[u] + count[u]

\* What a page of a user's list holds once the batch is written.
LEMMA WritesAt ==
  ASSUME CacheInv, ListsAreOwn, NEW new, NEW from \in [User -> Int], NEW count \in [User -> Int],
         NEW u \in User, NEW a \in DOMAIN pageIds[u]
  PROVE  /\ IsWritten(u, a, from, count) => Writes(new, from, count)[pageIds[u][a]] = new[<<u, a>>]
         /\ ~IsWritten(u, a, from, count) => Writes(new, from, count)[pageIds[u][a]] = pageData[pageIds[u][a]]
<1> DEFINE p == pageIds[u][a]
           To == {w \in ListedPages :
                     /\ w[2] > from[w[1]] /\ w[2] <= from[w[1]] + count[w[1]]
                     /\ pageIndices[w[1]][w[2]] = p}
<1>1. TableType /\ PagePartition /\ PageListsMatchLengths
  BY DEF CacheInv, Parts, Table
<1>a. a \in 1..Len(pageIds[u]) /\ pageIds[u] \in Seq(Page)
  BY <1>1 DEF TableType
<1>2. p \in Page
  BY <1>a
<1>3. Writes(new, from, count)[p] = CASE To = {} -> pageData[p]
                                      [] Cardinality(To) = 1 -> new[CHOOSE w \in To : TRUE]
                                      [] OTHER -> Junk
  BY <1>2 DEF Writes
<1>4. ASSUME NEW w \in To PROVE w = <<u, a>> /\ pageIndices[u] # <<>>
  <2>1. /\ w \in User \X (1..Pages(MaxHistory)) /\ w[2] <= Len(pageIndices[w[1]])
        /\ pageIndices[w[1]][w[2]] = p
    BY <1>4 DEF ListedPages
  <2>2. PICK v \in User, b \in 1..Pages(MaxHistory) : w = <<v, b>>
    BY <2>1
  <2>3. b <= Len(pageIndices[v]) /\ pageIndices[v][b] = p /\ b >= 1
    BY <2>1, <2>2
  <2>4. pageIndices[v] # <<>> /\ pageIndices[v] = pageIds[v]
    BY <2>3 DEF ListsAreOwn
  <2>5. b \in 1..Len(pageIds[v]) /\ pageIds[v][b] = pageIds[u][a]
    BY <2>2, <2>3, <2>4
  <2>6. v = u /\ b = a
    BY <1>1, <1>a, <2>5, PageInOnePlace
  <2> QED BY <2>2, <2>4, <2>6
<1>5. CASE pageIndices[u] # <<>> /\ a > from[u] /\ a <= from[u] + count[u]
  <2>1. pageIndices[u] = pageIds[u]
    BY <1>5 DEF ListsAreOwn
  <2>2. a \in 1..Pages(MaxHistory)
    <3>1. cachedLen[u] \in Nat /\ cachedLen[u] <= MaxHistory /\ MaxHistory \in Nat
      <4>1. /\ cachedLen[u] \in Nat /\ startPos[u] \in Nat /\ MaxHistory \in Nat
            /\ history[u] \in 0..MaxHistory
        BY <1>1, BoundsAssumption DEF TableType, Lengths
      <4>2. cachedLen[u] = 0 \/ startPos[u] + cachedLen[u] = history[u]
        BY <1>1 DEF PageListsMatchLengths, EndPos
      <4> QED BY <4>1, <4>2
    <3>2. Len(pageIds[u]) = Pages(cachedLen[u]) /\ Pages(cachedLen[u]) <= Pages(MaxHistory)
      BY <1>1, <3>1, PagesMonotone DEF PageListsMatchLengths
    <3>3. Pages(MaxHistory) \in Nat /\ Pages(cachedLen[u]) \in Nat
      BY <3>1, PagesCover
    <3> QED BY <1>a, <3>2, <3>3
  <2>3. <<u, a>> \in To
    <3>1. <<u, a>> \in ListedPages
      BY <1>a, <2>1, <2>2 DEF ListedPages
    <3> QED BY <1>5, <2>1, <3>1
  <2>4. To = {<<u, a>>}
    BY <1>4, <2>3
  <2>5. Cardinality(To) = 1
    BY <2>4, FS_Singleton
  <2>6. (CHOOSE w \in To : TRUE) = <<u, a>>
    BY <2>4
  <2> HIDE DEF To
  <2> QED BY <1>3, <1>5, <2>4, <2>5, <2>6 DEF IsWritten
<1>6. CASE ~(pageIndices[u] # <<>> /\ a > from[u] /\ a <= from[u] + count[u])
  <2>1. To = {}
    <3>1. SUFFICES ASSUME NEW w \in To PROVE FALSE
      OBVIOUS
    <3>2. w = <<u, a>> /\ pageIndices[u] # <<>>
      BY <1>4
    <3>3. w[1] = u /\ w[2] = a
      BY <3>2
    <3> QED BY <1>6, <3>2, <3>3
  <2>2. Cardinality(To) = 0
    BY <2>1, FS_EmptySet
  <2> HIDE DEF To
  <2> QED BY <1>3, <1>6, <2>1, <2>2 DEF IsWritten
<1> QED BY <1>5, <1>6 DEF IsWritten

\* A place the batch writes holds the new data,
LEMMA WrittenAt ==
  ASSUME CacheInv, ListsAreOwn, NEW new, NEW from \in [User -> Int], NEW count \in [User -> Int],
         NEW u \in User, NEW a \in DOMAIN pageIds[u], IsWritten(u, a, from, count)
  PROVE  Writes(new, from, count)[pageIds[u][a]] = new[<<u, a>>]
BY WritesAt

\* and one it does not write keeps what it held.
LEMMA UnwrittenAt ==
  ASSUME CacheInv, ListsAreOwn, NEW new, NEW from \in [User -> Int], NEW count \in [User -> Int],
         NEW u \in User, NEW a \in DOMAIN pageIds[u], ~IsWritten(u, a, from, count)
  PROVE  Writes(new, from, count)[pageIds[u][a]] = pageData[pageIds[u][a]]
<1>1. PICK x : x = new[<<u, a>>]
  OBVIOUS
<1> QED BY <1>1, WritesAt
-----------------------------------------------------------------------------
(***************************************************************************)
(* The lengths of the lookup: they fit the request, and the host holds     *)
(* what it was said to hold until it is brought back.                      *)
(***************************************************************************)
LookupFits ==
    /\ \A u \in User : lookup.gpuStart[u] % PageSize = 0
    /\ \A i \in DOMAIN lookup.batch :
          LET u == lookup.batch[i] IN lookup.gpuStart[u] + lookup.gpuLen[u] <= lookup.total[u]
HeldAtLookup == Waiting \/ pc \in {"allocating", "onboard"} =>
    \A u \in User : lookup.hostLen[u] <= hostLen[u] /\ lookup.hostLen[u] % PageSize = 0

\* What the lookup found stays within what a user has asked for.
LEMMA FitsStep ==
  ASSUME CacheInv, KeptOK, LookupFits, [Next]_vars
  PROVE  LookupFits'
<1>1. ASSUME NEW b \in Batch, NEW tot \in [User -> Lengths], Lookup(b, tot) PROVE LookupFits'
  <2>1. /\ \A i \in DOMAIN b : tot[b[i]] > 0 /\ history[b[i]] <= tot[b[i]]
        /\ lookup' = [batch |-> b, total |-> tot, gpuStart |-> Of(Range(b), startPos),
                      gpuLen |-> Of(Range(b), cachedLen), hostLen |-> Of(Range(b), hostLen)]
    BY <1>1 DEF Lookup
  <2>2. ASSUME NEW i \in DOMAIN b
        PROVE  lookup'.gpuStart[b[i]] + lookup'.gpuLen[b[i]] <= tot[b[i]]
    <3>1. PICK u \in User : u = b[i]
      <4>1. PICK n \in 1..MaxBatch : b \in [1..n -> User]
        BY DEF Batch
      <4> QED BY <4>1
    <3>2. lookup'.gpuStart[u] = startPos[u] /\ lookup'.gpuLen[u] = cachedLen[u]
      BY <2>1, <3>1 DEF Of, Range
    <3>3. TableType /\ PageListsMatchLengths
      BY DEF CacheInv, Parts, Table
    <3>4. startPos[u] \in Nat /\ cachedLen[u] \in Nat /\ history[u] \in Nat /\ tot[u] \in Nat
      BY <3>3, BoundsAssumption DEF TableType, Lengths
    <3>5. startPos[u] + cachedLen[u] <= history[u]
      BY <3>3, <3>4 DEF PageListsMatchLengths, EndPos
    <3> QED BY <2>1, <3>1, <3>2, <3>4, <3>5
  <2>3. ASSUME NEW u \in User PROVE lookup'.gpuStart[u] % PageSize = 0
    <3>1. lookup'.gpuStart[u] = startPos[u] \/ lookup'.gpuStart[u] = 0
      BY <2>1 DEF Of
    <3>2. startPos[u] % PageSize = 0
      BY DEF CacheInv, Parts, Table, PageListsMatchLengths
    <3> QED BY <3>1, <3>2, ZeroBoundary
  <2> QED BY <2>1, <2>2, <2>3 DEF LookupFits
<1>2. ASSUME lookup' = lookup PROVE LookupFits'
  BY <1>2 DEF LookupFits
<1>3. CASE OffloadLaunch \/ PollRaise
  BY <1>3, ZeroBoundary DEF OffloadLaunch, PollRaise, LookupFits, NoLookup, Zero
<1>4. CASE ThreadStep /\ ~OffloadLaunch /\ ~PollRaise
  BY <1>2, <1>4 DEF ThreadStep, Allocate, AllocateStep, Onboard, Forward, PollReady, PollLaunched,
     PollTimeout, PollReturn, Settle
<1>5. CASE OffloadFlush \/ OffloadCopy \/ ClientEvictAllGPU \/ ClientEvictAllHost \/ Crashed \/ UNCHANGED vars
  BY <1>2, <1>5 DEF OffloadFlush, OffloadCopy, ClientEvictAllGPU, ClientEvictAllHost, Crashed, vars
<1>6. CASE \E u \in User : ClientEvictGPU(u) \/ ClientEvictHost(u)
  BY <1>2, <1>6 DEF ClientEvictGPU, ClientEvictHost
<1> QED BY <1>1, <1>3, <1>4, <1>5, <1>6 DEF Next

\* The host keeps, until the onboarding, what the lookup found there.
LEMMA HeldStep ==
  ASSUME CacheInv, KeptOK, HeldAtLookup, \A u \in User : hostLen[u] % PageSize = 0, [Next]_vars
  PROVE  HeldAtLookup'
<1>0. FlowOK /\ hostLen \in [User -> Nat]
  BY DEF CacheInv, HostOK
<1> DEFINE In == Waiting \/ pc \in {"allocating", "onboard"}
<1>1. ASSUME NEW b \in Batch, NEW tot \in [User -> Lengths], Lookup(b, tot) PROVE HeldAtLookup'
  <2>1. lookup'.hostLen = Of(Range(b), hostLen) /\ hostLen' = hostLen
    BY <1>1 DEF Lookup, hostVars
  <2>2. \A u \in User : lookup'.hostLen[u] = hostLen[u] \/ lookup'.hostLen[u] = 0
    BY <2>1 DEF Of
  <2>3. 0 % PageSize = 0 /\ \A u \in User : hostLen[u] \in Nat
    BY <1>0, ZeroBoundary
  <2>4. \A u \in User : lookup'.hostLen[u] <= hostLen'[u] /\ lookup'.hostLen[u] % PageSize = 0
    BY <2>1, <2>2, <2>3
  <2> QED BY <2>4 DEF HeldAtLookup
<1>2. ASSUME UNCHANGED <<lookup, hostLen>>, In' => In PROVE HeldAtLookup'
  BY <1>2 DEF HeldAtLookup
<1>3. ASSUME ~In' PROVE HeldAtLookup'
  BY <1>3 DEF HeldAtLookup
<1>4. CASE Allocate \/ AllocateStep \/ Onboard \/ Forward
  BY <1>2, <1>4 DEF Allocate, AllocateStep, Onboard, Forward, Waiting, hostVars
<1>5. CASE OffloadLaunch \/ PollRaise
  BY <1>3, <1>5 DEF OffloadLaunch, PollRaise, Waiting
<1>6. CASE PollLaunched \/ PollTimeout
  BY <1>2, <1>6 DEF PollLaunched, PollTimeout, Settle, CancelOffload, Waiting, hostVars
<1>7. CASE PollReady
  <2>1. Polling /\ FinishOffload(Task) /\ UNCHANGED <<lookup, pc, ret>>
    BY <1>7 DEF PollReady, Settle
  <2>2. HandleOK(Task, history) /\ history \in [User -> Nat]
    BY <2>1, PolledTask
  <2>3. ASSUME NEW u \in User PROVE hostLen'[u] >= hostLen[u] /\ hostLen'[u] \in Nat
    <3>1. OffloadEnd(Task, u) \in Nat /\ Task.start[u] <= OffloadEnd(Task, u) /\ Task.start[u] \in Nat
      BY <2>2, HandleEnds
    <3>2. hostLen'[u] = IF u \in FinishedUsers(Task) THEN OffloadEnd(Task, u) ELSE hostLen[u]
      BY <2>1 DEF FinishOffload
    <3>3. u \in FinishedUsers(Task) => Task.start[u] = hostLen[u]
      BY DEF FinishedUsers
    <3> QED BY <1>0, <3>1, <3>2, <3>3
  <2>4. ASSUME In PROVE \A u \in User : lookup'.hostLen[u] <= hostLen'[u] /\ lookup'.hostLen[u] % PageSize = 0
    <3>1. lookup.hostLen \in [User -> Nat]
      BY DEF KeptOK, LookupTyped
    <3> QED BY <1>0, <2>1, <2>3, <2>4, <3>1 DEF HeldAtLookup
  <2>5. In' => In
    BY <2>1 DEF Waiting
  <2> QED BY <2>4, <2>5 DEF HeldAtLookup
<1>8. CASE PollReturn
  BY <1>0, <1>2, <1>8 DEF PollReturn, Waiting, FlowOK, hostVars
<1>9. CASE OffloadFlush
  BY <1>3, <1>9 DEF OffloadFlush, Waiting
<1>10. CASE OffloadCopy \/ Crashed \/ UNCHANGED vars
  BY <1>2, <1>10 DEF OffloadCopy, Crashed, vars, Waiting, hostVars
<1>11. CASE ClientEvictAllGPU \/ ClientEvictAllHost \/ \E u \in User : ClientEvictGPU(u) \/ ClientEvictHost(u)
  BY <1>3, <1>11 DEF ClientEvictAllGPU, ClientEvictAllHost, ClientEvictGPU, ClientEvictHost, ClientQuiet, Waiting
<1>12. CASE ThreadStep
  BY <1>4, <1>5, <1>6, <1>7, <1>8, <1>12 DEF ThreadStep
<1> QED BY <1>1, <1>9, <1>10, <1>11, <1>12 DEF Next
-----------------------------------------------------------------------------
\* A request that allocate() has served: its users have their whole lists.
LEMMA ServedUser ==
  ASSUME CacheInv, KeptOK, NoGapAtLookup, ServedOK, LookupFits, phase = "returned",
         NEW u \in User, pageIndices[u] # <<>>
  PROVE  /\ Built(u) /\ total[u] \in Nat /\ kept[u] \in Nat
         /\ kept[u] = KeptLen(u) /\ kept[u] = MergedLen(u)
         /\ KeptLen(u) <= total[u]
         /\ Frozen(u)
<1>1. FlowOK /\ RequestType /\ RequestSound /\ TableType /\ LookupTyped
  BY DEF CacheInv, Parts, Table, KeptOK
<1>2. PICK k \in DOMAIN batch : batch[k] = u
  BY DEF ServedOK, Frozen, Range
<1>3. Built(u)
  BY <1>2 DEF ServedOK, IsServed
<1>4. kept[u] = KeptLen(u) /\ batch = lookup.batch /\ total = lookup.total /\ hostHit = lookup.hostLen
  BY <1>2 DEF KeptOK, UnderWay
<1>5. kept[u] = MergedLen(u)
  BY <1>2, KeptIsMerged
<1>6. total[u] \in Nat /\ kept[u] \in Nat
  BY <1>1, BoundsAssumption DEF RequestType, Lengths
<1>7. lookup.hostLen[u] <= total[u]
  <2>1. k \in 1..Len(batch)
    BY <1>1 DEF RequestType
  <2>2. hostHit[u] <= history[u]
    BY <1>1, <1>2, <2>1 DEF RequestSound
  <2> QED BY <1>3, <1>4, <2>2 DEF Built
<1>8. lookup.gpuStart[u] + lookup.gpuLen[u] <= total[u]
  BY <1>2, <1>4 DEF LookupFits
<1>9. KeptLen(u) <= total[u]
  BY <1>7, <1>8 DEF KeptLen, Larger
<1>10. Frozen(u)
  BY <1>2 DEF Frozen, Range
<1> QED BY <1>3, <1>4, <1>5, <1>6, <1>9, <1>10

\* The index lists of a returned allocation are the users' own lists.
LEMMA OwnLists ==
  ASSUME ServedOK, phase = "returned"
  PROVE  ListsAreOwn
<1>1. ASSUME NEW v \in User PROVE pageIndices[v] = <<>> \/ pageIndices[v] = pageIds[v]
  <2>1. CASE ~Frozen(v)
    BY <2>1 DEF ServedOK
  <2>2. CASE Frozen(v)
    <3>1. PICK k \in DOMAIN batch : batch[k] = v
      BY <2>2 DEF Frozen, Range
    <3> QED BY <3>1 DEF ServedOK, IsServed, Built
  <2> QED BY <2>1, <2>2
<1> QED BY <1>1 DEF ListsAreOwn

\* What onboard_launch brings back: whole pages from the first on, up to where
\* the cached tokens begin, or all that the host holds.
LEMMA OnloadIs ==
  ASSUME KeptOK, NoGapAtLookup, LookupFits, HeldAtLookup, pc = "onboard", CacheInv, NEW u \in User
  PROVE  /\ OnloadStart(u) = 0
         /\ OnloadLen(u) \in Nat /\ OnloadLen(u) % PageSize = 0 /\ OnloadLen(u) <= lookup.hostLen[u]
         /\ OnloadLen(u) <= KeptLen(u)
         /\ \/ OnloadLen(u) = KeptLen(u)
            \/ OnloadLen(u) = lookup.gpuStart[u] /\ KeptLen(u) = lookup.gpuStart[u] + lookup.gpuLen[u]
<1> DEFINE s == lookup.gpuStart[u]
           n == lookup.gpuLen[u]
           h == lookup.hostLen[u]
<1>1. /\ s \in Nat /\ n \in Nat /\ h \in Nat
      /\ IF n = 0 THEN s = 0 ELSE h <= s + n
  BY DEF KeptOK, LookupTyped
<1>2. h % PageSize = 0
  BY DEF HeldAtLookup
<1>3. n > 0 => s <= h
  BY DEF NoGapAtLookup
<1>4. OnloadLen(u) = (IF s + n < h THEN h ELSE s) /\ OnloadStart(u) = (IF s = 0 /\ s + n < h THEN s + n ELSE 0)
  BY DEF OnloadLen, OnloadStart
<1>5. KeptLen(u) = IF h > s + n THEN h ELSE s + n
  BY DEF KeptLen, Larger
<1>6. CASE s + n < h
  BY <1>1, <1>2, <1>4, <1>5, <1>6
<1>7. CASE ~(s + n < h)
  <2>1. s <= h
    BY <1>1, <1>3
  <2>2. s % PageSize = 0
    BY DEF LookupFits
  <2> QED BY <1>1, <1>4, <1>5, <1>7, <2>1, <2>2
<1> QED BY <1>6, <1>7
-----------------------------------------------------------------------------
\* Onboarding: what precedes the cached tokens comes from the host.
LEMMA OnboardFills ==
  ASSUME CacheInv, KeptOK, NoGapAtLookup, ServedOK, LookupFits, HeldAtLookup, HostHoldsOwnHistory, GpuHolds,
         Onboard, NEW u \in User
  PROVE  /\ \A i \in Int : Covers(u, i)' =>
               PlaceOf(u, i)' \in 1..Len(pageIds'[u]) /\ pageData'[PageOf(u, i)'] = <<u, i, Tokens(Limit(u)', i)>>
         /\ Widens(u)
<1> DEFINE InPages(n) == [v \in User |-> IF Frozen(v) THEN n[v] \div PageSize ELSE 0]
           from == InPages([v \in User |-> OnloadStart(v)])
           count == InPages([v \in User |-> OnloadLen(v)])
           fromHost == [w \in ListedPages |-> HostPage(w[1], w[2] - from[w[1]])]
<1>1. /\ pc = "onboard" /\ pc' = "forward" /\ UNCHANGED <<gpuVars, hostVars, lookup>>
      /\ pageData' = Writes(fromHost, from, count)
  BY DEF Onboard
<1>2. phase = "returned" /\ FlowOK /\ PageListsMatchLengths
  BY <1>1 DEF CacheInv, FlowOK, Parts, Table
<1>3. ListsAreOwn
  BY <1>2, OwnLists
<1>4. /\ from \in [User -> Int] /\ count \in [User -> Int]
      /\ \A v \in User : from[v] = 0 /\ count[v] = IF Frozen(v) THEN OnloadLen(v) \div PageSize ELSE 0
  <2>1. ASSUME NEW v \in User
        PROVE  from[v] = 0 /\ count[v] \in Int
    <3>1. OnloadStart(v) = 0 /\ OnloadLen(v) \in Nat
      BY <1>1, OnloadIs
    <3>2. 0 \div PageSize = 0 /\ OnloadLen(v) \div PageSize \in Int
      BY <3>1, PageSizeAssumption, DivUnique, DivPageSize
    <3> QED BY <3>1, <3>2
  <2> QED BY <2>1
<1> HIDE DEF from, count
<1>5. ASSUME NEW a \in DOMAIN pageIds[u]
      PROVE  pageData'[pageIds[u][a]] = IF pageIndices[u] # <<>> /\ a <= count[u]
                                        THEN fromHost[<<u, a>>] ELSE pageData[pageIds[u][a]]
  <2> HIDE DEF fromHost
  <2>1. /\ IsWritten(u, a, from, count) => Writes(fromHost, from, count)[pageIds[u][a]] = fromHost[<<u, a>>]
        /\ ~IsWritten(u, a, from, count) => Writes(fromHost, from, count)[pageIds[u][a]] = pageData[pageIds[u][a]]
    <3>1. CASE IsWritten(u, a, from, count)
      BY <1>3, <1>4, <3>1, WrittenAt
    <3>2. CASE ~IsWritten(u, a, from, count)
      BY <1>3, <1>4, <3>2, UnwrittenAt
    <3> QED BY <3>1, <3>2
  <2>2. IsWritten(u, a, from, count) <=> pageIndices[u] # <<>> /\ a <= count[u]
    <3>1. a \in 1..Len(pageIds[u])
      BY DEF CacheInv, Parts, Table, TableType
    <3>2. from[u] = 0 /\ count[u] \in Int /\ a \in Int /\ a > 0
      BY <1>4, <3>1
    <3> QED BY <3>2 DEF IsWritten
  <2> QED BY <1>1, <2>1, <2>2
<1>a. DOMAIN pageIds[u] = 1..Len(pageIds[u])
  BY DEF CacheInv, Parts, Table, TableType
<1>6. /\ First(u) \in Nat /\ Limit(u) \in Nat /\ startPos[u] \in Nat /\ EndPos(u) \in Nat /\ Len(pageIds[u]) \in Nat
  BY ViewTypes
<1>7. \A i \in Int : PlaceOf(u, i)' = PlaceOf(u, i) /\ PageOf(u, i)' = PageOf(u, i)
  BY <1>1 DEF PlaceOf, PageOf, gpuVars, tableVars
<1>8. CASE pageIndices[u] = <<>>
  <2>1. First(u)' = First(u) /\ Limit(u)' = Limit(u)
    BY <1>1, <1>8 DEF First, Limit, Building, EndPos, gpuVars, tableVars
  <2>2. Widens(u)
    BY <1>6, <1>7, <2>1 DEF Widens
  <2>3. \A i \in Int : Covers(u, i)' => Covers(u, i)
    BY <2>1 DEF Covers
  <2>4. ASSUME NEW i \in Int, Covers(u, i)
        PROVE  PlaceOf(u, i) \in 1..Len(pageIds'[u]) /\ pageData'[PageOf(u, i)] = <<u, i, Tokens(Limit(u), i)>>
    <3>1. PlaceOf(u, i) \in 1..Len(pageIds[u]) /\ pageData[PageOf(u, i)] = <<u, i, Tokens(Limit(u), i)>>
      BY <2>4 DEF GpuHolds
    <3>2. pageIds' = pageIds
      BY <1>1 DEF gpuVars, tableVars
    <3> QED BY <1>5, <1>a, <1>8, <3>1, <3>2 DEF PageOf
  <2> QED BY <1>7, <2>1, <2>2, <2>3, <2>4
<1>9. CASE pageIndices[u] # <<>>
  <2>1. /\ Built(u) /\ total[u] \in Nat /\ kept[u] \in Nat /\ kept[u] = KeptLen(u) /\ KeptLen(u) <= total[u] /\ Frozen(u)
    BY <1>2, <1>9, ServedUser
  <2> DEFINE n == OnloadLen(u)
             k == kept[u]
             s == lookup.gpuStart[u]
             l == lookup.gpuLen[u]
  <2>2. /\ n \in Nat /\ n % PageSize = 0 /\ n <= lookup.hostLen[u] /\ n <= k
        /\ n = k \/ (n = s /\ k = s + l)
    BY <1>1, <2>1, OnloadIs
  <2>3. /\ First(u) = s \div PageSize /\ Limit(u) = s + l /\ First(u)' = 0 /\ Limit(u)' = k
    <3>1. Building(u) /\ ~Building(u)' /\ startPos'[u] = 0
      BY <1>1, <1>9, <2>1 DEF Building, Built, gpuVars, tableVars
    <3>2. 0 \div PageSize = 0
      BY PageSizeAssumption, DivUnique
    <3>3. pc' = "forward" /\ pageIndices'[u] # <<>> /\ kept' = kept
      BY <1>1, <1>9 DEF gpuVars
    <3> QED BY <3>1, <3>2, <3>3 DEF First, Limit
  <2>4. s + l <= k
    BY <2>1, <1>6, <2>2, <2>3 DEF KeptLen, Larger
  <2>5. Widens(u)
    BY <1>6, <1>7, <2>3, <2>4 DEF Widens
  <2>6. count[u] = n \div PageSize
    BY <1>4, <2>1
  <2>7. \A i \in Int : PlaceOf(u, i) = i
    <3>1. 0 \div PageSize = 0
      BY PageSizeAssumption, DivUnique
    <3> QED BY <2>1, <3>1 DEF PlaceOf, Built
  <2>8. ASSUME NEW i \in Int, 0 < i, (i - 1) * PageSize < k
        PROVE  i \in 1..Len(pageIds[u]) /\ pageData'[pageIds[u][i]] = <<u, i, Tokens(k, i)>>
    <3>1. i \in 1..Len(pageIds[u])
      <4>1. Len(pageIds[u]) = Pages(total[u])
        BY <1>2, <2>1 DEF PageListsMatchLengths, Built
      <4>2. total[u] <= Pages(total[u]) * PageSize /\ Pages(total[u]) \in Nat
        BY <2>1, PagesCover
      <4>3. (i - 1) * PageSize < Pages(total[u]) * PageSize
        BY <2>1, <2>8, <4>2, PageSizeAssumption
      <4>4. i - 1 < Pages(total[u])
        BY <4>2, <4>3, PageSizeAssumption
      <4> QED BY <2>8, <4>1, <4>2, <4>4
    <3>2. CASE i <= n \div PageSize
      <4>1. i * PageSize <= n /\ i * PageSize <= k /\ i * PageSize \in Int
        BY <2>1, <2>2, <3>2, PageWithin, PageSizeAssumption
      <4>2. Tokens(k, i) = PageSize
        <5>1. (i - 1) * PageSize = i * PageSize - PageSize
          BY PageSizeAssumption
        <5> QED BY <2>1, <4>1, <5>1, PageSizeAssumption DEF Tokens, Smaller
      <4>3. pageData'[pageIds[u][i]] = fromHost[<<u, i>>]
        BY <1>5, <1>a, <1>9, <2>6, <3>1, <3>2
      <4>4. <<u, i>> \in ListedPages
        <5>1. pageIndices[u] = pageIds[u]
          BY <2>1 DEF Built
        <5>2. i <= Pages(MaxHistory)
          <6>1. total[u] \in 0..MaxHistory /\ MaxHistory \in Nat
            BY BoundsAssumption DEF CacheInv, Parts, RequestType, Lengths
          <6>2. Pages(total[u]) <= Pages(MaxHistory) /\ Pages(total[u]) \in Nat /\ Pages(MaxHistory) \in Nat
            BY <2>1, <6>1, PagesMonotone, PagesCover
          <6>3. Len(pageIds[u]) = Pages(total[u])
            BY <1>2, <2>1 DEF PageListsMatchLengths, Built
          <6> QED BY <3>1, <6>2, <6>3
        <5>3. i \in 1..Pages(MaxHistory)
          BY <2>8, <5>2, BoundsAssumption, PagesCover
        <5> QED BY <3>1, <5>1, <5>3 DEF ListedPages
      <4>5. fromHost[<<u, i>>] = HostPage(u, i)
        <5>1. fromHost[<<u, i>>] = HostPage(u, i - from[u])
          BY <4>4
        <5>2. i - from[u] = i
          BY <1>4
        <5> QED BY <5>1, <5>2
      <4>6. HostPage(u, i) = <<u, i, PageSize>>
        <5>1. lookup.hostLen[u] <= hostLen[u] /\ hostLen[u] \in Nat /\ lookup.hostLen[u] \in Nat
          BY <1>1 DEF HeldAtLookup, CacheInv, HostOK, KeptOK, LookupTyped
        <5>2. i * PageSize <= hostLen[u]
          BY <2>2, <4>1, <5>1
        <5>3. i <= hostLen[u] \div PageSize
          BY <5>1, <5>2, PageWithin
        <5>4. hostLen[u] \div PageSize \in Int
          BY <5>1, DivPageSize
        <5>5. i \in 1..(hostLen[u] \div PageSize)
          BY <2>8, <5>3, <5>4
        <5> QED BY <5>5 DEF HostHoldsOwnHistory
      <4> QED BY <3>1, <4>2, <4>3, <4>5, <4>6
    <3>3. CASE i > n \div PageSize
      <4>1. n # k
        BY <2>1, <2>2, <2>8, <3>3, PageWithin, DivPageSize
      <4>2. n = s /\ k = s + l
        BY <2>2, <4>1
      <4>3. Covers(u, i)
        BY <2>3, <2>8, <3>3, <4>2 DEF Covers
      <4>4. pageData[pageIds[u][i]] = <<u, i, Tokens(k, i)>>
        BY <2>3, <2>7, <4>2, <4>3 DEF GpuHolds, PageOf
      <4>5. ~(i <= count[u])
        BY <2>2, <2>6, <3>3, DivPageSize
      <4> QED BY <1>5, <1>a, <3>1, <4>4, <4>5
    <3>4. n \div PageSize \in Int
      BY <2>2, DivPageSize
    <3> QED BY <3>2, <3>3, <3>4
  <2> HIDE DEF n, k, s, l
  <2>9. ASSUME NEW i \in Int, Covers(u, i)'
        PROVE  PlaceOf(u, i)' \in 1..Len(pageIds'[u]) /\ pageData'[PageOf(u, i)'] = <<u, i, Tokens(Limit(u)', i)>>
    <3>1. 0 < i /\ (i - 1) * PageSize < k
      BY <2>3, <2>9 DEF Covers
    <3>2. i \in 1..Len(pageIds[u]) /\ pageData'[pageIds[u][i]] = <<u, i, Tokens(k, i)>>
      BY <2>8, <3>1
    <3>3. PlaceOf(u, i)' = i /\ PageOf(u, i)' = pageIds[u][i] /\ pageIds' = pageIds
      BY <1>1, <1>7, <2>7 DEF PageOf, gpuVars, tableVars
    <3> QED BY <2>3, <3>2, <3>3
  <2> QED BY <2>5, <2>9
<1> QED BY <1>8, <1>9

\* The forward pass: the rest of the history is appended.
LEMMA ForwardFills ==
  ASSUME CacheInv, KeptOK, NoGapAtLookup, ServedOK, LookupFits, GpuHolds, Forward, NEW u \in User
  PROVE  /\ \A i \in Int : Covers(u, i)' =>
               PlaceOf(u, i)' \in 1..Len(pageIds'[u]) /\ pageData'[PageOf(u, i)'] = <<u, i, Tokens(Limit(u)', i)>>
         /\ Widens(u)
<1> DEFINE from == Zero
           count == [v \in User |-> Len(pageIndices[v])]
           new == [w \in ListedPages |-> Appended(w[1], w[2])]
<1>1. /\ pc = "forward" /\ pc' = "poll" /\ UNCHANGED <<gpuVars, hostVars, lookup>>
      /\ pageData' = Writes(new, from, count)
  BY DEF Forward
<1>2. phase = "returned" /\ FlowOK /\ PageListsMatchLengths
  BY <1>1 DEF CacheInv, FlowOK, Parts, Table
<1>3. ListsAreOwn
  BY <1>2, OwnLists
<1>4. /\ from \in [User -> Int] /\ count \in [User -> Int]
      /\ from[u] = 0 /\ count[u] = Len(pageIndices[u])
  <2>1. \A v \in User : Len(pageIndices[v]) \in Int
    BY DEF CacheInv, Parts, RequestType
  <2> QED BY <2>1 DEF Zero
<1> HIDE DEF from, count
<1>5. ASSUME NEW a \in DOMAIN pageIds[u]
      PROVE  pageData'[pageIds[u][a]] = IF pageIndices[u] # <<>> THEN new[<<u, a>>] ELSE pageData[pageIds[u][a]]
  <2> HIDE DEF new
  <2>1. /\ IsWritten(u, a, from, count) => Writes(new, from, count)[pageIds[u][a]] = new[<<u, a>>]
        /\ ~IsWritten(u, a, from, count) => Writes(new, from, count)[pageIds[u][a]] = pageData[pageIds[u][a]]
    <3>1. CASE IsWritten(u, a, from, count)
      BY <1>3, <1>4, <3>1, WrittenAt
    <3>2. CASE ~IsWritten(u, a, from, count)
      BY <1>3, <1>4, <3>2, UnwrittenAt
    <3> QED BY <3>1, <3>2
  <2>2. IsWritten(u, a, from, count) <=> pageIndices[u] # <<>>
    <3>1. a \in 1..Len(pageIds[u]) /\ Len(pageIds[u]) \in Nat
      BY DEF CacheInv, Parts, Table, TableType
    <3>2. pageIndices[u] # <<>> => pageIndices[u] = pageIds[u]
      BY <1>3 DEF ListsAreOwn
    <3> QED BY <1>4, <3>1, <3>2 DEF IsWritten
  <2> QED BY <1>1, <2>1, <2>2
<1>a. DOMAIN pageIds[u] = 1..Len(pageIds[u])
  BY DEF CacheInv, Parts, Table, TableType
<1>6. /\ First(u) \in Nat /\ Limit(u) \in Nat /\ startPos[u] \in Nat /\ EndPos(u) \in Nat /\ Len(pageIds[u]) \in Nat
  BY ViewTypes
<1>7. \A i \in Int : PlaceOf(u, i)' = PlaceOf(u, i) /\ PageOf(u, i)' = PageOf(u, i)
  BY <1>1 DEF PlaceOf, PageOf, gpuVars, tableVars
<1>8. First(u)' = First(u) /\ First(u) = startPos[u] \div PageSize /\ Limit(u)' = EndPos(u)
  BY <1>1 DEF First, Limit, Building, EndPos, gpuVars, tableVars
<1>9. CASE pageIndices[u] = <<>>
  <2>1. Limit(u)' = Limit(u)
    BY <1>1, <1>8, <1>9 DEF Limit, Building
  <2>2. Widens(u)
    BY <1>6, <1>7, <1>8, <2>1 DEF Widens
  <2>3. \A i \in Int : Covers(u, i)' => Covers(u, i)
    BY <1>8, <2>1 DEF Covers
  <2>4. ASSUME NEW i \in Int, Covers(u, i)
        PROVE  PlaceOf(u, i) \in 1..Len(pageIds'[u]) /\ pageData'[PageOf(u, i)] = <<u, i, Tokens(Limit(u), i)>>
    <3>1. PlaceOf(u, i) \in 1..Len(pageIds[u]) /\ pageData[PageOf(u, i)] = <<u, i, Tokens(Limit(u), i)>>
      BY <2>4 DEF GpuHolds
    <3>2. pageIds' = pageIds
      BY <1>1 DEF gpuVars, tableVars
    <3> QED BY <1>5, <1>a, <1>9, <3>1, <3>2 DEF PageOf
  <2> QED BY <1>7, <2>1, <2>2, <2>3, <2>4
<1>10. CASE pageIndices[u] # <<>>
  <2> DEFINE t == total[u]
             k == kept[u]
  <2>1. /\ Built(u) /\ t \in Nat /\ k \in Nat /\ k = MergedLen(u) /\ k <= t
    BY <1>2, <1>10, ServedUser
  <2>2. /\ First(u) = 0 /\ Limit(u) = k /\ EndPos(u) = t
    <3>1. 0 \div PageSize = 0
      BY PageSizeAssumption, DivUnique
    <3> QED BY <1>1, <1>8, <1>10, <2>1, <3>1 DEF Limit, Building, Built, EndPos
  <2>3. Widens(u)
    BY <1>6, <1>7, <1>8, <2>1, <2>2 DEF Widens
  <2>4. \A i \in Int : PlaceOf(u, i) = i
    <3>1. 0 \div PageSize = 0
      BY PageSizeAssumption, DivUnique
    <3> QED BY <2>1, <3>1 DEF PlaceOf, Built
  <2>5. ASSUME NEW i \in Int, 0 < i, (i - 1) * PageSize < t
        PROVE  i \in 1..Len(pageIds[u]) /\ pageData'[pageIds[u][i]] = <<u, i, Tokens(t, i)>>
    <3> DEFINE lo == (i - 1) * PageSize
               hi == Smaller(i * PageSize, t)
               old == pageData[pageIndices[u][i]]
    <3>1. i \in 1..Len(pageIds[u])
      <4>1. Len(pageIds[u]) = Pages(t)
        BY <1>2, <2>1 DEF PageListsMatchLengths, Built
      <4>2. t <= Pages(t) * PageSize /\ Pages(t) \in Nat
        BY <2>1, PagesCover
      <4>3. (i - 1) * PageSize < Pages(t) * PageSize
        BY <2>1, <2>5, <4>2, PageSizeAssumption
      <4>4. i - 1 < Pages(t)
        BY <4>2, <4>3, PageSizeAssumption
      <4> QED BY <2>5, <4>1, <4>2, <4>4
    <3>2. pageData'[pageIds[u][i]] = Appended(u, i)
      <4>1. pageIndices[u] = pageIds[u]
        BY <2>1 DEF Built
      <4>2. i <= Pages(MaxHistory)
        <5>1. t \in 0..MaxHistory /\ MaxHistory \in Nat
          BY BoundsAssumption DEF CacheInv, Parts, RequestType, Lengths
        <5>2. Pages(t) <= Pages(MaxHistory) /\ Pages(t) \in Nat /\ Pages(MaxHistory) \in Nat
          BY <2>1, <5>1, PagesMonotone, PagesCover
        <5>3. Len(pageIds[u]) = Pages(t)
          BY <1>2, <2>1 DEF PageListsMatchLengths, Built
        <5> QED BY <3>1, <5>2, <5>3
      <4>3. i \in 1..Pages(MaxHistory)
        BY <2>5, <4>2, BoundsAssumption, PagesCover
      <4>4. <<u, i>> \in ListedPages
        BY <3>1, <4>1, <4>3 DEF ListedPages
      <4>5. new[<<u, i>>] = Appended(u, i)
        BY <4>4
      <4> HIDE DEF new
      <4> QED BY <1>5, <1>a, <1>10, <3>1, <4>5
    <3>3. /\ lo \in Int /\ i * PageSize = lo + PageSize /\ PageSize \in Int /\ PageSize > 0 /\ lo >= 0
      BY <2>5, PageSizeAssumption
    <3>4. lo < k => old = <<u, i, Tokens(k, i)>>
      <4>1. ASSUME lo < k PROVE Covers(u, i)
        BY <2>2, <2>5, <4>1 DEF Covers
      <4>2. pageIndices[u] = pageIds[u] /\ PageOf(u, i) = pageIds[u][i]
        BY <2>1, <2>4 DEF Built, PageOf
      <4> QED BY <2>2, <4>1, <4>2 DEF GpuHolds
    <3>5. /\ Tokens(t, i) = IF PageSize < t - lo THEN PageSize ELSE t - lo
          /\ Tokens(k, i) = IF PageSize < k - lo THEN PageSize ELSE k - lo
          /\ hi = IF lo + PageSize < t THEN lo + PageSize ELSE t
      BY <3>3 DEF Tokens, Smaller
    <3>6. Appended(u, i) = IF hi <= k THEN old
                           ELSE IF k = MergedLen(u) /\ (k <= lo \/ \E n \in 1..PageSize : old = <<u, i, n>> /\ lo + n >= k)
                                THEN <<u, i, hi - lo>> ELSE Junk
      BY DEF Appended
    <3> HIDE DEF lo, hi, old
    <3>7. lo < t
      BY <2>5 DEF lo
    <3> HIDE DEF t, k
    <3>8. CASE hi <= k
      <4>1. lo < k /\ Tokens(k, i) = Tokens(t, i)
        BY <2>1, <3>3, <3>5, <3>7, <3>8
      <4> QED BY <3>1, <3>2, <3>4, <3>6, <3>8, <4>1
    <3>9. CASE ~(hi <= k)
      <4>1. hi - lo = Tokens(t, i)
        BY <2>1, <3>3, <3>5, <3>7
      <4>2. ASSUME ~(k <= lo) PROVE \E n \in 1..PageSize : old = <<u, i, n>> /\ lo + n >= k
        <5>1. Tokens(k, i) = k - lo /\ k - lo \in 1..PageSize /\ lo + (k - lo) >= k
          BY <2>1, <3>3, <3>5, <3>7, <3>9, <4>2
        <5>2. old = <<u, i, k - lo>>
          BY <2>1, <3>3, <3>4, <4>2, <5>1
        <5> QED BY <5>1, <5>2
      <4> QED BY <2>1, <3>1, <3>2, <3>6, <3>9, <4>1, <4>2
    <3> QED BY <3>8, <3>9
  <2>6. ASSUME NEW i \in Int, Covers(u, i)'
        PROVE  PlaceOf(u, i)' \in 1..Len(pageIds'[u]) /\ pageData'[PageOf(u, i)'] = <<u, i, Tokens(Limit(u)', i)>>
    <3>1. 0 < i /\ (i - 1) * PageSize < t
      BY <1>8, <2>2, <2>6 DEF Covers
    <3>2. i \in 1..Len(pageIds[u]) /\ pageData'[pageIds[u][i]] = <<u, i, Tokens(t, i)>>
      BY <2>5, <3>1
    <3>3. PlaceOf(u, i)' = i /\ PageOf(u, i)' = pageIds[u][i] /\ pageIds' = pageIds
      BY <1>1, <1>7, <2>4 DEF PageOf, gpuVars, tableVars
    <3> QED BY <1>8, <2>2, <3>2, <3>3
  <2> QED BY <2>3, <2>6
<1> QED BY <1>9, <1>10

\* Every step keeps what the pages hold, and the places of the pages of the
\* offloads under way.
LEMMA GpuHoldsStep ==
  ASSUME CacheInv, KeptOK, NoGapAtLookup, VictimFound, ServedOK, LookupFits, HeldAtLookup, HostHoldsOwnHistory,
         GpuHolds, [Next]_vars
  PROVE  /\ GpuHolds'
         /\ ClientEvictAllGPU \/ (\E u \in User : ClientEvictGPU(u)) \/ \A u \in User : Locked(u) => Widens(u)
<1>1. CASE Onboard
  BY <1>1, OnboardFills DEF GpuHolds
<1>2. CASE Forward
  BY <1>2, ForwardFills DEF GpuHolds
<1>3. CASE ~Onboard /\ ~Forward
  <2>1. \A u \in User : Follows(u) /\ pageData' = pageData
    BY <1>3, TableFollows
  <2>2. ASSUME NEW u \in User, NEW i \in Int, Covers(u, i)'
        PROVE  PlaceOf(u, i)' \in 1..Len(pageIds'[u]) /\ pageData'[PageOf(u, i)'] = <<u, i, Tokens(Limit(u)', i)>>
    <3>1. Covers(u, i) => PlaceOf(u, i) \in 1..Len(pageIds[u]) /\ pageData[PageOf(u, i)] = <<u, i, Tokens(Limit(u), i)>>
      BY DEF GpuHolds
    <3>2. /\ Covers(u, i) /\ Limit(u)' = Limit(u)
          /\ PlaceOf(u, i)' \in 1..Len(pageIds'[u]) /\ PageOf(u, i)' = PageOf(u, i)
      BY <2>1, <2>2, <3>1 DEF Follows
    <3> QED BY <2>1, <3>1, <3>2
  <2>3. GpuHolds'
    BY <2>2 DEF GpuHolds
  <2>4. ClientEvictAllGPU \/ (\E u \in User : ClientEvictGPU(u)) \/ \A u \in User : Locked(u) => Widens(u)
    BY <1>3, TableFollows
  <2> QED BY <2>3, <2>4
<1> QED BY <1>1, <1>2, <1>3
-----------------------------------------------------------------------------
\* At the start nothing is filled.
LEMMA GpuStart ==
  ASSUME Init
  PROVE  GpuHolds /\ LookupFits /\ HeldAtLookup
<1>1. \A u \in User : First(u) = 0 /\ Limit(u) = 0
  <2>1. 0 \div PageSize = 0
    BY PageSizeAssumption, DivUnique
  <2> QED BY <2>1 DEF Init, GPUInit, First, Limit, Building, EndPos, Zero
<1>2. \A u \in User : \A i \in Int : ~Covers(u, i)
  BY <1>1, PageSizeAssumption DEF Covers
<1>3. LookupFits /\ HeldAtLookup
  BY ZeroBoundary DEF Init, LookupFits, HeldAtLookup, Waiting, NoLookup, Zero
<1> QED BY <1>2, <1>3 DEF GpuHolds

\* What the pages hold is what the attention should read.
LEMMA AttendedReads ==
  ASSUME CacheInv, ServedOK, GpuHolds
  PROVE  ReadsOwnHistory
<1> SUFFICES ASSUME Attended, NEW k \in DOMAIN batch
             PROVE  LET u == batch[k]
                    IN  /\ Len(pageIndices[u]) = Pages(total[u])
                        /\ \A i \in 1..Len(pageIndices[u]) :
                             pageData[pageIndices[u][i]] = <<u, i, Smaller(PageSize, total[u] - (i - 1) * PageSize)>>
  BY DEF ReadsOwnHistory
<1>1. FlowOK /\ RequestType /\ TableType /\ PageListsMatchLengths
  BY DEF CacheInv, Parts, Table
<1>2. phase = "returned" /\ pc \in {"offload", "poll"}
  BY <1>1 DEF Attended, FlowOK
<1>3. PICK u \in User : u = batch[k]
  BY <1>1 DEF RequestType
<1>4. Built(u)
  BY <1>2, <1>3 DEF ServedOK, IsServed
<1>5. total[u] \in Nat
  BY <1>1, BoundsAssumption DEF RequestType, Lengths
<1>6. Len(pageIds[u]) = Pages(total[u]) /\ pageIndices[u] = pageIds[u]
  BY <1>1, <1>4 DEF PageListsMatchLengths, Built
<1>7. First(u) = 0 /\ Limit(u) = total[u] /\ startPos[u] \div PageSize = 0
  <2>1. 0 \div PageSize = 0
    BY PageSizeAssumption, DivUnique
  <2> QED BY <1>2, <1>4, <1>5, <2>1 DEF First, Limit, Building, EndPos, Built
<1>8. ASSUME NEW i \in 1..Pages(total[u])
      PROVE  pageData[pageIds[u][i]] = <<u, i, Tokens(total[u], i)>>
  <2>1. Pages(total[u]) \in Nat /\ Pages(total[u]) * PageSize < total[u] + PageSize
    BY <1>5, PagesCover
  <2>2. i \in Int /\ i > 0 /\ i <= Pages(total[u])
    BY <1>8, <2>1
  <2>3. i * PageSize <= Pages(total[u]) * PageSize /\ (i - 1) * PageSize = i * PageSize - PageSize
    BY <2>1, <2>2, PageSizeAssumption
  <2>4. (i - 1) * PageSize < total[u]
    BY <1>5, <2>1, <2>2, <2>3, PageSizeAssumption
  <2>5. Covers(u, i)
    BY <1>7, <2>2, <2>4 DEF Covers
  <2>6. PageOf(u, i) = pageIds[u][i]
    BY <1>7, <2>2 DEF PageOf, PlaceOf
  <2> QED BY <1>7, <2>2, <2>5, <2>6 DEF GpuHolds
<1> QED BY <1>3, <1>6, <1>8 DEF Tokens
-----------------------------------------------------------------------------
(***************************************************************************)
(* The pages of an offload under way are full pages of its users.          *)
(***************************************************************************)
\* The pages of u's history that h carries follow this one.
StartPage(h, u) == h.start[u] \div PageSize

\* The pages u carries are pages of its list still, in their order.
Placed(h, u) ==
    /\ Len(h.pages[u]) > 0
    /\ \A j \in 1..Len(h.pages[u]) :
          /\ First(u) < StartPage(h, u) + j /\ (StartPage(h, u) + j) * PageSize <= Limit(u)
          /\ PageOf(u, StartPage(h, u) + j) = h.pages[u][j]
HandlePlaced == \A k \in 1..Len(InFlight) : \A u \in HandleUsers(InFlight[k]) : Placed(InFlight[k], u)
HostAligned == \A u \in User : hostLen[u] % PageSize = 0

\* A full page below the limit is filled.
LEMMA FullCovers ==
  ASSUME CacheInv, KeptOK, NEW u \in User, NEW i \in Int, First(u) < i, i * PageSize <= Limit(u)
  PROVE  Covers(u, i) /\ Tokens(Limit(u), i) = PageSize
<1>1. (i - 1) * PageSize = i * PageSize - PageSize /\ i * PageSize \in Int /\ PageSize \in Int /\ PageSize > 0
  BY PageSizeAssumption
<1>2. Limit(u) \in Nat
  BY ViewTypes
<1>3. Covers(u, i)
  BY <1>1, <1>2 DEF Covers
<1>4. Tokens(Limit(u), i) = PageSize
  BY <1>1, <1>2 DEF Tokens, Smaller
<1> QED BY <1>3, <1>4

\* A boundary is a whole number of pages.
LEMMA WholePages ==
  ASSUME NEW n \in Nat
  PROVE  /\ n \div PageSize \in Nat
         /\ n % PageSize = 0 => n = (n \div PageSize) * PageSize
<1>1. n \div PageSize \in Nat
  BY DivPageSize, PageSizeAssumption
<1>2. n % PageSize = 0 => n = (n \div PageSize) * PageSize
  BY PageBoundary, 0 \in Nat
<1> QED BY <1>1, <1>2

\* The positions of a slice from h on, when the list starts at s and ends at e.
LEMMA SpanPages ==
  ASSUME NEW s \in Nat, NEW e \in Nat, NEW h \in Nat, s % PageSize = 0, h % PageSize = 0
  PROVE  /\ (h - s) \div PageSize = h \div PageSize - s \div PageSize
         /\ (e - h) \div PageSize \in Int
         /\ h + ((e - h) \div PageSize) * PageSize <= e
         /\ e < h + ((e - h) \div PageSize) * PageSize + PageSize
         /\ e - h >= PageSize => (e - h) \div PageSize > 0
<1> DEFINE g == h \div PageSize
           f == s \div PageSize
           d == e - h
           q == d \div PageSize
<1>1. g \in Nat /\ f \in Nat /\ h = g * PageSize /\ s = f * PageSize
  BY WholePages
<1>2. d \in Int
  OBVIOUS
<1> HIDE DEF g, f, d
<1>3. q \in Int /\ q * PageSize <= d /\ d < q * PageSize + PageSize
  BY <1>2, DivPageSize
<1>4. (h - s) \div PageSize = g - f
  <2>1. h - s = (g - f) * PageSize /\ g - f \in Int /\ h - s \in Int
    BY <1>1, PageSizeAssumption
  <2> QED BY <2>1, DivUnique, PageSizeAssumption
<1> HIDE DEF q
<1>5. d >= PageSize => q > 0
  <2> SUFFICES ASSUME d >= PageSize, q <= 0 PROVE FALSE
    BY <1>3
  <2>1. q * PageSize <= 0
    BY <1>3, PageSizeAssumption
  <2> QED BY <1>2, <1>3, <2>1, PageSizeAssumption
<1> QED BY <1>1, <1>2, <1>3, <1>4, <1>5, PageSizeAssumption DEF g, f, d, q

\* The pages sent: full ones, from where the host ends on.
LEMMA SentPlaced ==
  ASSUME CacheInv, KeptOK, HostAligned, NEW u \in User, Acquires(u, hostLen),
         NoPage \notin Range(Slice(u, hostLen))
  PROVE  /\ Len(Slice(u, hostLen)) \in Nat /\ Len(Slice(u, hostLen)) > 0
         /\ hostLen[u] + Len(Slice(u, hostLen)) * PageSize <= EndPos(u)
         /\ EndPos(u) < hostLen[u] + Len(Slice(u, hostLen)) * PageSize + PageSize
         /\ \A j \in 1..Len(Slice(u, hostLen)) :
               /\ startPos[u] \div PageSize < hostLen[u] \div PageSize + j
               /\ (hostLen[u] \div PageSize + j) * PageSize <= EndPos(u)
               /\ PageOf(u, hostLen[u] \div PageSize + j) = Slice(u, hostLen)[j]
<1>1. PICK h \in Nat, e \in Nat, t \in Nat :
         /\ h = hostLen[u] /\ e = EndPos(u) /\ t = startPos[u]
         /\ h % PageSize = 0 /\ t % PageSize = 0
  <2>1. startPos[u] \in Nat /\ EndPos(u) \in Nat /\ hostLen[u] \in Nat
    BY ViewTypes DEF CacheInv, HostOK
  <2>2. startPos[u] % PageSize = 0 /\ hostLen[u] % PageSize = 0
    BY DEF HostAligned, CacheInv, Parts, Table, PageListsMatchLengths
  <2> QED BY <2>1, <2>2
<1>2. PICK g \in Nat, f \in Nat : /\ g = h \div PageSize /\ h = g * PageSize
                                 /\ f = t \div PageSize /\ t = f * PageSize
  BY <1>1, WholePages
<1>3. PICK n \in Int : /\ n = (e - h) \div PageSize /\ h + n * PageSize <= e /\ e < h + n * PageSize + PageSize
                      /\ (e - h >= PageSize => n > 0)
  BY <1>1, SpanPages
<1>4. (h - t) \div PageSize = g - f
  BY <1>1, <1>2, SpanPages
<1>5. n > 0
  <2>1. ChunkSize >= PageSize
    BY ChunkSizeAssumption, PageSizeAssumption
  <2>2. e - h >= ChunkSize
    BY <1>1 DEF Acquires
  <2> QED BY <1>3, <2>1, <2>2, PageSizeAssumption, ChunkSizeAssumption
<1>6. PICK s : s = Slice(u, hostLen)
  OBVIOUS
<1>7. s = [i \in 1..n |-> LET j == g - f + i IN IF j \in 1..Len(pageIds[u]) THEN pageIds[u][j] ELSE NoPage]
  <2>1. SliceStart(u, hostLen) = g - f
    BY <1>1, <1>4 DEF SliceStart
  <2>2. SliceLen(u, hostLen) = n
    BY <1>1, <1>3 DEF SliceLen
  <2> QED BY <1>6, <2>1, <2>2 DEF Slice
<1>8. Len(s) = n
  <2>1. n \in Nat
    BY <1>5
  <2> QED BY <1>7, <2>1
<1>9. ASSUME NEW j \in Int, j >= 1, j <= n
      PROVE  g - f + j \in 1..Len(pageIds[u]) /\ s[j] = pageIds[u][g - f + j]
  <2>1. j \in DOMAIN s
    BY <1>7, <1>9
  <2>2. s[j] # NoPage
    BY <1>6, <2>1 DEF Range
  <2> QED BY <1>7, <2>1, <2>2
<1>10. Len(pageIds[u]) \in Nat
  BY ViewTypes
<1>11. f <= g
  <2>1. g - f + 1 \in 1..Len(pageIds[u])
    BY <1>5, <1>9
  <2> QED BY <1>10, <2>1
<1>12. ASSUME NEW j \in Int, j >= 1, j <= n
       PROVE  f < g + j /\ (g + j) * PageSize <= e /\ PageOf(u, g + j) = s[j]
  <2>1. (g + j) * PageSize <= e
    <3>1. PageSize \in Nat
      BY PageSizeAssumption
    <3>2. j * PageSize <= n * PageSize
      BY <1>12, <3>1
    <3>3. (g + j) * PageSize = g * PageSize + j * PageSize
      BY <1>12, <3>1
    <3>4. j * PageSize \in Int /\ n * PageSize \in Int /\ g * PageSize \in Int
      BY <1>12, <3>1
    <3> QED BY <1>2, <1>3, <3>2, <3>3, <3>4
  <2>2. PlaceOf(u, g + j) = g + j - f
    BY <1>1, <1>2 DEF PlaceOf
  <2>3. g + j - f = g - f + j
    OBVIOUS
  <2> QED BY <1>9, <1>11, <1>12, <2>1, <2>2, <2>3 DEF PageOf
<1>13. \A j \in 1..n : f < g + j /\ (g + j) * PageSize <= e /\ PageOf(u, g + j) = s[j]
  BY <1>12
<1> QED BY <1>1, <1>2, <1>3, <1>5, <1>6, <1>8, <1>13

\* Where the filled pages of a user start and end.
ViewsOK == \A u \in User : First(u) \in Nat /\ Limit(u) \in Nat

\* They are numbers in every state.
LEMMA ViewsAreNumbers == CacheInv /\ KeptOK => ViewsOK
BY ViewTypes DEF ViewsOK

\* Every step keeps the pages of the offloads under way in their places.
LEMMA HandlePlacedStep ==
  ASSUME CacheInv, ChunkTypes, FlightInv, NoneLost, RaisesUnsettled, LocksCover, KeptOK, KeptOK', NoGapAtLookup, VictimFound,
         OffloadsHaveNoGap', ServedOK, LookupFits, HeldAtLookup, HostHoldsOwnHistory, HostAligned, GpuHolds,
         HandlePlaced, [Next]_vars
  PROVE  HandlePlaced'
<1>0. CacheInv' /\ FlightInv'
  BY CacheStep, FlightInvStep
<1>1. ViewsOK
  BY ViewsAreNumbers
<1>2. ViewsOK'
  BY <1>0, ViewsAreNumbers, PTL
<1>3. ASSUME NEW j \in 1..Len(InFlight), NEW h, h = InFlight[j], NEW u \in HandleUsers(h) PROVE Placed(h, u)'
  <2>2. HandleOK(h, history)
    BY <1>3, FlightHandles
  <2>3. u \in User
    BY <1>3, <2>2 DEF HandleOK, HandleUsers, Range
  <2>4. Placed(h, u)
    BY <1>3 DEF HandlePlaced
  <2>5. Locked(u)
    BY <1>3, <2>3, CarriedLocked
  <2>6. ~ClientEvictAllGPU /\ ~\E v \in User : ClientEvictGPU(v)
    <3>1. ASSUME ClientQuiet PROVE FALSE
      BY <1>3, <3>1 DEF ClientQuiet, InFlight
    <3> QED BY <3>1 DEF ClientEvictAllGPU, ClientEvictGPU
  <2>7. Widens(u)
    BY <2>3, <2>5, <2>6, GpuHoldsStep
  <2>8. First(u) \in Nat /\ Limit(u) \in Nat /\ First(u)' \in Nat /\ Limit(u)' \in Nat
    BY <1>1, <1>2, <2>3 DEF ViewsOK
  <2>9. ASSUME NEW n \in 1..Len(h.pages[u]), NEW i \in Int, i = StartPage(h, u) + n
        PROVE  First(u)' < i /\ i * PageSize <= Limit(u)' /\ PageOf(u, i)' = h.pages[u][n]
    <3>1. First(u) < i /\ i * PageSize <= Limit(u) /\ PageOf(u, i) = h.pages[u][n]
      BY <2>4, <2>9 DEF Placed
    <3>2. Covers(u, i)
      BY <2>3, <3>1, FullCovers
    <3>3. PageOf(u, i)' = PageOf(u, i)
      BY <2>3, <2>7, <3>2 DEF Widens, GpuHolds
    <3>4. i * PageSize \in Int
      BY PageSizeAssumption
    <3>5. First(u)' <= First(u) /\ Limit(u) <= Limit(u)'
      BY <2>7 DEF Widens
    <3>6. First(u)' < i
      BY <2>8, <3>1, <3>5
    <3>7. i * PageSize <= Limit(u)'
      BY <2>8, <3>1, <3>4, <3>5
    <3> QED BY <3>1, <3>3, <3>6, <3>7
  <2>10. ASSUME NEW n \in 1..Len(h.pages[u]) PROVE StartPage(h, u) + n \in Int
    <3>1. h.start[u] \in Nat /\ Len(h.pages[u]) \in Nat
      BY <2>2, <2>3 DEF HandleOK
    <3>2. StartPage(h, u) \in Int
      <4>1. ASSUME NEW m \in Nat PROVE m \div PageSize \in Int
        BY DivPageSize
      <4> QED BY <3>1, <4>1 DEF StartPage
    <3> QED BY <3>1, <3>2
  <2>11. \A n \in 1..Len(h.pages[u]) :
            /\ First(u)' < StartPage(h, u) + n /\ (StartPage(h, u) + n) * PageSize <= Limit(u)'
            /\ PageOf(u, StartPage(h, u) + n)' = h.pages[u][n]
    BY <2>9, <2>10
  <2>12. Len(h.pages[u]) > 0
    BY <2>4 DEF Placed
  <2> QED BY <2>11, <2>12 DEF Placed, StartPage
<1>4. ASSUME OffloadLaunch, NEW fresh, NEW out, Launches(fresh, out),
             NEW h, h = NewHandle(fresh), NEW k \in 1..Len(InFlight'), h = InFlight'[k], NEW u \in HandleUsers(h)
      PROVE  Placed(h, u)'
  <2>1. u \in Range(Sending) /\ u \in User /\ Acquires(u, hostLen) /\ Contains(Sending, u)
    BY <1>4, Senders DEF NewHandle, HandleUsers
  <2>2. h.pages[u] = Slice(u, hostLen) /\ h.start[u] = hostLen[u]
    BY <1>4, <2>1 DEF NewHandle, Sent, Of
  <2>3. NoPage \notin Range(Slice(u, hostLen))
    <3>1. InFlight' = ongoing'
      BY <1>4 DEF OffloadLaunch, InFlight
    <3>2. DOMAIN ongoing' = 1..Len(ongoing')
      <4>1. PICK X : ongoing \in Seq(X)
        BY TaskLists
      <4>2. ongoing \in Seq(X \cup {h}) /\ h \in X \cup {h} /\ ongoing' = Append(ongoing, h)
        BY <1>4, <4>1 DEF Launches
      <4>3. ongoing' \in Seq(X \cup {h})
        BY <4>2, AppendProperties
      <4> QED BY <4>3
    <3>3. k \in DOMAIN ongoing' /\ ongoing'[k] = h
      BY <1>4, <3>1, <3>2
    <3> QED BY <2>1, <2>2, <3>3 DEF OffloadsHaveNoGap
  <2>4. First(u)' = startPos[u] \div PageSize /\ Limit(u)' = EndPos(u) /\ \A i \in Int : PageOf(u, i)' = PageOf(u, i)
    <3>1. pc' = "idle" /\ UNCHANGED tableVars
      BY <1>4 DEF OffloadLaunch, AcquireOffloadPages
    <3> QED BY <3>1 DEF First, Limit, Building, EndPos, PageOf, PlaceOf, tableVars
  <2>5. /\ Len(Slice(u, hostLen)) \in Nat /\ Len(Slice(u, hostLen)) > 0
        /\ \A j \in 1..Len(Slice(u, hostLen)) :
               /\ startPos[u] \div PageSize < hostLen[u] \div PageSize + j
               /\ (hostLen[u] \div PageSize + j) * PageSize <= EndPos(u)
               /\ PageOf(u, hostLen[u] \div PageSize + j) = Slice(u, hostLen)[j]
    BY <2>1, <2>3, SentPlaced
  <2>6. ASSUME NEW j \in 1..Len(Slice(u, hostLen)) PROVE hostLen[u] \div PageSize + j \in Int
    <3>1. hostLen[u] \in Int
      BY <2>1 DEF CacheInv, HostOK
    <3>2. hostLen[u] \div PageSize \in Int
      BY <3>1, DivPageSize
    <3> QED BY <2>5, <3>2
  <2>7. StartPage(h, u) = hostLen[u] \div PageSize
    BY <2>2 DEF StartPage
  <2>8. \A j \in 1..Len(h.pages[u]) :
               /\ First(u)' < StartPage(h, u) + j
               /\ (StartPage(h, u) + j) * PageSize <= Limit(u)'
               /\ PageOf(u, StartPage(h, u) + j)' = h.pages[u][j]
    BY <2>2, <2>4, <2>5, <2>6, <2>7
  <2> QED BY <2>2, <2>5, <2>8 DEF Placed, StartPage
<1>5. ASSUME NEW k \in 1..Len(InFlight'), NEW h, h = InFlight'[k], NEW u \in HandleUsers(h) PROVE Placed(h, u)'
  BY <1>3, <1>4, <1>5, FlightFrom
<1> QED BY <1>5 DEF HandlePlaced
-----------------------------------------------------------------------------
(***************************************************************************)
(* Pages in chunks.                                                        *)
(***************************************************************************)
\* Page i of a history is in this chunk of its user, at this slot; n pages fill
\* ChunkNo(n) chunks.
ChunkNo(i) == (i - 1) \div PagesPerChunk + 1
SlotNo(i) == (i - 1) % PagesPerChunk

\* A chunk is a whole number of pages.
LEMMA ChunkIsPages ==
  PagesPerChunk \in Nat \ {0} /\ ChunkSize = PagesPerChunk * PageSize
<1>1. ChunkSize \in Int /\ ChunkSize > 0 /\ PageSize \in Nat \ {0} /\ ChunkSize % PageSize = 0
  BY ChunkSizeAssumption, PageSizeAssumption
<1>2. PICK n \in Nat : n = ChunkSize
  BY <1>1
<1>3. n \div PageSize \in Nat /\ n = (n \div PageSize) * PageSize
  BY <1>1, <1>2, WholePages
<1>4. n \div PageSize # 0
  BY <1>1, <1>2, <1>3
<1> QED BY <1>2, <1>3, <1>4 DEF PagesPerChunk

\* Quotient and remainder.
LEMMA Euclid ==
  ASSUME NEW p \in Nat \ {0}, NEW j \in Int
  PROVE  j \div p \in Int /\ j % p \in 0..(p - 1) /\ j = (j \div p) * p + (j % p)
OBVIOUS

\* Where a page is, as a quotient and a remainder.
LEMMA ChunkNoIs ==
  ASSUME NEW i \in Int
  PROVE  /\ ChunkNo(i) \in Int /\ SlotNo(i) \in Slots
         /\ i = (ChunkNo(i) - 1) * PagesPerChunk + SlotNo(i) + 1
<1>2. PICK p \in Nat \ {0} : p = PagesPerChunk
  BY ChunkIsPages
<1>3. PICK j \in Int : j = i - 1
  OBVIOUS
<1>4. j \div p \in Int /\ j % p \in 0..(p - 1) /\ j = (j \div p) * p + (j % p)
  BY Euclid
<1>5. ChunkNo(i) = j \div p + 1 /\ SlotNo(i) = j % p /\ Slots = 0..(p - 1)
  BY <1>2, <1>3 DEF ChunkNo, SlotNo, Slots
<1>6. ChunkNo(i) - 1 = j \div p
  BY <1>4, <1>5
<1> QED BY <1>2, <1>3, <1>4, <1>5, <1>6

\* Numbers in order have their quotients in order.
LEMMA QuotientOrder ==
  ASSUME NEW p \in Nat \ {0}, NEW a \in Int, NEW b \in Int, NEW s \in 0..(p - 1), NEW t \in 0..(p - 1),
         b * p + t <= a * p + s
  PROVE  b <= a
<1> SUFFICES ASSUME a < b PROVE FALSE
  OBVIOUS
<1>1. a * p \in Int /\ b * p \in Int /\ a + 1 <= b
  OBVIOUS
<1>2. (a + 1) * p <= b * p
  BY <1>1
<1>3. (a + 1) * p = a * p + p
  OBVIOUS
<1> QED BY <1>1, <1>2, <1>3

\* The quotient and the remainder are determined by the page.
LEMMA ChunkNoUnique ==
  ASSUME NEW x \in Int, NEW s \in Slots, NEW i \in Int, i = (x - 1) * PagesPerChunk + s + 1
  PROVE  ChunkNo(i) = x /\ SlotNo(i) = s
<1>1. PICK p \in Nat \ {0} : p = PagesPerChunk
  BY ChunkIsPages
<1>2. PICK a \in Int : a = x - 1
  OBVIOUS
<1>3. PICK b \in Int : b = ChunkNo(i) - 1
  BY ChunkNoIs
<1>4. PICK t \in 0..(p - 1) : t = SlotNo(i)
  BY <1>1, ChunkNoIs DEF Slots
<1>5. i = a * p + s + 1 /\ i = b * p + t + 1
  BY <1>1, <1>2, <1>3, <1>4, ChunkNoIs
<1>6. s \in 0..(p - 1)
  BY <1>1 DEF Slots
<1>7. a * p \in Int /\ b * p \in Int
  OBVIOUS
<1>8. a * p + s <= b * p + t /\ b * p + t <= a * p + s
  BY <1>5, <1>6, <1>7
<1>9. a <= b /\ b <= a
  BY <1>6, <1>8, QuotientOrder
<1>10. a = b
  BY <1>9
<1>11. s = t
  BY <1>5, <1>6, <1>7, <1>10
<1>12. ChunkNo(i) \in Int
  BY ChunkNoIs
<1> QED BY <1>2, <1>3, <1>4, <1>10, <1>11, <1>12

\* Later pages are in later chunks.
LEMMA ChunkNoMonotone ==
  ASSUME NEW i \in Int, NEW j \in Int, i <= j
  PROVE  ChunkNo(i) <= ChunkNo(j)
<1>1. PICK p \in Nat \ {0} : p = PagesPerChunk
  BY ChunkIsPages
<1>2. PICK b \in Int : b = ChunkNo(i) - 1
  BY ChunkNoIs
<1>3. PICK a \in Int : a = ChunkNo(j) - 1
  BY ChunkNoIs
<1>4. PICK t \in 0..(p - 1) : t = SlotNo(i)
  BY <1>1, ChunkNoIs DEF Slots
<1>5. PICK s \in 0..(p - 1) : s = SlotNo(j)
  BY <1>1, ChunkNoIs DEF Slots
<1>6. i = b * p + t + 1 /\ j = a * p + s + 1
  BY <1>1, <1>2, <1>3, <1>4, <1>5, ChunkNoIs
<1>7. a * p \in Int /\ b * p \in Int
  OBVIOUS
<1>8. b * p + t <= a * p + s
  BY <1>6, <1>7
<1>9. b <= a
  BY <1>8, QuotientOrder
<1>10. ChunkNo(i) \in Int /\ ChunkNo(j) \in Int
  BY ChunkNoIs
<1> QED BY <1>2, <1>3, <1>9, <1>10

\* The first page is the first of the first chunk, and no pages fill no chunk.
LEMMA ChunkNoEnds == ChunkNo(0) = 0 /\ ChunkNo(1) = 1
<1>1. PICK p \in Nat \ {0} : p = PagesPerChunk
  BY ChunkIsPages
<1>2. p - 1 \in Slots /\ 0 \in Slots
  BY <1>1 DEF Slots
<1>3. 0 = (0 - 1) * PagesPerChunk + (p - 1) + 1 /\ 1 = (1 - 1) * PagesPerChunk + 0 + 1
  BY <1>1
<1>4. ChunkNo(0) = 0
  <2>1. p - 1 \in Int /\ 0 \in Int
    OBVIOUS
  <2> QED BY <1>2, <1>3, <2>1, ChunkNoUnique
<1>5. ChunkNo(1) = 1
  BY <1>2, <1>3, ChunkNoUnique
<1> QED BY <1>4, <1>5

\* Where an offload that starts after n pages goes on.
LEMMA ChunkNoNext ==
  ASSUME NEW n \in Nat
  PROVE  /\ ChunkNo(n + 1) - 1 = n \div PagesPerChunk
         /\ SlotNo(n + 1) = n % PagesPerChunk
         /\ n % PagesPerChunk = 0 => ChunkNo(n + 1) = ChunkNo(n) + 1
         /\ n % PagesPerChunk # 0 => ChunkNo(n + 1) = ChunkNo(n)
<1>1. PICK p \in Nat \ {0} : p = PagesPerChunk
  BY ChunkIsPages
<1>2. (n + 1) - 1 = n
  OBVIOUS
<1>3. ChunkNo(n + 1) = n \div PagesPerChunk + 1 /\ SlotNo(n + 1) = n % PagesPerChunk
  BY <1>2 DEF ChunkNo, SlotNo
<1>4. PICK q \in Int, r \in 0..(p - 1) : /\ q = n \div PagesPerChunk /\ r = n % PagesPerChunk
                                       /\ n = q * p + r
  BY <1>1
<1>5. ASSUME r = 0 PROVE ChunkNo(n) = q
  <2>1. p - 1 \in Slots
    BY <1>1 DEF Slots
  <2>2. n = (q - 1) * PagesPerChunk + (p - 1) + 1
    BY <1>1, <1>4, <1>5
  <2> QED BY <2>1, <2>2, ChunkNoUnique
<1>6. ASSUME r # 0 PROVE ChunkNo(n) = q + 1
  <2>1. r - 1 \in Slots
    BY <1>1, <1>6 DEF Slots
  <2>2. n = ((q + 1) - 1) * PagesPerChunk + (r - 1) + 1 /\ q + 1 \in Int
    BY <1>1, <1>4
  <2> QED BY <2>1, <2>2, ChunkNoUnique
<1> QED BY <1>3, <1>4, <1>5, <1>6

\* Whole chunks before a page add to its chunk.
LEMMA ChunkNoShift ==
  ASSUME NEW i \in Int, NEW k \in Int
  PROVE  ChunkNo(i + k * PagesPerChunk) = ChunkNo(i) + k /\ SlotNo(i + k * PagesPerChunk) = SlotNo(i)
<1>1. PICK p \in Nat \ {0} : p = PagesPerChunk
  BY ChunkIsPages
<1>2. PICK b \in Int : b = ChunkNo(i) - 1
  BY ChunkNoIs
<1>3. PICK t \in 0..(p - 1) : t = SlotNo(i)
  BY <1>1, ChunkNoIs DEF Slots
<1>4. i = b * p + t + 1
  BY <1>1, <1>2, <1>3, ChunkNoIs
<1>5. PICK j \in Int : j = i + k * p
  OBVIOUS
<1>6. j = (b + k) * p + t + 1
  BY <1>4, <1>5
<1>7. PICK x \in Int : x = b + k + 1 /\ x - 1 = b + k
  OBVIOUS
<1>8. j = (x - 1) * PagesPerChunk + t + 1 /\ t \in Slots
  BY <1>1, <1>6, <1>7 DEF Slots
<1>9. ChunkNo(j) = x /\ SlotNo(j) = t
  BY <1>8, ChunkNoUnique, SMTT(30)
<1>10. ChunkNo(i) \in Int
  BY ChunkNoIs
<1> QED BY <1>1, <1>2, <1>3, <1>5, <1>7, <1>9, <1>10

\* Where in its first chunk an offload starts.
LEMMA StartInChunk ==
  ASSUME NEW pos \in Nat, pos % PageSize = 0, NEW n \in Nat, n = pos \div PageSize
  PROVE  /\ UsedPages(pos) = SlotNo(n + 1)
         /\ Unaligned(pos) <=> SlotNo(n + 1) # 0
<1>1. PICK p \in Nat \ {0} : p = PagesPerChunk
  BY ChunkIsPages
<1>2. PICK g \in Nat \ {0} : g = PageSize
  BY PageSizeAssumption
<1>3. PICK c \in Nat \ {0} : c = ChunkSize /\ c = p * g
  BY <1>1, <1>2, ChunkIsPages, ChunkSizeAssumption
<1>4. pos = n * g
  BY <1>2, WholePages
<1>5. SlotNo(n + 1) = n % p
  BY <1>1, ChunkNoNext
<1>6. PICK q \in Int, r \in 0..(p - 1) : r = n % p /\ n = q * p + r
  <2>1. n % p \in 0..(p - 1) /\ n \div p \in Int /\ n = (n \div p) * p + (n % p)
    OBVIOUS
  <2> QED BY <2>1
<1>7. PICK m \in Int : m = r * g
  OBVIOUS
<1>8. 0 <= m /\ m < c
  <2>1. r <= p - 1
    OBVIOUS
  <2>2. r * g <= (p - 1) * g
    BY <2>1
  <2>3. (p - 1) * g = p * g - g
    OBVIOUS
  <2> QED BY <1>3, <1>7, <2>2, <2>3
<1>9. pos = q * c + m
  <2>1. n * g = (q * p) * g + r * g
    BY <1>6
  <2>2. (q * p) * g = q * (p * g)
    OBVIOUS
  <2> QED BY <1>3, <1>4, <1>7, <2>1, <2>2
<1>10. pos % c = m
  <2>1. pos % c \in 0..(c - 1) /\ pos \div c \in Int /\ pos = (pos \div c) * c + (pos % c)
    OBVIOUS
  <2>2. PICK y \in Int, t \in 0..(c - 1) : y = pos \div c /\ t = pos % c /\ pos = y * c + t
    BY <2>1
  <2>3. m \in 0..(c - 1)
    BY <1>8
  <2>4. q * c \in Int /\ y * c \in Int
    OBVIOUS
  <2>5. q * c + m <= y * c + t /\ y * c + t <= q * c + m
    BY <1>9, <2>2, <2>4
  <2>6. q <= y /\ y <= q
    BY <2>3, <2>5, QuotientOrder
  <2>7. q = y
    BY <2>6
  <2> QED BY <1>9, <2>2, <2>4, <2>7
<1>11. m \div g = r
  <2>1. r * PageSize <= m /\ m < r * PageSize + PageSize
    BY <1>2, <1>7
  <2> QED BY <1>2, <2>1, DivUnique
<1>12. UsedPages(pos) = r
  BY <1>2, <1>3, <1>10, <1>11 DEF UsedPages
<1>13. m # 0 <=> r # 0
  BY <1>7
<1> QED BY <1>3, <1>5, <1>6, <1>10, <1>12, <1>13 DEF Unaligned

\* The chunks an offload takes: those its end needs beyond those its start has.
LEMMA FreshCount ==
  ASSUME NEW pos \in Nat, pos % PageSize = 0, NEW s \in Nat, s = pos \div PageSize, NEW n \in Nat
  PROVE  FreshChunks(pos, n) = ChunkNo(s + n) - ChunkNo(s)
<1>1. PICK p \in Nat \ {0} : p = PagesPerChunk
  BY ChunkIsPages
<1>2. PICK r \in 0..(p - 1) : r = UsedPages(pos) /\ r = s % p
  <2>1. UsedPages(pos) = s % p
    BY <1>1, StartInChunk, ChunkNoNext
  <2>2. s % p \in 0..(p - 1)
    OBVIOUS
  <2> QED BY <2>1, <2>2
<1>3. PICK q \in Int : s = q * p + r
  <2>1. s \in Int
    OBVIOUS
  <2>2. s \div p \in Int /\ s = (s \div p) * p + (s % p)
    BY ONLY <2>1, Euclid, p \in Nat \ {0}
  <2> QED BY <1>2, <2>2
<1>4. PICK used \in Int : used = IF r = 0 THEN p ELSE r
  OBVIOUS
<1>5. FreshChunks(pos, n) = ChunkNo(n + used) - 1
  <2>1. FreshChunks(pos, n) = (n + used - 1) \div p
    BY <1>1, <1>2, <1>4 DEF FreshChunks
  <2>2. ChunkNo(n + used) = (n + used - 1) \div p + 1 /\ ChunkNo(n + used) \in Int
    BY <1>1, ChunkNoIs DEF ChunkNo
  <2>3. (n + used - 1) \div p \in Int
    <3>1. PICK z \in Int : z = n + used - 1
      OBVIOUS
    <3>2. z \div p \in Int
      OBVIOUS
    <3> QED BY <3>1, <3>2
  <2> QED BY <2>1, <2>2, <2>3
<1>6. CASE r = 0
  <2>1. ChunkNo(n + 1 * p) = ChunkNo(n) + 1
    BY <1>1, ChunkNoShift
  <2>2. ChunkNo(n + q * p) = ChunkNo(n) + q /\ ChunkNo(0 + q * p) = ChunkNo(0) + q
    <3>1. n \in Int /\ 0 \in Int
      OBVIOUS
    <3>2. ChunkNo(n + q * p) = ChunkNo(n) + q
      BY <1>1, <3>1, ChunkNoShift
    <3>3. ChunkNo(0 + q * p) = ChunkNo(0) + q
      BY ONLY <1>1, <3>1, ChunkNoShift, q \in Int
    <3> QED BY <3>2, <3>3
  <2>3. n + 1 * p = n + used /\ n + q * p = s + n /\ 0 + q * p = s
    BY <1>3, <1>4, <1>6
  <2>4. ChunkNo(n) \in Int /\ ChunkNo(0) = 0
    BY ChunkNoIs, ChunkNoEnds
  <2> QED BY <1>5, <2>1, <2>2, <2>3, <2>4
<1>7. CASE r # 0
  <2>1. ChunkNo(r) = 1
    <3>1. r - 1 \in Slots /\ r = (1 - 1) * PagesPerChunk + (r - 1) + 1
      BY <1>1, <1>7 DEF Slots
    <3> QED BY <3>1, ChunkNoUnique
  <2>2. ChunkNo((n + r) + q * p) = ChunkNo(n + r) + q /\ ChunkNo(r + q * p) = ChunkNo(r) + q
    <3>1. n + r \in Int /\ r \in Int
      OBVIOUS
    <3> QED BY <1>1, <3>1, ChunkNoShift
  <2>3. n + r = n + used /\ (n + r) + q * p = s + n /\ r + q * p = s
    BY <1>3, <1>4, <1>7
  <2>4. ChunkNo(n + r) \in Int
    BY ChunkNoIs
  <2> QED BY <1>5, <2>1, <2>2, <2>3, <2>4
<1> QED BY <1>6, <1>7
-----------------------------------------------------------------------------
(***************************************************************************)
(* The chunks an offload writes.                                           *)
(***************************************************************************)
\* The last page of u's history that h carries.
EndPage(h, u) == StartPage(h, u) + Len(h.pages[u])

\* h writes this chunk of u, which is the one given.
IsSent(h, u, x) == ChunkNo(StartPage(h, u) + 1) <= x /\ x <= ChunkNo(EndPage(h, u))
Sends(h, u, x) == h.chunks[u][x + 1 - ChunkNo(StartPage(h, u) + 1)]

\* The chunks of a handle are those its pages need; the ones beyond those that
\* its start needs are fresh.
ShapeOK(h) ==
    /\ \A u \in User : u \notin HandleUsers(h) => Len(h.chunks[u]) = 0
    /\ \A u \in HandleUsers(h) :
          /\ h.start[u] % PageSize = 0 /\ Len(h.pages[u]) > 0
          /\ Len(h.fresh[u]) = ChunkNo(EndPage(h, u)) - ChunkNo(StartPage(h, u))
          /\ Len(h.chunks[u]) = ChunkNo(EndPage(h, u)) + 1 - ChunkNo(StartPage(h, u) + 1)
          /\ \A x \in Int : IsSent(h, u, x) /\ ChunkNo(StartPage(h, u)) < x =>
                Sends(h, u, x) = h.fresh[u][x - ChunkNo(StartPage(h, u))]

\* The one its start needs is a chunk of its user on the host, in place.
Continues(h, C) ==
    \A u \in HandleUsers(h) : \A x \in Int :
        IsSent(h, u, x) /\ x <= ChunkNo(StartPage(h, u)) => x \in DOMAIN C[u] /\ Sends(h, u, x) = C[u][x]

\* The chunks of the host and the fresh ones of the handles F are all different.
Distinct(F, C) ==
    /\ \A j, k \in 1..Len(F) : \A u, v \in User : \A x \in DOMAIN F[j].fresh[u], y \in DOMAIN F[k].fresh[v] :
          F[j].fresh[u][x] = F[k].fresh[v][y] => j = k /\ u = v /\ x = y
    /\ \A j \in 1..Len(F) : \A u, v \in User : \A x \in DOMAIN F[j].fresh[u], y \in DOMAIN C[v] :
          F[j].fresh[u][x] # C[v][y]
    /\ \A u, v \in User : \A x \in DOMAIN C[u], y \in DOMAIN C[v] : C[u][x] = C[v][y] => u = v /\ x = y

\* The numbers of a handle.
LEMMA SentNumbers ==
  ASSUME NEW h, NEW H, HandleOK(h, H), ShapeOK(h), NEW u \in HandleUsers(h)
  PROVE  /\ u \in User /\ StartPage(h, u) \in Nat /\ Len(h.pages[u]) \in Nat /\ EndPage(h, u) \in Nat
         /\ StartPage(h, u) < EndPage(h, u)
         /\ h.start[u] = StartPage(h, u) * PageSize /\ OffloadEnd(h, u) = EndPage(h, u) * PageSize
         /\ ChunkNo(StartPage(h, u)) \in Nat /\ ChunkNo(StartPage(h, u) + 1) \in Nat /\ ChunkNo(EndPage(h, u)) \in Nat
         /\ ChunkNo(StartPage(h, u) + 1) >= 1
         /\ ChunkNo(StartPage(h, u) + 1) \in {ChunkNo(StartPage(h, u)), ChunkNo(StartPage(h, u)) + 1}
         /\ h.fresh[u] \in Seq(Chunk) /\ DOMAIN h.fresh[u] = 1..Len(h.fresh[u])
<1>1. u \in User
  BY DEF HandleOK, HandleUsers, Range
<1>2. /\ h.start[u] \in Nat /\ Len(h.pages[u]) \in Nat /\ h.fresh[u] \in Seq(Chunk)
      /\ h.start[u] % PageSize = 0 /\ Len(h.pages[u]) > 0
  BY <1>1 DEF HandleOK, ShapeOK
<1>3. PICK s \in Nat, n \in Nat : s = StartPage(h, u) /\ n = Len(h.pages[u]) /\ h.start[u] = s * PageSize /\ n > 0
  <2>1. ASSUME NEW m \in Nat, m % PageSize = 0 PROVE m \div PageSize \in Nat /\ m = (m \div PageSize) * PageSize
    BY <2>1, WholePages
  <2> QED BY <1>2, <2>1 DEF StartPage
<1>4. EndPage(h, u) = s + n
  BY <1>3 DEF EndPage
<1>5. OffloadEnd(h, u) = (s + n) * PageSize
  BY <1>3, PageSizeAssumption DEF OffloadEnd
<1>6. ASSUME NEW m \in Nat PROVE ChunkNo(m) \in Nat
  <2>1. ChunkNo(0) <= ChunkNo(m) /\ ChunkNo(m) \in Int
    BY ChunkNoIs, ChunkNoMonotone
  <2> QED BY <2>1, ChunkNoEnds
<1>7. s + 1 \in Nat /\ s + n \in Nat
  OBVIOUS
<1>8. ChunkNo(s + 1) >= 1
  <2>1. ChunkNo(1) <= ChunkNo(s + 1)
    BY ChunkNoMonotone
  <2> QED BY <1>6, <1>7, <2>1, ChunkNoEnds
<1>9. ChunkNo(s + 1) \in {ChunkNo(s), ChunkNo(s) + 1}
  BY ChunkNoNext
<1>10. DOMAIN h.fresh[u] = 1..Len(h.fresh[u])
  BY <1>2
<1>11. ChunkNo(s) \in Nat /\ ChunkNo(s + 1) \in Nat /\ ChunkNo(s + n) \in Nat
  BY <1>6, <1>7
<1>12. s < s + n
  BY <1>3
<1> QED BY <1>1, <1>2, <1>3, <1>4, <1>5, <1>7, <1>8, <1>9, <1>10, <1>11, <1>12

\* A chunk that is sent is fresh or one of the host.
LEMMA SentKinds ==
  ASSUME NEW h, NEW H, HandleOK(h, H), ShapeOK(h), NEW C \in [User -> Seq(Chunk)], Continues(h, C),
         NEW u \in HandleUsers(h), NEW x \in Int, IsSent(h, u, x)
  PROVE  /\ \/ /\ x > ChunkNo(StartPage(h, u))
               /\ x - ChunkNo(StartPage(h, u)) \in DOMAIN h.fresh[u]
               /\ Sends(h, u, x) = h.fresh[u][x - ChunkNo(StartPage(h, u))]
            \/ x \in DOMAIN C[u] /\ Sends(h, u, x) = C[u][x]
         /\ Sends(h, u, x) \in Chunk
<1>1. PICK a \in Nat, e \in Nat : a = ChunkNo(StartPage(h, u)) /\ e = ChunkNo(EndPage(h, u))
  BY SentNumbers
<1>2. u \in User /\ h.fresh[u] \in Seq(Chunk) /\ DOMAIN h.fresh[u] = 1..Len(h.fresh[u]) /\ Len(h.fresh[u]) = e - a
  BY <1>1, SentNumbers DEF ShapeOK
<1>3. CASE a < x
  <2>1. x - a \in DOMAIN h.fresh[u]
    BY <1>1, <1>2, <1>3 DEF IsSent
  <2>2. Sends(h, u, x) = h.fresh[u][x - a]
    BY <1>1, <1>3 DEF ShapeOK
  <2> QED BY <1>1, <1>2, <1>3, <2>1, <2>2, SMTT(30)
<1>4. CASE ~(a < x)
  <2>1. x \in DOMAIN C[u] /\ Sends(h, u, x) = C[u][x]
    BY <1>1, <1>4 DEF Continues
  <2> QED BY <1>2, <2>1
<1> QED BY <1>3, <1>4

\* Two handles write no chunk for two users or as two chunks of one.
Apart(g, h) ==
    \A u \in HandleUsers(g), v \in HandleUsers(h) : \A x, y \in Int :
        IsSent(g, u, x) /\ IsSent(h, v, y) /\ Sends(g, u, x) = Sends(h, v, y) => u = v /\ x = y

\* A handle writes no chunk of the host for another user or as another chunk.
InPlace(h, C) ==
    \A u \in HandleUsers(h), v \in User : \A x \in Int, y \in DOMAIN C[v] :
        IsSent(h, u, x) /\ Sends(h, u, x) = C[v][y] => u = v /\ x = y

\* Different chunks keep the handles apart and in place.
LEMMA HandlesApart ==
  ASSUME NEW F, NEW C \in [User -> Seq(Chunk)], Distinct(F, C), NEW H,
         \A k \in 1..Len(F) : HandleOK(F[k], H) /\ ShapeOK(F[k]) /\ Continues(F[k], C),
         NEW j \in 1..Len(F), NEW k \in 1..Len(F)
  PROVE  Apart(F[j], F[k]) /\ InPlace(F[j], C)
<1>1. PICK g, h : g = F[j] /\ h = F[k]
  OBVIOUS
<1>2. HandleOK(g, H) /\ ShapeOK(g) /\ Continues(g, C) /\ HandleOK(h, H) /\ ShapeOK(h) /\ Continues(h, C)
  BY <1>1
<1>3. ASSUME NEW u \in HandleUsers(g), NEW v \in HandleUsers(h), NEW x \in Int, NEW y \in Int,
             IsSent(g, u, x), IsSent(h, v, y), Sends(g, u, x) = Sends(h, v, y)
      PROVE  u = v /\ x = y
  <2>1. u \in User /\ v \in User
    BY <1>2, SentNumbers
  <2>2. PICK a \in Nat : a = ChunkNo(StartPage(g, u))
    BY <1>2, SentNumbers
  <2>3. PICK b \in Nat : b = ChunkNo(StartPage(h, v))
    BY <1>2, SentNumbers
  <2>4. \/ x - a \in DOMAIN g.fresh[u] /\ Sends(g, u, x) = g.fresh[u][x - a]
        \/ x \in DOMAIN C[u] /\ Sends(g, u, x) = C[u][x]
    BY <1>2, <1>3, <2>2, SentKinds
  <2>5. \/ y - b \in DOMAIN h.fresh[v] /\ Sends(h, v, y) = h.fresh[v][y - b]
        \/ y \in DOMAIN C[v] /\ Sends(h, v, y) = C[v][y]
    BY <1>2, <1>3, <2>3, SentKinds
  <2>6. CASE /\ x - a \in DOMAIN g.fresh[u] /\ Sends(g, u, x) = g.fresh[u][x - a]
             /\ y - b \in DOMAIN h.fresh[v] /\ Sends(h, v, y) = h.fresh[v][y - b]
    <3>1. PICK m, n : m = x - a /\ n = y - b
      OBVIOUS
    <3>2. m \in DOMAIN F[j].fresh[u] /\ n \in DOMAIN F[k].fresh[v] /\ F[j].fresh[u][m] = F[k].fresh[v][n]
      BY <1>1, <1>3, <2>6, <3>1
    <3>3. j = k /\ u = v /\ m = n
      BY <2>1, <3>2 DEF Distinct
    <3>4. a = b
      BY <1>1, <2>2, <2>3, <3>3
    <3>5. x - a = y - b
      BY <3>1, <3>3
    <3>6. x = y
      BY <3>4, <3>5
    <3> QED BY <3>3, <3>6
  <2>7. CASE x \in DOMAIN C[u] /\ Sends(g, u, x) = C[u][x]
    BY <1>1, <1>3, <2>1, <2>5, <2>7 DEF Distinct
  <2>8. CASE y \in DOMAIN C[v] /\ Sends(h, v, y) = C[v][y]
    BY <1>1, <1>3, <2>1, <2>4, <2>8 DEF Distinct
  <2> QED BY <2>4, <2>5, <2>6, <2>7, <2>8
<1>4. ASSUME NEW u \in HandleUsers(g), NEW v \in User, NEW x \in Int, NEW y \in DOMAIN C[v],
             IsSent(g, u, x), Sends(g, u, x) = C[v][y]
      PROVE  u = v /\ x = y
  <2>1. u \in User
    BY <1>2, SentNumbers
  <2>2. PICK a \in Nat : a = ChunkNo(StartPage(g, u))
    BY <1>2, SentNumbers
  <2>3. \/ x - a \in DOMAIN g.fresh[u] /\ Sends(g, u, x) = g.fresh[u][x - a]
        \/ x \in DOMAIN C[u] /\ Sends(g, u, x) = C[u][x]
    BY <1>2, <1>4, <2>2, SentKinds
  <2> QED BY <1>1, <1>4, <2>1, <2>3 DEF Distinct
<1>5. Apart(g, h) /\ InPlace(g, C)
  BY <1>3, <1>4 DEF Apart, InPlace
<1> QED BY <1>1, <1>5
-----------------------------------------------------------------------------
\* Two positions with one chunk are one position.
LEMMA OneSpot ==
  ASSUME NEW E, NEW L, Partition(E, L), NEW a \in DOMAIN L, NEW b \in DOMAIN L, NEW u \in User, NEW v \in User,
         NEW x \in 1..Len(L[a][u]), NEW y \in 1..Len(L[b][v]), L[a][u][x] = L[b][v][y]
  PROVE  a = b /\ u = v /\ x = y
<1>1. <<a, u, x>> \in ListPlaces(L) /\ <<b, v, y>> \in ListPlaces(L)
  BY PlaceIs
<1>2. ChunkAt(L, <<a, u, x>>) = ChunkAt(L, <<b, v, y>>)
  BY PlaceHolds
<1>3. <<a, u, x>> = <<b, v, y>>
  BY <1>1, <1>2 DEF Partition
<1> QED BY <1>3

\* The partition of the buffer keeps the chunks of the host and of the offloads apart.
LEMMA ChunksDistinct ==
  ASSUME CacheInv, ChunkTypes, FlightInv, ChunkPartition
  PROVE  Distinct(InFlight, hostChunks)
<1>1. /\ Len(remain) \in Nat /\ Len(ongoing) \in Nat /\ polled \in 1..(Len(ongoing) + 1)
      /\ Len(InFlight) = Len(remain) + Len(ongoing) + 1 - polled
      /\ \A i \in 1..(Len(remain) + Len(ongoing) + 1 - polled) :
            InFlight[i] = FlightAt(remain, ongoing, polled, i)
  BY FlightElements DEF FlightShape
<1> DEFINE L == HeldLists(hostChunks, ongoing, polled, remain)
           Key(k) == IF k <= Len(remain) THEN -k ELSE polled + k - Len(remain) - 1
<1>2. Holds(L, hostChunks, ongoing, polled, remain) /\ Partition(emptyChunks, L)
  <2>1. PICK X : ongoing \in Seq(X) /\ remain \in Seq(X)
    BY TaskLists
  <2>2. polled \in Nat \ {0}
    BY <1>1
  <2> QED BY <2>1, <2>2, HeldIs DEF ChunkPartition
<1> HIDE DEF L
<1>3. ASSUME NEW k \in 1..Len(InFlight)
      PROVE  Key(k) \in DOMAIN L /\ Key(k) # 0 /\ L[Key(k)] = InFlight[k].fresh
  <2>1. InFlight[k] = FlightAt(remain, ongoing, polled, k) /\ k \in Int /\ k >= 1
        /\ k <= Len(remain) + Len(ongoing) + 1 - polled
    BY <1>1
  <2>2. CASE k <= Len(remain)
    <3>1. k \in 1..Len(remain) /\ Key(k) = -k /\ InFlight[k] = remain[k] /\ -k # 0
      BY <1>1, <2>1, <2>2 DEF FlightAt
    <3> HIDE DEF Key
    <3> QED BY <1>2, <3>1 DEF Holds
  <2>3. CASE ~(k <= Len(remain))
    <3>0. polled \in Int /\ Len(remain) \in Int /\ k \in Int
      BY <1>1, <2>1
    <3>1. PICK m : m = polled + k - Len(remain) - 1
      OBVIOUS
    <3>2. m \in 1..Len(ongoing) /\ m >= polled /\ m # 0
      BY <1>1, <2>1, <2>3, <3>0, <3>1
    <3>3. Key(k) = m /\ InFlight[k] = ongoing[m]
      BY <2>1, <2>3, <3>1 DEF FlightAt
    <3> HIDE DEF Key
    <3> QED BY <1>2, <3>2, <3>3 DEF Holds
  <2> QED BY <2>2, <2>3
<1>4. ASSUME NEW j \in 1..Len(InFlight), NEW k \in 1..Len(InFlight), Key(j) = Key(k) PROVE j = k
  <2>1. j \in Int /\ k \in Int /\ j >= 1 /\ k >= 1
    BY <1>1
  <2> QED BY <1>1, <1>4, <2>1
<1> HIDE DEF Key
<1>5. 0 \in DOMAIN L /\ L[0] = hostChunks
  BY <1>2 DEF Holds
<1>6. \A u \in User : DOMAIN hostChunks[u] = 1..Len(hostChunks[u])
  BY DEF ChunkTypes
<1>7. ASSUME NEW k \in 1..Len(InFlight), NEW u \in User
      PROVE  DOMAIN InFlight[k].fresh[u] = 1..Len(InFlight[k].fresh[u])
  <2>1. InFlight[k].fresh[u] \in Seq(Chunk)
    BY FlightHandles DEF HandleOK
  <2> QED BY <2>1
<1>8. ASSUME NEW a \in DOMAIN L, NEW b \in DOMAIN L, NEW u \in User, NEW v \in User,
             NEW x \in 1..Len(L[a][u]), NEW y \in 1..Len(L[b][v]), L[a][u][x] = L[b][v][y]
      PROVE  a = b /\ u = v /\ x = y
  BY <1>2, <1>8, OneSpot
<1>9. ASSUME NEW j \in 1..Len(InFlight), NEW k \in 1..Len(InFlight), NEW u \in User, NEW v \in User,
             NEW x \in DOMAIN InFlight[j].fresh[u], NEW y \in DOMAIN InFlight[k].fresh[v],
             InFlight[j].fresh[u][x] = InFlight[k].fresh[v][y]
      PROVE  j = k /\ u = v /\ x = y
  <2>1. PICK a, b : a = Key(j) /\ b = Key(k)
    OBVIOUS
  <2>2. a \in DOMAIN L /\ b \in DOMAIN L /\ L[a] = InFlight[j].fresh /\ L[b] = InFlight[k].fresh
    BY <1>3, <2>1
  <2>3. x \in 1..Len(L[a][u]) /\ y \in 1..Len(L[b][v]) /\ L[a][u][x] = L[b][v][y]
    BY <1>7, <1>9, <2>2
  <2>4. a = b /\ u = v /\ x = y
    BY <1>8, <2>2, <2>3
  <2> QED BY <1>4, <2>1, <2>4
<1>10. ASSUME NEW j \in 1..Len(InFlight), NEW u \in User, NEW v \in User,
             NEW x \in DOMAIN InFlight[j].fresh[u], NEW y \in DOMAIN hostChunks[v],
             InFlight[j].fresh[u][x] = hostChunks[v][y]
      PROVE  FALSE
  <2>1. PICK a : a = Key(j)
    OBVIOUS
  <2>2. a \in DOMAIN L /\ L[a] = InFlight[j].fresh /\ a # 0
    BY <1>3, <2>1
  <2>3. x \in 1..Len(L[a][u]) /\ y \in 1..Len(L[0][v]) /\ L[a][u][x] = L[0][v][y]
    BY <1>5, <1>6, <1>7, <1>10, <2>2
  <2> QED BY <1>5, <1>8, <2>2, <2>3
<1>11. ASSUME NEW u \in User, NEW v \in User, NEW x \in DOMAIN hostChunks[u], NEW y \in DOMAIN hostChunks[v],
              hostChunks[u][x] = hostChunks[v][y]
       PROVE  u = v /\ x = y
  <2>1. x \in 1..Len(L[0][u]) /\ y \in 1..Len(L[0][v]) /\ L[0][u][x] = L[0][v][y]
    BY <1>5, <1>6, <1>11
  <2> QED BY <1>5, <1>8, <2>1
<1> QED BY <1>9, <1>10, <1>11 DEF Distinct
-----------------------------------------------------------------------------
(***************************************************************************)
(* What a copy to the host writes.                                         *)
(***************************************************************************)
\* Where c is among the chunks of h.
DestOf(h, c) == UNION {{u} \X {k \in 1..Len(h.chunks[u]) : h.chunks[u][k] = c} : u \in User}

\* The copy, slot by slot.
LEMMA CopyIs ==
  ASSUME OffloadCopy, NEW h, h = Head(stream), NEW c \in Chunk, NEW s \in Slots
  PROVE  chunkData'[c][s] = IF DestOf(h, c) = {} THEN chunkData[c][s]
                            ELSE LET d == CHOOSE d \in DestOf(h, c) : TRUE
                                 IN  IF Untouched(h, d[1], d[2], s) THEN chunkData[c][s]
                                     ELSE SlotSource(h, d[1], d[2], s)
BY SMTT(30) DEF OffloadCopy, DestOf

\* The chunks written are those sent, ...
LEMMA DestIsSent ==
  ASSUME NEW h, NEW H, HandleOK(h, H), ShapeOK(h), NEW c, NEW d \in DestOf(h, c)
  PROVE  \E u \in HandleUsers(h) : \E x \in Int :
            IsSent(h, u, x) /\ Sends(h, u, x) = c /\ d = <<u, x + 1 - ChunkNo(StartPage(h, u) + 1)>>
<1>1. PICK u \in User : \E k \in 1..Len(h.chunks[u]) : h.chunks[u][k] = c /\ d = <<u, k>>
  BY DEF DestOf
<1>2. PICK k \in 1..Len(h.chunks[u]) : h.chunks[u][k] = c /\ d = <<u, k>>
  BY <1>1
<1>3. u \in HandleUsers(h)
  <2> SUFFICES ASSUME u \notin HandleUsers(h) PROVE FALSE
    OBVIOUS
  <2>1. Len(h.chunks[u]) = 0
    BY DEF ShapeOK
  <2> QED BY <1>2, <2>1
<1>4. PICK a \in Nat, e \in Nat : a = ChunkNo(StartPage(h, u) + 1) /\ e = ChunkNo(EndPage(h, u))
  BY <1>3, SentNumbers
<1>5. Len(h.chunks[u]) = e + 1 - a
  BY <1>3, <1>4 DEF ShapeOK
<1>6. k \in Int /\ k >= 1 /\ k <= e + 1 - a
  BY <1>5
<1>7. PICK x : x = a + k - 1
  OBVIOUS
<1>8. x \in Int /\ a <= x /\ x <= e /\ x + 1 - a = k
  BY <1>6, <1>7
<1>9. IsSent(h, u, x) /\ Sends(h, u, x) = c /\ d = <<u, x + 1 - ChunkNo(StartPage(h, u) + 1)>>
  BY <1>2, <1>4, <1>8 DEF IsSent, Sends
<1> QED BY <1>3, <1>8, <1>9

\* ... and the other way around.
LEMMA SentIsDest ==
  ASSUME NEW h, NEW H, HandleOK(h, H), ShapeOK(h), NEW u \in HandleUsers(h), NEW x \in Int, IsSent(h, u, x)
  PROVE  DestOf(h, Sends(h, u, x)) # {}
<1>1. PICK a \in Nat, e \in Nat : a = ChunkNo(StartPage(h, u) + 1) /\ e = ChunkNo(EndPage(h, u))
  BY SentNumbers
<1>2. u \in User /\ Len(h.chunks[u]) = e + 1 - a
  BY <1>1, SentNumbers DEF ShapeOK
<1>3. PICK k : k = x + 1 - a
  OBVIOUS
<1>4. k \in 1..Len(h.chunks[u])
  BY <1>1, <1>2, <1>3 DEF IsSent
<1>5. <<u, k>> \in DestOf(h, Sends(h, u, x))
  BY <1>1, <1>2, <1>3, <1>4 DEF DestOf, Sends
<1> QED BY <1>5

\* Which page of its user a slot takes.
LEMMA SlotPage ==
  ASSUME NEW h, NEW H, HandleOK(h, H), ShapeOK(h), NEW u \in HandleUsers(h), NEW x \in Int, IsSent(h, u, x),
         NEW s \in Slots, NEW i \in Int, i = (x - 1) * PagesPerChunk + s + 1,
         NEW k, k = x + 1 - ChunkNo(StartPage(h, u) + 1)
  PROVE  /\ Untouched(h, u, k, s) <=> i <= StartPage(h, u)
         /\ SlotSource(h, u, k, s) = IF i - StartPage(h, u) > Len(h.pages[u]) \/ h.pages[u][i - StartPage(h, u)] = NoPage
                                     THEN Junk ELSE pageData[h.pages[u][i - StartPage(h, u)]]
<1>1. PICK p \in Nat \ {0} : p = PagesPerChunk
  BY ChunkIsPages
<1>2. PICK n \in Nat : n = StartPage(h, u) /\ h.start[u] = n * PageSize
  BY SentNumbers
<1>3. PICK a \in Int : a = ChunkNo(n + 1) - 1
  BY ChunkNoIs
<1>4. PICK t \in 0..(p - 1) : t = SlotNo(n + 1)
  BY <1>1, ChunkNoIs DEF Slots
<1>5. ChunkNo(n + 1) = a + 1 /\ n = a * p + t
  <2>1. n + 1 = a * p + t + 1 /\ ChunkNo(n + 1) \in Int
    BY <1>1, <1>3, <1>4, ChunkNoIs
  <2>2. a * p \in Int
    OBVIOUS
  <2> QED BY <1>3, <2>1, <2>2
<1>6. UsedPages(h.start[u]) = t /\ (Unaligned(h.start[u]) <=> t # 0)
  <2>1. h.start[u] \in Nat /\ h.start[u] % PageSize = 0 /\ n = h.start[u] \div PageSize
    BY <1>2, SentNumbers DEF ShapeOK, HandleOK, StartPage
  <2>2. ASSUME NEW m \in Nat, m % PageSize = 0, n = m \div PageSize
        PROVE  UsedPages(m) = t /\ (Unaligned(m) <=> t # 0)
    BY <1>4, <2>2, StartInChunk
  <2> QED BY <2>1, <2>2
<1>7. k = x - a /\ x >= a + 1
  BY <1>2, <1>5 DEF IsSent
<1>8. PICK y : y = x - a - 1
  OBVIOUS
<1>9. y \in Nat /\ k = y + 1 /\ s \in 0..(p - 1)
  BY <1>1, <1>7, <1>8 DEF Slots
<1>10. i - n = y * p + s + 1 - t
  <2>1. i = (x - 1) * p + s + 1
    BY <1>1
  <2>2. x - 1 = y + a
    BY <1>8
  <2>3. (y + a) * p = y * p + a * p
    BY <1>9
  <2>4. y * p \in Int /\ a * p \in Int
    BY <1>9
  <2> QED BY <1>5, <1>9, <2>1, <2>2, <2>3, <2>4
<1>11. Untouched(h, u, k, s) <=> i <= n
  <2>1. Untouched(h, u, k, s) <=> y = 0 /\ s < t
    BY <1>6, <1>9 DEF Untouched
  <2>2. y = 0 => y * p = 0
    OBVIOUS
  <2>3. y # 0 => y * p >= p
    BY <1>9
  <2>4. y * p \in Int
    BY <1>9
  <2> QED BY <1>9, <1>10, <2>1, <2>2, <2>3, <2>4
<1>12. (k - 1) * p + s + 1 - (IF Unaligned(h.start[u]) THEN UsedPages(h.start[u]) ELSE 0) = i - n
  <2>1. (IF Unaligned(h.start[u]) THEN UsedPages(h.start[u]) ELSE 0) = t
    BY <1>6
  <2>2. k - 1 = y
    BY <1>9
  <2> QED BY <1>10, <2>1, <2>2
<1> QED BY <1>1, <1>2, <1>11, <1>12 DEF SlotSource

\* The pages sent hold what they should.
LEMMA SentHolds ==
  ASSUME CacheInv, KeptOK, GpuHolds, NEW h, NEW H, HandleOK(h, H), ShapeOK(h), NEW u \in HandleUsers(h), Placed(h, u),
         NEW i \in Int, StartPage(h, u) < i, i <= EndPage(h, u)
  PROVE  /\ i - StartPage(h, u) <= Len(h.pages[u]) /\ h.pages[u][i - StartPage(h, u)] # NoPage
         /\ pageData[h.pages[u][i - StartPage(h, u)]] = <<u, i, PageSize>>
<1>1. PICK n \in Nat, m \in Nat : n = StartPage(h, u) /\ m = Len(h.pages[u]) /\ EndPage(h, u) = n + m
  BY SentNumbers DEF EndPage
<1>2. u \in User
  BY SentNumbers
<1>3. PICK j : j = i - n
  OBVIOUS
<1>4. j \in 1..m /\ n + j = i
  BY <1>1, <1>3
<1>5. First(u) < i /\ i * PageSize <= Limit(u) /\ PageOf(u, i) = h.pages[u][j]
  BY <1>1, <1>4 DEF Placed
<1>6. Covers(u, i) /\ Tokens(Limit(u), i) = PageSize
  BY <1>2, <1>5, FullCovers
<1>7. PlaceOf(u, i) \in 1..Len(pageIds[u]) /\ pageData[PageOf(u, i)] = <<u, i, PageSize>>
  BY <1>2, <1>6 DEF GpuHolds
<1>8. PageOf(u, i) \in Page
  <2>1. pageIds[u] \in Seq(Page)
    BY <1>2 DEF CacheInv, Parts, Table, TableType
  <2>2. PlaceOf(u, i) \in DOMAIN pageIds[u]
    BY <1>7, <2>1
  <2> QED BY <2>1, <2>2 DEF PageOf
<1>9. h.pages[u][j] # NoPage
  BY <1>5, <1>8, NoPageAssumption
<1> QED BY <1>1, <1>3, <1>4, <1>5, <1>7, <1>9

\* A slot of a chunk sent: what precedes the offload stays, its pages arrive.
LEMMA CopiedSlot ==
  ASSUME CacheInv, KeptOK, GpuHolds, OffloadCopy, NEW C \in [User -> Seq(Chunk)], NEW H,
         NEW h, h = Head(stream),
         HandleOK(h, H), ShapeOK(h), Continues(h, C), Apart(h, h), \A v \in HandleUsers(h) : Placed(h, v),
         NEW u \in HandleUsers(h), NEW x \in Int, IsSent(h, u, x), NEW s \in Slots,
         NEW i \in Int, i = (x - 1) * PagesPerChunk + s + 1
  PROVE  /\ i <= StartPage(h, u) => chunkData'[Sends(h, u, x)][s] = chunkData[Sends(h, u, x)][s]
         /\ StartPage(h, u) < i /\ i <= EndPage(h, u) => chunkData'[Sends(h, u, x)][s] = <<u, i, PageSize>>
<1>1. PICK c \in Chunk : c = Sends(h, u, x)
  BY SentKinds
<1>2. DestOf(h, c) # {}
  BY <1>1, SentIsDest
<1>3. PICK d \in DestOf(h, c) : d = CHOOSE e \in DestOf(h, c) : TRUE
  BY <1>2
<1>4. PICK v \in HandleUsers(h), y \in Int :
         IsSent(h, v, y) /\ Sends(h, v, y) = c /\ d = <<v, y + 1 - ChunkNo(StartPage(h, v) + 1)>>
  BY DestIsSent
<1>5. v = u /\ y = x
  BY <1>1, <1>4 DEF Apart
<1>6. PICK k : k = x + 1 - ChunkNo(StartPage(h, u) + 1)
  OBVIOUS
<1>7. d[1] = u /\ d[2] = k
  BY <1>4, <1>5, <1>6
<1>8. chunkData'[c][s] = IF Untouched(h, u, k, s) THEN chunkData[c][s] ELSE SlotSource(h, u, k, s)
  BY <1>2, <1>3, <1>7, CopyIs
<1>9. /\ Untouched(h, u, k, s) <=> i <= StartPage(h, u)
      /\ SlotSource(h, u, k, s) = IF i - StartPage(h, u) > Len(h.pages[u]) \/ h.pages[u][i - StartPage(h, u)] = NoPage
                                     THEN Junk ELSE pageData[h.pages[u][i - StartPage(h, u)]]
  BY <1>6, SlotPage
<1>10. PICK n \in Nat, m \in Nat : n = StartPage(h, u) /\ m = Len(h.pages[u])
  BY SentNumbers
<1>11. ASSUME StartPage(h, u) < i, i <= EndPage(h, u) PROVE chunkData'[c][s] = <<u, i, PageSize>>
  <2>1. /\ i - n <= m /\ h.pages[u][i - n] # NoPage
        /\ pageData[h.pages[u][i - n]] = <<u, i, PageSize>>
    BY <1>10, <1>11, SentHolds
  <2>2. ~(i <= n) /\ ~(i - n > m)
    BY <1>10, <1>11, <2>1
  <2> QED BY <1>8, <1>9, <1>10, <2>1, <2>2
<1> QED BY <1>1, <1>8, <1>9, <1>11

\* A slot of any chunk, kept for page i of v: it stays, unless a page of v is put there.
LEMMA CopySpares ==
  ASSUME OffloadCopy, NEW h, h = Head(stream), NEW H, HandleOK(h, H), ShapeOK(h), NEW c \in Chunk, NEW s \in Slots,
         NEW v, NEW y, \A u \in HandleUsers(h) : \A x \in Int : IsSent(h, u, x) /\ Sends(h, u, x) = c => u = v /\ x = y
  PROVE  \/ chunkData'[c][s] = chunkData[c][s]
         \/ v \in HandleUsers(h) /\ y \in Int /\ IsSent(h, v, y) /\ Sends(h, v, y) = c
<1>1. CASE DestOf(h, c) = {}
  BY <1>1, CopyIs
<1>2. CASE DestOf(h, c) # {}
  <2>1. PICK d : d \in DestOf(h, c)
    BY <1>2
  <2>2. PICK u \in HandleUsers(h), x \in Int : IsSent(h, u, x) /\ Sends(h, u, x) = c
    BY <2>1, DestIsSent
  <2> QED BY <2>2
<1> QED BY <1>1, <1>2
-----------------------------------------------------------------------------
(***************************************************************************)
(* What the host holds, and what the copies made for it.  F are the        *)
(* offloads under way, the first n of them copied; L, C and D are the      *)
(* lengths, the chunks of the users and the contents of the chunks.        *)
(***************************************************************************)
\* A user has the chunks its pages need.
HostShape(L, C) == \A u \in User : L[u] % PageSize = 0 /\ Len(C[u]) = ChunkNo(L[u] \div PageSize)

\* Every page of the host is where it should be.
Stores(L, C, D) ==
    \A u \in User : \A i \in Int :
        1 <= i /\ i <= L[u] \div PageSize => D[C[u][ChunkNo(i)]][SlotNo(i)] = <<u, i, PageSize>>

\* Every page of a handle is in the chunks it sends to.
HandleStored(h, D) ==
    \A u \in HandleUsers(h) : \A i \in Int :
        StartPage(h, u) < i /\ i <= EndPage(h, u) => D[Sends(h, u, ChunkNo(i))][SlotNo(i)] = <<u, i, PageSize>>

\* A later offload of a user does not end before an earlier one.
EndsGrow(F) ==
    \A j, k \in 1..Len(F) : j < k =>
        \A u \in HandleUsers(F[j]) \cap HandleUsers(F[k]) : EndPage(F[j], u) <= EndPage(F[k], u)

\* The host does not hold more of a user than an offload still to be copied brings.
Behind(F, n, L) ==
    \A k \in 1..Len(F) : n < k => \A u \in HandleUsers(F[k]) : L[u] \div PageSize <= EndPage(F[k], u)

Storage(F, n, L, C, D) ==
    /\ \A k \in 1..Len(F) : ShapeOK(F[k]) /\ Continues(F[k], C)
    /\ HostShape(L, C) /\ Stores(L, C, D)
    /\ EndsGrow(F) /\ Behind(F, n, L)
    /\ \A k \in 1..Len(F) : k <= n => HandleStored(F[k], D)

\* The copies still to run are those of the later offloads under way, in order.
StreamIs(F, n, q) ==
    /\ n \in Nat /\ IsSeq(q) /\ Len(F) = n + Len(q)
    /\ \A i \in 1..Len(q) : q[i] = F[n + i]

\* The chunk of a page that is sent is sent.
LEMMA SentAt ==
  ASSUME NEW h, NEW H, HandleOK(h, H), ShapeOK(h), NEW u \in HandleUsers(h), NEW i \in Int,
         StartPage(h, u) < i, i <= EndPage(h, u)
  PROVE  ChunkNo(i) \in Int /\ IsSent(h, u, ChunkNo(i))
<1>1. PICK s \in Nat, e \in Nat : s = StartPage(h, u) /\ e = EndPage(h, u)
  BY SentNumbers
<1>2. s + 1 <= i /\ s + 1 \in Int /\ i <= e /\ e \in Int
  BY <1>1
<1>3. ChunkNo(s + 1) <= ChunkNo(i)
  BY <1>2, ChunkNoMonotone
<1>4. ChunkNo(i) <= ChunkNo(e)
  BY <1>2, ChunkNoMonotone
<1>5. ChunkNo(i) \in Int
  BY ChunkNoIs
<1> QED BY <1>1, <1>3, <1>4, <1>5 DEF IsSent

\* The chunk of a page of the host is one of its user's.
LEMMA HostAt ==
  ASSUME NEW L \in [User -> Nat], NEW C \in [User -> Seq(Chunk)], HostShape(L, C), NEW u \in User,
         NEW i \in Int, 1 <= i, i <= L[u] \div PageSize
  PROVE  ChunkNo(i) \in DOMAIN C[u] /\ C[u][ChunkNo(i)] \in Chunk
<1>1. PICK m \in Nat : m = L[u]
  OBVIOUS
<1>2. PICK n \in Nat : n = L[u] \div PageSize
  BY <1>1, WholePages
<1>3. ChunkNo(1) <= ChunkNo(i) /\ ChunkNo(i) \in Int
  BY ChunkNoMonotone, ChunkNoIs
<1>4. ChunkNo(i) <= ChunkNo(n)
  BY <1>2, ChunkNoMonotone
<1>5. ChunkNo(n) \in Int
  BY ChunkNoIs
<1>6. Len(C[u]) = ChunkNo(n) /\ C[u] \in Seq(Chunk)
  BY <1>2 DEF HostShape
<1>7. ChunkNo(i) \in 1..Len(C[u])
  BY <1>3, <1>4, <1>5, <1>6, ChunkNoEnds
<1> QED BY <1>6, <1>7

\* The oldest copy still to run is that of the first offload not copied.
LEMMA StreamHead ==
  ASSUME NEW F, NEW n, NEW q, StreamIs(F, n, q), q # <<>>
  PROVE  n \in Nat /\ n + 1 \in 1..Len(F) /\ Head(q) = F[n + 1] /\ StreamIs(F, n + 1, Tail(q))
<1>1. PICK X : q \in Seq(X)
  BY DEF StreamIs, IsSeq
<1>2. Len(q) \in Nat /\ Len(q) # 0
  BY <1>1, EmptySeq
<1>3. /\ Head(q) = q[1] /\ Tail(q) \in Seq(X) /\ Len(Tail(q)) = Len(q) - 1
      /\ \A i \in 1..Len(Tail(q)) : Tail(q)[i] = q[i + 1]
  BY <1>1, <1>2, HeadTailProperties
<1>4. n \in Nat /\ Len(F) = n + Len(q) /\ \A i \in 1..Len(q) : q[i] = F[n + i]
  BY DEF StreamIs
<1>5. ASSUME NEW i \in 1..Len(Tail(q)) PROVE Tail(q)[i] = F[(n + 1) + i]
  <2>1. i \in Int /\ i + 1 \in 1..Len(q)
    BY <1>2, <1>3
  <2>2. n + (i + 1) = (n + 1) + i
    BY <1>4, <2>1
  <2> QED BY <1>3, <1>4, <2>1, <2>2
<1>6. Len(F) = (n + 1) + Len(Tail(q)) /\ n + 1 \in Nat
  BY <1>2, <1>3, <1>4
<1>7. StreamIs(F, n + 1, Tail(q))
  BY <1>3, <1>5, <1>6 DEF StreamIs, IsSeq
<1>8. n + 1 \in 1..Len(F) /\ 1 \in 1..Len(q)
  BY <1>2, <1>4
<1> QED BY <1>3, <1>4, <1>7, <1>8

\* The copy of the oldest offload still to run brings its pages, and disturbs no other.
LEMMA CopyStores ==
  ASSUME CacheInv, ChunkTypes, FlightInv, ChunkPartition, KeptOK, GpuHolds, HandlePlaced, OffloadCopy,
         NEW F, F = InFlight, NEW n, StreamIs(F, n, stream),
         Storage(F, n, hostLen, hostChunks, chunkData)
  PROVE  StreamIs(F, n + 1, stream') /\ Storage(F, n + 1, hostLen, hostChunks, chunkData')
<1>1. /\ n \in Nat /\ n + 1 \in 1..Len(F) /\ Head(stream) = F[n + 1] /\ StreamIs(F, n + 1, Tail(stream))
      /\ stream' = Tail(stream)
  <2>1. stream # <<>> /\ stream' = Tail(stream)
    BY DEF OffloadCopy
  <2> QED BY <2>1, StreamHead
<1>2. \A k \in 1..Len(F) : ShapeOK(F[k]) /\ Continues(F[k], hostChunks) /\ HandleOK(F[k], history)
  BY FlightHandles DEF Storage
<1>3. hostChunks \in [User -> Seq(Chunk)] /\ hostLen \in [User -> Nat]
  BY DEF ChunkTypes, CacheInv, HostOK
<1>4. \A j, k \in 1..Len(F) : Apart(F[j], F[k]) /\ InPlace(F[j], hostChunks)
  BY <1>2, <1>3, ChunksDistinct, HandlesApart
<1>5. PICK h : h = F[n + 1]
  OBVIOUS
<1>6. /\ h = Head(stream) /\ HandleOK(h, history) /\ ShapeOK(h) /\ Continues(h, hostChunks)
      /\ Apart(h, h) /\ InPlace(h, hostChunks) /\ \A u \in HandleUsers(h) : Placed(h, u)
  BY <1>1, <1>2, <1>4, <1>5 DEF HandlePlaced
<1>7. ASSUME NEW u \in HandleUsers(h), NEW i \in Int, IsSent(h, u, ChunkNo(i)), NEW c, c = Sends(h, u, ChunkNo(i))
      PROVE  /\ i <= StartPage(h, u) => chunkData'[c][SlotNo(i)] = chunkData[c][SlotNo(i)]
             /\ StartPage(h, u) < i /\ i <= EndPage(h, u) => chunkData'[c][SlotNo(i)] = <<u, i, PageSize>>
  <2>1. PICK C, H : C = hostChunks /\ H = history
    OBVIOUS
  <2>2. PICK x \in Int, s \in Slots : x = ChunkNo(i) /\ s = SlotNo(i) /\ i = (x - 1) * PagesPerChunk + s + 1
    BY ChunkNoIs
  <2>3. /\ C \in [User -> Seq(Chunk)] /\ h = Head(stream)
        /\ HandleOK(h, H) /\ ShapeOK(h) /\ Continues(h, C) /\ Apart(h, h) /\ \A v \in HandleUsers(h) : Placed(h, v)
    BY <1>3, <1>6, <2>1
  <2>4. IsSent(h, u, x) /\ c = Sends(h, u, x)
    BY <1>7, <2>2
  <2>5. /\ i <= StartPage(h, u) => chunkData'[Sends(h, u, x)][s] = chunkData[Sends(h, u, x)][s]
        /\ StartPage(h, u) < i /\ i <= EndPage(h, u) => chunkData'[Sends(h, u, x)][s] = <<u, i, PageSize>>
    BY <2>2, <2>3, <2>4, CopiedSlot
  <2> QED BY <2>2, <2>4, <2>5
<1>8. ASSUME NEW v, NEW i \in Int, NEW c \in Chunk, chunkData[c][SlotNo(i)] = <<v, i, PageSize>>,
             \A u \in HandleUsers(h) : \A x \in Int : IsSent(h, u, x) /\ Sends(h, u, x) = c => u = v /\ x = ChunkNo(i),
             v \in HandleUsers(h) => i <= EndPage(h, v)
      PROVE  chunkData'[c][SlotNo(i)] = <<v, i, PageSize>>
  <2>1. PICK x \in Int, s \in Slots : x = ChunkNo(i) /\ s = SlotNo(i)
    BY ChunkNoIs
  <2>2. \/ chunkData'[c][s] = chunkData[c][s]
        \/ v \in HandleUsers(h) /\ IsSent(h, v, x) /\ Sends(h, v, x) = c
    BY <1>6, <1>8, <2>1, CopySpares
  <2>3. ASSUME v \in HandleUsers(h), IsSent(h, v, x), Sends(h, v, x) = c
        PROVE  chunkData'[c][s] = <<v, i, PageSize>>
    <3>1. StartPage(h, v) \in Nat
      BY <1>6, <2>3, SentNumbers
    <3>2. i <= StartPage(h, v) \/ (StartPage(h, v) < i /\ i <= EndPage(h, v))
      BY <1>8, <2>3, <3>1
    <3> QED BY <1>7, <1>8, <2>1, <2>3, <3>2
  <2> QED BY <1>8, <2>1, <2>2, <2>3
<1>9. Stores(hostLen, hostChunks, chunkData')
  <2> SUFFICES ASSUME NEW v \in User, NEW i \in Int, 1 <= i, i <= hostLen[v] \div PageSize
               PROVE  chunkData'[hostChunks[v][ChunkNo(i)]][SlotNo(i)] = <<v, i, PageSize>>
    BY DEF Stores
  <2>1. HostShape(hostLen, hostChunks)
    BY DEF Storage
  <2>2. ChunkNo(i) \in DOMAIN hostChunks[v] /\ hostChunks[v][ChunkNo(i)] \in Chunk
    BY <1>3, <2>1, HostAt
  <2>3. PICK c \in Chunk : c = hostChunks[v][ChunkNo(i)]
    BY <2>2
  <2>4. chunkData[c][SlotNo(i)] = <<v, i, PageSize>>
    BY <2>3 DEF Storage, Stores
  <2>5. \A u \in HandleUsers(h) : \A x \in Int : IsSent(h, u, x) /\ Sends(h, u, x) = c => u = v /\ x = ChunkNo(i)
    BY <1>6, <2>2, <2>3 DEF InPlace
  <2>6. ASSUME v \in HandleUsers(h) PROVE i <= EndPage(h, v)
    <3>1. hostLen[v] \div PageSize <= EndPage(h, v)
      BY <1>1, <1>5, <2>6 DEF Storage, Behind
    <3>2. EndPage(h, v) \in Nat
      BY <1>6, <2>6, SentNumbers
    <3>3. hostLen[v] \div PageSize \in Nat
      <4>1. PICK m \in Nat : m = hostLen[v]
        BY <1>3
      <4> QED BY <4>1, WholePages
    <3> QED BY <3>1, <3>2, <3>3
  <2> QED BY <1>8, <2>3, <2>4, <2>5, <2>6
<1>10. ASSUME NEW k \in 1..Len(F), k <= n PROVE HandleStored(F[k], chunkData')
  <2>1. PICK g : g = F[k]
    OBVIOUS
  <2>2. HandleOK(g, history) /\ ShapeOK(g) /\ Continues(g, hostChunks) /\ Apart(h, g) /\ HandleStored(g, chunkData)
    BY <1>1, <1>2, <1>4, <1>5, <1>10, <2>1 DEF Storage
  <2>3. ASSUME NEW v \in HandleUsers(g), NEW i \in Int, StartPage(g, v) < i, i <= EndPage(g, v)
        PROVE  chunkData'[Sends(g, v, ChunkNo(i))][SlotNo(i)] = <<v, i, PageSize>>
    <3>1. ChunkNo(i) \in Int /\ IsSent(g, v, ChunkNo(i))
      BY <2>2, <2>3, SentAt
    <3>2. PICK c \in Chunk : c = Sends(g, v, ChunkNo(i))
      BY <1>3, <2>2, <3>1, SentKinds
    <3>3. chunkData[c][SlotNo(i)] = <<v, i, PageSize>>
      BY <2>2, <2>3, <3>2 DEF HandleStored
    <3>4. \A u \in HandleUsers(h) : \A x \in Int : IsSent(h, u, x) /\ Sends(h, u, x) = c => u = v /\ x = ChunkNo(i)
      BY <2>2, <3>1, <3>2 DEF Apart
    <3>5. ASSUME v \in HandleUsers(h) PROVE i <= EndPage(h, v)
      <4>1. k < n + 1
        BY <1>1, <1>10
      <4>2. EndPage(g, v) <= EndPage(h, v)
        BY <1>1, <1>5, <2>1, <3>5, <4>1 DEF Storage, EndsGrow
      <4>3. EndPage(g, v) \in Nat /\ EndPage(h, v) \in Nat
        BY <1>6, <2>2, <3>5, SentNumbers
      <4> QED BY <2>3, <4>2, <4>3
    <3> QED BY <1>8, <3>2, <3>3, <3>4, <3>5
  <2> QED BY <2>1, <2>3 DEF HandleStored
<1>11. HandleStored(h, chunkData')
  <2>1. ASSUME NEW u \in HandleUsers(h), NEW i \in Int, StartPage(h, u) < i, i <= EndPage(h, u)
        PROVE  chunkData'[Sends(h, u, ChunkNo(i))][SlotNo(i)] = <<u, i, PageSize>>
    <3>1. IsSent(h, u, ChunkNo(i))
      BY <1>6, <2>1, SentAt
    <3> QED BY <1>7, <2>1, <3>1
  <2> QED BY <2>1 DEF HandleStored
<1>12. ASSUME NEW k \in 1..Len(F), k <= n + 1 PROVE HandleStored(F[k], chunkData')
  <2>1. k \in Int
    OBVIOUS
  <2>2. k <= n \/ k = n + 1
    BY <1>1, <1>12, <2>1
  <2> QED BY <1>5, <1>10, <1>11, <2>2
<1>13. Behind(F, n + 1, hostLen)
  <2>1. ASSUME NEW k \in 1..Len(F), n + 1 < k PROVE n < k
    BY <1>1, <2>1
  <2> QED BY <2>1 DEF Storage, Behind
<1> QED BY <1>1, <1>9, <1>12, <1>13 DEF Storage
-----------------------------------------------------------------------------
(***************************************************************************)
(* Settling an offload that was copied.                                    *)
(***************************************************************************)
\* The boundary after a number of pages.
LEMMA PageMultiple ==
  ASSUME NEW e \in Nat
  PROVE  e * PageSize \in Nat /\ (e * PageSize) % PageSize = 0 /\ (e * PageSize) \div PageSize = e
<1>1. e * PageSize \in Nat /\ PageSize \in Nat
  BY PageSizeAssumption
<1>2. (0 + e * PageSize) % PageSize = 0
  <2>1. 0 % PageSize = 0
    BY PageSizeAssumption
  <2> QED BY <2>1, PageBoundary
<1>3. (e * PageSize) \div PageSize = e
  <2>1. e * PageSize < e * PageSize + PageSize
    BY <1>1, PageSizeAssumption
  <2> QED BY <1>1, <2>1, DivUnique
<1>4. 0 + e * PageSize = e * PageSize
  BY <1>1
<1> QED BY <1>1, <1>2, <1>3, <1>4

\* Where what stays under way was before.
Was(z, k) == IF k < z THEN k ELSE k + 1

\* The copies still to run are the same ones.
LEMMA StreamLeaves ==
  ASSUME NEW F, NEW G, NEW n, NEW q, NEW z, StreamIs(F, n, q), LeavesOut(F, z, G), z <= n
  PROVE  StreamIs(G, n - 1, q)
<1>1. PICK X : q \in Seq(X)
  BY DEF StreamIs, IsSeq
<1>2. n \in Nat /\ Len(q) \in Nat /\ Len(F) = n + Len(q) /\ z \in 1..Len(F) /\ Len(G) = Len(F) - 1
  BY <1>1 DEF StreamIs, LeavesOut
<1>3. ASSUME NEW i \in 1..Len(q) PROVE q[i] = G[(n - 1) + i]
  <2>1. PICK k : k = (n - 1) + i
    OBVIOUS
  <2>2. k \in 1..Len(G) /\ ~(k < z) /\ k + 1 = n + i
    BY <1>2, <2>1
  <2>3. G[k] = F[k + 1]
    BY <2>2 DEF LeavesOut
  <2>4. q[i] = F[n + i]
    BY DEF StreamIs
  <2> QED BY <2>1, <2>2, <2>3, <2>4
<1>4. n - 1 \in Nat /\ Len(G) = (n - 1) + Len(q)
  BY <1>2
<1> QED BY <1>1, <1>3, <1>4 DEF StreamIs, IsSeq

\* Chunks added to a user's list are not those a handle continues.
LEMMA ContinuesOn ==
  ASSUME NEW h, NEW C, NEW C1, Continues(h, C),
         \A u \in HandleUsers(h) : \A x \in DOMAIN C[u] : x \in DOMAIN C1[u] /\ C1[u][x] = C[u][x]
  PROVE  Continues(h, C1)
BY DEF Continues

\* The effect of finish_offload on the lengths and the chunks.
Finished(h, L, C, L1, C1) ==
    LET done == {u \in HandleUsers(h) : h.start[u] = L[u]}
    IN  /\ L1 = [u \in User |-> IF u \in done THEN OffloadEnd(h, u) ELSE L[u]]
        /\ C1 = [u \in User |-> IF u \in done THEN C[u] \o h.fresh[u] ELSE C[u]]

\* The chunks of u before and after, when h extended it.
ExtendedBy(h, C, L1, C1, u) ==
    /\ L1[u] = EndPage(h, u) * PageSize
    /\ Len(C[u]) = ChunkNo(StartPage(h, u)) /\ Len(C1[u]) = ChunkNo(EndPage(h, u))
    /\ \A x \in DOMAIN C[u] : x \in DOMAIN C1[u] /\ C1[u][x] = C[u][x]
    /\ \A y \in DOMAIN h.fresh[u] : C1[u][ChunkNo(StartPage(h, u)) + y] = h.fresh[u][y]

\* One user: what it had stays, and the chunks of the offload follow.
LEMMA FinishedChunks ==
  ASSUME NEW h, NEW H, HandleOK(h, H), ShapeOK(h), NEW L \in [User -> Nat], NEW C \in [User -> Seq(Chunk)],
         HostShape(L, C), NEW L1, NEW C1, Finished(h, L, C, L1, C1)
  PROVE  \A u \in HandleUsers(h) : h.start[u] = L[u] => ExtendedBy(h, C, L1, C1, u)
<1> SUFFICES ASSUME NEW u \in HandleUsers(h), h.start[u] = L[u] PROVE ExtendedBy(h, C, L1, C1, u)
  OBVIOUS
<1>1. PICK s \in Nat, e \in Nat, a \in Nat, b \in Nat :
         s = StartPage(h, u) /\ e = EndPage(h, u) /\ a = ChunkNo(s) /\ b = ChunkNo(e)
  BY SentNumbers
<1>2. u \in User /\ h.fresh[u] \in Seq(Chunk) /\ Len(h.fresh[u]) = b - a /\ OffloadEnd(h, u) = e * PageSize
  BY <1>1, SentNumbers DEF ShapeOK
<1>3. Len(C[u]) = a
  BY <1>1, <1>2 DEF HostShape, StartPage
<1>4. L1[u] = e * PageSize /\ C1[u] = C[u] \o h.fresh[u]
  BY <1>2 DEF Finished
<1>5. PICK c, f : c = C[u] /\ f = h.fresh[u]
  OBVIOUS
<1>6. c \in Seq(Chunk) /\ f \in Seq(Chunk) /\ Len(c) = a /\ Len(f) = b - a
  BY <1>2, <1>3, <1>5
<1>7. /\ c \o f \in Seq(Chunk) /\ Len(c \o f) = Len(c) + Len(f)
      /\ \A i \in 1..(Len(c) + Len(f)) : (c \o f)[i] = IF i <= Len(c) THEN c[i] ELSE f[i - Len(c)]
  BY <1>6, ConcatProperties
<1>8. PICK d : d = c \o f
  OBVIOUS
<1>9. d \in Seq(Chunk) /\ Len(d) = b
  BY <1>6, <1>7, <1>8
<1>10. ASSUME NEW x \in DOMAIN c PROVE x \in DOMAIN d /\ d[x] = c[x]
  <2>1. x \in Int /\ x >= 1 /\ x <= a
    BY <1>6
  <2> QED BY <1>6, <1>7, <1>8, <1>9, <2>1
<1>11. ASSUME NEW y \in DOMAIN f PROVE d[a + y] = f[y]
  <2>1. y \in Int /\ y >= 1 /\ y <= b - a
    BY <1>6
  <2>2. PICK i : i = a + y
    OBVIOUS
  <2>3. i \in 1..(Len(c) + Len(f)) /\ ~(i <= Len(c)) /\ i - Len(c) = y
    BY <1>6, <2>1, <2>2
  <2> QED BY <1>7, <1>8, <2>2, <2>3
<1> QED BY <1>1, <1>3, <1>4, <1>5, <1>8, <1>9, <1>10, <1>11 DEF ExtendedBy

\* Every page up to the end of h is in the chunks of u.
BroughtBy(h, C1, D, u) ==
    \A i \in Int : 1 <= i /\ i <= EndPage(h, u) => D[C1[u][ChunkNo(i)]][SlotNo(i)] = <<u, i, PageSize>>

\* The pages a finished offload brought are in the chunks it added.
LEMMA FinishedStores ==
  ASSUME NEW h, NEW H, HandleOK(h, H), ShapeOK(h), NEW L \in [User -> Nat], NEW C \in [User -> Seq(Chunk)],
         HostShape(L, C), Continues(h, C), NEW L1, NEW C1, Finished(h, L, C, L1, C1), NEW D, Stores(L, C, D),
         HandleStored(h, D)
  PROVE  \A u \in HandleUsers(h) : h.start[u] = L[u] => BroughtBy(h, C1, D, u)
<1> SUFFICES ASSUME NEW u \in HandleUsers(h), h.start[u] = L[u], NEW i \in Int, 1 <= i, i <= EndPage(h, u)
             PROVE  D[C1[u][ChunkNo(i)]][SlotNo(i)] = <<u, i, PageSize>>
  BY DEF BroughtBy
<1>1. PICK s \in Nat, e \in Nat, a \in Nat :
         s = StartPage(h, u) /\ e = EndPage(h, u) /\ a = ChunkNo(s)
  BY SentNumbers
<1>2. u \in User /\ L[u] \div PageSize = s
  BY <1>1, SentNumbers DEF StartPage
<1>3. PICK x \in Int : x = ChunkNo(i)
  BY ChunkNoIs
<1>0. ExtendedBy(h, C, L1, C1, u)
  <2>1. \A v \in HandleUsers(h) : h.start[v] = L[v] => ExtendedBy(h, C, L1, C1, v)
    BY FinishedChunks
  <2> QED BY <2>1
<1>4. \A y \in DOMAIN C[u] : C1[u][y] = C[u][y]
  BY <1>0 DEF ExtendedBy
<1>5. CASE i <= s
  <2>1. x \in DOMAIN C[u]
    BY <1>2, <1>3, <1>5, HostAt
  <2>2. D[C[u][ChunkNo(i)]][SlotNo(i)] = <<u, i, PageSize>>
    BY <1>2, <1>5 DEF Stores
  <2> QED BY <1>3, <1>4, <2>1, <2>2
<1>6. CASE ~(i <= s)
  <2>1. D[Sends(h, u, x)][SlotNo(i)] = <<u, i, PageSize>>
    <3>1. StartPage(h, u) < i
      BY <1>1, <1>6
    <3>2. D[Sends(h, u, ChunkNo(i))][SlotNo(i)] = <<u, i, PageSize>>
      BY <3>1, Zenon DEF HandleStored
    <3> QED BY <1>3, <3>2, Zenon
  <2>2. IsSent(h, u, x)
    BY <1>1, <1>3, <1>6, SentAt
  <2>3. Sends(h, u, x) = C1[u][x]
    <3>1. CASE x <= a
      <4>1. x \in DOMAIN C[u] /\ Sends(h, u, x) = C[u][x]
        BY <1>1, <2>2, <3>1 DEF Continues
      <4> QED BY <1>4, <4>1
    <3>2. CASE ~(x <= a)
      <4>1. PICK y : y = x - a
        OBVIOUS
      <4>2. Len(h.fresh[u]) = ChunkNo(e) - a /\ DOMAIN h.fresh[u] = 1..Len(h.fresh[u]) /\ ChunkNo(e) \in Nat
        BY <1>1, SentNumbers DEF ShapeOK
      <4>3. x <= ChunkNo(e)
        BY <1>1, <2>2 DEF IsSent
      <4>4. y \in DOMAIN h.fresh[u] /\ a + y = x
        <5>1. a \in Int /\ x \in Int
          OBVIOUS
        <5> QED BY <1>1, <3>2, <4>1, <4>2, <4>3, <5>1, SMTT(30)
      <4>5. Sends(h, u, x) = h.fresh[u][y]
        BY <1>1, <2>2, <3>2, <4>1 DEF ShapeOK
      <4>6. C1[u][a + y] = h.fresh[u][y]
        BY <1>0, <1>1, <4>4 DEF ExtendedBy
      <4> QED BY <4>4, <4>5, <4>6
    <3> QED BY <3>1, <3>2
  <2> QED BY <1>3, <2>1, <2>3
<1> QED BY <1>5, <1>6

\* The host after finish_offload of a copied offload.
LEMMA FinishKeeps ==
  ASSUME NEW F, NEW G, NEW n, NEW q, NEW z, StreamIs(F, n, q), LeavesOut(F, z, G), z <= n,
         NEW h, h = F[z], NEW H, HandleOK(h, H), NEW L \in [User -> Nat], NEW C \in [User -> Seq(Chunk)],
         NEW D, Storage(F, n, L, C, D), \A k \in 1..Len(F) : HandleOK(F[k], H),
         NEW L1, NEW C1, Finished(h, L, C, L1, C1)
  PROVE  StreamIs(G, n - 1, q) /\ Storage(G, n - 1, L1, C1, D)
<1>0. StreamIs(G, n - 1, q)
  BY StreamLeaves
<1>1. n \in Nat /\ Len(F) \in Nat /\ z \in 1..Len(F) /\ Len(G) = Len(F) - 1
  <2>1. PICK X : q \in Seq(X)
    BY DEF StreamIs, IsSeq
  <2> QED BY <2>1 DEF StreamIs, LeavesOut
<1>2. /\ \A k \in 1..Len(F) : ShapeOK(F[k]) /\ Continues(F[k], C) /\ HandleOK(F[k], H)
      /\ HostShape(L, C) /\ Stores(L, C, D) /\ EndsGrow(F) /\ Behind(F, n, L)
      /\ \A k \in 1..Len(F) : k <= n => HandleStored(F[k], D)
  BY DEF Storage
<1>3. ShapeOK(h) /\ Continues(h, C) /\ HandleStored(h, D)
  BY <1>1, <1>2
<1>20. \A u \in HandleUsers(h) : h.start[u] = L[u] => ExtendedBy(h, C, L1, C1, u)
  BY <1>2, <1>3, FinishedChunks
<1>21. ASSUME NEW u \in HandleUsers(h), h.start[u] = L[u], NEW i \in Int, 1 <= i, i <= EndPage(h, u)
       PROVE  D[C1[u][ChunkNo(i)]][SlotNo(i)] = <<u, i, PageSize>>
  <2>1. \A v \in HandleUsers(h) : h.start[v] = L[v] => BroughtBy(h, C1, D, v)
    BY <1>2, <1>3, FinishedStores
  <2> QED BY <1>21, <2>1 DEF BroughtBy
<1>4. ASSUME NEW u \in User
      PROVE  \/ u \in HandleUsers(h) /\ h.start[u] = L[u]
             \/ L1[u] = L[u] /\ C1[u] = C[u]
  BY DEF Finished
<1>5. ASSUME NEW k \in 1..Len(G)
      PROVE  \E j \in 1..Len(F) : /\ G[k] = F[j] /\ (k <= n - 1 => j <= n)
                                  /\ (n - 1 < k => n < j /\ z < j) /\ j = Was(z, k)
  <2>1. G[k] = IF k < z THEN F[k] ELSE F[k + 1]
    BY DEF LeavesOut
  <2>2. k \in Int /\ k \in 1..Len(F) /\ k + 1 \in 1..Len(F)
    BY <1>1
  <2>3. CASE k < z
    <3>1. G[k] = F[k] /\ ~(n - 1 < k) /\ k <= n
      BY <1>1, <2>1, <2>2, <2>3
    <3> QED BY <2>2, <2>3, <3>1 DEF Was
  <2>4. CASE ~(k < z)
    <3>1. G[k] = F[k + 1] /\ (k <= n - 1 => k + 1 <= n) /\ (n - 1 < k => n < k + 1 /\ z < k + 1)
      BY <1>1, <2>1, <2>2, <2>4
    <3> QED BY <2>2, <2>4, <3>1 DEF Was
  <2> QED BY <2>3, <2>4
<1>6. ASSUME NEW u \in User, NEW x \in DOMAIN C[u] PROVE x \in DOMAIN C1[u] /\ C1[u][x] = C[u][x]
  <2>1. ASSUME u \in HandleUsers(h), h.start[u] = L[u] PROVE x \in DOMAIN C1[u] /\ C1[u][x] = C[u][x]
    BY <1>20, <2>1 DEF ExtendedBy
  <2> QED BY <1>4, <2>1
<1>7. ASSUME NEW k \in 1..Len(G)
      PROVE  /\ ShapeOK(G[k]) /\ Continues(G[k], C1)
             /\ k <= n - 1 => HandleStored(G[k], D)
  <2>1. PICK j \in 1..Len(F) : G[k] = F[j] /\ (k <= n - 1 => j <= n)
    BY <1>5
  <2>2. PICK g : g = F[j]
    OBVIOUS
  <2>3. ShapeOK(g) /\ Continues(g, C) /\ HandleOK(g, H) /\ (k <= n - 1 => HandleStored(g, D))
    BY <1>2, <2>1, <2>2
  <2>4. \A u \in HandleUsers(g) : u \in User
    BY <2>3, SentNumbers
  <2>5. Continues(g, C1)
    BY <1>6, <2>3, <2>4, ContinuesOn
  <2> QED BY <2>1, <2>2, <2>3, <2>5
<1>8. ASSUME NEW u \in User PROVE L1[u] % PageSize = 0 /\ Len(C1[u]) = ChunkNo(L1[u] \div PageSize)
  <2>1. ASSUME u \in HandleUsers(h), h.start[u] = L[u]
        PROVE  L1[u] % PageSize = 0 /\ Len(C1[u]) = ChunkNo(L1[u] \div PageSize)
    <3>1. PICK e \in Nat : e = EndPage(h, u)
      BY <1>3, <2>1, SentNumbers
    <3>2. L1[u] = e * PageSize /\ Len(C1[u]) = ChunkNo(e)
      BY <1>20, <2>1, <3>1 DEF ExtendedBy
    <3> QED BY <3>2, PageMultiple
  <2> QED BY <1>2, <1>4, <2>1 DEF HostShape
<1>9. ASSUME NEW u \in User, NEW i \in Int, 1 <= i, i <= L1[u] \div PageSize
      PROVE  D[C1[u][ChunkNo(i)]][SlotNo(i)] = <<u, i, PageSize>>
  <2>1. ASSUME u \in HandleUsers(h), h.start[u] = L[u] PROVE D[C1[u][ChunkNo(i)]][SlotNo(i)] = <<u, i, PageSize>>
    <3>1. PICK e \in Nat : e = EndPage(h, u)
      BY <1>3, <2>1, SentNumbers
    <3>2. L1[u] = e * PageSize
      BY <1>20, <2>1, <3>1 DEF ExtendedBy
    <3>3. i <= EndPage(h, u)
      BY <1>9, <3>1, <3>2, PageMultiple
    <3> QED BY <1>21, <1>9, <2>1, <3>3
  <2> QED BY <1>2, <1>4, <1>9, <2>1 DEF Stores
<1>10. ASSUME NEW j \in 1..Len(G), NEW k \in 1..Len(G), j < k, NEW u \in HandleUsers(G[j]) \cap HandleUsers(G[k])
       PROVE  EndPage(G[j], u) <= EndPage(G[k], u)
  <2>1. PICK a \in 1..Len(F) : G[j] = F[a] /\ a = Was(z, j)
    BY <1>5
  <2>2. PICK b \in 1..Len(F) : G[k] = F[b] /\ b = Was(z, k)
    BY <1>5
  <2>3. a < b
    BY <1>1, <1>10, <2>1, <2>2 DEF Was
  <2> QED BY <1>2, <1>10, <2>1, <2>2, <2>3 DEF EndsGrow
<1>11. ASSUME NEW k \in 1..Len(G), n - 1 < k, NEW u \in HandleUsers(G[k])
       PROVE  L1[u] \div PageSize <= EndPage(G[k], u)
  <2>1. PICK j \in 1..Len(F) : G[k] = F[j] /\ n < j /\ z < j
    BY <1>5, <1>11
  <2>2. u \in User
    BY <1>2, <1>11, <2>1, SentNumbers
  <2>3. ASSUME u \in HandleUsers(h), h.start[u] = L[u] PROVE L1[u] \div PageSize <= EndPage(G[k], u)
    <3>1. PICK e \in Nat : e = EndPage(h, u)
      BY <1>3, <2>3, SentNumbers
    <3>2. L1[u] = e * PageSize
      BY <1>20, <2>3, <3>1 DEF ExtendedBy
    <3>3. e <= EndPage(F[j], u)
      BY <1>1, <1>2, <1>11, <2>1, <2>3, <3>1 DEF EndsGrow
    <3> QED BY <2>1, <3>2, <3>3, PageMultiple
  <2>4. ASSUME L1[u] = L[u] PROVE L1[u] \div PageSize <= EndPage(G[k], u)
    BY <1>2, <1>11, <2>1, <2>4 DEF Behind
  <2> QED BY <1>4, <2>2, <2>3, <2>4
<1>12. HostShape(L1, C1) /\ Stores(L1, C1, D)
  BY <1>8, <1>9 DEF HostShape, Stores
<1>13. EndsGrow(G) /\ Behind(G, n - 1, L1)
  BY <1>10, <1>11 DEF EndsGrow, Behind
<1>14. \A k \in 1..Len(G) : ShapeOK(G[k]) /\ Continues(G[k], C1) /\ (k <= n - 1 => HandleStored(G[k], D))
  BY <1>7
<1> QED BY <1>0, <1>12, <1>13, <1>14 DEF Storage
-----------------------------------------------------------------------------
(***************************************************************************)
(* Launching an offload.                                                   *)
(***************************************************************************)
\* How many fresh chunks a launch takes for one of its users.
LEMMA FreshLen ==
  ASSUME NEW users, NEW start, NEW pages, NEW pool, NEW fresh \in FreshLists(users, start, pages, pool),
         NEW u \in User, Contains(users, u), FreshChunks(start[u], Len(pages[u])) \in Nat
  PROVE  Len(fresh[u]) = FreshChunks(start[u], Len(pages[u]))
<1> DEFINE Many(v) == IF Contains(users, v) THEN FreshChunks(start[v], Len(pages[v])) ELSE 0
           slots == UNION {{v} \X (1..Many(v)) : v \in User}
<1>1. PICK take \in Injection(slots, pool) :
         fresh = [v \in User |-> [i \in 1..Many(v) |-> take[<<v, i>>]]]
  BY DEF FreshLists
<1>2. Many(u) = FreshChunks(start[u], Len(pages[u])) /\ Many(u) \in Nat
  OBVIOUS
<1> HIDE DEF Many
<1>3. fresh[u] = [i \in 1..Many(u) |-> take[<<u, i>>]]
  BY <1>1
<1> QED BY <1>2, <1>3

\* A start in the middle of a chunk has that chunk's number.
LEMMA StartChunk ==
  ASSUME NEW pos \in Nat, pos % PageSize = 0, NEW s \in Nat, s = pos \div PageSize
  PROVE  /\ Unaligned(pos) => ChunkNo(s + 1) = ChunkNo(s)
         /\ ~Unaligned(pos) => ChunkNo(s + 1) = ChunkNo(s) + 1
<1>1. SlotNo(s + 1) = s % PagesPerChunk
  BY ChunkNoNext
<1>2. Unaligned(pos) <=> SlotNo(s + 1) # 0
  BY StartInChunk
<1>3. /\ s % PagesPerChunk = 0 => ChunkNo(s + 1) = ChunkNo(s) + 1
      /\ s % PagesPerChunk # 0 => ChunkNo(s + 1) = ChunkNo(s)
  BY ChunkNoNext
<1> QED BY <1>1, <1>2, <1>3

\* w are the chunks written from number b to number e: up to number a those of
\* c, beyond it those of f.
WrittenAs(w, c, f, a, b, e) ==
    /\ Len(w) = e + 1 - b
    /\ \A x \in Int : b <= x /\ x <= e /\ a < x => w[x + 1 - b] = f[x - a]
    /\ \A x \in Int : b <= x /\ x <= e /\ x <= a => x \in DOMAIN c /\ w[x + 1 - b] = c[x]

\* The list of chunks of one user of a launch, c those it has and f the fresh ones.
LEMMA WrittenList ==
  ASSUME NEW c \in Seq(Chunk), NEW f \in Seq(Chunk), NEW a \in Nat, NEW b \in Nat, NEW e \in Nat, NEW w,
         Len(c) = a, Len(f) = e - a, b >= 1, b \in {a, a + 1},
         b = a => w = <<Last(c)>> \o f, b # a => w = f
  PROVE  WrittenAs(w, c, f, a, b, e)
<1>1. CASE b = a
  <2>1. c # <<>> /\ Last(c) = c[Len(c)] /\ Last(c) \in Chunk /\ a \in DOMAIN c
    BY <1>1 DEF Last
  <2>2. PICK l : l = Last(c)
    OBVIOUS
  <2>3. PICK k : k = <<l>>
    OBVIOUS
  <2>9. k \in Seq(Chunk) /\ Len(k) = 1 /\ k[1] = l
    BY <2>1, <2>2, <2>3
  <2>4. /\ Len(k \o f) = Len(k) + Len(f)
        /\ \A i \in 1..(Len(k) + Len(f)) : (k \o f)[i] = IF i <= Len(k) THEN k[i] ELSE f[i - Len(k)]
    BY <2>9, ConcatProperties
  <2>5. w = k \o f
    BY <1>1, <2>2, <2>3
  <2>6. Len(w) = 1 + (e - a) /\ \A i \in 1..(1 + (e - a)) : w[i] = IF i <= 1 THEN k[i] ELSE f[i - 1]
    BY <2>4, <2>5, <2>9
  <2>7. ASSUME NEW x \in Int, b <= x, x <= e, a < x PROVE w[x + 1 - b] = f[x - a]
    <3>1. PICK i : i = x + 1 - b
      OBVIOUS
    <3>2. i \in 1..(1 + (e - a)) /\ ~(i <= 1) /\ i - 1 = x - a
      BY <1>1, <2>7, <3>1
    <3> QED BY <2>6, <3>1, <3>2
  <2>8. ASSUME NEW x \in Int, b <= x, x <= e, x <= a PROVE x \in DOMAIN c /\ w[x + 1 - b] = c[x]
    <3>1. x = a /\ x + 1 - b = 1 /\ 1 \in 1..(1 + (e - a))
      BY <1>1, <2>8
    <3>2. w[1] = l
      BY <2>6, <2>9, <3>1
    <3> QED BY <2>1, <2>2, <3>1, <3>2
  <2> QED BY <1>1, <2>6, <2>7, <2>8 DEF WrittenAs
<1>2. CASE b # a
  <2>1. b = a + 1 /\ w = f
    BY <1>2
  <2>2. ASSUME NEW x \in Int PROVE x + 1 - b = x - a /\ ~(b <= x /\ x <= a)
    BY <2>1
  <2> QED BY <2>1, <2>2 DEF WrittenAs
<1> QED BY <1>1, <1>2

\* The handle of a launch: who it carries and where they start.
LEMMA NewUsers ==
  ASSUME CacheInv, NEW fresh, NEW h, h = NewHandle(fresh)
  PROVE  /\ HandleUsers(h) = Range(Sending)
         /\ \A u \in HandleUsers(h) : /\ u \in User /\ Contains(Sending, u) /\ Acquires(u, hostLen)
                                      /\ h.start[u] = hostLen[u] /\ h.pages[u] = Slice(u, hostLen)
                                      /\ h.chunks[u] = Written(u, hostLen, fresh) /\ h.fresh[u] = fresh[u]
                                      /\ Sent[u] = Slice(u, hostLen)
         /\ \A u \in User : u \notin HandleUsers(h) => h.chunks[u] = <<>>
<1>1. /\ Range(Sending) \subseteq User /\ \A u \in User : Contains(Sending, u) <=> u \in Range(Sending)
      /\ \A u \in Range(Sending) : Acquires(u, hostLen)
  BY Senders
<1> QED BY <1>1 DEF NewHandle, HandleUsers, Of, Sent

\* It has the shape of a handle, and continues the chunks of its users.
LEMMA NewShape ==
  ASSUME CacheInv, ChunkTypes, KeptOK, HostShape(hostLen, hostChunks),
         \A u \in Range(Sending) : NoPage \notin Range(Slice(u, hostLen)),
         NEW fresh, NEW out, Launches(fresh, out), NEW h, h = NewHandle(fresh)
  PROVE  HandleOK(h, history) /\ ShapeOK(h) /\ Continues(h, hostChunks)
<1>1. hostLen \in [User -> Nat] /\ hostChunks \in [User -> Seq(Chunk)] /\ Sending \in Seq(User) /\ HostAligned
  BY Senders DEF CacheInv, HostOK, ChunkTypes, HostShape, HostAligned
<1>2. \A u \in User : hostLen[u] \in Nat /\ Len(Sent[u]) \in Nat
  BY LengthTypes, SliceLengths DEF Sent
<1>3. PICK pool : pool = emptyChunks \cup ChunksOf(out)
  OBVIOUS
<1>4. pool \subseteq Chunk
  <2>1. \A u \in User : Range(hostChunks[u]) \subseteq Chunk
    BY <1>1, RangeIs DEF Range
  <2> QED BY <1>3, <2>1 DEF ChunkTypes, ChunksOf, Launches, LaunchParts
<1>5. fresh \in FreshLists(Sending, hostLen, Sent, pool)
  BY <1>3 DEF Launches, LaunchParts
<1>6. /\ fresh \in [User -> Seq(pool)]
      /\ \A u \in User : u \notin Range(Sending) => fresh[u] = <<>>
  BY <1>1, <1>2, <1>5, FreshProps
<1>7. fresh \in [User -> Seq(Chunk)]
  BY <1>4, <1>6
<1>8. HandleOK(h, history)
  <2>1. /\ h.users = Sending /\ h.start = Of(Range(Sending), hostLen) /\ h.fresh = fresh
        /\ h.pages = [u \in User |-> IF Contains(Sending, u) THEN Slice(u, hostLen) ELSE <<>>]
    BY DEF NewHandle, Sent
  <2> QED BY <1>1, <1>6, <1>7, <2>1, LaunchedHandle
<1>9. ASSUME NEW u \in HandleUsers(h)
      PROVE  /\ h.start[u] % PageSize = 0 /\ Len(h.pages[u]) > 0
             /\ Len(h.fresh[u]) = ChunkNo(EndPage(h, u)) - ChunkNo(StartPage(h, u))
             /\ Len(h.chunks[u]) = ChunkNo(EndPage(h, u)) + 1 - ChunkNo(StartPage(h, u) + 1)
             /\ \A x \in Int : IsSent(h, u, x) /\ ChunkNo(StartPage(h, u)) < x =>
                   Sends(h, u, x) = h.fresh[u][x - ChunkNo(StartPage(h, u))]
             /\ \A x \in Int : IsSent(h, u, x) /\ x <= ChunkNo(StartPage(h, u)) =>
                   x \in DOMAIN hostChunks[u] /\ Sends(h, u, x) = hostChunks[u][x]
  <2>1. /\ u \in User /\ u \in Range(Sending) /\ Contains(Sending, u) /\ Acquires(u, hostLen)
        /\ h.start[u] = hostLen[u] /\ h.pages[u] = Slice(u, hostLen) /\ Sent[u] = Slice(u, hostLen)
        /\ h.chunks[u] = Written(u, hostLen, fresh) /\ h.fresh[u] = fresh[u]
    BY NewUsers
  <2>2. PICK m \in Nat : m = hostLen[u] /\ m % PageSize = 0
    BY <1>1, <2>1 DEF HostAligned
  <2>3. PICK s \in Nat : s = m \div PageSize /\ s = StartPage(h, u)
    BY <2>1, <2>2, WholePages DEF StartPage
  <2>4. PICK n \in Nat : n = Len(h.pages[u]) /\ n > 0 /\ n = Len(Sent[u])
    BY <1>1, <2>1, SentPlaced
  <2>5. EndPage(h, u) = s + n
    BY <2>3, <2>4 DEF EndPage
  <2>6. PICK a \in Nat, b \in Nat, e \in Nat : a = ChunkNo(s) /\ b = ChunkNo(s + 1) /\ e = ChunkNo(s + n) /\ b >= 1 /\ a <= e
    <3>1. ASSUME NEW i \in Nat PROVE ChunkNo(i) \in Nat
      <4>1. ChunkNo(0) <= ChunkNo(i) /\ ChunkNo(i) \in Int
        BY ChunkNoIs, ChunkNoMonotone
      <4> QED BY <4>1, ChunkNoEnds
    <3>2. ChunkNo(s) <= ChunkNo(s + n)
      BY ChunkNoMonotone
    <3>3. ChunkNo(1) <= ChunkNo(s + 1)
      BY ChunkNoMonotone
    <3>4. s + 1 \in Nat /\ s + n \in Nat
      OBVIOUS
    <3> QED BY <3>1, <3>2, <3>3, <3>4, ChunkNoEnds
  <2>7. FreshChunks(m, n) = e - a
    BY <2>2, <2>3, <2>6, FreshCount
  <2>8. Len(fresh[u]) = e - a
    <3>1. FreshChunks(hostLen[u], Len(Sent[u])) = e - a /\ e - a \in Nat
      BY <2>2, <2>4, <2>6, <2>7
    <3> QED BY <1>5, <2>1, <3>1, FreshLen
  <2>9. /\ Unaligned(m) => b = a
        /\ ~Unaligned(m) => b = a + 1
    BY <2>2, <2>3, <2>6, StartChunk
  <2>10. Len(hostChunks[u]) = a
    BY <2>1, <2>2, <2>3, <2>6 DEF HostShape
  <2>11. PICK w, c, f : w = h.chunks[u] /\ c = hostChunks[u] /\ f = fresh[u]
    OBVIOUS
  <2>12. /\ b = a => w = <<Last(c)>> \o f
         /\ b # a => w = f
    BY <2>1, <2>2, <2>9, <2>11 DEF Written
  <2>13. a \in Nat /\ b \in Nat /\ e \in Nat /\ b >= 1 /\ c \in Seq(Chunk) /\ f \in Seq(Chunk) /\ Len(c) = a /\ Len(f) = e - a /\ b \in {a, a + 1}
    BY <1>1, <1>7, <2>1, <2>6, <2>8, <2>9, <2>10, <2>11
  <2>15. WrittenAs(w, c, f, a, b, e)
    BY ONLY <2>12, <2>13, WrittenList
  <2>14. /\ Len(w) = e + 1 - b
         /\ \A x \in Int : b <= x /\ x <= e /\ a < x => w[x + 1 - b] = f[x - a]
         /\ \A x \in Int : b <= x /\ x <= e /\ x <= a => x \in DOMAIN c /\ w[x + 1 - b] = c[x]
    BY <2>15 DEF WrittenAs
  <2> QED BY <2>1, <2>2, <2>3, <2>4, <2>5, <2>6, <2>8, <2>11, <2>14 DEF IsSent, Sends
<1>10. \A u \in User : u \notin HandleUsers(h) => Len(h.chunks[u]) = 0
  <2>1. Len(<<>>) = 0
    OBVIOUS
  <2> QED BY <2>1, NewUsers
<1> QED BY <1>8, <1>9, <1>10 DEF ShapeOK, Continues

\* Nothing is continued from a chunk's start on.
LEMMA NothingContinued ==
  ASSUME NEW h, NEW H, HandleOK(h, H), ShapeOK(h), NEW u \in HandleUsers(h), ~Unaligned(h.start[u]),
         NEW x \in Int, IsSent(h, u, x)
  PROVE  ~(x <= ChunkNo(StartPage(h, u)))
<1>1. PICK m \in Nat : m = h.start[u] /\ m % PageSize = 0
  BY SentNumbers DEF HandleOK, ShapeOK
<1>2. PICK s \in Nat : s = StartPage(h, u) /\ s = m \div PageSize
  BY <1>1, SentNumbers DEF StartPage
<1>3. ChunkNo(s + 1) = ChunkNo(s) + 1
  BY <1>1, <1>2, StartChunk
<1>4. ChunkNo(s) \in Nat
  BY <1>2, SentNumbers
<1> QED BY <1>2, <1>3, <1>4 DEF IsSent

\* The users out leave the host.
Leave(out, L, C, L1, C1) ==
    /\ L1 = [u \in User |-> IF u \in out THEN 0 ELSE L[u]]
    /\ C1 = [u \in User |-> IF u \in out THEN <<>> ELSE C[u]]

\* What is left of the host is where it was.
LEMMA LeaveStores ==
  ASSUME NEW L, NEW C, NEW D, HostShape(L, C), Stores(L, C, D), NEW out, NEW L1, NEW C1, Leave(out, L, C, L1, C1)
  PROVE  HostShape(L1, C1) /\ Stores(L1, C1, D)
<1>1. ASSUME NEW u \in User
      PROVE  (u \in out /\ L1[u] = 0 /\ C1[u] = <<>>) \/ (u \notin out /\ L1[u] = L[u] /\ C1[u] = C[u])
  BY DEF Leave
<1>2. HostShape(L1, C1)
  <2>1. ASSUME NEW u \in User PROVE L1[u] % PageSize = 0 /\ Len(C1[u]) = ChunkNo(L1[u] \div PageSize)
    <3>1. CASE L1[u] = 0 /\ C1[u] = <<>>
      <4>1. 0 % PageSize = 0 /\ 0 \div PageSize = 0 /\ Len(<<>>) = 0
        BY PageSizeAssumption
      <4> QED BY <3>1, <4>1, ChunkNoEnds
    <3>2. CASE L1[u] = L[u] /\ C1[u] = C[u]
      BY <3>2 DEF HostShape
    <3> QED BY <1>1, <3>1, <3>2
  <2> QED BY <2>1 DEF HostShape
<1>3. Stores(L1, C1, D)
  <2>1. ASSUME NEW u \in User, NEW i \in Int, 1 <= i, i <= L1[u] \div PageSize
        PROVE  D[C1[u][ChunkNo(i)]][SlotNo(i)] = <<u, i, PageSize>>
    <3>1. L1[u] # 0
      <4>1. 0 \div PageSize = 0
        BY PageSizeAssumption
      <4> QED BY <2>1, <4>1
    <3>2. L1[u] = L[u] /\ C1[u] = C[u]
      BY <1>1, <3>1
    <3> QED BY <2>1, <3>2 DEF Stores
  <2> QED BY <2>1 DEF Stores
<1> QED BY <1>2, <1>3

\* The stream after a launch.
LEMMA StreamAdds ==
  ASSUME NEW F, NEW G, NEW h, NEW n, NEW q, NEW q1, StreamIs(F, n, q), Adds(F, h, G), q1 = Append(q, h)
  PROVE  StreamIs(G, n, q1)
<1>1. PICK X : q \in Seq(X)
  BY DEF StreamIs, IsSeq
<1>2. PICK Y : Y = X \cup {h}
  OBVIOUS
<1>3. q \in Seq(Y) /\ h \in Y
  BY <1>1, <1>2
<1>4. q1 \in Seq(Y) /\ Len(q1) = Len(q) + 1 /\ (\A i \in 1..Len(q) : q1[i] = q[i]) /\ q1[Len(q) + 1] = h
  BY <1>3, AppendProperties
<1>5. n \in Nat /\ Len(q) \in Nat /\ Len(F) = n + Len(q) /\ Len(G) = Len(F) + 1 /\ G[Len(G)] = h
  BY <1>3 DEF StreamIs, Adds
<1>6. ASSUME NEW i \in 1..Len(q1) PROVE q1[i] = G[n + i]
  <2>1. CASE i \in 1..Len(q)
    <3>1. PICK k : k = n + i
      OBVIOUS
    <3>2. k \in 1..Len(F)
      BY <1>5, <2>1, <3>1
    <3>3. G[k] = F[k] /\ q[i] = F[k]
      BY <2>1, <3>1, <3>2 DEF Adds, StreamIs
    <3> QED BY <1>4, <2>1, <3>1, <3>3
  <2>2. CASE i = Len(q) + 1
    <3>1. n + i = Len(G)
      BY <1>5, <2>2
    <3> QED BY <1>4, <1>5, <2>2, <3>1
  <2> QED BY <1>4, <1>5, <2>1, <2>2
<1>7. Len(G) = n + Len(q1)
  BY <1>4, <1>5
<1> QED BY <1>4, <1>5, <1>6, <1>7 DEF StreamIs, IsSeq

\* The host after a launch.
LEMMA LaunchKeeps ==
  ASSUME NEW F, NEW G, NEW n, NEW q, StreamIs(F, n, q), NEW h, Adds(F, h, G),
         NEW H, HandleOK(h, H), ShapeOK(h), \A k \in 1..Len(F) : HandleOK(F[k], H),
         NEW L \in [User -> Nat], NEW C \in [User -> Seq(Chunk)], NEW D, Storage(F, n, L, C, D), Continues(h, C),
         NEW out, \A u \in HandleUsers(h) : u \notin out, NEW L1, NEW C1, Leave(out, L, C, L1, C1),
         \A k \in 1..Len(F) : \A u \in HandleUsers(F[k]) : u \in out => ~Unaligned(F[k].start[u]),
         \A k \in 1..Len(F) : \A u \in HandleUsers(F[k]) : u \in HandleUsers(h) => EndPage(F[k], u) <= EndPage(h, u),
         \A u \in HandleUsers(h) : L[u] \div PageSize <= EndPage(h, u)
  PROVE  Storage(G, n, L1, C1, D)
<1>1. n \in Nat /\ Len(F) \in Nat /\ n <= Len(F) /\ Len(G) = Len(F) + 1 /\ G[Len(G)] = h
  <2>1. PICK X : q \in Seq(X)
    BY DEF StreamIs, IsSeq
  <2> QED BY <2>1 DEF StreamIs, Adds
<1>2. /\ \A k \in 1..Len(F) : ShapeOK(F[k]) /\ Continues(F[k], C) /\ HandleOK(F[k], H)
      /\ HostShape(L, C) /\ Stores(L, C, D) /\ EndsGrow(F) /\ Behind(F, n, L)
      /\ \A k \in 1..Len(F) : k <= n => HandleStored(F[k], D)
  BY DEF Storage
<1>3. ASSUME NEW k \in 1..Len(G) PROVE (k \in 1..Len(F) /\ G[k] = F[k]) \/ (k = Len(F) + 1 /\ G[k] = h)
  <2>1. k \in 1..Len(F) \/ k = Len(G)
    BY <1>1
  <2> QED BY <1>1, <2>1 DEF Adds
<1>4. ASSUME NEW u \in User
      PROVE  (u \in out /\ L1[u] = 0 /\ C1[u] = <<>>) \/ (u \notin out /\ L1[u] = L[u] /\ C1[u] = C[u])
  BY DEF Leave
<1>5. ASSUME NEW k \in 1..Len(F) PROVE Continues(F[k], C1)
  <2>1. PICK g : g = F[k]
    OBVIOUS
  <2>2. ShapeOK(g) /\ Continues(g, C) /\ HandleOK(g, H)
    BY <1>2, <2>1
  <2>3. ASSUME NEW u \in HandleUsers(g), NEW x \in Int, IsSent(g, u, x), x <= ChunkNo(StartPage(g, u))
        PROVE  x \in DOMAIN C1[u] /\ Sends(g, u, x) = C1[u][x]
    <3>1. u \in User
      BY <2>2, SentNumbers
    <3>2. u \notin out
      <4>1. ASSUME u \in out PROVE ~Unaligned(g.start[u])
        BY <2>1, <4>1
      <4> QED BY <2>2, <2>3, <4>1, NothingContinued
    <3>3. C1[u] = C[u]
      BY <1>4, <3>1, <3>2
    <3> QED BY <2>2, <2>3, <3>3 DEF Continues
  <2> QED BY <2>1, <2>3 DEF Continues
<1>6. Continues(h, C1)
  <2>1. \A u \in HandleUsers(h) : u \in User
    BY SentNumbers
  <2>2. \A u \in HandleUsers(h) : C1[u] = C[u]
    BY <1>4, <2>1
  <2> QED BY <2>2 DEF Continues
<1>7. HostShape(L1, C1) /\ Stores(L1, C1, D)
  BY <1>2, LeaveStores
<1>9. EndsGrow(G)
  <2>1. ASSUME NEW j \in 1..Len(G), NEW k \in 1..Len(G), j < k, NEW u \in HandleUsers(G[j]) \cap HandleUsers(G[k])
        PROVE  EndPage(G[j], u) <= EndPage(G[k], u)
    <3>1. j \in 1..Len(F) /\ G[j] = F[j]
      BY <1>1, <1>3, <2>1
    <3>2. CASE k \in 1..Len(F) /\ G[k] = F[k]
      BY <1>2, <2>1, <3>1, <3>2 DEF EndsGrow
    <3>3. CASE G[k] = h
      BY <2>1, <3>1, <3>3
    <3> QED BY <1>3, <3>2, <3>3
  <2> QED BY <2>1 DEF EndsGrow
<1>10. Behind(G, n, L1)
  <2>1. ASSUME NEW k \in 1..Len(G), n < k, NEW u \in HandleUsers(G[k]) PROVE L1[u] \div PageSize <= EndPage(G[k], u)
    <3>1. PICK g : g = G[k]
      OBVIOUS
    <3>2. HandleOK(g, H) /\ ShapeOK(g) /\ u \in HandleUsers(g)
      BY <1>2, <1>3, <2>1, <3>1
    <3>3. u \in User /\ EndPage(g, u) \in Nat
      BY <3>2, SentNumbers
    <3>4. L[u] \div PageSize <= EndPage(g, u)
      <4>1. CASE k \in 1..Len(F) /\ G[k] = F[k]
        BY <1>2, <2>1, <3>1, <4>1 DEF Behind
      <4>2. CASE G[k] = h
        BY <2>1, <3>1, <4>2
      <4> QED BY <1>3, <4>1, <4>2
    <3>5. 0 \div PageSize = 0
      BY PageSizeAssumption
    <3> QED BY <1>4, <3>1, <3>3, <3>4, <3>5
  <2> QED BY <2>1 DEF Behind
<1>11. ASSUME NEW k \in 1..Len(G)
       PROVE  ShapeOK(G[k]) /\ Continues(G[k], C1) /\ (k <= n => HandleStored(G[k], D))
  <2>1. CASE k \in 1..Len(F) /\ G[k] = F[k]
    BY <1>2, <1>5, <2>1
  <2>2. CASE k = Len(F) + 1 /\ G[k] = h
    <3>1. ~(k <= n)
      BY <1>1, <2>2
    <3> QED BY <1>6, <2>2, <3>1
  <2> QED BY <1>3, <2>1, <2>2
<1> QED BY <1>7, <1>9, <1>10, <1>11 DEF Storage
-----------------------------------------------------------------------------
(***************************************************************************)
(* What the host holds, step by step.                                      *)
(***************************************************************************)
\* The offloads F, of which those of q are still to be copied, and the host.
HostKept(F, q, L, C, D) == \E n \in Nat : StreamIs(F, n, q) /\ Storage(F, n, L, C, D)
HostInv == HostKept(InFlight, stream, hostLen, hostChunks, chunkData)

\* A user under offload whose pages continue a chunk keeps that chunk.
PartialChunkStays ==
    \A k \in DOMAIN InFlight : \A u \in HandleUsers(InFlight[k]) :
        Unaligned(InFlight[k].start[u]) => hostLen[u] >= InFlight[k].start[u]

\* Nothing but the offloads under way matters.
LEMMA KeptSame ==
  ASSUME NEW F, NEW G, NEW q, NEW L, NEW C, NEW D, HostKept(F, q, L, C, D), Same(G, F)
  PROVE  HostKept(G, q, L, C, D)
<1>1. PICK n \in Nat : StreamIs(F, n, q) /\ Storage(F, n, L, C, D)
  BY DEF HostKept
<1>2. Len(q) \in Nat /\ Len(F) = n + Len(q) /\ Len(G) = Len(F) /\ \A k \in 1..Len(F) : G[k] = F[k]
  <2>1. PICK X : q \in Seq(X)
    BY <1>1 DEF StreamIs, IsSeq
  <2> QED BY <1>1, <2>1 DEF StreamIs, Same
<1>3. StreamIs(G, n, q)
  <2>1. ASSUME NEW i \in 1..Len(q) PROVE q[i] = G[n + i]
    <3>1. n + i \in 1..Len(F)
      BY <1>2
    <3> QED BY <1>1, <1>2, <3>1 DEF StreamIs
  <2> QED BY <1>1, <1>2, <2>1 DEF StreamIs
<1>4. Storage(G, n, L, C, D)
  <2>1. /\ \A k \in 1..Len(F) : ShapeOK(F[k]) /\ Continues(F[k], C)
        /\ HostShape(L, C) /\ Stores(L, C, D) /\ EndsGrow(F) /\ Behind(F, n, L)
        /\ \A k \in 1..Len(F) : k <= n => HandleStored(F[k], D)
    BY <1>1 DEF Storage
  <2>2. EndsGrow(G) /\ Behind(G, n, L)
    BY <1>2, <2>1 DEF EndsGrow, Behind
  <2> QED BY <1>2, <2>1, <2>2 DEF Storage
<1> QED BY <1>3, <1>4 DEF HostKept

\* With nothing under way users may leave the host.
LEMMA KeptDrop ==
  ASSUME NEW F, NEW q, NEW L, NEW C, NEW D, HostKept(F, q, L, C, D), Len(F) = 0,
         NEW out, NEW L1, NEW C1, Leave(out, L, C, L1, C1)
  PROVE  HostKept(F, q, L1, C1, D)
<1>1. PICK n \in Nat : StreamIs(F, n, q) /\ Storage(F, n, L, C, D)
  BY DEF HostKept
<1>2. HostShape(L1, C1) /\ Stores(L1, C1, D)
  BY <1>1, LeaveStores DEF Storage
<1>3. Storage(F, n, L1, C1, D)
  BY <1>2 DEF Storage, EndsGrow, Behind
<1> QED BY <1>1, <1>3 DEF HostKept

\* What it gives: whole pages, those of the users' own histories.
LEMMA HeldIsOwn ==
  ASSUME CacheInv, ChunkTypes, HostInv
  PROVE  HostAligned /\ HostHoldsOwnHistory
<1>1. HostShape(hostLen, hostChunks) /\ Stores(hostLen, hostChunks, chunkData)
  BY DEF HostInv, HostKept, Storage
<1>2. HostAligned
  BY <1>1 DEF HostShape, HostAligned
<1>3. ASSUME NEW u \in User, NEW i \in 1..(hostLen[u] \div PageSize) PROVE HostPage(u, i) = <<u, i, PageSize>>
  <2>1. hostLen \in [User -> Nat] /\ hostChunks \in [User -> Seq(Chunk)]
    BY DEF CacheInv, HostOK, ChunkTypes
  <2>2. i \in Int /\ 1 <= i /\ i <= hostLen[u] \div PageSize
    <3>1. PICK m \in Nat : m = hostLen[u]
      BY <2>1
    <3>2. PICK n \in Nat : n = hostLen[u] \div PageSize
      BY <3>1, WholePages
    <3> QED BY <3>2
  <2>3. ChunkNo(i) \in DOMAIN hostChunks[u]
    BY <1>1, <2>1, <2>2, HostAt
  <2>4. chunkData[hostChunks[u][ChunkNo(i)]][SlotNo(i)] = <<u, i, PageSize>>
    BY <1>1, <2>2 DEF Stores
  <2> QED BY <2>3, <2>4 DEF HostPage, ChunkNo, SlotNo
<1>4. HostHoldsOwnHistory
  BY <1>3 DEF HostHoldsOwnHistory
<1> QED BY <1>2, <1>4

\* Nothing is held at the start.
LEMMA HeldStart == Init => HostInv
<1> SUFFICES ASSUME Init PROVE HostInv
  OBVIOUS
<1>1. /\ InFlight = <<>> /\ stream = <<>> /\ hostLen = Zero /\ hostChunks = NoList
  BY DEF Init, HostInit, InFlight
<1>2. Len(<<>>) = 0 /\ <<>> \in Seq({})
  OBVIOUS
<1>3. Len(InFlight) = 0 /\ Len(stream) = 0
  BY <1>1, <1>2
<1>4. StreamIs(InFlight, 0, stream)
  BY <1>1, <1>2, <1>3 DEF StreamIs, IsSeq
<1>5. 0 % PageSize = 0 /\ 0 \div PageSize = 0
  BY PageSizeAssumption
<1>6. HostShape(hostLen, hostChunks)
  BY <1>1, <1>2, <1>5, ChunkNoEnds DEF HostShape, Zero, NoList
<1>7. Stores(hostLen, hostChunks, chunkData)
  BY <1>1, <1>5 DEF Stores, Zero
<1>8. Storage(InFlight, 0, hostLen, hostChunks, chunkData)
  BY <1>3, <1>6, <1>7 DEF Storage, EndsGrow, Behind
<1> QED BY <1>4, <1>8 DEF HostInv, HostKept

\* A task whose copy has run is one of those copied.
LEMMA ReadyIsCopied ==
  ASSUME NEW F, NEW n, NEW q, StreamIs(F, n, q), NEW z \in 1..Len(F), F[z].id \notin Ids(q)
  PROVE  z <= n
<1>1. PICK X : q \in Seq(X)
  BY DEF StreamIs, IsSeq
<1>2. n \in Nat /\ Len(q) \in Nat /\ Len(F) = n + Len(q) /\ DOMAIN q = 1..Len(q)
  BY <1>1 DEF StreamIs
<1> SUFFICES ASSUME ~(z <= n) PROVE FALSE
  OBVIOUS
<1>3. PICK i : i = z - n
  OBVIOUS
<1>4. z \in Int
  BY <1>2
<1>5. i \in DOMAIN q /\ n + i = z
  BY <1>2, <1>3, <1>4
<1>6. q[i] = F[z]
  BY <1>2, <1>5 DEF StreamIs
<1> QED BY <1>5, <1>6 DEF Ids

\* Settling a finished offload.
LEMMA ReadyKeeps ==
  ASSUME CacheInv, ChunkTypes, FlightInv, HostInv, PollReady
  PROVE  HostInv'
<1>1. PICK n \in Nat : StreamIs(InFlight, n, stream) /\ Storage(InFlight, n, hostLen, hostChunks, chunkData)
  BY DEF HostInv, HostKept
<1>2. PICK z, h, F, G : z = Len(remain) + 1 /\ h = Task /\ F = InFlight /\ G = InFlight'
  OBVIOUS
<1>3. LeavesOut(F, z, G) /\ F[z] = h
  BY <1>2, SettleMoves
<1>4. z \in 1..Len(F) /\ \A k \in 1..Len(F) : HandleOK(F[k], history)
  BY <1>2, <1>3, FlightHandles DEF LeavesOut
<1>5. h.id \notin Ids(stream)
  BY <1>2 DEF PollReady, Ready
<1>6. z <= n
  BY <1>1, <1>2, <1>3, <1>4, <1>5, ReadyIsCopied
<1>7. Finished(h, hostLen, hostChunks, hostLen', hostChunks')
  BY <1>2 DEF PollReady, FinishOffload, FinishedUsers, Finished
<1>8. hostLen \in [User -> Nat] /\ hostChunks \in [User -> Seq(Chunk)]
  BY DEF CacheInv, HostOK, ChunkTypes
<1>9. StreamIs(G, n - 1, stream) /\ Storage(G, n - 1, hostLen', hostChunks', chunkData)
  BY <1>1, <1>2, <1>3, <1>4, <1>6, <1>7, <1>8, FinishKeeps
<1>10. n - 1 \in Nat
  BY <1>9 DEF StreamIs
<1>11. stream' = stream /\ chunkData' = chunkData
  BY DEF PollReady, Settle, dataVars
<1> QED BY <1>2, <1>9, <1>10, <1>11 DEF HostInv, HostKept

\* The copy of the oldest offload still to run.
LEMMA CopyKeeps ==
  ASSUME CacheInv, ChunkTypes, ChunkPartition, FlightInv, KeptOK, GpuHolds, HandlePlaced, HostInv, OffloadCopy
  PROVE  HostKept(InFlight, stream', hostLen', hostChunks', chunkData')
<1>1. PICK n \in Nat : StreamIs(InFlight, n, stream) /\ Storage(InFlight, n, hostLen, hostChunks, chunkData)
  BY DEF HostInv, HostKept
<1>2. StreamIs(InFlight, n + 1, stream') /\ Storage(InFlight, n + 1, hostLen, hostChunks, chunkData')
  BY <1>1, CopyStores
<1>3. hostLen' = hostLen /\ hostChunks' = hostChunks /\ n + 1 \in Nat
  BY SMTT(30) DEF OffloadCopy, hostVars
<1> QED BY <1>2, <1>3 DEF HostKept

\* A launch.
LEMMA NewKeeps ==
  ASSUME CacheInv, ChunkTypes, FlightInv, KeptOK, HandlePlaced, HostInv, OffloadLaunch,
         OffloadsHaveNoGap', PartialChunkStays', NEW fresh, NEW out, Launches(fresh, out)
  PROVE  HostInv'
<1>1. PICK n \in Nat : StreamIs(InFlight, n, stream) /\ Storage(InFlight, n, hostLen, hostChunks, chunkData)
  BY DEF HostInv, HostKept
<1>2. PICK h, F, G : h = NewHandle(fresh) /\ F = InFlight /\ G = InFlight'
  OBVIOUS
<1>3. Adds(F, h, G) /\ stream' = Append(stream, h)
  BY <1>2, LaunchMoves DEF Launches
<1>4. HostShape(hostLen, hostChunks) /\ HostAligned
  BY <1>1 DEF Storage, HostShape, HostAligned
<1>5. \A u \in Range(Sending) : NoPage \notin Range(Slice(u, hostLen))
  <2>1. PICK X : ongoing \in Seq(X)
    BY TaskLists
  <2>2. ongoing \in Seq(X \cup {h}) /\ h \in X \cup {h} /\ ongoing' = Append(ongoing, h)
    BY <1>2, <2>1 DEF Launches
  <2>3. Len(ongoing) + 1 \in DOMAIN ongoing' /\ ongoing'[Len(ongoing) + 1] = h
    BY <2>2, AppendProperties
  <2>4. \A u \in User : NoPage \notin Range(h.pages[u])
    BY <2>3 DEF OffloadsHaveNoGap
  <2>5. \A u \in Range(Sending) : u \in User /\ h.pages[u] = Slice(u, hostLen)
    BY <1>2, NewUsers
  <2> QED BY <2>4, <2>5
<1>6. HandleOK(h, history) /\ ShapeOK(h) /\ Continues(h, hostChunks)
  BY <1>2, <1>4, <1>5, NewShape
<1>7. \A k \in 1..Len(F) : HandleOK(F[k], history) /\ ShapeOK(F[k])
  BY <1>1, <1>2, FlightHandles DEF Storage
<1>8. hostLen \in [User -> Nat] /\ hostChunks \in [User -> Seq(Chunk)]
  BY DEF CacheInv, HostOK, ChunkTypes
<1>9. Leave(out, hostLen, hostChunks, hostLen', hostChunks')
  BY DEF Launches, LaunchParts, Leave
<1>10. ASSUME NEW u \in HandleUsers(h)
       PROVE  u \notin out /\ u \in User /\ h.start[u] = hostLen[u] /\ u \in Range(Sending)
              /\ h.pages[u] = Slice(u, hostLen) /\ Acquires(u, hostLen)
  BY <1>2, NewUsers DEF Launches
<1>11. ASSUME NEW k \in 1..Len(F), NEW u \in HandleUsers(F[k]), u \in out PROVE ~Unaligned(F[k].start[u])
  <2>1. u \in User /\ F[k].start[u] \in Nat
    <3>1. HandleOK(F[k], history) /\ ShapeOK(F[k])
      BY <1>7
    <3>2. u \in User
      BY <3>1, SentNumbers
    <3> QED BY <3>1, <3>2 DEF HandleOK
  <2>2. G[k] = F[k] /\ k \in DOMAIN G
    <3>1. PICK X : G \in Seq(X)
      <4>1. PICK X : ongoing \in Seq(X)
        BY TaskLists
      <4>2. ongoing \in Seq(X \cup {h}) /\ h \in X \cup {h} /\ ongoing' = Append(ongoing, h)
        BY <1>2, <4>1 DEF Launches
      <4>3. ongoing' \in Seq(X \cup {h})
        BY <4>2, AppendProperties
      <4>4. InFlight' = ongoing'
        BY DEF OffloadLaunch, InFlight
      <4> QED BY <1>2, <4>3, <4>4
    <3>2. Len(F) \in Nat /\ Len(G) = Len(F) + 1 /\ G[k] = F[k]
      <4>1. PICK Y : F \in Seq(Y)
        BY <1>2, FlightIs
      <4> QED BY <1>3, <4>1 DEF Adds
    <3> QED BY <3>1, <3>2
  <2>3. hostLen'[u] = 0
    BY <1>9, <1>11, <2>1 DEF Leave
  <2>4. Unaligned(F[k].start[u]) => 0 >= F[k].start[u]
    BY <1>2, <2>2, <2>3 DEF PartialChunkStays
  <2>5. 0 % ChunkSize = 0
    BY ChunkSizeAssumption
  <2>6. F[k].start[u] = 0 => ~Unaligned(F[k].start[u])
    BY <2>5 DEF Unaligned
  <2> QED BY <2>1, <2>4, <2>6
<1>12. ASSUME NEW k \in 1..Len(F), NEW u \in HandleUsers(F[k]), u \in HandleUsers(h)
       PROVE  EndPage(F[k], u) <= EndPage(h, u)
  <2>1. PICK g : g = F[k]
    OBVIOUS
  <2>2. HandleOK(g, history) /\ ShapeOK(g) /\ Placed(g, u)
    BY <1>2, <1>7, <2>1, <1>12 DEF HandlePlaced
  <2>3. PICK e \in Nat, l \in Nat : e = EndPage(g, u) /\ l = Len(g.pages[u]) /\ EndPage(g, u) = StartPage(g, u) + l /\ l > 0
    BY <1>12, <2>1, <2>2, SentNumbers DEF EndPage, Placed
  <2>4. e * PageSize <= Limit(u)
    <3>1. l \in 1..Len(g.pages[u])
      BY <2>3
    <3> QED BY <2>2, <2>3, <3>1 DEF Placed
  <2>5. Limit(u) = EndPos(u)
    BY DEF OffloadLaunch, Limit, Building
  <2>6. PICK f \in Nat : f = EndPage(h, u) /\ OffloadEnd(h, u) = f * PageSize
    BY <1>6, <1>12, SentNumbers
  <2>7. EndPos(u) < f * PageSize + PageSize
    <3>1. EndPos(u) < hostLen[u] + Len(Slice(u, hostLen)) * PageSize + PageSize
      BY <1>4, <1>5, <1>10, <1>12, SentPlaced
    <3>2. f * PageSize = hostLen[u] + Len(Slice(u, hostLen)) * PageSize
      BY <1>10, <1>12, <2>6 DEF OffloadEnd
    <3> QED BY <3>1, <3>2
  <2>8. PICK p \in Nat \ {0} : p = PageSize
    BY PageSizeAssumption
  <2>9. PICK m \in Nat : m = EndPos(u)
    BY <1>10, <1>12, ViewTypes
  <2>10. e * p <= m /\ m < f * p + p
    BY <2>4, <2>5, <2>7, <2>8, <2>9
  <2>11. e <= f
    <3> SUFFICES ASSUME e >= f + 1 PROVE FALSE
      OBVIOUS
    <3>1. e * p >= (f + 1) * p
      OBVIOUS
    <3>2. (f + 1) * p = f * p + p /\ e * p \in Int /\ f * p \in Int
      OBVIOUS
    <3> QED BY <2>10, <3>1, <3>2
  <2> QED BY <2>1, <2>3, <2>6, <2>11
<1>13. ASSUME NEW u \in HandleUsers(h) PROVE hostLen[u] \div PageSize <= EndPage(h, u)
  <2>1. StartPage(h, u) \in Nat /\ EndPage(h, u) \in Nat /\ StartPage(h, u) < EndPage(h, u)
    BY <1>6, SentNumbers
  <2>2. StartPage(h, u) = hostLen[u] \div PageSize
    BY <1>10 DEF StartPage
  <2> QED BY <2>1, <2>2
<1>14. StreamIs(G, n, stream')
  BY <1>1, <1>2, <1>3, StreamAdds
<1>15. Storage(G, n, hostLen', hostChunks', chunkData)
  <2>1. /\ StreamIs(F, n, stream) /\ Storage(F, n, hostLen, hostChunks, chunkData)
        /\ \A k \in 1..Len(F) : HandleOK(F[k], history)
        /\ \A u \in HandleUsers(h) : u \notin out
    BY <1>1, <1>2, <1>7, <1>10
  <2>2. \A k \in 1..Len(F) : \A u \in HandleUsers(F[k]) : u \in out => ~Unaligned(F[k].start[u])
    BY <1>11
  <2>3. \A k \in 1..Len(F) : \A u \in HandleUsers(F[k]) : u \in HandleUsers(h) => EndPage(F[k], u) <= EndPage(h, u)
    BY <1>12
  <2>4. \A u \in HandleUsers(h) : hostLen[u] \div PageSize <= EndPage(h, u)
    BY <1>13
  <2> QED BY <1>3, <1>6, <1>8, <1>9, <2>1, <2>2, <2>3, <2>4, LaunchKeeps
<1>16. chunkData' = chunkData
  BY DEF OffloadLaunch, dataVars
<1> QED BY <1>2, <1>14, <1>15, <1>16 DEF HostInv, HostKept

\* Every step keeps what the host holds.
LEMMA HostInvStep ==
  ASSUME CacheInv, ChunkInv, FlightInv, NoneLost, RaisesUnsettled, KeptOK, GpuHolds, HandlePlaced, HostInv,
         OffloadsHaveNoGap', PartialChunkStays', Timeouts => FailClose, [Next]_vars
  PROVE  HostInv'
<1>0. ChunkTypes /\ ChunkPartition
  BY DEF ChunkInv
<1>1. ASSUME Same(InFlight', InFlight), UNCHANGED <<stream, hostLen, hostChunks, chunkData>> PROVE HostInv'
  BY <1>1, KeptSame DEF HostInv
<1>2. CASE PollReady
  BY <1>0, <1>2, ReadyKeeps
<1>3. CASE PollTimeout
  BY <1>3 DEF PollTimeout
<1>4. CASE PollRaise
  <2>1. Same(InFlight', InFlight)
    BY <1>4, RaiseKeeps
  <2>2. UNCHANGED <<stream, hostLen, hostChunks, chunkData>>
    BY <1>4 DEF PollRaise, hostVars, dataVars
  <2> QED BY <1>1, <2>1, <2>2
<1>5. CASE OffloadLaunch
  <2>1. ASSUME LaunchesNothing PROVE HostInv'
    <3>1. UNCHANGED <<stream, hostLen, hostChunks, chunkData>> /\ ongoing' = ongoing
      BY <1>5, <2>1 DEF LaunchesNothing, hostVars, OffloadLaunch, dataVars
    <3>2. Same(InFlight', InFlight)
      BY <1>5, <3>1, LaunchMoves
    <3> QED BY <1>1, <3>1, <3>2
  <2>2. ASSUME NEW fresh, NEW out, Launches(fresh, out) PROVE HostInv'
    BY <1>0, <1>5, <2>2, NewKeeps
  <2> QED BY <1>0, <1>5, <2>1, <2>2, LaunchWhole
<1>6. ASSUME ~PollReady, ~PollTimeout, ~PollRaise, ~OffloadLaunch PROVE HostInv'
  <2>1. Same(InFlight', InFlight)
    BY <1>6, FlightStays
  <2>2. CASE OffloadCopy
    <3>1. HostKept(InFlight, stream', hostLen', hostChunks', chunkData')
      BY <1>0, <2>2, CopyKeeps
    <3> QED BY <2>1, <3>1, KeptSame DEF HostInv
  <2>3. ASSUME ClientQuiet, NEW out, Leave(out, hostLen, hostChunks, hostLen', hostChunks'), UNCHANGED <<stream, chunkData>>
        PROVE  HostInv'
    <3>1. InFlight = <<>> /\ Len(<<>>) = 0
      BY <2>3 DEF ClientQuiet, InFlight
    <3>2. HostKept(InFlight, stream, hostLen', hostChunks', chunkData)
      BY <2>3, <3>1, KeptDrop DEF HostInv
    <3> QED BY <2>1, <2>3, <3>2, KeptSame DEF HostInv
  <2>4. ASSUME NEW u \in User, ClientEvictHost(u) PROVE HostInv'
    <3>1. hostLen \in [User -> Nat] /\ hostChunks \in [User -> Seq(Chunk)]
      BY <1>0 DEF CacheInv, HostOK, ChunkTypes
    <3>2. Leave({u}, hostLen, hostChunks, hostLen', hostChunks')
      BY <2>4, <3>1 DEF ClientEvictHost, HostEvict, Leave
    <3>3. ClientQuiet /\ UNCHANGED <<stream, chunkData>>
      BY <2>4 DEF ClientEvictHost, dataVars
    <3> QED BY <2>3, <3>2, <3>3
  <2>5. CASE ClientEvictAllHost
    <3>1. Leave(User, hostLen, hostChunks, hostLen', hostChunks')
      BY <2>5 DEF ClientEvictAllHost, HostEvictAll, Leave, NoList, Zero
    <3>2. ClientQuiet /\ UNCHANGED <<stream, chunkData>>
      BY <2>5 DEF ClientEvictAllHost, dataVars
    <3> QED BY <2>3, <3>1, <3>2
  <2>6. ASSUME UNCHANGED <<stream, hostVars, chunkData>> PROVE HostInv'
    BY <1>1, <2>1, <2>6 DEF hostVars
  <2>7. ASSUME NEW b \in Batch, NEW tot \in [User -> Lengths], Lookup(b, tot) PROVE HostInv'
    BY <2>6, <2>7 DEF Lookup, dataVars
  <2>8. CASE Allocate \/ AllocateStep \/ Onboard \/ Forward \/ PollLaunched \/ PollReturn
    BY <2>6, <2>8 DEF Allocate, AllocateStep, Onboard, Forward, PollLaunched, PollReturn, dataVars
  <2>9. CASE OffloadFlush \/ ClientEvictAllGPU \/ Crashed \/ UNCHANGED vars
    BY <2>6, <2>9 DEF OffloadFlush, ClientEvictAllGPU, Crashed, dataVars, vars
  <2>10. ASSUME NEW u \in User, ClientEvictGPU(u) PROVE HostInv'
    BY <2>6, <2>10 DEF ClientEvictGPU, dataVars
  <2> QED BY <1>6, <2>2, <2>4, <2>5, <2>7, <2>8, <2>9, <2>10 DEF Next, ThreadStep
<1> QED BY <1>2, <1>3, <1>4, <1>5, <1>6
-----------------------------------------------------------------------------
(***************************************************************************)
(* Histories, on the GPU and on the host.                                  *)
(***************************************************************************)
\* What a request reads is what the pages hold, and what they hold comes from
\* the host, whose chunks come from them.
HistoryInv ==
    /\ KeptOK /\ ServedOK /\ LookupFits /\ HeldAtLookup
    /\ GpuHolds /\ HandlePlaced /\ HostInv

\* What the code takes for granted: a time-out raises before anything is settled,
\* lookups and offloads meet no gap (kvcache_utils.py:97), an eviction finds its
\* victim in the loop, and no user under offload loses a partial chunk.
Orderly ==
    /\ RaisesUnsettled /\ NoGapAtLookup /\ VictimFound
    /\ OffloadsHaveNoGap /\ PartialChunkStays

\* It holds at the start.
LEMMA HistoryStart == Init => HistoryInv
<1>1. Init => HandlePlaced
  <2>1. Init => InFlight = <<>> /\ Len(<<>>) = 0
    BY DEF Init, InFlight
  <2> QED BY <2>1 DEF HandlePlaced
<1> QED BY <1>1, KeptInit, ServedInit, GpuStart, HeldStart DEF HistoryInv

\* Every step keeps it.
LEMMA HistoryStep ==
  ASSUME CacheInv, ChunkInv, FlightInv, NoneLost, LocksCover, HistoryInv, Orderly, Orderly',
         Timeouts => FailClose, [Next]_vars
  PROVE  HistoryInv'
<1>1. /\ KeptOK /\ ServedOK /\ LookupFits /\ HeldAtLookup /\ GpuHolds /\ HandlePlaced /\ HostInv
      /\ RaisesUnsettled /\ NoGapAtLookup /\ VictimFound
  BY DEF HistoryInv, Orderly
<1>2. OffloadsHaveNoGap' /\ PartialChunkStays'
  BY DEF Orderly
<1>3. ChunkTypes /\ HostAligned /\ HostHoldsOwnHistory
  BY <1>1, HeldIsOwn DEF ChunkInv
<1>4. KeptOK'
  BY <1>1, KeptStep
<1>5. ServedOK' /\ LookupFits'
  BY <1>1, ServedStep, FitsStep
<1>6. HeldAtLookup'
  BY <1>1, <1>3, HeldStep DEF HostAligned
<1>7. GpuHolds'
  BY <1>1, <1>3, GpuHoldsStep
<1>8. HandlePlaced'
  BY <1>1, <1>2, <1>3, <1>4, HandlePlacedStep
<1>9. HostInv'
  BY <1>1, <1>2, HostInvStep
<1> QED BY <1>4, <1>5, <1>6, <1>7, <1>8, <1>9 DEF HistoryInv

\* In every orderly behaviour.
LEMMA HistoryHolds ==
  ASSUME Timeouts => FailClose
  PROVE  Spec /\ []Orderly => []HistoryInv
<1>1. Orderly => RaisesUnsettled
  BY DEF Orderly
<1>2. CacheInv /\ ChunkInv /\ FlightInv /\ NoneLost /\ LocksCover /\ HistoryInv /\ Orderly /\ Orderly' /\ [Next]_vars
      => HistoryInv'
  BY HistoryStep
<1> QED BY <1>1, <1>2, HistoryStart, CacheInvariant, ChunkInvHolds, FlightHolds, LocksCoverTasks, PTL DEF Spec

\* The chunks of a user hold exactly the pages its length promises, each one
\* that page of its own history: whatever the order in which offloads are
\* launched, copied late, finished, found stale or evicted.  No task may be
\* cancelled: the late copy of a cancelled one reads pages that are not locked.
THEOREM HostKeepsHistories ==
  ASSUME Timeouts => FailClose
  PROVE  Spec /\ []Orderly => []HostHoldsOwnHistory
<1>1. CacheInv /\ ChunkInv /\ HistoryInv => HostHoldsOwnHistory
  BY HeldIsOwn DEF HistoryInv, ChunkInv
<1>2. Orderly => RaisesUnsettled
  BY DEF Orderly
<1> QED BY <1>1, <1>2, HistoryHolds, CacheInvariant, ChunkInvHolds, PTL

\* The attention of every request reads the whole of its user's history and
\* nothing else, whether the pages were kept on the GPU, brought back from the
\* host or appended by the forward pass.
THEOREM RequestsReadHistories ==
  ASSUME Timeouts => FailClose
  PROVE  Spec /\ []Orderly => []ReadsOwnHistory
<1>1. CacheInv /\ HistoryInv => ReadsOwnHistory
  BY AttendedReads DEF HistoryInv
<1> QED BY <1>1, HistoryHolds, CacheInvariant, PTL
=============================================================================
