-------------------------- MODULE PrefixCacheProofs --------------------------
(***************************************************************************)
(* Proofs about the prompt prefix cache: its counters are the sums over    *)
(* its entries, it stays within its limits, it holds the keys used last,   *)
(* as many as fit, and the radix walk finds the longest shared prefix.    *)
(***************************************************************************)
EXTENDS PrefixCache, SequenceLemmas

-----------------------------------------------------------------------------
(* Pages and common prefixes.                                              *)

\* The lengths that are whole pages.
Pages(p) == {j * p : j \in Nat}

\* s and t begin with the same n tokens.
Agree(s, t, n) == n <= Len(s) /\ n <= Len(t) /\ \A i \in 1..n : s[i] = t[i]

\* Multiplication by a natural preserves the order.
LEMMA Monotone ==
  ASSUME NEW p \in Nat, NEW a \in Nat, NEW b \in Nat, a <= b
  PROVE  a * p <= b * p
OBVIOUS

\* Rounding down to whole pages gives the greatest whole number of pages that fits.
LEMMA RoundDown ==
  ASSUME NEW p \in Nat \ {0}, NEW x \in Nat
  PROVE  /\ (x \div p) * p \in Pages(p)
         /\ (x \div p) * p \in Nat
         /\ (x \div p) * p <= x
         /\ \A y \in Pages(p) : y <= x => y <= (x \div p) * p
<1>1. x \div p \in Nat
  OBVIOUS
<1> DEFINE d == x \div p
<1>2. d * p <= x /\ x < (d + 1) * p /\ d * p \in Nat
  BY <1>1
<1>3. ASSUME NEW j \in Nat, j * p <= x PROVE j * p <= d * p
  <2>1. CASE j <= d BY <2>1, <1>1, Monotone
  <2>2. CASE j >= d + 1
    <3>1. (d + 1) * p <= j * p BY <2>2, <1>1, Monotone
    <3>2. (d + 1) * p \in Nat /\ j * p \in Nat BY <1>1
    <3> QED BY <3>1, <3>2, <1>2, <1>3
  <2> QED BY <2>1, <2>2, <1>1
<1> QED BY <1>1, <1>2, <1>3 DEF Pages

\* The greatest element of a non-empty bounded set of naturals, and Max is it.
LEMMA MaxProps ==
  ASSUME NEW N \in Nat, NEW S, S \subseteq 0..N, S # {}
  PROVE  Max(S) \in S /\ \A y \in S : Max(S) >= y
<1> DEFINE T == {N - x : x \in S}
<1>1. T \subseteq Nat /\ T # {}
  <2>1. \A x \in S : N - x \in Nat OBVIOUS
  <2>2. PICK x : x \in S OBVIOUS
  <2>3. N - x \in T BY <2>2
  <2> QED BY <2>1, <2>3
<1>2. Min(T) \in T /\ \A y \in T : Min(T) <= y
  <2> HIDE DEF T
  <2> QED BY <1>1, MinProps
<1>3. PICK x \in S : Min(T) = N - x
  BY <1>2
<1>4. \A y \in S : x >= y
  <2> TAKE y \in S
  <2>1. N - y \in T OBVIOUS
  <2>2. N - x <= N - y BY <2>1, <1>2, <1>3
  <2> QED BY <2>2
<1> QED BY <1>4 DEF Max

\* Common is the greatest length on which two sequences agree.
LEMMA CommonProps ==
  ASSUME NEW s \in Seq(Int), NEW t \in Seq(Int)
  PROVE  /\ Common(s, t) \in Nat
         /\ Agree(s, t, Common(s, t))
         /\ \A n \in Nat : Agree(s, t, n) => n <= Common(s, t)
<1> DEFINE L == Min({Len(s), Len(t)})
           S == {n \in 0 .. L : SubSeq(s, 1, n) = SubSeq(t, 1, n)}
<1>1. L \in Nat /\ L <= Len(s) /\ L <= Len(t) /\ (L = Len(s) \/ L = Len(t))
  <2>1. Min({Len(s), Len(t)}) \in {Len(s), Len(t)}
        /\ \A y \in {Len(s), Len(t)} : Min({Len(s), Len(t)}) <= y
    <3>1. {Len(s), Len(t)} \subseteq Nat /\ {Len(s), Len(t)} # {} OBVIOUS
    <3> QED BY ONLY <3>1, MinProps
  <2> QED BY <2>1
<1> HIDE DEF L
<1>2. \A n \in 0 .. L : SubSeq(s, 1, n) = SubSeq(t, 1, n) <=> Agree(s, t, n)
  <2> TAKE n \in 0 .. L
  <2>1. /\ SubSeq(s, 1, n) \in Seq(Int) /\ Len(SubSeq(s, 1, n)) = n
        /\ \A i \in 1..n : SubSeq(s, 1, n)[i] = s[i]
    BY <1>1, SubSeqProperties
  <2>2. /\ SubSeq(t, 1, n) \in Seq(Int) /\ Len(SubSeq(t, 1, n)) = n
        /\ \A i \in 1..n : SubSeq(t, 1, n)[i] = t[i]
    BY <1>1, SubSeqProperties
  <2>3. ASSUME Agree(s, t, n) PROVE SubSeq(s, 1, n) = SubSeq(t, 1, n)
    BY <2>1, <2>2, <2>3, SeqEqual DEF Agree
  <2>4. ASSUME SubSeq(s, 1, n) = SubSeq(t, 1, n) PROVE Agree(s, t, n)
    BY <2>1, <2>2, <2>4, <1>1 DEF Agree
  <2> QED BY <2>3, <2>4
<1>3. 0 \in S
  <2>1. Agree(s, t, 0) BY DEF Agree
  <2> QED BY <2>1, <1>1, <1>2
<1>4. Max(S) \in S /\ \A y \in S : Max(S) >= y
  <2>1. S \subseteq 0..L /\ S # {} BY <1>3
  <2> HIDE DEF S
  <2> QED BY <2>1, <1>1, MaxProps
<1>5. Common(s, t) = Max(S)
  BY DEF Common, S, L
<1>6. ASSUME NEW n \in Nat, Agree(s, t, n) PROVE n \in S
  <2>1. n \in 0 .. L BY <1>6, <1>1 DEF Agree
  <2> QED BY <1>6, <1>2, <2>1
<1>7. Max(S) \in Nat /\ Agree(s, t, Max(S))
  BY <1>4, <1>2, <1>1, SMTT(30)
<1> QED BY <1>4, <1>5, <1>6, <1>7

\* Agreeing on a length is symmetric, transitive, and holds on every shorter length.
LEMMA AgreeProps ==
  ASSUME NEW s \in Seq(Int), NEW t \in Seq(Int), NEW n \in Nat, Agree(s, t, n)
  PROVE  /\ Agree(t, s, n)
         /\ \A m \in Nat : m <= n => Agree(s, t, m)
         /\ \A u \in Seq(Int) : Agree(t, u, n) => Agree(s, u, n)
<1>1. Agree(t, s, n)
  BY DEF Agree
<1>2. ASSUME NEW m \in Nat, m <= n PROVE Agree(s, t, m)
  BY <1>2 DEF Agree
<1>3. ASSUME NEW u \in Seq(Int), Agree(t, u, n) PROVE Agree(s, u, n)
  <2>1. n <= Len(s) /\ n <= Len(u)
    BY <1>3 DEF Agree
  <2>2. ASSUME NEW i \in 1..n PROVE s[i] = u[i]
    <3>1. s[i] = t[i] BY DEF Agree
    <3>2. t[i] = u[i] BY <1>3 DEF Agree
    <3> QED BY ONLY <3>1, <3>2
  <2> QED BY ONLY <2>1, <2>2 DEF Agree
<1> QED BY <1>1, <1>2, <1>3

\* The first n elements of a sequence.
LEMMA Cut ==
  ASSUME NEW s \in Seq(Int), NEW n \in Nat, n <= Len(s)
  PROVE  /\ SubSeq(s, 1, n) \in Seq(Int)
         /\ Len(SubSeq(s, 1, n)) = n
         /\ Agree(SubSeq(s, 1, n), s, n)
<1>1. /\ SubSeq(s, 1, n) \in Seq(Int) /\ Len(SubSeq(s, 1, n)) = n
      /\ \A i \in 1..n : SubSeq(s, 1, n)[i] = s[i]
  BY SubSeqProperties
<1> QED BY <1>1 DEF Agree

\* Sequences of one length that agree on it are equal.
LEMMA AgreeEqual ==
  ASSUME NEW s \in Seq(Int), NEW t \in Seq(Int), Len(s) = Len(t), Agree(s, t, Len(s))
  PROVE  s = t
BY SeqEqual DEF Agree

\* IsPrefix is agreement on the whole of the first sequence.
LEMMA PrefixAgrees ==
  ASSUME NEW s \in Seq(Int), NEW t \in Seq(Int)
  PROVE  IsPrefix(s, t) <=> Agree(s, t, Len(s))
<1>1. ASSUME IsPrefix(s, t) PROVE Agree(s, t, Len(s))
  <2>1. Len(s) \in Nat /\ Len(s) <= Len(t) /\ SubSeq(s, 1, Len(s)) = SubSeq(t, 1, Len(s))
    BY <1>1 DEF IsPrefix
  <2>2. Agree(SubSeq(t, 1, Len(s)), t, Len(s)) /\ Agree(SubSeq(s, 1, Len(s)), s, Len(s))
    BY <2>1, Cut
  <2> QED BY <2>1, <2>2 DEF Agree
<1>2. ASSUME Agree(s, t, Len(s)) PROVE IsPrefix(s, t)
  <2>1. Len(s) \in Nat /\ Len(s) <= Len(t)
    BY <1>2 DEF Agree
  <2> DEFINE u == SubSeq(s, 1, Len(s))
             v == SubSeq(t, 1, Len(s))
  <2>2. u \in Seq(Int) /\ Len(u) = Len(s) /\ Agree(u, s, Len(s))
    BY <2>1, Cut
  <2>3. v \in Seq(Int) /\ Len(v) = Len(s) /\ Agree(v, t, Len(s))
    BY <2>1, Cut
  <2> HIDE DEF u, v
  <2>4. Agree(u, v, Len(s))
    BY <2>1, <2>2, <2>3, <1>2 DEF Agree
  <2>5. u = v
    BY <2>2, <2>3, <2>4, AgreeEqual
  <2> QED BY <2>5, <2>1 DEF IsPrefix, u, v
<1> QED BY <1>1, <1>2

\* CommonPages is the greatest number of whole pages on which two sequences agree.
LEMMA PagesProps ==
  ASSUME NEW p \in Nat \ {0}, NEW s \in Seq(Int), NEW t \in Seq(Int)
  PROVE  /\ CommonPages(s, t, p) \in Nat
         /\ CommonPages(s, t, p) \in Pages(p)
         /\ CommonPages(s, t, p) <= Len(s) /\ CommonPages(s, t, p) <= Len(t)
         /\ Agree(s, t, CommonPages(s, t, p))
         /\ \A n \in Pages(p) : Agree(s, t, n) => n <= CommonPages(s, t, p)
<1> DEFINE c == Common(s, t)
           d == (c \div p) * p
<1>1. c \in Nat /\ Agree(s, t, c) /\ \A n \in Nat : Agree(s, t, n) => n <= c
  BY CommonProps
<1>2. CommonPages(s, t, p) = d
  BY DEF CommonPages
<1> HIDE DEF c
<1>3. d \in Pages(p) /\ d \in Nat /\ d <= c /\ \A y \in Pages(p) : y <= c => y <= d
  BY <1>1, RoundDown
<1> HIDE DEF d
<1>4. Agree(s, t, d)
  BY <1>1, <1>3, AgreeProps
<1>5. Pages(p) \subseteq Nat
  BY DEF Pages
<1> QED BY <1>1, <1>2, <1>3, <1>4, <1>5 DEF Agree

\* What u and t share past which they differ within u, every extension of u shares too.
LEMMA SamePages ==
  ASSUME NEW p \in Nat \ {0}, NEW u \in Seq(Int), NEW s \in Seq(Int), NEW t \in Seq(Int),
         Agree(u, s, Len(u)), ~ Agree(u, t, Len(u))
  PROVE  CommonPages(s, t, p) = CommonPages(u, t, p)
<1> DEFINE x == CommonPages(s, t, p)
           y == CommonPages(u, t, p)
<1>1. x \in Nat /\ x \in Pages(p) /\ Agree(s, t, x) /\ \A n \in Pages(p) : Agree(s, t, n) => n <= x
  BY PagesProps
<1>2. y \in Nat /\ y \in Pages(p) /\ Agree(u, t, y) /\ \A n \in Pages(p) : Agree(u, t, n) => n <= y
  BY PagesProps
<1> HIDE DEF x, y
<1>3. Agree(s, t, y)
  <2>0. Len(u) \in Nat /\ Len(s) \in Nat /\ y \in Nat BY <1>2
  <2>1. y <= Len(u) /\ y <= Len(t) /\ \A i \in 1..y : u[i] = t[i]
    BY ONLY <1>2 DEF Agree
  <2>2. Len(u) <= Len(s) /\ \A i \in 1..Len(u) : u[i] = s[i]
    BY ONLY Agree(u, s, Len(u)) DEF Agree
  <2>3. y <= Len(s) /\ \A i \in 1..y : i \in 1..Len(u)
    BY ONLY <2>0, <2>1, <2>2
  <2>4. \A i \in 1..y : s[i] = t[i]
    BY ONLY <2>1, <2>2, <2>3
  <2> QED BY ONLY <2>1, <2>3, <2>4 DEF Agree
<1>4. x < Len(u)
  BY <1>1 DEF Agree
<1>5. Agree(u, t, x)
  <2>1. Len(u) \in Nat /\ x <= Len(u) BY <1>1, <1>4
  <2>2. Agree(u, s, x) BY <2>1, <1>1, AgreeProps
  <2> QED BY ONLY <2>2, <1>1, u \in Seq(Int), s \in Seq(Int), t \in Seq(Int), AgreeProps
<1>6. x <= y /\ y <= x
  BY <1>1, <1>2, <1>3, <1>5
<1> QED BY <1>6, <1>1, <1>2 DEF x, y

\* Aligned is the longest prefix of whole pages.
LEMMA AlignedProps ==
  ASSUME NEW p \in Nat \ {0}, NEW t \in Seq(Int)
  PROVE  /\ Aligned(t, p) \in Seq(Int)
         /\ Len(Aligned(t, p)) \in Pages(p)
         /\ Len(Aligned(t, p)) <= Len(t)
         /\ Agree(Aligned(t, p), t, Len(Aligned(t, p)))
         /\ \A n \in Pages(p) : n <= Len(t) => n <= Len(Aligned(t, p))
<1> DEFINE d == (Len(t) \div p) * p
<1>1. Len(t) \in Nat
  OBVIOUS
<1>2. d \in Pages(p) /\ d \in Nat /\ d <= Len(t) /\ \A y \in Pages(p) : y <= Len(t) => y <= d
  BY <1>1, RoundDown
<1>3. Aligned(t, p) = SubSeq(t, 1, d)
  BY DEF Aligned
<1> HIDE DEF d
<1>4. SubSeq(t, 1, d) \in Seq(Int) /\ Len(SubSeq(t, 1, d)) = d /\ Agree(SubSeq(t, 1, d), t, d)
  BY <1>2, Cut
<1> QED BY <1>2, <1>3, <1>4

\* Rounding a sequence down to whole pages keeps the pages it shares with any other.
LEMMA AlignedShares ==
  ASSUME NEW p \in Nat \ {0}, NEW s \in Seq(Int), NEW t \in Seq(Int)
  PROVE  CommonPages(Aligned(s, p), t, p) = CommonPages(s, t, p)
<1> DEFINE a == Aligned(s, p)
           x == CommonPages(s, t, p)
           y == CommonPages(a, t, p)
<1>0. /\ a \in Seq(Int) /\ Len(a) <= Len(s) /\ Agree(a, s, Len(a))
      /\ \A n \in Pages(p) : n <= Len(s) => n <= Len(a)
  BY AlignedProps
<1> HIDE DEF a
<1>1. x \in Nat /\ x \in Pages(p) /\ Agree(s, t, x) /\ \A n \in Pages(p) : Agree(s, t, n) => n <= x
  BY PagesProps
<1>2. y \in Nat /\ y \in Pages(p) /\ Agree(a, t, y) /\ \A n \in Pages(p) : Agree(a, t, n) => n <= y
  BY <1>0, PagesProps
<1> HIDE DEF x, y
<1>3. Agree(s, t, y)
  <2>0. Len(a) \in Nat /\ Len(s) \in Nat /\ y \in Nat BY <1>2, <1>0
  <2>1. y <= Len(a) /\ y <= Len(t) /\ \A i \in 1..y : a[i] = t[i]
    BY ONLY <1>2 DEF Agree
  <2>2. Len(a) <= Len(s) /\ \A i \in 1..Len(a) : a[i] = s[i]
    BY ONLY <1>0 DEF Agree
  <2>3. y <= Len(s) /\ \A i \in 1..y : i \in 1..Len(a)
    BY ONLY <2>0, <2>1, <2>2
  <2>4. \A i \in 1..y : s[i] = t[i]
    BY ONLY <2>1, <2>2, <2>3
  <2> QED BY ONLY <2>1, <2>3, <2>4 DEF Agree
<1>4. x <= Len(a)
  BY <1>0, <1>1 DEF Agree
<1>5. Agree(a, t, x)
  <2>1. Len(a) \in Nat BY <1>0
  <2>2. Agree(a, s, x) BY <2>1, <1>0, <1>1, <1>4, AgreeProps
  <2> QED BY ONLY <2>2, <1>0, <1>1, s \in Seq(Int), t \in Seq(Int), AgreeProps
<1>6. x <= y /\ y <= x
  BY <1>1, <1>2, <1>3, <1>5
<1> QED BY <1>6, <1>1, <1>2 DEF x, y, a

-----------------------------------------------------------------------------
(* The radix tree.                                                         *)

Node == [ns : Namespace, path : Seq(Int)]
Leaf(k, p) == [ns |-> k.ns, path |-> Aligned(k.tokens, p)]
Meet(m, o, p) == [ns |-> m.ns, path |-> SubSeq(m.path, 1, CommonPages(m.path, o.path, p))]

\* Every node is whole pages long and begins its source, an entry of its namespace.
Sound(tr, E, p) ==
    \A m \in DOMAIN tr :
        /\ m \in Node /\ m.path # <<>> /\ Len(m.path) \in Pages(p)
        /\ tr[m] \in E /\ tr[m].ns = m.ns
        /\ Agree(m.path, tr[m].tokens, Len(m.path))

\* Every entry of at least a page has its node.
Complete(tr, E, p) == \A k \in E : Aligned(k.tokens, p) # <<>> => Leaf(k, p) \in DOMAIN tr

\* Where two nodes part there is a node.
Branching(tr, p) ==
    \A m, o \in DOMAIN tr :
        m.ns = o.ns /\ CommonPages(m.path, o.path, p) > 0 => Meet(m, o, p) \in DOMAIN tr

\* tr is a radix tree of the entries E.
TreeOf(tr, E, p) == Sound(tr, E, p) /\ Complete(tr, E, p) /\ Branching(tr, p)

\* Reached is the longest node on the way along t, or the root.
LEMMA ReachedProps ==
  ASSUME NEW p \in Nat \ {0}, NEW ns \in Namespace, NEW t \in Seq(Int), NEW tr, NEW E,
         Sound(tr, E, p)
  PROVE  /\ Reached(tr, ns, t) \in Seq(Int)
         /\ Len(Reached(tr, ns, t)) \in Nat /\ Len(Reached(tr, ns, t)) <= Len(t)
         /\ Reached(tr, ns, t) = SubSeq(t, 1, Len(Reached(tr, ns, t)))
         /\ Agree(Reached(tr, ns, t), t, Len(Reached(tr, ns, t)))
         /\ Len(Reached(tr, ns, t)) > 0 => [ns |-> ns, path |-> Reached(tr, ns, t)] \in DOMAIN tr
         /\ \A m \in DOMAIN tr :
                m.ns = ns /\ Agree(m.path, t, Len(m.path)) => Len(m.path) <= Len(Reached(tr, ns, t))
<1> DEFINE M == {m \in DOMAIN tr : m.ns = ns /\ IsPrefix(m.path, t)}
           S == {Len(n.path) : n \in M} \cup {0}
           x == Max(S)
           r == SubSeq(t, 1, x)
<1>1. \A m \in DOMAIN tr : m \in Node /\ m.path \in Seq(Int) /\ Len(m.path) \in Nat
  BY DEF Sound, Node
<1>2. \A m \in DOMAIN tr : IsPrefix(m.path, t) <=> Agree(m.path, t, Len(m.path))
  BY <1>1, PrefixAgrees
<1>3. \A m \in M : Len(m.path) \in 0 .. Len(t)
  BY <1>1, <1>2 DEF Agree
<1>4. x \in S /\ \A y \in S : x >= y
  <2>1. S \subseteq 0 .. Len(t) /\ S # {} /\ Len(t) \in Nat
    BY <1>3
  <2> HIDE DEF S
  <2> QED BY ONLY <2>1, MaxProps DEF x
<1>5. x \in Nat /\ x <= Len(t)
  BY <1>3, <1>4
<1>6. Reached(tr, ns, t) = r
  BY DEF Reached, r, x, S, M
<1>7. r \in Seq(Int) /\ Len(r) = x /\ Agree(r, t, x)
  <2> HIDE DEF x
  <2> QED BY <1>5, Cut DEF r
<1>8. ASSUME NEW m \in DOMAIN tr, m.ns = ns, Agree(m.path, t, Len(m.path))
      PROVE  Len(m.path) <= x
  <2>1. m \in M BY <1>8, <1>2
  <2>2. Len(m.path) \in S BY <2>1
  <2> QED BY <2>2, <1>4, <1>5, <1>1
<1>9. ASSUME x > 0 PROVE [ns |-> ns, path |-> r] \in DOMAIN tr
  <2>1. PICK m \in M : x = Len(m.path)
    BY <1>4, <1>9
  <2>2. m \in DOMAIN tr /\ m.ns = ns /\ Agree(m.path, t, Len(m.path)) /\ m.path \in Seq(Int)
    BY <1>1, <1>2
  <2>3. Agree(m.path, r, Len(m.path))
    <3> HIDE DEF r, x
    <3> QED BY ONLY <2>1, <2>2, <1>5, <1>7, t \in Seq(Int), AgreeProps
  <2>4. m.path = r
    <3> HIDE DEF r, x
    <3> QED BY ONLY <2>1, <2>2, <2>3, <1>7, AgreeEqual
  <2>5. m = [ns |-> m.ns, path |-> m.path]
    BY <1>1, <2>2 DEF Node
  <2> QED BY <2>2, <2>4, <2>5
<1> HIDE DEF r, x
<1>10. r = SubSeq(t, 1, x) BY DEF r
<1> QED BY <1>5, <1>6, <1>7, <1>8, <1>9, <1>10

\* Child is the shortest node below the point that the walk reached.
LEMMA ChildProps ==
  ASSUME NEW p \in Nat \ {0}, NEW ns \in Namespace, NEW t \in Seq(Int), NEW tr, NEW E,
         Sound(tr, E, p), Below(tr, ns, t, p) # {}
  PROVE  /\ Child(tr, ns, t, p) \in Below(tr, ns, t, p)
         /\ \A o \in Below(tr, ns, t, p) : Len(Child(tr, ns, t, p).path) <= Len(o.path)
<1> DEFINE B == Below(tr, ns, t, p)
           L == {Len(m.path) : m \in B}
<1>1. \A m \in B : Len(m.path) \in Nat
  BY DEF Below, Sound, Node
<1>2. L \subseteq Nat /\ L # {}
  BY <1>1
<1>3. Min(L) \in L /\ \A y \in L : Min(L) <= y
  <2> HIDE DEF L
  <2> QED BY <1>2, MinProps
<1>4. PICK m \in B : \A o \in B : Len(m.path) <= Len(o.path)
  BY <1>3
<1> QED BY <1>4 DEF Child

\* Every node below the reached point continues the child there, so it shares with t
\* what the child shares.
LEMMA BelowShares ==
  ASSUME NEW p \in Nat \ {0}, NEW ns \in Namespace, NEW t \in Seq(Int), NEW tr, NEW E,
         Sound(tr, E, p), Branching(tr, p), NEW o \in Below(tr, ns, t, p)
  PROVE  LET c == Child(tr, ns, t, p)
         IN  /\ c \in DOMAIN tr /\ c.ns = ns /\ c.path \in Seq(Int)
             /\ CommonPages(c.path, t, p) > Len(Reached(tr, ns, t))
             /\ ~ Agree(c.path, t, Len(c.path))
             /\ Agree(c.path, o.path, Len(c.path))
             /\ CommonPages(o.path, t, p) = CommonPages(c.path, t, p)
<1> DEFINE c == Child(tr, ns, t, p)
           n == Len(Reached(tr, ns, t))
           x == CommonPages(c.path, t, p)
           y == CommonPages(o.path, t, p)
           z == CommonPages(c.path, o.path, p)
           b == Meet(c, o, p)
<1>0. \A m : m \in Below(tr, ns, t, p) <=> m \in DOMAIN tr /\ m.ns = ns /\ CommonPages(m.path, t, p) > n
  BY DEF Below
<1>1. c \in Below(tr, ns, t, p) /\ \A m \in Below(tr, ns, t, p) : Len(c.path) <= Len(m.path)
  BY ChildProps
<1>2. n \in Nat /\ \A m \in DOMAIN tr : m.ns = ns /\ Agree(m.path, t, Len(m.path)) => Len(m.path) <= n
  BY ReachedProps
<1> HIDE DEF c, n
<1>3. c \in DOMAIN tr /\ c.ns = ns /\ c.path \in Seq(Int) /\ x > n
  BY <1>0, <1>1 DEF Sound, Node
<1>4. o \in DOMAIN tr /\ o.ns = ns /\ o.path \in Seq(Int) /\ y > n
  BY <1>0 DEF Sound, Node
<1>5. x \in Nat /\ x \in Pages(p) /\ x <= Len(c.path) /\ Agree(c.path, t, x)
      /\ \A i \in Pages(p) : Agree(c.path, t, i) => i <= x
  BY <1>3, PagesProps
<1>6. y \in Nat /\ y \in Pages(p) /\ Agree(o.path, t, y)
  BY <1>4, PagesProps
<1>7. z \in Nat /\ z \in Pages(p) /\ z <= Len(c.path) /\ Agree(c.path, o.path, z)
      /\ \A i \in Pages(p) : Agree(c.path, o.path, i) => i <= z
  BY <1>3, <1>4, PagesProps
<1>8. b = [ns |-> ns, path |-> SubSeq(c.path, 1, z)]
  BY <1>3 DEF Meet
<1>9. /\ b.ns = ns /\ b.path \in Seq(Int) /\ Len(b.path) = z
      /\ Agree(b.path, c.path, z)
  <2>1. /\ SubSeq(c.path, 1, z) \in Seq(Int) /\ Len(SubSeq(c.path, 1, z)) = z
        /\ Agree(SubSeq(c.path, 1, z), c.path, z)
    BY <1>3, <1>7, Cut
  <2> QED BY <2>1, <1>8
<1> HIDE DEF x, y, z, b
<1>10. ~ Agree(c.path, t, Len(c.path))
  BY <1>2, <1>3, <1>5
\* Both agree with t on more than n tokens, so they agree with each other there.
<1>11. z > n
  <2> DEFINE i == IF x <= y THEN x ELSE y
  <2>1. i \in Nat /\ i \in Pages(p) /\ i > n /\ i <= x /\ i <= y
    BY <1>3, <1>4, <1>5, <1>6
  <2> HIDE DEF i
  <2>2. Agree(c.path, t, i) /\ Agree(o.path, t, i)
    BY ONLY <2>1, <1>3, <1>4, <1>5, <1>6, t \in Seq(Int), AgreeProps
  <2>3. Agree(c.path, o.path, i)
    BY ONLY <2>1, <2>2, <1>3, <1>4, t \in Seq(Int), AgreeProps
  <2> QED BY <2>1, <2>3, <1>2, <1>7
<1>12. b \in DOMAIN tr
  <2>1. z > 0 BY <1>11, <1>2, <1>7
  <2> QED BY <2>1, <1>3, <1>4 DEF Branching, b, z
\* Where the two part is a node below n, so no shorter than the child: it is the child.
<1>13. CommonPages(b.path, t, p) > n
  <2> DEFINE i == IF x <= z THEN x ELSE z
             w == CommonPages(b.path, t, p)
  <2>1. i \in Nat /\ i \in Pages(p) /\ i > n /\ i <= x /\ i <= z
    BY <1>3, <1>5, <1>7, <1>11
  <2>2. w \in Nat /\ \A j \in Pages(p) : Agree(b.path, t, j) => j <= w
    BY <1>9, PagesProps
  <2> HIDE DEF i, w
  <2>3. Agree(c.path, t, i) /\ Agree(b.path, c.path, i)
    BY ONLY <2>1, <1>3, <1>5, <1>7, <1>9, t \in Seq(Int), AgreeProps
  <2>4. Agree(b.path, t, i)
    BY ONLY <2>1, <2>3, <1>3, <1>9, t \in Seq(Int), AgreeProps
  <2>5. i <= w BY <2>1, <2>2, <2>4
  <2> QED BY <2>1, <2>2, <2>5, <1>2 DEF w
<1>14. z = Len(c.path)
  <2>1. b \in Below(tr, ns, t, p)
    BY <1>0, <1>9, <1>12, <1>13
  <2>2. Len(c.path) <= z BY <2>1, <1>1, <1>9
  <2> QED BY <2>2, <1>3, <1>7
<1>15. Agree(c.path, o.path, Len(c.path))
  BY <1>7, <1>14
<1>16. y = x
  BY <1>3, <1>4, <1>10, <1>15, SamePages DEF x, y
<1> QED BY <1>3, <1>10, <1>15, <1>16 DEF c, n, x, y

\* The order of the two sequences does not matter to the pages they share.
LEMMA PagesSymmetric ==
  ASSUME NEW p \in Nat \ {0}, NEW s \in Seq(Int), NEW t \in Seq(Int)
  PROVE  CommonPages(s, t, p) = CommonPages(t, s, p)
<1> DEFINE x == CommonPages(s, t, p)
           y == CommonPages(t, s, p)
<1>1. x \in Nat /\ x \in Pages(p) /\ Agree(s, t, x) /\ \A n \in Pages(p) : Agree(s, t, n) => n <= x
  BY PagesProps
<1>2. y \in Nat /\ y \in Pages(p) /\ Agree(t, s, y) /\ \A n \in Pages(p) : Agree(t, s, n) => n <= y
  BY PagesProps
<1> HIDE DEF x, y
<1>3. Agree(t, s, x) /\ Agree(s, t, y)
  BY <1>1, <1>2, AgreeProps
<1>4. x <= y /\ y <= x
  BY <1>1, <1>2, <1>3
<1> QED BY <1>4, <1>1, <1>2 DEF x, y

\* Sequences that agree on n tokens have the same first n tokens.
LEMMA SameCut ==
  ASSUME NEW s \in Seq(Int), NEW t \in Seq(Int), NEW n \in Nat, Agree(s, t, n)
  PROVE  SubSeq(s, 1, n) = SubSeq(t, 1, n)
<1> DEFINE u == SubSeq(s, 1, n)
           v == SubSeq(t, 1, n)
<1>1. n <= Len(s) /\ n <= Len(t)
  BY DEF Agree
<1>2. u \in Seq(Int) /\ Len(u) = n /\ Agree(u, s, n)
  BY <1>1, Cut
<1>3. v \in Seq(Int) /\ Len(v) = n /\ Agree(v, t, n)
  BY <1>1, Cut
<1> HIDE DEF u, v
<1>4. Agree(u, v, n)
  BY <1>2, <1>3 DEF Agree
<1>5. u = v
  BY ONLY <1>2, <1>3, <1>4, AgreeEqual
<1> QED BY <1>5 DEF u, v

\* Where two nodes part does not depend on their order.
LEMMA MeetSymmetric ==
  ASSUME NEW p \in Nat \ {0}, NEW m \in Node, NEW o \in Node, m.ns = o.ns
  PROVE  Meet(m, o, p) = Meet(o, m, p)
<1>1. m.path \in Seq(Int) /\ o.path \in Seq(Int)
  BY DEF Node
<1> DEFINE x == CommonPages(m.path, o.path, p)
<1>2. x \in Nat /\ Agree(m.path, o.path, x)
  BY <1>1, PagesProps
<1>3. x = CommonPages(o.path, m.path, p)
  BY <1>1, PagesSymmetric
<1> HIDE DEF x
<1>4. SubSeq(m.path, 1, x) = SubSeq(o.path, 1, x)
  BY <1>1, <1>2, SameCut
<1>5. Meet(m, o, p) = [ns |-> m.ns, path |-> SubSeq(m.path, 1, x)]
  BY DEF Meet, x
<1>6. Meet(o, m, p) = [ns |-> o.ns, path |-> SubSeq(o.path, 1, x)]
  BY <1>3 DEF Meet
<1> QED BY <1>4, <1>5, <1>6

\* Where a sequence that passes the reached point parts from a node before that point
\* there is a node already.
LEMMA MeetsAbove ==
  ASSUME NEW p \in Nat \ {0}, NEW ns \in Namespace, NEW t \in Seq(Int), NEW tr, NEW E,
         Sound(tr, E, p), Branching(tr, p), NEW u \in Seq(Int), NEW m \in DOMAIN tr, m.ns = ns,
         Agree(Reached(tr, ns, t), u, Len(Reached(tr, ns, t))),
         CommonPages(u, m.path, p) > 0,
         CommonPages(u, m.path, p) <= Len(Reached(tr, ns, t))
  PROVE  [ns |-> ns, path |-> SubSeq(u, 1, CommonPages(u, m.path, p))] \in DOMAIN tr
<1> DEFINE r == Reached(tr, ns, t)
           j == CommonPages(u, m.path, p)
           i == CommonPages(r, m.path, p)
           R == [ns |-> ns, path |-> r]
<1>1. r \in Seq(Int) /\ Len(r) \in Nat /\ (Len(r) > 0 => R \in DOMAIN tr)
  BY ReachedProps
<1> HIDE DEF r
<1>2. Agree(r, u, Len(r)) /\ j > 0 /\ j <= Len(r)
  BY DEF r
<1>3. m.path \in Seq(Int)
  BY DEF Sound, Node
<1>4. j \in Nat /\ j \in Pages(p) /\ Agree(u, m.path, j)
      /\ \A x \in Pages(p) : Agree(u, m.path, x) => x <= j
  BY <1>3, PagesProps
<1>5. i \in Nat /\ i \in Pages(p) /\ i <= Len(r) /\ Agree(r, m.path, i)
      /\ \A x \in Pages(p) : Agree(r, m.path, x) => x <= i
  BY <1>1, <1>3, PagesProps
<1> HIDE DEF i, j
<1>6. Agree(r, u, j) /\ Agree(r, u, i)
  BY ONLY <1>1, <1>2, <1>4, <1>5, u \in Seq(Int), AgreeProps
<1>7. Agree(r, m.path, j)
  BY ONLY <1>1, <1>3, <1>4, <1>6, u \in Seq(Int), AgreeProps
<1>8. Agree(u, m.path, i)
  <2>1. Agree(u, r, i)
    BY ONLY <1>1, <1>5, <1>6, u \in Seq(Int), AgreeProps
  <2> QED BY ONLY <2>1, <1>1, <1>3, <1>5, u \in Seq(Int), AgreeProps
<1>9. i = j
  BY <1>4, <1>5, <1>7, <1>8
<1>10. R \in DOMAIN tr /\ R.ns = m.ns /\ R.path = r
  BY <1>1, <1>2, <1>4
<1>11. Meet(R, m, p) = [ns |-> ns, path |-> SubSeq(r, 1, j)]
  BY <1>9 DEF Meet, i
<1>12. Meet(R, m, p) \in DOMAIN tr
  <2>1. CommonPages(R.path, m.path, p) > 0 BY <1>2, <1>4, <1>9 DEF i
  <2> HIDE DEF R
  <2> QED BY <2>1, <1>10 DEF Branching
<1>13. SubSeq(r, 1, j) = SubSeq(u, 1, j)
  BY <1>1, <1>4, <1>6, SameCut
<1> QED BY <1>11, <1>12, <1>13 DEF j

\* A node for t parts from every node of its namespace at a node.
Forks(tr, ns, t, p) ==
    \A m \in DOMAIN tr :
        m.ns = ns /\ CommonPages(t, m.path, p) > 0
        => [ns |-> ns, path |-> SubSeq(t, 1, CommonPages(t, m.path, p))]
           \in DOMAIN tr \cup {[ns |-> ns, path |-> t]}

\* w is a sound and branching tree with the nodes of tr and one for t.
Grown(w, tr, ns, t, E, p) ==
    /\ DOMAIN w = DOMAIN tr \cup {[ns |-> ns, path |-> t]}
    /\ Sound(w, E, p)
    /\ Branching(w, p)

\* A node added where it parts from the others at nodes keeps the tree sound and branching.
LEMMA AddNode ==
  ASSUME NEW p \in Nat \ {0}, NEW ns \in Namespace, NEW t \in Seq(Int), NEW tr, NEW E,
         Sound(tr, E, p), Branching(tr, p),
         t # <<>>, Len(t) \in Pages(p), NEW k \in E, k.ns = ns, Agree(t, k.tokens, Len(t)),
         Forks(tr, ns, t, p)
  PROVE  Grown(With(tr, ns, t, k), tr, ns, t, E, p)
<1> DEFINE n == [ns |-> ns, path |-> t]
           D == DOMAIN tr \cup {n}
           w == With(tr, ns, t, k)
<1>1. DOMAIN w = D
  BY DEF With
<1>2. n.ns = ns /\ n.path = t /\ n \in Node
  BY DEF Node
<1>3. \A m \in DOMAIN tr : m \in Node
  BY DEF Sound
<1>4. \A m \in D : (m.ns = ns /\ m.path = t) <=> m = n
  <2> TAKE m \in D
  <2>1. m = [ns |-> m.ns, path |-> m.path]
    BY <1>2, <1>3 DEF Node
  <2> QED BY <2>1
<1>5. w[n] = k /\ \A m \in DOMAIN tr : w[m] = IF m = n THEN k ELSE tr[m]
  BY <1>4, <1>2 DEF With
<1> HIDE DEF w
<1>6. Sound(w, E, p)
  <2> SUFFICES ASSUME NEW m \in D
               PROVE  /\ m \in Node /\ m.path # <<>> /\ Len(m.path) \in Pages(p)
                      /\ w[m] \in E /\ w[m].ns = m.ns
                      /\ Agree(m.path, w[m].tokens, Len(m.path))
    BY <1>1 DEF Sound
  <2> HIDE DEF n
  <2>1. CASE m = n
    BY <2>1, <1>2, <1>5
  <2>2. CASE m # n
    BY <2>2, <1>5 DEF Sound
  <2> QED BY <2>1, <2>2
<1>7. \A m \in DOMAIN tr : m.ns = ns /\ CommonPages(t, m.path, p) > 0 => Meet(n, m, p) \in D
  BY <1>2 DEF Meet, Forks
<1>8. Meet(n, n, p) \in D
  <2> DEFINE x == CommonPages(t, t, p)
  <2>1. x \in Nat /\ x <= Len(t) /\ \A i \in Pages(p) : Agree(t, t, i) => i <= x
    BY PagesProps
  <2>2. Agree(t, t, Len(t))
    BY DEF Agree
  <2> HIDE DEF x
  <2>3. x = Len(t)
    BY <2>1, <2>2
  <2>4. SubSeq(t, 1, Len(t)) = t
    <3>1. Len(t) \in Nat OBVIOUS
    <3>2. /\ SubSeq(t, 1, Len(t)) \in Seq(Int) /\ Len(SubSeq(t, 1, Len(t))) = Len(t)
          /\ Agree(SubSeq(t, 1, Len(t)), t, Len(t))
      BY <3>1, Cut
    <3> QED BY <3>2, AgreeEqual
  <2>5. Meet(n, n, p) = n
    BY <2>3, <2>4, <1>2 DEF Meet, x
  <2> QED BY <2>5
<1>9. Branching(w, p)
  <2> SUFFICES ASSUME NEW m \in D, NEW o \in D, m.ns = o.ns, CommonPages(m.path, o.path, p) > 0
               PROVE  Meet(m, o, p) \in D
    BY <1>1 DEF Branching
  <2>0. m.path \in Seq(Int) /\ o.path \in Seq(Int) /\ m \in Node /\ o \in Node
    BY <1>2, <1>3 DEF Node
  <2> HIDE DEF n
  <2>1. CASE m = n /\ o = n
    BY <2>1, <1>8
  <2>2. CASE m = n /\ o # n
    BY <2>2, <1>2, <1>7
  <2>3. CASE m # n /\ o = n
    <3>1. CommonPages(t, m.path, p) > 0 /\ m.ns = ns /\ m \in DOMAIN tr
      BY <2>0, <2>3, <1>2, PagesSymmetric
    <3>2. Meet(n, m, p) \in D
      BY <3>1, <1>7
    <3>3. Meet(m, o, p) = Meet(o, m, p)
      BY <2>0, MeetSymmetric
    <3> QED BY <3>2, <3>3, <2>3
  <2>4. CASE m # n /\ o # n
    BY <2>4 DEF Branching
  <2> QED BY <2>1, <2>2, <2>3, <2>4
<1> QED BY <1>1, <1>6, <1>9 DEF w, Grown

\* A node that is not below the reached point shares no more than that point with t.
LEMMA NotBelow ==
  ASSUME NEW p \in Nat \ {0}, NEW ns \in Namespace, NEW t \in Seq(Int), NEW tr, NEW E,
         Sound(tr, E, p), NEW m \in DOMAIN tr, m.ns = ns, m \notin Below(tr, ns, t, p),
         NEW u \in Seq(Int), Agree(u, t, Len(u))
  PROVE  CommonPages(u, m.path, p) <= Len(Reached(tr, ns, t))
<1> DEFINE n == Len(Reached(tr, ns, t))
           x == CommonPages(m.path, t, p)
           j == CommonPages(u, m.path, p)
<1>1. ~ (x > n) /\ n \in Nat
  BY ReachedProps DEF Below
<1>2. m.path \in Seq(Int)
  BY DEF Sound, Node
<1>3. x \in Nat /\ \A i \in Pages(p) : Agree(m.path, t, i) => i <= x
  BY <1>2, PagesProps
<1>4. j \in Nat /\ j \in Pages(p) /\ j <= Len(u) /\ Agree(u, m.path, j)
  BY <1>2, PagesProps
<1> HIDE DEF n, x, j
<1>5. Agree(u, t, j) /\ Agree(m.path, u, j)
  BY <1>2, <1>4, AgreeProps
<1>6. Agree(m.path, t, j)
  BY ONLY <1>2, <1>4, <1>5, u \in Seq(Int), t \in Seq(Int), AgreeProps
<1>7. j <= x
  BY <1>3, <1>4, <1>6
<1> QED BY <1>1, <1>3, <1>4, <1>7 DEF n, j

\* _insert_entry makes the radix tree of some entries into that of one more.
LEMMA InsertKeepsTree ==
  ASSUME NEW p \in Nat \ {0}, NEW tr, NEW E, E \subseteq Keys, NEW k \in Keys, TreeOf(tr, E, p)
  PROVE  TreeOf(InsertEntry(tr, k, p), E \cup {k}, p)
<1> DEFINE F == E \cup {k}
           ns == k.ns
           t == Aligned(k.tokens, p)
           r == Reached(tr, ns, t)
           B == Below(tr, ns, t, p)
           c == Child(tr, ns, t, p)
           x == CommonPages(c.path, t, p)
           at == SubSeq(t, 1, x)
           leaf == [ns |-> ns, path |-> t]
           fork == [ns |-> ns, path |-> at]
<1>1. k.tokens \in Seq(Int) /\ ns \in Namespace
  BY PromptAssumption DEF Keys
<1>2. t \in Seq(Int) /\ Len(t) \in Pages(p) /\ Agree(t, k.tokens, Len(t))
  BY <1>1, AlignedProps
<1>3. Sound(tr, F, p) /\ Branching(tr, p) /\ Complete(tr, E, p) /\ k \in F /\ E \subseteq F
  BY DEF TreeOf, Sound
<1>4. ASSUME NEW w, DOMAIN tr \subseteq DOMAIN w, t # <<>> => leaf \in DOMAIN w
      PROVE  Complete(w, F, p)
  BY <1>3, <1>4 DEF Complete, Leaf
<1>5. InsertEntry(tr, k, p) =
        IF t = <<>> THEN tr
        ELSE IF t = r \/ B = {} THEN With(tr, ns, t, k)
        ELSE With(With(tr, ns, at, tr[c]), ns, t, k)
  BY DEF InsertEntry
<1> HIDE DEF F, ns, t
<1>6. /\ r \in Seq(Int) /\ Len(r) \in Nat /\ Len(r) <= Len(t)
      /\ Agree(r, t, Len(r))
      /\ Len(r) > 0 => [ns |-> ns, path |-> r] \in DOMAIN tr
  BY <1>1, <1>2, <1>3, ReachedProps
<1>7. \A m \in B : m \in DOMAIN tr
  BY DEF Below
<1>8. Agree(t, t, Len(t))
  BY <1>2 DEF Agree
<1>9. \A m \in DOMAIN tr : m.ns = ns /\ m \notin B => CommonPages(t, m.path, p) <= Len(r)
  BY <1>1, <1>2, <1>3, <1>8, NotBelow
<1>10. \A m \in DOMAIN tr : m.ns = ns /\ m \notin B /\ CommonPages(t, m.path, p) > 0
          => [ns |-> ns, path |-> SubSeq(t, 1, CommonPages(t, m.path, p))] \in DOMAIN tr
  BY <1>1, <1>2, <1>3, <1>6, <1>9, MeetsAbove
<1>11. CASE t = <<>>
  BY <1>3, <1>4, <1>5, <1>11 DEF TreeOf, F
<1>12. CASE t # <<>> /\ (t = r \/ B = {})
  <2>1. ASSUME NEW m \in DOMAIN tr, m.ns = ns, CommonPages(t, m.path, p) > 0
        PROVE  [ns |-> ns, path |-> SubSeq(t, 1, CommonPages(t, m.path, p))] \in DOMAIN tr
    <3>1. CASE B = {}
      BY <3>1, <2>1, <1>10
    <3>2. CASE t = r
      <4>1. leaf \in DOMAIN tr
        <5>1. Len(r) > 0 BY <1>2, <1>12, <3>2, EmptySeq
        <5> QED BY <5>1, <1>6, <3>2
      <4>2. leaf.ns = m.ns /\ leaf.path = t
        BY <2>1
      <4> HIDE DEF leaf
      <4>3. Meet(leaf, m, p) \in DOMAIN tr
        BY <4>1, <4>2, <2>1, <1>3 DEF Branching
      <4> QED BY <4>3, <4>2, <2>1 DEF Meet
    <3> QED BY <3>1, <3>2, <1>12
  <2> DEFINE w == With(tr, ns, t, k)
  <2>2. DOMAIN w = DOMAIN tr \cup {leaf} /\ Sound(w, F, p) /\ Branching(w, p)
    <3>1. k.ns = ns BY DEF ns
    <3>2. Forks(tr, ns, t, p) BY <2>1 DEF Forks
    <3>3. Grown(w, tr, ns, t, F, p)
      BY ONLY p \in Nat \ {0}, <3>1, <3>2, <1>1, <1>2, <1>3, <1>12, AddNode
    <3> QED BY <3>3 DEF Grown
  <2>3. InsertEntry(tr, k, p) = w
    BY <1>5, <1>12
  <2> HIDE DEF w, leaf
  <2>4. Complete(w, F, p)
    BY <2>2, <1>4
  <2> QED BY <2>2, <2>3, <2>4 DEF TreeOf, F
<1>13. CASE t # <<>> /\ t # r /\ B # {}
  <2>0. PICK b : b \in B
    BY <1>13
  <2>1. /\ c \in DOMAIN tr /\ c.ns = ns /\ c.path \in Seq(Int)
        /\ x > Len(r)
    BY <2>0, <1>1, <1>2, <1>3, BelowShares
  <2>2. \A m \in B : CommonPages(m.path, t, p) = x
    BY <1>1, <1>2, <1>3, BelowShares
  <2>3. x \in Nat /\ x \in Pages(p) /\ x <= Len(c.path) /\ x <= Len(t) /\ Agree(c.path, t, x)
    BY <2>1, <1>2, PagesProps
  <2> HIDE DEF x, c, r, B
  <2>4. at \in Seq(Int) /\ Len(at) = x /\ Agree(at, t, x)
    BY <2>3, <1>2, Cut
  <2> HIDE DEF at
  <2>5. at # <<>>
    BY <2>1, <2>3, <2>4, <1>6
  <2>6. /\ tr[c] \in F /\ tr[c].ns = ns /\ Agree(c.path, tr[c].tokens, Len(c.path))
        /\ tr[c].tokens \in Seq(Int)
    BY <2>1, <1>3, PromptAssumption DEF Sound, F, Keys
  <2>7. Agree(at, tr[c].tokens, Len(at))
    <3>1. Agree(c.path, tr[c].tokens, x)
      BY <2>1, <2>3, <2>6, AgreeProps
    <3>2. Agree(t, c.path, x)
      BY <2>1, <2>3, <1>2, AgreeProps
    <3>3. Agree(at, c.path, x)
      BY ONLY <3>2, <2>1, <2>3, <2>4, <1>2, AgreeProps
    <3>4. Agree(at, tr[c].tokens, x)
      BY ONLY <3>1, <3>3, <2>1, <2>3, <2>4, <2>6, AgreeProps
    <3> QED BY <3>4, <2>4
  <2>8. Agree(r, at, Len(r))
    <3>1. Agree(t, at, x) BY <2>3, <2>4, <1>2, AgreeProps
    <3>2. Agree(t, at, Len(r)) BY <3>1, <2>1, <2>3, <2>4, <1>2, <1>6, AgreeProps
    <3> QED BY ONLY <3>2, <2>4, <1>2, <1>6, AgreeProps
  <2>9. Agree(at, t, Len(at))
    BY <2>4
  <2>10. \A m \in DOMAIN tr : m.path \in Seq(Int)
    BY <1>3 DEF Sound, Node
  \* The fork parts from the nodes below the reached point at itself, from others above.
  <2>11. ASSUME NEW m \in DOMAIN tr, m.ns = ns, CommonPages(at, m.path, p) > 0
         PROVE  [ns |-> ns, path |-> SubSeq(at, 1, CommonPages(at, m.path, p))]
                \in DOMAIN tr \cup {fork}
    <3> DEFINE j == CommonPages(at, m.path, p)
    <3>0. m.path \in Seq(Int) BY <2>10
    <3>1. CASE m \in B
      <4>1. Agree(t, m.path, x)
        <5>1. Agree(m.path, t, CommonPages(m.path, t, p)) BY <3>0, <1>2, PagesProps
        <5>2. Agree(m.path, t, x) BY <5>1, <3>1, <2>2
        <5> QED BY ONLY <5>2, <3>0, <1>2, <2>3, AgreeProps
      <4>2. Agree(at, m.path, x)
        BY ONLY <4>1, <3>0, <2>3, <2>4, <1>2, AgreeProps
      <4>3. j \in Nat /\ j <= Len(at) /\ \A i \in Pages(p) : Agree(at, m.path, i) => i <= j
        BY <3>0, <2>4, PagesProps
      <4> HIDE DEF j
      <4>4. j = x
        BY <4>2, <4>3, <2>3, <2>4
      <4>5. SubSeq(at, 1, Len(at)) = at
        <5>1. Len(at) \in Nat BY <2>4
        <5>2. /\ SubSeq(at, 1, Len(at)) \in Seq(Int) /\ Len(SubSeq(at, 1, Len(at))) = Len(at)
              /\ Agree(SubSeq(at, 1, Len(at)), at, Len(at))
          BY <5>1, <2>4, Cut
        <5> QED BY <5>2, <2>4, AgreeEqual
      <4> QED BY <4>4, <4>5, <2>4 DEF j
    <3>2. CASE m \notin B
      <4>1. j <= Len(r)
        BY <3>2, <2>4, <2>9, <2>11, <1>1, <1>2, <1>3, NotBelow DEF r, B
      <4> QED BY <4>1, <2>4, <2>8, <2>11, <1>1, <1>2, <1>3, MeetsAbove DEF r
    <3> QED BY <3>1, <3>2
  <2> DEFINE v == With(tr, ns, at, tr[c])
             w == With(v, ns, t, k)
  <2>12. DOMAIN v = DOMAIN tr \cup {fork} /\ Sound(v, F, p) /\ Branching(v, p)
    <3>1. Len(at) \in Pages(p) BY <2>3, <2>4
    <3>2. Forks(tr, ns, at, p) BY <2>11 DEF Forks
    <3>3. Grown(v, tr, ns, at, F, p)
      BY ONLY p \in Nat \ {0}, <3>1, <3>2, <2>4, <2>5, <2>6, <2>7, <1>1, <1>3, AddNode
    <3> QED BY <3>3 DEF Grown
  <2> HIDE DEF v
  <2>13. SubSeq(t, 1, x) = at
    BY DEF at
  \* The leaf parts from the nodes below the reached point at the fork.
  <2>14. ASSUME NEW m \in DOMAIN v, m.ns = ns, CommonPages(t, m.path, p) > 0
         PROVE  [ns |-> ns, path |-> SubSeq(t, 1, CommonPages(t, m.path, p))] \in DOMAIN v
    <3>1. CASE m = fork
      <4>1. m.path = at BY <3>1
      <4> DEFINE j == CommonPages(t, at, p)
      <4>2. j \in Nat /\ j <= Len(at) /\ \A i \in Pages(p) : Agree(t, at, i) => i <= j
        BY <1>2, <2>4, PagesProps
      <4> HIDE DEF j
      <4>3. Agree(t, at, x)
        BY <2>3, <2>4, <1>2, AgreeProps
      <4>4. j = x
        BY <4>2, <4>3, <2>3, <2>4
      <4> QED BY <4>1, <4>4, <2>12, <2>13 DEF j
    <3>2. CASE m \in DOMAIN tr /\ m \in B
      <4>1. CommonPages(t, m.path, p) = x
        BY <3>2, <2>2, <2>10, <1>2, PagesSymmetric
      <4> QED BY <4>1, <2>12, <2>13
    <3>3. CASE m \in DOMAIN tr /\ m \notin B
      BY <3>3, <2>12, <2>14, <1>10 DEF B
    <3> QED BY <3>1, <3>2, <3>3, <2>12
  <2>15. DOMAIN w = DOMAIN v \cup {leaf} /\ Sound(w, F, p) /\ Branching(w, p)
    <3>1. k.ns = ns BY DEF ns
    <3>2. Forks(v, ns, t, p) BY <2>14 DEF Forks
    <3>3. Grown(w, v, ns, t, F, p)
      BY ONLY p \in Nat \ {0}, <3>1, <3>2, <2>12, <1>1, <1>2, <1>3, <1>13, AddNode
    <3> QED BY <3>3 DEF Grown
  <2>16. InsertEntry(tr, k, p) = w
    BY <1>5, <1>13 DEF v, at, c, x, r, B
  <2> HIDE DEF w, leaf, fork
  <2>17. Complete(w, F, p)
    <3>1. DOMAIN tr \subseteq DOMAIN w /\ leaf \in DOMAIN w BY <2>12, <2>15
    <3> QED BY <3>1, <1>4
  <2> QED BY <2>15, <2>16, <2>17 DEF TreeOf, F
<1> QED BY <1>11, <1>12, <1>13

\* The radix trees over sets of keys.
Trees(p) == {tr \in UNION {[D -> Keys] : D \in SUBSET Node} : \E E \in SUBSET Keys : TreeOf(tr, E, p)}

\* _insert_entry stays among the radix trees.
LEMMA InsertInTrees ==
  ASSUME NEW p \in Nat \ {0}, NEW tr \in Trees(p), NEW k \in Keys
  PROVE  InsertEntry(tr, k, p) \in Trees(p)
<1>1. PICK E \in SUBSET Keys : TreeOf(tr, E, p)
  BY DEF Trees
<1> DEFINE w == InsertEntry(tr, k, p)
           F == E \cup {k}
<1>2. TreeOf(w, F, p) /\ F \in SUBSET Keys
  BY <1>1, InsertKeepsTree
<1>3. tr = [m \in DOMAIN tr |-> tr[m]]
  BY DEF Trees
<1>4. \A a, ns, t, j : With(a, ns, t, j) = [m \in DOMAIN With(a, ns, t, j) |-> With(a, ns, t, j)[m]]
  BY DEF With
<1>5. w = [m \in DOMAIN w |-> w[m]]
  <2>1. w = tr \/ \E a, ns, t, j : w = With(a, ns, t, j)
    BY DEF InsertEntry
  <2> HIDE DEF w
  <2> QED BY <2>1, <1>3, <1>4
<1> HIDE DEF w, F
<1>6. \A m \in DOMAIN w : m \in Node /\ w[m] \in Keys
  BY <1>2 DEF TreeOf, Sound
<1>7. w \in [DOMAIN w -> Keys] /\ DOMAIN w \in SUBSET Node
  BY <1>5, <1>6
<1>8. w \in Trees(p)
  BY <1>2, <1>7 DEF Trees
<1> QED BY <1>8 DEF w

\* f[i] is the tree of the first i entries of q, inserted in order.
Builds(f, q, p) == f[0] = << >> /\ \A i \in 1..Len(q) : f[i] = InsertEntry(f[i-1], q[i], p)

\* The empty tree is the radix tree of no entries.
LEMMA EmptyTree ==
  ASSUME NEW p \in Nat \ {0}
  PROVE  TreeOf(<< >>, {}, p) /\ << >> \in Trees(p)
<1>1. DOMAIN << >> = {}
  OBVIOUS
<1>2. TreeOf(<< >>, {}, p)
  BY <1>1 DEF TreeOf, Sound, Complete, Branching
<1>3. << >> \in [{} -> Keys]
  OBVIOUS
<1> QED BY <1>2, <1>3 DEF Trees

\* _rebuild_tree inserts entry by entry, as its definition says.
LEMMA RebuildRec ==
  ASSUME NEW p \in Nat \ {0}, NEW q \in Seq(Keys)
  PROVE  \E f \in [0..Len(q) -> Trees(p)] : Builds(f, q, p) /\ Rebuild(q, p) = f[Len(q)]
<1> DEFINE D(h) == [n \in 0 .. Len(q) |-> IF n = 0 THEN << >> ELSE InsertEntry(h[n - 1], q[n], p)]
           g == [i \in 1..Len(q) |-> [z \in Trees(p) |-> InsertEntry(z, q[i], p)]]
           a == CHOOSE h : h = D(h)
<1>1. \A i \in 1..Len(q) : g[i] \in [Trees(p) -> Trees(p)]
  BY InsertInTrees
<1>2. PICK f \in [0..Len(q) -> Trees(p)] : Iterates(f, g, << >>, Len(q))
  <2>1. Len(q) \in Nat /\ << >> \in Trees(p) BY EmptyTree
  <2> HIDE DEF g
  <2> QED BY <1>1, <2>1, Recursion
<1>3. ASSUME NEW i \in 1..Len(q) PROVE f[i] = InsertEntry(f[i-1], q[i], p)
  <2>1. f[i-1] \in Trees(p)
    OBVIOUS
  <2>2. g[i] = [z \in Trees(p) |-> InsertEntry(z, q[i], p)]
    OBVIOUS
  <2> HIDE DEF g
  <2>3. f[i] = g[i][f[i-1]]
    BY <1>2 DEF Iterates
  <2> QED BY <2>1, <2>2, <2>3
<1>0. f[0] = << >>
  BY <1>2 DEF Iterates
<1> HIDE DEF g
<1>4. f = D(f)
  <2>1. ASSUME NEW n \in 0..Len(q) PROVE f[n] = D(f)[n]
    <3>1. CASE n = 0 BY <3>1, <1>0
    <3>2. CASE n # 0
      <4>1. n \in 1..Len(q) BY <3>2
      <4>2. f[n] = InsertEntry(f[n-1], q[n], p) BY <4>1, <1>3
      <4> QED BY <4>2, <3>2
    <3> QED BY <3>1, <3>2
  <2>2. f = [n \in 0..Len(q) |-> f[n]]
    OBVIOUS
  <2>3. D(f) = [n \in 0..Len(q) |-> D(f)[n]]
    OBVIOUS
  <2> HIDE DEF D
  <2> QED BY <2>1, <2>2, <2>3
<1>5. a = D(a)
  BY <1>4
<1>6. Rebuild(q, p) = a[Len(q)]
  BY DEF Rebuild
<1> HIDE DEF a
<1>7. \A i \in 0..Len(q) : f[i] = a[i]
  <2>1. f[0] = a[0]
    BY <1>0, <1>5
  <2>2. ASSUME NEW i \in 1..Len(q), f[i-1] = a[i-1] PROVE f[i] = a[i]
    <3>1. a[i] = D(a)[i] BY <1>5
    <3>2. D(a)[i] = InsertEntry(a[i-1], q[i], p)
      OBVIOUS
    <3> QED BY <3>1, <3>2, <2>2, <1>3
  <2>3. Len(q) \in Nat
    OBVIOUS
  <2>4. SameSteps(f, a, Len(q))
    BY <2>1, <2>2 DEF SameSteps
  <2> HIDE DEF D
  <2> QED BY <2>3, <2>4, Unfold
<1> HIDE DEF D
<1>8. Rebuild(q, p) = f[Len(q)]
   BY <1>6, <1>7
<1> QED BY <1>0, <1>3, <1>8 DEF Builds

\* _rebuild_tree makes the radix tree of the entries.
LEMMA RebuildIsTree ==
  ASSUME NEW p \in Nat \ {0}, NEW q \in Seq(Keys)
  PROVE  TreeOf(Rebuild(q, p), Range(q), p)
<1>1. PICK f \in [0..Len(q) -> Trees(p)] : Builds(f, q, p) /\ Rebuild(q, p) = f[Len(q)]
  BY RebuildRec
<1> DEFINE First(i) == {q[j] : j \in 1..i}
           T == {i \in 0..Len(q) : TreeOf(f[i], First(i), p)}
<1>2. 0 \in T
  <2>1. First(0) = {} OBVIOUS
  <2>2. f[0] = << >> BY <1>1 DEF Builds
  <2>3. TreeOf(f[0], {}, p) BY <2>2, EmptyTree
  <2> HIDE DEF First
  <2>4. TreeOf(f[0], First(0), p) BY <2>1, <2>3
  <2>5. 0 \in 0..Len(q) OBVIOUS
  <2> QED BY ONLY <2>4, <2>5
<1>3. ASSUME NEW i \in 1..Len(q), i - 1 \in T PROVE i \in T
  <2>1. First(i) = First(i-1) \cup {q[i]}
    OBVIOUS
  <2>2. First(i-1) \subseteq Keys /\ q[i] \in Keys
    OBVIOUS
  <2>3. TreeOf(f[i-1], First(i-1), p)
    BY <1>3
  <2>4. f[i] = InsertEntry(f[i-1], q[i], p)
    BY <1>1 DEF Builds
  <2> HIDE DEF First
  <2>5. TreeOf(f[i], First(i-1) \cup {q[i]}, p)
    BY <2>2, <2>3, <2>4, InsertKeepsTree
  <2>6. TreeOf(f[i], First(i), p)
    BY <2>1, <2>5
  <2>7. i \in 0..Len(q) OBVIOUS
  <2> QED BY ONLY <2>6, <2>7
<1>4. Len(q) \in T
  <2>1. Len(q) \in Nat OBVIOUS
  <2> HIDE DEF T
  <2>2. 0..Len(q) \subseteq T BY <2>1, <1>2, <1>3, UpTo
  <2> QED BY <2>1, <2>2
<1>5. First(Len(q)) = Range(q)
  BY DEF Range
<1> HIDE DEF First
<1> QED BY <1>1, <1>4, <1>5

\* An entry shares with t no more than the reached point, unless a node below it is the entry's.
LEMMA EntryShares ==
  ASSUME NEW p \in Nat \ {0}, NEW ns \in Namespace, NEW t \in Seq(Int), NEW tr, NEW E,
         E \subseteq Keys, TreeOf(tr, E, p), NEW k \in E, k.ns = ns
  PROVE  /\ CommonPages(k.tokens, t, p) \in Nat
         /\ \/ CommonPages(k.tokens, t, p) <= Len(Reached(tr, ns, t))
            \/ /\ Below(tr, ns, t, p) # {}
               /\ CommonPages(k.tokens, t, p) = CommonPages(Child(tr, ns, t, p).path, t, p)
<1> DEFINE a == Aligned(k.tokens, p)
           y == CommonPages(k.tokens, t, p)
           n == Len(Reached(tr, ns, t))
           o == Leaf(k, p)
<1>1. k.tokens \in Seq(Int)
  BY PromptAssumption DEF Keys
<1>2. a \in Seq(Int)
  BY <1>1, AlignedProps
<1>3. CommonPages(a, t, p) = y
  BY <1>1, AlignedShares
<1>4. y \in Nat /\ y <= Len(a)
  BY <1>2, <1>3, PagesProps
<1>5. n \in Nat
  BY ReachedProps DEF TreeOf
<1> HIDE DEF y, n
<1>6. o.ns = ns /\ o.path = a
  BY DEF Leaf
<1> HIDE DEF a
<1>7. ASSUME y > n
      PROVE  /\ Below(tr, ns, t, p) # {}
             /\ y = CommonPages(Child(tr, ns, t, p).path, t, p)
  <2>1. a # <<>>
    BY <1>2, <1>4, <1>5, <1>7
  <2>2. o \in DOMAIN tr
    BY <2>1 DEF TreeOf, Complete, a
  <2> HIDE DEF o
  <2>3. o \in Below(tr, ns, t, p)
    BY <2>2, <1>3, <1>6, <1>7 DEF Below, n
  <2>4. CommonPages(o.path, t, p) = CommonPages(Child(tr, ns, t, p).path, t, p)
    BY <2>3, BelowShares DEF TreeOf
  <2> QED BY <2>3, <2>4, <1>3, <1>6
<1> QED BY <1>4, <1>5, <1>7 DEF y, n

\* Max is the only upper bound in the set.
LEMMA MaxIs ==
  ASSUME NEW S, S \subseteq Nat, NEW v \in S, \A y \in S : y <= v
  PROVE  Max(S) = v
<1>1. \E x \in S : \A y \in S : x >= y
  <2>1. \A y \in S : v >= y OBVIOUS
  <2> QED BY <2>1
<1>2. Max(S) \in S /\ \A y \in S : Max(S) >= y
  BY <1>1 DEF Max
<1>3. Max(S) >= v /\ Max(S) <= v /\ Max(S) \in Nat /\ v \in Nat
  BY <1>2
<1> QED BY ONLY <1>3

\* What a match of len tokens with source must be.
Finds(ns, t, len, source) ==
    /\ len = LongestShared(ns, t)
    /\ source \in Range(entries) /\ source.ns = ns
    /\ Common(source.tokens, t) >= len

\* When some entry shares exactly len whole pages with the aligned prompt and no entry
\* shares more, that is the longest prefix.
LEMMA FindsLongest ==
  ASSUME config.page \in Nat \ {0}, entries \in Seq(Keys),
         NEW ns \in Namespace, NEW t \in Prompt, ~ Contains(entries, [ns |-> ns, tokens |-> t]),
         NEW k \in Range(entries), k.ns = ns, NEW len \in Nat,
         len = CommonPages(k.tokens, Aligned(t, config.page), config.page),
         \A e \in Range(entries) : e.ns = ns =>
            CommonPages(e.tokens, Aligned(t, config.page), config.page) \in 0 .. len
  PROVE  Finds(ns, t, len, k)
<1> DEFINE p == config.page
           a == Aligned(t, p)
           S == {0} \cup {CommonPages(e.tokens, a, p) : e \in {e \in Range(entries) : e.ns = ns}}
<1>0. p \in Nat \ {0} /\ t \in Seq(Int)
  BY PromptAssumption
<1>1. LongestShared(ns, t) = Max(S)
  BY DEF LongestShared
<1>2. S \subseteq Nat /\ len \in S /\ \A y \in S : y <= len
  OBVIOUS
<1>3. Max(S) = len
  <2> HIDE DEF S
  <2> QED BY <1>2, MaxIs
<1>4. k.tokens \in Seq(Int)
  <2>1. k \in Keys BY DEF Range
  <2> QED BY <2>1, PromptAssumption DEF Keys
<1>5. a \in Seq(Int) /\ Len(a) \in Nat /\ Agree(a, t, Len(a))
  BY <1>0, AlignedProps
<1> HIDE DEF p, a
<1>6. len = CommonPages(k.tokens, a, p)
  BY DEF p, a
<1>7. Agree(k.tokens, a, len) /\ len <= Len(a)
  BY <1>0, <1>4, <1>5, <1>6, PagesProps
<1>8. Agree(a, t, len)
  BY ONLY <1>0, <1>5, <1>7, len \in Nat, AgreeProps
<1>9. Agree(k.tokens, t, len)
  BY ONLY <1>0, <1>4, <1>5, <1>7, <1>8, len \in Nat, AgreeProps
<1>10. Common(k.tokens, t) \in Nat /\ len <= Common(k.tokens, t)
  BY <1>0, <1>4, <1>9, CommonProps
<1> QED BY <1>1, <1>3, <1>10 DEF Finds

\* On the radix tree of the entries, match finds the longest shared prefix.
LEMMA MatchFinds ==
  ASSUME config.page \in Nat \ {0}, entries \in Seq(Keys),
         TreeOf(tree, Range(entries), config.page),
         NEW ns \in Namespace, NEW t \in Prompt
  PROVE  \/ Finds(ns, t, Match(ns, t).len, Match(ns, t).source)
         \/ Match(ns, t) = NoMatch /\ LongestShared(ns, t) = 0
<1> DEFINE p == config.page
           E == Range(entries)
           a == Aligned(t, p)
           key == [ns |-> ns, tokens |-> t]
           B == Below(tree, ns, a, p)
           c == Child(tree, ns, a, p)
           r == Reached(tree, ns, a)
           x == CommonPages(c.path, a, p)
<1>0. p \in Nat \ {0} /\ t \in Seq(Int) /\ E \subseteq Keys /\ TreeOf(tree, E, p)
  BY PromptAssumption DEF Range
<1>1. a \in Seq(Int)
  BY <1>0, AlignedProps
<1>2. Match(ns, t) =
        IF Contains(entries, key) THEN [len |-> Len(t), exact |-> TRUE, source |-> key]
        ELSE IF B # {} THEN [len |-> x, exact |-> FALSE, source |-> tree[c]]
        ELSE IF r # <<>>
        THEN [len |-> Len(r), exact |-> FALSE, source |-> tree[[ns |-> ns, path |-> r]]]
        ELSE NoMatch
  BY DEF Match
<1>3. Sound(tree, E, p) /\ Branching(tree, p)
  BY <1>0 DEF TreeOf
<1> HIDE DEF p, E, a
<1>4. /\ r \in Seq(Int) /\ Len(r) \in Nat /\ Agree(r, a, Len(r))
      /\ Len(r) > 0 => [ns |-> ns, path |-> r] \in DOMAIN tree
  BY <1>0, <1>1, <1>3, ReachedProps
<1>5. \A k \in E : k.ns = ns =>
        /\ CommonPages(k.tokens, a, p) \in Nat
        /\ CommonPages(k.tokens, a, p) <= Len(r) \/ (B # {} /\ CommonPages(k.tokens, a, p) = x)
  <2> TAKE k \in E
  <2> HAVE k.ns = ns
  <2>1. TreeOf(tree, E, p) /\ E \subseteq Keys BY <1>0
  <2> HIDE DEF key, B, c, r, x
  <2>2. /\ CommonPages(k.tokens, a, p) \in Nat
        /\ \/ CommonPages(k.tokens, a, p) <= Len(Reached(tree, ns, a))
           \/ /\ Below(tree, ns, a, p) # {}
              /\ CommonPages(k.tokens, a, p) = CommonPages(Child(tree, ns, a, p).path, a, p)
    BY ONLY <2>1, <1>0, <1>1, ns \in Namespace, k \in E, k.ns = ns, EntryShares
  <2> QED BY ONLY <2>2 DEF B, c, r, x
<1>6. CASE Contains(entries, key)
  <2>1. Match(ns, t).len = Len(t) /\ Match(ns, t).source = key
    BY <1>2, <1>6
  <2>2. key \in Range(entries) /\ key.ns = ns /\ key.tokens = t
    BY <1>6 DEF Contains, Range
  <2>3. LongestShared(ns, t) = Len(t)
    BY <1>6 DEF LongestShared
  <2>4. Agree(t, t, Len(t)) /\ Len(t) \in Nat
    BY <1>0 DEF Agree
  <2>5. Common(t, t) >= Len(t)
    BY <2>4, <1>0, CommonProps
  <2> QED BY <2>1, <2>2, <2>3, <2>5 DEF Finds
<1>7. CASE ~ Contains(entries, key) /\ B # {}
  <2>1. Match(ns, t).len = x /\ Match(ns, t).source = tree[c]
    BY <1>2, <1>7
  <2>2. PICK o : o \in B
    BY <1>7
  <2>3. /\ c \in DOMAIN tree /\ c.ns = ns /\ c.path \in Seq(Int)
        /\ x > Len(r) /\ ~ Agree(c.path, a, Len(c.path))
    BY <2>2, <1>0, <1>1, <1>3, BelowShares
  <2>4. x \in Nat
    BY <2>3, <1>0, <1>1, PagesProps
  <2> DEFINE k == tree[c]
  <2>5. k \in E /\ k.ns = ns /\ Agree(c.path, k.tokens, Len(c.path))
    BY <2>3, <1>3 DEF Sound
  <2> HIDE DEF k, c, x, r, B
  <2>6. k.tokens \in Seq(Int)
    BY <2>5, <1>0, PromptAssumption DEF Keys
  <2>7. x = CommonPages(k.tokens, a, p)
    BY <2>3, <2>5, <2>6, <1>0, <1>1, SamePages DEF x
  <2>8. \A e \in E : e.ns = ns => CommonPages(e.tokens, a, p) \in 0 .. x
    BY <1>4, <1>5, <2>3, <2>4
  <2>9. Finds(ns, t, x, k)
    BY <1>0, <1>7, <2>4, <2>5, <2>7, <2>8, FindsLongest DEF E, a, p
  <2> QED BY <2>1, <2>9 DEF k
<1>8. CASE ~ Contains(entries, key) /\ B = {} /\ r # <<>>
  <2> DEFINE n == [ns |-> ns, path |-> r]
             k == tree[n]
             y == CommonPages(k.tokens, a, p)
  <2>1. Match(ns, t).len = Len(r) /\ Match(ns, t).source = k
    BY <1>2, <1>8
  <2>2. n \in DOMAIN tree /\ n.ns = ns /\ n.path = r
    BY <1>4, <1>8, EmptySeq
  <2> HIDE DEF n
  <2>3. k \in E /\ k.ns = ns /\ Agree(r, k.tokens, Len(r)) /\ Len(r) \in Pages(p)
    BY <2>2, <1>3 DEF Sound
  <2> HIDE DEF k, r, B
  <2>4. k.tokens \in Seq(Int)
    BY <2>3, <1>0, PromptAssumption DEF Keys
  <2>5. Agree(k.tokens, a, Len(r))
    <3>1. Agree(k.tokens, r, Len(r)) BY <2>3, <2>4, <1>4, AgreeProps
    <3> QED BY ONLY <3>1, <2>4, <1>1, <1>4, AgreeProps
  <2>6. y \in Nat /\ Len(r) <= y
    BY <2>3, <2>4, <2>5, <1>0, <1>1, PagesProps
  <2>7. \A e \in E : e.ns = ns => CommonPages(e.tokens, a, p) \in 0 .. Len(r)
    BY <1>4, <1>5, <1>8
  <2>8. Len(r) = y
    BY <2>3, <2>6, <2>7, <1>4
  <2>9. Finds(ns, t, Len(r), k)
    BY <1>0, <1>4, <1>8, <2>3, <2>7, <2>8, FindsLongest DEF E, a, p
  <2> QED BY <2>1, <2>9
<1>9. CASE ~ Contains(entries, key) /\ B = {} /\ r = <<>>
  <2>1. Match(ns, t) = NoMatch
    BY <1>2, <1>9
  <2>2. Len(r) = 0
    BY <1>9
  <2> DEFINE S == {0} \cup {CommonPages(e.tokens, a, p) : e \in {e \in Range(entries) : e.ns = ns}}
  <2>3. LongestShared(ns, t) = Max(S)
    BY <1>9 DEF LongestShared, a, p
  <2> HIDE DEF r, B
  <2>4. \A e \in E : e.ns = ns => CommonPages(e.tokens, a, p) = 0
    BY <1>5, <1>9, <2>2
  <2>5. S \subseteq Nat /\ 0 \in S /\ \A y \in S : y <= 0
    BY <2>4 DEF E
  <2>6. Max(S) = 0
    <3> HIDE DEF S
    <3> QED BY <2>5, MaxIs
  <2> QED BY <2>1, <2>3, <2>6
<1> QED BY <1>6, <1>7, <1>8, <1>9

\* So a radix tree of the entries gives MatchIsLongest.
LEMMA TreeMatches ==
  ASSUME config.page \in Nat \ {0}, entries \in Seq(Keys),
         TreeOf(tree, Range(entries), config.page)
  PROVE  MatchIsLongest
<1> SUFFICES ASSUME NEW ns \in Namespace, NEW t \in Prompt
             PROVE  LET m == Match(ns, t)
                    IN  /\ m.len = LongestShared(ns, t)
                        /\ m # NoMatch => /\ m.source \in Range(entries) /\ m.source.ns = ns
                                          /\ Common(m.source.tokens, t) >= m.len
  BY DEF MatchIsLongest
<1>1. \/ Finds(ns, t, Match(ns, t).len, Match(ns, t).source)
      \/ Match(ns, t) = NoMatch /\ LongestShared(ns, t) = 0
  BY MatchFinds
<1>2. NoMatch.len = 0
  BY DEF NoMatch
<1> QED BY <1>1, <1>2 DEF Finds

-----------------------------------------------------------------------------
(* Sums over the entries.                                                  *)

\* f[i] is the sum of the first i numbers of s.
Sums(f, s) == f[0] = 0 /\ \A i \in 1..Len(s) : f[i] = f[i-1] + s[i]

\* Total is computed element by element, as its definition says.
LEMMA TotalRec ==
  ASSUME NEW s \in Seq(Nat)
  PROVE  \E f \in [0..Len(s) -> Nat] : Sums(f, s) /\ Total(s) = f[Len(s)]
<1> DEFINE D(h) == [n \in 0 .. Len(s) |-> IF n = 0 THEN 0 ELSE h[n - 1] + s[n]]
           g == [i \in 1..Len(s) |-> [z \in Nat |-> z + s[i]]]
           a == CHOOSE h : h = D(h)
<1>1. \A i \in 1..Len(s) : g[i] \in [Nat -> Nat]
  OBVIOUS
<1>2. PICK f \in [0..Len(s) -> Nat] : Iterates(f, g, 0, Len(s))
  <2>1. Len(s) \in Nat /\ 0 \in Nat OBVIOUS
  <2> HIDE DEF g
  <2> QED BY <1>1, <2>1, Recursion
<1>3. ASSUME NEW i \in 1..Len(s) PROVE f[i] = f[i-1] + s[i]
  <2>1. f[i-1] \in Nat
    BY SMTT(30)
  <2>2. g[i] = [z \in Nat |-> z + s[i]]
    OBVIOUS
  <2> HIDE DEF g
  <2>3. f[i] = g[i][f[i-1]]
    BY <1>2 DEF Iterates
  <2> QED BY <2>1, <2>2, <2>3
<1>0. f[0] = 0
  BY <1>2 DEF Iterates
<1> HIDE DEF g
<1>4. f = D(f)
  <2>1. ASSUME NEW n \in 0..Len(s) PROVE f[n] = D(f)[n]
    <3>1. CASE n = 0 BY <3>1, <1>0
    <3>2. CASE n # 0
      <4>1. n \in 1..Len(s) BY <3>2
      <4>2. f[n] = f[n-1] + s[n] BY <4>1, <1>3
      <4> QED BY <4>2, <3>2
    <3> QED BY <3>1, <3>2
  <2>2. f = [n \in 0..Len(s) |-> f[n]]
    OBVIOUS
  <2>3. D(f) = [n \in 0..Len(s) |-> D(f)[n]]
    OBVIOUS
  <2> HIDE DEF D
  <2> QED BY <2>1, <2>2, <2>3
<1>5. a = D(a)
  BY <1>4
<1>6. Total(s) = a[Len(s)]
  BY DEF Total
<1> HIDE DEF a
<1>7. \A i \in 0..Len(s) : f[i] = a[i]
  <2>1. f[0] = a[0]
    BY <1>0, <1>5
  <2>2. ASSUME NEW i \in 1..Len(s), f[i-1] = a[i-1] PROVE f[i] = a[i]
    <3>1. a[i] = D(a)[i] BY <1>5
    <3>2. D(a)[i] = a[i-1] + s[i]
      OBVIOUS
    <3> QED BY <3>1, <3>2, <2>2, <1>3
  <2>3. Len(s) \in Nat
    OBVIOUS
  <2>4. SameSteps(f, a, Len(s))
    BY <2>1, <2>2 DEF SameSteps
  <2> HIDE DEF D
  <2> QED BY <2>3, <2>4, Unfold
<1> HIDE DEF D
<1>8. Total(s) = f[Len(s)]
   BY <1>6, <1>7
<1> QED BY <1>0, <1>3, <1>8 DEF Sums

\* Whatever sums up s element by element ends at its total.
LEMMA TotalIs ==
  ASSUME NEW s \in Seq(Nat), NEW h, Sums(h, s)
  PROVE  Total(s) = h[Len(s)] /\ Total(s) \in Nat
<1>1. PICK f \in [0..Len(s) -> Nat] : Sums(f, s) /\ Total(s) = f[Len(s)]
  BY TotalRec
<1>2. Len(s) \in Nat
  OBVIOUS
<1>3. SameSteps(f, h, Len(s))
  BY <1>1 DEF SameSteps, Sums
<1>4. \A i \in 0..Len(s) : f[i] = h[i]
  BY <1>2, <1>3, Unfold
<1> QED BY <1>1, <1>2, <1>4

\* The sum of the weights of the elements of q.
Weights(w, q) == [i \in 1 .. Len(q) |-> w[q[i]]]
Weigh(w, q) == Total(Weights(w, q))

\* The weights of keys are a sequence of naturals.
LEMMA WeightsProps ==
  ASSUME NEW w \in [Keys -> Nat], NEW q \in Seq(Keys)
  PROVE  /\ Weights(w, q) \in Seq(Nat) /\ Len(Weights(w, q)) = Len(q)
         /\ \A i \in 1..Len(q) : Weights(w, q)[i] = w[q[i]]
BY DEF Weights

\* The elements of a sequence after the first n.
LEMMA AfterFirst ==
  ASSUME NEW X, NEW q \in Seq(X), NEW n \in 0 .. Len(q)
  PROVE  /\ SubSeq(q, n + 1, Len(q)) \in Seq(X)
         /\ Len(SubSeq(q, n + 1, Len(q))) = Len(q) - n
         /\ \A i \in 1..(Len(q) - n) : SubSeq(q, n + 1, Len(q))[i] = q[n + i]
<1> DEFINE a == n + 1
           b == Len(q)
           v == SubSeq(q, a, b)
<1>1. a \in Int /\ b \in Int /\ a = n + 1 /\ b = Len(q) /\ n \in 0..b
  OBVIOUS
<1>2. \A i \in a..b : q[i] \in X
  OBVIOUS
<1> HIDE DEF a, b
<1>3. /\ v \in Seq(X)
      /\ Len(v) = IF a <= b THEN b - a + 1 ELSE 0
      /\ \A i \in 1 .. b - a + 1 : v[i] = q[a + i - 1]
  BY ONLY <1>1, <1>2, SubSeqProperties
<1> HIDE DEF v
<1>4. Len(v) = b - n
  BY ONLY <1>1, <1>3
<1>5. ASSUME NEW i \in 1..(b - n) PROVE v[i] = q[n + i]
  <2>1. i \in 1 .. b - a + 1 /\ a + i - 1 = n + i
    BY ONLY <1>1, i \in 1..(b - n)
  <2> QED BY ONLY <2>1, <1>3
<1> QED BY <1>3, <1>4, <1>5 DEF v, a, b

\* A sequence weighs what its first n elements and the others weigh, and what its
\* prefixes weigh grows element by element.
LEMMA WeighSplit ==
  ASSUME NEW w \in [Keys -> Nat], NEW q \in Seq(Keys), NEW n \in 0 .. Len(q)
  PROVE  /\ Weigh(w, q) \in Nat
         /\ SubSeq(q, 1, n) \in Seq(Keys) /\ SubSeq(q, n + 1, Len(q)) \in Seq(Keys)
         /\ Weigh(w, SubSeq(q, 1, n)) \in Nat
         /\ Weigh(w, SubSeq(q, n + 1, Len(q))) \in Nat
         /\ Weigh(w, q) = Weigh(w, SubSeq(q, 1, n)) + Weigh(w, SubSeq(q, n + 1, Len(q)))
<1> DEFINE s == Weights(w, q)
           u == SubSeq(q, 1, n)
           v == SubSeq(q, n + 1, Len(q))
<1>1. s \in Seq(Nat) /\ Len(s) = Len(q) /\ \A i \in 1..Len(q) : s[i] = w[q[i]]
  BY WeightsProps
<1>2. PICK f \in [0..Len(s) -> Nat] : Sums(f, s) /\ Total(s) = f[Len(s)]
  BY <1>1, TotalRec
<1>3. u \in Seq(Keys) /\ Len(u) = n /\ \A i \in 1..n : u[i] = q[i]
  BY SubSeqProperties
<1>4. v \in Seq(Keys) /\ Len(v) = Len(q) - n /\ \A i \in 1..(Len(q) - n) : v[i] = q[n + i]
  BY AfterFirst
<1> HIDE DEF s, u, v
<1>5. Weights(w, u) \in Seq(Nat) /\ Len(Weights(w, u)) = n
      /\ \A i \in 1..n : Weights(w, u)[i] = w[q[i]]
  <2>1. Weights(w, u) \in Seq(Nat) /\ Len(Weights(w, u)) = Len(u)
        /\ \A i \in 1..Len(u) : Weights(w, u)[i] = w[u[i]]
    BY <1>3, WeightsProps
  <2> QED BY ONLY <2>1, <1>3
<1>6. Sums(f, Weights(w, u))
  BY <1>1, <1>2, <1>5 DEF Sums
<1>7. Weigh(w, u) = f[n] /\ Weigh(w, u) \in Nat
  BY <1>5, <1>6, TotalIs DEF Weigh
<1>8. Weights(w, v) \in Seq(Nat) /\ Len(Weights(w, v)) = Len(q) - n
      /\ \A i \in 1..(Len(q) - n) : Weights(w, v)[i] = w[q[n + i]]
  <2>1. Weights(w, v) \in Seq(Nat) /\ Len(Weights(w, v)) = Len(v)
        /\ \A i \in 1..Len(v) : Weights(w, v)[i] = w[v[i]]
    BY <1>4, WeightsProps
  <2> QED BY ONLY <2>1, <1>4
<1> DEFINE g == [i \in 0..(Len(q) - n) |-> f[n + i] - f[n]]
<1>9. Sums(g, Weights(w, v))
  <2>1. g[0] = 0
    BY <1>1, <1>2, SMTT(30)
  <2>2. ASSUME NEW i \in 1..(Len(q) - n) PROVE g[i] = g[i-1] + Weights(w, v)[i]
    <3>1. g[i] = f[n + i] - f[n] /\ g[i-1] = f[n + (i - 1)] - f[n]
      OBVIOUS
    <3>2. n + i \in 1..Len(s) /\ n + (i - 1) = (n + i) - 1
      BY <1>1
    <3>3. f[n + i] = f[(n + i) - 1] + s[n + i]
      BY <3>2, <1>2 DEF Sums
    <3>4. s[n + i] = w[q[n + i]] /\ w[q[n + i]] \in Nat
      BY <3>2, <1>1
    <3>5. f[n + i] \in Nat /\ f[(n + i) - 1] \in Nat /\ f[n] \in Nat
      <4>1. n + i \in 0..Len(s) /\ (n + i) - 1 \in 0..Len(s) /\ n \in 0..Len(s)
        BY <1>1
      <4> QED BY ONLY <4>1, f \in [0..Len(s) -> Nat]
    <3>6. Weights(w, v)[i] = w[q[n + i]]
      BY <1>8
    <3>8. f[n + i] = f[(n + i) - 1] + w[q[n + i]]
      BY ONLY <3>3, <3>4
    <3>9. f[n + i] - f[n] = (f[(n + i) - 1] - f[n]) + w[q[n + i]]
      <4> DEFINE A == f[n + i]
                 B == f[(n + i) - 1]
                 C == w[q[n + i]]
                 F == f[n]
      <4>1. A \in Nat /\ B \in Nat /\ C \in Nat /\ F \in Nat /\ A = B + C
        BY ONLY <3>4, <3>5, <3>8
      <4> HIDE DEF A, B, C, F
      <4>2. A - F = (B - F) + C
        BY ONLY <4>1
      <4> QED BY ONLY <4>2 DEF A, B, C, F
    <3>10. g[i-1] = f[(n + i) - 1] - f[n]
      BY ONLY <3>1, <3>2
    <3> HIDE DEF g
    <3> QED BY ONLY <3>1, <3>6, <3>9, <3>10
  <2> HIDE DEF g
  <2> QED BY <2>1, <2>2, <1>8 DEF Sums
<1>10. Weigh(w, v) = g[Len(q) - n] /\ Weigh(w, v) \in Nat
  <2> HIDE DEF g
  <2> QED BY <1>8, <1>9, TotalIs DEF Weigh
<1>11. g[Len(q) - n] = f[Len(q)] - f[n]
  OBVIOUS
<1>12. Weigh(w, q) = f[Len(q)] /\ f[Len(q)] \in Nat /\ f[n] \in Nat
  BY <1>1, <1>2, SMTT(30) DEF Weigh, s
<1> QED BY <1>3, <1>4, <1>7, <1>10, <1>11, <1>12 DEF u, v

\* One more element weighs its own weight more.
LEMMA WeighAppend ==
  ASSUME NEW w \in [Keys -> Nat], NEW q \in Seq(Keys), NEW k \in Keys
  PROVE  /\ Weigh(w, q) \in Nat /\ w[k] \in Nat
         /\ Weigh(w, Append(q, k)) = Weigh(w, q) + w[k]
<1> DEFINE s == Weights(w, q)
           z == Append(q, k)
           y == Weights(w, z)
           n == Len(q)
<1>1. s \in Seq(Nat) /\ Len(s) = n /\ \A i \in 1..n : s[i] = w[q[i]]
  BY WeightsProps
<1>2. z \in Seq(Keys) /\ Len(z) = n + 1 /\ z[n + 1] = k /\ \A i \in 1..n : z[i] = q[i]
  BY AppendProperties
<1>3. PICK f \in [0..Len(s) -> Nat] : Sums(f, s) /\ Total(s) = f[Len(s)]
  BY <1>1, TotalRec
<1> HIDE DEF z
<1>4. y \in Seq(Nat) /\ Len(y) = n + 1 /\ \A i \in 1..(n + 1) : y[i] = w[z[i]]
  BY <1>2, WeightsProps, SMTT(30)
<1>5. n \in Nat /\ w[k] \in Nat
  OBVIOUS
<1> HIDE DEF s, y, n
<1> DEFINE g == [i \in 0..(n + 1) |-> IF i <= n THEN f[i] ELSE f[n] + w[k]]
<1>6. Sums(g, y)
  <2>1. g[0] = 0
    BY <1>1, <1>3, <1>5 DEF Sums
  <2>2. ASSUME NEW i \in 1..(n + 1) PROVE g[i] = g[i-1] + y[i]
    <3>1. i - 1 \in 0..n /\ g[i-1] = f[i-1]
      BY <1>5
    <3>2. CASE i <= n
      <4>0. i \in 1..Len(s) BY <3>2, <1>1
      <4>1. f[i] = f[i-1] + s[i] BY <4>0, <1>3 DEF Sums
      <4>2. s[i] = y[i]
        <5>1. i \in 1..n BY <3>2
        <5>2. s[i] = w[q[i]] /\ z[i] = q[i] BY <5>1, <1>1, <1>2
        <5>3. y[i] = w[z[i]] BY <1>4
        <5> QED BY <5>2, <5>3
      <4>3. g[i] = f[i] BY <3>2
      <4> QED BY <4>1, <4>2, <4>3, <3>1
    <3>3. CASE i = n + 1
      <4>1. g[i] = f[n] + w[k] BY <3>3, <1>5
      <4>2. y[i] = w[k] BY <3>3, <1>2, <1>4
      <4>3. i - 1 = n BY <3>3, <1>5
      <4> QED BY <4>1, <4>2, <4>3, <3>1
    <3> QED BY <3>2, <3>3, <1>5
  <2> HIDE DEF g
  <2> QED BY <2>1, <2>2, <1>4 DEF Sums
<1>7. Total(y) = g[n + 1]
  <2> HIDE DEF g
  <2> QED BY <1>4, <1>6, TotalIs
<1>8. g[n + 1] = f[n] + w[k] /\ Total(s) = f[n] /\ f[n] \in Nat
  BY <1>1, <1>3, <1>5
<1> HIDE DEF g
<1> QED BY <1>5, <1>7, <1>8 DEF Weigh, s, y, z

\* No elements weigh nothing.
LEMMA WeighEmpty ==
  ASSUME NEW w \in [Keys -> Nat]
  PROVE  Weigh(w, <<>>) = 0
<1>1. <<>> \in Seq(Keys) /\ Len(<<>>) = 0
  OBVIOUS
<1>2. Weights(w, <<>>) \in Seq(Nat) /\ Len(Weights(w, <<>>)) = 0
  BY <1>1, WeightsProps
<1> DEFINE h == [i \in {0} |-> 0]
<1>3. Sums(h, Weights(w, <<>>)) /\ h[0] = 0
  BY <1>2 DEF Sums
<1> HIDE DEF h
<1> QED BY <1>2, <1>3, TotalIs DEF Weigh

\* Taking one element out of a sequence without repetitions takes its weight away.
LEMMA WeighWithout ==
  ASSUME NEW w \in [Keys -> Nat], NEW q \in Seq(Keys), IsInjective(q), NEW k \in Keys
  PROVE  /\ Weigh(w, Without(q, {k})) \in Nat
         /\ Weigh(w, q) = Weigh(w, Without(q, {k})) + (IF k \in Range(q) THEN w[k] ELSE 0)
<1> DEFINE S == {q[i] : i \in DOMAIN q} \ {k}
           s == Weights(w, q)
           N == Len(q)
<1>1. PICK f \in [0..N -> Seq(Keys)] : Keeps(f, q, S) /\ Only(q, S) = f[N]
  BY OnlyRec
<1>2. s \in Seq(Nat) /\ Len(s) = N /\ \A i \in 1..N : s[i] = w[q[i]]
  BY WeightsProps
<1>3. PICK h \in [0..Len(s) -> Nat] : Sums(h, s) /\ Total(s) = h[Len(s)]
  BY <1>2, TotalRec
<1>4. \A i \in 1..N : q[i] \in S <=> q[i] # k
  OBVIOUS
<1>5. N \in Nat /\ \A i, j \in 1..N : q[i] = q[j] => i = j
  BY DEF IsInjective
<1> HIDE DEF S, s
<1> DEFINE Seen(i) == IF \E j \in 1..i : q[j] = k THEN w[k] ELSE 0
           Good(i) == Weigh(w, f[i]) \in Nat /\ h[i] = Weigh(w, f[i]) + Seen(i)
           T == {i \in 0..N : Good(i)}
<1>6. 0 \in T
  <2>1. f[0] = <<>> BY <1>1 DEF Keeps
  <2>2. Weigh(w, f[0]) = 0 BY <2>1, WeighEmpty
  <2>3. h[0] = 0 BY <1>3 DEF Sums
  <2>4. Seen(0) = 0 OBVIOUS
  <2> HIDE DEF Seen
  <2> QED BY <2>2, <2>3, <2>4, <1>5
<1>7. ASSUME NEW i \in 1..N, i - 1 \in T PROVE i \in T
  <2>1. Weigh(w, f[i-1]) \in Nat /\ h[i-1] = Weigh(w, f[i-1]) + Seen(i-1)
    BY <1>7
  <2>2. h[i] = h[i-1] + w[q[i]]
    BY <1>2, <1>3 DEF Sums
  <2>3. f[i-1] \in Seq(Keys) /\ q[i] \in Keys /\ w[q[i]] \in Nat
    <3>1. i - 1 \in 0..N BY <1>5
    <3>2. f[i-1] \in Seq(Keys) BY ONLY <3>1, f \in [0..N -> Seq(Keys)]
    <3>3. q[i] \in Keys BY ONLY i \in 1..N, q \in Seq(Keys)
    <3>4. w[q[i]] \in Nat BY ONLY <3>3, w \in [Keys -> Nat]
    <3> QED BY <3>2, <3>3, <3>4
  <2>4. f[i] = IF q[i] \in S THEN Append(f[i-1], q[i]) ELSE f[i-1]
    BY <1>1 DEF Keeps
  <2>5. CASE q[i] # k
    <3>1. f[i] = Append(f[i-1], q[i]) BY <2>4, <2>5, <1>4
    <3>2. Weigh(w, f[i]) = Weigh(w, f[i-1]) + w[q[i]] BY <3>1, <2>3, WeighAppend
    <3>3. Seen(i) = Seen(i-1)
      <4>1. (\E j \in 1..i : q[j] = k) <=> (\E j \in 1..(i-1) : q[j] = k) BY <2>5
      <4> QED BY <4>1
    <3>4. Seen(i-1) \in Nat OBVIOUS
    <3> HIDE DEF Seen
    <3>5. Weigh(w, f[i]) \in Nat /\ h[i] = Weigh(w, f[i]) + Seen(i)
      <4>2. Weigh(w, f[i-1]) + w[q[i]] \in Nat BY <2>1, <2>3
      <4>3. h[i-1] \in Nat BY <2>1, <3>4
      <4>4. h[i-1] + w[q[i]] = (Weigh(w, f[i-1]) + w[q[i]]) + Seen(i-1)
        <5> DEFINE a == Weigh(w, f[i-1])
                   b == Seen(i-1)
                   c == w[q[i]]
                   d == h[i-1]
        <5>1. a \in Nat /\ b \in Nat /\ c \in Nat /\ d \in Nat /\ d = a + b
          BY ONLY <4>3, <2>1, <2>3, <3>4
        <5> HIDE DEF a, b, c, d
        <5>2. d + c = (a + c) + b
          BY ONLY <5>1
        <5> QED BY ONLY <5>2 DEF a, b, c, d
      <4> QED BY ONLY <4>2, <4>4, <2>2, <3>2, <3>3
    <3> QED BY <3>5
  <2>6. CASE q[i] = k
    <3>1. f[i] = f[i-1] BY <2>4, <2>6, <1>4
    <3>2. Seen(i) = w[k] BY <2>6
    <3>3. Seen(i-1) = 0
      <4>1. \A j \in 1..(i-1) : q[j] # k BY <2>6, <1>5
      <4> QED BY <4>1
    <3> HIDE DEF Seen
    <3>4. h[i-1] = Weigh(w, f[i-1]) BY <2>1, <3>3
    <3>5. h[i] = Weigh(w, f[i]) + Seen(i) BY <3>1, <3>2, <3>4, <2>2, <2>6
    <3>6. Weigh(w, f[i]) \in Nat BY <3>1, <2>1
    <3> QED BY <3>5, <3>6
  <2> QED BY <2>5, <2>6
<1>8. N \in T
  <2> HIDE DEF T
  <2>1. 0..N \subseteq T BY <1>5, <1>6, <1>7, UpTo
  <2> QED BY <1>5, <2>1
<1>9. Seen(N) = IF k \in Range(q) THEN w[k] ELSE 0
  BY DEF Range
<1>10. Without(q, {k}) = f[N]
  BY <1>1 DEF Without, S
<1>11. Weigh(w, q) = h[N]
  BY <1>2, <1>3 DEF Weigh, s
<1> HIDE DEF Seen
<1> QED BY <1>8, <1>9, <1>10, <1>11

\* Taking the last element out of a sequence without repetitions leaves those before it.
LEMMA WithoutLast ==
  ASSUME NEW q \in Seq(Keys), IsInjective(q), q # <<>>
  PROVE  Append(Without(q, {q[Len(q)]}), q[Len(q)]) = q
<1> DEFINE N == Len(q)
           k == q[N]
           S == {q[i] : i \in DOMAIN q} \ {k}
<1>1. N \in Nat \ {0} /\ k \in Keys /\ \A i, j \in 1..N : q[i] = q[j] => i = j
  BY EmptySeq DEF IsInjective
<1>2. \A i \in 1..N : q[i] \in S <=> i # N
  BY <1>1
<1>3. PICK f \in [0..N -> Seq(Keys)] : Keeps(f, q, S) /\ Only(q, S) = f[N]
  BY OnlyRec
<1>4. Without(q, {k}) = f[N]
  BY <1>3 DEF Without
<1> HIDE DEF S, k
<1> DEFINE T == {i \in 0..N : i < N => Len(f[i]) = i /\ \A j \in 1..i : f[i][j] = q[j]}
<1>5. 0 \in T
  BY <1>3 DEF Keeps
<1>6. ASSUME NEW i \in 1..N, i - 1 \in T PROVE i \in T
  <2>1. CASE i = N BY <2>1
  <2>2. CASE i # N
    <3>1. Len(f[i-1]) = i - 1 /\ \A j \in 1..(i-1) : f[i-1][j] = q[j]
      BY <1>6, <2>2
    <3>2. f[i] = Append(f[i-1], q[i])
      BY <2>2, <1>2, <1>3 DEF Keeps
    <3>3. f[i-1] \in Seq(Keys) /\ q[i] \in Keys
      OBVIOUS
    <3>4. /\ Len(f[i]) = Len(f[i-1]) + 1
          /\ \A j \in 1..Len(f[i-1]) : f[i][j] = f[i-1][j]
          /\ f[i][Len(f[i-1]) + 1] = q[i]
      BY <3>2, <3>3, AppendProperties
    <3>5. Len(f[i]) = i BY <3>1, <3>4
    <3>6. \A j \in 1..i : f[i][j] = q[j]
      <4> TAKE j \in 1..i
      <4>1. CASE j = i BY <4>1, <3>1, <3>4
      <4>2. CASE j # i
        <5>1. j \in 1..(i-1) BY <4>2
        <5> QED BY <5>1, <3>1, <3>4
      <4> QED BY <4>1, <4>2
    <3> QED BY <3>5, <3>6
  <2> QED BY <2>1, <2>2
<1>7. N - 1 \in T
  <2> HIDE DEF T
  <2>1. 0..N \subseteq T BY <1>1, <1>5, <1>6, UpTo
  <2> QED BY <1>1, <2>1
<1>8. f[N] = f[N-1]
  BY <1>1, <1>2, <1>3 DEF Keeps
<1> DEFINE u == f[N-1]
           z == Append(u, k)
<1>9. u \in Seq(Keys) /\ Len(u) = N - 1 /\ \A j \in 1..(N-1) : u[j] = q[j]
  BY <1>1, <1>7
<1> HIDE DEF u
<1>10. /\ z \in Seq(Keys) /\ Len(z) = Len(u) + 1
       /\ \A j \in 1..Len(u) : z[j] = u[j]
       /\ z[Len(u) + 1] = k
  BY <1>1, <1>9, AppendProperties
<1> HIDE DEF z
<1>11. Len(z) = N
  BY <1>1, <1>9, <1>10
<1>12. \A j \in 1..N : z[j] = q[j]
  <2> TAKE j \in 1..N
  <2>1. CASE j = N
    <3>1. Len(u) + 1 = N BY <1>1, <1>9
    <3> QED BY <3>1, <2>1, <1>10 DEF k
  <2>2. CASE j # N
    <3>1. j \in 1..(N-1) BY <2>2
    <3> QED BY <3>1, <1>9, <1>10
  <2> QED BY <2>1, <2>2
<1>13. z = q
  BY <1>10, <1>11, <1>12, SeqEqual
<1> QED BY <1>4, <1>8, <1>13 DEF z, u, k

\* The weights that the cache sums up, and one of which the sum is the length.
TokenWeight == [k \in Keys |-> Len(k.tokens)]
TreeWeight(p) == [k \in Keys |-> Len(Aligned(k.tokens, p))]
UnitWeight == [k \in Keys |-> 1]

\* They are weights, and Tokens, TreeTokens and Len are their sums.
LEMMA CountsWeigh ==
  ASSUME NEW p \in Nat \ {0}, NEW q \in Seq(Keys)
  PROVE  /\ TokenWeight \in [Keys -> Nat] /\ TreeWeight(p) \in [Keys -> Nat]
         /\ UnitWeight \in [Keys -> Nat]
         /\ Tokens(q) = Weigh(TokenWeight, q)
         /\ TreeTokens(q, p) = Weigh(TreeWeight(p), q)
         /\ Len(q) = Weigh(UnitWeight, q)
<1>1. \A k \in Keys : k.tokens \in Seq(Int)
  BY PromptAssumption DEF Keys
<1>2. \A k \in Keys : Len(k.tokens) \in Nat /\ Len(Aligned(k.tokens, p)) \in Nat
  <2> TAKE k \in Keys
  <2>1. k.tokens \in Seq(Int) BY <1>1
  <2>2. Aligned(k.tokens, p) \in Seq(Int) BY <2>1, AlignedProps
  <2> QED BY <2>1, <2>2
<1>3. /\ TokenWeight \in [Keys -> Nat] /\ TreeWeight(p) \in [Keys -> Nat]
      /\ UnitWeight \in [Keys -> Nat]
  BY <1>2 DEF TokenWeight, TreeWeight, UnitWeight
<1>4. \A i \in 1..Len(q) : q[i] \in Keys
  OBVIOUS
<1>5. Tokens(q) = Weigh(TokenWeight, q)
  <2>1. [i \in 1 .. Len(q) |-> Len(q[i].tokens)] = Weights(TokenWeight, q)
    BY <1>4 DEF Weights, TokenWeight
  <2> QED BY <2>1 DEF Tokens, Weigh
<1>6. TreeTokens(q, p) = Weigh(TreeWeight(p), q)
  <2>1. [i \in 1 .. Len(q) |-> Len(Aligned(q[i].tokens, p))] = Weights(TreeWeight(p), q)
    BY <1>4 DEF Weights, TreeWeight
  <2> QED BY <2>1 DEF TreeTokens, Weigh
<1>7. Len(q) = Weigh(UnitWeight, q)
  <2> DEFINE s == Weights(UnitWeight, q)
             h == [i \in 0..Len(q) |-> i]
  <2>1. s \in Seq(Nat) /\ Len(s) = Len(q) /\ \A i \in 1..Len(q) : s[i] = UnitWeight[q[i]]
    BY <1>3, WeightsProps
  <2>2. \A i \in 1..Len(q) : s[i] = 1
    BY <2>1, <1>4 DEF UnitWeight
  <2> HIDE DEF s
  <2>3. h[0] = 0 /\ \A i \in 1..Len(q) : h[i] = i /\ h[i-1] = i - 1
    OBVIOUS
  <2>4. h[Len(q)] = Len(q)
    OBVIOUS
  <2> HIDE DEF h
  <2>5. Sums(h, s)
    BY <2>1, <2>2, <2>3 DEF Sums
  <2> QED BY <2>1, <2>4, <2>5, TotalIs DEF Weigh, s
<1> QED BY <1>3, <1>5, <1>6, <1>7

\* move_to_end keeps the entries, and adds the key when it is new.
LEMMA MoveProps ==
  ASSUME NEW q \in Seq(Keys), IsInjective(q), NEW k \in Keys
  PROVE  /\ MoveToEnd(q, k) \in Seq(Keys) /\ IsInjective(MoveToEnd(q, k))
         /\ Range(MoveToEnd(q, k)) = Range(q) \cup {k}
         /\ \A w \in [Keys -> Nat] :
                Weigh(w, MoveToEnd(q, k)) = Weigh(w, q) + (IF k \in Range(q) THEN 0 ELSE w[k])
<1> DEFINE u == Without(q, {k})
<1>1. u \in Seq(Keys) /\ Range(u) = Range(q) \ {k} /\ IsInjective(u)
  BY WithoutProps
<1>2. MoveToEnd(q, k) = Append(u, k)
  BY DEF MoveToEnd
<1>3. \A w \in [Keys -> Nat] :
        /\ Weigh(w, u) \in Nat
        /\ Weigh(w, q) = Weigh(w, u) + (IF k \in Range(q) THEN w[k] ELSE 0)
  BY WeighWithout
<1> HIDE DEF u
<1>4. Append(u, k) \in Seq(Keys) /\ Range(Append(u, k)) = Range(u) \cup {k} /\ IsInjective(Append(u, k))
  <2>1. k \notin Range(u) BY <1>1
  <2> QED BY <2>1, <1>1, AppendRange
<1>5. \A w \in [Keys -> Nat] :
        Weigh(w, Append(u, k)) = Weigh(w, q) + (IF k \in Range(q) THEN 0 ELSE w[k])
  <2> TAKE w \in [Keys -> Nat]
  <2>1. Weigh(w, u) \in Nat /\ w[k] \in Nat /\ Weigh(w, Append(u, k)) = Weigh(w, u) + w[k]
    BY <1>1, WeighAppend
  <2>2. Weigh(w, q) = Weigh(w, u) + (IF k \in Range(q) THEN w[k] ELSE 0)
    BY <1>3
  <2> QED BY <2>1, <2>2
<1>6. Range(u) \cup {k} = Range(q) \cup {k}
  BY <1>1
<1> QED BY <1>2, <1>4, <1>5, <1>6

\* The parts of a sequence without repetitions have none and share no element.
LEMMA PartsDiffer ==
  ASSUME NEW p \in Seq(Keys), NEW e \in Seq(Keys), IsInjective(p \o e)
  PROVE  IsInjective(p) /\ IsInjective(e) /\ Range(p) \cap Range(e) = {}
<1> DEFINE q == p \o e
           n == Len(p)
           m == Len(e)
<1>1. /\ q \in Seq(Keys) /\ Len(q) = n + m /\ n \in Nat /\ m \in Nat
      /\ \A i \in 1..(n + m) : q[i] = IF i <= n THEN p[i] ELSE e[i - n]
  BY ConcatProperties
<1> HIDE DEF q
<1>2. \A i, j \in 1..(n + m) : q[i] = q[j] => i = j
  <2>1. DOMAIN q = 1..(n + m) BY <1>1
  <2>2. IsInjective(q) BY DEF q
  <2> QED BY <2>1, <2>2 DEF IsInjective
<1>3. DOMAIN p = 1..n /\ DOMAIN e = 1..m
  OBVIOUS
<1> HIDE DEF n, m
<1>4. \A i \in 1..n : i \in 1..(n + m) /\ q[i] = p[i]
  BY <1>1
<1>5. \A i \in 1..m : n + i \in 1..(n + m) /\ q[n + i] = e[i]
  <2> TAKE i \in 1..m
  <2>1. n + i \in 1..(n + m) /\ ~ (n + i <= n) /\ (n + i) - n = i BY <1>1
  <2> QED BY <2>1, <1>1
<1>6. IsInjective(p)
  <2>1. \A i, j \in 1..n : p[i] = p[j] => i = j BY <1>2, <1>4
  <2> QED BY <2>1, <1>3 DEF IsInjective
<1>7. IsInjective(e)
  <2>1. ASSUME NEW i \in 1..m, NEW j \in 1..m, e[i] = e[j] PROVE i = j
    <3>1. q[n + i] = q[n + j] /\ n + i \in 1..(n + m) /\ n + j \in 1..(n + m) BY <2>1, <1>5
    <3>2. n + i = n + j BY <3>1, <1>2
    <3> QED BY <3>2, <1>1
  <2> QED BY <2>1, <1>3 DEF IsInjective
<1>8. ASSUME NEW i \in 1..n, NEW j \in 1..m, p[i] = e[j] PROVE FALSE
  <2>1. q[i] = q[n + j] /\ i \in 1..(n + m) /\ n + j \in 1..(n + m) BY <1>8, <1>4, <1>5
  <2>2. i = n + j BY <2>1, <1>2
  <2> QED BY <2>2, <1>1
<1> QED BY <1>3, <1>6, <1>7, <1>8 DEF Range

\* Without drops nothing when there is nothing to drop.
LEMMA WithoutNone ==
  ASSUME NEW q \in Seq(Keys), IsInjective(q), NEW k \in Keys, k \notin Range(q)
  PROVE  Without(q, {k}) = q
<1> DEFINE u == Without(q, {k})
           z == Append(q, k)
           b == <<k>>
           v == Without(b, {k})
           y == Without(z, {k})
<1>1. z \in Seq(Keys) /\ IsInjective(z) /\ z # <<>> /\ z[Len(z)] = k
  <2>1. z \in Seq(Keys) /\ IsInjective(z) BY AppendRange
  <2>2. z # <<>> /\ Len(z) = Len(q) + 1 /\ z[Len(q) + 1] = k BY AppendProperties
  <2> QED BY <2>1, <2>2
<1>2. Append(y, k) = z
  <2> HIDE DEF z
  <2>1. Append(Without(z, {z[Len(z)]}), z[Len(z)]) = z BY <1>1, WithoutLast
  <2> QED BY <2>1, <1>1
<1>3. y \in Seq(Keys) /\ u \in Seq(Keys)
  BY <1>1, WithoutProps
<1>4. y = q
  <2> HIDE DEF y
  <2> QED BY <1>2, <1>3, AppendInjective
<1>5. z = q \o b /\ b \in Seq(Keys)
  BY AppendIsConcat
<1>6. y = u \o v
  <2> HIDE DEF z, b
  <2>1. Without(q \o b, {k}) = Without(q, {k}) \o Without(b, {k}) BY <1>5, WithoutConcat
  <2> QED BY <2>1, <1>5
<1>7. v = <<>>
  <2>1. v \in Seq(Keys) /\ Range(v) = Range(b) \ {k} BY <1>5, WithoutProps
  <2>2. Range(b) = {k} BY DEF Range
  <2> HIDE DEF v
  <2>3. Range(v) = {} BY <2>1, <2>2
  <2>4. v \in Seq(Keys) BY <2>1
  <2>5. Len(v) = 0
    <3>1. ASSUME Len(v) # 0 PROVE FALSE
      <4>1. 1 \in DOMAIN v BY <3>1, <2>4
      <4> QED BY <4>1, <2>3 DEF Range
    <3> QED BY <3>1
  <2> QED BY <2>4, <2>5, EmptySeq
<1>8. u \o <<>> = u
  BY <1>3, ConcatEmptySeq
<1> QED BY <1>4, <1>6, <1>7, <1>8

\* Taking out another element leaves the last one last.
LEMMA LastStays ==
  ASSUME NEW q \in Seq(Keys), q # <<>>, NEW k, q[Len(q)] # k
  PROVE  LET u == Without(q, {k}) IN u # <<>> /\ u[Len(u)] = q[Len(q)]
<1> DEFINE S == {q[i] : i \in DOMAIN q} \ {k}
           n == Len(q)
<1>1. PICK f \in [0..n -> Seq(Keys)] : Keeps(f, q, S) /\ Only(q, S) = f[n]
  BY OnlyRec
<1>2. n \in Nat \ {0} /\ q[n] \in S /\ q[n] \in Keys
  BY EmptySeq
<1>3. Without(q, {k}) = f[n]
  BY <1>1 DEF Without
<1> HIDE DEF S, n
<1>4. f[n] = Append(f[n-1], q[n]) /\ f[n-1] \in Seq(Keys)
  <2>1. n \in 1..n /\ n = Len(q) /\ n - 1 \in 0..n BY <1>2 DEF n
  <2>2. f[n] = IF q[n] \in S THEN Append(f[n-1], q[n]) ELSE f[n-1]
    BY ONLY <2>1, <1>1 DEF Keeps
  <2> QED BY <2>1, <2>2, <1>2
<1>5. Append(f[n-1], q[n]) # <<>> /\ Append(f[n-1], q[n])[Len(Append(f[n-1], q[n]))] = q[n]
  BY <1>2, <1>4, AppendProperties, SMTT(30)
<1> QED BY <1>3, <1>4, <1>5 DEF n

\* One more element in front counts one more and its tokens.
LEMMA Prepended ==
  ASSUME NEW q \in Seq(Keys), NEW k \in Keys
  PROVE  /\ Len(<<k>> \o q) = Len(q) + 1
         /\ Tokens(q) \in Nat /\ TokenWeight[k] \in Nat
         /\ Tokens(<<k>> \o q) = Tokens(q) + TokenWeight[k]
<1> DEFINE b == <<k>>
           r == b \o q
           w == TokenWeight
           u == SubSeq(r, 1, 1)
           v == SubSeq(r, 1 + 1, Len(r))
<1>0. b \in Seq(Keys) /\ Len(b) = 1 /\ b[1] = k /\ Append(<<>>, k) = b /\ <<>> \in Seq(Keys)
  OBVIOUS
<1>1. /\ r \in Seq(Keys) /\ Len(r) = 1 + Len(q) /\ Len(q) \in Nat
      /\ \A i \in 1..(1 + Len(q)) : r[i] = IF i <= 1 THEN b[i] ELSE q[i - 1]
  BY <1>0, ConcatProperties
<1>2. w \in [Keys -> Nat]
  <2>1. 1 \in Nat \ {0} OBVIOUS
  <2> QED BY <2>1, CountsWeigh
<1> HIDE DEF r, w, b
<1>3. 1 \in 0..Len(r)
  BY <1>1
<1>4. /\ u \in Seq(Keys) /\ v \in Seq(Keys)
      /\ Weigh(w, u) \in Nat /\ Weigh(w, v) \in Nat /\ Weigh(w, r) = Weigh(w, u) + Weigh(w, v)
  BY <1>1, <1>2, <1>3, WeighSplit
<1>5. v = q
  <2>1. Len(v) = Len(r) - 1 /\ \A i \in 1..(Len(r) - 1) : v[i] = r[1 + i]
    BY <1>1, <1>3, AfterFirst
  <2> HIDE DEF v
  <2>2. Len(v) = Len(q) BY <1>1, <2>1
  <2>3. ASSUME NEW i \in 1..Len(q) PROVE v[i] = q[i]
    <3>1. 1 + i \in 1..(1 + Len(q)) /\ ~ (1 + i <= 1) /\ (1 + i) - 1 = i /\ i \in 1..(Len(r) - 1)
      BY <1>1
    <3> QED BY <3>1, <2>1, <1>1
  <2> QED BY <1>4, <2>2, <2>3, SeqEqual
<1>6. u = b
  <2>1. Len(u) = 1 /\ u[1] = r[1]
    BY <1>1, <1>3
  <2>2. r[1] = b[1]
    BY <1>1
  <2> HIDE DEF u
  <2> QED BY <1>0, <1>4, <2>1, <2>2, SeqEqual
<1>7. Weigh(w, b) = 0 + w[k] /\ w[k] \in Nat
  <2>1. Weigh(w, <<>>) = 0 BY <1>2, WeighEmpty
  <2>2. Weigh(w, Append(<<>>, k)) = Weigh(w, <<>>) + w[k] /\ w[k] \in Nat
    BY <1>0, <1>2, WeighAppend
  <2> QED BY <2>1, <2>2, <1>0
<1>8. Tokens(q) = Weigh(w, q) /\ Tokens(r) = Weigh(w, r)
  <2>1. 1 \in Nat \ {0} OBVIOUS
  <2> QED BY <2>1, <1>1, CountsWeigh DEF w
<1> HIDE DEF u, v
<1>9. Tokens(r) = Tokens(q) + w[k] /\ Tokens(q) \in Nat
  BY <1>4, <1>5, <1>6, <1>7, <1>8
<1>10. Len(r) = Len(q) + 1
  BY <1>1
<1> QED BY <1>7, <1>9, <1>10 DEF r, w, b

\* Moving a key to the end of the entries moves it to the end of the history before it.
LEMMA MovesHistory ==
  ASSUME NEW p \in Seq(Keys), NEW e \in Seq(Keys), IsInjective(p \o e), NEW k \in Keys
  PROVE  \E o \in Seq(Keys) :
            /\ Append(Without(p \o e, {k}), k) = o \o MoveToEnd(e, k)
            /\ IsInjective(o \o MoveToEnd(e, k))
            /\ k \in Range(e) => o = p
            /\ p = <<>> => o = <<>>
            /\ o # <<>> /\ p[Len(p)] # k => o[Len(o)] = p[Len(p)]
<1> DEFINE o == Without(p, {k})
           u == Without(e, {k})
           q == p \o e
           y == Without(q, {k})
<1>1. IsInjective(p) /\ IsInjective(e) /\ Range(p) \cap Range(e) = {} /\ q \in Seq(Keys)
  BY PartsDiffer, ConcatProperties
<1>2. o \in Seq(Keys) /\ u \in Seq(Keys) /\ y \in Seq(Keys)
  BY <1>1, WithoutProps
<1>3. Append(y, k) = o \o MoveToEnd(e, k)
  <2>1. y = o \o u BY WithoutConcat
  <2> HIDE DEF o, u, y
  <2>2. o \o Append(u, k) = Append(o \o u, k) BY <1>2, AppendConcat
  <2> QED BY <2>1, <2>2 DEF MoveToEnd, u
<1>4. IsInjective(Append(y, k))
  <2>1. Range(y) = Range(q) \ {k} /\ IsInjective(y)
    BY <1>1, WithoutProps DEF q
  <2> HIDE DEF y
  <2>2. k \notin Range(y) BY <2>1
  <2> QED BY <2>1, <2>2, <1>2, AppendRange
<1>5. k \in Range(e) => o = p
  <2> SUFFICES ASSUME k \in Range(e) PROVE o = p OBVIOUS
  <2>1. k \notin Range(p) BY <1>1
  <2> QED BY <2>1, <1>1, WithoutNone
<1>6. p = <<>> => o = <<>>
  <2> SUFFICES ASSUME p = <<>> PROVE o = <<>> OBVIOUS
  <2>1. k \notin Range(p) BY DEF Range
  <2>2. o = p BY <2>1, <1>1, WithoutNone
  <2> QED BY <2>2
<1>7. o # <<>> /\ p[Len(p)] # k => o[Len(o)] = p[Len(p)]
  <2> SUFFICES ASSUME o # <<>>, p[Len(p)] # k PROVE o[Len(o)] = p[Len(p)] OBVIOUS
  <2>1. p # <<>> BY <1>6
  <2> QED BY <2>1, LastStays
<1> HIDE DEF o, y
<1> QED BY <1>2, <1>3, <1>4, <1>5, <1>6, <1>7 DEF y, q

\* One k more than q is beyond the limits.
Over(k, q, c) == Len(q) + 1 > c.entries \/ Tokens(q) + TokenWeight[k] > c.tokens

\* What _enforce_capacity keeps of q is its longest suffix within the limits, and what
\* it drops is the rest.
LEMMA KeptProps ==
  ASSUME NEW q \in Seq(Keys), IsInjective(q), NEW c \in Config
  PROVE  \E n \in 0 .. Len(q) :
            /\ Kept(q, Tokens(q), c) = SubSeq(q, n + 1, Len(q))
            /\ Len(SubSeq(q, n + 1, Len(q))) = Len(q) - n
            /\ Len(SubSeq(q, n + 1, Len(q))) <= c.entries
            /\ Tokens(SubSeq(q, n + 1, Len(q))) <= c.tokens
            /\ SubSeq(q, n + 1, Len(q)) \in Seq(Keys)
            /\ IsInjective(SubSeq(q, n + 1, Len(q)))
            /\ SubSeq(q, 1, n) \in Seq(Keys)
            /\ Dropped(q, Kept(q, Tokens(q), c)) = SubSeq(q, 1, n)
            /\ n > 0 => Over(q[n], SubSeq(q, n + 1, Len(q)), c)
<1> DEFINE total == Tokens(q)
           fits(n) == Len(q) - n <= c.entries /\ total - Tokens(SubSeq(q, 1, n)) <= c.tokens
           F == {n \in 0 .. Len(q) : fits(n)}
           N == Len(q)
<1>0. c.entries \in Nat /\ c.tokens \in Nat /\ c.page \in Nat \ {0} /\ N \in Nat
  BY ConfigAssumption
<1>1. Kept(q, total, c) = SubSeq(q, Min(F) + 1, Len(q))
  BY DEF Kept
<1>2. ASSUME NEW n \in 0 .. N
      PROVE  /\ SubSeq(q, 1, n) \in Seq(Keys) /\ SubSeq(q, n + 1, N) \in Seq(Keys)
             /\ Tokens(SubSeq(q, 1, n)) \in Nat /\ Tokens(SubSeq(q, n + 1, N)) \in Nat
             /\ total = Tokens(SubSeq(q, 1, n)) + Tokens(SubSeq(q, n + 1, N))
  <2>1. TokenWeight \in [Keys -> Nat] /\ Tokens(q) = Weigh(TokenWeight, q)
    BY <1>0, CountsWeigh
  <2>2. /\ SubSeq(q, 1, n) \in Seq(Keys) /\ SubSeq(q, n + 1, N) \in Seq(Keys)
        /\ Weigh(TokenWeight, SubSeq(q, 1, n)) \in Nat
        /\ Weigh(TokenWeight, SubSeq(q, n + 1, N)) \in Nat
        /\ Weigh(TokenWeight, q) =
               Weigh(TokenWeight, SubSeq(q, 1, n)) + Weigh(TokenWeight, SubSeq(q, n + 1, N))
    BY <2>1, WeighSplit
  <2>3. Tokens(SubSeq(q, 1, n)) = Weigh(TokenWeight, SubSeq(q, 1, n))
    BY <2>2, <1>0, CountsWeigh
  <2>4. Tokens(SubSeq(q, n + 1, N)) = Weigh(TokenWeight, SubSeq(q, n + 1, N))
    BY <2>2, <1>0, CountsWeigh
  <2> QED BY <2>1, <2>2, <2>3, <2>4
<1>3. N \in F
  <2>1. SubSeq(q, 1, N) = q
    <3>1. /\ SubSeq(q, 1, N) \in Seq(Keys) /\ Len(SubSeq(q, 1, N)) = N
          /\ \A i \in 1..N : SubSeq(q, 1, N)[i] = q[i]
      BY <1>0, SubSeqProperties
    <3> QED BY <3>1, SeqEqual
  <2>2. Tokens(q) \in Nat
    BY <1>0, <1>2, <2>1
  <2>3. total - total = 0
    BY <2>2
  <2>4. total - Tokens(SubSeq(q, 1, N)) = 0
    BY ONLY <2>1, <2>3
  <2>5. N \in 0..N /\ N - N = 0
    BY <1>0
  <2> HIDE DEF total
  <2>6. N - N <= c.entries /\ total - Tokens(SubSeq(q, 1, N)) <= c.tokens
    BY ONLY <1>0, <2>4, <2>5
  <2> QED BY ONLY <2>5, <2>6
<1> DEFINE n == Min(F)
<1>4. n \in F /\ \A i \in F : n <= i
  <2>1. F \subseteq Nat /\ F # {} BY <1>3
  <2> HIDE DEF F
  <2> QED BY <2>1, MinProps
<1> HIDE DEF n
<1>5. n \in 0 .. N /\ N - n <= c.entries /\ total - Tokens(SubSeq(q, 1, n)) <= c.tokens
  BY <1>4
<1> DEFINE v == SubSeq(q, n + 1, N)
           u == SubSeq(q, 1, n)
<1>6. /\ u \in Seq(Keys) /\ v \in Seq(Keys) /\ Tokens(u) \in Nat /\ Tokens(v) \in Nat
      /\ total = Tokens(u) + Tokens(v)
  BY <1>2, <1>5
<1>7. Tokens(v) <= c.tokens
  <2> HIDE DEF u, v, total
  <2>1. total - Tokens(u) <= c.tokens BY <1>5 DEF u
  <2> QED BY <2>1, <1>0, <1>6
<1>8. Len(v) = N - n /\ \A i \in 1..(N - n) : v[i] = q[n + i]
  BY <1>5, AfterFirst
<1>9. IsInjective(v)
  <2> HIDE DEF v
  <2>1. DOMAIN v = 1..(N - n) BY <1>6, <1>8
  <2>2. \A i, j \in 1..N : q[i] = q[j] => i = j BY DEF IsInjective
  <2>3. \A i, j \in 1..(N - n) : v[i] = v[j] => i = j
    <3> SUFFICES ASSUME NEW i \in 1..(N - n), NEW j \in 1..(N - n), v[i] = v[j] PROVE i = j
      OBVIOUS
    <3>1. n + i \in 1..N /\ n + j \in 1..N BY <1>0, <1>5
    <3>2. q[n + i] = q[n + j] BY <1>8
    <3>3. n + i = n + j BY <3>1, <3>2, <2>2
    <3> QED BY <3>3, <1>5
  <2> QED BY <2>1, <2>3 DEF IsInjective
<1>10. Kept(q, total, c) = v
  BY <1>1 DEF n
<1>11. Dropped(q, Kept(q, total, c)) = u
  <2>1. N - Len(v) = n BY <1>0, <1>5, <1>8
  <2> QED BY <2>1, <1>10 DEF Dropped
<1>12. Len(v) <= c.entries
  BY <1>5, <1>8
<1>13. ASSUME n > 0 PROVE Over(q[n], v, c)
  <2> DEFINE o == SubSeq(q, 1, n - 1)
             k == q[n]
  <2>1. n - 1 \in 0 .. N /\ n \in 1 .. N /\ k \in Keys BY <1>13, <1>5
  <2>2. o \in Seq(Keys) /\ Tokens(o) \in Nat BY <2>1, <1>2
  <2>3. u = Append(o, k)
    <3>1. Len(u) = n /\ \A i \in 1..n : u[i] = q[i]
      BY <2>1, SubSeqProperties
    <3>2. Len(o) = n - 1 /\ \A i \in 1..(n - 1) : o[i] = q[i]
      BY <2>1, SubSeqProperties
    <3> HIDE DEF o, u, k
    <3> DEFINE z == Append(o, k)
    <3>3. /\ z \in Seq(Keys) /\ Len(z) = Len(o) + 1 /\ z[Len(o) + 1] = k
          /\ \A i \in 1..Len(o) : z[i] = o[i]
      BY <2>1, <2>2, AppendProperties
    <3> HIDE DEF z
    <3>4. Len(z) = Len(u) BY <3>1, <3>2, <3>3, <2>1
    <3>5. ASSUME NEW i \in 1..Len(u) PROVE u[i] = z[i]
      <4>1. CASE i = n BY <4>1, <3>1, <3>2, <3>3, <2>1 DEF k
      <4>2. CASE i # n
        <5>1. i \in 1..(n - 1) BY <4>2, <3>1, <2>1
        <5> QED BY <5>1, <3>1, <3>2, <3>3
      <4> QED BY <4>1, <4>2
    <3>6. u = z BY ONLY <3>3, <3>4, <3>5, <1>6, SeqEqual
    <3> QED BY <3>6 DEF z
  <2>4. Tokens(u) = Tokens(o) + TokenWeight[k] /\ TokenWeight[k] \in Nat
    <3> HIDE DEF o, u, k
    <3>1. TokenWeight \in [Keys -> Nat] /\ Tokens(o) = Weigh(TokenWeight, o)
          /\ Tokens(u) = Weigh(TokenWeight, u)
      BY <1>0, <1>6, <2>2, CountsWeigh
    <3>2. Weigh(TokenWeight, Append(o, k)) = Weigh(TokenWeight, o) + TokenWeight[k]
          /\ TokenWeight[k] \in Nat
      BY <3>1, <2>1, <2>2, WeighAppend
    <3> QED BY <3>1, <3>2, <2>3
  <2>5. ~ (N - (n - 1) <= c.entries /\ total - Tokens(o) <= c.tokens)
    <3>1. n - 1 \notin F
      <4> HIDE DEF F
      <4>1. ~ (n <= n - 1) BY <1>5
      <4> QED BY <4>1, <1>4
    <3> HIDE DEF total
    <3> QED BY <3>1, <2>1 DEF o
  <2> HIDE DEF o, u, v, k, total
  <2>6. total - Tokens(o) = Tokens(v) + TokenWeight[k]
    BY ONLY <1>6, <2>2, <2>4, SMTT(30)
  <2>7. N - (n - 1) = Len(v) + 1
    BY ONLY <1>0, <1>5, <1>8
  <2>8. Len(v) + 1 > c.entries \/ Tokens(v) + TokenWeight[k] > c.tokens
    <3>1. Len(v) + 1 \in Int /\ Tokens(v) + TokenWeight[k] \in Int BY <1>6, <2>4
    <3> QED BY ONLY <3>1, <2>5, <2>6, <2>7, <1>0
  <2> QED BY <2>8 DEF Over, k
<1> HIDE DEF total, F
<1> QED BY <1>5, <1>6, <1>7, <1>8, <1>9, <1>10, <1>11, <1>12, <1>13 DEF total

-----------------------------------------------------------------------------
(* The cache.                                                              *)

Counts(a, b) == [tokens |-> a, treeTokens |-> b]

\* Adding and subtracting counts adds and subtracts their fields.
LEMMA CountsAdd ==
  ASSUME NEW a \in Nat, NEW b \in Nat, NEW c \in Nat, NEW d \in Nat
  PROVE  /\ Plus(Counts(a, b), Counts(c, d)) = Counts(a + c, b + d)
         /\ Minus(Counts(a, b), Counts(c, d)) = Counts(a - c, b - d)
BY DEF Plus, Minus, Counts

\* Counted is the pair of its two sums.
LEMMA CountedCounts ==
  ASSUME NEW q, NEW p
  PROVE  Counted(q, p) = Counts(Tokens(q), TreeTokens(q, p))
BY DEF Counted, Counts

\* The entries are different keys, and the tree is the radix tree of them.
Shape ==
    /\ entries \in Seq(Keys) /\ IsInjective(entries)
    /\ config \in Config /\ repaged \in BOOLEAN
    /\ TreeOf(tree, Range(entries), config.page)

\* The history r ends with the entries e, and the key before them, if any, is one more
\* than fits; after a change of the page size there is none before them.
Newest(e, r, c, re) ==
    /\ IsInjective(r)
    /\ \E p \in Seq(Keys) :
          /\ r = p \o e
          /\ re => p = <<>>
          /\ p # <<>> => Over(p[Len(p)], e, c)

\* The inductive invariant.
IInv == Shape /\ TotalsMatch /\ WithinLimits /\ Newest(entries, recent, config, repaged)

\* The counts of the entries left after dropping the first n are those of all of them
\* less those of the dropped.
LEMMA CountedSplit ==
  ASSUME NEW p \in Nat \ {0}, NEW q \in Seq(Keys), NEW n \in 0 .. Len(q)
  PROVE  Minus(Counted(q, p), Counted(SubSeq(q, 1, n), p)) = Counted(SubSeq(q, n + 1, Len(q)), p)
<1> DEFINE u == SubSeq(q, 1, n)
           v == SubSeq(q, n + 1, Len(q))
           wt == TokenWeight
           wp == TreeWeight(p)
<1>1. /\ wt \in [Keys -> Nat] /\ wp \in [Keys -> Nat]
      /\ Tokens(q) = Weigh(wt, q) /\ TreeTokens(q, p) = Weigh(wp, q)
  BY CountsWeigh
<1>2. /\ u \in Seq(Keys) /\ v \in Seq(Keys) /\ Weigh(wt, u) \in Nat /\ Weigh(wt, v) \in Nat
      /\ Weigh(wt, q) \in Nat /\ Weigh(wt, q) = Weigh(wt, u) + Weigh(wt, v)
  BY <1>1, WeighSplit
<1>3. /\ Weigh(wp, u) \in Nat /\ Weigh(wp, v) \in Nat
      /\ Weigh(wp, q) \in Nat /\ Weigh(wp, q) = Weigh(wp, u) + Weigh(wp, v)
  BY <1>1, WeighSplit
<1>4. Tokens(u) = Weigh(wt, u) /\ TreeTokens(u, p) = Weigh(wp, u)
  BY <1>2, CountsWeigh
<1>5. Tokens(v) = Weigh(wt, v) /\ TreeTokens(v, p) = Weigh(wp, v)
  BY <1>2, CountsWeigh
<1> HIDE DEF u, v, wt, wp
<1>6. Tokens(q) - Tokens(u) = Tokens(v) /\ TreeTokens(q, p) - TreeTokens(u, p) = TreeTokens(v, p)
  BY <1>1, <1>2, <1>3, <1>4, <1>5
<1>7. /\ Tokens(q) \in Nat /\ TreeTokens(q, p) \in Nat
      /\ Tokens(u) \in Nat /\ TreeTokens(u, p) \in Nat
  BY <1>1, <1>2, <1>3, <1>4
<1>8. Minus(Counted(q, p), Counted(u, p))
      = Counts(Tokens(q) - Tokens(u), TreeTokens(q, p) - TreeTokens(u, p))
  <2> DEFINE a == Tokens(q)
             b == TreeTokens(q, p)
             c == Tokens(u)
             d == TreeTokens(u, p)
  <2>1. Counted(q, p) = Counts(a, b) /\ Counted(u, p) = Counts(c, d)
    BY CountedCounts
  <2>2. a \in Nat /\ b \in Nat /\ c \in Nat /\ d \in Nat
    BY <1>7
  <2> HIDE DEF a, b, c, d
  <2>3. Minus(Counts(a, b), Counts(c, d)) = Counts(a - c, b - d)
    BY ONLY <2>2, CountsAdd
  <2>4. Minus(Counted(q, p), Counted(u, p)) = Counts(a - c, b - d)
    BY ONLY <2>1, <2>3
  <2> QED BY ONLY <2>4 DEF a, b, c, d
<1>9. Minus(Counted(q, p), Counted(u, p)) = Counted(v, p)
  BY ONLY <1>6, <1>8, CountedCounts
<1> QED BY <1>9 DEF u, v

\* Added is what the entries count once the new one is among them.
LEMMA AddedCounts ==
  ASSUME NEW k \in Keys, Shape, TotalsMatch
  PROVE  Added(k) = Counted(MoveToEnd(entries, k), config.page)
<1> DEFINE q == entries
           p == config.page
           z == MoveToEnd(q, k)
           wt == TokenWeight
           wp == TreeWeight(p)
<1>0. q \in Seq(Keys) /\ IsInjective(q) /\ p \in Nat \ {0} /\ totals = Counted(q, p)
  BY ConfigAssumption DEF Shape, TotalsMatch
<1>1. /\ wt \in [Keys -> Nat] /\ wp \in [Keys -> Nat]
      /\ Tokens(q) = Weigh(wt, q) /\ TreeTokens(q, p) = Weigh(wp, q)
  BY <1>0, CountsWeigh
<1>2. /\ z \in Seq(Keys)
      /\ \A w \in [Keys -> Nat] : Weigh(w, z) = Weigh(w, q) + (IF k \in Range(q) THEN 0 ELSE w[k])
  BY <1>0, MoveProps
<1>3. Tokens(z) = Weigh(wt, z) /\ TreeTokens(z, p) = Weigh(wp, z)
  BY <1>0, <1>2, CountsWeigh
<1>4. Weigh(wt, q) \in Nat /\ wt[k] \in Nat /\ Weigh(wp, q) \in Nat /\ wp[k] \in Nat
  BY <1>0, <1>1, WeighAppend
<1>5. Contains(q, k) <=> k \in Range(q)
  BY <1>0 DEF Contains, Range
<1>6. CASE k \in Range(q)
  <2>1. Tokens(z) = Tokens(q) /\ TreeTokens(z, p) = TreeTokens(q, p)
    BY <1>1, <1>2, <1>3, <1>4, <1>6
  <2>2. Counted(z, p) = Counted(q, p)
    BY <2>1 DEF Counted
  <2>3. Added(k) = totals
    BY <1>5, <1>6 DEF Added
  <2> QED BY <2>2, <2>3, <1>0
<1>7. CASE k \notin Range(q)
  <2>1. <<>> \in Seq(Keys) /\ Append(<<>>, k) = <<k>> /\ <<k>> \in Seq(Keys)
    OBVIOUS
  <2>2. Weigh(wt, <<k>>) = 0 + wt[k] /\ Weigh(wp, <<k>>) = 0 + wp[k]
    <3>1. Weigh(wt, <<>>) = 0 /\ Weigh(wp, <<>>) = 0 BY <1>1, WeighEmpty
    <3>2. Weigh(wt, Append(<<>>, k)) = Weigh(wt, <<>>) + wt[k] BY <1>1, <2>1, WeighAppend
    <3>3. Weigh(wp, Append(<<>>, k)) = Weigh(wp, <<>>) + wp[k] BY <1>1, <2>1, WeighAppend
    <3> QED BY <3>1, <3>2, <3>3, <2>1
  <2>3. Tokens(<<k>>) = Weigh(wt, <<k>>) /\ TreeTokens(<<k>>, p) = Weigh(wp, <<k>>)
    BY <1>0, <2>1, CountsWeigh
  <2> HIDE DEF wt, wp, z, p
  <2>4. Tokens(<<k>>) = wt[k] /\ TreeTokens(<<k>>, p) = wp[k]
    BY <2>2, <2>3, <1>4
  <2>5. Tokens(z) = Tokens(q) + Tokens(<<k>>) /\ TreeTokens(z, p) = TreeTokens(q, p) + TreeTokens(<<k>>, p)
    BY <2>4, <1>1, <1>2, <1>3, <1>7
  <2>6. /\ Tokens(q) \in Nat /\ TreeTokens(q, p) \in Nat
        /\ Tokens(<<k>>) \in Nat /\ TreeTokens(<<k>>, p) \in Nat
    BY <2>4, <1>1, <1>4
  <2>7. Plus(Counted(q, p), Counted(<<k>>, p))
        = Counts(Tokens(q) + Tokens(<<k>>), TreeTokens(q, p) + TreeTokens(<<k>>, p))
    <3> DEFINE a == Tokens(q)
               b == TreeTokens(q, p)
               c == Tokens(<<k>>)
               d == TreeTokens(<<k>>, p)
    <3>1. Counted(q, p) = Counts(a, b) /\ Counted(<<k>>, p) = Counts(c, d)
      BY ONLY CountedCounts
    <3>2. a \in Nat /\ b \in Nat /\ c \in Nat /\ d \in Nat
      BY <2>6
    <3> HIDE DEF a, b, c, d
    <3>3. Plus(Counts(a, b), Counts(c, d)) = Counts(a + c, b + d)
      BY ONLY <3>2, CountsAdd
    <3>4. Plus(Counted(q, p), Counted(<<k>>, p)) = Counts(a + c, b + d)
      BY ONLY <3>1, <3>3
    <3> QED BY ONLY <3>4 DEF a, b, c, d
  <2>8. Plus(Counted(q, p), Counted(<<k>>, p)) = Counted(z, p)
    BY ONLY <2>5, <2>7, CountedCounts
  <2>9. Added(k) = Plus(totals, Counted(<<k>>, p))
    BY <1>5, <1>7 DEF Added, p
  <2>10. Added(k) = Counted(z, p)
    BY <2>8, <2>9, <1>0
  <2> QED BY <2>10 DEF z, p
<1> QED BY <1>6, <1>7

\* The end of a sequence is a suffix of it.
LEMMA SuffixEnd ==
  ASSUME NEW X, NEW q \in Seq(X), NEW n \in 0 .. Len(q), NEW v \in Seq(X),
         Len(v) = Len(q) - n, \A i \in 1..(Len(q) - n) : v[i] = q[n + i]
  PROVE  IsSuffix(v, q)
<1> DEFINE N == Len(q)
           M == N - n
           a == Reverse(v)
           b == Reverse(q)
<1>1. a = [i \in 1..M |-> v[(M - i) + 1]] /\ b = [i \in 1..N |-> q[(N - i) + 1]]
  BY DEF Reverse
<1>2. N \in Nat /\ M \in Nat /\ M <= N
  OBVIOUS
<1>3. \A i \in 1..M : (M - i) + 1 \in 1..M /\ n + ((M - i) + 1) = (N - i) + 1 /\ i \in 1..N
  OBVIOUS
<1>4. \A i \in 1..M : v[(M - i) + 1] = q[(N - i) + 1]
  <2> TAKE i \in 1..M
  <2>1. v[(M - i) + 1] = q[n + ((M - i) + 1)]
    BY <1>3
  <2> QED BY <2>1, <1>3
<1>5. \A i \in 1..N : q[(N - i) + 1] \in X
  OBVIOUS
<1>6. a \in Seq(X) /\ Len(a) = M /\ b \in Seq(X) /\ Len(b) = N
  <2>1. a \in [1..M -> X] BY <1>1, <1>3, <1>4, <1>5
  <2>2. b \in [1..N -> X] BY <1>1, <1>5
  <2> HIDE DEF a, b, M, N
  <2>3. a \in Seq(X) /\ Len(a) = M BY ONLY <2>1, <1>2
  <2>4. b \in Seq(X) /\ Len(b) = N BY ONLY <2>2, <1>2
  <2> QED BY <2>3, <2>4
<1>7. \A i \in 1..M : a[i] = b[i]
  BY <1>1, <1>3, <1>4
<1> HIDE DEF a, b, M, N
<1>8. /\ SubSeq(a, 1, M) \in Seq(X) /\ Len(SubSeq(a, 1, M)) = M
      /\ \A i \in 1..M : SubSeq(a, 1, M)[i] = a[i]
  BY <1>2, <1>6, SubSeqProperties
<1>9. /\ SubSeq(b, 1, M) \in Seq(X) /\ Len(SubSeq(b, 1, M)) = M
      /\ \A i \in 1..M : SubSeq(b, 1, M)[i] = b[i]
  BY <1>2, <1>6, SubSeqProperties
<1>10. SubSeq(a, 1, M) = SubSeq(b, 1, M)
  <2> DEFINE c == SubSeq(a, 1, M)
             d == SubSeq(b, 1, M)
  <2>1. c \in Seq(X) /\ d \in Seq(X) /\ Len(c) = Len(d) /\ \A i \in 1..Len(c) : c[i] = d[i]
    BY <1>7, <1>8, <1>9
  <2> HIDE DEF c, d
  <2>2. c = d BY <2>1, SeqEqual
  <2> QED BY <2>2 DEF c, d
<1>11. IsPrefix(a, b)
  BY <1>2, <1>6, <1>10 DEF IsPrefix
<1> QED BY <1>11 DEF IsSuffix, a, b

\* What _enforce_capacity leaves of q: different keys, within the limits, with the
\* counts that the subtractions leave, and as many of the newest of q as fit.
Enforced(q, kept, c) ==
    /\ kept \in Seq(Keys) /\ IsInjective(kept)
    /\ Len(kept) <= c.entries /\ Tokens(kept) <= c.tokens
    /\ Minus(Counted(q, c.page), Counted(Dropped(q, kept), c.page)) = Counted(kept, c.page)
    /\ \E d \in Seq(Keys) : q = d \o kept /\ (d # <<>> => Over(d[Len(d)], kept, c))

\* _enforce_capacity enforces the capacity when the counter it decides on is right.
LEMMA CapacityEnforced ==
  ASSUME NEW q \in Seq(Keys), IsInjective(q), NEW c \in Config
  PROVE  Enforced(q, Kept(q, Tokens(q), c), c)
<1>1. PICK n \in 0 .. Len(q) :
            /\ Kept(q, Tokens(q), c) = SubSeq(q, n + 1, Len(q))
            /\ Len(SubSeq(q, n + 1, Len(q))) = Len(q) - n
            /\ Len(SubSeq(q, n + 1, Len(q))) <= c.entries
            /\ Tokens(SubSeq(q, n + 1, Len(q))) <= c.tokens
            /\ SubSeq(q, n + 1, Len(q)) \in Seq(Keys)
            /\ IsInjective(SubSeq(q, n + 1, Len(q)))
            /\ SubSeq(q, 1, n) \in Seq(Keys)
            /\ Dropped(q, Kept(q, Tokens(q), c)) = SubSeq(q, 1, n)
            /\ n > 0 => Over(q[n], SubSeq(q, n + 1, Len(q)), c)
  BY KeptProps
<1> DEFINE v == SubSeq(q, n + 1, Len(q))
           d == SubSeq(q, 1, n)
<1>2. c.page \in Nat \ {0}
  BY ConfigAssumption
<1>3. Minus(Counted(q, c.page), Counted(SubSeq(q, 1, n), c.page)) = Counted(v, c.page)
  BY <1>2, CountedSplit
<1>4. q = d \o v
  <2>1. Len(q) \in Nat /\ 1 \in 1 .. Len(q) + 1 /\ n \in 1 - 1 .. Len(q) /\ Len(q) \in n .. Len(q)
    OBVIOUS
  <2>2. d \o v = SubSeq(q, 1, Len(q))
    BY <2>1, ConcatAdjacentSubSeq
  <2>3. SubSeq(q, 1, Len(q)) = q
    <3>1. /\ SubSeq(q, 1, Len(q)) \in Seq(Keys) /\ Len(SubSeq(q, 1, Len(q))) = Len(q)
          /\ \A i \in 1..Len(q) : SubSeq(q, 1, Len(q))[i] = q[i]
      BY <2>1, SubSeqProperties
    <3> QED BY <3>1, SeqEqual
  <2> QED BY <2>2, <2>3
<1>5. d # <<>> => n > 0 /\ d[Len(d)] = q[n]
  <2>1. Len(d) = n /\ \A i \in 1..n : d[i] = q[i]
    BY SubSeqProperties
  <2>2. d \in Seq(Keys) /\ (d # <<>> => Len(d) # 0)
    BY <1>1, EmptySeq
  <2> HIDE DEF d
  <2> QED BY <2>1, <2>2
<1> HIDE DEF v, d
<1>6. \E o \in Seq(Keys) : q = o \o v /\ (o # <<>> => Over(o[Len(o)], v, c))
  <2>1. d \in Seq(Keys) BY <1>1 DEF d
  <2>2. d # <<>> => Over(d[Len(d)], v, c) BY <1>1, <1>5 DEF v
  <2> QED BY <2>1, <2>2, <1>4
<1> QED BY <1>1, <1>3, <1>6 DEF Enforced, v

\* Entries that are the whole history are the newest keys.
LEMMA NewestItself ==
  ASSUME NEW e \in Seq(Keys), IsInjective(e), NEW c, NEW re
  PROVE  Newest(e, e, c, re)
<1>1. <<>> \in Seq(Keys) /\ e = <<>> \o e
  BY ConcatEmptySeq
<1> QED BY <1>1 DEF Newest

\* What the limits leave of the entries are the newest of them.
LEMMA NewestEnforced ==
  ASSUME NEW e \in Seq(Keys), IsInjective(e), NEW kept, NEW c, Enforced(e, kept, c)
  PROVE  Newest(kept, e, c, FALSE)
BY DEF Enforced, Newest

\* A hit keeps the entries the newest keys.
LEMMA NewestUsed ==
  ASSUME NEW e \in Seq(Keys), NEW r, NEW c \in Config, NEW re, Newest(e, r, c, re),
         NEW k \in Range(e), Tokens(MoveToEnd(e, k)) = Tokens(e),
         Len(MoveToEnd(e, k)) = Len(e)
  PROVE  Newest(MoveToEnd(e, k), Append(Without(r, {k}), k), c, re)
<1>1. PICK p \in Seq(Keys) :
        r = p \o e /\ (re => p = <<>>) /\ (p # <<>> => Over(p[Len(p)], e, c))
  BY DEF Newest
<1>2. IsInjective(p \o e) /\ k \in Keys
  BY <1>1 DEF Newest, Range
<1>3. /\ Append(Without(p \o e, {k}), k) = p \o MoveToEnd(e, k)
      /\ IsInjective(p \o MoveToEnd(e, k))
  BY <1>2, MovesHistory
<1>4. p # <<>> => Over(p[Len(p)], MoveToEnd(e, k), c)
  BY <1>1 DEF Over
<1> QED BY <1>1, <1>3, <1>4 DEF Newest

\* Concatenation is associative, of sequences of keys.
LEMMA Regroup ==
  \A x, y, w \in Seq(Keys) : (x \o y) \o w = x \o (y \o w)
<1> SUFFICES ASSUME NEW x \in Seq(Keys), NEW y \in Seq(Keys), NEW w \in Seq(Keys)
             PROVE  (x \o y) \o w = x \o (y \o w)
  OBVIOUS
<1> QED BY ONLY x \in Seq(Keys), y \in Seq(Keys), w \in Seq(Keys), ConcatAssociative

\* So does an insert, which keeps as many as fit: an older key that did not fit before
\* does not fit now, and if it is the one inserted, then another had to go.
LEMMA NewestInserted ==
  ASSUME NEW e \in Seq(Keys), IsInjective(e), NEW r, NEW c \in Config, NEW re,
         Newest(e, r, c, re), NEW k \in Keys, NEW kept, Enforced(MoveToEnd(e, k), kept, c)
  PROVE  Newest(kept, Append(Without(r, {k}), k), c, FALSE)
<1> DEFINE z == MoveToEnd(e, k)
<1>1. PICK p \in Seq(Keys) : r = p \o e /\ (p # <<>> => Over(p[Len(p)], e, c))
  BY DEF Newest
<1>2. IsInjective(p \o e)
  BY <1>1 DEF Newest
<1>3. PICK o \in Seq(Keys) :
        /\ Append(Without(r, {k}), k) = o \o z
        /\ IsInjective(o \o z)
        /\ k \in Range(e) => o = p
        /\ p = <<>> => o = <<>>
        /\ o # <<>> /\ p[Len(p)] # k => o[Len(o)] = p[Len(p)]
  BY <1>1, <1>2, MovesHistory
<1>4. PICK d \in Seq(Keys) : z = d \o kept /\ (d # <<>> => Over(d[Len(d)], kept, c))
  BY DEF Enforced
<1>5. kept \in Seq(Keys) /\ Len(kept) <= c.entries /\ Tokens(kept) <= c.tokens
  BY DEF Enforced
<1>6. /\ c.entries \in Nat /\ c.tokens \in Nat
      /\ Len(e) \in Nat /\ Tokens(e) \in Nat /\ TokenWeight[k] \in Nat
  <2>1. Tokens(e) \in Nat /\ TokenWeight[k] \in Nat
    BY ONLY e \in Seq(Keys), k \in Keys, Prepended
  <2>2. c.entries \in Nat /\ c.tokens \in Nat
    BY ONLY c \in Config, ConfigAssumption
  <2> QED BY <2>1, <2>2
<1>7. /\ Tokens(z) = Tokens(e) + (IF k \in Range(e) THEN 0 ELSE TokenWeight[k])
      /\ Len(z) = Len(e) + (IF k \in Range(e) THEN 0 ELSE 1)
  <2>0. 1 \in Nat \ {0} OBVIOUS
  <2>1. z \in Seq(Keys) /\ \A w \in [Keys -> Nat] :
            Weigh(w, z) = Weigh(w, e) + (IF k \in Range(e) THEN 0 ELSE w[k])
    BY MoveProps
  <2> HIDE DEF z
  <2>2. /\ TokenWeight \in [Keys -> Nat] /\ UnitWeight \in [Keys -> Nat]
        /\ Tokens(e) = Weigh(TokenWeight, e) /\ Len(e) = Weigh(UnitWeight, e)
        /\ Tokens(z) = Weigh(TokenWeight, z) /\ Len(z) = Weigh(UnitWeight, z)
    BY <2>0, <2>1, CountsWeigh
  <2>3. UnitWeight[k] = 1 BY DEF UnitWeight
  <2>4. /\ Weigh(TokenWeight, z)
             = Weigh(TokenWeight, e) + (IF k \in Range(e) THEN 0 ELSE TokenWeight[k])
        /\ Weigh(UnitWeight, z)
             = Weigh(UnitWeight, e) + (IF k \in Range(e) THEN 0 ELSE UnitWeight[k])
    BY <2>1, <2>2
  <2> QED BY ONLY <2>2, <2>3, <2>4
<1> HIDE DEF z
<1>8. o \o z = (o \o d) \o kept /\ o \o d \in Seq(Keys)
  <2>1. o \in Seq(Keys) /\ d \in Seq(Keys) /\ kept \in Seq(Keys)
    BY <1>5
  <2>2. (o \o d) \o kept = o \o (d \o kept)
    BY ONLY <2>1, Regroup, ZenonT(60)
  <2>3. o \o d \in Seq(Keys)
    BY ONLY <2>1, ConcatProperties
  <2> QED BY ONLY <2>2, <2>3, <1>4
<1>9. ASSUME o \o d # <<>> PROVE Over((o \o d)[Len(o \o d)], kept, c)
  <2>1. CASE d # <<>>
    <3>1. (o \o d)[Len(o \o d)] = d[Len(d)]
      <4> DEFINE n == Len(o) + Len(d)
      <4>1. Len(o) \in Nat /\ Len(d) \in Nat \ {0} BY <2>1, EmptySeq
      <4>2. n \in 1..n /\ ~ (n <= Len(o)) /\ n - Len(o) = Len(d) BY <4>1
      <4>3. Len(o \o d) = n /\ \A i \in 1..n :
                (o \o d)[i] = IF i <= Len(o) THEN o[i] ELSE d[i - Len(o)]
        BY ConcatProperties
      <4> HIDE DEF n
      <4> QED BY ONLY <4>2, <4>3
    <3> QED BY <3>1, <2>1, <1>4
  <2>2. CASE d = <<>>
    <3>1. o \o d = o /\ d \o kept = kept BY <2>2, <1>5, ConcatEmptySeq
    <3>2. z = kept /\ o # <<>> BY <3>1, <1>4, <1>9
    <3>3. p # <<>> BY <3>2, <1>3
    <3>4. Over(p[Len(p)], e, c) BY <3>3, <1>1
    <3>5. CASE k \in Range(e)
      <4>1. o = p BY <3>5, <1>3
      <4>2. Len(z) = Len(e) /\ Tokens(z) = Tokens(e) BY <3>5, <1>6, <1>7
      <4>3. Over(p[Len(p)], z, c) BY <4>2, <3>4 DEF Over
      <4> QED BY <4>1, <4>3, <3>1, <3>2
    <3>6. CASE k \notin Range(e)
      <4>0. Len(z) = Len(e) + 1 /\ Tokens(z) = Tokens(e) + TokenWeight[k] BY <3>6, <1>7
      <4>1. ASSUME p[Len(p)] = k PROVE FALSE
        <5>1. Len(e) + 1 > c.entries \/ Tokens(e) + TokenWeight[k] > c.tokens
          BY <4>1, <3>4 DEF Over
        <5>2. Len(z) <= c.entries /\ Tokens(z) <= c.tokens BY <3>2, <1>5
        <5> QED BY ONLY <5>1, <5>2, <4>0, <1>6
      <4>2. o[Len(o)] = p[Len(p)] BY <4>1, <3>2, <1>3
      <4> DEFINE w == p[Len(p)]
      <4>3. w \in Keys BY <3>3, EmptySeq
      <4>4. TokenWeight[w] \in Nat BY <4>3, Prepended
      <4>5. Len(e) + 1 > c.entries \/ Tokens(e) + TokenWeight[w] > c.tokens
        BY <3>4 DEF Over
      <4> HIDE DEF w
      <4>6. Len(z) + 1 > c.entries \/ Tokens(z) + TokenWeight[w] > c.tokens
        BY ONLY <4>0, <4>4, <4>5, <1>6, SMTT(30)
      <4>7. Over(w, z, c) BY <4>6 DEF Over
      <4> QED BY <4>2, <4>7, <3>1, <3>2 DEF w
    <3> QED BY <3>5, <3>6
  <2> QED BY <2>1, <2>2
<1> DEFINE od == o \o d
<1>10. od \in Seq(Keys) /\ Append(Without(r, {k}), k) = od \o kept
       /\ IsInjective(Append(Without(r, {k}), k))
       /\ (od # <<>> => Over(od[Len(od)], kept, c))
  BY <1>3, <1>8, <1>9
<1> HIDE DEF od
<1> QED BY <1>10 DEF Newest

\* The cache starts empty.
LEMMA InitHolds == Init => IInv
<1> SUFFICES ASSUME Init PROVE IInv
  OBVIOUS
<1> DEFINE p == config.page
<1>0. p \in Nat \ {0} /\ config.entries \in Nat /\ config.tokens \in Nat
  BY ConfigAssumption DEF Init
<1>1. entries \in Seq(Keys) /\ IsInjective(entries) /\ Range(entries) = {} /\ entries = <<>>
  BY DEF Init, IsInjective, Range
<1>2. Tokens(<<>>) = 0 /\ TreeTokens(<<>>, p) = 0
  <2>1. <<>> \in Seq(Keys) OBVIOUS
  <2>2. /\ TokenWeight \in [Keys -> Nat] /\ TreeWeight(p) \in [Keys -> Nat]
        /\ Tokens(<<>>) = Weigh(TokenWeight, <<>>)
        /\ TreeTokens(<<>>, p) = Weigh(TreeWeight(p), <<>>)
    BY <2>1, <1>0, CountsWeigh
  <2> QED BY <2>2, WeighEmpty
<1>3. TotalsMatch
  BY <1>1, <1>2 DEF Init, TotalsMatch, Counted
<1>4. WithinLimits
  BY <1>0, <1>1, <1>2 DEF WithinLimits, Fits
<1>5. TreeOf(tree, Range(entries), p)
  BY <1>0, <1>1, EmptyTree DEF Init
<1>6. Newest(entries, recent, config, repaged)
  BY <1>1, NewestItself DEF Init
<1> QED BY <1>1, <1>3, <1>4, <1>5, <1>6 DEF IInv, Shape, Init

\* clear empties the cache.
LEMMA ClearHolds ==
  ASSUME IInv, Clear
  PROVE  IInv'
<1> DEFINE p == config.page
<1>0. /\ p \in Nat \ {0} /\ config.entries \in Nat /\ config.tokens \in Nat
      /\ config \in Config /\ repaged \in BOOLEAN
  BY ConfigAssumption DEF IInv, Shape
<1>1. entries' = <<>> /\ tree' = << >> /\ totals' = [tokens |-> 0, treeTokens |-> 0]
      /\ config' = config /\ repaged' = repaged /\ recent' = <<>>
  BY DEF Clear
<1>2. entries' \in Seq(Keys) /\ IsInjective(entries') /\ Range(entries') = {}
  BY <1>1 DEF IsInjective, Range
<1>3. Tokens(<<>>) = 0 /\ TreeTokens(<<>>, p) = 0
  <2>1. <<>> \in Seq(Keys) OBVIOUS
  <2>2. /\ TokenWeight \in [Keys -> Nat] /\ TreeWeight(p) \in [Keys -> Nat]
        /\ Tokens(<<>>) = Weigh(TokenWeight, <<>>)
        /\ TreeTokens(<<>>, p) = Weigh(TreeWeight(p), <<>>)
    BY <2>1, <1>0, CountsWeigh
  <2> QED BY <2>2, WeighEmpty
<1>4. TotalsMatch'
  BY <1>1, <1>3 DEF TotalsMatch, Counted
<1>5. WithinLimits'
  BY <1>0, <1>1, <1>3 DEF WithinLimits, Fits
<1>6. TreeOf(tree', Range(entries'), p)
  BY <1>0, <1>1, <1>2, EmptyTree
<1>7. Newest(entries', recent', config', repaged')
  BY <1>1, <1>2, NewestItself
<1> QED BY <1>0, <1>1, <1>2, <1>4, <1>5, <1>6, <1>7 DEF IInv, Shape

\* A hit makes a cached entry the newest.
LEMMA UseHolds ==
  ASSUME IInv, NEW ns \in Namespace, NEW t \in Prompt, Use(ns, t)
  PROVE  IInv'
<1> DEFINE q == entries
           p == config.page
           k == Match(ns, t).source
           z == MoveToEnd(q, k)
<1>0. /\ p \in Nat \ {0} /\ q \in Seq(Keys) /\ IsInjective(q) /\ TreeOf(tree, Range(q), p)
      /\ totals = Counted(q, p) /\ config \in Config /\ repaged \in BOOLEAN
  BY ConfigAssumption DEF IInv, Shape, TotalsMatch
<1>1. entries' = z /\ tree' = tree /\ config' = config /\ totals' = totals /\ repaged' = repaged
      /\ Match(ns, t) # NoMatch /\ recent' = Append(Without(recent, {k}), k)
  BY DEF Use, UsedLast
<1>2. k \in Range(q)
  <2>1. Finds(ns, t, Match(ns, t).len, Match(ns, t).source)
    BY <1>0, <1>1, MatchFinds
  <2> QED BY <2>1 DEF Finds
<1>3. k \in Keys
  BY <1>0, <1>2 DEF Range
<1> HIDE DEF k
<1>4. /\ z \in Seq(Keys) /\ IsInjective(z) /\ Range(z) = Range(q) \cup {k}
      /\ \A w \in [Keys -> Nat] : Weigh(w, z) = Weigh(w, q) + (IF k \in Range(q) THEN 0 ELSE w[k])
  BY <1>0, <1>3, MoveProps
<1>5. Range(z) = Range(q)
  BY <1>2, <1>4
<1>6. /\ TokenWeight \in [Keys -> Nat] /\ TreeWeight(p) \in [Keys -> Nat]
      /\ UnitWeight \in [Keys -> Nat]
      /\ Tokens(q) = Weigh(TokenWeight, q)
      /\ TreeTokens(q, p) = Weigh(TreeWeight(p), q)
      /\ Len(q) = Weigh(UnitWeight, q)
  BY <1>0, CountsWeigh
<1>7. /\ Tokens(z) = Weigh(TokenWeight, z)
      /\ TreeTokens(z, p) = Weigh(TreeWeight(p), z)
      /\ Len(z) = Weigh(UnitWeight, z)
  BY <1>0, <1>4, CountsWeigh
<1> HIDE DEF z
<1>8. \A w \in [Keys -> Nat] : Weigh(w, z) = Weigh(w, q)
  <2> TAKE w \in [Keys -> Nat]
  <2>1. Weigh(w, q) \in Nat BY <1>0, <1>3, WeighAppend
  <2>2. Weigh(w, z) = Weigh(w, q) + 0 BY <1>2, <1>4
  <2> QED BY <2>1, <2>2
<1>9. Tokens(z) = Tokens(q) /\ TreeTokens(z, p) = TreeTokens(q, p) /\ Len(z) = Len(q)
  BY <1>6, <1>7, <1>8
<1>10. Counted(z, p) = Counted(q, p)
  BY <1>9 DEF Counted
<1>11. TotalsMatch'
  BY <1>0, <1>1, <1>10 DEF TotalsMatch
<1>12. WithinLimits'
  BY <1>1, <1>9 DEF IInv, WithinLimits, Fits
<1>13. Shape'
  BY <1>0, <1>1, <1>4, <1>5 DEF Shape
<1>14. Newest(entries', recent', config', repaged')
  <2>1. Newest(q, recent, config, repaged) BY DEF IInv
  <2>2. Newest(z, Append(Without(recent, {k}), k), config, repaged)
    BY <2>1, <1>0, <1>2, <1>9, NewestUsed DEF z
  <2> QED BY <2>2, <1>1
<1> QED BY <1>11, <1>12, <1>13, <1>14 DEF IInv

\* insert counts the new entry, drops the oldest beyond the limits and rebuilds the tree.
LEMMA InsertHolds ==
  ASSUME IInv, NEW ns \in Namespace, NEW t \in Prompt, Insert(ns, t)
  PROVE  IInv'
<1> DEFINE p == config.page
           k == [ns |-> ns, tokens |-> t]
           z == MoveToEnd(entries, k)
           kept == Kept(z, Added(k).tokens, config)
<1>0. /\ p \in Nat \ {0} /\ entries \in Seq(Keys) /\ IsInjective(entries) /\ config \in Config
      /\ Shape /\ TotalsMatch
  BY ConfigAssumption DEF IInv, Shape
<1>1. /\ entries' = kept
      /\ totals' = Minus(Added(k), Counted(Dropped(z, kept), p))
      /\ tree' = Rebuild(kept, p)
      /\ repaged' = FALSE /\ config' = config
      /\ recent' = Append(Without(recent, {k}), k)
  BY DEF Insert, UsedLast
<1>2. k \in Keys
  BY DEF Keys
<1> HIDE DEF k
<1>3. Added(k) = Counted(z, p)
  BY <1>0, <1>2, AddedCounts
<1>4. Added(k).tokens = Tokens(z)
  BY <1>3 DEF Counted
<1>5. z \in Seq(Keys) /\ IsInjective(z)
  BY <1>0, <1>2, MoveProps
<1>6. z = MoveToEnd(entries, k)
  OBVIOUS
<1>7. kept = Kept(z, Tokens(z), config)
  BY <1>4
<1> HIDE DEF z
<1>8. Enforced(z, kept, config)
  <2>1. Enforced(z, Kept(z, Tokens(z), config), config) BY <1>0, <1>5, CapacityEnforced
  <2> QED BY ONLY <2>1, <1>7
<1> HIDE DEF kept
<1>9. /\ kept \in Seq(Keys) /\ IsInjective(kept)
      /\ Len(kept) <= config.entries /\ Tokens(kept) <= config.tokens
      /\ Minus(Counted(z, p), Counted(Dropped(z, kept), p)) = Counted(kept, p)
  BY <1>8 DEF Enforced
<1>10. TreeOf(Rebuild(kept, p), Range(kept), p)
  BY <1>0, <1>9, RebuildIsTree
<1>11. Shape'
  BY <1>0, <1>1, <1>9, <1>10 DEF Shape
<1>12. TotalsMatch'
  BY <1>1, <1>3, <1>9 DEF TotalsMatch
<1>13. WithinLimits'
  BY <1>1, <1>9 DEF WithinLimits, Fits
<1>14. Newest(entries', recent', config', repaged')
  <2>1. Newest(entries, recent, config, repaged) BY DEF IInv
  <2>2. Newest(kept, Append(Without(recent, {k}), k), config, FALSE)
    BY <2>1, <1>0, <1>2, <1>6, <1>8, NewestInserted
  <2> QED BY <2>2, <1>1
<1> QED BY <1>11, <1>12, <1>13, <1>14 DEF IInv

\* configure starts the history over from the entries.
LEMMA HistoryCut ==
  ASSUME entries \in Seq(Keys), Newest(entries, recent, config, repaged)
  PROVE  SubSeq(recent, Older + 1, Len(recent)) = entries
<1> DEFINE q == recent
           e == entries
<1>1. PICK p \in Seq(Keys) : q = p \o e
  BY DEF Newest
<1> DEFINE n == Len(p)
           m == Len(e)
<1>2. /\ q \in Seq(Keys) /\ Len(q) = n + m /\ n \in Nat /\ m \in Nat
      /\ \A i \in 1..(n + m) : q[i] = IF i <= n THEN p[i] ELSE e[i - n]
  BY <1>1, ConcatProperties
<1>3. Older = n /\ n \in 0..Len(q) /\ Len(q) - n = m
  BY <1>2 DEF Older
<1> HIDE DEF q, n
<1> DEFINE v == SubSeq(q, n + 1, Len(q))
<1>4. v \in Seq(Keys) /\ Len(v) = m /\ \A i \in 1..m : v[i] = q[n + i]
  BY <1>2, <1>3, AfterFirst
<1> HIDE DEF v
<1>5. ASSUME NEW i \in 1..m PROVE v[i] = e[i]
  <2>1. n + i \in 1..(n + m) /\ ~ (n + i <= n) /\ (n + i) - n = i BY <1>2
  <2> QED BY <2>1, <1>2, <1>4
<1>6. v = e
  BY <1>4, <1>5, SeqEqual
<1> QED BY <1>3, <1>6 DEF v, q

\* configure realigns the entries to another page size, or drops the oldest beyond the
\* new limits.
LEMMA ConfigureHolds ==
  ASSUME IInv, NEW c \in Config, Configure(c)
  PROVE  IInv'
<1>0. /\ config.page \in Nat \ {0} /\ entries \in Seq(Keys) /\ IsInjective(entries)
      /\ config \in Config /\ totals = Counted(entries, config.page) /\ c.page \in Nat \ {0}
      /\ TreeOf(tree, Range(entries), config.page)
  BY ConfigAssumption DEF IInv, Shape, TotalsMatch
<1>1. config' = c /\ repaged' = (c.page # config.page) /\ repaged' \in BOOLEAN
  BY DEF Configure
<1>4. recent' = entries
  <2>1. Newest(entries, recent, config, repaged) BY DEF IInv
  <2>2. recent' = SubSeq(recent, Older + 1, Len(recent)) BY DEF Configure
  <2> QED BY <2>1, <2>2, <1>0, HistoryCut
<1>2. CASE c.page # config.page
  <2>1. entries' = entries /\ tree' = Rebuild(entries, c.page)
        /\ totals' = [totals EXCEPT !.treeTokens = TreeTokens(entries, c.page)]
    BY <1>2 DEF Configure, Realign
  <2>2. totals' = Counted(entries, c.page)
    BY <2>1, <1>0 DEF Counted
  <2>3. TreeOf(tree', Range(entries'), c.page)
    BY <2>1, <1>0, RebuildIsTree
  <2>4. Shape'
    BY <2>1, <2>3, <1>0, <1>1 DEF Shape
  <2>5. TotalsMatch'
    BY <2>1, <2>2, <1>1 DEF TotalsMatch
  <2>6. WithinLimits'
    BY <1>1, <1>2 DEF WithinLimits, Fits
  <2>7. Newest(entries', recent', config', repaged')
    BY <2>1, <1>0, <1>4, NewestItself
  <2> QED BY <2>4, <2>5, <2>6, <2>7 DEF IInv
<1>3. CASE c.page = config.page
  <2> DEFINE kept == Kept(entries, totals.tokens, c)
  <2>1. /\ entries' = kept
        /\ totals' = Minus(totals, Counted(Dropped(entries, kept), c.page))
        /\ tree' = IF kept = entries THEN tree ELSE Rebuild(kept, c.page)
    BY <1>3 DEF Configure, Shrink
  <2>2. totals.tokens = Tokens(entries)
    BY <1>0 DEF Counted
  <2>3. Enforced(entries, kept, c)
    BY <2>2, <1>0, CapacityEnforced
  <2> HIDE DEF kept
  <2>4. /\ kept \in Seq(Keys) /\ IsInjective(kept)
        /\ Len(kept) <= c.entries /\ Tokens(kept) <= c.tokens
        /\ Minus(Counted(entries, c.page), Counted(Dropped(entries, kept), c.page))
             = Counted(kept, c.page)
    BY <2>3 DEF Enforced
  <2>5. TreeOf(tree', Range(entries'), c.page)
    <3>1. CASE kept = entries BY <3>1, <2>1, <1>0, <1>3
    <3>2. CASE kept # entries
      <4>1. TreeOf(Rebuild(kept, c.page), Range(kept), c.page) BY <2>4, <1>0, RebuildIsTree
      <4> QED BY <4>1, <3>2, <2>1
    <3> QED BY <3>1, <3>2
  <2>6. Shape'
    BY <2>1, <2>4, <2>5, <1>0, <1>1 DEF Shape
  <2>7. TotalsMatch'
    BY <2>1, <2>4, <1>0, <1>1, <1>3 DEF TotalsMatch
  <2>8. WithinLimits'
    BY <2>1, <2>4, <1>1 DEF WithinLimits, Fits
  <2>9. Newest(entries', recent', config', repaged')
    <3>1. Newest(kept, entries, c, FALSE) BY <2>3, <1>0, NewestEnforced
    <3>2. repaged' = FALSE BY <1>1, <1>3
    <3> QED BY <3>1, <3>2, <2>1, <1>1, <1>4
  <2> QED BY <2>6, <2>7, <2>8, <2>9 DEF IInv
<1> QED BY <1>2, <1>3

\* Every step preserves the inductive invariant.
LEMMA StepHolds ==
  ASSUME IInv, [Next]_prefixVars
  PROVE  IInv'
<1>1. ASSUME NEW ns \in Namespace, NEW t \in Prompt, Use(ns, t) PROVE IInv'
  BY <1>1, UseHolds
<1>2. ASSUME NEW ns \in Namespace, NEW t \in Prompt, Insert(ns, t) PROVE IInv'
  BY <1>2, InsertHolds
<1>3. ASSUME NEW c \in Config, Configure(c) PROVE IInv'
  BY <1>3, ConfigureHolds
<1>4. CASE Clear
  BY <1>4, ClearHolds
<1>5. CASE UNCHANGED prefixVars
  BY <1>5 DEF prefixVars, IInv, Shape, TotalsMatch, WithinLimits, Fits
<1> QED BY <1>1, <1>2, <1>3, <1>4, <1>5 DEF Next

-----------------------------------------------------------------------------
(* Theorems.                                                               *)

\* In every reachable state the inductive invariant holds: the entries are different
\* keys, the tree is the radix tree of exactly these entries (every node begins its
\* source, which is cached in its namespace; every entry of a page or more has its
\* node; where two nodes part there is a node), the counters are the sums and the
\* limits hold.
THEOREM RadixTreeOfEntries == Spec => []IInv
<1>1. Init => IInv
  BY InitHolds
<1>2. IInv /\ [Next]_prefixVars => IInv'
  BY StepHolds
<1> QED BY <1>1, <1>2, PTL DEF Spec

\* total_tokens and total_tree_tokens are the sums over the entries, through replacing
\* inserts, evictions and changes of the page size.
THEOREM TotalsAlwaysMatch == Spec => []TotalsMatch
<1>1. IInv => TotalsMatch
  BY DEF IInv
<1> QED BY <1>1, RadixTreeOfEntries, PTL

\* The cache holds no more entries and tokens than its limits, except after a configure
\* that also changed the page size, until the next insert or configure.
THEOREM StaysWithinLimits == Spec => []WithinLimits
<1>1. IInv => WithinLimits
  BY DEF IInv
<1> QED BY <1>1, RadixTreeOfEntries, PTL

\* match returns the longest prefix of whole pages shared with a cached prompt of the
\* namespace, and a cached source that has this prefix.
THEOREM FindsLongestPrefix == Spec => []MatchIsLongest
<1>1. IInv => MatchIsLongest
  <2> SUFFICES ASSUME IInv PROVE MatchIsLongest
    OBVIOUS
  <2>1. /\ config.page \in Nat \ {0} /\ entries \in Seq(Keys)
        /\ TreeOf(tree, Range(entries), config.page)
    BY ConfigAssumption DEF IInv, Shape
  <2> QED BY <2>1, TreeMatches
<1> QED BY <1>1, RadixTreeOfEntries, PTL

\* The entries are the keys used last, by a hit or an insert, in the order of their last
\* use, and as many of them as fit: one more would exceed a limit.
THEOREM HoldsTheLastUsed == Spec => []KeepsTheNewest
<1>1. IInv => KeepsTheNewest
  <2> SUFFICES ASSUME IInv PROVE KeepsTheNewest
    OBVIOUS
  <2> DEFINE q == recent
             e == entries
  <2>1. PICK p \in Seq(Keys) : /\ q = p \o e
                               /\ repaged => p = <<>>
                               /\ p # <<>> => Over(p[Len(p)], e, config)
    BY DEF IInv, Newest
  <2>2. e \in Seq(Keys) /\ config.entries \in Nat /\ config.tokens \in Nat
    BY ConfigAssumption DEF IInv, Shape
  <2> DEFINE n == Len(p)
             m == Len(e)
  <2>3. /\ q \in Seq(Keys) /\ Len(q) = n + m /\ n \in Nat /\ m \in Nat
        /\ \A i \in 1..(n + m) : q[i] = IF i <= n THEN p[i] ELSE e[i - n]
    BY <2>1, <2>2, ConcatProperties
  <2>4. Older = n
    BY <2>3 DEF Older
  <2> HIDE DEF q, e, n, m
  <2>5. IsSuffix(e, q)
    <3>1. ASSUME NEW i \in 1..m PROVE e[i] = q[n + i]
      <4>1. n + i \in 1..(n + m) /\ ~ (n + i <= n) /\ (n + i) - n = i BY <2>3
      <4> QED BY <4>1, <2>3
    <3>2. n \in 0..Len(q) /\ Len(q) - n = m /\ Len(e) = m BY <2>3 DEF m
    <3> QED BY <3>1, <3>2, <2>2, <2>3, SuffixEnd
  <2>6. repaged => n = 0
    BY <2>1 DEF n
  <2>7. ASSUME n > 0 PROVE ~ Fits(<<q[n]>> \o e)
    <3> DEFINE k == q[n]
    <3>1. p # <<>> /\ k = p[Len(p)] /\ k \in Keys
      <4>1. p # <<>> BY <2>7 DEF n
      <4>2. n \in 1..(n + m) /\ n <= n BY <2>3, <2>7
      <4>3. k = p[n] BY <4>2, <2>3
      <4> QED BY <4>1, <4>2, <4>3, <2>3 DEF n
    <3> HIDE DEF k
    <3>2. Len(e) + 1 > config.entries \/ Tokens(e) + TokenWeight[k] > config.tokens
      BY <3>1, <2>1 DEF Over
    <3>3. /\ Len(<<k>> \o e) = Len(e) + 1
          /\ Tokens(e) \in Nat /\ TokenWeight[k] \in Nat
          /\ Tokens(<<k>> \o e) = Tokens(e) + TokenWeight[k]
      BY <3>1, <2>2, Prepended
    <3>4. Len(e) \in Nat BY <2>2
    <3>5. ~ (Len(<<k>> \o e) <= config.entries /\ Tokens(<<k>> \o e) <= config.tokens)
      BY ONLY <3>2, <3>3, <3>4, <2>2
    <3> QED BY <3>5 DEF Fits, k
  <2> QED BY <2>4, <2>5, <2>6, <2>7 DEF KeepsTheNewest, q, e
<1> QED BY <1>1, RadixTreeOfEntries, PTL
=============================================================================
