--------------------------- MODULE SequenceLemmas ---------------------------
(***************************************************************************)
(* What the model's operators on sequences compute, for every sequence.    *)
(*                                                                         *)
(* A recursive function is CHOOSE f : f = [n \in D |-> ... f[n - 1] ...],  *)
(* so each lemma about one needs that such an f exists.  Recursion gives   *)
(* it once and for all, and Unfold that there is only one; both rest on    *)
(* induction stated for sets, which the provers can instantiate.           *)
(***************************************************************************)
EXTENDS SeqSelect, SequencesExt, FiniteSets, FiniteSetsExt, Functions,
        FiniteSetTheorems, SequenceTheorems, WellFoundedInduction, TLAPS

\* Induction over the natural numbers, for a set.
LEMMA SetInduction ==
  ASSUME NEW T, 0 \in T, \A n \in Nat : n \in T => n + 1 \in T
  PROVE  Nat \subseteq T
<1> DEFINE R == OpToRel(<, Nat)
           B == Nat \ T
<1>1. SUFFICES ASSUME B # {} PROVE FALSE
  OBVIOUS
<1>2. PICK x \in B : \A y \in B : ~ (<<y, x>> \in R)
  <2> HIDE DEF R, B
  <2>1. IsWellFoundedOn(R, Nat) BY NatLessThanWellFounded DEF R
  <2>2. B \subseteq Nat BY DEF B
  <2> QED BY <1>1, <2>1, <2>2, WFMin
<1>3. x # 0 /\ x \in Nat /\ x - 1 \in Nat /\ x - 1 < x
  OBVIOUS
<1>4. <<x - 1, x>> \in R
  BY <1>3 DEF OpToRel
<1>5. x - 1 \in T
  BY <1>2, <1>3, <1>4
<1> QED BY <1>5, <1>3

\* The same up to a bound.
LEMMA UpTo ==
  ASSUME NEW n \in Nat, NEW T, 0 \in T, \A i \in 1..n : i - 1 \in T => i \in T
  PROVE  0..n \subseteq T
<1> DEFINE U == {i \in Nat : i <= n => i \in T}
<1>1. 0 \in U
  OBVIOUS
<1>2. \A i \in Nat : i \in U => i + 1 \in U
  <2> TAKE i \in Nat
  <2> HAVE i \in U
  <2>1. CASE i + 1 <= n
    <3>1. i + 1 \in 1..n /\ (i + 1) - 1 = i /\ i \in T BY <2>1
    <3> QED BY <3>1
  <2>2. CASE ~(i + 1 <= n) BY <2>2
  <2> QED BY <2>1, <2>2
<1>3. Nat \subseteq U
  <2> HIDE DEF U
  <2> QED BY <1>1, <1>2, SetInduction
<1> QED BY <1>3

\* f starts at b and its i-th value comes from the one before by g[i].
Iterates(f, g, b, n) == f[0] = b /\ \A i \in 1..n : f[i] = g[i][f[i - 1]]

\* A function defined by recursion on its argument exists: f[0] is b and f[i]
\* comes from f[i - 1] by the i-th step g[i].
LEMMA Recursion ==
  ASSUME NEW S, NEW n \in Nat, NEW b \in S, NEW g, \A i \in 1..n : g[i] \in [S -> S]
  PROVE  \E f \in [0..n -> S] : Iterates(f, g, b, n)
<1> DEFINE G(m) == \E f \in [0..m -> S] : Iterates(f, g, b, m)
           T == {m \in 0..n : G(m)}
<1>1. 0 \in T
  <2> DEFINE h == [k \in 0..0 |-> b]
  <2>1. h \in [0..0 -> S] /\ Iterates(h, g, b, 0)
    BY DEF Iterates
  <2> QED BY <2>1
<1>2. ASSUME NEW i \in 1..n, i - 1 \in T PROVE i \in T
  <2>2. PICK f \in [0..(i-1) -> S] : Iterates(f, g, b, i - 1)
    BY <1>2
  <2> DEFINE h == [k \in 0..i |-> IF k <= i - 1 THEN f[k] ELSE g[i][f[i-1]]]
  <2>3. g[i][f[i-1]] \in S
    BY <2>2
  <2>4. h \in [0..i -> S]
    BY <2>2, <2>3
  <2>5. h[0] = b
    BY <2>2 DEF Iterates
  <2>6. ASSUME NEW k \in 1..i PROVE h[k] = g[k][h[k-1]]
    <3>1. k - 1 \in 0..(i-1) OBVIOUS
    <3>2. h[k-1] = f[k-1] BY <3>1
    <3>3. CASE k <= i - 1 BY <3>3, <3>2, <2>2 DEF Iterates
    <3>4. CASE k = i BY <3>4, <3>2
    <3> QED BY <3>3, <3>4
  <2> HIDE DEF h
  <2> QED BY <2>4, <2>5, <2>6 DEF Iterates
<1>3. n \in T
  <2> HIDE DEF T
  <2> QED BY <1>1, <1>2, UpTo
<1> QED BY <1>3

SameSteps(f, p, n) == f[0] = p[0] /\ \A i \in 1..n : f[i-1] = p[i-1] => f[i] = p[i]

\* Two functions with the same start and the same steps agree.
LEMMA Unfold ==
  ASSUME NEW n \in Nat, NEW f, NEW p, SameSteps(f, p, n)
  PROVE  \A i \in 0..n : f[i] = p[i]
<1> DEFINE T == {i \in 0..n : f[i] = p[i]}
<1>1. 0 \in T /\ \A i \in 1..n : i - 1 \in T => i \in T
  BY DEF SameSteps
<1> HIDE DEF T
<1>2. 0..n \subseteq T
  BY <1>1, UpTo
<1> QED BY <1>2 DEF T

\* f[i] is what Only has kept of the first i elements.
Keeps(f, q, S) ==
    /\ f[0] = <<>>
    /\ \A i \in 1..Len(q) : f[i] = IF q[i] \in S THEN Append(f[i-1], q[i]) ELSE f[i-1]

\* Only is computed element by element, as its definition says.
LEMMA OnlyRec ==
  ASSUME NEW X, NEW q \in Seq(X), NEW S
  PROVE  \E f \in [0..Len(q) -> Seq(X)] : Keeps(f, q, S) /\ Only(q, S) = f[Len(q)]
<1> DEFINE D(f) == [n \in 0..Len(q) |-> IF n = 0 THEN <<>>
            ELSE IF q[n] \in S THEN Append(f[n - 1], q[n]) ELSE f[n - 1]]
    g == [i \in 1..Len(q) |-> [z \in Seq(X) |-> IF q[i] \in S THEN Append(z, q[i]) ELSE z]]
    p == CHOOSE f : f = D(f)
<1>1. \A i \in 1..Len(q) : g[i] \in [Seq(X) -> Seq(X)]
  OBVIOUS
<1>2. PICK f \in [0..Len(q) -> Seq(X)] : Iterates(f, g, <<>>, Len(q))
  <2>1. Len(q) \in Nat /\ <<>> \in Seq(X) OBVIOUS
  <2> HIDE DEF g
  <2> QED BY <1>1, <2>1, Recursion
<1>3. ASSUME NEW i \in 1..Len(q)
      PROVE  f[i] = IF q[i] \in S THEN Append(f[i-1], q[i]) ELSE f[i-1]
  <2>1. f[i-1] \in Seq(X)
    OBVIOUS
  <2>2. g[i] = [z \in Seq(X) |-> IF q[i] \in S THEN Append(z, q[i]) ELSE z]
    OBVIOUS
  <2> HIDE DEF g
  <2>3. f[i] = g[i][f[i-1]]
    BY <1>2 DEF Iterates
  <2> QED BY <2>1, <2>2, <2>3
<1>0. f[0] = <<>>
  BY <1>2 DEF Iterates
<1> HIDE DEF g
<1>4. f = D(f)
  <2>1. ASSUME NEW n \in 0..Len(q) PROVE f[n] = D(f)[n]
    <3>1. CASE n = 0 BY <3>1, <1>0
    <3>2. CASE n # 0
      <4>1. n \in 1..Len(q) BY <3>2
      <4>2. f[n] = IF q[n] \in S THEN Append(f[n-1], q[n]) ELSE f[n-1] BY <4>1, <1>3
      <4> QED BY <4>2, <3>2
    <3> QED BY <3>1, <3>2
  <2>2. f = [n \in 0..Len(q) |-> f[n]]
    OBVIOUS
  <2>3. D(f) = [n \in 0..Len(q) |-> D(f)[n]]
    OBVIOUS
  <2> HIDE DEF D
  <2> QED BY <2>1, <2>2, <2>3
<1>5. p = D(p)
  BY <1>4
<1>6. Only(q, S) = p[Len(q)]
  BY DEF Only
<1> HIDE DEF p
<1>7. \A i \in 0..Len(q) : f[i] = p[i]
  <2>1. f[0] = p[0]
    BY <1>0, <1>5
  <2>2. ASSUME NEW i \in 1..Len(q), f[i-1] = p[i-1] PROVE f[i] = p[i]
    <3>1. p[i] = D(p)[i] BY <1>5
    <3>2. D(p)[i] = IF q[i] \in S THEN Append(p[i-1], q[i]) ELSE p[i-1]
      OBVIOUS
    <3> QED BY <3>1, <3>2, <2>2, <1>3
  <2>3. Len(q) \in Nat
    OBVIOUS
  <2>4. SameSteps(f, p, Len(q))
    BY <2>1, <2>2 DEF SameSteps
  <2> HIDE DEF D
  <2> QED BY <2>3, <2>4, Unfold
<1> HIDE DEF D
<1>8. Only(q, S) = f[Len(q)]
   BY <1>6, <1>7
<1> QED BY <1>0, <1>3, <1>8 DEF Keeps

\* Only keeps the order and no element twice, and what it keeps is in S.
LEMMA OnlyProps ==
  ASSUME NEW X, NEW q \in Seq(X), NEW S
  PROVE  /\ Only(q, S) \in Seq(X)
         /\ Range(Only(q, S)) = Range(q) \cap S
         /\ IsInjective(q) => IsInjective(Only(q, S))
<1>0. PICK f \in [0..Len(q) -> Seq(X)] : Keeps(f, q, S) /\ Only(q, S) = f[Len(q)]
  BY OnlyRec
<1>1. /\ f[0] = <<>>
      /\ \A i \in 1..Len(q) : f[i] = IF q[i] \in S THEN Append(f[i-1], q[i]) ELSE f[i-1]
      /\ Only(q, S) = f[Len(q)]
  BY <1>0 DEF Keeps
<1> DEFINE Good(i) == /\ Range(f[i]) = {q[k] : k \in 1..i} \cap S
                      /\ IsInjective(q) => IsInjective(f[i])
           T == {i \in 0..Len(q) : Good(i)}
<1>2. 0 \in T
  <2>1. f[0] = <<>> /\ {q[k] : k \in 1..0} = {}
    BY <1>1
  <2>2. DOMAIN f[0] = {}
    BY <2>1
  <2> QED BY <2>1, <2>2 DEF Range, IsInjective
<1>3. ASSUME NEW i \in 1..Len(q), i - 1 \in T PROVE i \in T
  <2>1. f[i-1] \in Seq(X) /\ q[i] \in X
    OBVIOUS
  <2>2. Good(i - 1)
    BY <1>3
  <2>3. {q[k] : k \in 1..i} = {q[k] : k \in 1..(i-1)} \cup {q[i]}
    <3>1. 1..i = 1..(i-1) \cup {i}
      OBVIOUS
    <3> QED BY <3>1
  <2>4. CASE q[i] \in S
    <3>1. f[i] = Append(f[i-1], q[i])
      BY <1>1, <2>4
    <3>2. /\ DOMAIN f[i] = DOMAIN f[i-1] \cup {Len(f[i-1]) + 1}
          /\ Len(f[i-1]) \in Nat
          /\ DOMAIN f[i-1] = 1..Len(f[i-1])
          /\ f[i][Len(f[i-1]) + 1] = q[i]
          /\ \A k \in DOMAIN f[i-1] : f[i][k] = f[i-1][k]
      BY <3>1, <2>1
    <3>3. Range(f[i]) = Range(f[i-1]) \cup {q[i]}
      <4> HIDE DEF Good, T
      <4>1. \A x \in Range(f[i]) : x \in Range(f[i-1]) \cup {q[i]}
        BY <3>2 DEF Range
      <4>2. \A x \in Range(f[i-1]) \cup {q[i]} : x \in Range(f[i])
        BY <3>2 DEF Range
      <4> QED BY <4>1, <4>2
    <3>4. ASSUME IsInjective(q) PROVE IsInjective(f[i])
      <4>1. q[i] \notin {q[k] : k \in 1..(i-1)}
        BY <3>4 DEF IsInjective
      <4>2. q[i] \notin Range(f[i-1])
        BY <4>1, <2>2
      <4>3. IsInjective(f[i-1])
        BY <2>2, <3>4
      <4> HIDE DEF Good, T
      <4> QED BY <4>2, <4>3, <3>2, SMTT(30) DEF IsInjective, Range
    <3>5. Range(f[i]) = {q[k] : k \in 1..i} \cap S
      BY <3>3, <2>2, <2>3, <2>4
    <3> QED BY <3>4, <3>5
  <2>5. CASE q[i] \notin S
    <3>1. f[i] = f[i-1]
      BY <1>1, <2>5
    <3> QED BY <3>1, <2>2, <2>3, <2>5
  <2> QED BY <2>4, <2>5
<1>4. Len(q) \in T
  <2>1. Len(q) \in Nat
    OBVIOUS
  <2> HIDE DEF T
  <2>2. 0 .. Len(q) \subseteq T
    BY <1>2, <1>3, <2>1, UpTo
  <2> QED BY <2>1, <2>2
<1>5. Range(q) = {q[k] : k \in 1..Len(q)}
  BY DEF Range
<1> QED BY <1>1, <1>4, <1>5

\* Without drops the elements of S and no other.
LEMMA WithoutProps ==
  ASSUME NEW X, NEW q \in Seq(X), NEW S
  PROVE  /\ Without(q, S) \in Seq(X)
         /\ Range(Without(q, S)) = Range(q) \ S
         /\ IsInjective(q) => IsInjective(Without(q, S))
<1>1. Without(q, S) = Only(q, Range(q) \ S)
  BY DEF Without, Range
<1>2. Range(q) \cap (Range(q) \ S) = Range(q) \ S
  OBVIOUS
<1> QED BY <1>1, <1>2, OnlyProps

\* A non-empty set of naturals has a least element, and Min is it.
LEMMA MinProps ==
  ASSUME NEW S, S \subseteq Nat, S # {}
  PROVE  Min(S) \in S /\ \A y \in S : Min(S) <= y
<1> DEFINE R == OpToRel(<, Nat)
<1>1. PICK x \in S : \A y \in S : ~ (<<y, x>> \in R)
  <2>1. IsWellFoundedOn(R, Nat) BY NatLessThanWellFounded DEF R
  <2> HIDE DEF R
  <2> QED BY <2>1, WFMin
<1>2. \A y \in S : x <= y
  <2> TAKE y \in S
  <2>1. <<y, x>> \in R <=> y < x
    BY DEF OpToRel
  <2> HIDE DEF R
  <2>2. ~(y < x) /\ x \in Nat /\ y \in Nat
    BY <1>1, <2>1
  <2> QED BY <2>2
<1> QED BY <1>2 DEF Min
-----------------------------------------------------------------------------
(* Heads, tails, and sequences put together.                               *)

\* What the head and the tail of an injective sequence hold.
LEMMA HeadTailRange ==
  ASSUME NEW X, NEW q \in Seq(X), q # <<>>
  PROVE  /\ Head(q) \in X /\ Tail(q) \in Seq(X)
         /\ Range(q) = {Head(q)} \cup Range(Tail(q))
         /\ IsInjective(q) => IsInjective(Tail(q)) /\ Head(q) \notin Range(Tail(q))
<1>1. /\ Head(q) \in X /\ Tail(q) \in Seq(X) /\ Len(Tail(q)) = Len(q) - 1
      /\ \A i \in 1..Len(Tail(q)) : Tail(q)[i] = q[i+1]
      /\ Len(q) \in Nat \ {0} /\ Head(q) = q[1]
  BY HeadTailProperties, EmptySeq
<1> DEFINE t == Tail(q)
           h == Head(q)
<1>2. DOMAIN q = 1..Len(q) /\ DOMAIN t = 1..Len(t)
  BY <1>1
<1> HIDE DEF t, h
<1>3. /\ Len(t) = Len(q) - 1 /\ Len(q) \in Nat \ {0} /\ h = q[1]
      /\ \A i \in 1..Len(t) : t[i] = q[i+1]
  BY <1>1 DEF t, h
<1>4. Range(q) = {h} \cup Range(t)
  <2>1. ASSUME NEW x \in Range(q) PROVE x \in {h} \cup Range(t)
    <3>1. PICK i \in 1..Len(q) : x = q[i]
      BY <1>2 DEF Range
    <3>2. CASE i = 1
      BY <3>1, <3>2, <1>3
    <3>3. CASE i # 1
      <4>1. i - 1 \in 1..Len(t) /\ (i - 1) + 1 = i
        BY <3>3, <1>3
      <4>2. t[i-1] = x
        BY <4>1, <3>1, <1>3
      <4> QED BY <4>1, <4>2, <1>2 DEF Range
    <3> QED BY <3>2, <3>3
  <2>2. ASSUME NEW x \in {h} \cup Range(t) PROVE x \in Range(q)
    <3>1. CASE x = h
      <4>1. 1 \in DOMAIN q /\ x = q[1]
        BY <3>1, <1>2, <1>3
      <4> QED BY <4>1 DEF Range
    <3>2. CASE x \in Range(t)
      <4>1. PICK i \in 1..Len(t) : x = t[i]
        BY <1>2, <3>2 DEF Range
      <4>2. i + 1 \in DOMAIN q /\ x = q[i+1]
        BY <4>1, <1>2, <1>3
      <4> QED BY <4>2 DEF Range
    <3> QED BY <3>1, <3>2
  <2> QED BY <2>1, <2>2
<1>5. ASSUME IsInjective(q) PROVE IsInjective(t) /\ h \notin Range(t)
  <2>1. \A a, b \in 1..Len(q) : q[a] = q[b] => a = b
    BY <1>5, <1>2 DEF IsInjective
  <2>2. \A a, b \in 1..Len(t) : t[a] = t[b] => a = b
    <3> TAKE a, b \in 1..Len(t)
    <3>1. a + 1 \in 1..Len(q) /\ b + 1 \in 1..Len(q)
      BY <1>3
    <3> QED BY <3>1, <2>1, <1>3
  <2>3. \A a \in 1..Len(t) : t[a] # h
    <3> TAKE a \in 1..Len(t)
    <3>1. a + 1 \in 1..Len(q) /\ 1 \in 1..Len(q) /\ a + 1 # 1
      BY <1>3
    <3> QED BY <3>1, <2>1, <1>3
  <2> QED BY <2>2, <2>3, <1>2 DEF IsInjective, Range
<1> QED BY <1>1, <1>4, <1>5 DEF t, h

\* Appending to an injective sequence.
LEMMA AppendRange ==
  ASSUME NEW X, NEW q \in Seq(X), NEW x \in X
  PROVE  /\ Append(q, x) \in Seq(X)
         /\ Range(Append(q, x)) = Range(q) \cup {x}
         /\ IsInjective(q) /\ x \notin Range(q) => IsInjective(Append(q, x))
<1> DEFINE a == Append(q, x)
<1>1. a \in Seq(X) /\ Len(a) = Len(q) + 1 /\ Len(q) \in Nat
  BY AppendProperties
<1>2. DOMAIN q = 1..Len(q) /\ DOMAIN a = 1..(Len(q) + 1)
  BY <1>1
<1>3. a[Len(q) + 1] = x /\ \A i \in 1..Len(q) : a[i] = q[i]
  BY AppendProperties
<1> HIDE DEF a
<1>4. Range(a) = Range(q) \cup {x}
  <2>1. ASSUME NEW y \in Range(a) PROVE y \in Range(q) \cup {x}
    BY <1>1, <1>2, <1>3 DEF Range
  <2>2. ASSUME NEW y \in Range(q) \cup {x} PROVE y \in Range(a)
    <3>1. Len(q) + 1 \in DOMAIN a /\ \A i \in DOMAIN q : i \in DOMAIN a
      BY <1>1, <1>2
    <3> QED BY <1>2, <1>3, <3>1 DEF Range
  <2> QED BY <2>1, <2>2
<1>5. ASSUME IsInjective(q), x \notin Range(q) PROVE IsInjective(a)
  BY <1>1, <1>2, <1>3, <1>5 DEF IsInjective, Range
<1> QED BY <1>1, <1>4, <1>5 DEF a

\* Concatenating two injective sequences with nothing in common.
LEMMA ConcatRange ==
  ASSUME NEW X, NEW p \in Seq(X), NEW q \in Seq(X)
  PROVE  /\ p \o q \in Seq(X)
         /\ Range(p \o q) = Range(p) \cup Range(q)
         /\ IsInjective(p) /\ IsInjective(q) /\ Range(p) \cap Range(q) = {} => IsInjective(p \o q)
<1> DEFINE c == p \o q
<1>1. /\ c \in Seq(X) /\ Len(c) = Len(p) + Len(q) /\ Len(p) \in Nat /\ Len(q) \in Nat
      /\ \A i \in 1..(Len(p) + Len(q)) : c[i] = IF i <= Len(p) THEN p[i] ELSE q[i - Len(p)]
  BY ConcatProperties
<1>2. DOMAIN c = 1..(Len(p) + Len(q)) /\ DOMAIN p = 1..Len(p) /\ DOMAIN q = 1..Len(q)
  BY <1>1
<1>3. Range(c) = Range(p) \cup Range(q)
  BY RangeConcatenation
<1> HIDE DEF c
<1>4. ASSUME IsInjective(p), IsInjective(q), Range(p) \cap Range(q) = {}
      PROVE  IsInjective(c)
  <2>1. \A a, b \in 1..Len(p) : p[a] = p[b] => a = b
    BY <1>2, <1>4 DEF IsInjective
  <2>2. \A a, b \in 1..Len(q) : q[a] = q[b] => a = b
    BY <1>2, <1>4 DEF IsInjective
  <2>3. \A a \in 1..Len(p), b \in 1..Len(q) : p[a] # q[b]
    BY <1>2, <1>4 DEF Range
  <2>4. \A a, b \in 1..(Len(p) + Len(q)) : c[a] = c[b] => a = b
    <3> TAKE a, b \in 1..(Len(p) + Len(q))
    <3>1. /\ a <= Len(p) => a \in 1..Len(p)
          /\ b <= Len(p) => b \in 1..Len(p)
          /\ ~(a <= Len(p)) => a - Len(p) \in 1..Len(q)
          /\ ~(b <= Len(p)) => b - Len(p) \in 1..Len(q)
      BY <1>1
    <3>2. CASE a <= Len(p) /\ b <= Len(p)
      BY <3>1, <3>2, <2>1, <1>1
    <3>3. CASE ~(a <= Len(p)) /\ ~(b <= Len(p))
      <4>1. c[a] = q[a - Len(p)] /\ c[b] = q[b - Len(p)]
        BY <3>3, <1>1
      <4>2. c[a] = c[b] => a - Len(p) = b - Len(p)
        BY <4>1, <3>1, <3>3, <2>2
      <4> QED BY <4>2, <1>1
    <3>4. CASE a <= Len(p) /\ ~(b <= Len(p))
      BY <3>1, <3>4, <2>3, <1>1
    <3>5. CASE ~(a <= Len(p)) /\ b <= Len(p)
      BY <3>1, <3>5, <2>3, <1>1
    <3> QED BY <3>2, <3>3, <3>4, <3>5
  <2> QED BY <2>4, <1>2 DEF IsInjective
<1> QED BY <1>1, <1>3, <1>4 DEF c
-----------------------------------------------------------------------------
(* FlattenSeq.                                                             *)

\* f[i] is the concatenation of the first i sequences of s.
Joins(f, s) ==
    /\ f[0] = <<>>
    /\ \A i \in 1..Len(s) : f[i] = f[i-1] \o s[i]

\* FlattenSeq concatenates its sequences one after the other.
LEMMA FlattenRec ==
  ASSUME NEW X, NEW s \in Seq(Seq(X))
  PROVE  \E f \in [0..Len(s) -> Seq(X)] : Joins(f, s) /\ FlattenSeq(s) = f[Len(s)]
<1> DEFINE n == Len(s)
           g == [i \in 1..n |-> [z \in Seq(X) |-> z \o s[i]]]
           D(h) == [i \in 1..n |-> IF i = 1 THEN s[i] ELSE h[i-1] \o s[i]]
           p == CHOOSE h : h = D(h)
<1>1. n \in Nat /\ <<>> \in Seq(X) /\ \A i \in 1..n : s[i] \in Seq(X)
  OBVIOUS
<1>2. \A i \in 1..n : g[i] \in [Seq(X) -> Seq(X)]
  BY <1>1
<1>3. PICK f \in [0..n -> Seq(X)] : Iterates(f, g, <<>>, n)
  <2> HIDE DEF g, n
  <2> QED BY <1>1, <1>2, Recursion
<1>4. ASSUME NEW i \in 1..n PROVE f[i] = f[i-1] \o s[i]
  <2>1. f[i-1] \in Seq(X)
    OBVIOUS
  <2>2. g[i] = [z \in Seq(X) |-> z \o s[i]]
    OBVIOUS
  <2> HIDE DEF g
  <2>3. f[i] = g[i][f[i-1]]
    BY <1>3 DEF Iterates
  <2> QED BY <2>1, <2>2, <2>3
<1>5. f[0] = <<>>
  BY <1>3 DEF Iterates
<1> HIDE DEF g
<1>9. ASSUME 1 \in 1..n PROVE f[1] = s[1]
  <2>1. f[1] = f[1-1] \o s[1]
    BY <1>4, <1>9
  <2>2. f[1] = <<>> \o s[1] /\ s[1] \in Seq(X)
    BY <1>1, <1>5, <1>9, <2>1
  <2> QED BY <2>2
<1>6. Joins(f, s)
  BY <1>4, <1>5 DEF Joins
<1>7. CASE n = 0
  <2>1. FlattenSeq(s) = s /\ s = <<>>
    BY <1>7 DEF FlattenSeq
  <2> QED BY <2>1, <1>5, <1>6, <1>7
<1>8. CASE n # 0
  <2> DEFINE h == [i \in 1..n |-> f[i]]
  <2>1. h = D(h)
    <3>1. ASSUME NEW i \in 1..n PROVE h[i] = D(h)[i]
      <4>1. CASE i = 1
        BY <1>9, <4>1
      <4>2. CASE i # 1
        <5>1. i - 1 \in 1..n
          BY <4>2
        <5>2. f[i] = f[i-1] \o s[i]
          BY <1>4
        <5> QED BY <5>1, <5>2, <4>2
      <4> QED BY <4>1, <4>2
    <3>2. D(h) = [i \in 1..n |-> D(h)[i]]
      OBVIOUS
    <3>3. h = [i \in 1..n |-> h[i]]
      OBVIOUS
    <3> HIDE DEF D, h
    <3> QED BY <3>1, <3>2, <3>3
  <2>2. p = D(p)
    BY <2>1
  <2>3. FlattenSeq(s) = p[n]
    BY <1>8 DEF FlattenSeq
  <2> HIDE DEF p
  <2> DEFINE pp == [i \in 0..n |-> IF i = 0 THEN <<>> ELSE p[i]]
  <2>4. \A i \in 0..n : f[i] = pp[i]
    <3>1. f[0] = pp[0]
      BY <1>1, <1>5
    <3>2. ASSUME NEW i \in 1..n, f[i-1] = pp[i-1] PROVE f[i] = pp[i]
      <4>1. pp[i] = p[i]
        OBVIOUS
      <4>2. p[i] = D(p)[i]
        BY <2>2
      <4>3. p[i] = IF i = 1 THEN s[i] ELSE p[i-1] \o s[i]
        BY <4>2
      <4>4. CASE i = 1
        BY <1>9, <4>1, <4>3, <4>4
      <4>5. CASE i # 1
        <5>1. pp[i-1] = p[i-1]
          BY <4>5
        <5> QED BY <5>1, <4>1, <4>3, <4>5, <3>2, <1>4
      <4> QED BY <4>4, <4>5
    <3>3. n \in Nat
      OBVIOUS
    <3>4. \A i \in 1..n : f[i-1] = pp[i-1] => f[i] = pp[i]
      BY <3>2
    <3>5. SameSteps(f, pp, n)
      BY <3>1, <3>4 DEF SameSteps
    <3> HIDE DEF pp, D, n
    <3> QED BY <3>3, <3>5, Unfold
  <2>5. pp[n] = p[n] /\ n \in 0..n
    BY <1>1, <1>8
  <2> QED BY <2>3, <2>4, <2>5, <1>6
<1> QED BY <1>7, <1>8

\* row and col say where each element of F stands in the first m sequences of s.
Places(row, col, s, m, F) ==
    /\ \A k \in 1..Len(F) : /\ row[k] \in 1..m
                            /\ col[k] \in 1..Len(s[row[k]])
                            /\ F[k] = s[row[k]][col[k]]
    /\ \A k, l \in 1..Len(F) : row[k] = row[l] /\ col[k] = col[l] => k = l
    /\ \A i \in 1..m : \A j \in 1..Len(s[i]) :
          \E k \in 1..Len(F) : row[k] = i /\ col[k] = j

\* FlattenSeq holds every element of every sequence exactly once.
LEMMA FlattenPlaces ==
  ASSUME NEW X, NEW s \in Seq(Seq(X))
  PROVE  /\ FlattenSeq(s) \in Seq(X)
         /\ \E row, col : Places(row, col, s, Len(s), FlattenSeq(s))
<1>1. PICK f \in [0..Len(s) -> Seq(X)] : Joins(f, s) /\ FlattenSeq(s) = f[Len(s)]
  BY FlattenRec
<1> DEFINE T == {m \in 0..Len(s) : \E row, col : Places(row, col, s, m, f[m])}
<1>2. Len(s) \in Nat
  OBVIOUS
<1>3. 0 \in T
  <2>1. f[0] = <<>>
    BY <1>1 DEF Joins
  <2>2. Places(<<>>, <<>>, s, 0, f[0])
    BY <2>1 DEF Places
  <2> QED BY <1>2, <2>2
<1>4. ASSUME NEW m \in 1..Len(s), m - 1 \in T PROVE m \in T
  <2>1. PICK row, col : Places(row, col, s, m - 1, f[m-1])
    BY <1>4
  <2> DEFINE u == f[m-1]
             v == s[m]
             w == f[m]
             a == Len(u)
             b == Len(v)
             r2 == [k \in 1..(a+b) |-> IF k <= a THEN row[k] ELSE m]
             c2 == [k \in 1..(a+b) |-> IF k <= a THEN col[k] ELSE k - a]
  <2>u. u \in Seq(X) /\ v \in Seq(X)
    <3>1. \A k \in 0..Len(s) : f[k] \in Seq(X)
      OBVIOUS
    <3>2. \A k \in 1..Len(s) : s[k] \in Seq(X)
      OBVIOUS
    <3>3. m - 1 \in 0..Len(s) /\ m \in 1..Len(s)
      OBVIOUS
    <3> QED BY <3>1, <3>2, <3>3
  <2>w. w = u \o v
    BY <1>1 DEF Joins
  <2>r. Places(row, col, s, m - 1, u)
    BY <2>1
  <2> HIDE DEF u, v, w
  <2>3. /\ a \in Nat /\ b \in Nat /\ Len(w) = a + b
        /\ \A k \in 1..(a+b) : w[k] = IF k <= a THEN u[k] ELSE v[k-a]
    BY <2>u, <2>w, ConcatProperties
  <2> HIDE DEF a, b
  <2>4. ASSUME NEW k \in 1..(a+b)
        PROVE  r2[k] \in 1..m /\ c2[k] \in 1..Len(s[r2[k]]) /\ w[k] = s[r2[k]][c2[k]]
    <3>1. CASE k <= a
      <4>1. /\ row[k] \in 1..(m-1) /\ col[k] \in 1..Len(s[row[k]])
            /\ u[k] = s[row[k]][col[k]]
        BY <2>r, <2>3, <3>1 DEF Places, a
      <4> QED BY <4>1, <3>1, <2>3
    <3>2. CASE ~(k <= a)
      <4>1. r2[k] = m /\ c2[k] = k - a /\ k - a \in 1..b /\ w[k] = v[k-a]
        BY <2>3, <3>2
      <4>2. m \in 1..m
        OBVIOUS
      <4> QED BY <4>1, <4>2 DEF b, v
    <3> QED BY <3>1, <3>2
  <2>5. ASSUME NEW k \in 1..(a+b), NEW l \in 1..(a+b), r2[k] = r2[l], c2[k] = c2[l]
        PROVE  k = l
    <3>1. \A i \in 1..(a+b) : i <= a => row[i] # m /\ i \in 1..Len(u)
      BY <2>r, <2>3 DEF Places, a
    <3>2. CASE k <= a /\ l <= a
      BY <2>r, <2>5, <3>1, <3>2 DEF Places
    <3>3. CASE ~(k <= a) /\ ~(l <= a)
      BY <2>3, <2>5, <3>3
    <3>4. CASE k <= a /\ ~(l <= a)
      BY <2>5, <3>1, <3>4
    <3>5. CASE ~(k <= a) /\ l <= a
      BY <2>5, <3>1, <3>5
    <3> QED BY <3>2, <3>3, <3>4, <3>5
  <2>6. ASSUME NEW i \in 1..m, NEW j \in 1..Len(s[i])
        PROVE  \E k \in 1..(a+b) : r2[k] = i /\ c2[k] = j
    <3>1. CASE i = m
      <4>1. a + j \in 1..(a+b) /\ ~(a + j <= a) /\ (a + j) - a = j
        BY <2>3, <3>1 DEF b, v
      <4> QED BY <4>1, <3>1
    <3>2. CASE i # m
      <4>1. i \in 1..(m-1)
        BY <3>2
      <4>2. PICK k \in 1..Len(u) : row[k] = i /\ col[k] = j
        BY <2>r, <4>1 DEF Places
      <4>3. k \in 1..(a+b) /\ k <= a
        BY <2>3 DEF a
      <4> QED BY <4>2, <4>3
    <3> QED BY <3>1, <3>2
  <2> HIDE DEF r2, c2
  <2>7. Places(r2, c2, s, m, w)
    <3>1. Len(w) = a + b
      BY <2>3
    <3>2. \A k \in 1..Len(w) : /\ r2[k] \in 1..m
                              /\ c2[k] \in 1..Len(s[r2[k]])
                              /\ w[k] = s[r2[k]][c2[k]]
      BY <3>1, <2>4
    <3>3. \A k, l \in 1..Len(w) : r2[k] = r2[l] /\ c2[k] = c2[l] => k = l
      BY <3>1, <2>5
    <3>4. \A i \in 1..m : \A j \in 1..Len(s[i]) :
              \E k \in 1..Len(w) : r2[k] = i /\ c2[k] = j
      BY <3>1, <2>6
    <3>5. Places(r2, c2, s, m, w)
      BY <3>2, <3>3, <3>4 DEF Places
    <3> QED BY <3>5
  <2> QED BY <2>7 DEF w
<1>5. Len(s) \in T
  <2> HIDE DEF T
  <2>1. 0..Len(s) \subseteq T
    BY <1>2, <1>3, <1>4, UpTo
  <2> QED BY <1>2, <2>1
<1> QED BY <1>1, <1>2, <1>5

\* What FlattenSeq holds, and when it holds nothing twice.
LEMMA FlattenProps ==
  ASSUME NEW X, NEW s \in Seq(Seq(X))
  PROVE  /\ FlattenSeq(s) \in Seq(X)
         /\ \A x : x \in Range(FlattenSeq(s)) <=> \E i \in 1..Len(s) : x \in Range(s[i])
         /\ /\ \A i \in 1..Len(s) : IsInjective(s[i])
            /\ \A i, j \in 1..Len(s) : i # j => Range(s[i]) \cap Range(s[j]) = {}
            => IsInjective(FlattenSeq(s))
<1> DEFINE F == FlattenSeq(s)
<1>1. F \in Seq(X)
  BY FlattenPlaces
<1>2. PICK row, col : Places(row, col, s, Len(s), F)
  BY FlattenPlaces
<1>3. \A i \in 1..Len(s) : s[i] \in Seq(X)
  OBVIOUS
<1> HIDE DEF F
<1>4. ASSUME NEW x PROVE x \in Range(F) <=> \E i \in 1..Len(s) : x \in Range(s[i])
  <2>1. ASSUME x \in Range(F) PROVE \E i \in 1..Len(s) : x \in Range(s[i])
    <3>1. PICK k \in 1..Len(F) : x = F[k]
      BY <2>1, <1>1 DEF Range
    <3>2. row[k] \in 1..Len(s) /\ col[k] \in 1..Len(s[row[k]]) /\ x = s[row[k]][col[k]]
      BY <3>1, <1>2 DEF Places
    <3>3. DOMAIN s[row[k]] = 1..Len(s[row[k]])
      BY <3>2, <1>3
    <3> QED BY <3>2, <3>3 DEF Range
  <2>2. ASSUME NEW i \in 1..Len(s), x \in Range(s[i]) PROVE x \in Range(F)
    <3>0. DOMAIN s[i] = 1..Len(s[i])
      BY <1>3
    <3>1. PICK j \in 1..Len(s[i]) : x = s[i][j]
      BY <2>2, <3>0 DEF Range
    <3>2. PICK k \in 1..Len(F) : row[k] = i /\ col[k] = j
      BY <1>2 DEF Places
    <3>3. F[k] = x
      BY <3>1, <3>2, <1>2 DEF Places
    <3> QED BY <3>3, <1>1 DEF Range
  <2> QED BY <2>1, <2>2
<1>5. ASSUME \A i \in 1..Len(s) : IsInjective(s[i]),
             \A i, j \in 1..Len(s) : i # j => Range(s[i]) \cap Range(s[j]) = {}
      PROVE  IsInjective(F)
  <2>1. DOMAIN F = 1..Len(F)
    BY <1>1
  <2>2. SUFFICES ASSUME NEW k \in 1..Len(F), NEW l \in 1..Len(F), F[k] = F[l]
                 PROVE  k = l
    BY <2>1 DEF IsInjective
  <2>3. /\ row[k] \in 1..Len(s) /\ col[k] \in 1..Len(s[row[k]]) /\ F[k] = s[row[k]][col[k]]
        /\ row[l] \in 1..Len(s) /\ col[l] \in 1..Len(s[row[l]]) /\ F[l] = s[row[l]][col[l]]
        /\ row[k] = row[l] /\ col[k] = col[l] => k = l
    BY <1>2 DEF Places
  <2>4. DOMAIN s[row[k]] = 1..Len(s[row[k]]) /\ DOMAIN s[row[l]] = 1..Len(s[row[l]])
    BY <1>3, <2>3, SMTT(30)
  <2>5. F[k] \in Range(s[row[k]]) /\ F[k] \in Range(s[row[l]])
    BY <2>2, <2>3, <2>4 DEF Range
  <2>6. row[k] = row[l]
    BY <1>5, <2>3, <2>5
  <2>7. col[k] = col[l]
    BY <1>5, <2>2, <2>3, <2>4, <2>6 DEF IsInjective
  <2> QED BY <2>3, <2>6, <2>7
<1> QED BY <1>1, <1>4, <1>5 DEF F

\* Appending to the second part of a concatenation is appending to the whole.
LEMMA AppendConcat ==
  ASSUME NEW X, NEW p \in Seq(X), NEW q \in Seq(X), NEW x \in X
  PROVE  p \o Append(q, x) = Append(p \o q, x)
<1>1. <<x>> \in Seq(X) /\ p \o q \in Seq(X)
  BY ConcatProperties
<1>2. Append(q, x) = q \o <<x>> /\ Append(p \o q, x) = (p \o q) \o <<x>>
  BY <1>1, AppendIsConcat
<1> QED BY <1>1, <1>2, ConcatAssociative

\* Only asks of S no more than which elements of q it has.
LEMMA OnlySame ==
  ASSUME NEW X, NEW q \in Seq(X), NEW S, NEW T, \A i \in 1..Len(q) : q[i] \in S <=> q[i] \in T
  PROVE  Only(q, S) = Only(q, T)
<1>1. PICK f \in [0..Len(q) -> Seq(X)] : Keeps(f, q, S) /\ Only(q, S) = f[Len(q)]
  BY OnlyRec
<1>2. PICK g \in [0..Len(q) -> Seq(X)] : Keeps(g, q, T) /\ Only(q, T) = g[Len(q)]
  BY OnlyRec
<1>3. Len(q) \in Nat /\ SameSteps(f, g, Len(q))
  <2>1. f[0] = g[0]
    BY <1>1, <1>2 DEF Keeps
  <2>2. ASSUME NEW i \in 1..Len(q), f[i-1] = g[i-1] PROVE f[i] = g[i]
    <3>1. f[i] = IF q[i] \in S THEN Append(f[i-1], q[i]) ELSE f[i-1]
      BY <1>1 DEF Keeps
    <3>2. g[i] = IF q[i] \in T THEN Append(g[i-1], q[i]) ELSE g[i-1]
      BY <1>2 DEF Keeps
    <3>3. q[i] \in S <=> q[i] \in T
      OBVIOUS
    <3> QED BY ONLY <3>1, <3>2, <3>3, <2>2
  <2>3. SameSteps(f, g, Len(q))
    BY ONLY <2>1, <2>2 DEF SameSteps
  <2> QED BY <2>3
<1>4. \A i \in 0..Len(q) : f[i] = g[i]
  BY <1>3, Unfold
<1> QED BY <1>1, <1>2, <1>3, <1>4

\* Only keeps of a concatenation what it keeps of the first part, then of the second.
LEMMA OnlyConcat ==
  ASSUME NEW X, NEW p \in Seq(X), NEW e \in Seq(X), NEW S
  PROVE  Only(p \o e, S) = Only(p, S) \o Only(e, S)
<1> DEFINE q == p \o e
           n == Len(p)
           m == Len(e)
<1>1. PICK f \in [0..n -> Seq(X)] : Keeps(f, p, S) /\ Only(p, S) = f[n]
  BY OnlyRec
<1>2. PICK g \in [0..m -> Seq(X)] : Keeps(g, e, S) /\ Only(e, S) = g[m]
  BY OnlyRec
<1>3. /\ q \in Seq(X) /\ Len(q) = n + m /\ n \in Nat /\ m \in Nat
      /\ \A i \in 1..(n + m) : q[i] = IF i <= n THEN p[i] ELSE e[i - n]
  BY ConcatProperties
<1> HIDE DEF q
<1>4. PICK h \in [0..Len(q) -> Seq(X)] : Keeps(h, q, S) /\ Only(q, S) = h[Len(q)]
  <2>1. q \in Seq(X) BY <1>3
  <2> QED BY ONLY <2>1, OnlyRec
<1> HIDE DEF n, m
<1> DEFINE z == [i \in 0..(n + m) |-> IF i <= n THEN f[i] ELSE f[n] \o g[i - n]]
<1>5. h[0] = z[0]
  BY <1>1, <1>3, <1>4 DEF Keeps
<1>6. f[n] \in Seq(X) /\ f[n] \o g[0] = f[n]
  <2>1. f[n] \in Seq(X) BY <1>3
  <2>2. g[0] = <<>> BY <1>2 DEF Keeps
  <2> QED BY <2>1, <2>2, ConcatEmptySeq
<1>7. ASSUME NEW i \in 1..(n + m), h[i-1] = z[i-1] PROVE h[i] = z[i]
  <2>1. h[i] = IF q[i] \in S THEN Append(h[i-1], q[i]) ELSE h[i-1]
    BY <1>3, <1>4 DEF Keeps
  <2>2. CASE i <= n
    <3>1. i \in 1..n /\ z[i] = f[i] /\ z[i-1] = f[i-1] BY <2>2, <1>3
    <3>2. f[i] = IF p[i] \in S THEN Append(f[i-1], p[i]) ELSE f[i-1]
      BY <3>1, <1>1 DEF Keeps, n
    <3>3. q[i] = p[i] BY <2>2, <1>3
    <3> QED BY ONLY <3>1, <3>2, <3>3, <2>1, <1>7
  <2>3. CASE ~ (i <= n)
    <3> DEFINE j == i - n
    <3>1. j \in 1..m /\ j - 1 = (i - 1) - n /\ j - 1 \in 0..m BY <2>3, <1>3
    <3>2. q[i] = e[j] BY <2>3, <1>3
    <3>3. g[j] = IF e[j] \in S THEN Append(g[j-1], e[j]) ELSE g[j-1]
      BY <3>1, <1>2 DEF Keeps, m
    <3>4. g[j-1] \in Seq(X) /\ e[j] \in X /\ z[i] = f[n] \o g[j]
      <4>1. e[j] \in X BY <3>1 DEF m
      <4>2. g[j-1] \in Seq(X) BY ONLY <3>1, g \in [0..m -> Seq(X)]
      <4>3. z[i] = f[n] \o g[i - n]
        <5>1. i \in 0..(n + m) BY <1>3
        <5> QED BY <5>1, <2>3
      <4> QED BY ONLY <4>1, <4>2, <4>3 DEF j
    <3>5. z[i-1] = f[n] \o g[j-1]
      <4>1. CASE i - 1 <= n
        <5>1. i - 1 = n /\ j - 1 = 0 BY <4>1, <2>3, <1>3
        <5>2. z[i-1] = f[n] BY <5>1, <1>3
        <5> QED BY ONLY <5>1, <5>2, <1>6
      <4>2. CASE ~ (i - 1 <= n)
        <5>1. i - 1 \in 0..(n + m) BY <1>3
        <5>2. z[i-1] = f[n] \o g[(i-1) - n] BY <5>1, <4>2
        <5> QED BY ONLY <5>2, <3>1
      <4> QED BY <4>1, <4>2
    <3> HIDE DEF z, j
    <3>6. f[n] \o Append(g[j-1], e[j]) = Append(f[n] \o g[j-1], e[j])
      
      <4>1. f[n] \in Seq(X) BY <1>6
      <4> DEFINE a == f[n]
                 b == g[j-1]
                 c == e[j]
      <4>2. a \in Seq(X) /\ b \in Seq(X) /\ c \in X BY ONLY <4>1, <3>4
      <4> HIDE DEF a, b, c
      <4>3. a \o Append(b, c) = Append(a \o b, c) BY ONLY <4>2, AppendConcat
      <4> QED BY ONLY <4>3 DEF a, b, c
    <3>7. h[i] = IF e[j] \in S THEN Append(f[n] \o g[j-1], e[j]) ELSE f[n] \o g[j-1]
      BY ONLY <2>1, <3>2, <3>5, <1>7
    <3>8. z[i] = IF e[j] \in S THEN f[n] \o Append(g[j-1], e[j]) ELSE f[n] \o g[j-1]
      BY ONLY <3>3, <3>4
    <3> QED BY ONLY <3>6, <3>7, <3>8
  <2> QED BY <2>2, <2>3
<1>8. n + m \in Nat /\ SameSteps(h, z, n + m)
  <2> HIDE DEF z
  <2> QED BY <1>3, <1>5, <1>7 DEF SameSteps
<1>9. h[n + m] = z[n + m]
  <2> HIDE DEF z
  <2> QED BY <1>8, Unfold
<1>10. z[n + m] = f[n] \o g[m]
  <2>1. CASE m = 0
    <3>1. n + m = n /\ g[m] = g[0] BY <2>1, <1>3
    <3>2. z[n + m] = f[n] BY <3>1, <1>3
    <3> QED BY ONLY <3>1, <3>2, <1>6
  <2>2. CASE m # 0
    <3>1. ~ (n + m <= n) /\ (n + m) - n = m BY <2>2, <1>3
    <3>2. n + m \in 0..(n + m) BY <1>3
    <3>3. z[n + m] = f[n] \o g[(n + m) - n] BY <3>1, <3>2
    <3> QED BY ONLY <3>1, <3>3
  <2> QED BY <2>1, <2>2
<1> HIDE DEF z
<1> QED BY <1>1, <1>2, <1>3, <1>4, <1>9, <1>10 DEF q, n, m

\* What is left of a concatenation is what is left of its parts.
LEMMA WithoutConcat ==
  ASSUME NEW X, NEW p \in Seq(X), NEW e \in Seq(X), NEW S
  PROVE  Without(p \o e, S) = Without(p, S) \o Without(e, S)
<1>1. \A q \in Seq(X) : Without(q, S) = Only(q, X \ S)
  <2> TAKE q \in Seq(X)
  <2> DEFINE T == {q[i] : i \in DOMAIN q} \ S
  <2>1. \A i \in 1..Len(q) : q[i] \in T <=> q[i] \in X \ S
    OBVIOUS
  <2>2. Without(q, S) = Only(q, T)
    BY DEF Without
  <2> HIDE DEF T
  <2> QED BY <2>1, <2>2, OnlySame
<1>2. p \o e \in Seq(X)
  BY ConcatProperties
<1> DEFINE A == X \ S
<1>3. Only(p \o e, A) = Only(p, A) \o Only(e, A)
  <2> HIDE DEF A
  <2> QED BY OnlyConcat
<1> QED BY ONLY <1>1, <1>2, <1>3, p \in Seq(X), e \in Seq(X)
=============================================================================
