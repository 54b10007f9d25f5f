------------------------- MODULE TrainPipelineProofs -------------------------
(***************************************************************************)
(* Theorems about the training pipelines, on every rank, for both          *)
(* pipelines, both shufflers and every plan of the trainer: each batch     *)
(* goes through the model once, in order, in the loop it was loaded for,   *)
(* and nothing on the streams is computed before what it reads.            *)
(***************************************************************************)
EXTENDS TrainPipeline, SequenceLemmas

Slices == [mode : {"train", "eval"}, size : Nat]
Loader == [iter : Nat, exhausted : BOOLEAN, drawn : Nat]
Points == {"call", "fill", "filled", "second", "begin", "dist", "forward", "finish"}
Forwards == Seq(Nat \X {"train", "eval"})

\* Before(k), of the plan P.
Upto(P, k) ==
    LET upTo[n \in 0 .. Len(P)] == IF n = 0 THEN 0 ELSE upTo[n - 1] + P[n].size
    IN  upTo[k - 1]

\* Where slice k of the plan P ends.
EndOf(P, k) == Upto(P, k + 1)

\* Batches given to the model and done with it: all but the one in the slots
\* whose forward pass has been launched.
DoneWith(p, f) == IF p = "finish" THEN Len(f) - 1 ELSE Len(f)

\* raw_batch is a batch that has been drawn and is in no slot yet.
RawCounts(p) == p \in {"second", "dist", "forward", "finish"}

Extra(p, w) == IF RawCounts(p) /\ w # None THEN 1 ELSE 0

\* The slots hold the batches that follow those done with, and nothing drawn is
\* anywhere else; p, l, q, w and f are the rank's pc, loader, slots, raw and forwards.
Lined(p, l, q, w, f) ==
    /\ p = "finish" => Len(f) >= 1
    /\ \A i \in 1..Len(q) : q[i] = DoneWith(p, f) + i
    /\ p # "call" => Len(q) >= 1
    /\ l.drawn = DoneWith(p, f) + Len(q) + Extra(p, w)
    /\ RawCounts(p) => w = None \/ w = l.drawn

\* All of them are of the slice s the trainer is in, and the loader is exhausted
\* at the end of its slice only.
OfSlice(P, p, s, l, q, f) ==
    /\ s \in 1..(Len(P) + 1)
    /\ l.iter <= s
    /\ (p # "call" \/ Len(q) >= 1) => s <= Len(P)
    /\ Upto(P, s) <= DoneWith(p, f)
    /\ s <= Len(P) => l.drawn <= EndOf(P, s)
    /\ s <= Len(P) /\ l.exhausted /\ l.iter = s => l.drawn >= EndOf(P, s)

\* Every batch given to the model is of the slice whose loop it was given to.
InLoop(P, f) ==
    \A i \in 1..Len(f) : \E k \in 1..Len(P) :
        /\ i > Upto(P, k) /\ i <= EndOf(P, k)
        /\ f[i] = <<i, P[k].mode>>

\* A rank of a job that runs P.
RankOK(P, p, s, l, q, w, f) ==
    /\ p \in Points /\ s \in Nat /\ l \in Loader /\ q \in Seq(Nat) /\ w \in Nat /\ f \in Forwards
    /\ Lined(p, l, q, w, f)
    /\ OfSlice(P, p, s, l, q, f)
    /\ InLoop(P, f)

HostOK ==
    /\ plan \in Seq(Slices)
    /\ pc \in [Rank -> Points] /\ slice \in [Rank -> Nat] /\ loader \in [Rank -> Loader]
    /\ slots \in [Rank -> Seq(Nat)] /\ raw \in [Rank -> Nat] /\ forwards \in [Rank -> Forwards]
    /\ \A r \in Rank : RankOK(plan, pc[r], slice[r], loader[r], slots[r], raw[r], forwards[r])
-----------------------------------------------------------------------------
(* The slices of a plan.                                                   *)

\* The slices follow one another: each begins where the one before it ends.
LEMMA SlicesFollow ==
  ASSUME NEW P \in Seq(Slices)
  PROVE  /\ Upto(P, 1) = 0
         /\ \A k \in 1..(Len(P) + 1) : Upto(P, k) \in Nat
         /\ \A k \in 1..Len(P) : EndOf(P, k) \in Nat /\ Upto(P, k) <= EndOf(P, k)
<1> DEFINE n == Len(P)
           g == [i \in 1..n |-> [z \in Nat |-> z + P[i].size]]
           D(h) == [i \in 0..n |-> IF i = 0 THEN 0 ELSE h[i - 1] + P[i].size]
           a == CHOOSE h : h = D(h)
<1>1. n \in Nat /\ \A i \in 1..n : P[i].size \in Nat
  <2>1. n \in Nat /\ \A i \in 1..n : P[i] \in Slices
    OBVIOUS
  <2>2. \A z \in Slices : z.size \in Nat
    BY DEF Slices
  <2> QED BY <2>1, <2>2
<1>3. \A i \in 1..n : g[i] \in [Nat -> Nat]
  BY <1>1
<1>4. PICK f : f \in [0..n -> Nat] /\ Iterates(f, g, 0, n)
  <2>1. 0 \in Nat
    OBVIOUS
  <2> HIDE DEF g, n
  <2> QED BY <1>1, <1>3, <2>1, Recursion
<1>5. f[0] = 0
  BY <1>4 DEF Iterates
<1>6. ASSUME NEW i \in 1..n PROVE f[i] = f[i-1] + P[i].size
  <2>1. f[i-1] \in Nat
    <3>1. i - 1 \in 0..n
      BY <1>1
    <3> HIDE DEF n
    <3> QED BY <3>1, <1>4
  <2>2. g[i] = [z \in Nat |-> z + P[i].size]
    OBVIOUS
  <2>3. f[i] = g[i][f[i-1]]
    <3> HIDE DEF g
    <3> QED BY <1>4 DEF Iterates
  <2> HIDE DEF g
  <2> QED BY <2>1, <2>2, <2>3
<1> HIDE DEF g
<1>8. f = D(f)
  <2>1. ASSUME NEW i \in 0..n PROVE f[i] = D(f)[i]
    <3>1. CASE i = 0
      BY <3>1, <1>5
    <3>2. CASE i # 0
      <4>1. i \in 1..n
        BY <3>2
      <4> QED BY <4>1, <1>6, <3>2
    <3> QED BY <3>1, <3>2
  <2>2. f = [i \in 0..n |-> f[i]]
    BY <1>4
  <2>3. D(f) = [i \in 0..n |-> D(f)[i]]
    OBVIOUS
  <2> HIDE DEF D
  <2> QED BY <2>1, <2>2, <2>3
<1>9. a = D(a)
  BY <1>8
<1>10. \A k \in 1..(n + 1) : Upto(P, k) = a[k - 1]
  BY DEF Upto
<1> HIDE DEF a
<1>11. \A i \in 0..n : f[i] = a[i]
  <2>1. f[0] = a[0]
    BY <1>1, <1>5, <1>9
  <2>2. ASSUME NEW i \in 1..n, f[i-1] = a[i-1] PROVE f[i] = a[i]
    <3>1. a[i] = D(a)[i]
      BY <1>9
    <3>2. D(a)[i] = a[i-1] + P[i].size
      OBVIOUS
    <3> HIDE DEF D
    <3> QED BY <3>1, <3>2, <2>2, <1>6
  <2>3. SameSteps(f, a, n)
    BY <2>1, <2>2 DEF SameSteps
  <2> HIDE DEF D, n
  <2> QED BY <1>1, <2>3, Unfold
<1>12. ASSUME NEW k \in 1..(n + 1) PROVE Upto(P, k) = f[k - 1] /\ k - 1 \in 0..n
  BY <1>1, <1>10, <1>11
<1> HIDE DEF D
<1>13. ASSUME NEW k \in 1..n PROVE EndOf(P, k) \in Nat /\ Upto(P, k) <= EndOf(P, k)
  <2>1. k \in 1..(n + 1) /\ k + 1 \in 1..(n + 1) /\ (k + 1) - 1 = k /\ k - 1 \in 0..n
    BY <1>1
  <2>2. Upto(P, k) = f[k - 1] /\ Upto(P, k + 1) = f[k]
    BY <2>1, <1>12
  <2>3. f[k] = f[k - 1] + P[k].size /\ f[k - 1] \in Nat /\ f[k] \in Nat
    BY <2>1, <1>6, <1>4
  <2>4. EndOf(P, k) = f[k]
    BY <2>2 DEF EndOf
  <2> QED BY <2>2, <2>3, <2>4, <1>1
<1>14. ASSUME NEW k \in 1..(n + 1) PROVE Upto(P, k) \in Nat
  BY <1>12, <1>4
<1>15. Upto(P, 1) = 0
  BY <1>1, <1>5, <1>12
<1> QED BY <1>13, <1>14, <1>15

\* The drawing of a batch b in slice s, as NextBatch and Draw say; m is the loader after it.
Drawn(P, s, l, b, m) ==
    /\ b = IF (l.exhausted /\ l.iter = s) \/ l.drawn >= EndOf(P, s) THEN None ELSE l.drawn + 1
    /\ m = [iter |-> s, exhausted |-> b = None, drawn |-> IF b = None THEN l.drawn ELSE b]

\* What comes of it.
DrawnOK(P, s, l, b, m) ==
    /\ m \in Loader /\ m.iter = s /\ b \in Nat /\ m.drawn \in Nat /\ l.drawn \in Nat
    /\ m.drawn <= EndOf(P, s)
    /\ b = None => m.drawn = l.drawn /\ l.drawn >= EndOf(P, s)
    /\ b # None => b = l.drawn + 1 /\ m.drawn = b /\ ~m.exhausted

\* The next batch of the slice is drawn, or there is none left.
LEMMA DrawNext ==
  ASSUME NEW P \in Seq(Slices), NEW p, NEW s, s \in 1..Len(P), NEW l, l \in Loader, NEW q, NEW f,
         OfSlice(P, p, s, l, q, f), NEW b, NEW m, Drawn(P, s, l, b, m)
  PROVE  DrawnOK(P, s, l, b, m)
<1>1. Len(P) \in Nat /\ s \in Nat /\ s + 1 \in 1..(Len(P) + 1)
  OBVIOUS
<1>2. EndOf(P, s) \in Nat
  BY <1>1, SlicesFollow
<1>3. l.drawn \in Nat /\ l.iter \in Nat /\ l.exhausted \in BOOLEAN
  BY DEF Loader
<1>4. /\ l.drawn <= EndOf(P, s)
      /\ l.exhausted /\ l.iter = s => l.drawn >= EndOf(P, s)
  BY <1>1 DEF OfSlice
<1>5. \/ b = None /\ l.drawn >= EndOf(P, s)
      \/ b # None /\ b = l.drawn + 1 /\ l.drawn < EndOf(P, s)
  BY <1>2, <1>3, <1>4 DEF Drawn, None
<1>6. /\ m.iter = s /\ m.exhausted = (b = None) /\ m.drawn = (IF b = None THEN l.drawn ELSE b)
      /\ m = [iter |-> m.iter, exhausted |-> m.exhausted, drawn |-> m.drawn]
  BY DEF Drawn
<1>7. b \in Nat /\ m.drawn \in Nat /\ m.drawn <= EndOf(P, s) /\ m.exhausted \in BOOLEAN
  BY <1>2, <1>3, <1>4, <1>5, <1>6 DEF None
<1>8. m \in Loader
  BY <1>1, <1>6, <1>7 DEF Loader
<1>9. CASE b = None
  BY <1>2, <1>3, <1>5, <1>6, <1>7, <1>8, <1>9 DEF DrawnOK
<1>10. CASE b # None
  BY <1>2, <1>3, <1>5, <1>6, <1>7, <1>8, <1>10 DEF DrawnOK
<1> QED BY <1>9, <1>10

-----------------------------------------------------------------------------
(* The steps of a rank.                                                    *)

\* What the next steps use of a rank's lengths.
LEMMA RankFacts ==
  ASSUME NEW P \in Seq(Slices), NEW p, NEW s, NEW l, NEW q, NEW w, NEW f,
         RankOK(P, p, s, l, q, w, f)
  PROVE  /\ Len(P) \in Nat /\ Len(q) \in Nat /\ Len(f) \in Nat /\ l.drawn \in Nat /\ l.iter \in Nat
         /\ s \in Nat /\ w \in Nat /\ DoneWith(p, f) \in Nat
         /\ s \in 1..(Len(P) + 1) /\ Upto(P, s) \in Nat
         /\ s <= Len(P) => /\ s \in 1..Len(P) /\ EndOf(P, s) \in Nat
                           /\ Upto(P, s) <= EndOf(P, s)
<1>1. /\ Len(P) \in Nat /\ Len(q) \in Nat /\ Len(f) \in Nat /\ s \in Nat /\ w \in Nat
      /\ s \in 1..(Len(P) + 1) /\ (p = "finish" => Len(f) >= 1)
  BY DEF RankOK, OfSlice, Lined, Forwards
<1>2. l.drawn \in Nat /\ l.iter \in Nat
  BY DEF RankOK, Loader
<1>3. DoneWith(p, f) \in Nat
  BY <1>1 DEF DoneWith
<1>4. s <= Len(P) => s \in 1..Len(P) /\ s + 1 \in 1..(Len(P) + 1)
  BY <1>1
<1> QED BY <1>1, <1>2, <1>3, <1>4, SlicesFollow

\* FillFirst at the end of a slice: the trainer goes on with the next one.
LEMMA SliceEnds ==
  ASSUME NEW P \in Seq(Slices), NEW s, NEW l, NEW q, NEW w, NEW f,
         RankOK(P, "call", s, l, q, w, f), Len(q) = 0, s <= Len(P),
         NEW m, Drawn(P, s, l, None, m)
  PROVE  RankOK(P, "call", s + 1, m, q, w, f)
<1>1. /\ s \in 1..Len(P) /\ Len(P) \in Nat /\ l \in Loader /\ Len(f) \in Nat
      /\ OfSlice(P, "call", s, l, q, f) /\ Lined("call", l, q, w, f) /\ InLoop(P, f)
      /\ EndOf(P, s) \in Nat /\ Len(q) \in Nat
  BY RankFacts DEF RankOK
<1>2. /\ m \in Loader /\ m.iter = s /\ m.drawn \in Nat /\ l.drawn \in Nat
      /\ m.drawn <= EndOf(P, s) /\ m.drawn = l.drawn /\ l.drawn >= EndOf(P, s)
  <2>1. DrawnOK(P, s, l, None, m)
    BY <1>1, DrawNext
  <2> QED BY <2>1 DEF DrawnOK
<1>3. DoneWith("call", f) = Len(f) /\ ~RawCounts("call") /\ Extra("call", w) = 0
  BY DEF DoneWith, RawCounts, Extra
<1>4. l.drawn = Len(f)
  BY <1>1, <1>2, <1>3 DEF Lined
<1>5. Lined("call", m, q, w, f)
  BY <1>1, <1>2, <1>3, <1>4 DEF Lined
<1>6. s + 1 <= Len(P) => EndOf(P, s) <= EndOf(P, s + 1) /\ EndOf(P, s + 1) \in Nat
  <2>1. s + 1 <= Len(P) => s + 1 \in 1..Len(P)
    BY <1>1
  <2>2. EndOf(P, s) = Upto(P, s + 1)
    BY DEF EndOf
  <2>3. \A k : k \in 1..Len(P) => EndOf(P, k) \in Nat /\ Upto(P, k) <= EndOf(P, k)
    BY SlicesFollow
  <2> QED BY <2>1, <2>2, <2>3
<1>7. OfSlice(P, "call", s + 1, m, q, f)
  <2>1. s + 1 \in 1..(Len(P) + 1) /\ m.iter <= s + 1 /\ ~(m.iter = s + 1)
    BY <1>1, <1>2
  <2>2. Upto(P, s + 1) <= DoneWith("call", f)
    BY <1>2, <1>3, <1>4 DEF EndOf
  <2>3. s + 1 <= Len(P) => m.drawn <= EndOf(P, s + 1)
    BY <1>1, <1>2, <1>6
  <2> QED BY <2>1, <2>2, <2>3, <1>1 DEF OfSlice
<1> QED BY <1>1, <1>2, <1>5, <1>7 DEF RankOK

\* FillFirst otherwise: the batch is the only one in the pipeline.
LEMMA FirstDrawn ==
  ASSUME NEW P \in Seq(Slices), NEW s, NEW l, NEW q, NEW w, NEW f,
         RankOK(P, "call", s, l, q, w, f), Len(q) = 0, s <= Len(P),
         NEW b, b # None, NEW m, Drawn(P, s, l, b, m)
  PROVE  RankOK(P, "fill", s, m, <<b>>, w, f)
<1>1. /\ s \in 1..Len(P) /\ Len(P) \in Nat /\ l \in Loader /\ Len(f) \in Nat
      /\ OfSlice(P, "call", s, l, q, f) /\ Lined("call", l, q, w, f) /\ InLoop(P, f)
      /\ EndOf(P, s) \in Nat /\ Len(q) \in Nat /\ w \in Nat /\ f \in Forwards
  BY RankFacts DEF RankOK
<1>2. /\ m \in Loader /\ m.iter = s /\ m.drawn \in Nat /\ l.drawn \in Nat /\ b \in Nat
      /\ m.drawn <= EndOf(P, s) /\ m.drawn = l.drawn + 1 /\ b = l.drawn + 1 /\ ~m.exhausted
  <2>1. DrawnOK(P, s, l, b, m)
    BY <1>1, DrawNext
  <2> QED BY <2>1 DEF DrawnOK
<1>3. /\ DoneWith("call", f) = Len(f) /\ ~RawCounts("call")
      /\ DoneWith("fill", f) = Len(f) /\ ~RawCounts("fill")
      /\ Extra("call", w) = 0 /\ Extra("fill", w) = 0
  BY DEF DoneWith, RawCounts, Extra
<1>4. l.drawn = Len(f)
  BY <1>1, <1>2, <1>3 DEF Lined
<1>5. Len(<<b>>) = 1 /\ <<b>>[1] = b /\ <<b>> \in Seq(Nat)
  BY <1>2
<1>6. Lined("fill", m, <<b>>, w, f)
  BY <1>1, <1>2, <1>3, <1>4, <1>5 DEF Lined
<1>7. OfSlice(P, "fill", s, m, <<b>>, f)
  BY <1>1, <1>2, <1>3, <1>4, <1>5 DEF OfSlice
<1> QED BY <1>1, <1>2, <1>5, <1>6, <1>7 DEF RankOK, Points

\* FillDist and WaitDist move nothing.
LEMMA Moved ==
  ASSUME NEW P \in Seq(Slices), NEW p, NEW s, NEW l, NEW q, NEW w, NEW f,
         RankOK(P, p, s, l, q, w, f), NEW t,
         \/ p = "fill" /\ t = "filled"
         \/ p = "dist" /\ t = "forward"
  PROVE  RankOK(P, t, s, l, q, w, f)
<1>1. /\ t \in Points /\ t # "finish" /\ p # "finish" /\ t # "call" /\ p # "call"
      /\ DoneWith(t, f) = DoneWith(p, f) /\ (RawCounts(t) <=> RawCounts(p))
      /\ Extra(t, w) = Extra(p, w)
  BY DEF Points, DoneWith, RawCounts, Extra
<1>2. Lined(t, l, q, w, f)
  BY <1>1 DEF RankOK, Lined
<1>3. OfSlice(P, t, s, l, q, f)
  BY <1>1 DEF RankOK, OfSlice
<1> QED BY <1>1, <1>2, <1>3 DEF RankOK

\* FillSecond and Begin: the next batch is drawn and kept in raw_batch.
LEMMA RawDrawn ==
  ASSUME NEW P \in Seq(Slices), NEW p, NEW s, NEW l, NEW q, NEW w, NEW f,
         RankOK(P, p, s, l, q, w, f), Len(q) >= 1, p \in {"filled", "begin", "call"},
         NEW t \in {"second", "dist"}, NEW b, NEW m, Drawn(P, s, l, b, m)
  PROVE  RankOK(P, t, s, m, q, b, f)
<1>1. /\ s \in 1..Len(P) /\ Len(P) \in Nat /\ l \in Loader /\ Len(f) \in Nat
      /\ OfSlice(P, p, s, l, q, f) /\ Lined(p, l, q, w, f) /\ InLoop(P, f)
      /\ EndOf(P, s) \in Nat /\ Len(q) \in Nat /\ f \in Forwards /\ q \in Seq(Nat)
  <2>1. s <= Len(P)
    BY DEF RankOK, OfSlice
  <2> QED BY <2>1, RankFacts DEF RankOK
<1>2. /\ m \in Loader /\ m.iter = s /\ m.drawn \in Nat /\ l.drawn \in Nat /\ b \in Nat
      /\ m.drawn <= EndOf(P, s)
      /\ b = None => m.drawn = l.drawn /\ l.drawn >= EndOf(P, s)
      /\ b # None => b = l.drawn + 1 /\ m.drawn = b /\ ~m.exhausted
  <2>1. DrawnOK(P, s, l, b, m)
    BY <1>1, DrawNext
  <2> QED BY <2>1 DEF DrawnOK
<1>3. /\ DoneWith(p, f) = Len(f) /\ ~RawCounts(p)
      /\ DoneWith(t, f) = Len(f) /\ RawCounts(t) /\ t # "finish" /\ t \in Points
      /\ Extra(p, w) = 0 /\ (b = None => Extra(t, b) = 0) /\ (b # None => Extra(t, b) = 1)
  BY DEF DoneWith, RawCounts, Points, Extra
<1>4. l.drawn = Len(f) + Len(q)
  BY <1>1, <1>2, <1>3 DEF Lined
<1>5. Lined(t, m, q, b, f)
  BY <1>1, <1>2, <1>3, <1>4 DEF Lined
<1>6. OfSlice(P, t, s, m, q, f)
  BY <1>1, <1>2, <1>3 DEF OfSlice
<1> QED BY <1>1, <1>2, <1>3, <1>5, <1>6 DEF RankOK

\* FillEnd: raw_batch joins the pipeline.
LEMMA RawJoins ==
  ASSUME NEW P \in Seq(Slices), NEW s, NEW l, NEW q, NEW w, NEW f,
         RankOK(P, "second", s, l, q, w, f)
  PROVE  RankOK(P, "begin", s, l, IF w = None THEN q ELSE Append(q, w), w, f)
<1> DEFINE z == IF w = None THEN q ELSE Append(q, w)
<1>1. /\ Len(f) \in Nat /\ OfSlice(P, "second", s, l, q, f) /\ Lined("second", l, q, w, f)
      /\ Len(q) \in Nat /\ w \in Nat /\ q \in Seq(Nat) /\ l.drawn \in Nat
  BY RankFacts DEF RankOK
<1>2. /\ DoneWith("second", f) = Len(f) /\ RawCounts("second")
      /\ DoneWith("begin", f) = Len(f) /\ ~RawCounts("begin") /\ "begin" \in Points
      /\ Extra("begin", w) = 0
      /\ (w = None => Extra("second", w) = 0) /\ (w # None => Extra("second", w) = 1)
  BY DEF DoneWith, RawCounts, Points, Extra
<1>3. /\ z \in Seq(Nat) /\ Len(z) \in Nat
      /\ (w = None => Len(z) = Len(q)) /\ (w # None => Len(z) = Len(q) + 1)
      /\ \A i \in 1..Len(q) : z[i] = q[i]
      /\ w # None => z[Len(q) + 1] = w
  BY <1>1
<1> HIDE DEF z
<1>4. Lined("begin", l, z, w, f)
  <2>1. ASSUME NEW i \in 1..Len(z) PROVE z[i] = Len(f) + i
    <3>0. i \in Nat /\ 1 <= i /\ i <= Len(z)
      BY <1>3
    <3>1. CASE i <= Len(q)
      <4>1. i \in 1..Len(q)
        BY <3>0, <3>1, <1>1
      <4> QED BY <4>1, <1>1, <1>2, <1>3 DEF Lined
    <3>2. CASE i > Len(q)
      <4>1. w # None /\ i = Len(q) + 1
        BY <3>0, <3>2, <1>1, <1>3
      <4>2. w = l.drawn /\ l.drawn = Len(f) + Len(q) + 1
        BY <4>1, <1>1, <1>2 DEF Lined
      <4> QED BY <4>1, <4>2, <1>1, <1>3
    <3> QED BY <3>0, <3>1, <3>2, <1>1
  <2>2. l.drawn = Len(f) + Len(q) + Extra("second", w) /\ Len(q) >= 1
    BY <1>1, <1>2 DEF Lined
  <2>3. l.drawn = Len(f) + Len(z) + 0 /\ Len(z) >= 1
    <3>1. CASE w = None
      BY <3>1, <2>2, <1>1, <1>2, <1>3
    <3>2. CASE w # None
      <4>1. Extra("second", w) = 1 /\ Len(z) = Len(q) + 1
        BY <3>2, <1>2, <1>3, Zenon
      <4> QED BY <4>1, <2>2, <1>1
    <3> QED BY <3>1, <3>2
  <2>4. "begin" # "finish"
    OBVIOUS
  <2> QED BY <2>1, <2>3, <2>4, <1>2 DEF Lined
<1>5. OfSlice(P, "begin", s, l, z, f)
  BY <1>1, <1>2 DEF OfSlice
<1>6. RankOK(P, "begin", s, l, z, w, f)
  BY <1>2, <1>3, <1>4, <1>5 DEF RankOK
<1> QED BY <1>6 DEF z

\* Forward: the oldest batch is given to the model in the loop of its slice.
LEMMA Forwarded ==
  ASSUME NEW P \in Seq(Slices), NEW s, NEW l, NEW q, NEW w, NEW f,
         RankOK(P, "forward", s, l, q, w, f)
  PROVE  RankOK(P, "finish", s, l, q, w, Append(f, <<q[1], P[s].mode>>))
<1> DEFINE x == <<q[1], P[s].mode>>
           h == Append(f, x)
<1>1. /\ Len(f) \in Nat /\ OfSlice(P, "forward", s, l, q, f) /\ Lined("forward", l, q, w, f)
      /\ Len(q) \in Nat /\ w \in Nat /\ q \in Seq(Nat) /\ l.drawn \in Nat /\ f \in Forwards
      /\ InLoop(P, f) /\ s \in 1..Len(P) /\ Len(P) \in Nat
      /\ Upto(P, s) \in Nat /\ EndOf(P, s) \in Nat
  <2>1. s <= Len(P)
    BY DEF RankOK, OfSlice
  <2> QED BY <2>1, RankFacts DEF RankOK
<1>2. Len(q) >= 1 /\ 1 \in 1..Len(q)
  BY <1>1 DEF Lined
<1>3. x \in Nat \X {"train", "eval"}
  <2>1. P[s] \in Slices
    BY <1>1
  <2>2. \A y \in Slices : y.mode \in {"train", "eval"}
    BY DEF Slices
  <2> QED BY <1>1, <1>2, <2>1, <2>2
<1>4. /\ h \in Forwards /\ Len(h) = Len(f) + 1 /\ h[Len(f) + 1] = x
      /\ \A i \in 1..Len(f) : h[i] = f[i]
  <2> HIDE DEF x
  <2> QED BY <1>1, <1>3, AppendProperties DEF Forwards
<1> HIDE DEF h
<1>5. /\ DoneWith("forward", f) = Len(f) /\ RawCounts("forward")
      /\ DoneWith("finish", h) = Len(f) /\ RawCounts("finish") /\ "finish" \in Points
      /\ Extra("forward", w) = Extra("finish", w) /\ Extra("forward", w) \in Nat
  BY <1>1, <1>4 DEF DoneWith, RawCounts, Points, Extra
<1>6. q[1] = Len(f) + 1
  BY <1>1, <1>2, <1>5 DEF Lined
<1>7. Lined("finish", l, q, w, h)
  BY <1>1, <1>4, <1>5 DEF Lined
<1>8. OfSlice(P, "finish", s, l, q, h)
  BY <1>1, <1>5 DEF OfSlice
<1>9. InLoop(P, h)
  <2>1. ASSUME NEW i \in 1..Len(h)
        PROVE  \E k \in 1..Len(P) : /\ i > Upto(P, k) /\ i <= EndOf(P, k)
                                    /\ h[i] = <<i, P[k].mode>>
    <3>0. i \in Nat /\ 1 <= i /\ i <= Len(f) + 1
      BY <1>1, <1>4
    <3>1. CASE i <= Len(f)
      <4>1. i \in 1..Len(f) /\ h[i] = f[i]
        BY <3>0, <3>1, <1>1, <1>4
      <4> QED BY <4>1, <1>1 DEF InLoop
    <3>2. CASE i > Len(f)
      <4>1. i = Len(f) + 1
        BY <3>0, <3>2, <1>1
      <4>2. h[i] = <<i, P[s].mode>>
        BY <4>1, <1>4, <1>6 DEF x
      <4>3. i > Upto(P, s)
        BY <4>1, <1>1, <1>5 DEF OfSlice
      <4>4. i <= l.drawn
        BY <4>1, <1>1, <1>2, <1>5 DEF Lined
      <4>5. l.drawn <= EndOf(P, s)
        BY <1>1 DEF OfSlice
      <4>6. i \in Nat
        BY <4>1, <1>1
      <4>7. i <= EndOf(P, s)
        BY <4>4, <4>5, <4>6, <1>1
      <4> QED BY <4>2, <4>3, <4>7, <1>1
    <3> QED BY <3>0, <3>1, <3>2, <1>1
  <2> QED BY <2>1 DEF InLoop
<1>10. RankOK(P, "finish", s, l, q, w, h)
  BY <1>1, <1>4, <1>5, <1>7, <1>8, <1>9 DEF RankOK
<1> QED BY <1>10 DEF h, x

\* Finish: the oldest batch leaves the pipeline and raw_batch joins it.
LEMMA Finished ==
  ASSUME NEW P \in Seq(Slices), NEW s, NEW l, NEW q, NEW w, NEW f,
         RankOK(P, "finish", s, l, q, w, f)
  PROVE  RankOK(P, "call", s, l, Tail(q) \o If(w # None, <<w>>), None, f)
<1> DEFINE e == If(w # None, <<w>>)
           t == Tail(q)
           z == t \o e
<1>1. /\ Len(f) \in Nat /\ OfSlice(P, "finish", s, l, q, f) /\ Lined("finish", l, q, w, f)
      /\ Len(q) \in Nat /\ w \in Nat /\ q \in Seq(Nat) /\ l.drawn \in Nat /\ f \in Forwards
      /\ InLoop(P, f) /\ Len(f) >= 1 /\ Len(P) \in Nat /\ s \in Nat
      /\ Upto(P, s) \in Nat /\ Len(q) >= 1
  BY RankFacts DEF RankOK, Lined
<1>2. /\ DoneWith("finish", f) = Len(f) - 1 /\ RawCounts("finish")
      /\ DoneWith("call", f) = Len(f) /\ ~RawCounts("call") /\ "call" \in Points
      /\ Extra("call", None) = 0
      /\ (w = None => Extra("finish", w) = 0) /\ (w # None => Extra("finish", w) = 1)
  BY <1>1 DEF DoneWith, RawCounts, Points, Extra
<1>3. /\ e \in Seq(Nat) /\ Len(e) \in Nat
      /\ (w = None => Len(e) = 0) /\ (w # None => Len(e) = 1)
      /\ w # None => e[1] = w
  BY <1>1 DEF If
<1>4. /\ t \in Seq(Nat) /\ Len(t) = Len(q) - 1
      /\ \A i \in 1..Len(t) : t[i] = q[i + 1]
  BY <1>1
<1> HIDE DEF e, t
<1>5. /\ z \in Seq(Nat) /\ Len(z) = Len(t) + Len(e)
      /\ \A i \in 1..(Len(t) + Len(e)) : z[i] = IF i <= Len(t) THEN t[i] ELSE e[i - Len(t)]
  BY <1>3, <1>4, ConcatProperties
<1> HIDE DEF z
<1>6. Lined("call", l, z, None, f)
  <2>1. ASSUME NEW i \in 1..Len(z) PROVE z[i] = Len(f) + i
    <3>0. i \in Nat /\ 1 <= i /\ i <= Len(t) + Len(e) /\ Len(t) \in Nat /\ i \in 1..(Len(t) + Len(e))
      BY <1>1, <1>3, <1>4, <1>5
    <3>1. CASE i <= Len(t)
      <4>1. i \in 1..Len(t) /\ i + 1 \in 1..Len(q) /\ i \in Nat
        BY <3>0, <3>1, <1>1, <1>4
      <4>2. z[i] = q[i + 1]
        BY <3>0, <4>1, <3>1, <1>4, <1>5
      <4>3. q[i + 1] = (Len(f) - 1) + (i + 1)
        BY <4>1, <1>1, <1>2 DEF Lined
      <4> QED BY <4>1, <4>2, <4>3, <1>1
    <3>2. CASE i > Len(t)
      <4>1. w # None /\ i = Len(t) + 1 /\ i - Len(t) = 1
        <5>1. w # None
          BY <3>0, <3>2, <1>3
        <5>2. Len(e) = 1
          BY <5>1, <1>3, Zenon
        <5>3. i = Len(t) + 1 /\ i - Len(t) = 1
          BY <5>2, <3>0, <3>2
        <5> QED BY <5>1, <5>3
      <4>2. z[i] = w
        BY <3>0, <4>1, <3>2, <1>3, <1>5
      <4>3. w = l.drawn /\ l.drawn = (Len(f) - 1) + Len(q) + 1
        BY <4>1, <1>1, <1>2 DEF Lined
      <4> QED BY <4>1, <4>2, <4>3, <1>1, <1>4
    <3> QED BY <3>0, <3>1, <3>2
  <2>2. l.drawn = (Len(f) - 1) + Len(q) + Extra("finish", w)
    BY <1>1, <1>2 DEF Lined
  <2>3. l.drawn = Len(f) + Len(z) + 0
    <3>1. CASE w = None
      BY <3>1, <2>2, <1>1, <1>2, <1>3, <1>4, <1>5
    <3>2. CASE w # None
      <4>1. Extra("finish", w) = 1 /\ Len(e) = 1
        BY <3>2, <1>2, <1>3, Zenon
      <4> QED BY <4>1, <2>2, <1>1, <1>4, <1>5
    <3> QED BY <3>1, <3>2
  <2>4. "call" # "finish"
    OBVIOUS
  <2> QED BY <2>1, <2>3, <2>4, <1>2 DEF Lined
<1>7. OfSlice(P, "call", s, l, z, f)
  <2>1. Upto(P, s) <= Len(f)
    BY <1>1, <1>2 DEF OfSlice
  <2> QED BY <2>1, <1>1, <1>2 DEF OfSlice
<1>8. RankOK(P, "call", s, l, z, None, f)
  BY <1>1, <1>2, <1>5, <1>6, <1>7 DEF RankOK, None
<1> QED BY <1>8 DEF z, t, e

-----------------------------------------------------------------------------
(* The actions.                                                            *)

\* Before, NextBatch and Draw in terms of the plan.
LEMMA BeforeIs ==
  ASSUME NEW k
  PROVE  Before(k) = Upto(plan, k) /\ Before(k + 1) = EndOf(plan, k)
BY DEF Before, Upto, EndOf

\* The loader of a rank after Draw.
LEMMA DrawIs ==
  ASSUME HostOK, NEW r \in Rank, Draw(r)
  PROVE  \E m : /\ loader' = [loader EXCEPT ![r] = m]
                /\ Drawn(plan, slice[r], loader[r], NextBatch(r), m)
<1> DEFINE m == [iter |-> slice[r], exhausted |-> NextBatch(r) = None,
                 drawn |-> IF NextBatch(r) = None THEN loader[r].drawn ELSE NextBatch(r)]
<1>1. loader' = [loader EXCEPT ![r] = m]
  BY DEF Draw, HostOK
<1>2. Before(slice[r] + 1) = EndOf(plan, slice[r])
  BY BeforeIs
<1>3. NextBatch(r) = IF \/ loader[r].exhausted /\ loader[r].iter = slice[r]
                        \/ loader[r].drawn >= EndOf(plan, slice[r])
                     THEN None ELSE loader[r].drawn + 1
  BY <1>2 DEF NextBatch
<1>4. Drawn(plan, slice[r], loader[r], NextBatch(r), m)
  BY <1>3 DEF Drawn
<1> QED BY <1>1, <1>4

\* The host thread of rank r gets the values p, s, l, q, w and f; nobody else moves.
StepTo(r, p, s, l, q, w, f) ==
    /\ plan' = plan
    /\ pc' = [pc EXCEPT ![r] = p] /\ slice' = [slice EXCEPT ![r] = s]
    /\ loader' = [loader EXCEPT ![r] = l] /\ slots' = [slots EXCEPT ![r] = q]
    /\ raw' = [raw EXCEPT ![r] = w] /\ forwards' = [forwards EXCEPT ![r] = f]

\* A step of one rank that leaves its values in order keeps HostOK.
LEMMA OneRank ==
  ASSUME HostOK, NEW r \in Rank, NEW p, NEW s, NEW l, NEW q, NEW w, NEW f,
         StepTo(r, p, s, l, q, w, f), RankOK(plan, p, s, l, q, w, f)
  PROVE  HostOK'
<1>1. p \in Points /\ s \in Nat /\ l \in Loader /\ q \in Seq(Nat) /\ w \in Nat /\ f \in Forwards
  BY DEF RankOK
<1>2. /\ pc \in [Rank -> Points] /\ slice \in [Rank -> Nat] /\ loader \in [Rank -> Loader]
      /\ slots \in [Rank -> Seq(Nat)] /\ raw \in [Rank -> Nat] /\ forwards \in [Rank -> Forwards]
  BY DEF HostOK
<1>0. /\ plan' = plan
      /\ pc' = [pc EXCEPT ![r] = p] /\ slice' = [slice EXCEPT ![r] = s]
      /\ loader' = [loader EXCEPT ![r] = l] /\ slots' = [slots EXCEPT ![r] = q]
      /\ raw' = [raw EXCEPT ![r] = w] /\ forwards' = [forwards EXCEPT ![r] = f]
  BY DEF StepTo
<1>3. /\ pc' \in [Rank -> Points] /\ slice' \in [Rank -> Nat] /\ loader' \in [Rank -> Loader]
  BY <1>0, <1>1, <1>2
<1>4. /\ slots' \in [Rank -> Seq(Nat)] /\ raw' \in [Rank -> Nat] /\ forwards' \in [Rank -> Forwards]
  BY <1>0, <1>1, <1>2
<1>5. ASSUME NEW t \in Rank
      PROVE  RankOK(plan', pc'[t], slice'[t], loader'[t], slots'[t], raw'[t], forwards'[t])
  <2>1. CASE t = r
    <3>1. /\ pc'[t] = p /\ slice'[t] = s /\ loader'[t] = l /\ slots'[t] = q
          /\ raw'[t] = w /\ forwards'[t] = f
      BY <1>0, <1>2, <2>1
    <3> QED BY <1>0, <3>1
  <2>2. CASE t # r
    <3>1. /\ pc'[t] = pc[t] /\ slice'[t] = slice[t] /\ loader'[t] = loader[t] /\ slots'[t] = slots[t]
          /\ raw'[t] = raw[t] /\ forwards'[t] = forwards[t]
      BY <1>0, <1>2, <2>2
    <3>2. RankOK(plan, pc[t], slice[t], loader[t], slots[t], raw[t], forwards[t])
      BY DEF HostOK
    <3> QED BY <1>0, <3>1, <3>2
  <2> QED BY <2>1, <2>2
<1>6. plan' \in Seq(Slices)
  BY <1>0 DEF HostOK
<1> QED BY <1>3, <1>4, <1>5, <1>6 DEF HostOK

\* A variable the rank leaves alone.
LEMMA LeftAlone ==
  ASSUME NEW X, NEW v \in [Rank -> X], NEW r \in Rank
  PROVE  v = [v EXCEPT ![r] = v[r]]
OBVIOUS

\* What HostOK says of one rank.
LEMMA AtRank ==
  ASSUME HostOK, NEW r \in Rank
  PROVE  /\ plan \in Seq(Slices)
         /\ RankOK(plan, pc[r], slice[r], loader[r], slots[r], raw[r], forwards[r])
         /\ pc[r] \in Points /\ slots[r] \in Seq(Nat) /\ Len(slots[r]) \in Nat
         /\ pc = [pc EXCEPT ![r] = pc[r]] /\ slice = [slice EXCEPT ![r] = slice[r]]
         /\ loader = [loader EXCEPT ![r] = loader[r]] /\ slots = [slots EXCEPT ![r] = slots[r]]
         /\ raw = [raw EXCEPT ![r] = raw[r]] /\ forwards = [forwards EXCEPT ![r] = forwards[r]]
<1>1. /\ plan \in Seq(Slices)
      /\ RankOK(plan, pc[r], slice[r], loader[r], slots[r], raw[r], forwards[r])
      /\ pc[r] \in Points /\ slots[r] \in Seq(Nat)
  BY DEF HostOK
<1>2. Len(slots[r]) \in Nat
  BY <1>1
<1>3. /\ pc \in [Rank -> Points] /\ slice \in [Rank -> Nat] /\ loader \in [Rank -> Loader]
      /\ slots \in [Rank -> Seq(Nat)] /\ raw \in [Rank -> Nat] /\ forwards \in [Rank -> Forwards]
  BY DEF HostOK
<1>4. /\ pc = [pc EXCEPT ![r] = pc[r]] /\ slice = [slice EXCEPT ![r] = slice[r]]
      /\ loader = [loader EXCEPT ![r] = loader[r]] /\ slots = [slots EXCEPT ![r] = slots[r]]
  BY <1>3, LeftAlone
<1>5. raw = [raw EXCEPT ![r] = raw[r]] /\ forwards = [forwards EXCEPT ![r] = forwards[r]]
  BY <1>3, LeftAlone
<1> QED BY <1>1, <1>2, <1>4, <1>5

\* FillFirst draws the first batch of the pipeline or goes on with the next slice.
LEMMA FillFirstOK ==
  ASSUME HostOK, NEW r \in Rank, FillFirst(r)
  PROVE  HostOK'
<1> DEFINE b == NextBatch(r)
<1>0. /\ pc[r] = "call" /\ slots[r] = <<>> /\ slice[r] <= Len(plan) /\ Draw(r)
      /\ plan' = plan /\ raw' = raw /\ forwards' = forwards
      /\ \/ b = None /\ slice' = [slice EXCEPT ![r] = @ + 1] /\ pc' = pc /\ slots' = slots
         \/ /\ b # None /\ slice' = slice /\ slots' = [slots EXCEPT ![r] = <<b>>]
            /\ pc' = [pc EXCEPT ![r] = "fill"]
  BY DEF FillFirst, jobVars
<1>1. PICK m : /\ loader' = [loader EXCEPT ![r] = m]
               /\ Drawn(plan, slice[r], loader[r], b, m)
  BY <1>0, DrawIs
<1> HIDE DEF b
<1>2. Len(slots[r]) = 0 /\ RankOK(plan, "call", slice[r], loader[r], slots[r], raw[r], forwards[r])
  BY <1>0, AtRank
<1>3. CASE b = None
  <2>1. RankOK(plan, "call", slice[r] + 1, m, slots[r], raw[r], forwards[r])
    BY <1>0, <1>1, <1>2, <1>3, AtRank, SliceEnds
  <2>2. /\ slice' = [slice EXCEPT ![r] = slice[r] + 1] /\ pc' = pc /\ slots' = slots
    BY <1>0, <1>3 DEF HostOK
  <2>3. StepTo(r, "call", slice[r] + 1, m, slots[r], raw[r], forwards[r])
    BY <1>0, <1>1, <2>2, AtRank DEF StepTo
  <2> QED BY <2>1, <2>3, OneRank
<1>4. CASE b # None
  <2>1. RankOK(plan, "fill", slice[r], m, <<b>>, raw[r], forwards[r])
    BY <1>0, <1>1, <1>2, <1>4, AtRank, FirstDrawn
  <2>2. slice' = slice /\ slots' = [slots EXCEPT ![r] = <<b>>] /\ pc' = [pc EXCEPT ![r] = "fill"]
    BY <1>0, <1>4
  <2>3. StepTo(r, "fill", slice[r], m, <<b>>, raw[r], forwards[r])
    BY <1>0, <1>1, <2>2, AtRank DEF StepTo
  <2> QED BY <2>1, <2>3, OneRank
<1> QED BY <1>3, <1>4

\* FillDist and WaitDist start and wait for the input dist.
LEMMA DistOK ==
  ASSUME HostOK, NEW r \in Rank, FillDist(r) \/ WaitDist(r)
  PROVE  HostOK'
<1>1. PICK t : /\ \/ pc[r] = "fill" /\ t = "filled"
                  \/ pc[r] = "dist" /\ t = "forward"
               /\ pc' = [pc EXCEPT ![r] = t]
  BY DEF FillDist, WaitDist
<1>2. /\ plan' = plan /\ slice' = slice /\ loader' = loader /\ slots' = slots /\ raw' = raw
      /\ forwards' = forwards
  BY DEF FillDist, WaitDist, jobVars
<1>3. RankOK(plan, t, slice[r], loader[r], slots[r], raw[r], forwards[r])
  BY <1>1, AtRank, Moved
<1>4. StepTo(r, t, slice[r], loader[r], slots[r], raw[r], forwards[r])
  BY <1>1, <1>2, AtRank DEF StepTo
<1> QED BY <1>3, <1>4, OneRank

\* FillSecond and Begin draw the next batch.
LEMMA DrawOK ==
  ASSUME HostOK, NEW r \in Rank, FillSecond(r) \/ Begin(r)
  PROVE  HostOK'
<1> DEFINE b == NextBatch(r)
<1>1. PICK t \in {"second", "dist"} : pc' = [pc EXCEPT ![r] = t]
  BY DEF FillSecond, Begin
<1>2. /\ Draw(r) /\ raw' = [raw EXCEPT ![r] = b]
      /\ plan' = plan /\ slice' = slice /\ slots' = slots /\ forwards' = forwards
  BY DEF FillSecond, Begin, jobVars
<1>3. /\ pc[r] \in {"filled", "begin", "call"}
      /\ pc[r] = "call" => slots[r] # <<>>
  BY DEF FillSecond, Begin
<1>4. PICK m : /\ loader' = [loader EXCEPT ![r] = m]
               /\ Drawn(plan, slice[r], loader[r], b, m)
  BY <1>2, DrawIs
<1> HIDE DEF b
<1>5. Len(slots[r]) >= 1
  <2>1. CASE pc[r] = "call"
    <3>1. slots[r] \in Seq(Nat) /\ Len(slots[r]) \in Nat /\ slots[r] # <<>>
      BY <2>1, <1>3, AtRank
    <3>2. Len(slots[r]) # 0
      BY <3>1, EmptySeq
    <3> QED BY <3>1, <3>2
  <2>2. CASE pc[r] # "call"
    BY <2>2, AtRank DEF RankOK, Lined
  <2> QED BY <2>1, <2>2
<1>6. RankOK(plan, t, slice[r], m, slots[r], b, forwards[r])
  BY <1>1, <1>3, <1>4, <1>5, AtRank, RawDrawn
<1>7. StepTo(r, t, slice[r], m, slots[r], b, forwards[r])
  BY <1>1, <1>2, <1>4, AtRank DEF StepTo, b
<1> QED BY <1>6, <1>7, OneRank

\* FillEnd puts the second batch in the pipeline.
LEMMA FillEndOK ==
  ASSUME HostOK, NEW r \in Rank, FillEnd(r)
  PROVE  HostOK'
<1> DEFINE z == IF raw[r] = None THEN slots[r] ELSE Append(slots[r], raw[r])
<1>1. /\ pc[r] = "second" /\ pc' = [pc EXCEPT ![r] = "begin"]
      /\ slots' = [slots EXCEPT ![r] = z]
      /\ plan' = plan /\ slice' = slice /\ loader' = loader /\ raw' = raw /\ forwards' = forwards
  BY DEF FillEnd, Queued, HostOK, jobVars
<1>2. RankOK(plan, "begin", slice[r], loader[r], z, raw[r], forwards[r])
  BY <1>1, AtRank, RawJoins
<1> HIDE DEF z
<1>3. StepTo(r, "begin", slice[r], loader[r], z, raw[r], forwards[r])
  BY <1>1, AtRank DEF StepTo
<1> QED BY <1>2, <1>3, OneRank

\* Forward gives the oldest batch to the model.
LEMMA ForwardOK ==
  ASSUME HostOK, NEW r \in Rank, Forward(r)
  PROVE  HostOK'
<1> DEFINE h == Append(forwards[r], <<slots[r][1], plan[slice[r]].mode>>)
<1>1. /\ pc[r] = "forward" /\ pc' = [pc EXCEPT ![r] = "finish"]
      /\ forwards' = [forwards EXCEPT ![r] = h]
      /\ plan' = plan /\ slice' = slice /\ loader' = loader /\ raw' = raw /\ slots' = slots
  BY DEF Forward, HostOK, jobVars
<1>2. RankOK(plan, "finish", slice[r], loader[r], slots[r], raw[r], h)
  BY <1>1, AtRank, Forwarded
<1> HIDE DEF h
<1>3. StepTo(r, "finish", slice[r], loader[r], slots[r], raw[r], h)
  BY <1>1, AtRank DEF StepTo
<1> QED BY <1>2, <1>3, OneRank

\* Finish takes it out of the pipeline.
LEMMA FinishOK ==
  ASSUME HostOK, NEW r \in Rank, Finish(r)
  PROVE  HostOK'
<1> DEFINE z == Tail(slots[r]) \o If(raw[r] # None, <<raw[r]>>)
<1>1. /\ pc[r] = "finish" /\ pc' = [pc EXCEPT ![r] = "call"]
      /\ slots' = [slots EXCEPT ![r] = z] /\ raw' = [raw EXCEPT ![r] = None]
      /\ plan' = plan /\ slice' = slice /\ loader' = loader /\ forwards' = forwards
  BY DEF Finish, jobVars
<1>2. RankOK(plan, "call", slice[r], loader[r], z, None, forwards[r])
  BY <1>1, AtRank, Finished
<1> HIDE DEF z
<1>3. StepTo(r, "call", slice[r], loader[r], z, None, forwards[r])
  BY <1>1, AtRank DEF StepTo
<1> QED BY <1>2, <1>3, OneRank

\* The host threads start in order.
LEMMA HostInit ==
  ASSUME Init PROVE HostOK
<1>1. plan \in Seq(Slices)
  BY TrainAssumption DEF Init, Slices
<1>2. [iter |-> 0, exhausted |-> FALSE, drawn |-> 0] \in Loader
  BY DEF Loader
<1> DEFINE l0 == [iter |-> 0, exhausted |-> FALSE, drawn |-> 0]
<1>3. l0.iter = 0 /\ l0.drawn = 0 /\ l0.exhausted = FALSE
  OBVIOUS
<1>4. <<>> \in Seq(Nat) /\ <<>> \in Forwards /\ Len(<<>>) = 0
  BY DEF Forwards
<1>5. Lined("call", l0, <<>>, None, <<>>)
  BY <1>3, <1>4 DEF Lined, DoneWith, RawCounts, Extra
<1>6. 1 \in 1..(Len(plan) + 1) /\ Upto(plan, 1) = 0 /\ (1 <= Len(plan) => 0 <= EndOf(plan, 1))
  <2>1. Len(plan) \in Nat /\ 1 \in 1..(Len(plan) + 1) /\ (1 <= Len(plan) => 1 \in 1..Len(plan))
    BY <1>1
  <2>2. \A k : k \in 1..Len(plan) => EndOf(plan, k) \in Nat
    BY <1>1, SlicesFollow
  <2>3. Upto(plan, 1) = 0
    BY <1>1, SlicesFollow
  <2> QED BY <2>1, <2>2, <2>3
<1>7. OfSlice(plan, "call", 1, l0, <<>>, <<>>)
  BY <1>3, <1>4, <1>6 DEF OfSlice, DoneWith
<1>8. InLoop(plan, <<>>)
  BY <1>4 DEF InLoop
<1>9. RankOK(plan, "call", 1, l0, <<>>, None, <<>>)
  BY <1>2, <1>4, <1>5, <1>7, <1>8 DEF RankOK, Points, None
<1>10. /\ pc = [r \in Rank |-> "call"] /\ slice = [r \in Rank |-> 1] /\ loader = [r \in Rank |-> l0]
       /\ slots = [r \in Rank |-> <<>>] /\ raw = [r \in Rank |-> None] /\ forwards = [r \in Rank |-> <<>>]
  BY DEF Init
<1> HIDE DEF l0
<1>11. \A r \in Rank : RankOK(plan, pc[r], slice[r], loader[r], slots[r], raw[r], forwards[r])
  BY <1>9, <1>10
<1>12. /\ pc \in [Rank -> Points] /\ slice \in [Rank -> Nat] /\ loader \in [Rank -> Loader]
  <2>1. "call" \in Points /\ 1 \in Nat /\ l0 \in Loader
    BY <1>2 DEF Points, l0
  <2> QED BY <1>10, <2>1
<1>13. /\ slots \in [Rank -> Seq(Nat)] /\ raw \in [Rank -> Nat] /\ forwards \in [Rank -> Forwards]
  <2>1. None \in Nat
    BY DEF None
  <2> QED BY <1>4, <1>10, <2>1
<1> QED BY <1>1, <1>11, <1>12, <1>13 DEF HostOK

\* Every step keeps HostOK: the KK thread and the devices leave the host alone.
LEMMA HostStep ==
  ASSUME HostOK, [Next]_trainVars PROVE HostOK'
<1>1. CASE UNCHANGED <<plan, hostVars>>
  BY <1>1 DEF HostOK, hostVars
<1>2. ASSUME NEW r \in Rank, Host(r) PROVE HostOK'
  BY <1>2, FillFirstOK, DistOK, DrawOK, FillEndOK, ForwardOK, FinishOK DEF Host
<1>3. ASSUME NEW r \in Rank, RunKK(r) \/ \E s \in Stream : Run(r, s) PROVE UNCHANGED <<plan, hostVars>>
  BY <1>3 DEF RunKK, Run, jobVars
<1>4. ASSUME NEW c, NEW at, Collective(c, at) PROVE UNCHANGED <<plan, hostVars>>
  BY <1>4 DEF Collective, jobVars
<1>5. CASE UNCHANGED trainVars
  BY <1>1, <1>5 DEF trainVars, jobVars
<1>6. CASE Next
  BY <1>1, <1>2, <1>3, <1>4, <1>6 DEF Next
<1> QED BY <1>5, <1>6

\* fill_pipeline, progress and _next_batch (train_pipeline.py): on every rank,
\* whatever the pipeline, the shuffler, the plan and the speed of the streams,
\* the slots hold the batches that follow those given to the model.
THEOREM BatchesLinedUp == Spec => []HostOK
<1>1. Init => HostOK
  BY HostInit
<1>2. HostOK /\ [Next]_trainVars => HostOK'
  BY HostStep
<1> QED BY <1>1, <1>2, PTL DEF Spec

\* training.py: every batch goes through the model once, in the loader's order,
\* in the training or evaluation loop it was loaded for; nothing is left in the
\* pipeline when the trainer goes on with its next slice.
THEOREM EveryBatchOnce == Spec => []BatchesInOrder
<1>1. HostOK => BatchesInOrder
  <2> SUFFICES ASSUME HostOK, NEW r \in Rank
               PROVE  /\ \A i \in DOMAIN forwards[r] : \E k \in DOMAIN plan :
                            /\ i > Before(k) /\ i <= Before(k + 1)
                            /\ forwards[r][i] = <<i, plan[k].mode>>
                      /\ Len(forwards[r]) >= Before(slice[r])
    BY DEF BatchesInOrder
  <2> DEFINE f == forwards[r]
  <2>1. RankOK(plan, pc[r], slice[r], loader[r], slots[r], raw[r], f)
    BY AtRank
  <2>2. DOMAIN f = 1..Len(f) /\ DOMAIN plan = 1..Len(plan)
    <3>1. f \in Forwards /\ plan \in Seq(Slices)
      BY <2>1, AtRank DEF RankOK
    <3> QED BY <3>1 DEF Forwards
  <2>3. \A i \in 1..Len(f) : \E k \in 1..Len(plan) :
           /\ i > Upto(plan, k) /\ i <= EndOf(plan, k)
           /\ f[i] = <<i, plan[k].mode>>
    BY <2>1 DEF RankOK, InLoop
  <2>4. \A k : Before(k) = Upto(plan, k) /\ Before(k + 1) = EndOf(plan, k)
    BY BeforeIs
  <2>5. Upto(plan, slice[r]) <= Len(f)
    <3>1. Upto(plan, slice[r]) <= DoneWith(pc[r], f)
      BY <2>1 DEF RankOK, OfSlice
    <3>2. Len(f) \in Nat /\ Upto(plan, slice[r]) \in Nat
      BY <2>1, RankFacts, AtRank
    <3> QED BY <3>1, <3>2 DEF DoneWith
  <2>6. Len(f) >= Before(slice[r])
    <3>1. Len(f) \in Nat /\ Upto(plan, slice[r]) \in Nat
      BY <2>1, RankFacts, AtRank
    <3> QED BY <3>1, <2>4, <2>5
  <2> HIDE DEF f
  <2>7. \A i \in DOMAIN f : \E k \in DOMAIN plan :
           /\ i > Before(k) /\ i <= Before(k + 1)
           /\ f[i] = <<i, plan[k].mode>>
    BY <2>2, <2>3, <2>4
  <2> QED BY <2>6, <2>7 DEF f
<1> QED BY <1>1, BatchesLinedUp, PTL

-----------------------------------------------------------------------------
(* The streams of a rank, in a job of pipeline K and shuffler B: d is what  *)
(* is launched on its device, R what has been computed.                     *)

Ops == {"copy", "workloads", "shuffle", "splits", "tensors", "rows", "tokens", "forward", "wait",
        "backward", "grads"}
Code == [stream : Stream, op : Ops, batch : Nat, data : Nat, after : SUBSET Stream]
Items == [stream : Stream, op : Ops, batch : Nat, data : Nat, after : SUBSET (Stream \X Nat)]
Devices == [queue : [Stream -> Seq(Items)], count : [Stream -> Nat],
            issued : [Communicator -> Seq(Ops \X Nat)]]

Result(w) == <<w.op, w.batch>>

\* The batch as it is trained on.
Whole(B, b) == IF B = "balanced" THEN <<"shuffle", b>> ELSE <<"copy", b>>

\* What the model is fed with.
Input(K, b) == IF K = "prefetch" THEN <<"rows", b>> ELSE <<"tensors", b>>

\* What w has to wait for: all it reads, but for a forward pass, that reads the
\* batch its input was made from.
Anchors(K, B, w) ==
    CASE w.op = "workloads" -> {<<"copy", w.batch>>}
      [] w.op = "shuffle"   -> {<<"workloads", w.batch>>, <<"copy", w.batch>>}
      [] w.op \in {"splits", "tokens"} -> {Whole(B, w.batch)}
      [] w.op = "tensors"   -> {<<"splits", w.batch>>}
      [] w.op = "rows"      -> {<<"tensors", w.batch>>}
      [] w.op = "forward"   -> {Input(K, w.batch)}
      [] w.op = "backward"  -> {<<"forward", w.batch>>, <<"tokens", w.batch>>}
      [] w.op = "grads"     -> {<<"backward", w.batch>>}
      [] OTHER -> {}

\* How much of stream s has run.
RunOn(d, s) == d.count[s] - Len(d.queue[s])

\* x is computed, or is among the first n launches of stream s.
Due(d, R, s, n, x) ==
    \/ x \in R
    \/ \E i \in 1..Len(d.queue[s]) : Result(d.queue[s][i]) = x /\ RunOn(d, s) + i <= n

\* x is computed or launched on stream s.
Has(d, R, s, x) == Due(d, R, s, d.count[s], x)

\* Work w at place n of stream s is behind all it waits for.
Behind(K, B, d, R, s, n, w) ==
    /\ w.data = w.batch
    /\ \A x \in Anchors(K, B, w) : \E y \in w.after \cup {<<s, n - 1>>} : Due(d, R, y[1], y[2], x)

DeviceOK(K, B, d, R) ==
    /\ d \in Devices
    /\ \A s \in Stream : Len(d.queue[s]) <= d.count[s]
    /\ \A s \in Stream : \A i \in 1..Len(d.queue[s]) : Behind(K, B, d, R, s, RunOn(d, s) + i, d.queue[s][i])

\* Rows come from tensors, tensors from splits, and splits from the batch as it is trained on.
RanOK(B, R) ==
    \A b \in Nat : /\ <<"rows", b>> \in R => <<"tensors", b>> \in R
                   /\ <<"tensors", b>> \in R => <<"splits", b>> \in R
                   /\ <<"splits", b>> \in R => Whole(B, b) \in R
-----------------------------------------------------------------------------
(* The host thread and what it has launched: p, s, l, q, w, cs, k and t are *)
(* the rank's pc, slice, loader, slots, raw, contexts, kk and Training.     *)

Contexts == [splits : Nat, next : Nat, tensors : Nat, module : Nat, post : Nat \X Nat]

\* The model can run on batch b with the context c.
Fed(K, c, b, d, R) ==
    IF K = "prefetch" THEN c.post = <<b, b>> /\ Has(d, R, "prefetch", <<"rows", b>>)
    ELSE c.tensors = b /\ Has(d, R, "dist", <<"tensors", b>>)

\* The input dist of batch b has started, with the context c.
DistStarted(c, b, d, R) == c.splits = b /\ c.next = b /\ Has(d, R, "dist", <<"splits", b>>)

\* It has been waited for.
DistWaited(c, b, d, R) ==
    /\ c.tensors = b /\ c.module = b
    /\ Has(d, R, "dist", <<"tensors", b>>) /\ <<"splits", b>> \in R

\* Points where batch i is in the pipeline and its splits are there.
Filled(p, q) == p \in {"second", "begin", "dist", "forward", "finish"} \/ (p = "call" /\ Len(q) >= 1)

\* raw_batch on its way into the pipeline.
RawOK(B, p, w, d, R) ==
    w # None =>
        /\ p \in {"second", "dist", "forward", "finish"} => Has(d, R, "memcpy", <<"copy", w>>)
        /\ p \in {"second", "forward", "finish"} /\ B = "balanced" =>
              Has(d, R, "memcpy", <<"workloads", w>>)

\* The pipeline is short of a batch only where the slice has no more.
ShortOK(p, s, l, q, w) ==
    /\ Len(q) <= 2
    /\ p \in {"fill", "filled", "second"} => Len(q) = 1
    /\ p \in {"second", "dist", "forward", "finish"} /\ w = None => l.exhausted /\ l.iter = s
    /\ Filled(p, q) /\ p # "second" /\ Len(q) = 1 => l.exhausted /\ l.iter = s
    /\ p \in {"dist", "forward", "finish"} /\ Len(q) = 1 => w = None

\* Batch i.
FirstOK(K, B, p, q, cs, d, R, t) ==
    /\ p = "fill" => /\ Has(d, R, "memcpy", <<"copy", q[1]>>)
                     /\ B = "balanced" => Has(d, R, "memcpy", <<"workloads", q[1]>>)
    /\ p = "filled" => DistStarted(cs[1], q[1], d, R)
    /\ Filled(p, q) => <<"splits", q[1]>> \in R
    /\ Filled(p, q) /\ p # "finish" => Fed(K, cs[1], q[1], d, R)
    /\ p \in {"dist", "forward", "finish"} /\ t => Has(d, R, "default", <<"tokens", q[1]>>)
    /\ p = "finish" => Has(d, R, "default", <<"forward", q[1]>>)

\* Batch i + 1, in the one context of "prefetch" ...
SecondPrefetch(p, q, cs, d, R) ==
    /\ Len(cs) = 1
    /\ Filled(p, q) => DistStarted(cs[1], q[Len(q)], d, R)
    /\ p \in {"forward", "finish"} => DistWaited(cs[1], q[Len(q)], d, R)

\* ... and in its own context of "native".
SecondNative(B, p, q, cs, d, R) ==
    /\ Len(q) >= 1 => Len(cs) = Len(q)
    /\ Len(q) = 2 /\ p \in {"begin", "call"} =>
          cs[2] = NewContext /\ Has(d, R, "memcpy", Whole(B, q[2]))
    /\ Len(q) = 2 /\ p = "dist" => DistStarted(cs[2], q[2], d, R)
    /\ Len(q) = 2 /\ p \in {"forward", "finish"} => DistWaited(cs[2], q[2], d, R)

\* The KK thread is handed workloads the host has read.
TasksRead(k, R) == \A i \in 1..Len(k) : <<"workloads", k[i]>> \in R

\* What the host thread relies on.
Relied(K, B, p, q, w, cs, d, R, t) ==
    /\ cs \in Seq(Contexts)
    /\ RawOK(B, p, w, d, R)
    /\ FirstOK(K, B, p, q, cs, d, R, t)
    /\ K = "prefetch" => SecondPrefetch(p, q, cs, d, R)
    /\ K # "prefetch" => SecondNative(B, p, q, cs, d, R)

StreamsOK(K, B, p, s, l, q, w, cs, k, d, R, t) ==
    /\ DeviceOK(K, B, d, R) /\ RanOK(B, R)
    /\ k \in Seq(Nat) /\ TasksRead(k, R)
    /\ ShortOK(p, s, l, q, w)
    /\ Relied(K, B, p, q, w, cs, d, R, t)

RunsOK ==
    /\ contexts = [r \in Rank |-> contexts[r]] /\ device = [r \in Rank |-> device[r]]
    /\ kk = [r \in Rank |-> kk[r]] /\ ran = [r \in Rank |-> ran[r]] /\ stale = [r \in Rank |-> stale[r]]
    /\ \A r \in Rank :
          /\ stale[r] = {}
          /\ StreamsOK(kind, shuffler, pc[r], slice[r], loader[r], slots[r], raw[r], contexts[r], kk[r],
                       device[r], ran[r], Training(r))
-----------------------------------------------------------------------------
(* Launching.                                                              *)

\* The launch w as it waits on its stream.
Placed(d, w) == [w EXCEPT !.after = {<<s, d.count[s]>> : s \in @}]

\* It waits there for the streams it names, as they are now.
LEMMA PlacedIs ==
  ASSUME NEW d \in Devices, NEW w \in Code
  PROVE  /\ Placed(d, w) \in Items
         /\ Placed(d, w).op = w.op /\ Placed(d, w).batch = w.batch /\ Placed(d, w).data = w.data
         /\ Placed(d, w).after = {<<s, d.count[s]>> : s \in w.after}
<1> DEFINE a == {<<s, d.count[s]>> : s \in w.after}
<1>1. /\ w.stream \in Stream /\ w.op \in Ops /\ w.batch \in Nat /\ w.data \in Nat
      /\ w.after \subseteq Stream
  BY DEF Code
<1>2. \A s \in Stream : d.count[s] \in Nat
  BY DEF Devices
<1>3. a \in SUBSET (Stream \X Nat)
  BY <1>1, <1>2
<1> HIDE DEF a
<1>4. Placed(d, w) = [stream |-> w.stream, op |-> w.op, batch |-> w.batch, data |-> w.data, after |-> a]
  <2>1. w = [stream |-> w.stream, op |-> w.op, batch |-> w.batch, data |-> w.data, after |-> w.after]
    BY DEF Code
  <2>2. Placed(d, w) = [w EXCEPT !.after = a]
    <3>1. "after" \in DOMAIN w
      BY <2>1
    <3> QED BY <3>1 DEF Placed, a
  <2> QED BY <2>1, <2>2
<1> QED BY <1>1, <1>3, <1>4 DEF Items, a

\* One more launch on the stream; nothing else moves.
LEMMA IssueIs ==
  ASSUME NEW d \in Devices, NEW w \in Code
  PROVE  LET e == Issue(d, w)
         IN  /\ e \in Devices
             /\ \A s \in Stream : s # w.stream => e.queue[s] = d.queue[s] /\ e.count[s] = d.count[s]
             /\ e.queue[w.stream] = Append(d.queue[w.stream], Placed(d, w))
             /\ e.count[w.stream] = d.count[w.stream] + 1
<1> DEFINE e == Issue(d, w)
           Q == [d.queue EXCEPT ![w.stream] = Append(@, Placed(d, w))]
           C == [d.count EXCEPT ![w.stream] = @ + 1]
           I == [c \in Communicator |-> d.issued[c] \o If(c \in CommunicatorOf(w.op), <<<<w.op, w.batch>>>>)]
<1>1. /\ d.queue \in [Stream -> Seq(Items)] /\ d.count \in [Stream -> Nat]
      /\ d.issued \in [Communicator -> Seq(Ops \X Nat)] /\ w.stream \in Stream /\ w.op \in Ops /\ w.batch \in Nat
  BY DEF Devices, Code
<1>2. Placed(d, w) \in Items
  BY PlacedIs
<1>3. e.queue = Q /\ e.count = C /\ e.issued = I
      /\ e = [queue |-> Q, count |-> C, issued |-> I]
  BY DEF Issue, Placed
<1>4. Q \in [Stream -> Seq(Items)]
  BY <1>1, <1>2
<1>5. C \in [Stream -> Nat]
  BY <1>1
<1>6. I \in [Communicator -> Seq(Ops \X Nat)]
  <2>1. ASSUME NEW c \in Communicator PROVE I[c] \in Seq(Ops \X Nat)
    <3>1. <<<<w.op, w.batch>>>> \in Seq(Ops \X Nat) /\ <<>> \in Seq(Ops \X Nat)
      BY <1>1
    <3>2. If(c \in CommunicatorOf(w.op), <<<<w.op, w.batch>>>>) \in Seq(Ops \X Nat)
      BY <3>1 DEF If
    <3>3. d.issued[c] \in Seq(Ops \X Nat)
      BY <1>1
    <3> QED BY <3>2, <3>3
  <2> QED BY <2>1
<1>7. /\ \A s \in Stream : s # w.stream => Q[s] = d.queue[s] /\ C[s] = d.count[s]
      /\ Q[w.stream] = Append(d.queue[w.stream], Placed(d, w))
      /\ C[w.stream] = d.count[w.stream] + 1
  BY <1>1
<1> HIDE DEF Q, C, I
<1>8. e \in Devices
  BY <1>3, <1>4, <1>5, <1>6 DEF Devices
<1> HIDE DEF e
<1> QED BY <1>3, <1>7, <1>8 DEF e

\* The length of what waits on a stream, and how much of it has run.
LEMMA DeviceFacts ==
  ASSUME NEW d \in Devices, NEW s \in Stream
  PROVE  /\ d.queue[s] \in Seq(Items) /\ Len(d.queue[s]) \in Nat /\ d.count[s] \in Nat
         /\ RunOn(d, s) \in Int /\ \A i \in 1..Len(d.queue[s]) : d.queue[s][i] \in Items
<1>1. d.queue[s] \in Seq(Items) /\ d.count[s] \in Nat
  BY DEF Devices
<1>2. Len(d.queue[s]) \in Nat /\ \A i \in 1..Len(d.queue[s]) : d.queue[s][i] \in Items
  BY <1>1
<1> QED BY <1>1, <1>2 DEF RunOn

\* A launch, by stream: how the lengths and the elements change.
LEMMA IssuePlaces ==
  ASSUME NEW d \in Devices, NEW w \in Code, NEW s \in Stream
  PROVE  LET e == Issue(d, w)
         IN  /\ RunOn(e, s) = RunOn(d, s)
             /\ Len(d.queue[s]) \in Nat /\ Len(e.queue[s]) \in Nat
             /\ d.count[s] <= e.count[s]
             /\ \A i \in 1..Len(d.queue[s]) : i \in 1..Len(e.queue[s]) /\ e.queue[s][i] = d.queue[s][i]
             /\ \A i \in 1..Len(e.queue[s]) :
                   \/ i \in 1..Len(d.queue[s])
                   \/ s = w.stream /\ e.queue[s][i] = Placed(d, w) /\ i = Len(d.queue[s]) + 1
             /\ s = w.stream => /\ Len(e.queue[s]) = Len(d.queue[s]) + 1
                                /\ e.queue[s][Len(e.queue[s])] = Placed(d, w)
                                /\ e.count[s] = d.count[s] + 1
<1> DEFINE e == Issue(d, w)
           q == d.queue[s]
           x == Placed(d, w)
           z == e.queue[s]
<1>1. q \in Seq(Items) /\ Len(q) \in Nat /\ d.count[s] \in Nat /\ x \in Items
  BY DeviceFacts, PlacedIs
<1>2. /\ s # w.stream => z = q /\ e.count[s] = d.count[s]
      /\ s = w.stream => z = Append(q, x) /\ e.count[s] = d.count[s] + 1
  BY IssueIs
<1>3. RunOn(e, s) = e.count[s] - Len(z) /\ RunOn(d, s) = d.count[s] - Len(q)
  BY DEF RunOn
<1> HIDE DEF e, q, x, z
<1>4. CASE s # w.stream
  <2>1. z = q /\ e.count[s] = d.count[s]
    BY <1>2, <1>4
  <2> QED BY <1>1, <1>3, <1>4, <2>1 DEF e, q, x, z
<1>5. CASE s = w.stream
  <2>1. z = Append(q, x) /\ e.count[s] = d.count[s] + 1
    BY <1>2, <1>5
  <2>2. Len(z) = Len(q) + 1 /\ z[Len(q) + 1] = x /\ \A i \in 1..Len(q) : z[i] = q[i]
    BY <1>1, <2>1
  <2>3. Len(z) \in Nat /\ d.count[s] <= e.count[s] /\ RunOn(e, s) = RunOn(d, s)
    <3>1. Len(z) \in Nat /\ d.count[s] <= e.count[s]
      BY <1>1, <2>1, <2>2
    <3>2. e.count[s] - Len(z) = d.count[s] - Len(q)
      BY ONLY <1>1, <2>1, <2>2
    <3> QED BY <1>3, <3>1, <3>2
  <2>4. \A i \in 1..Len(z) : i \in 1..Len(q) \/ i = Len(q) + 1
    BY <1>1, <2>2
  <2>5. \A i \in 1..Len(q) : i \in 1..Len(z)
    BY <1>1, <2>2
  <2> QED BY <1>1, <1>5, <2>1, <2>2, <2>3, <2>4, <2>5 DEF e, q, x, z
<1> QED BY <1>4, <1>5

\* What was due stays due.
LEMMA DueStays ==
  ASSUME NEW d \in Devices, NEW w \in Code, NEW R, NEW s \in Stream, NEW n, NEW x, Due(d, R, s, n, x)
  PROVE  Due(Issue(d, w), R, s, n, x)
<1>1. CASE x \in R
  BY <1>1 DEF Due
<1>2. CASE x \notin R
  <2>1. PICK i \in 1..Len(d.queue[s]) : Result(d.queue[s][i]) = x /\ RunOn(d, s) + i <= n
    BY <1>2 DEF Due
  <2> DEFINE e == Issue(d, w)
  <2>2. i \in 1..Len(e.queue[s]) /\ e.queue[s][i] = d.queue[s][i] /\ RunOn(e, s) = RunOn(d, s)
    BY IssuePlaces
  <2> HIDE DEF e
  <2>3. Due(e, R, s, n, x)
    BY <2>1, <2>2 DEF Due
  <2> QED BY <2>3 DEF e
<1> QED BY <1>1, <1>2

\* More of a stream is waited for.
LEMMA DueLater ==
  ASSUME NEW d \in Devices, NEW R, NEW s \in Stream, NEW n \in Int, NEW m \in Int, n <= m, NEW x, Due(d, R, s, n, x)
  PROVE  Due(d, R, s, m, x)
<1>1. RunOn(d, s) \in Int /\ Len(d.queue[s]) \in Nat
  BY DeviceFacts
<1>2. CASE x \in R
  BY <1>2 DEF Due
<1>3. CASE x \notin R
  <2>1. PICK i \in 1..Len(d.queue[s]) : Result(d.queue[s][i]) = x /\ RunOn(d, s) + i <= n
    BY <1>3 DEF Due
  <2>2. RunOn(d, s) + i <= m
    BY <1>1, <2>1
  <2> QED BY <2>1, <2>2 DEF Due
<1> QED BY <1>2, <1>3

\* Results stay on their streams, and the launch adds its own.
LEMMA IssueHas ==
  ASSUME NEW d \in Devices, NEW w \in Code, NEW R
  PROVE  /\ Has(Issue(d, w), R, w.stream, Result(w))
         /\ \A s \in Stream : \A x : Has(d, R, s, x) => Has(Issue(d, w), R, s, x)
<1> DEFINE e == Issue(d, w)
<1>0. e \in Devices /\ w.stream \in Stream
  BY IssueIs DEF Code
<1>1. ASSUME NEW s \in Stream, NEW x, Has(d, R, s, x) PROVE Has(e, R, s, x)
  <2>1. Due(e, R, s, d.count[s], x)
    BY <1>1, DueStays DEF Has
  <2>2. d.count[s] \in Nat /\ e.count[s] \in Nat /\ d.count[s] <= e.count[s]
    BY <1>0, DeviceFacts, IssuePlaces
  <2> HIDE DEF e
  <2>3. Due(e, R, s, e.count[s], x)
    BY <1>0, <2>1, <2>2, DueLater
  <2> QED BY <2>3 DEF Has
<1>2. Has(e, R, w.stream, Result(w))
  <2> DEFINE s == w.stream
             n == Len(e.queue[s])
  <2>1. n = Len(d.queue[s]) + 1 /\ e.queue[s][n] = Placed(d, w) /\ Len(d.queue[s]) \in Nat
    BY <1>0, IssuePlaces
  <2>2. Result(Placed(d, w)) = Result(w)
    BY PlacedIs DEF Result
  <2>3. e.count[s] \in Nat
    BY <1>0, DeviceFacts
  <2>4. RunOn(e, s) + n <= e.count[s] /\ n \in 1..n
    BY <2>1, <2>3 DEF RunOn
  <2> HIDE DEF e, s
  <2> QED BY <2>1, <2>2, <2>4 DEF Has, Due, s
<1> QED BY <1>1, <1>2

\* Work stays behind what it waits for, when more is launched.
LEMMA BehindStays ==
  ASSUME NEW K, NEW B, NEW d \in Devices, NEW w \in Code, NEW R, NEW s \in Stream, NEW n \in Int, NEW v \in Items,
         Behind(K, B, d, R, s, n, v)
  PROVE  Behind(K, B, Issue(d, w), R, s, n, v)
<1> DEFINE e == Issue(d, w)
<1>1. ASSUME NEW x \in Anchors(K, B, v)
      PROVE  \E y \in v.after \cup {<<s, n - 1>>} : Due(e, R, y[1], y[2], x)
  <2>1. PICK y \in v.after \cup {<<s, n - 1>>} : Due(d, R, y[1], y[2], x)
    BY DEF Behind
  <2>2. y[1] \in Stream
    BY DEF Items
  <2>3. Due(e, R, y[1], y[2], x)
    BY <2>1, <2>2, DueStays
  <2> QED BY <2>3
<1> HIDE DEF e
<1>2. Behind(K, B, e, R, s, n, v)
  BY <1>1 DEF Behind
<1> QED BY <1>2 DEF e

\* A launch that waits for the streams of what it needs.
LEMMA IssueOK ==
  ASSUME NEW K, NEW B, NEW d, NEW R, NEW w \in Code, DeviceOK(K, B, d, R), w.data = w.batch,
         \A x \in Anchors(K, B, w) : \E s \in w.after \cup {w.stream} : Has(d, R, s, x)
  PROVE  DeviceOK(K, B, Issue(d, w), R)
<1> DEFINE e == Issue(d, w)
           v == Placed(d, w)
<1>0. d \in Devices /\ e \in Devices
  BY IssueIs DEF DeviceOK
<1>1. ASSUME NEW s \in Stream PROVE Len(e.queue[s]) <= e.count[s]
  <2>1. RunOn(e, s) = RunOn(d, s) /\ Len(d.queue[s]) <= d.count[s]
    BY <1>0, IssuePlaces DEF DeviceOK
  <2>2. /\ Len(d.queue[s]) \in Nat /\ Len(e.queue[s]) \in Nat /\ d.count[s] \in Nat /\ e.count[s] \in Nat
    BY <1>0, DeviceFacts
  <2> HIDE DEF e
  <2> QED BY <2>1, <2>2 DEF RunOn
<1>2. ASSUME NEW s \in Stream, NEW i \in 1..Len(e.queue[s])
      PROVE  Behind(K, B, e, R, s, RunOn(e, s) + i, e.queue[s][i])
  <2>1. /\ RunOn(e, s) = RunOn(d, s)
        /\ \/ i \in 1..Len(d.queue[s]) /\ e.queue[s][i] = d.queue[s][i]
           \/ s = w.stream /\ e.queue[s][i] = v /\ i = Len(d.queue[s]) + 1
    BY <1>0, IssuePlaces
  <2>2. /\ RunOn(d, s) \in Int /\ Len(d.queue[s]) \in Nat /\ d.count[s] \in Nat
        /\ \A j \in 1..Len(d.queue[s]) : d.queue[s][j] \in Items
    BY <1>0, DeviceFacts
  <2>3. CASE i \in 1..Len(d.queue[s]) /\ e.queue[s][i] = d.queue[s][i]
    <3>1. Behind(K, B, d, R, s, RunOn(d, s) + i, d.queue[s][i])
      BY <2>3 DEF DeviceOK
    <3>2. RunOn(d, s) + i \in Int
      BY <2>2, <2>3
    <3>3. d.queue[s][i] \in Items
      BY <2>2, <2>3
    <3>4. Behind(K, B, e, R, s, RunOn(d, s) + i, d.queue[s][i])
      BY <1>0, <3>1, <3>2, <3>3, BehindStays
    <3> HIDE DEF e
    <3> QED BY <3>4, <2>1, <2>3
  <2>4. CASE s = w.stream /\ e.queue[s][i] = v /\ i = Len(d.queue[s]) + 1
    <3>1. /\ v.op = w.op /\ v.batch = w.batch /\ v.data = w.data
          /\ v.after = {<<z, d.count[z]>> : z \in w.after}
      BY <1>0, PlacedIs
    <3>2. Anchors(K, B, v) = Anchors(K, B, w)
      BY <3>1 DEF Anchors
    <3>3. (RunOn(e, s) + i) - 1 = d.count[s]
      <4>1. RunOn(d, s) = d.count[s] - Len(d.queue[s])
        BY DEF RunOn
      <4>2. RunOn(e, s) = d.count[s] - Len(d.queue[s]) /\ i = Len(d.queue[s]) + 1
        BY <4>1, <2>1, <2>4
      <4> HIDE DEF e
      <4> QED BY ONLY <4>2, <2>2
    <3>4. ASSUME NEW x \in Anchors(K, B, w)
          PROVE  \E y \in v.after \cup {<<s, d.count[s]>>} : Due(e, R, y[1], y[2], x)
      <4>1. PICK z \in w.after \cup {w.stream} : Has(d, R, z, x)
        OBVIOUS
      <4>2. z \in Stream
        BY DEF Code
      <4>3. Due(e, R, z, d.count[z], x)
        BY <1>0, <4>1, <4>2, DueStays DEF Has
      <4>4. <<z, d.count[z]>> \in v.after \cup {<<s, d.count[s]>>}
        <5> HIDE DEF v
        <5> QED BY <2>4, <3>1
      <4> HIDE DEF e, v
      <4> QED BY <4>3, <4>4
    <3> HIDE DEF e, v
    <3>5. Behind(K, B, e, R, s, RunOn(e, s) + i, v)
      BY <3>1, <3>2, <3>3, <3>4 DEF Behind
    <3> QED BY <2>4, <3>5
  <2> QED BY <2>1, <2>3, <2>4
<1> HIDE DEF e
<1>3. DeviceOK(K, B, e, R)
  BY <1>0, <1>1, <1>2 DEF DeviceOK
<1> QED BY <1>3 DEF e

\* What Enqueue does: nothing for no code, and one launch for each.
LEMMA EnqueueSteps ==
  ASSUME NEW d \in Devices, NEW a \in Seq(Code)
  PROVE  \E f \in [0..Len(a) -> Devices] :
            /\ f[0] = d /\ \A i \in 1..Len(a) : f[i] = Issue(f[i - 1], a[i])
            /\ Enqueue(d, a) = f[Len(a)]
<1> DEFINE n == Len(a)
           g == [i \in 1..n |-> [z \in Devices |-> Issue(z, a[i])]]
           D(h) == [i \in 0..n |-> IF i = 0 THEN d ELSE Issue(h[i - 1], a[i])]
           u == CHOOSE h : h = D(h)
<1>1. n \in Nat /\ \A i \in 1..n : a[i] \in Code
  OBVIOUS
<1>2. \A i \in 1..n : g[i] \in [Devices -> Devices]
  BY <1>1, IssueIs
<1>3. PICK f : f \in [0..n -> Devices] /\ Iterates(f, g, d, n)
  <2> HIDE DEF g, n
  <2> QED BY <1>1, <1>2, Recursion
<1>4. f[0] = d
  BY <1>3 DEF Iterates
<1>5. ASSUME NEW i \in 1..n PROVE f[i] = Issue(f[i-1], a[i])
  <2>1. f[i-1] \in Devices
    <3>1. i - 1 \in 0..n
      BY <1>1
    <3> HIDE DEF n
    <3> QED BY <3>1, <1>3
  <2>2. g[i] = [z \in Devices |-> Issue(z, a[i])]
    OBVIOUS
  <2>3. f[i] = g[i][f[i-1]]
    <3> HIDE DEF g
    <3> QED BY <1>3 DEF Iterates
  <2> HIDE DEF g
  <2> QED BY <2>1, <2>2, <2>3
<1> HIDE DEF g
<1>6. f = D(f)
  <2>1. ASSUME NEW i \in 0..n PROVE f[i] = D(f)[i]
    <3>1. CASE i = 0
      BY <3>1, <1>4
    <3>2. CASE i # 0
      <4>1. i \in 1..n
        BY <3>2
      <4> QED BY <4>1, <1>5, <3>2
    <3> QED BY <3>1, <3>2
  <2>2. f = [i \in 0..n |-> f[i]]
    BY <1>3
  <2>3. D(f) = [i \in 0..n |-> D(f)[i]]
    OBVIOUS
  <2> HIDE DEF D
  <2> QED BY <2>1, <2>2, <2>3
<1>7. u = D(u)
  BY <1>6
<1>8. Enqueue(d, a) = u[n]
  BY DEF Enqueue
<1> HIDE DEF u
<1>9. \A i \in 0..n : f[i] = u[i]
  <2>1. f[0] = u[0]
    BY <1>1, <1>4, <1>7
  <2>2. ASSUME NEW i \in 1..n, f[i-1] = u[i-1] PROVE f[i] = u[i]
    <3>1. u[i] = D(u)[i]
      BY <1>7
    <3>2. D(u)[i] = Issue(u[i-1], a[i])
      OBVIOUS
    <3> HIDE DEF D
    <3> QED BY <3>1, <3>2, <2>2, <1>5
  <2>3. SameSteps(f, u, n)
    BY <2>1, <2>2 DEF SameSteps
  <2> HIDE DEF D, n
  <2> QED BY <1>1, <2>3, Unfold
<1>10. Enqueue(d, a) = f[n]
  BY <1>1, <1>8, <1>9
<1> QED BY <1>3, <1>4, <1>5, <1>10

\* One more piece of code is one more launch.
LEMMA EnqueueMore ==
  ASSUME NEW d \in Devices, NEW a \in Seq(Code), NEW w \in Code
  PROVE  /\ Enqueue(d, a) \in Devices /\ a \o <<w>> \in Seq(Code)
         /\ Enqueue(d, a \o <<w>>) = Issue(Enqueue(d, a), w)
<1> DEFINE z == a \o <<w>>
           n == Len(a)
<1>1. /\ n \in Nat /\ z \in Seq(Code) /\ Len(z) = n + 1 /\ z[n + 1] = w
      /\ \A i \in 1..n : z[i] = a[i]
  OBVIOUS
<1> HIDE DEF z
<1>2. PICK f \in [0..n -> Devices] :
         /\ f[0] = d /\ \A i \in 1..n : f[i] = Issue(f[i - 1], a[i])
         /\ Enqueue(d, a) = f[n]
  BY EnqueueSteps
<1>3. PICK h \in [0..Len(z) -> Devices] :
         /\ h[0] = d /\ \A i \in 1..Len(z) : h[i] = Issue(h[i - 1], z[i])
         /\ Enqueue(d, z) = h[Len(z)]
  BY <1>1, EnqueueSteps
<1> HIDE DEF n
<1>4. SameSteps(f, h, n)
  <2>1. ASSUME NEW i \in 1..n, f[i-1] = h[i-1] PROVE f[i] = h[i]
    <3>1. i \in 1..Len(z)
      BY <1>1
    <3> QED BY <1>1, <1>2, <1>3, <2>1, <3>1
  <2> QED BY <1>2, <1>3, <2>1 DEF SameSteps
<1>5. f[n] = h[n] /\ f[n] \in Devices
  <2>1. n \in 0..n
    BY <1>1
  <2> QED BY <1>1, <1>2, <1>4, <2>1, Unfold
<1>6. h[n + 1] = Issue(h[n], w)
  <2>1. n + 1 \in 1..Len(z) /\ (n + 1) - 1 = n
    BY <1>1
  <2> QED BY <1>1, <1>3, <2>1
<1>7. Enqueue(d, z) = Issue(Enqueue(d, a), w) /\ Enqueue(d, a) \in Devices
  BY <1>1, <1>2, <1>3, <1>5, <1>6
<1> QED BY <1>1, <1>7 DEF z

\* No code launches nothing.
LEMMA EnqueueNone ==
  ASSUME NEW d \in Devices
  PROVE  Enqueue(d, <<>>) = d
<1>1. <<>> \in Seq(Code) /\ Len(<<>>) = 0
  OBVIOUS
<1> DEFINE a == <<>>
<1>2. a \in Seq(Code) /\ Len(a) = 0
  BY <1>1
<1> HIDE DEF a
<1>3. PICK f \in [0..Len(a) -> Devices] : f[0] = d /\ Enqueue(d, a) = f[Len(a)]
  BY <1>2, EnqueueSteps
<1> QED BY <1>2, <1>3 DEF a

\* Nothing that was launched is taken back.
Grown(R, d, e) == \A s \in Stream : \A x : Has(d, R, s, x) => Has(e, R, s, x)

\* e is the device after the code a was launched on d, in good order.
Led(K, B, R, d, a, e) ==
    /\ d \in Devices /\ a \in Seq(Code) /\ e = Enqueue(d, a) /\ DeviceOK(K, B, e, R)
    /\ Grown(R, d, e)

\* Before any code.
LEMMA LedNone ==
  ASSUME NEW K, NEW B, NEW R, NEW d, DeviceOK(K, B, d, R)
  PROVE  Led(K, B, R, d, <<>>, d)
<1>1. d \in Devices /\ <<>> \in Seq(Code)
  BY DEF DeviceOK
<1>2. Enqueue(d, <<>>) = d
  BY <1>1, EnqueueNone
<1> QED BY <1>1, <1>2 DEF Led, Grown

\* One more launch, or none, after what it needs.
LEMMA LedMore ==
  ASSUME NEW K, NEW B, NEW R, NEW d, NEW a, NEW e, Led(K, B, R, d, a, e), NEW t, NEW w,
         t => /\ w \in Code /\ w.data = w.batch
              /\ \A x \in Anchors(K, B, w) : \E s \in w.after \cup {w.stream} : Has(e, R, s, x)
  PROVE  \E f : /\ Led(K, B, R, d, a \o If(t, <<w>>), f)
                /\ Grown(R, e, f)
                /\ t => Has(f, R, w.stream, Result(w))
<1>1. /\ d \in Devices /\ a \in Seq(Code) /\ e = Enqueue(d, a) /\ DeviceOK(K, B, e, R) /\ e \in Devices
      /\ Grown(R, d, e)
  BY DEF Led, DeviceOK
<1>2. CASE t
  <2>1. a \o If(t, <<w>>) = a \o <<w>>
    BY <1>2 DEF If
  <2> DEFINE f == Issue(e, w)
  <2>2. a \o <<w>> \in Seq(Code) /\ Enqueue(d, a \o <<w>>) = f
    BY <1>1, <1>2, EnqueueMore
  <2>3. DeviceOK(K, B, f, R)
    BY <1>1, <1>2, IssueOK
  <2>4. /\ Has(f, R, w.stream, Result(w))
        /\ Grown(R, e, f)
    BY <1>1, <1>2, IssueHas DEF Grown
  <2> HIDE DEF f
  <2>5. Led(K, B, R, d, a \o <<w>>, f)
    BY <1>1, <2>2, <2>3, <2>4 DEF Led, Grown
  <2> QED BY <2>1, <2>4, <2>5
<1>3. CASE ~t
  <2>1. a \o If(t, <<w>>) = a
    BY <1>1, <1>3 DEF If
  <2>2. Grown(R, e, e)
    BY DEF Grown
  <2> QED BY <1>3, <2>1, <2>2
<1> QED BY <1>2, <1>3

-----------------------------------------------------------------------------
(* The pieces of code of the host thread.                                  *)

\* A result that is there is there for every stream.
LEMMA HasRan ==
  ASSUME NEW d, NEW R, NEW s, NEW x, x \in R
  PROVE  Has(d, R, s, x)
BY DEF Has, Due

\* Two launches at once.
LEMMA OneByOne ==
  ASSUME NEW S, NEW a \in Seq(S), NEW x \in S, NEW y \in S
  PROVE  a \o <<x>> \o <<y>> = a \o <<x, y>>
<1> DEFINE f == a \o <<x>> \o <<y>>
           g == a \o <<x, y>>
           n == Len(a)
<1>1. /\ <<x>> \in Seq(S) /\ <<y>> \in Seq(S) /\ <<x, y>> \in Seq(S) /\ n \in Nat /\ Len(<<x, y>>) = 2
      /\ <<x, y>>[1] = x /\ <<x, y>>[2] = y /\ a \o <<x>> \in Seq(S) /\ Len(a \o <<x>>) = n + 1
  OBVIOUS
<1>2. f \in Seq(S) /\ g \in Seq(S) /\ Len(f) = n + 2 /\ Len(g) = n + 2
  BY <1>1
<1>3. ASSUME NEW i \in 1..(n + 2) PROVE f[i] = g[i]
  <2>1. CASE i \in 1..n
    BY <1>1, <2>1
  <2>2. CASE i = n + 1
    BY <1>1, <2>2
  <2>3. CASE i = n + 2
    BY <1>1, <2>3
  <2> QED BY <2>1, <2>2, <2>3
<1> HIDE DEF f, g
<1>4. f = g
  BY <1>2, <1>3, SeqEqual
<1> QED BY <1>4 DEF f, g

\* A launch is a piece of code.
LEMMA LaunchIs ==
  ASSUME NEW s \in Stream, NEW op \in Ops, NEW b \in Nat, NEW data \in Nat, NEW after \in SUBSET Stream
  PROVE  /\ Launch(s, op, b, data, after) \in Code
         /\ Launch(s, op, b, data, after).stream = s /\ Launch(s, op, b, data, after).op = op
         /\ Launch(s, op, b, data, after).batch = b /\ Launch(s, op, b, data, after).data = data
         /\ Launch(s, op, b, data, after).after = after
BY DEF Launch, Code

\* One piece of code with one launch of op for batch b, which needs the results A.
LEMMA LedLaunch ==
  ASSUME NEW K, NEW B, NEW R, NEW d, NEW a, NEW e, Led(K, B, R, d, a, e), NEW t,
         NEW s \in Stream, NEW op \in Ops, NEW b, t => b \in Nat, NEW after \in SUBSET Stream, NEW A,
         \A w : w.op = op /\ w.batch = b => Anchors(K, B, w) = A,
         t => \A x \in A : \E y \in after \cup {s} : Has(e, R, y, x)
  PROVE  \E f : /\ Led(K, B, R, d, a \o If(t, <<Launch(s, op, b, b, after)>>), f)
                /\ Grown(R, e, f)
                /\ t => Has(f, R, s, <<op, b>>)
<1> DEFINE w == Launch(s, op, b, b, after)
<1>1. t => /\ w \in Code /\ w.stream = s /\ w.op = op /\ w.batch = b /\ w.data = w.batch /\ w.after = after
  BY LaunchIs
<1> HIDE DEF w
<1>2. t => /\ w \in Code /\ w.data = w.batch
           /\ \A x \in Anchors(K, B, w) : \E y \in w.after \cup {w.stream} : Has(e, R, y, x)
  <2> SUFFICES ASSUME t PROVE /\ w \in Code /\ w.data = w.batch
                              /\ \A x \in Anchors(K, B, w) : \E y \in w.after \cup {w.stream} : Has(e, R, y, x)
    OBVIOUS
  <2>1. Anchors(K, B, w) = A
    BY <1>1
  <2> QED BY <1>1, <2>1
<1>3. PICK f : /\ Led(K, B, R, d, a \o If(t, <<w>>), f) /\ Grown(R, e, f)
               /\ t => Has(f, R, w.stream, Result(w))
  BY <1>2, LedMore
<1>4. t => Has(f, R, s, <<op, b>>)
  BY <1>1, <1>3 DEF Result
<1> QED BY <1>3, <1>4 DEF w

\* _to_device.
LEMMA AddCopy ==
  ASSUME NEW R, NEW d, NEW a, NEW e, Led(kind, shuffler, R, d, a, e), NEW b \in Nat
  PROVE  \E f : /\ Led(kind, shuffler, R, d, a \o CopyBatch(b), f) /\ Grown(R, e, f)
                /\ b # None => Has(f, R, "memcpy", <<"copy", b>>)
<1>1. "memcpy" \in Stream /\ "copy" \in Ops /\ {} \in SUBSET Stream
  BY DEF Stream, Ops
<1>2. \A w : w.op = "copy" /\ w.batch = b => Anchors(kind, shuffler, w) = {}
  BY DEF Anchors
<1>3. \A x \in {} : \E y \in {} \cup {"memcpy"} : Has(e, R, y, x)
  OBVIOUS
<1> DEFINE t == b # None
<1>4. CopyBatch(b) = If(t, <<Launch("memcpy", "copy", b, b, {})>>)
  BY DEF CopyBatch
<1> HIDE DEF t
<1>5. \E f : /\ Led(kind, shuffler, R, d, a \o CopyBatch(b), f) /\ Grown(R, e, f)
             /\ t => Has(f, R, "memcpy", <<"copy", b>>)
  BY <1>1, <1>2, <1>3, <1>4, LedLaunch
<1> QED BY <1>5 DEF t

\* The workloads of a batch that was copied.
LEMMA AddWorkloads ==
  ASSUME NEW R, NEW d, NEW a, NEW e, Led(kind, shuffler, R, d, a, e), NEW b \in Nat,
         b # None => Has(e, R, "memcpy", <<"copy", b>>)
  PROVE  \E f : /\ Led(kind, shuffler, R, d, a \o Workloads(b), f) /\ Grown(R, e, f)
                /\ b # None /\ shuffler = "balanced" => Has(f, R, "memcpy", <<"workloads", b>>)
<1>1. "memcpy" \in Stream /\ "workloads" \in Ops /\ {} \in SUBSET Stream
  BY DEF Stream, Ops
<1>2. \A w : w.op = "workloads" /\ w.batch = b => Anchors(kind, shuffler, w) = {<<"copy", b>>}
  BY DEF Anchors
<1> DEFINE t == b # None /\ Balanced
<1>3. t => \A x \in {<<"copy", b>>} : \E y \in {} \cup {"memcpy"} : Has(e, R, y, x)
  OBVIOUS
<1>4. Workloads(b) = If(t, <<Launch("memcpy", "workloads", b, b, {})>>)
  BY DEF Workloads
<1> HIDE DEF t
<1>5. PICK f : /\ Led(kind, shuffler, R, d, a \o Workloads(b), f) /\ Grown(R, e, f)
               /\ t => Has(f, R, "memcpy", <<"workloads", b>>)
  BY <1>1, <1>2, <1>3, <1>4, LedLaunch
<1> QED BY <1>5 DEF Balanced, t

\* The batch, redistributed if the shuffler does.
LEMMA AddShuffle ==
  ASSUME NEW R, NEW d, NEW a, NEW e, Led(kind, shuffler, R, d, a, e), NEW b \in Nat,
         b # None => Has(e, R, "memcpy", <<"copy", b>>),
         b # None /\ shuffler = "balanced" => Has(e, R, "memcpy", <<"workloads", b>>)
  PROVE  \E f : /\ Led(kind, shuffler, R, d, a \o Redistribute(b), f) /\ Grown(R, e, f)
                /\ b # None => Has(f, R, "memcpy", Whole(shuffler, b))
<1>1. "memcpy" \in Stream /\ "shuffle" \in Ops /\ {} \in SUBSET Stream
  BY DEF Stream, Ops
<1> DEFINE A == {<<"workloads", b>>, <<"copy", b>>}
<1>2. \A w : w.op = "shuffle" /\ w.batch = b => Anchors(kind, shuffler, w) = A
  BY DEF Anchors
<1> DEFINE t == b # None /\ Balanced
<1>3. t => \A x \in A : \E y \in {} \cup {"memcpy"} : Has(e, R, y, x)
  BY DEF Balanced
<1>4. Redistribute(b) = If(t, <<Launch("memcpy", "shuffle", b, b, {})>>)
  BY DEF Redistribute
<1> HIDE DEF A, t
<1>5. PICK f : /\ Led(kind, shuffler, R, d, a \o Redistribute(b), f) /\ Grown(R, e, f)
               /\ t => Has(f, R, "memcpy", <<"shuffle", b>>)
  BY <1>1, <1>2, <1>3, <1>4, LedLaunch
<1>6. b # None => Has(f, R, "memcpy", <<"copy", b>>)
  BY <1>1, <1>5 DEF Grown
<1> QED BY <1>5, <1>6 DEF Balanced, Whole, t

\* start_sparse_data_dist, of a batch as it is trained on.
LEMMA AddSplits ==
  ASSUME NEW R, NEW d, NEW a, NEW e, Led(kind, shuffler, R, d, a, e), NEW b, NEW t, t => b \in Nat,
         t /\ b # None => Has(e, R, "memcpy", Whole(shuffler, b))
  PROVE  \E f : /\ Led(kind, shuffler, R, d, a \o If(t, StartSparseDataDist(b)), f) /\ Grown(R, e, f)
                /\ t /\ b # None => Has(f, R, "dist", <<"splits", b>>)
<1>1. "dist" \in Stream /\ "splits" \in Ops /\ {"memcpy"} \in SUBSET Stream
  BY DEF Stream, Ops
<1>2. \A w : w.op = "splits" /\ w.batch = b => Anchors(kind, shuffler, w) = {Whole(shuffler, b)}
  BY DEF Anchors
<1>3. t /\ b # None => \A x \in {Whole(shuffler, b)} : \E y \in {"memcpy"} \cup {"dist"} : Has(e, R, y, x)
  OBVIOUS
<1> DEFINE u == t /\ b # None
<1>4. If(t, StartSparseDataDist(b)) = If(u, <<Launch("dist", "splits", b, b, {"memcpy"})>>)
  BY DEF If, StartSparseDataDist
<1>5. u => \A x \in {Whole(shuffler, b)} : \E y \in {"memcpy"} \cup {"dist"} : Has(e, R, y, x)
  BY <1>3
<1>6. u => b \in Nat
  OBVIOUS
<1> HIDE DEF u
<1>7. \E f : /\ Led(kind, shuffler, R, d, a \o If(t, StartSparseDataDist(b)), f) /\ Grown(R, e, f)
             /\ u => Has(f, R, "dist", <<"splits", b>>)
  BY <1>1, <1>2, <1>4, <1>5, <1>6, LedLaunch
<1> QED BY <1>7 DEF u

\* wait_sparse_data_dist, of an input dist that was started.
LEMMA AddTensors ==
  ASSUME NEW R, NEW d, NEW a, NEW e, Led(kind, shuffler, R, d, a, e), NEW c, NEW t, t => c \in Contexts,
         t /\ c.splits # None => Has(e, R, "dist", <<"splits", c.splits>>)
  PROVE  \E f : /\ Led(kind, shuffler, R, d, a \o If(t, WaitSparseDataDist(c)), f) /\ Grown(R, e, f)
                /\ t /\ c.splits # None => Has(f, R, "dist", <<"tensors", c.splits>>)
<1> DEFINE b == c.splits
<1>1. "dist" \in Stream /\ "tensors" \in Ops /\ {} \in SUBSET Stream
  BY DEF Stream, Ops
<1> DEFINE u == t /\ b # None
<1>4. If(t, WaitSparseDataDist(c)) = If(u, <<Launch("dist", "tensors", b, b, {})>>)
  BY DEF If, WaitSparseDataDist
<1>6. u => b \in Nat
  BY DEF Contexts
<1> HIDE DEF b
<1>2. \A w : w.op = "tensors" /\ w.batch = b => Anchors(kind, shuffler, w) = {<<"splits", b>>}
  BY DEF Anchors
<1>3. u => \A x \in {<<"splits", b>>} : \E y \in {} \cup {"dist"} : Has(e, R, y, x)
  BY DEF b
<1> HIDE DEF u
<1>5. \E f : /\ Led(kind, shuffler, R, d, a \o If(t, WaitSparseDataDist(c)), f) /\ Grown(R, e, f)
             /\ u => Has(f, R, "dist", <<"tensors", b>>)
  BY <1>1, <1>2, <1>3, <1>4, <1>6, LedLaunch
<1> QED BY <1>5 DEF b, u

\* _prefetch, of the tensors of the batch.
LEMMA AddRows ==
  ASSUME NEW R, NEW d, NEW a, NEW e, Led(kind, shuffler, R, d, a, e), NEW c, NEW b \in Nat, NEW t,
         t /\ b # None => c.tensors = b /\ Has(e, R, "dist", <<"tensors", b>>)
  PROVE  \E f : /\ Led(kind, shuffler, R, d, a \o If(t, Prefetch(c, b)), f) /\ Grown(R, e, f)
                /\ t /\ b # None => Has(f, R, "prefetch", <<"rows", b>>)
<1>1. "prefetch" \in Stream /\ "rows" \in Ops /\ {"dist"} \in SUBSET Stream
  BY DEF Stream, Ops
<1>2. \A w : w.op = "rows" /\ w.batch = b => Anchors(kind, shuffler, w) = {<<"tensors", b>>}
  BY DEF Anchors
<1> DEFINE u == t /\ b # None
<1>3. u => \A x \in {<<"tensors", b>>} : \E y \in {"dist"} \cup {"prefetch"} : Has(e, R, y, x)
  OBVIOUS
<1>4. If(t, Prefetch(c, b)) = If(u, <<Launch("prefetch", "rows", b, c.tensors, {"dist"})>>)
  BY DEF If, Prefetch
<1>5. If(t, Prefetch(c, b)) = If(u, <<Launch("prefetch", "rows", b, b, {"dist"})>>)
  BY <1>4 DEF If
<1> HIDE DEF u
<1>6. \E f : /\ Led(kind, shuffler, R, d, a \o If(t, Prefetch(c, b)), f) /\ Grown(R, e, f)
             /\ u => Has(f, R, "prefetch", <<"rows", b>>)
  BY <1>1, <1>2, <1>3, <1>5, LedLaunch
<1> QED BY <1>6 DEF u

\* The loss tokens of a batch that is there.
LEMMA AddTokens ==
  ASSUME NEW R, NEW d, NEW a, NEW e, Led(kind, shuffler, R, d, a, e), NEW r, NEW b \in Nat,
         Whole(shuffler, b) \in R
  PROVE  \E f : /\ Led(kind, shuffler, R, d, a \o GlobalTokens(r, b), f) /\ Grown(R, e, f)
                /\ Training(r) => Has(f, R, "default", <<"tokens", b>>)
<1>1. "default" \in Stream /\ "tokens" \in Ops /\ {} \in SUBSET Stream
  BY DEF Stream, Ops
<1>2. \A w : w.op = "tokens" /\ w.batch = b => Anchors(kind, shuffler, w) = {Whole(shuffler, b)}
  BY DEF Anchors
<1>3. \A x \in {Whole(shuffler, b)} : \E y \in {} \cup {"default"} : Has(e, R, y, x)
  BY HasRan
<1> QED BY <1>1, <1>2, <1>3, LedLaunch DEF GlobalTokens

\* The forward pass, on what it is fed with.
LEMMA AddForward ==
  ASSUME NEW R, NEW d, NEW a, NEW e, Led(kind, shuffler, R, d, a, e), NEW b \in Nat,
         Has(e, R, IF Prefetching THEN "prefetch" ELSE "dist", Input(kind, b))
  PROVE  \E f : /\ Led(kind, shuffler, R, d,
                       a \o <<Launch("default", "forward", b, b,
                                     IF Prefetching THEN {"dist", "prefetch"} ELSE {"dist"})>>, f)
                /\ Grown(R, e, f)
                /\ Has(f, R, "default", <<"forward", b>>)
<1> DEFINE after == IF Prefetching THEN {"dist", "prefetch"} ELSE {"dist"}
           s == IF Prefetching THEN "prefetch" ELSE "dist"
<1>1. "default" \in Stream /\ "forward" \in Ops /\ after \in SUBSET Stream /\ s \in after
  BY DEF Stream, Ops
<1> HIDE DEF after, s
<1>2. \A w : w.op = "forward" /\ w.batch = b => Anchors(kind, shuffler, w) = {Input(kind, b)}
  BY DEF Anchors
<1>3. \A x \in {Input(kind, b)} : \E y \in after \cup {"default"} : Has(e, R, y, x)
  BY <1>1 DEF s
<1>4. \E f : /\ Led(kind, shuffler, R, d, a \o If(TRUE, <<Launch("default", "forward", b, b, after)>>), f)
             /\ Grown(R, e, f)
             /\ TRUE => Has(f, R, "default", <<"forward", b>>)
  BY <1>1, <1>2, <1>3, LedLaunch
<1> QED BY <1>4 DEF after, If

\* The guard before the loss needs nothing.
LEMMA AddGuard ==
  ASSUME NEW R, NEW d, NEW a, NEW e, Led(kind, shuffler, R, d, a, e)
  PROVE  \E f : Led(kind, shuffler, R, d, a \o CommunicatorGuard, f) /\ Grown(R, e, f)
<1>1. "default" \in Stream /\ "wait" \in Ops /\ {"memcpy"} \in SUBSET Stream /\ None \in Nat
  BY DEF Stream, Ops, None
<1>2. \A w : w.op = "wait" /\ w.batch = None => Anchors(kind, shuffler, w) = {}
  BY DEF Anchors
<1>3. \A x \in {} : \E y \in {"memcpy"} \cup {"default"} : Has(e, R, y, x)
  OBVIOUS
<1> QED BY <1>1, <1>2, <1>3, LedLaunch DEF CommunicatorGuard

\* Backward, after the forward pass and the loss tokens.
LEMMA AddBackward ==
  ASSUME NEW R, NEW d, NEW a, NEW e, Led(kind, shuffler, R, d, a, e), NEW r, NEW b \in Nat,
         Training(r) => /\ Has(e, R, "default", <<"forward", b>>)
                        /\ Has(e, R, "default", <<"tokens", b>>)
  PROVE  \E f : Led(kind, shuffler, R, d, a \o Backward(r, b), f) /\ Grown(R, e, f)
<1> DEFINE after == IF Prefetching THEN {"prefetch"} ELSE {}
           u == Launch("default", "backward", b, b, after)
           v == Launch("default", "grads", b, b, {})
           A == {<<"forward", b>>, <<"tokens", b>>}
<1>1. /\ "default" \in Stream /\ "backward" \in Ops /\ "grads" \in Ops /\ after \in SUBSET Stream
      /\ {} \in SUBSET Stream
  BY DEF Stream, Ops
<1>2. /\ \A w : w.op = "backward" /\ w.batch = b => Anchors(kind, shuffler, w) = A
      /\ \A w : w.op = "grads" /\ w.batch = b => Anchors(kind, shuffler, w) = {<<"backward", b>>}
  BY DEF Anchors
<1>3. Training(r) => \A x \in A : \E y \in after \cup {"default"} : Has(e, R, y, x)
  OBVIOUS
<1> HIDE DEF A
<1>4. PICK g : /\ Led(kind, shuffler, R, d, a \o If(Training(r), <<u>>), g) /\ Grown(R, e, g)
               /\ Training(r) => Has(g, R, "default", <<"backward", b>>)
  <2> HIDE DEF after
  <2> QED BY <1>1, <1>2, <1>3, LedLaunch
<1>5. Training(r) => \A x \in {<<"backward", b>>} : \E y \in {} \cup {"default"} : Has(g, R, y, x)
  BY <1>4
<1>6. PICK f : /\ Led(kind, shuffler, R, d, a \o If(Training(r), <<u>>) \o If(Training(r), <<v>>), f)
               /\ Grown(R, g, f)
  <2> DEFINE z == a \o If(Training(r), <<u>>)
  <2>1. Led(kind, shuffler, R, d, z, g)
    BY <1>4
  <2> HIDE DEF z
  <2>2. \E f : /\ Led(kind, shuffler, R, d, z \o If(Training(r), <<v>>), f) /\ Grown(R, g, f)
               /\ Training(r) => Has(f, R, "default", <<"grads", b>>)
    BY ONLY <1>1, <1>2, <1>5, <2>1, LedLaunch, b \in Nat
  <2> QED BY <2>2 DEF z
<1>7. a \o If(Training(r), <<u>>) \o If(Training(r), <<v>>) = a \o Backward(r, b)
  <2>1. Backward(r, b) = If(Training(r), <<u, v>>)
    BY DEF Backward
  <2>2. a \in Seq(Code) /\ u \in Code /\ v \in Code
    BY <1>1, LaunchIs DEF Led
  <2> HIDE DEF u, v
  <2>3. CASE Training(r)
    <3>1. a \o <<u>> \o <<v>> = a \o <<u, v>>
      BY <2>2, OneByOne
    <3> QED BY <2>1, <2>3, <3>1 DEF If
  <2>4. CASE ~Training(r)
    <3>1. a \o <<>> \o <<>> = a \o <<>>
      BY <2>2
    <3> QED BY <2>1, <2>4, <3>1 DEF If
  <2> QED BY <2>3, <2>4
<1>8. Grown(R, e, f)
  BY <1>4, <1>6 DEF Grown
<1> QED BY <1>6, <1>7, <1>8

\* The code begins with its first piece.
LEMMA FirstPiece ==
  ASSUME NEW t, NEW w
  PROVE  <<>> \o If(t, <<w>>) = If(t, <<w>>)
<1>1. <<>> \o <<w>> = <<w>>
  <2>1. <<w>> \in Seq({w}) /\ <<>> \in Seq({w})
    OBVIOUS
  <2> QED BY <2>1
<1>2. <<>> \o <<>> = <<>>
  OBVIOUS
<1> QED BY <1>1, <1>2 DEF If

\* The pieces that come first.
LEMMA FirstPieces ==
  /\ \A b : <<>> \o CopyBatch(b) = CopyBatch(b)
  /\ \A b : <<>> \o Redistribute(b) = Redistribute(b)
  /\ \A r, b : <<>> \o GlobalTokens(r, b) = GlobalTokens(r, b)
  /\ \A t, c : <<>> \o If(t, WaitSparseDataDist(c)) = If(t, WaitSparseDataDist(c))
  /\ \A w : <<>> \o <<w>> = <<w>>
<1>1. \A b : <<>> \o CopyBatch(b) = CopyBatch(b)
  BY FirstPiece DEF CopyBatch
<1>2. \A b : <<>> \o Redistribute(b) = Redistribute(b)
  BY FirstPiece DEF Redistribute
<1>3. \A r, b : <<>> \o GlobalTokens(r, b) = GlobalTokens(r, b)
  BY FirstPiece DEF GlobalTokens
<1>4. ASSUME NEW t, NEW c PROVE <<>> \o If(t, WaitSparseDataDist(c)) = If(t, WaitSparseDataDist(c))
  <2> DEFINE u == t /\ c.splits # None
             w == Launch("dist", "tensors", c.splits, c.splits, {})
  <2>1. If(t, WaitSparseDataDist(c)) = If(u, <<w>>)
    BY DEF If, WaitSparseDataDist
  <2> HIDE DEF u, w
  <2> QED BY <2>1, FirstPiece
<1>5. ASSUME NEW w PROVE <<>> \o <<w>> = <<w>>
  BY FirstPiece DEF If
<1> QED BY <1>1, <1>2, <1>3, <1>4, <1>5
-----------------------------------------------------------------------------
(* The contexts.                                                           *)

\* A context by its fields.
LEMMA ContextIs ==
  ASSUME NEW c \in Contexts
  PROVE  /\ c.splits \in Nat /\ c.next \in Nat /\ c.tensors \in Nat /\ c.module \in Nat
         /\ c.post \in Nat \X Nat
         /\ c = [splits |-> c.splits, next |-> c.next, tensors |-> c.tensors, module |-> c.module,
                 post |-> c.post]
BY DEF Contexts

\* start_sparse_data_dist.
LEMMA StartedIs ==
  ASSUME NEW c \in Contexts, NEW b \in Nat
  PROVE  /\ Started(c, b) \in Contexts
         /\ b = None => Started(c, b) = c
         /\ b # None => Started(c, b).splits = b /\ Started(c, b).next = b
         /\ Started(c, b).tensors = c.tensors /\ Started(c, b).module = c.module
         /\ Started(c, b).post = c.post
BY ContextIs DEF Started, Contexts

\* wait_sparse_data_dist.
LEMMA WaitedIs ==
  ASSUME NEW c \in Contexts
  PROVE  /\ Waited(c) \in Contexts
         /\ c.splits # None => /\ Waited(c).tensors = c.splits /\ Waited(c).module = c.next
                               /\ Waited(c).post = c.post /\ Waited(c).next = c.next
                               /\ Prefetching => Waited(c).splits = c.splits
BY ContextIs DEF Waited, Contexts, None

\* _prefetch.
LEMMA PrefetchedIs ==
  ASSUME NEW c \in Contexts, NEW b
  PROVE  /\ Prefetched(c, b) \in Contexts
         /\ b = None => Prefetched(c, b) = c
         /\ b # None => Prefetched(c, b).post = <<c.tensors, c.module>>
         /\ Prefetched(c, b).splits = c.splits /\ Prefetched(c, b).next = c.next
BY ContextIs DEF Prefetched, Contexts, None

\* What the model pops of a context.
LEMMA PoppedIs ==
  ASSUME NEW c \in Contexts
  PROVE  /\ Popped(c) \in Contexts
         /\ Popped(c).splits = c.splits /\ Popped(c).next = c.next /\ Popped(c).module = c.module
         /\ Prefetching => Popped(c).tensors = c.tensors
BY ContextIs DEF Popped, Contexts, None

\* A new context.
LEMMA NewIs ==
  NewContext \in Contexts
BY DEF NewContext, Contexts, None

-----------------------------------------------------------------------------
(* The steps of the host thread.                                           *)

\* What the host does not find pending has been computed.
LEMMA NotPending ==
  ASSUME NEW r, device[r] \in Devices, NEW R, NEW s \in Stream, NEW op, NEW b, ~Pending(r, op, b),
         Has(device[r], R, s, <<op, b>>)
  PROVE  <<op, b>> \in R
<1>1. SUFFICES ASSUME <<op, b>> \notin R PROVE FALSE
  OBVIOUS
<1>2. PICK i \in 1..Len(device[r].queue[s]) : Result(device[r].queue[s][i]) = <<op, b>>
  BY <1>1 DEF Has, Due
<1>3. device[r].queue[s][i].op = op /\ device[r].queue[s][i].batch = b
  BY <1>2 DEF Result
<1>4. i \in DOMAIN device[r].queue[s]
  <2>1. device[r].queue[s] \in Seq(Items)
    BY DeviceFacts
  <2> QED BY <2>1
<1> QED BY <1>3, <1>4 DEF Pending

\* What the host relies on, of a context, stays when more is launched.
LEMMA GrownHeld ==
  ASSUME NEW K, NEW R, NEW d, NEW e, Grown(R, d, e), NEW c, NEW b
  PROVE  /\ Fed(K, c, b, d, R) => Fed(K, c, b, e, R)
         /\ DistStarted(c, b, d, R) => DistStarted(c, b, e, R)
         /\ DistWaited(c, b, d, R) => DistWaited(c, b, e, R)
<1>1. \A x : /\ Has(d, R, "dist", x) => Has(e, R, "dist", x)
             /\ Has(d, R, "prefetch", x) => Has(e, R, "prefetch", x)
  BY DEF Grown, Stream
<1> QED BY <1>1 DEF Fed, DistStarted, DistWaited

\* The batches of a rank.
LEMMA SlotsAre ==
  ASSUME NEW P \in Seq(Slices), NEW p, NEW s, NEW l, NEW q, NEW w, NEW f, RankOK(P, p, s, l, q, w, f)
  PROVE  /\ q \in Seq(Nat) /\ Len(q) \in Nat /\ w \in Nat
         /\ \A i \in 1..Len(q) : q[i] \in Nat /\ q[i] # None
         /\ p # "call" => Len(q) >= 1
<1>1. q \in Seq(Nat) /\ Len(q) \in Nat /\ w \in Nat /\ DoneWith(p, f) \in Nat
  BY RankFacts DEF RankOK
<1>2. /\ \A i \in 1..Len(q) : q[i] = DoneWith(p, f) + i
      /\ p # "call" => Len(q) >= 1
  BY DEF RankOK, Lined
<1>3. \A i \in 1..Len(q) : q[i] \in Nat /\ q[i] # 0
  BY <1>1, <1>2
<1> QED BY <1>1, <1>2, <1>3 DEF None

\* One of the contexts.
LEMMA ContextAt ==
  ASSUME NEW cs \in Seq(Contexts), NEW i \in 1..Len(cs)
  PROVE  cs[i] \in Contexts
OBVIOUS

\* It is replaced.
LEMMA OneContext ==
  ASSUME NEW cs \in Seq(Contexts), NEW i \in 1..Len(cs), NEW c \in Contexts
  PROVE  /\ cs[i] \in Contexts
         /\ [cs EXCEPT ![i] = c] \in Seq(Contexts) /\ Len([cs EXCEPT ![i] = c]) = Len(cs)
         /\ [cs EXCEPT ![i] = c][i] = c
         /\ \A j \in 1..Len(cs) : j # i => [cs EXCEPT ![i] = c][j] = cs[j]
<1>1. cs \in [1..Len(cs) -> Contexts]
  OBVIOUS
<1>2. [cs EXCEPT ![i] = c] \in [1..Len(cs) -> Contexts]
  BY <1>1
<1>3. [cs EXCEPT ![i] = c] \in Seq(Contexts) /\ Len([cs EXCEPT ![i] = c]) = Len(cs)
  BY <1>2
<1> QED BY <1>1, <1>3

\* The device after the code of a step.
LEMMA LedIs ==
  ASSUME NEW K, NEW B, NEW R, NEW d, NEW a, NEW e, Led(K, B, R, d, a, e)
  PROVE  e = Enqueue(d, a) /\ DeviceOK(K, B, e, R) /\ Grown(R, d, e)
BY DEF Led

\* FillFirst: the batch and its workloads are on their way.
LEMMA FirstCopied ==
  ASSUME NEW s, NEW l, NEW q, NEW w, NEW cs, NEW k, NEW d, NEW R, NEW t,
         StreamsOK(kind, shuffler, "call", s, l, q, w, cs, k, d, R, t), NEW b \in Nat, b # None, NEW m
  PROVE  StreamsOK(kind, shuffler, "fill", s, m, <<b>>, w, IF Prefetching THEN cs ELSE <<NewContext>>, k,
                   Enqueue(d, CopyBatch(b) \o Workloads(b)), R, t)
<1> DEFINE z == IF Prefetching THEN cs ELSE <<NewContext>>
<1>0. /\ DeviceOK(kind, shuffler, d, R) /\ RanOK(shuffler, R) /\ k \in Seq(Nat) /\ TasksRead(k, R)
      /\ cs \in Seq(Contexts) /\ (kind = "prefetch" => Len(cs) = 1)
  BY DEF StreamsOK, Relied, SecondPrefetch
<1>1. PICK e : /\ Led(kind, shuffler, R, d, <<>> \o CopyBatch(b), e)
               /\ Has(e, R, "memcpy", <<"copy", b>>)
  BY <1>0, LedNone, AddCopy
<1>2. PICK f : /\ Led(kind, shuffler, R, d, CopyBatch(b) \o Workloads(b), f) /\ Grown(R, e, f)
               /\ shuffler = "balanced" => Has(f, R, "memcpy", <<"workloads", b>>)
  BY <1>1, FirstPieces, AddWorkloads
<1>3. f = Enqueue(d, CopyBatch(b) \o Workloads(b)) /\ DeviceOK(kind, shuffler, f, R)
  BY <1>2, LedIs
<1>4. Has(f, R, "memcpy", <<"copy", b>>)
  BY <1>1, <1>2 DEF Grown, Stream
<1>5. Len(<<b>>) = 1 /\ <<b>>[1] = b
  OBVIOUS
<1>6. ShortOK("fill", s, m, <<b>>, w)
  BY <1>5 DEF ShortOK, Filled
<1>7. z \in Seq(Contexts) /\ Len(z) = 1
  <2>1. <<NewContext>> \in Seq(Contexts) /\ Len(<<NewContext>>) = 1
    BY NewIs
  <2> QED BY <1>0, <2>1 DEF Prefetching
<1> HIDE DEF z
<1>8. RawOK(shuffler, "fill", w, f, R) /\ FirstOK(kind, shuffler, "fill", <<b>>, z, f, R, t)
  BY <1>2, <1>4, <1>5 DEF RawOK, FirstOK, Filled
<1>9. SecondPrefetch("fill", <<b>>, z, f, R) /\ SecondNative(shuffler, "fill", <<b>>, z, f, R)
  BY <1>5, <1>7 DEF SecondPrefetch, SecondNative, Filled
<1>10. Relied(kind, shuffler, "fill", <<b>>, w, z, f, R, t)
  BY <1>7, <1>8, <1>9 DEF Relied
<1>11. StreamsOK(kind, shuffler, "fill", s, m, <<b>>, w, z, k, f, R, t)
  BY <1>0, <1>3, <1>6, <1>10 DEF StreamsOK
<1> QED BY <1>3, <1>11 DEF z

\* FillFirst at the end of a slice: nothing is in the pipeline.
LEMMA NothingLeft ==
  ASSUME NEW s, NEW l, NEW q, NEW w, NEW cs, NEW k, NEW d, NEW R, NEW t,
         StreamsOK(kind, shuffler, "call", s, l, q, w, cs, k, d, R, t), Len(q) = 0, NEW n, NEW m, NEW u
  PROVE  StreamsOK(kind, shuffler, "call", n, m, q, w, cs, k, d, R, u)
<1>1. ShortOK("call", n, m, q, w)
  BY DEF ShortOK, Filled
<1>2. Relied(kind, shuffler, "call", q, w, cs, d, R, u)
  BY DEF StreamsOK, Relied, FirstOK, Filled
<1> QED BY <1>1, <1>2 DEF StreamsOK

\* FillDist: the input dist of batch i starts.
LEMMA FirstStarted ==
  ASSUME NEW s, NEW l, NEW q, NEW w, NEW cs, NEW k, NEW d, NEW R, NEW t,
         StreamsOK(kind, shuffler, "fill", s, l, q, w, cs, k, d, R, t),
         q \in Seq(Nat), q[1] \in Nat, q[1] # None
  PROVE  StreamsOK(kind, shuffler, "filled", s, l, q, w, [cs EXCEPT ![1] = Started(@, q[1])], k,
                   Enqueue(d, Redistribute(q[1]) \o StartSparseDataDist(q[1])
                              \o If(Prefetching, StartSparseDataDist(q[1]))), R, t)
<1> DEFINE b == q[1]
           z == [cs EXCEPT ![1] = Started(@, b)]
<1>0. /\ DeviceOK(kind, shuffler, d, R) /\ RanOK(shuffler, R) /\ k \in Seq(Nat) /\ TasksRead(k, R)
      /\ cs \in Seq(Contexts)
      /\ Has(d, R, "memcpy", <<"copy", b>>)
      /\ shuffler = "balanced" => Has(d, R, "memcpy", <<"workloads", b>>)
  BY DEF StreamsOK, Relied, FirstOK
<1>l. Len(q) = 1 /\ Len(cs) = 1 /\ 1 \in 1..Len(cs)
  <2>1. Len(q) = 1
    BY DEF StreamsOK, ShortOK
  <2>2. Len(cs) = 1
    BY <2>1 DEF StreamsOK, Relied, SecondPrefetch, SecondNative
  <2> QED BY <2>1, <2>2
<1>1. z \in Seq(Contexts) /\ Len(z) = 1 /\ z[1].splits = b /\ z[1].next = b
  <2>1. cs[1] \in Contexts
    BY ONLY <1>0, <1>l, ContextAt
  <2>2. Started(cs[1], b) \in Contexts /\ Started(cs[1], b).splits = b /\ Started(cs[1], b).next = b
    BY <2>1, StartedIs
  <2>3. z \in Seq(Contexts) /\ Len(z) = 1 /\ z[1] = Started(cs[1], b)
    BY ONLY <1>0, <1>l, <2>2, OneContext DEF z
  <2> QED BY <2>2, <2>3
<1> HIDE DEF z, b
<1>b. b \in Nat /\ b # None
  BY DEF b
<1>2. PICK e : /\ Led(kind, shuffler, R, d, <<>> \o Redistribute(b), e)
               /\ Has(e, R, "memcpy", Whole(shuffler, b))
  BY <1>0, <1>b, LedNone, AddShuffle
<1>3. PICK f : /\ Led(kind, shuffler, R, d, Redistribute(b) \o StartSparseDataDist(b), f) /\ Grown(R, e, f)
               /\ Has(f, R, "dist", <<"splits", b>>)
  <2>1. Led(kind, shuffler, R, d, Redistribute(b), e)
    BY <1>2, FirstPieces
  <2>2. StartSparseDataDist(b) = If(TRUE, StartSparseDataDist(b))
    BY DEF If
  <2> QED BY <1>b, <1>2, <2>1, <2>2, AddSplits
<1>4. PICK g : /\ Led(kind, shuffler, R, d, Redistribute(b) \o StartSparseDataDist(b)
                        \o If(Prefetching, StartSparseDataDist(b)), g) /\ Grown(R, f, g)
  <2>1. Has(f, R, "memcpy", Whole(shuffler, b))
    BY <1>2, <1>3 DEF Grown, Stream
  <2> QED BY <1>b, <1>3, <2>1, AddSplits
<1>5. /\ g = Enqueue(d, Redistribute(b) \o StartSparseDataDist(b) \o If(Prefetching, StartSparseDataDist(b)))
      /\ DeviceOK(kind, shuffler, g, R)
  BY <1>4, LedIs
<1>6. Has(g, R, "dist", <<"splits", b>>)
  BY <1>3, <1>4 DEF Grown, Stream
<1>7. ShortOK("filled", s, l, q, w)
  BY <1>l DEF ShortOK, Filled
<1>8. RawOK(shuffler, "filled", w, g, R) /\ FirstOK(kind, shuffler, "filled", q, z, g, R, t)
  BY <1>1, <1>6 DEF RawOK, FirstOK, Filled, DistStarted, b
<1>9. SecondPrefetch("filled", q, z, g, R) /\ SecondNative(shuffler, "filled", q, z, g, R)
  BY <1>l, <1>1 DEF SecondPrefetch, SecondNative, Filled
<1>10. Relied(kind, shuffler, "filled", q, w, z, g, R, t)
  BY <1>1, <1>8, <1>9 DEF Relied
<1>11. StreamsOK(kind, shuffler, "filled", s, l, q, w, z, k, g, R, t)
  BY <1>0, <1>5, <1>7, <1>10 DEF StreamsOK
<1> QED BY <1>5, <1>11 DEF z, b

\* FillSecond: batch i has been distributed and prefetched, batch i + 1 is on its way.
LEMMA SecondCopied ==
  ASSUME NEW s, NEW l, NEW q, NEW w, NEW cs, NEW k, NEW d, NEW R, NEW t,
         StreamsOK(kind, shuffler, "filled", s, l, q, w, cs, k, d, R, t),
         q \in Seq(Nat), q[1] \in Nat, q[1] # None, <<"splits", q[1]>> \in R,
         NEW b \in Nat, NEW m, b = None => m.exhausted /\ m.iter = s
  PROVE  StreamsOK(kind, shuffler, "second", s, m, q, b,
                   [cs EXCEPT ![1] = IF Prefetching THEN Prefetched(Waited(cs[1]), q[1]) ELSE Waited(cs[1])], k,
                   Enqueue(d, WaitSparseDataDist(cs[1]) \o If(Prefetching, Prefetch(Waited(cs[1]), q[1]))
                              \o CopyBatch(b) \o Workloads(b)), R, t)
<1> DEFINE o == q[1]
           c == Waited(cs[1])
           v == IF Prefetching THEN Prefetched(c, o) ELSE c
           z == [cs EXCEPT ![1] = v]
           W == WaitSparseDataDist(cs[1])
           F == If(Prefetching, Prefetch(c, o))
<1>0. /\ DeviceOK(kind, shuffler, d, R) /\ RanOK(shuffler, R) /\ k \in Seq(Nat) /\ TasksRead(k, R)
      /\ cs \in Seq(Contexts)
      /\ cs[1].splits = o /\ cs[1].next = o /\ Has(d, R, "dist", <<"splits", o>>)
  BY DEF StreamsOK, Relied, FirstOK, DistStarted
<1>l. Len(q) = 1 /\ Len(cs) = 1 /\ 1 \in 1..Len(cs)
  <2>1. Len(q) = 1
    BY DEF StreamsOK, ShortOK
  <2>2. Len(cs) = 1
    BY <2>1 DEF StreamsOK, Relied, SecondPrefetch, SecondNative
  <2> QED BY <2>1, <2>2
<1>b. o \in Nat /\ o # None /\ <<"splits", o>> \in R /\ q[1] = o
  OBVIOUS
<1> HIDE DEF o
<1>1. cs[1] \in Contexts
  BY ONLY <1>0, <1>l, ContextAt
<1>2. c \in Contexts /\ c.tensors = o /\ c.module = o /\ c.next = o /\ (Prefetching => c.splits = o)
  BY <1>0, <1>1, <1>b, WaitedIs
<1>3. /\ v \in Contexts
      /\ Prefetching => v.post = <<o, o>> /\ v.splits = o /\ v.next = o
      /\ ~Prefetching => v.tensors = o
  <2> HIDE DEF c
  <2> QED BY <1>2, <1>b, PrefetchedIs
<1>4. z \in Seq(Contexts) /\ Len(z) = 1 /\ z[1] = v
  <2>1. cs \in Seq(Contexts) /\ 1 \in 1..Len(cs) /\ v \in Contexts /\ Len(cs) = 1
    BY <1>0, <1>l, <1>3
  <2> HIDE DEF v
  <2> QED BY ONLY <2>1, OneContext DEF z
<1>5. PICK e : /\ Led(kind, shuffler, R, d, W, e)
               /\ Has(e, R, "dist", <<"tensors", o>>)
  <2>1. W = If(TRUE, W)
    BY DEF If
  <2>2. PICK e : /\ Led(kind, shuffler, R, d, <<>> \o If(TRUE, W), e)
                 /\ Has(e, R, "dist", <<"tensors", o>>)
    BY <1>0, <1>1, <1>b, LedNone, AddTensors
  <2>3. <<>> \o If(TRUE, W) = If(TRUE, W)
    BY FirstPieces
  <2> HIDE DEF W
  <2> QED BY <2>1, <2>2, <2>3
<1> HIDE DEF W, z, v
<1>6. PICK f : /\ Led(kind, shuffler, R, d, W \o F, f) /\ Grown(R, e, f)
               /\ Prefetching => Has(f, R, "prefetch", <<"rows", o>>)
  <2> HIDE DEF c
  <2> QED BY <1>b, <1>2, <1>5, AddRows
<1> HIDE DEF F
<1>7. PICK g : /\ Led(kind, shuffler, R, d, W \o F \o CopyBatch(b), g) /\ Grown(R, f, g)
               /\ b # None => Has(g, R, "memcpy", <<"copy", b>>)
  BY <1>6, AddCopy
<1>8. PICK h : /\ Led(kind, shuffler, R, d, W \o F \o CopyBatch(b) \o Workloads(b), h) /\ Grown(R, g, h)
               /\ b # None /\ shuffler = "balanced" => Has(h, R, "memcpy", <<"workloads", b>>)
  BY <1>7, AddWorkloads
<1>9. h = Enqueue(d, W \o F \o CopyBatch(b) \o Workloads(b)) /\ DeviceOK(kind, shuffler, h, R)
  BY <1>8, LedIs
<1>10. /\ b # None => Has(h, R, "memcpy", <<"copy", b>>)
       /\ Prefetching => Has(h, R, "prefetch", <<"rows", o>>)
       /\ Has(h, R, "dist", <<"tensors", o>>) /\ Has(h, R, "dist", <<"splits", o>>)
  BY <1>b, <1>5, <1>6, <1>7, <1>8, HasRan DEF Grown, Stream
<1>11. ShortOK("second", s, m, q, b)
  BY <1>l DEF ShortOK, Filled
<1>12. RawOK(shuffler, "second", b, h, R)
  BY <1>8, <1>10 DEF RawOK
<1>13. Fed(kind, z[1], o, h, R)
  BY <1>3, <1>4, <1>10 DEF Fed, Prefetching
<1>14. FirstOK(kind, shuffler, "second", q, z, h, R, t)
  BY <1>b, <1>13 DEF FirstOK
<1>15. kind = "prefetch" => SecondPrefetch("second", q, z, h, R)
  BY <1>b, <1>l, <1>3, <1>4, <1>10 DEF SecondPrefetch, DistStarted, Prefetching
<1>16. SecondNative(shuffler, "second", q, z, h, R)
  BY <1>l, <1>4 DEF SecondNative
<1>17. Relied(kind, shuffler, "second", q, b, z, h, R, t)
  BY <1>4, <1>12, <1>14, <1>15, <1>16 DEF Relied
<1>18. StreamsOK(kind, shuffler, "second", s, m, q, b, z, k, h, R, t)
  BY <1>0, <1>9, <1>11, <1>17 DEF StreamsOK
<1> QED BY <1>9, <1>18 DEF z, v, o, W, F

\* One element, and one behind it.
LEMMA AppendTwo ==
  ASSUME NEW S, NEW v \in Seq(S), NEW x \in S
  PROVE  /\ Append(v, x) \in Seq(S)
         /\ Len(v) = 1 => Len(Append(v, x)) = 2 /\ Append(v, x)[1] = v[1] /\ Append(v, x)[2] = x
<1> DEFINE n == Len(v)
           y == Append(v, x)
<1>1. /\ Append(v, x) \in Seq(S) /\ Len(Append(v, x)) = n + 1
      /\ \A i \in 1..n : Append(v, x)[i] = v[i]
      /\ Append(v, x)[n + 1] = x
  BY AppendProperties
<1> HIDE DEF n, y
<1>2. y \in Seq(S) /\ Len(y) = n + 1 /\ (\A i \in 1..n : y[i] = v[i]) /\ y[n + 1] = x
  BY <1>1 DEF y
<1>3. n = 1 => Len(y) = 2 /\ y[1] = v[1] /\ y[2] = x
  BY <1>2
<1> QED BY <1>2, <1>3 DEF n, y

\* One or two elements.
LEMMA OneOrTwo ==
  ASSUME NEW S, NEW v \in Seq(S), Len(v) >= 1, Len(v) <= 2
  PROVE  Len(v) = 1 \/ Len(v) = 2
<1>1. Len(v) \in Nat
  BY LenProperties
<1>2. ASSUME NEW n \in Nat, n >= 1, n <= 2 PROVE n = 1 \/ n = 2
  BY <1>2
<1> QED BY <1>1, <1>2

\* The one context of the pipeline, and a new one behind it.
LEMMA ContextBehind ==
  ASSUME NEW cs \in Seq(Contexts), Len(cs) = 1, NEW c \in Contexts, NEW n \in Contexts
  PROVE  /\ <<c>> \o Tail(cs) \in Seq(Contexts) /\ Len(<<c>> \o Tail(cs)) = 1 /\ (<<c>> \o Tail(cs))[1] = c
         /\ <<c>> \o Tail(cs) \o <<n>> \in Seq(Contexts) /\ Len(<<c>> \o Tail(cs) \o <<n>>) = 2
         /\ (<<c>> \o Tail(cs) \o <<n>>)[1] = c /\ (<<c>> \o Tail(cs) \o <<n>>)[2] = n
<1> DEFINE u == Tail(cs)
           v == <<c>> \o u
<1>1. u \in Seq(Contexts) /\ Len(u) = 0
  BY EmptySeq
<1>2. <<c>> \in Seq(Contexts) /\ Len(<<c>>) = 1 /\ <<c>>[1] = c /\ <<n>> \in Seq(Contexts)
      /\ Len(<<n>>) = 1 /\ <<n>>[1] = n
  OBVIOUS
<1> HIDE DEF u
<1>3. v \in Seq(Contexts) /\ Len(v) = 1 /\ v[1] = c
  BY <1>1, <1>2
<1> HIDE DEF v
<1>4. v \o <<n>> \in Seq(Contexts) /\ Len(v \o <<n>>) = 2 /\ (v \o <<n>>)[1] = c /\ (v \o <<n>>)[2] = n
  <2>1. Append(v, n) = v \o <<n>>
    BY <1>3, AppendIsConcat
  <2>2. /\ Append(v, n) \in Seq(Contexts) /\ Len(Append(v, n)) = 2
        /\ Append(v, n)[1] = v[1] /\ Append(v, n)[2] = n
    BY <1>3, AppendTwo
  <2> QED BY ONLY <1>3, <2>1, <2>2
<1> QED BY <1>3, <1>4 DEF u, v

\* FillEnd: batch i + 1 is in the pipeline.
LEMMA SecondQueued ==
  ASSUME NEW s, NEW l, NEW q, NEW w, NEW cs, NEW k, NEW d, NEW R, NEW t,
         StreamsOK(kind, shuffler, "second", s, l, q, w, cs, k, d, R, t), q \in Seq(Nat), w \in Nat
  PROVE  StreamsOK(kind, shuffler, "begin", s, l, IF w = None THEN q ELSE Append(q, w), w,
                   IF Prefetching THEN <<Started(cs[1], w)>>
                   ELSE IF w = None THEN <<cs[1]>> \o Tail(cs) ELSE <<cs[1]>> \o Tail(cs) \o <<NewContext>>, k,
                   Enqueue(d, Redistribute(w) \o If(Prefetching, StartSparseDataDist(w))), R, t)
<1> DEFINE c == cs[1]
           v == Started(c, w)
           y == IF w = None THEN q ELSE Append(q, w)
           z == IF Prefetching THEN <<v>>
                ELSE IF w = None THEN <<c>> \o Tail(cs) ELSE <<c>> \o Tail(cs) \o <<NewContext>>
<1>l. Len(q) = 1
  BY DEF StreamsOK, ShortOK
<1>m. Len(cs) = 1
  BY <1>l DEF StreamsOK, Relied, SecondPrefetch, SecondNative
<1>0. /\ DeviceOK(kind, shuffler, d, R) /\ RanOK(shuffler, R) /\ k \in Seq(Nat) /\ TasksRead(k, R)
      /\ cs \in Seq(Contexts) /\ RawOK(shuffler, "second", w, d, R)
      /\ FirstOK(kind, shuffler, "second", q, cs, d, R, t)
      /\ ShortOK("second", s, l, q, w)
      /\ kind = "prefetch" => SecondPrefetch("second", q, cs, d, R)
  BY DEF StreamsOK, Relied
<1>1. /\ w # None => Has(d, R, "memcpy", <<"copy", w>>)
      /\ w # None /\ shuffler = "balanced" => Has(d, R, "memcpy", <<"workloads", w>>)
      /\ w = None => l.exhausted /\ l.iter = s
      /\ <<"splits", q[1]>> \in R /\ Fed(kind, c, q[1], d, R)
      /\ kind = "prefetch" => DistStarted(c, q[1], d, R)
  BY <1>0, <1>l DEF RawOK, FirstOK, ShortOK, SecondPrefetch, Filled
<1>2. PICK e : /\ Led(kind, shuffler, R, d, Redistribute(w), e)
               /\ w # None => Has(e, R, "memcpy", Whole(shuffler, w))
  <2>1. \E e : /\ Led(kind, shuffler, R, d, <<>> \o Redistribute(w), e)
               /\ w # None => Has(e, R, "memcpy", Whole(shuffler, w))
    BY <1>0, <1>1, LedNone, AddShuffle
  <2> QED BY <2>1, FirstPieces
<1>3. PICK f : /\ Led(kind, shuffler, R, d, Redistribute(w) \o If(Prefetching, StartSparseDataDist(w)), f)
               /\ Grown(R, e, f)
               /\ Prefetching /\ w # None => Has(f, R, "dist", <<"splits", w>>)
  BY <1>2, AddSplits
<1>4. /\ f = Enqueue(d, Redistribute(w) \o If(Prefetching, StartSparseDataDist(w)))
      /\ DeviceOK(kind, shuffler, f, R) /\ Grown(R, d, f)
  BY <1>3, LedIs
<1>5. w # None => Has(f, R, "memcpy", Whole(shuffler, w))
  BY <1>2, <1>3 DEF Grown, Stream
<1>6. /\ Fed(kind, c, q[1], f, R)
      /\ kind = "prefetch" => DistStarted(c, q[1], f, R)
  BY <1>1, <1>4, GrownHeld
<1>7. /\ Len(y) = IF w = None THEN 1 ELSE 2
      /\ y[1] = q[1] /\ (w # None => y[2] = w)
  <2>1. Len(Append(q, w)) = 2 /\ Append(q, w)[1] = q[1] /\ Append(q, w)[2] = w
    BY <1>l, AppendTwo
  <2> QED BY <1>l, <2>1
<1>8. c \in Contexts
  <2>1. 1 \in 1..Len(cs)
    BY <1>m
  <2> QED BY ONLY <1>0, <2>1, ContextAt
<1>9. /\ v \in Contexts /\ v.post = c.post /\ v.tensors = c.tensors
      /\ w = None => v = c
      /\ w # None => v.splits = w /\ v.next = w
  <2> HIDE DEF c
  <2> QED BY <1>8, StartedIs
<1> HIDE DEF v, c, y
<1>10. /\ z \in Seq(Contexts)
       /\ Prefetching => Len(z) = 1 /\ z[1] = v
       /\ ~Prefetching => /\ Len(z) = (IF w = None THEN 1 ELSE 2) /\ z[1] = c
                          /\ w # None => z[2] = NewContext
  <2>1. CASE Prefetching
    BY <1>9, <2>1
  <2>2. CASE ~Prefetching /\ w = None
    <3>1. z = <<c>> \o Tail(cs)
      BY <2>2
    <3> HIDE DEF z
    <3> QED BY <1>0, <1>m, <1>8, <2>2, <3>1, ContextBehind
  <2>3. CASE ~Prefetching /\ w # None
    <3>1. z = <<c>> \o Tail(cs) \o <<NewContext>>
      BY <2>3
    <3> HIDE DEF z
    <3> QED BY <1>0, <1>m, <1>8, <2>3, <3>1, NewIs, ContextBehind
  <2> QED BY <2>1, <2>2, <2>3
<1> HIDE DEF z
<1>11. ShortOK("begin", s, l, y, w)
  BY <1>1, <1>7 DEF ShortOK, Filled
<1>12. RawOK(shuffler, "begin", w, f, R)
  BY DEF RawOK
<1>13. Fed(kind, z[1], y[1], f, R)
  BY <1>6, <1>7, <1>9, <1>10 DEF Fed, Prefetching
<1>14. FirstOK(kind, shuffler, "begin", y, z, f, R, t)
  BY <1>1, <1>7, <1>13 DEF FirstOK, Filled
<1>15. ASSUME kind = "prefetch" PROVE SecondPrefetch("begin", y, z, f, R)
  <2>1. DistStarted(v, y[Len(y)], f, R)
    <3>1. CASE w = None
      BY <1>6, <1>7, <1>9, <1>15, <3>1
    <3>2. CASE w # None
      BY <1>3, <1>7, <1>9, <1>15, <3>2 DEF DistStarted, Prefetching
    <3> QED BY <3>1, <3>2
  <2> QED BY <2>1, <1>10, <1>15 DEF SecondPrefetch, Prefetching
<1>16. kind # "prefetch" => SecondNative(shuffler, "begin", y, z, f, R)
  BY <1>5, <1>7, <1>10 DEF SecondNative, Prefetching
<1>17. Relied(kind, shuffler, "begin", y, w, z, f, R, t)
  BY <1>10, <1>12, <1>14, <1>15, <1>16 DEF Relied
<1>18. StreamsOK(kind, shuffler, "begin", s, l, y, w, z, k, f, R, t)
  BY <1>0, <1>4, <1>11, <1>17 DEF StreamsOK
<1> QED BY <1>4, <1>18 DEF y, z, v, c

\* Begin: the loss tokens are counted, the input dist of batch i + 1 starts in "native".
LEMMA BeginOK ==
  ASSUME NEW p, NEW s, NEW l, NEW q, NEW w, NEW cs, NEW k, NEW d, NEW R, NEW r,
         StreamsOK(kind, shuffler, p, s, l, q, w, cs, k, d, R, Training(r)),
         p \in {"begin", "call"}, q \in Seq(Nat), Len(q) >= 1, \A i \in 1..Len(q) : q[i] \in Nat /\ q[i] # None,
         NEW b \in Nat, NEW m, b = None => m.exhausted /\ m.iter = s,
         l.exhausted /\ l.iter = s => b = None, NEW ahead, ahead = (~Prefetching /\ Len(q) >= 2)
  PROVE  StreamsOK(kind, shuffler, "dist", s, m, q, b,
                   IF ahead THEN [cs EXCEPT ![2] = Started(@, q[2])] ELSE cs, k,
                   Enqueue(d, GlobalTokens(r, q[1]) \o If(ahead, StartSparseDataDist(q[2])) \o CopyBatch(b)),
                   R, Training(r))
<1> DEFINE o == q[1]
           z == IF ahead THEN [cs EXCEPT ![2] = Started(@, q[2])] ELSE cs
           T == Training(r)
<1>l. (Len(q) = 1 \/ Len(q) = 2) /\ 1 \in 1..Len(q) /\ (ahead => Len(q) = 2 /\ 2 \in 1..Len(q))
  <2>1. Len(q) <= 2 /\ Len(q) \in Nat
    BY DEF StreamsOK, ShortOK
  <2>2. Len(q) = 1 \/ Len(q) = 2
    BY <2>1, OneOrTwo
  <2>3. ahead => Len(q) >= 2
    OBVIOUS
  <2> QED BY ONLY <2>2, <2>3
<1>a. /\ ahead => kind # "prefetch"
      /\ kind # "prefetch" /\ Len(q) = 2 => ahead
  <2>1. Len(q) = 2 => Len(q) >= 2
    OBVIOUS
  <2> QED BY <2>1 DEF Prefetching
<1>0. /\ DeviceOK(kind, shuffler, d, R) /\ RanOK(shuffler, R) /\ k \in Seq(Nat) /\ TasksRead(k, R)
      /\ cs \in Seq(Contexts)
      /\ FirstOK(kind, shuffler, p, q, cs, d, R, T)
      /\ ShortOK(p, s, l, q, w)
      /\ kind = "prefetch" => SecondPrefetch(p, q, cs, d, R)
      /\ kind # "prefetch" => SecondNative(shuffler, p, q, cs, d, R)
  BY DEF StreamsOK, Relied
<1>1. /\ Filled(p, q) /\ p # "second" /\ p # "finish"
  BY DEF Filled
<1>2. /\ <<"splits", o>> \in R /\ Fed(kind, cs[1], o, d, R)
      /\ Len(q) = 1 => b = None
      /\ kind = "prefetch" => Len(cs) = 1 /\ DistStarted(cs[1], q[Len(q)], d, R)
      /\ kind # "prefetch" => Len(cs) = Len(q)
      /\ ahead => cs[2] = NewContext /\ Has(d, R, "memcpy", Whole(shuffler, q[2]))
  <2>1. <<"splits", o>> \in R /\ Fed(kind, cs[1], o, d, R)
    BY <1>0, <1>1 DEF FirstOK
  <2>2. Len(q) = 1 => b = None
    BY <1>0, <1>1 DEF ShortOK
  <2>3. kind = "prefetch" => Len(cs) = 1 /\ DistStarted(cs[1], q[Len(q)], d, R)
    BY <1>0, <1>1 DEF SecondPrefetch
  <2>4. kind # "prefetch" => Len(cs) = Len(q)
    BY <1>0 DEF SecondNative
  <2>5. ahead => cs[2] = NewContext /\ Has(d, R, "memcpy", Whole(shuffler, q[2]))
    BY <1>0, <1>l DEF SecondNative, Prefetching
  <2> QED BY <2>1, <2>2, <2>3, <2>4, <2>5
<1>3. Whole(shuffler, o) \in R /\ o \in Nat
  BY <1>0, <1>2, <1>l DEF RanOK
<1>4. PICK e : /\ Led(kind, shuffler, R, d, GlobalTokens(r, o), e)
               /\ T => Has(e, R, "default", <<"tokens", o>>)
  <2>1. \E e : /\ Led(kind, shuffler, R, d, <<>> \o GlobalTokens(r, o), e)
               /\ T => Has(e, R, "default", <<"tokens", o>>)
    <3> HIDE DEF o
    <3> QED BY <1>0, <1>3, LedNone, AddTokens
  <2> QED BY <2>1, FirstPieces
<1>5. ahead => Has(e, R, "memcpy", Whole(shuffler, q[2]))
  BY <1>2, <1>4, LedIs DEF Grown, Stream
<1>6. ahead => q[2] \in Nat /\ q[2] # None
  BY <1>l
<1> DEFINE o2 == q[2]
           G == GlobalTokens(r, o)
           S == If(ahead, StartSparseDataDist(o2))
<1>7. PICK f : /\ Led(kind, shuffler, R, d, G \o S, f) /\ Grown(R, e, f)
               /\ ahead => Has(f, R, "dist", <<"splits", o2>>)
  <2>1. /\ ahead => o2 \in Nat /\ o2 # None
        /\ ahead => Has(e, R, "memcpy", Whole(shuffler, o2)) /\ Led(kind, shuffler, R, d, G, e)
    BY <1>4, <1>5, <1>6
  <2>2. Led(kind, shuffler, R, d, G, e)
    BY <1>4
  <2> HIDE DEF o2, G
  <2> QED BY ONLY <2>1, <2>2, AddSplits
<1> HIDE DEF G, S
<1>8. PICK g : /\ Led(kind, shuffler, R, d, G \o S \o CopyBatch(b), g) /\ Grown(R, f, g)
               /\ b # None => Has(g, R, "memcpy", <<"copy", b>>)
  BY <1>7, AddCopy
<1>9. g = Enqueue(d, G \o S \o CopyBatch(b)) /\ DeviceOK(kind, shuffler, g, R) /\ Grown(R, d, g)
  BY <1>8, LedIs
<1>10. /\ T => Has(g, R, "default", <<"tokens", o>>)
       /\ ahead => Has(g, R, "dist", <<"splits", o2>>)
  BY <1>4, <1>7, <1>8 DEF Grown, Stream
<1>11. /\ z \in Seq(Contexts) /\ Len(z) = Len(cs) /\ z[1] = cs[1]
       /\ ~ahead => z = cs
       /\ ahead => z[2].splits = o2 /\ z[2].next = o2
  <2>1. CASE ahead
    <3> DEFINE v == Started(cs[2], o2)
    <3>1. /\ kind # "prefetch" /\ Len(cs) = 2
      BY <1>2, <1>l, <2>1 DEF Prefetching
    <3>2. cs \in Seq(Contexts) /\ 2 \in 1..Len(cs) /\ 1 \in 1..Len(cs)
      BY <1>0, <3>1
    <3>3. cs[2] \in Contexts
      BY ONLY <3>2, ContextAt
    <3>4. v \in Contexts /\ v.splits = o2 /\ v.next = o2
      BY <1>6, <2>1, <3>3, StartedIs
    <3>5. z = [cs EXCEPT ![2] = v]
      BY <2>1
    <3> HIDE DEF v, z
    <3>6. z \in Seq(Contexts) /\ Len(z) = Len(cs) /\ z[2] = v /\ z[1] = cs[1]
      BY ONLY <3>2, <3>4, <3>5, OneContext
    <3> QED BY <2>1, <3>4, <3>6
  <2>2. CASE ~ahead
    BY <1>0, <2>2
  <2> QED BY <2>1, <2>2
<1> HIDE DEF z
<1>12. ShortOK("dist", s, m, q, b)
  BY <1>l, <1>2 DEF ShortOK, Filled
<1>13. RawOK(shuffler, "dist", b, g, R)
  BY <1>8 DEF RawOK
<1>14. /\ Fed(kind, z[1], o, g, R)
       /\ kind = "prefetch" => DistStarted(z[1], q[Len(q)], g, R)
  <2>1. /\ Fed(kind, cs[1], o, g, R)
        /\ kind = "prefetch" => DistStarted(cs[1], q[Len(q)], g, R)
    BY <1>2, <1>9, GrownHeld
  <2> QED BY <1>11, <2>1
<1>15. FirstOK(kind, shuffler, "dist", q, z, g, R, T)
  BY <1>2, <1>10, <1>14 DEF FirstOK, Filled
<1>16. kind = "prefetch" => SecondPrefetch("dist", q, z, g, R)
  BY <1>2, <1>11, <1>14 DEF SecondPrefetch
<1>17. kind # "prefetch" => SecondNative(shuffler, "dist", q, z, g, R)
  BY <1>a, <1>2, <1>10, <1>11 DEF SecondNative, DistStarted
<1>18. Relied(kind, shuffler, "dist", q, b, z, g, R, T)
  BY <1>11, <1>13, <1>15, <1>16, <1>17 DEF Relied
<1>19. StreamsOK(kind, shuffler, "dist", s, m, q, b, z, k, g, R, T)
  BY <1>0, <1>9, <1>12, <1>18 DEF StreamsOK
<1> QED BY <1>9, <1>19 DEF z, G, S

\* WaitDist: the input dist of batch i + 1 has been waited for.
LEMMA DistDone ==
  ASSUME NEW s, NEW l, NEW q, NEW w, NEW cs, NEW k, NEW d, NEW R, NEW t,
         StreamsOK(kind, shuffler, "dist", s, l, q, w, cs, k, d, R, t),
         q \in Seq(Nat), Len(q) >= 1, \A i \in 1..Len(q) : q[i] \in Nat /\ q[i] # None, w \in Nat,
         NEW i, i = IF Prefetching THEN 1 ELSE 2, NEW there, there = (i \in DOMAIN cs),
         there => <<"splits", cs[i].splits>> \in R
  PROVE  StreamsOK(kind, shuffler, "forward", s, l, q, w,
                   IF there THEN [cs EXCEPT ![i] = Waited(@)] ELSE cs, k,
                   Enqueue(d, If(there, WaitSparseDataDist(cs[i])) \o Workloads(w)), R, t)
<1> DEFINE c == cs[i]
           v == Waited(c)
           o == q[Len(q)]
           z == IF there THEN [cs EXCEPT ![i] = v] ELSE cs
           W == If(there, WaitSparseDataDist(c))
<1>l. (Len(q) = 1 \/ Len(q) = 2) /\ 1 \in 1..Len(q) /\ o \in Nat /\ o # None
  <2>1. Len(q) <= 2
    BY DEF StreamsOK, ShortOK
  <2>2. Len(q) = 1 \/ Len(q) = 2
    BY <2>1, OneOrTwo
  <2>3. 1 \in 1..Len(q) /\ Len(q) \in 1..Len(q)
    BY ONLY <2>2
  <2> QED BY <2>2, <2>3
<1>0. /\ DeviceOK(kind, shuffler, d, R) /\ RanOK(shuffler, R) /\ k \in Seq(Nat) /\ TasksRead(k, R)
      /\ cs \in Seq(Contexts) /\ RawOK(shuffler, "dist", w, d, R)
      /\ FirstOK(kind, shuffler, "dist", q, cs, d, R, t)
      /\ ShortOK("dist", s, l, q, w)
      /\ kind = "prefetch" => SecondPrefetch("dist", q, cs, d, R)
      /\ kind # "prefetch" => SecondNative(shuffler, "dist", q, cs, d, R)
  BY DEF StreamsOK, Relied
<1>1. /\ <<"splits", q[1]>> \in R /\ Fed(kind, cs[1], q[1], d, R)
      /\ t => Has(d, R, "default", <<"tokens", q[1]>>)
      /\ w # None => Has(d, R, "memcpy", <<"copy", w>>)
  BY <1>0 DEF FirstOK, RawOK, Filled
<1>2. /\ kind = "prefetch" => Len(cs) = 1 /\ DistStarted(cs[1], o, d, R)
      /\ kind # "prefetch" => Len(cs) = Len(q) /\ (Len(q) = 2 => DistStarted(cs[2], o, d, R))
  <2>1. Len(q) >= 1 /\ Filled("dist", q)
    BY DEF Filled
  <2> QED BY <1>0, <2>1 DEF SecondPrefetch, SecondNative
<1>3. DOMAIN cs = 1..Len(cs)
  BY <1>0
<1>4. /\ kind = "prefetch" => i = 1 /\ there
      /\ kind # "prefetch" => i = 2 /\ (there <=> Len(q) = 2)
      /\ there => i \in 1..Len(cs)
  <2>1. kind = "prefetch" => i = 1 /\ i \in 1..Len(cs)
    <3>1. Len(cs) = 1 => 1 \in 1..Len(cs)
      OBVIOUS
    <3> QED BY <1>2, <3>1 DEF Prefetching
  <2>2. kind # "prefetch" => i = 2 /\ (i \in 1..Len(cs) <=> Len(q) = 2)
    <3>1. (Len(q) = 1 => ~(2 \in 1..Len(q))) /\ (Len(q) = 2 => 2 \in 1..Len(q))
      OBVIOUS
    <3> QED BY <1>l, <1>2, <3>1 DEF Prefetching
  <2> QED BY <1>3, <2>1, <2>2
<1>5. there => DistStarted(c, o, d, R) /\ c \in Contexts
  <2>1. there => DistStarted(c, o, d, R)
    BY <1>2, <1>4
  <2>2. there => c \in Contexts
    BY <1>0, <1>4, ContextAt
  <2> QED BY <2>1, <2>2
<1>6. there => c.splits = o /\ c.next = o /\ Has(d, R, "dist", <<"splits", o>>) /\ <<"splits", o>> \in R
  BY <1>5 DEF DistStarted
<1> HIDE DEF c, o
<1>7. there => /\ v \in Contexts /\ v.tensors = o /\ v.module = o /\ v.next = o /\ v.post = c.post
               /\ Prefetching => v.splits = o
  BY <1>l, <1>5, <1>6, WaitedIs
<1> HIDE DEF v
<1>8. PICK e : /\ Led(kind, shuffler, R, d, W, e)
               /\ there => Has(e, R, "dist", <<"tensors", o>>)
  <2>1. \E e : /\ Led(kind, shuffler, R, d, <<>> \o If(there, WaitSparseDataDist(c)), e)
               /\ there /\ c.splits # None => Has(e, R, "dist", <<"tensors", c.splits>>)
    <3>1. Led(kind, shuffler, R, d, <<>>, d)
      BY <1>0, LedNone
    <3>2. there => c \in Contexts
      BY <1>5
    <3>3. there /\ c.splits # None => Has(d, R, "dist", <<"splits", c.splits>>)
      BY <1>6
    <3> QED BY ONLY <3>1, <3>2, <3>3, AddTensors
  <2>2. <<>> \o If(there, WaitSparseDataDist(c)) = W
    BY FirstPieces
  <2> QED BY <1>l, <1>6, <2>1, <2>2
<1> HIDE DEF W
<1>9. PICK f : /\ Led(kind, shuffler, R, d, W \o Workloads(w), f) /\ Grown(R, e, f)
               /\ w # None /\ shuffler = "balanced" => Has(f, R, "memcpy", <<"workloads", w>>)
  <2>1. w # None => Has(e, R, "memcpy", <<"copy", w>>)
    BY <1>1, <1>8, LedIs DEF Grown, Stream
  <2> QED BY <1>8, <2>1, AddWorkloads
<1>10. f = Enqueue(d, W \o Workloads(w)) /\ DeviceOK(kind, shuffler, f, R) /\ Grown(R, d, f)
  BY <1>9, LedIs
<1>11. /\ t => Has(f, R, "default", <<"tokens", q[1]>>)
       /\ w # None => Has(f, R, "memcpy", <<"copy", w>>)
       /\ there => Has(f, R, "dist", <<"tensors", o>>) /\ Has(f, R, "dist", <<"splits", o>>)
       /\ Fed(kind, cs[1], q[1], f, R)
  <2>1. Fed(kind, cs[1], q[1], f, R)
    BY <1>1, <1>10, GrownHeld
  <2> QED BY <1>1, <1>6, <1>8, <1>9, <1>10, <2>1 DEF Grown, Stream
<1>12. /\ z \in Seq(Contexts) /\ Len(z) = Len(cs)
       /\ there => z[i] = v
       /\ i # 1 /\ 1 \in 1..Len(cs) => z[1] = cs[1]
  <2>1. CASE there
    <3>1. z = [cs EXCEPT ![i] = v]
      BY <2>1 DEF c, v
    <3>2. cs \in Seq(Contexts) /\ i \in 1..Len(cs) /\ v \in Contexts
      BY <1>0, <1>4, <1>7, <2>1
    <3> HIDE DEF z
    <3> QED BY ONLY <3>1, <3>2, OneContext
  <2>2. CASE ~there
    BY <1>0, <2>2
  <2> QED BY <2>1, <2>2
<1> HIDE DEF z
<1>13. ShortOK("forward", s, l, q, w)
  BY <1>0 DEF ShortOK, Filled
<1>14. RawOK(shuffler, "forward", w, f, R)
  BY <1>9, <1>11 DEF RawOK
<1>15. Fed(kind, z[1], q[1], f, R)
  <2>1. CASE kind = "prefetch"
    <3>1. z[1] = v /\ v.post = c.post /\ c = cs[1]
      BY <2>1, <1>4, <1>7, <1>12 DEF c
    <3> QED BY <2>1, <3>1, <1>11 DEF Fed
  <2>2. CASE kind # "prefetch"
    <3>1. z[1] = cs[1]
      BY <2>2, <1>l, <1>2, <1>4, <1>12
    <3> QED BY <3>1, <1>11
  <2> QED BY <2>1, <2>2
<1>16. FirstOK(kind, shuffler, "forward", q, z, f, R, t)
  BY <1>1, <1>11, <1>15 DEF FirstOK, Filled
<1>17. there => DistWaited(z[i], o, f, R)
  BY <1>6, <1>7, <1>11, <1>12 DEF DistWaited
<1>18. kind = "prefetch" => SecondPrefetch("forward", q, z, f, R)
  <2>1. kind = "prefetch" => DistStarted(z[1], o, f, R)
    BY <1>4, <1>7, <1>11, <1>12 DEF DistStarted, Prefetching
  <2> QED BY <2>1, <1>2, <1>4, <1>12, <1>17 DEF SecondPrefetch, o
<1>19. kind # "prefetch" => SecondNative(shuffler, "forward", q, z, f, R)
  <2>1. Len(q) = 2 => o = q[2]
    BY DEF o
  <2> QED BY <2>1, <1>2, <1>4, <1>12, <1>17 DEF SecondNative
<1>20. Relied(kind, shuffler, "forward", q, w, z, f, R, t)
  BY <1>12, <1>14, <1>16, <1>18, <1>19 DEF Relied
<1>21. StreamsOK(kind, shuffler, "forward", s, l, q, w, z, k, f, R, t)
  BY <1>0, <1>10, <1>13, <1>20 DEF StreamsOK
<1> QED BY <1>10, <1>21 DEF z, W, v, c

\* Forward: the model runs on batch i, and the KK thread gets the workloads of raw_batch.
LEMMA ModelRuns ==
  ASSUME NEW s, NEW l, NEW q, NEW w, NEW cs, NEW k, NEW d, NEW R, NEW t,
         StreamsOK(kind, shuffler, "forward", s, l, q, w, cs, k, d, R, t),
         q \in Seq(Nat), Len(q) >= 1, \A i \in 1..Len(q) : q[i] \in Nat /\ q[i] # None, w \in Nat,
         w # None /\ Balanced => <<"workloads", w>> \in R
  PROVE  StreamsOK(kind, shuffler, "finish", s, l, q, w, [cs EXCEPT ![1] = Popped(@)],
                   k \o If(w # None /\ Balanced, <<w>>),
                   Enqueue(d, <<Launch("default", "forward", q[1], ForwardData(cs[1]),
                                       IF Prefetching THEN {"dist", "prefetch"} ELSE {"dist"})>>), R, t)
<1> DEFINE c == cs[1]
           v == Popped(c)
           b == q[1]
           o == q[Len(q)]
           z == [cs EXCEPT ![1] = v]
           j == k \o If(w # None /\ Balanced, <<w>>)
           code == <<Launch("default", "forward", b, b, IF Prefetching THEN {"dist", "prefetch"} ELSE {"dist"})>>
<1>l. (Len(q) = 1 \/ Len(q) = 2) /\ 1 \in 1..Len(q) /\ b \in Nat
  <2>1. Len(q) <= 2
    BY DEF StreamsOK, ShortOK
  <2>2. Len(q) = 1 \/ Len(q) = 2
    BY <2>1, OneOrTwo
  <2>3. 1 \in 1..Len(q) /\ Len(q) \in 1..Len(q)
    BY ONLY <2>2
  <2> QED BY <2>2, <2>3
<1>0. /\ DeviceOK(kind, shuffler, d, R) /\ RanOK(shuffler, R) /\ k \in Seq(Nat) /\ TasksRead(k, R)
      /\ cs \in Seq(Contexts) /\ RawOK(shuffler, "forward", w, d, R)
      /\ FirstOK(kind, shuffler, "forward", q, cs, d, R, t)
      /\ ShortOK("forward", s, l, q, w)
      /\ kind = "prefetch" => SecondPrefetch("forward", q, cs, d, R)
      /\ kind # "prefetch" => SecondNative(shuffler, "forward", q, cs, d, R)
  BY DEF StreamsOK, Relied
<1>1. /\ <<"splits", b>> \in R /\ Fed(kind, c, b, d, R)
      /\ t => Has(d, R, "default", <<"tokens", b>>)
  BY <1>0 DEF FirstOK, Filled
<1>2. /\ kind = "prefetch" => Len(cs) = 1 /\ DistStarted(c, o, d, R) /\ DistWaited(c, o, d, R)
      /\ kind # "prefetch" => Len(cs) = Len(q) /\ (Len(q) = 2 => DistWaited(cs[2], q[2], d, R))
  <2>1. Len(q) >= 1 /\ Filled("forward", q)
    BY DEF Filled
  <2> QED BY <1>0, <2>1 DEF SecondPrefetch, SecondNative
<1>3. 1 \in 1..Len(cs) /\ (kind # "prefetch" /\ Len(q) = 2 => 2 \in 1..Len(cs))
  <2>1. /\ Len(cs) = 1 \/ Len(cs) = 2
        /\ kind # "prefetch" /\ Len(q) = 2 => Len(cs) = 2
    BY <1>l, <1>2
  <2> QED BY ONLY <2>1
<1>4. c \in Contexts
  BY ONLY <1>0, <1>3, ContextAt
<1>5. /\ v \in Contexts /\ v.splits = c.splits /\ v.next = c.next /\ v.module = c.module
      /\ Prefetching => v.tensors = c.tensors
  <2> HIDE DEF c
  <2> QED BY <1>4, PoppedIs
<1>6. ForwardData(c) = b
  <2> HIDE DEF c, b
  <2>1. CASE kind = "prefetch"
    <3>1. c.post = <<b, b>>
      BY <1>1, <2>1 DEF Fed
    <3> QED BY <2>1, <3>1 DEF ForwardData, Prefetching
  <2>2. CASE kind # "prefetch"
    BY <1>1, <2>2 DEF ForwardData, Prefetching, Fed
  <2> QED BY <2>1, <2>2
<1>7. Has(d, R, IF Prefetching THEN "prefetch" ELSE "dist", Input(kind, b))
  BY <1>1 DEF Fed, Input, Prefetching
<1> HIDE DEF c, v, b, o
<1>8. PICK e : Led(kind, shuffler, R, d, code, e) /\ Has(e, R, "default", <<"forward", b>>)
  <2>1. \E e : Led(kind, shuffler, R, d, <<>> \o code, e) /\ Has(e, R, "default", <<"forward", b>>)
    BY <1>l, <1>0, <1>7, LedNone, AddForward
  <2>2. <<>> \o code = code
    BY FirstPieces
  <2> QED BY <2>1, <2>2
<1> HIDE DEF code
<1>9. e = Enqueue(d, code) /\ DeviceOK(kind, shuffler, e, R) /\ Grown(R, d, e)
  BY <1>8, LedIs
<1>10. /\ z \in Seq(Contexts) /\ Len(z) = Len(cs) /\ z[1] = v
       /\ 2 \in 1..Len(cs) => z[2] = cs[2]
  <2>1. cs \in Seq(Contexts)
    BY <1>0
  <2> QED BY ONLY <1>3, <1>5, <2>1, OneContext DEF z
<1> HIDE DEF z
<1>11. j \in Seq(Nat) /\ TasksRead(j, R)
  <2> DEFINE u == w # None /\ Balanced
  <2>1. CASE ~u
    <3>1. j = k
      BY <1>0, <2>1 DEF If
    <3> QED BY <1>0, <3>1
  <2>2. CASE u
    <3>1. j = k \o <<w>>
      BY <2>2 DEF If
    <3>2. Append(k, w) = k \o <<w>>
      BY <1>0, AppendIsConcat
    <3>3. /\ Append(k, w) \in Seq(Nat) /\ Len(Append(k, w)) = Len(k) + 1 /\ Len(k) \in Nat
          /\ \A i \in 1..Len(k) : Append(k, w)[i] = k[i]
          /\ Append(k, w)[Len(k) + 1] = w
      BY <1>0, AppendProperties
    <3> HIDE DEF j
    <3>4. j \in Seq(Nat) /\ \A i \in 1..Len(j) : i = Len(k) + 1 \/ i \in 1..Len(k)
      BY <3>1, <3>2, <3>3
    <3>5. \A i \in 1..Len(j) : <<"workloads", j[i]>> \in R
      BY <1>0, <2>2, <3>1, <3>2, <3>3, <3>4 DEF TasksRead
    <3> QED BY <3>4, <3>5 DEF TasksRead
  <2> QED BY <2>1, <2>2
<1> HIDE DEF j
<1>12. ShortOK("finish", s, l, q, w)
  BY <1>0 DEF ShortOK, Filled
<1>13. RawOK(shuffler, "finish", w, e, R)
  BY <1>0, <1>9 DEF RawOK, Grown, Stream
<1>14. FirstOK(kind, shuffler, "finish", q, z, e, R, t)
  <2>1. t => Has(e, R, "default", <<"tokens", b>>)
    BY <1>1, <1>9 DEF Grown, Stream
  <2> QED BY <1>1, <1>8, <2>1 DEF FirstOK, b
<1>15. kind = "prefetch" => SecondPrefetch("finish", q, z, e, R)
  <2>1. kind = "prefetch" => DistStarted(c, o, e, R) /\ DistWaited(c, o, e, R)
    BY <1>2, <1>9, GrownHeld
  <2>2. kind = "prefetch" => DistStarted(v, o, e, R) /\ DistWaited(v, o, e, R)
    BY <2>1, <1>5 DEF DistStarted, DistWaited, Prefetching
  <2> QED BY <2>2, <1>2, <1>10 DEF SecondPrefetch, o
<1>16. kind # "prefetch" => SecondNative(shuffler, "finish", q, z, e, R)
  <2>1. kind # "prefetch" /\ Len(q) = 2 => DistWaited(cs[2], q[2], e, R)
    BY <1>2, <1>9, GrownHeld
  <2> QED BY <2>1, <1>2, <1>3, <1>10 DEF SecondNative
<1>17. Relied(kind, shuffler, "finish", q, w, z, e, R, t)
  BY <1>10, <1>13, <1>14, <1>15, <1>16 DEF Relied
<1>18. StreamsOK(kind, shuffler, "finish", s, l, q, w, z, j, e, R, t)
  BY <1>0, <1>9, <1>11, <1>12, <1>17 DEF StreamsOK
<1> QED BY <1>6, <1>9, <1>18 DEF z, j, code, v, c, b

\* The pipeline moves on: what is left of one or two elements, and one behind.
LEMMA MovesOn ==
  ASSUME NEW S, NEW v \in Seq(S), v # <<>>, NEW x \in S
  PROVE  /\ Tail(v) \in Seq(S) /\ Tail(v) \o <<>> = Tail(v) /\ Tail(v) \o <<x>> \in Seq(S)
         /\ Len(v) = 1 => Len(Tail(v)) = 0
         /\ Len(v) = 2 => Len(Tail(v)) = 1 /\ Tail(v)[1] = v[2]
         /\ Len(v) = 2 => LET y == Tail(v) \o <<x>> IN Len(y) = 2 /\ y[1] = v[2] /\ y[2] = x
<1> DEFINE u == Tail(v)
           n == Len(v)
           y == u \o <<x>>
<1>1. u \in Seq(S) /\ Len(u) = n - 1 /\ n \in Nat /\ \A i \in 1..Len(u) : u[i] = v[i + 1]
  BY HeadTailProperties, LenProperties
<1> HIDE DEF u, n
<1>2. /\ n = 1 => Len(u) = 0
      /\ n = 2 => Len(u) = 1
  BY ONLY <1>1
<1>3. n = 2 => u[1] = v[2]
  <2>1. n = 2 => 1 \in 1..Len(u)
    BY ONLY <1>1
  <2> QED BY <1>1, <2>1
<1>4. y = Append(u, x) /\ u \o <<>> = u
  BY <1>1, AppendIsConcat
<1>5. /\ Append(u, x) \in Seq(S)
      /\ Len(u) = 1 => Len(Append(u, x)) = 2 /\ Append(u, x)[1] = u[1] /\ Append(u, x)[2] = x
  BY <1>1, AppendTwo
<1> HIDE DEF y
<1>6. y \in Seq(S) /\ (n = 2 => Len(y) = 2 /\ y[1] = v[2] /\ y[2] = x)
  BY ONLY <1>2, <1>3, <1>4, <1>5
<1> QED BY ONLY <1>1, <1>2, <1>3, <1>4, <1>6 DEF u, n, y

\* Finish: the next batch becomes batch i, and raw_batch the one behind it.
LEMMA PipelineAdvances ==
  ASSUME NEW s, NEW l, NEW q, NEW w, NEW cs, NEW k, NEW d, NEW R, NEW r,
         StreamsOK(kind, shuffler, "finish", s, l, q, w, cs, k, d, R, Training(r)),
         q \in Seq(Nat), Len(q) >= 1, \A i \in 1..Len(q) : q[i] \in Nat /\ q[i] # None, w \in Nat,
         NEW ahead, ahead = IF Prefetching /\ Len(q) >= 2 THEN q[2] ELSE None
  PROVE  StreamsOK(kind, shuffler, "call", s, l, Tail(q) \o If(w # None, <<w>>), None,
                   IF Prefetching THEN <<Started(Prefetched(cs[1], ahead), w)>>
                   ELSE Tail(cs) \o If(w # None, <<NewContext>>), k,
                   Enqueue(d, Redistribute(w) \o CommunicatorGuard \o Prefetch(cs[1], ahead)
                              \o Backward(r, q[1]) \o If(Prefetching, StartSparseDataDist(w))),
                   R, Training(r))
<1> DEFINE T == Training(r)
           c == cs[1]
           b == q[1]
           o == q[Len(q)]
           p == Prefetched(c, ahead)
           v == Started(p, w)
           y == Tail(q) \o If(w # None, <<w>>)
           z == IF Prefetching THEN <<v>> ELSE Tail(cs) \o If(w # None, <<NewContext>>)
<1>l. (Len(q) = 1 \/ Len(q) = 2) /\ 1 \in 1..Len(q) /\ b \in Nat /\ o \in Nat /\ o # None /\ q # <<>>
  <2>1. Len(q) <= 2
    BY DEF StreamsOK, ShortOK
  <2>2. Len(q) = 1 \/ Len(q) = 2
    BY <2>1, OneOrTwo
  <2>3. 1 \in 1..Len(q) /\ Len(q) \in 1..Len(q)
    BY ONLY <2>2
  <2>4. Len(<<>>) = 0
    OBVIOUS
  <2> QED BY <2>2, <2>3, <2>4
<1>0. /\ DeviceOK(kind, shuffler, d, R) /\ RanOK(shuffler, R) /\ k \in Seq(Nat) /\ TasksRead(k, R)
      /\ cs \in Seq(Contexts) /\ RawOK(shuffler, "finish", w, d, R)
      /\ FirstOK(kind, shuffler, "finish", q, cs, d, R, T)
      /\ ShortOK("finish", s, l, q, w)
      /\ kind = "prefetch" => SecondPrefetch("finish", q, cs, d, R)
      /\ kind # "prefetch" => SecondNative(shuffler, "finish", q, cs, d, R)
  BY DEF StreamsOK, Relied
<1>1. /\ T => Has(d, R, "default", <<"tokens", b>>)
      /\ Has(d, R, "default", <<"forward", b>>)
      /\ w # None => Has(d, R, "memcpy", <<"copy", w>>)
      /\ w # None /\ shuffler = "balanced" => Has(d, R, "memcpy", <<"workloads", w>>)
      /\ w = None => l.exhausted /\ l.iter = s
      /\ Len(q) = 1 => w = None
  BY <1>0 DEF FirstOK, RawOK, ShortOK
<1>2. /\ kind = "prefetch" => Len(cs) = 1 /\ DistStarted(c, o, d, R) /\ DistWaited(c, o, d, R)
      /\ kind # "prefetch" => Len(cs) = Len(q) /\ (Len(q) = 2 => DistWaited(cs[2], q[2], d, R))
  <2>1. Len(q) >= 1 /\ Filled("finish", q)
    BY DEF Filled
  <2> QED BY <1>0, <2>1 DEF SecondPrefetch, SecondNative
<1>3. /\ 1 \in 1..Len(cs) /\ cs # <<>>
  <2>1. /\ Len(cs) = 1 \/ Len(cs) = 2
    BY <1>l, <1>2
  <2>4. Len(<<>>) = 0
    OBVIOUS
  <2>5. 1 \in 1..Len(cs)
    BY ONLY <2>1
  <2> QED BY <2>1, <2>4, <2>5
<1>4. c \in Contexts
  BY ONLY <1>0, <1>3, ContextAt
<1>a. /\ ahead \in Nat
      /\ ahead # None => kind = "prefetch" /\ Len(q) = 2 /\ ahead = o
      /\ kind = "prefetch" /\ Len(q) = 2 => ahead = o /\ ahead # None
  <2>1. (Len(q) = 2 <=> Len(q) >= 2) /\ (Len(q) = 2 => q[2] = o)
    BY <1>l
  <2>2. CASE Prefetching /\ Len(q) = 2
    BY <1>l, <2>1, <2>2 DEF Prefetching
  <2>3. CASE ~(Prefetching /\ Len(q) = 2)
    BY <2>1, <2>3 DEF Prefetching, None
  <2> QED BY <2>2, <2>3
<1>b. ahead # None => c.tensors = ahead /\ c.module = ahead /\ Has(d, R, "dist", <<"tensors", ahead>>)
  BY <1>a, <1>2 DEF DistWaited
<1> HIDE DEF c, b, o
<1>5. /\ p \in Contexts /\ p.splits = c.splits /\ p.next = c.next
      /\ ahead # None => p.post = <<ahead, ahead>>
  BY <1>4, <1>b, PrefetchedIs
<1> HIDE DEF p
<1>6. /\ v \in Contexts /\ v.post = p.post
      /\ w = None => v.splits = p.splits /\ v.next = p.next
      /\ w # None => v.splits = w /\ v.next = w
  BY <1>5, StartedIs
<1> HIDE DEF v
<1> DEFINE C1 == Redistribute(w)
           C2 == C1 \o CommunicatorGuard
           C3 == C2 \o Prefetch(c, ahead)
           C4 == C3 \o Backward(r, b)
           C5 == C4 \o If(Prefetching, StartSparseDataDist(w))
<1>7. PICK e1 : Led(kind, shuffler, R, d, C1, e1) /\ (w # None => Has(e1, R, "memcpy", Whole(shuffler, w)))
  <2>1. \E e : /\ Led(kind, shuffler, R, d, <<>> \o Redistribute(w), e)
               /\ w # None => Has(e, R, "memcpy", Whole(shuffler, w))
    BY <1>0, <1>1, LedNone, AddShuffle
  <2> QED BY <2>1, FirstPieces
<1> HIDE DEF C1
<1>8. PICK e2 : Led(kind, shuffler, R, d, C2, e2) /\ Grown(R, e1, e2)
  BY <1>7, AddGuard
<1> HIDE DEF C2
<1>9. PICK e3 : /\ Led(kind, shuffler, R, d, C3, e3) /\ Grown(R, e2, e3)
                /\ ahead # None => Has(e3, R, "prefetch", <<"rows", ahead>>)
  <2>1. Prefetch(c, ahead) = If(TRUE, Prefetch(c, ahead))
    BY DEF If
  <2>2. ahead # None => c.tensors = ahead /\ Has(e2, R, "dist", <<"tensors", ahead>>)
    BY <1>b, <1>8, LedIs DEF Grown, Stream
  <2>3. ahead \in Nat
    BY <1>a
  <2>4. \E f : /\ Led(kind, shuffler, R, d, C2 \o If(TRUE, Prefetch(c, ahead)), f) /\ Grown(R, e2, f)
               /\ TRUE /\ ahead # None => Has(f, R, "prefetch", <<"rows", ahead>>)
    BY <1>8, <2>2, <2>3, AddRows
  <2> QED BY <2>1, <2>4
<1> HIDE DEF C3
<1>10. PICK e4 : Led(kind, shuffler, R, d, C4, e4) /\ Grown(R, e3, e4)
  <2>1. T => Has(e3, R, "default", <<"forward", b>>) /\ Has(e3, R, "default", <<"tokens", b>>)
    BY <1>1, <1>9, LedIs DEF Grown, Stream
  <2> QED BY <1>l, <1>9, <2>1, AddBackward
<1> HIDE DEF C4
<1>11. PICK f : /\ Led(kind, shuffler, R, d, C5, f) /\ Grown(R, e4, f)
                /\ Prefetching /\ w # None => Has(f, R, "dist", <<"splits", w>>)
  <2>1. w # None => Has(e4, R, "memcpy", Whole(shuffler, w))
    BY <1>7, <1>8, <1>9, <1>10 DEF Grown, Stream
  <2> QED BY <1>10, <2>1, AddSplits
<1> HIDE DEF C5
<1>12. f = Enqueue(d, C5) /\ DeviceOK(kind, shuffler, f, R) /\ Grown(R, d, f)
  BY <1>11, LedIs
<1>13. /\ w # None => Has(f, R, "memcpy", Whole(shuffler, w))
       /\ ahead # None => Has(f, R, "prefetch", <<"rows", ahead>>)
  BY <1>7, <1>8, <1>9, <1>10, <1>11 DEF Grown, Stream
<1>14. /\ kind = "prefetch" => DistStarted(c, o, f, R) /\ DistWaited(c, o, f, R)
       /\ kind # "prefetch" /\ Len(q) = 2 => DistWaited(cs[2], q[2], f, R)
  BY <1>2, <1>12, GrownHeld
<1>15. /\ y \in Seq(Nat)
       /\ Len(q) = 1 => Len(y) = 0
       /\ Len(q) = 2 /\ w = None => Len(y) = 1 /\ y[1] = q[2]
       /\ Len(q) = 2 /\ w # None => Len(y) = 2 /\ y[1] = q[2] /\ y[2] = w
  <2>1. /\ w = None => y = Tail(q) \o <<>>
        /\ w # None => y = Tail(q) \o <<w>>
    BY DEF If
  <2>2. q \in Seq(Nat) /\ q # <<>> /\ w \in Nat
    BY <1>l
  <2>3. /\ Tail(q) \in Seq(Nat) /\ Tail(q) \o <<>> = Tail(q) /\ Tail(q) \o <<w>> \in Seq(Nat)
        /\ Len(q) = 1 => Len(Tail(q)) = 0
        /\ Len(q) = 2 => Len(Tail(q)) = 1 /\ Tail(q)[1] = q[2]
        /\ Len(q) = 2 => /\ Len(Tail(q) \o <<w>>) = 2 /\ (Tail(q) \o <<w>>)[1] = q[2]
                         /\ (Tail(q) \o <<w>>)[2] = w
    BY ONLY <2>2, MovesOn
  <2> HIDE DEF y
  <2> QED BY ONLY <1>1, <2>1, <2>3
<1>16. /\ z \in Seq(Contexts)
       /\ kind = "prefetch" => Len(z) = 1 /\ z[1] = v
       /\ kind # "prefetch" /\ Len(q) = 2 /\ w = None => Len(z) = 1 /\ z[1] = cs[2]
       /\ kind # "prefetch" /\ Len(q) = 2 /\ w # None => Len(z) = 2 /\ z[1] = cs[2] /\ z[2] = NewContext
  <2>1. CASE Prefetching
    BY <1>6, <2>1 DEF Prefetching
  <2>2. CASE ~Prefetching
    <3>1. /\ w = None => z = Tail(cs) \o <<>>
          /\ w # None => z = Tail(cs) \o <<NewContext>>
      BY <2>2 DEF If
    <3>2. kind # "prefetch" /\ Len(cs) = Len(q)
      BY <1>2, <2>2 DEF Prefetching
    <3>3. cs \in Seq(Contexts) /\ cs # <<>> /\ NewContext \in Contexts
      BY <1>0, <1>3, NewIs
    <3> DEFINE n == NewContext
    <3> HIDE DEF z, n
    <3>4. /\ Tail(cs) \in Seq(Contexts) /\ Tail(cs) \o <<>> = Tail(cs) /\ Tail(cs) \o <<n>> \in Seq(Contexts)
          /\ Len(cs) = 2 => Len(Tail(cs)) = 1 /\ Tail(cs)[1] = cs[2]
          /\ Len(cs) = 2 => /\ Len(Tail(cs) \o <<n>>) = 2 /\ (Tail(cs) \o <<n>>)[1] = cs[2]
                            /\ (Tail(cs) \o <<n>>)[2] = n
      <4>1. n \in Contexts
        BY <3>3 DEF n
      <4> QED BY ONLY <3>3, <4>1, MovesOn
    <3> QED BY ONLY <3>1, <3>2, <3>4 DEF n
  <2> QED BY <2>1, <2>2
<1> HIDE DEF y, z
<1>17. ShortOK("call", s, l, y, None)
  <2>1. Len(y) <= 2 /\ (Len(y) = 1 => w = None)
    <3>1. CASE Len(q) = 1
      <4>1. Len(y) = 0
        BY <3>1, <1>15
      <4> QED BY ONLY <4>1
    <3>2. CASE Len(q) = 2 /\ w = None
      <4>1. Len(y) = 1
        BY <3>2, <1>15
      <4> QED BY ONLY <4>1, <3>2
    <3>3. CASE Len(q) = 2 /\ w # None
      <4>1. Len(y) = 2
        BY <3>3, <1>15
      <4> QED BY ONLY <4>1
    <3> QED BY <3>1, <3>2, <3>3, <1>l
  <2> QED BY <1>1, <2>1 DEF ShortOK
<1>18. RawOK(shuffler, "call", None, f, R)
  BY DEF RawOK
<1>c. Len(q) = 2 => o = q[2]
  BY DEF o
<1>19. Len(q) = 2 => Fed(kind, z[1], y[1], f, R) /\ <<"splits", y[1]>> \in R
  <2> SUFFICES ASSUME Len(q) = 2 PROVE Fed(kind, z[1], y[1], f, R) /\ <<"splits", y[1]>> \in R
    OBVIOUS
  <2>1. y[1] = q[2] /\ o = q[2]
    BY <1>15, <1>c
  <2>2. CASE kind = "prefetch"
    <3>1. z[1] = v /\ v.post = <<o, o>> /\ Has(f, R, "prefetch", <<"rows", o>>)
      BY <2>2, <1>a, <1>5, <1>6, <1>13, <1>16
    <3>2. <<"splits", o>> \in R
      BY <2>2, <1>14 DEF DistWaited
    <3> QED BY <2>1, <2>2, <3>1, <3>2 DEF Fed
  <2>3. CASE kind # "prefetch"
    <3>1. z[1] = cs[2]
      BY <2>3, <1>16
    <3>2. cs[2].tensors = q[2] /\ Has(f, R, "dist", <<"tensors", q[2]>>) /\ <<"splits", q[2]>> \in R
      BY <2>3, <1>14 DEF DistWaited
    <3> QED BY <2>1, <2>3, <3>1, <3>2 DEF Fed
  <2> QED BY <2>2, <2>3
<1>20. Len(q) = 1 => Len(y) = 0
  BY <1>15
<1>21. Filled("call", y) => Len(q) = 2
  BY <1>l, <1>20 DEF Filled
<1>22. FirstOK(kind, shuffler, "call", y, z, f, R, T)
  BY <1>19, <1>21 DEF FirstOK
<1>23. kind = "prefetch" => SecondPrefetch("call", y, z, f, R)
  <2> SUFFICES ASSUME kind = "prefetch" PROVE SecondPrefetch("call", y, z, f, R)
    OBVIOUS
  <2>1. Len(z) = 1 /\ z[1] = v
    BY <1>16
  <2>2. ASSUME Len(q) = 2 PROVE DistStarted(v, y[Len(y)], f, R)
    <3>1. CASE w = None
      <4>1. y[Len(y)] = o
        BY <2>2, <3>1, <1>15, <1>c
      <4>2. v.splits = c.splits /\ v.next = c.next
        BY <3>1, <1>5, <1>6
      <4> QED BY <4>1, <4>2, <1>14 DEF DistStarted
    <3>2. CASE w # None
      <4>1. y[Len(y)] = w
        BY <2>2, <3>2, <1>15
      <4> QED BY <4>1, <3>2, <1>6, <1>11 DEF DistStarted, Prefetching
    <3> QED BY <3>1, <3>2
  <2> QED BY <2>1, <2>2, <1>21 DEF SecondPrefetch
<1>24. kind # "prefetch" => SecondNative(shuffler, "call", y, z, f, R)
  <2> SUFFICES ASSUME kind # "prefetch" PROVE SecondNative(shuffler, "call", y, z, f, R)
    OBVIOUS
  <2>1. CASE Len(q) = 1
    <3>1. Len(y) = 0
      BY <2>1, <1>20
    <3> QED BY <3>1 DEF SecondNative
  <2>2. CASE Len(q) = 2
    BY <2>2, <1>13, <1>15, <1>16 DEF SecondNative
  <2> QED BY <2>1, <2>2, <1>l
<1>25. Relied(kind, shuffler, "call", y, None, z, f, R, T)
  BY <1>16, <1>18, <1>22, <1>23, <1>24 DEF Relied
<1>26. StreamsOK(kind, shuffler, "call", s, l, y, None, z, k, f, R, T)
  BY <1>0, <1>12, <1>17, <1>25 DEF StreamsOK
<1> QED BY <1>12, <1>26 DEF y, z, v, p, c, b, C1, C2, C3, C4, C5

-----------------------------------------------------------------------------
(* Running.                                                                *)

\* The oldest work of stream s runs: d and R become e and S.
Advanced(d, R, s, e, S) ==
    /\ d.queue[s] # <<>>
    /\ e \in Devices /\ e.count = d.count /\ e.queue = [d.queue EXCEPT ![s] = Tail(@)]
    /\ S = IF Head(d.queue[s]).op = "wait" THEN R ELSE R \cup {Result(Head(d.queue[s]))}

\* The places of a stream when its oldest work has run.
LEMMA AdvancedPlaces ==
  ASSUME NEW d \in Devices, NEW R, NEW s \in Stream, NEW e, NEW S, Advanced(d, R, s, e, S)
  PROVE  /\ Len(d.queue[s]) \in Nat \ {0} /\ Len(e.queue[s]) = Len(d.queue[s]) - 1
         /\ RunOn(e, s) = RunOn(d, s) + 1 /\ RunOn(d, s) \in Int
         /\ \A i \in 1..Len(e.queue[s]) : i + 1 \in 1..Len(d.queue[s]) /\ e.queue[s][i] = d.queue[s][i + 1]
         /\ Head(d.queue[s]) = d.queue[s][1] /\ Head(d.queue[s]) \in Items
<1>1. /\ d.queue \in [Stream -> Seq(Items)] /\ e.queue = [d.queue EXCEPT ![s] = Tail(@)]
      /\ e.count = d.count /\ d.queue[s] # <<>>
  BY DEF Advanced, Devices
<1>2. d.queue[s] \in Seq(Items) /\ Len(d.queue[s]) \in Nat /\ d.count[s] \in Nat /\ RunOn(d, s) \in Int
  BY DeviceFacts
<1>3. e.queue[s] = Tail(d.queue[s])
  BY <1>1
<1> DEFINE v == d.queue[s]
           u == e.queue[s]
<1> HIDE DEF v, u
<1>4. v \in Seq(Items) /\ v # <<>> /\ u = Tail(v) /\ Len(v) \in Nat
  BY <1>1, <1>2, <1>3 DEF u, v
<1>5. Len(v) # 0
  BY <1>4, EmptySeq
<1>6. /\ Len(u) = Len(v) - 1 /\ \A i \in 1..Len(u) : u[i] = v[i + 1]
  BY <1>4, <1>5
<1>7. Head(v) = v[1] /\ v[1] \in Items
  BY <1>4, <1>5
<1>8. \A i \in 1..Len(u) : i + 1 \in 1..Len(v)
  BY <1>4, <1>5, <1>6
<1>9. d.count[s] - (Len(v) - 1) = (d.count[s] - Len(v)) + 1
  BY ONLY <1>2, <1>4
<1>10. RunOn(e, s) = RunOn(d, s) + 1
  BY <1>1, <1>6, <1>9 DEF RunOn, u, v
<1> QED BY <1>2, <1>4, <1>5, <1>6, <1>7, <1>8, <1>10 DEF u, v

\* The other streams stay as they are.
LEMMA OthersStay ==
  ASSUME NEW d \in Devices, NEW R, NEW s \in Stream, NEW e, NEW S, Advanced(d, R, s, e, S),
         NEW z \in Stream, z # s
  PROVE  e.queue[z] = d.queue[z] /\ RunOn(e, z) = RunOn(d, z)
<1>1. d.queue \in [Stream -> Seq(Items)] /\ e.queue = [d.queue EXCEPT ![s] = Tail(@)] /\ e.count = d.count
  BY DEF Advanced, Devices
<1>2. e.queue[z] = d.queue[z]
  BY <1>1
<1> QED BY <1>1, <1>2 DEF RunOn

\* What is due stays due, the stream waits aside: they compute nothing.
LEMMA DueAdvances ==
  ASSUME NEW d \in Devices, NEW R, NEW s \in Stream, NEW e, NEW S, Advanced(d, R, s, e, S),
         NEW z \in Stream, NEW n, NEW x, x[1] # "wait", Due(d, R, z, n, x)
  PROVE  Due(e, S, z, n, x)
<1>1. R \subseteq S
  BY DEF Advanced
<1>2. CASE x \in R
  BY <1>1, <1>2 DEF Due
<1>3. CASE x \notin R
  <2>1. PICK i \in 1..Len(d.queue[z]) : Result(d.queue[z][i]) = x /\ RunOn(d, z) + i <= n
    BY <1>3 DEF Due
  <2>2. CASE z # s
    <3>1. e.queue[z] = d.queue[z] /\ RunOn(e, z) = RunOn(d, z)
      BY <2>2, OthersStay
    <3> QED BY <2>1, <3>1 DEF Due
  <2>3. CASE z = s /\ i = 1
    <3>1. Head(d.queue[s]) = d.queue[s][1]
      BY AdvancedPlaces
    <3>2. Result(Head(d.queue[s])) = x
      BY <2>1, <2>3, <3>1
    <3>3. Head(d.queue[s]).op # "wait"
      BY <3>2 DEF Result
    <3>4. x \in S
      BY <3>2, <3>3 DEF Advanced
    <3> QED BY <3>4 DEF Due
  <2>4. CASE z = s /\ i # 1
    <3>1. /\ Len(d.queue[s]) \in Nat \ {0} /\ Len(e.queue[s]) = Len(d.queue[s]) - 1
          /\ RunOn(e, s) = RunOn(d, s) + 1 /\ RunOn(d, s) \in Int
          /\ \A j \in 1..Len(e.queue[s]) : e.queue[s][j] = d.queue[s][j + 1]
      BY AdvancedPlaces
    <3> DEFINE j == i - 1
    <3>2. j \in 1..Len(e.queue[s]) /\ j + 1 = i /\ RunOn(e, s) + j = RunOn(d, s) + i
      <4>1. i \in 1..Len(d.queue[s]) /\ i # 1
        BY <2>4
      <4>2. \A k \in Nat : \A g \in Int : \A h \in 1..k :
               h # 1 => h - 1 \in 1..(k - 1) /\ (h - 1) + 1 = h /\ (g + 1) + (h - 1) = g + h
        OBVIOUS
      <4>3. Len(d.queue[s]) \in Nat
        BY <3>1
      <4>4. /\ i - 1 \in 1..(Len(d.queue[s]) - 1) /\ (i - 1) + 1 = i
            /\ (RunOn(d, s) + 1) + (i - 1) = RunOn(d, s) + i
        BY ONLY <4>1, <4>2, <4>3, <3>1, Zenon
      <4> QED BY ONLY <4>4, <3>1, Zenon
    <3> HIDE DEF j
    <3>3. e.queue[s][j] = d.queue[s][i]
      BY <3>1, <3>2
    <3> QED BY <2>1, <2>4, <3>2, <3>3 DEF Due
  <2> QED BY <2>2, <2>3, <2>4
<1> QED BY <1>2, <1>3

\* No work waits for the result of a stream wait.
LEMMA AnchorsReal ==
  ASSUME NEW K, NEW B, NEW w, NEW x \in Anchors(K, B, w)
  PROVE  x[1] # "wait"
<1>1. \A b : Whole(B, b)[1] # "wait" /\ Input(K, b)[1] # "wait"
  BY DEF Whole, Input
<1> QED BY <1>1 DEF Anchors

\* The oldest work of a stream, once what it waits for has run.
LEMMA OldestReady ==
  ASSUME NEW K, NEW B, NEW d, NEW R, DeviceOK(K, B, d, R), NEW s \in Stream, d.queue[s] # <<>>,
         \A a \in Head(d.queue[s]).after : RunOn(d, a[1]) >= a[2]
  PROVE  /\ Head(d.queue[s]) \in Items /\ Head(d.queue[s]).data = Head(d.queue[s]).batch
         /\ Anchors(K, B, Head(d.queue[s])) \subseteq R
<1> DEFINE v == d.queue[s]
           w == Head(v)
           n == RunOn(d, s)
<1>0. d \in Devices
  BY DEF DeviceOK
<1>1. v \in Seq(Items) /\ Len(v) \in Nat /\ v # <<>> /\ n \in Int
  BY <1>0, DeviceFacts
<1>2. 1 \in 1..Len(v) /\ w = v[1] /\ w \in Items
  <2> HIDE DEF v
  <2>1. Len(v) # 0
    BY <1>1, EmptySeq
  <2> QED BY <1>1, <2>1
<1>3. Behind(K, B, d, R, s, n + 1, w)
  BY <1>2 DEF DeviceOK
<1> HIDE DEF w, v, n
<1>4. ASSUME NEW x \in Anchors(K, B, w) PROVE x \in R
  <2>1. PICK y \in w.after \cup {<<s, (n + 1) - 1>>} : Due(d, R, y[1], y[2], x)
    BY <1>3 DEF Behind
  <2>2. y[1] \in Stream /\ y[2] \in Int /\ y[2] <= RunOn(d, y[1])
    <3>1. CASE y \in w.after
      <4>1. y \in Stream \X Nat
        BY <1>2, <3>1 DEF Items
      <4>2. RunOn(d, y[1]) >= y[2]
        BY <3>1 DEF w, v
      <4>3. RunOn(d, y[1]) \in Int
        BY <1>0, <4>1, DeviceFacts
      <4> QED BY <4>1, <4>2, <4>3
    <3>2. CASE y = <<s, (n + 1) - 1>>
      <4>1. y[1] = s /\ y[2] = n
        BY <1>1, <3>2
      <4> QED BY <1>1, <4>1 DEF n
    <3> QED BY <2>1, <3>1, <3>2
  <2>3. RunOn(d, y[1]) \in Int
    BY <1>0, <2>2, DeviceFacts
  <2>4. ~ \E i \in 1..Len(d.queue[y[1]]) : RunOn(d, y[1]) + i <= y[2]
    <3>1. Len(d.queue[y[1]]) \in Nat
      BY <1>0, <2>2, DeviceFacts
    <3> QED BY <2>2, <2>3, <3>1
  <2> QED BY <2>1, <2>4 DEF Due
<1> QED BY <1>2, <1>3, <1>4 DEF Behind, w, v

\* What runs leaves the rest behind what it waits for.
LEMMA BehindAdvances ==
  ASSUME NEW K, NEW B, NEW d \in Devices, NEW R, NEW s \in Stream, NEW e, NEW S, Advanced(d, R, s, e, S),
         NEW z \in Stream, NEW n, NEW v \in Items, Behind(K, B, d, R, z, n, v)
  PROVE  Behind(K, B, e, S, z, n, v)
<1>1. ASSUME NEW x \in Anchors(K, B, v)
      PROVE  \E y \in v.after \cup {<<z, n - 1>>} : Due(e, S, y[1], y[2], x)
  <2>1. PICK y \in v.after \cup {<<z, n - 1>>} : Due(d, R, y[1], y[2], x)
    BY DEF Behind
  <2>2. y[1] \in Stream /\ x[1] # "wait"
    BY AnchorsReal DEF Items
  <2>3. Due(e, S, y[1], y[2], x)
    BY <2>1, <2>2, DueAdvances
  <2> QED BY <2>3
<1> QED BY <1>1 DEF Behind

\* The streams stay in order.
LEMMA DeviceAdvances ==
  ASSUME NEW K, NEW B, NEW d, NEW R, DeviceOK(K, B, d, R), NEW s \in Stream, NEW e, NEW S, Advanced(d, R, s, e, S)
  PROVE  DeviceOK(K, B, e, S)
<1>0. d \in Devices /\ e \in Devices /\ e.count = d.count
  BY DEF DeviceOK, Advanced
<1>3. Advanced(d, R, s, e, S)
  OBVIOUS
<1>4. /\ Len(d.queue[s]) \in Nat \ {0} /\ Len(e.queue[s]) = Len(d.queue[s]) - 1
      /\ RunOn(e, s) = RunOn(d, s) + 1 /\ RunOn(d, s) \in Int
      /\ \A i \in 1..Len(e.queue[s]) : i + 1 \in 1..Len(d.queue[s]) /\ e.queue[s][i] = d.queue[s][i + 1]
  BY <1>0, AdvancedPlaces
<1>1. ASSUME NEW z \in Stream PROVE Len(e.queue[z]) <= e.count[z]
  <2>1. Len(d.queue[z]) <= d.count[z] /\ Len(d.queue[z]) \in Nat /\ d.count[z] \in Nat
    BY <1>0, DeviceFacts DEF DeviceOK
  <2>2. Len(e.queue[z]) = Len(d.queue[z]) \/ Len(e.queue[z]) = Len(d.queue[z]) - 1
    <3>1. z # s => e.queue[z] = d.queue[z]
      BY <1>0, OthersStay
    <3> QED BY <3>1, <1>4
  <2> QED BY <1>0, <2>1, <2>2
<1>2. ASSUME NEW z \in Stream, NEW i \in 1..Len(e.queue[z])
      PROVE  Behind(K, B, e, S, z, RunOn(e, z) + i, e.queue[z][i])
  <2>1. PICK j \in 1..Len(d.queue[z]) : e.queue[z][i] = d.queue[z][j] /\ RunOn(e, z) + i = RunOn(d, z) + j
    <3>1. CASE z # s
      <4>1. e.queue[z] = d.queue[z] /\ RunOn(e, z) = RunOn(d, z)
        BY <1>0, <3>1, OthersStay
      <4> QED BY <4>1
    <3>2. CASE z = s
      <4>1. i + 1 \in 1..Len(d.queue[z]) /\ e.queue[z][i] = d.queue[z][i + 1]
            /\ RunOn(e, z) = RunOn(d, z) + 1 /\ RunOn(d, z) \in Int
        BY ONLY <1>4, <3>2, i \in 1..Len(e.queue[z])
      <4>2. RunOn(e, z) + i = RunOn(d, z) + (i + 1)
        BY <4>1
      <4> QED BY <4>1, <4>2
    <3> QED BY <3>1, <3>2
  <2>2. Behind(K, B, d, R, z, RunOn(d, z) + j, d.queue[z][j]) /\ d.queue[z][j] \in Items
    BY <1>0, DeviceFacts DEF DeviceOK
  <2>3. Behind(K, B, e, S, z, RunOn(d, z) + j, d.queue[z][j])
    BY <1>0, <2>2, BehindAdvances
  <2> QED BY <2>1, <2>3
<1> QED BY <1>0, <1>1, <1>2 DEF DeviceOK

\* Rows, tensors and splits have been computed in their order.
LEMMA RanGrows ==
  ASSUME NEW K, NEW B, NEW R, RanOK(B, R), NEW w, w.batch \in Nat, Anchors(K, B, w) \subseteq R
  PROVE  RanOK(B, R \cup {Result(w)})
<1> DEFINE S == R \cup {Result(w)}
<1>1. ASSUME NEW b \in Nat
      PROVE  /\ <<"rows", b>> \in S => <<"tensors", b>> \in S
             /\ <<"tensors", b>> \in S => <<"splits", b>> \in S
             /\ <<"splits", b>> \in S => Whole(B, b) \in S
  <2>1. /\ <<"rows", b>> \in R => <<"tensors", b>> \in R
        /\ <<"tensors", b>> \in R => <<"splits", b>> \in R
        /\ <<"splits", b>> \in R => Whole(B, b) \in R
    BY DEF RanOK
  <2>2. <<"rows", b>> = Result(w) => <<"tensors", b>> \in R
    BY DEF Result, Anchors
  <2>3. <<"tensors", b>> = Result(w) => <<"splits", b>> \in R
    BY DEF Result, Anchors
  <2>4. <<"splits", b>> = Result(w) => Whole(B, b) \in R
    BY DEF Result, Anchors
  <2> QED BY <2>1, <2>2, <2>3, <2>4
<1> HIDE DEF S
<1>2. RanOK(B, S)
  BY <1>1 DEF RanOK
<1> QED BY <1>2 DEF S

\* More has been computed, and nothing that is launched is lost.
Kept(d, R, e, S) ==
    /\ R \subseteq S
    /\ \A s \in Stream : \A x : x[1] # "wait" /\ Has(d, R, s, x) => Has(e, S, s, x)

\* Then the host can rely on what it did.
LEMMA StillRelied ==
  ASSUME NEW K, NEW B, NEW p, NEW q, NEW w, NEW cs, NEW d, NEW R, NEW t, Relied(K, B, p, q, w, cs, d, R, t),
         NEW e, NEW S, Kept(d, R, e, S)
  PROVE  Relied(K, B, p, q, w, cs, e, S, t)
<1>0. /\ R \subseteq S
      /\ \A s \in Stream : \A x : x[1] # "wait" /\ Has(d, R, s, x) => Has(e, S, s, x)
  BY DEF Kept
<1>1. \A s \in Stream : \A o, b : o # "wait" /\ Has(d, R, s, <<o, b>>) => Has(e, S, s, <<o, b>>)
  BY <1>0
<1>2. \A b : Whole(B, b)[1] # "wait"
  BY DEF Whole
<1>3. \A b : Has(d, R, "memcpy", Whole(B, b)) => Has(e, S, "memcpy", Whole(B, b))
  BY <1>0, <1>2 DEF Stream
<1>4. \A b : Has(d, R, "dist", <<"splits", b>>) => Has(e, S, "dist", <<"splits", b>>)
  BY <1>1 DEF Stream
<1>5. \A b : Has(d, R, "dist", <<"tensors", b>>) => Has(e, S, "dist", <<"tensors", b>>)
  BY <1>1 DEF Stream
<1>6. \A b : Has(d, R, "prefetch", <<"rows", b>>) => Has(e, S, "prefetch", <<"rows", b>>)
  BY <1>1 DEF Stream
<1>7. \A b : Has(d, R, "memcpy", <<"copy", b>>) => Has(e, S, "memcpy", <<"copy", b>>)
  BY <1>1 DEF Stream
<1>8. \A b : Has(d, R, "memcpy", <<"workloads", b>>) => Has(e, S, "memcpy", <<"workloads", b>>)
  BY <1>1 DEF Stream
<1>9. \A b : Has(d, R, "default", <<"tokens", b>>) => Has(e, S, "default", <<"tokens", b>>)
  BY <1>1 DEF Stream
<1>10. \A b : Has(d, R, "default", <<"forward", b>>) => Has(e, S, "default", <<"forward", b>>)
  BY <1>1 DEF Stream
<1>11. \A c, b : Fed(K, c, b, d, R) => Fed(K, c, b, e, S)
  BY <1>5, <1>6 DEF Fed
<1>12. \A c, b : DistStarted(c, b, d, R) => DistStarted(c, b, e, S)
  BY <1>4 DEF DistStarted
<1>13. \A c, b : DistWaited(c, b, d, R) => DistWaited(c, b, e, S)
  BY <1>0, <1>5 DEF DistWaited
<1>14. RawOK(B, p, w, e, S)
  BY <1>7, <1>8 DEF Relied, RawOK
<1>15. FirstOK(K, B, p, q, cs, e, S, t)
  <2>1. FirstOK(K, B, p, q, cs, d, R, t)
    BY DEF Relied
  <2> QED BY <2>1, <1>0, <1>7, <1>8, <1>9, <1>10, <1>11, <1>12 DEF FirstOK
<1>16. K = "prefetch" => SecondPrefetch(p, q, cs, e, S)
  BY <1>12, <1>13 DEF Relied, SecondPrefetch
<1>17. K # "prefetch" => SecondNative(B, p, q, cs, e, S)
  BY <1>3, <1>12, <1>13 DEF Relied, SecondNative
<1> QED BY <1>14, <1>15, <1>16, <1>17 DEF Relied

\* Work that has run keeps what the host relies on.
LEMMA KeptByRun ==
  ASSUME NEW d \in Devices, NEW R, NEW s \in Stream, NEW e, NEW S, Advanced(d, R, s, e, S)
  PROVE  Kept(d, R, e, S)
<1>1. R \subseteq S /\ e.count = d.count
  BY DEF Advanced
<1>2. ASSUME NEW z \in Stream, NEW x, x[1] # "wait", Has(d, R, z, x) PROVE Has(e, S, z, x)
  <2>1. Due(d, R, z, d.count[z], x)
    BY <1>2 DEF Has
  <2>2. Due(e, S, z, d.count[z], x)
    BY <1>2, <2>1, DueAdvances
  <2> QED BY <1>1, <2>2 DEF Has
<1> QED BY <1>1, <1>2 DEF Kept

\* What work reads is what it waits for; a forward pass, the batch its input was made from too.
LEMMA NeedsMet ==
  ASSUME NEW R, RanOK(shuffler, R), NEW w \in Items, w.data = w.batch, Anchors(kind, shuffler, w) \subseteq R
  PROVE  Needs(w) \subseteq R
<1>0. w.batch \in Nat
  BY DEF Items
<1>1. Trained(w.batch) = Whole(shuffler, w.batch)
  BY DEF Trained, Whole, Balanced
<1>2. CASE w.op = "forward"
  <2>1. Input(kind, w.batch) \in R
    BY <1>2 DEF Anchors
  <2>2. Whole(shuffler, w.batch) \in R
    BY <1>0, <2>1 DEF RanOK, Input
  <2>3. Needs(w) = {Trained(w.batch), <<IF Prefetching THEN "rows" ELSE "tensors", w.data>>}
    BY <1>2 DEF Needs
  <2>4. <<IF Prefetching THEN "rows" ELSE "tensors", w.data>> = Input(kind, w.batch)
    BY DEF Input, Prefetching
  <2> QED BY <1>1, <2>1, <2>2, <2>3, <2>4
<1>3. CASE w.op \in {"splits", "tokens"}
  BY <1>1, <1>3 DEF Anchors, Needs
<1>4. CASE w.op \in {"workloads", "shuffle", "tensors", "rows"}
  BY <1>4 DEF Anchors, Needs
<1>5. CASE w.op \in {"backward", "grads", "copy", "wait"}
  BY <1>5 DEF Anchors, Needs
<1> QED BY <1>2, <1>3, <1>4, <1>5 DEF Items, Ops

\* The oldest work of a stream runs: from what it needs, and the rank stays in order.
LEMMA OldestRuns ==
  ASSUME NEW p, NEW s, NEW l, NEW q, NEW w, NEW cs, NEW k, NEW d, NEW R, NEW t,
         StreamsOK(kind, shuffler, p, s, l, q, w, cs, k, d, R, t), NEW z \in Stream, NEW e, NEW S,
         Advanced(d, R, z, e, S), \A a \in Head(d.queue[z]).after : RunOn(d, a[1]) >= a[2]
  PROVE  /\ Head(d.queue[z]).data = Head(d.queue[z]).batch /\ Needs(Head(d.queue[z])) \subseteq R
         /\ StreamsOK(kind, shuffler, p, s, l, q, w, cs, k, e, S, t)
<1> DEFINE v == Head(d.queue[z])
<1>0. /\ DeviceOK(kind, shuffler, d, R) /\ RanOK(shuffler, R) /\ k \in Seq(Nat) /\ TasksRead(k, R)
      /\ ShortOK(p, s, l, q, w) /\ Relied(kind, shuffler, p, q, w, cs, d, R, t)
  BY DEF StreamsOK
<1>1. d \in Devices /\ d.queue[z] # <<>> /\ S = IF v.op = "wait" THEN R ELSE R \cup {Result(v)}
  BY <1>0 DEF DeviceOK, Advanced
<1>2. v \in Items /\ v.data = v.batch /\ Anchors(kind, shuffler, v) \subseteq R
  BY <1>0, <1>1, OldestReady
<1>3. Needs(v) \subseteq R
  <2> HIDE DEF v
  <2> QED BY <1>0, <1>2, NeedsMet
<1>4. DeviceOK(kind, shuffler, e, S)
  BY <1>0, DeviceAdvances
<1>5. RanOK(shuffler, S)
  <2>1. v.batch \in Nat
    BY <1>2 DEF Items
  <2> HIDE DEF v
  <2>2. RanOK(shuffler, R \cup {Result(v)})
    BY <1>0, <1>2, <2>1, RanGrows
  <2> QED BY <1>0, <1>1, <2>2
<1>6. Kept(d, R, e, S)
  BY <1>1, KeptByRun
<1>7. TasksRead(k, S)
  BY <1>0, <1>6 DEF TasksRead, Kept
<1>8. Relied(kind, shuffler, p, q, w, cs, e, S, t)
  BY <1>0, <1>6, StillRelied
<1> QED BY <1>0, <1>2, <1>3, <1>4, <1>5, <1>7, <1>8 DEF StreamsOK

\* More has been computed.
LEMMA DeviceComputes ==
  ASSUME NEW K, NEW B, NEW d, NEW R, DeviceOK(K, B, d, R), NEW S, R \subseteq S
  PROVE  DeviceOK(K, B, d, S) /\ Kept(d, R, d, S)
<1>1. \A s, n, x : Due(d, R, s, n, x) => Due(d, S, s, n, x)
  BY DEF Due
<1>2. \A s, n, v : Behind(K, B, d, R, s, n, v) => Behind(K, B, d, S, s, n, v)
  BY <1>1 DEF Behind
<1>3. DeviceOK(K, B, d, S)
  BY <1>2 DEF DeviceOK
<1>4. Kept(d, R, d, S)
  BY <1>1 DEF Kept, Has
<1> QED BY <1>3, <1>4

\* The KK thread runs its oldest task: on workloads the host has read.
LEMMA TaskRuns ==
  ASSUME NEW p, NEW s, NEW l, NEW q, NEW w, NEW cs, NEW k, NEW d, NEW R, NEW t,
         StreamsOK(kind, shuffler, p, s, l, q, w, cs, k, d, R, t), k # <<>>
  PROVE  /\ <<"workloads", Head(k)>> \in R
         /\ StreamsOK(kind, shuffler, p, s, l, q, w, cs, Tail(k), d, R \cup {<<"kk", Head(k)>>}, t)
<1> DEFINE S == R \cup {<<"kk", Head(k)>>}
<1>0. /\ DeviceOK(kind, shuffler, d, R) /\ RanOK(shuffler, R) /\ k \in Seq(Nat) /\ TasksRead(k, R)
      /\ ShortOK(p, s, l, q, w) /\ Relied(kind, shuffler, p, q, w, cs, d, R, t)
  BY DEF StreamsOK
<1>1. Len(k) \in Nat /\ Len(k) # 0
  BY <1>0, EmptySeq
<1>2. Head(k) = k[1] /\ 1 \in 1..Len(k)
  BY <1>0, <1>1
<1>3. <<"workloads", Head(k)>> \in R
  BY <1>0, <1>2 DEF TasksRead
<1>4. Tail(k) \in Seq(Nat) /\ Len(Tail(k)) = Len(k) - 1 /\ \A i \in 1..Len(Tail(k)) : Tail(k)[i] = k[i + 1]
  BY <1>0, <1>1
<1>5. TasksRead(Tail(k), S)
  <2>1. \A i \in 1..Len(Tail(k)) : i + 1 \in 1..Len(k)
    BY <1>1, <1>4
  <2> QED BY <1>0, <1>4, <2>1 DEF TasksRead
<1>6. RanOK(shuffler, S)
  <2>1. \A b : Whole(shuffler, b) \in R => Whole(shuffler, b) \in S
    OBVIOUS
  <2>2. \A b : /\ <<"rows", b>> \in S <=> <<"rows", b>> \in R
               /\ <<"tensors", b>> \in S <=> <<"tensors", b>> \in R
               /\ <<"splits", b>> \in S <=> <<"splits", b>> \in R
    OBVIOUS
  <2> HIDE DEF S
  <2> QED BY <1>0, <2>1, <2>2 DEF RanOK
<1>7. R \subseteq S
  OBVIOUS
<1> HIDE DEF S
<1>8. DeviceOK(kind, shuffler, d, S) /\ Kept(d, R, d, S)
  BY <1>0, <1>7, DeviceComputes
<1>9. Relied(kind, shuffler, p, q, w, cs, d, S, t)
  BY <1>0, <1>8, StillRelied
<1>10. StreamsOK(kind, shuffler, p, s, l, q, w, cs, Tail(k), d, S, t)
  BY <1>0, <1>4, <1>5, <1>6, <1>8, <1>9 DEF StreamsOK
<1> QED BY <1>3, <1>10 DEF S

-----------------------------------------------------------------------------
(* The actions.                                                            *)

\* What RunsOK says of one rank.
LEMMA RunsAt ==
  ASSUME RunsOK, NEW r \in Rank
  PROVE  /\ stale[r] = {}
         /\ StreamsOK(kind, shuffler, pc[r], slice[r], loader[r], slots[r], raw[r], contexts[r], kk[r],
                      device[r], ran[r], Training(r))
         /\ contexts = [contexts EXCEPT ![r] = contexts[r]] /\ kk = [kk EXCEPT ![r] = kk[r]]
         /\ device = [device EXCEPT ![r] = device[r]]
<1>1. /\ stale[r] = {}
      /\ StreamsOK(kind, shuffler, pc[r], slice[r], loader[r], slots[r], raw[r], contexts[r], kk[r],
                   device[r], ran[r], Training(r))
  BY DEF RunsOK
<1>2. contexts = [n \in Rank |-> contexts[n]] /\ kk = [n \in Rank |-> kk[n]] /\ device = [n \in Rank |-> device[n]]
  BY DEF RunsOK
<1>3. /\ contexts = [contexts EXCEPT ![r] = contexts[r]] /\ kk = [kk EXCEPT ![r] = kk[r]]
      /\ device = [device EXCEPT ![r] = device[r]]
  BY <1>2
<1> QED BY <1>1, <1>3

\* The host thread of rank r gets the contexts cs, the tasks k and the device d.
StreamsTo(r, cs, k, d) ==
    /\ contexts' = [contexts EXCEPT ![r] = cs] /\ kk' = [kk EXCEPT ![r] = k] /\ device' = [device EXCEPT ![r] = d]
    /\ kind' = kind /\ shuffler' = shuffler /\ ran' = ran /\ stale' = stale

\* A step of one host thread that leaves its streams in order keeps RunsOK.
LEMMA OneHost ==
  ASSUME HostOK, RunsOK, NEW r \in Rank, NEW p, NEW s, NEW l, NEW q, NEW w, NEW f, StepTo(r, p, s, l, q, w, f),
         NEW cs, NEW k, NEW d, StreamsTo(r, cs, k, d),
         StreamsOK(kind, shuffler, p, s, l, q, w, cs, k, d, ran[r], Training(r)')
  PROVE  RunsOK'
<1>0. /\ plan' = plan
      /\ pc' = [pc EXCEPT ![r] = p] /\ slice' = [slice EXCEPT ![r] = s]
      /\ loader' = [loader EXCEPT ![r] = l] /\ slots' = [slots EXCEPT ![r] = q]
      /\ raw' = [raw EXCEPT ![r] = w]
  BY DEF StepTo
<1>1. /\ contexts' = [contexts EXCEPT ![r] = cs] /\ kk' = [kk EXCEPT ![r] = k]
      /\ device' = [device EXCEPT ![r] = d]
      /\ kind' = kind /\ shuffler' = shuffler /\ ran' = ran /\ stale' = stale
  BY DEF StreamsTo
<1>2. /\ pc \in [Rank -> Points] /\ slice \in [Rank -> Nat] /\ loader \in [Rank -> Loader]
      /\ slots \in [Rank -> Seq(Nat)] /\ raw \in [Rank -> Nat]
  BY DEF HostOK
<1>3. /\ contexts = [n \in Rank |-> contexts[n]] /\ device = [n \in Rank |-> device[n]]
      /\ kk = [n \in Rank |-> kk[n]] /\ ran = [n \in Rank |-> ran[n]] /\ stale = [n \in Rank |-> stale[n]]
  BY DEF RunsOK
<1>4. /\ contexts' = [n \in Rank |-> contexts'[n]] /\ device' = [n \in Rank |-> device'[n]]
      /\ kk' = [n \in Rank |-> kk'[n]] /\ ran' = [n \in Rank |-> ran'[n]] /\ stale' = [n \in Rank |-> stale'[n]]
  BY <1>1, <1>3
<1>5. ASSUME NEW n \in Rank
      PROVE  /\ stale'[n] = {}
             /\ StreamsOK(kind', shuffler', pc'[n], slice'[n], loader'[n], slots'[n], raw'[n], contexts'[n], kk'[n],
                          device'[n], ran'[n], Training(n)')
  <2>1. stale'[n] = {}
    BY <1>1, RunsAt
  <2>2. CASE n = r
    <3>1. /\ pc'[n] = p /\ slice'[n] = s /\ loader'[n] = l /\ slots'[n] = q /\ raw'[n] = w
      BY <1>0, <1>2, <2>2
    <3>2. contexts'[n] = cs /\ kk'[n] = k /\ device'[n] = d /\ ran'[n] = ran[r] /\ kind' = kind /\ shuffler' = shuffler
      BY <1>1, <1>3, <2>2
    <3> QED BY <2>1, <2>2, <3>1, <3>2
  <2>3. CASE n # r
    <3>1. /\ pc'[n] = pc[n] /\ slice'[n] = slice[n] /\ loader'[n] = loader[n] /\ slots'[n] = slots[n]
          /\ raw'[n] = raw[n]
      BY <1>0, <1>2, <2>3
    <3>2. /\ contexts'[n] = contexts[n] /\ kk'[n] = kk[n] /\ device'[n] = device[n] /\ ran'[n] = ran[n]
          /\ kind' = kind /\ shuffler' = shuffler
      BY <1>1, <1>3, <2>3
    <3>3. Training(n)' = Training(n)
      BY <1>0, <3>1 DEF Training
    <3>4. StreamsOK(kind, shuffler, pc[n], slice[n], loader[n], slots[n], raw[n], contexts[n], kk[n],
                    device[n], ran[n], Training(n))
      BY RunsAt
    <3> QED BY <2>1, <3>1, <3>2, <3>3, <3>4
  <2> QED BY <2>2, <2>3
<1> QED BY <1>4, <1>5 DEF RunsOK

\* What Draw gives: none when the loader is exhausted, and then only.
LEMMA DrawGives ==
  ASSUME HostOK, NEW r \in Rank, Draw(r), slice[r] <= Len(plan)
  PROVE  \E m : /\ loader' = [loader EXCEPT ![r] = m] /\ NextBatch(r) \in Nat
                /\ NextBatch(r) = None => m.exhausted /\ m.iter = slice[r]
                /\ loader[r].exhausted /\ loader[r].iter = slice[r] => NextBatch(r) = None
<1> DEFINE b == NextBatch(r)
<1>1. PICK m : loader' = [loader EXCEPT ![r] = m] /\ Drawn(plan, slice[r], loader[r], b, m)
  BY DrawIs
<1> HIDE DEF b
<1>2. /\ plan \in Seq(Slices)
      /\ RankOK(plan, pc[r], slice[r], loader[r], slots[r], raw[r], forwards[r])
  BY AtRank
<1>3. slice[r] \in 1..Len(plan)
  BY <1>2, RankFacts
<1>4. loader[r] \in Loader /\ OfSlice(plan, pc[r], slice[r], loader[r], slots[r], forwards[r])
  BY <1>2 DEF RankOK
<1>5. DrawnOK(plan, slice[r], loader[r], b, m)
  BY <1>1, <1>2, <1>3, <1>4, DrawNext
<1>6. b \in Nat
  BY <1>5 DEF DrawnOK
<1>7. b = None => m.exhausted /\ m.iter = slice[r]
  BY <1>1 DEF Drawn
<1>8. loader[r].exhausted /\ loader[r].iter = slice[r] => b = None
  BY <1>1 DEF Drawn
<1> QED BY <1>1, <1>6, <1>7, <1>8 DEF b

\* Training stays as it is with the slice.
LEMMA SameLoop ==
  ASSUME NEW r, plan' = plan, slice'[r] = slice[r]
  PROVE  Training(r)' = Training(r)
BY DEF Training

\* What the host knows of a rank in the pipeline.
LEMMA RankSlots ==
  ASSUME HostOK, NEW r \in Rank
  PROVE  /\ slots[r] \in Seq(Nat) /\ Len(slots[r]) \in Nat /\ raw[r] \in Nat
         /\ \A i \in 1..Len(slots[r]) : slots[r][i] \in Nat /\ slots[r][i] # None
         /\ pc[r] # "call" => Len(slots[r]) >= 1 /\ slice[r] <= Len(plan)
         /\ Len(slots[r]) >= 1 => slice[r] <= Len(plan)
<1>1. /\ plan \in Seq(Slices)
      /\ RankOK(plan, pc[r], slice[r], loader[r], slots[r], raw[r], forwards[r])
  BY AtRank
<1>2. /\ slots[r] \in Seq(Nat) /\ Len(slots[r]) \in Nat /\ raw[r] \in Nat
      /\ \A i \in 1..Len(slots[r]) : slots[r][i] \in Nat /\ slots[r][i] # None
      /\ pc[r] # "call" => Len(slots[r]) >= 1
  BY <1>1, SlotsAre
<1>3. pc[r] # "call" \/ Len(slots[r]) >= 1 => slice[r] <= Len(plan)
  BY <1>1 DEF RankOK, OfSlice
<1> QED BY <1>2, <1>3

\* fill_pipeline draws the first batch, or there is none left.
LEMMA FillFirstRuns ==
  ASSUME HostOK, RunsOK, NEW r \in Rank, FillFirst(r)
  PROVE  RunsOK'
<1> DEFINE b == NextBatch(r)
           cs == IF Prefetching THEN contexts[r] ELSE <<NewContext>>
           a == CopyBatch(b) \o Workloads(b)
<1>0. /\ pc[r] = "call" /\ slots[r] = <<>> /\ slice[r] <= Len(plan) /\ Draw(r)
      /\ plan' = plan /\ raw' = raw /\ forwards' = forwards
      /\ kk' = kk /\ kind' = kind /\ shuffler' = shuffler /\ ran' = ran /\ stale' = stale
      /\ \/ /\ b = None /\ slice' = [slice EXCEPT ![r] = @ + 1] /\ pc' = pc /\ slots' = slots
            /\ contexts' = contexts /\ device' = device
         \/ /\ b # None /\ slice' = slice /\ slots' = [slots EXCEPT ![r] = <<b>>]
            /\ pc' = [pc EXCEPT ![r] = "fill"]
            /\ contexts' = [contexts EXCEPT ![r] = IF Prefetching THEN @ ELSE <<NewContext>>]
            /\ Launches(r, a)
  BY DEF FillFirst, jobVars
<1>1. PICK m : loader' = [loader EXCEPT ![r] = m] /\ b \in Nat
  BY <1>0, DrawGives
<1>2. StreamsOK(kind, shuffler, "call", slice[r], loader[r], slots[r], raw[r], contexts[r], kk[r],
                device[r], ran[r], Training(r))
  BY <1>0, RunsAt
<1>3. CASE b = None
  <2>1. /\ slice' = [slice EXCEPT ![r] = slice[r] + 1] /\ pc' = pc /\ slots' = slots
        /\ contexts' = contexts /\ device' = device
    BY <1>0, <1>3 DEF HostOK
  <2>2. StepTo(r, "call", slice[r] + 1, m, slots[r], raw[r], forwards[r])
    BY <1>0, <1>1, <2>1, AtRank DEF StepTo
  <2>3. StreamsTo(r, contexts[r], kk[r], device[r])
    BY <1>0, <2>1, RunsAt DEF StreamsTo
  <2>4. Len(slots[r]) = 0
    BY <1>0
  <2>5. StreamsOK(kind, shuffler, "call", slice[r] + 1, m, slots[r], raw[r], contexts[r], kk[r],
                  device[r], ran[r], Training(r)')
    BY <1>2, <2>4, NothingLeft
  <2> QED BY <2>2, <2>3, <2>5, OneHost
<1>4. CASE b # None
  <2>1. /\ slice' = slice /\ slots' = [slots EXCEPT ![r] = <<b>>] /\ pc' = [pc EXCEPT ![r] = "fill"]
        /\ contexts' = [contexts EXCEPT ![r] = cs] /\ device' = [device EXCEPT ![r] = Enqueue(device[r], a)]
    <3>1. r \in DOMAIN contexts /\ r \in DOMAIN device
      BY DEF RunsOK
    <3> HIDE DEF a, b
    <3> QED BY <1>0, <1>4, <3>1 DEF Launches
  <2>2. StepTo(r, "fill", slice[r], m, <<b>>, raw[r], forwards[r])
    BY <1>0, <1>1, <2>1, AtRank DEF StepTo
  <2>3. StreamsTo(r, cs, kk[r], Enqueue(device[r], a))
    <3> HIDE DEF a, b, cs
    <3> QED BY <1>0, <2>1, RunsAt DEF StreamsTo
  <2>4. Training(r)' = Training(r)
    BY <1>0, <2>1 DEF Training
  <2> HIDE DEF b
  <2>5. StreamsOK(kind, shuffler, "fill", slice[r], m, <<b>>, raw[r], cs, kk[r],
                  Enqueue(device[r], a), ran[r], Training(r))
    BY <1>1, <1>2, <1>4, FirstCopied
  <2> HIDE DEF a, cs
  <2> QED BY <2>2, <2>3, <2>4, <2>5, OneHost
<1> QED BY <1>3, <1>4

\* Its input dist starts.
LEMMA FillDistRuns ==
  ASSUME HostOK, RunsOK, NEW r \in Rank, FillDist(r)
  PROVE  RunsOK'
<1> DEFINE b == slots[r][1]
           cs == [contexts[r] EXCEPT ![1] = Started(@, b)]
           a == Redistribute(b) \o StartSparseDataDist(b) \o If(Prefetching, StartSparseDataDist(b))
<1>0. /\ pc[r] = "fill" /\ pc' = [pc EXCEPT ![r] = "filled"] /\ Launches(r, a)
      /\ contexts' = [contexts EXCEPT ![r][1] = Started(@, b)]
      /\ plan' = plan /\ slice' = slice /\ loader' = loader /\ slots' = slots /\ raw' = raw /\ forwards' = forwards
      /\ kk' = kk /\ kind' = kind /\ shuffler' = shuffler /\ ran' = ran /\ stale' = stale
  BY DEF FillDist, jobVars
<1>1. StreamsOK(kind, shuffler, "fill", slice[r], loader[r], slots[r], raw[r], contexts[r], kk[r],
                device[r], ran[r], Training(r))
  BY <1>0, RunsAt
<1>2. slots[r] \in Seq(Nat) /\ b \in Nat /\ b # None
  <2>1. /\ Len(slots[r]) >= 1 /\ Len(slots[r]) \in Nat
        /\ \A i \in 1..Len(slots[r]) : slots[r][i] \in Nat /\ slots[r][i] # None
    BY <1>0, RankSlots
  <2>2. 1 \in 1..Len(slots[r])
    BY <2>1
  <2> QED BY <2>1, <2>2, RankSlots
<1>3. /\ contexts' = [contexts EXCEPT ![r] = cs] /\ device' = [device EXCEPT ![r] = Enqueue(device[r], a)]
  <2>1. r \in DOMAIN contexts /\ r \in DOMAIN device
    BY DEF RunsOK
  <2> HIDE DEF a, b
  <2> QED BY <1>0, <2>1 DEF Launches
<1>4. StreamsOK(kind, shuffler, "filled", slice[r], loader[r], slots[r], raw[r], cs, kk[r],
                Enqueue(device[r], a), ran[r], Training(r))
  BY <1>1, <1>2, FirstStarted
<1> HIDE DEF a, cs
<1>5. StepTo(r, "filled", slice[r], loader[r], slots[r], raw[r], forwards[r])
  BY <1>0, AtRank DEF StepTo
<1>6. StreamsTo(r, cs, kk[r], Enqueue(device[r], a))
  BY <1>0, <1>3, RunsAt DEF StreamsTo
<1>7. Training(r)' = Training(r)
  BY <1>0, SameLoop
<1> QED BY <1>4, <1>5, <1>6, <1>7, OneHost

\* It is waited for, and the second batch is drawn.
LEMMA FillSecondRuns ==
  ASSUME HostOK, RunsOK, NEW r \in Rank, FillSecond(r)
  PROVE  RunsOK'
<1> DEFINE b == NextBatch(r)
           c == Waited(contexts[r][1])
           cs == [contexts[r] EXCEPT ![1] = IF Prefetching THEN Prefetched(c, slots[r][1]) ELSE c]
           a == WaitSparseDataDist(contexts[r][1]) \o If(Prefetching, Prefetch(c, slots[r][1]))
                  \o CopyBatch(b) \o Workloads(b)
<1>0. /\ pc[r] = "filled" /\ pc' = [pc EXCEPT ![r] = "second"] /\ Launches(r, a)
      /\ ~Pending(r, "splits", slots[r][1]) /\ Draw(r) /\ raw' = [raw EXCEPT ![r] = b]
      /\ contexts' = [contexts EXCEPT ![r][1] = IF Prefetching THEN Prefetched(c, slots[r][1]) ELSE c]
      /\ plan' = plan /\ slice' = slice /\ slots' = slots /\ forwards' = forwards
      /\ kk' = kk /\ kind' = kind /\ shuffler' = shuffler /\ ran' = ran /\ stale' = stale
  BY DEF FillSecond, jobVars
<1>1. StreamsOK(kind, shuffler, "filled", slice[r], loader[r], slots[r], raw[r], contexts[r], kk[r],
                device[r], ran[r], Training(r))
  BY <1>0, RunsAt
<1>2. slots[r] \in Seq(Nat) /\ slots[r][1] \in Nat /\ slots[r][1] # None /\ slice[r] <= Len(plan)
  <2>1. /\ Len(slots[r]) >= 1 /\ Len(slots[r]) \in Nat
        /\ \A i \in 1..Len(slots[r]) : slots[r][i] \in Nat /\ slots[r][i] # None
    BY <1>0, RankSlots
  <2>2. 1 \in 1..Len(slots[r])
    BY <2>1
  <2> QED BY <1>0, <2>1, <2>2, RankSlots
<1>3. /\ contexts' = [contexts EXCEPT ![r] = cs] /\ device' = [device EXCEPT ![r] = Enqueue(device[r], a)]
  <2>1. r \in DOMAIN contexts /\ r \in DOMAIN device
    BY DEF RunsOK
  <2> HIDE DEF a, b, c
  <2> QED BY <1>0, <2>1 DEF Launches
<1>4. PICK m : /\ loader' = [loader EXCEPT ![r] = m] /\ b \in Nat
               /\ b = None => m.exhausted /\ m.iter = slice[r]
  BY <1>0, <1>2, DrawGives
<1> HIDE DEF b
<1>5. <<"splits", slots[r][1]>> \in ran[r]
  <2>1. device[r] \in Devices /\ Has(device[r], ran[r], "dist", <<"splits", slots[r][1]>>)
    BY <1>1 DEF StreamsOK, DeviceOK, Relied, FirstOK, DistStarted
  <2>2. "dist" \in Stream
    BY DEF Stream
  <2> QED BY <1>0, <2>1, <2>2, NotPending
<1>6. StreamsOK(kind, shuffler, "second", slice[r], m, slots[r], b, cs, kk[r],
                Enqueue(device[r], a), ran[r], Training(r))
  BY <1>1, <1>2, <1>4, <1>5, SecondCopied
<1> HIDE DEF a, cs, c
<1>7. StepTo(r, "second", slice[r], m, slots[r], b, forwards[r])
  BY <1>0, <1>4, AtRank DEF StepTo
<1>8. StreamsTo(r, cs, kk[r], Enqueue(device[r], a))
  BY <1>0, <1>3, RunsAt DEF StreamsTo
<1>9. Training(r)' = Training(r)
  BY <1>0, SameLoop
<1> QED BY <1>6, <1>7, <1>8, <1>9, OneHost

\* It joins the pipeline.
LEMMA FillEndRuns ==
  ASSUME HostOK, RunsOK, NEW r \in Rank, FillEnd(r)
  PROVE  RunsOK'
<1> DEFINE w == raw[r]
           c == contexts[r][1]
           q == IF w = None THEN slots[r] ELSE Append(slots[r], w)
           cs == IF Prefetching THEN <<Started(c, w)>>
                 ELSE IF w = None THEN <<c>> \o Tail(contexts[r]) ELSE <<c>> \o Tail(contexts[r]) \o <<NewContext>>
           a == Redistribute(w) \o If(Prefetching, StartSparseDataDist(w))
<1>0. /\ pc[r] = "second" /\ pc' = [pc EXCEPT ![r] = "begin"] /\ Launches(r, a) /\ Queued(r, c)
      /\ plan' = plan /\ slice' = slice /\ loader' = loader /\ raw' = raw /\ forwards' = forwards
      /\ kk' = kk /\ kind' = kind /\ shuffler' = shuffler /\ ran' = ran /\ stale' = stale
  BY DEF FillEnd, jobVars
<1>1. StreamsOK(kind, shuffler, "second", slice[r], loader[r], slots[r], raw[r], contexts[r], kk[r],
                device[r], ran[r], Training(r))
  BY <1>0, RunsAt
<1>2. /\ contexts' = [contexts EXCEPT ![r] = cs] /\ device' = [device EXCEPT ![r] = Enqueue(device[r], a)]
      /\ slots' = [slots EXCEPT ![r] = q]
  <2>1. r \in DOMAIN contexts /\ r \in DOMAIN device /\ r \in DOMAIN slots
    BY DEF RunsOK, HostOK
  <2> HIDE DEF a, c
  <2> QED BY <1>0, <2>1 DEF Launches, Queued
<1>3. slots[r] \in Seq(Nat) /\ w \in Nat
  BY RankSlots
<1>4. StreamsOK(kind, shuffler, "begin", slice[r], loader[r], q, w, cs, kk[r],
                Enqueue(device[r], a), ran[r], Training(r))
  BY <1>1, <1>3, SecondQueued
<1> HIDE DEF a, cs, c, q
<1>5. StepTo(r, "begin", slice[r], loader[r], q, w, forwards[r])
  BY <1>0, <1>2, AtRank DEF StepTo
<1>6. StreamsTo(r, cs, kk[r], Enqueue(device[r], a))
  BY <1>0, <1>2, RunsAt DEF StreamsTo
<1>7. Training(r)' = Training(r)
  BY <1>0, SameLoop
<1> QED BY <1>4, <1>5, <1>6, <1>7, OneHost

\* progress begins.
LEMMA BeginRuns ==
  ASSUME HostOK, RunsOK, NEW r \in Rank, Begin(r)
  PROVE  RunsOK'
<1> DEFINE b == NextBatch(r)
           ahead == ~Prefetching /\ Len(slots[r]) >= 2
           cs == IF ahead THEN [contexts[r] EXCEPT ![2] = Started(@, slots[r][2])] ELSE contexts[r]
           a == GlobalTokens(r, slots[r][1]) \o If(ahead, StartSparseDataDist(slots[r][2])) \o CopyBatch(b)
<1>0. /\ pc[r] = "begin" \/ (pc[r] = "call" /\ slots[r] # <<>>)
      /\ pc' = [pc EXCEPT ![r] = "dist"] /\ Launches(r, a)
      /\ Draw(r) /\ raw' = [raw EXCEPT ![r] = b]
      /\ contexts' = [contexts EXCEPT ![r] = IF ahead THEN [contexts[r] EXCEPT ![2] = Started(@, slots[r][2])] ELSE @]
      /\ plan' = plan /\ slice' = slice /\ slots' = slots /\ forwards' = forwards
      /\ kk' = kk /\ kind' = kind /\ shuffler' = shuffler /\ ran' = ran /\ stale' = stale
  BY DEF Begin, jobVars
<1>1. StreamsOK(kind, shuffler, pc[r], slice[r], loader[r], slots[r], raw[r], contexts[r], kk[r],
                device[r], ran[r], Training(r))
  BY <1>0, RunsAt
<1>2. /\ slots[r] \in Seq(Nat) /\ Len(slots[r]) >= 1 /\ slice[r] <= Len(plan)
      /\ \A i \in 1..Len(slots[r]) : slots[r][i] \in Nat /\ slots[r][i] # None
  <2>1. /\ slots[r] \in Seq(Nat) /\ Len(slots[r]) \in Nat
        /\ \A i \in 1..Len(slots[r]) : slots[r][i] \in Nat /\ slots[r][i] # None
    BY RankSlots
  <2>2. Len(slots[r]) >= 1
    <3>1. CASE pc[r] = "begin"
      BY <3>1, RankSlots
    <3>2. CASE slots[r] # <<>>
      <4>1. Len(slots[r]) # 0
        BY <3>2, <2>1, EmptySeq
      <4> QED BY <4>1, <2>1
    <3> QED BY <1>0, <3>1, <3>2
  <2>3. slice[r] <= Len(plan)
    BY <2>2, RankSlots
  <2> QED BY <2>1, <2>2, <2>3
<1>3. /\ contexts' = [contexts EXCEPT ![r] = cs] /\ device' = [device EXCEPT ![r] = Enqueue(device[r], a)]
  <2>1. r \in DOMAIN contexts /\ r \in DOMAIN device
    BY DEF RunsOK
  <2>2. contexts' = [contexts EXCEPT ![r] = cs]
    <3> HIDE DEF ahead
    <3> QED BY <1>0
  <2> HIDE DEF a, b, ahead
  <2> QED BY <1>0, <2>1, <2>2 DEF Launches
<1>4. PICK m : /\ loader' = [loader EXCEPT ![r] = m] /\ b \in Nat
               /\ b = None => m.exhausted /\ m.iter = slice[r]
               /\ loader[r].exhausted /\ loader[r].iter = slice[r] => b = None
  BY <1>0, <1>2, DrawGives
<1>p. pc[r] \in {"begin", "call"}
  BY <1>0
<1>a. ahead = (~Prefetching /\ Len(slots[r]) >= 2)
  OBVIOUS
<1> HIDE DEF b, ahead
<1>6. StreamsOK(kind, shuffler, "dist", slice[r], m, slots[r], b, cs, kk[r],
                Enqueue(device[r], a), ran[r], Training(r))
  BY ONLY <1>1, <1>2, <1>4, <1>p, <1>a, BeginOK, ZenonT(60)
<1> HIDE DEF a, cs
<1>7. StepTo(r, "dist", slice[r], m, slots[r], b, forwards[r])
  BY <1>0, <1>4, AtRank DEF StepTo
<1>8. StreamsTo(r, cs, kk[r], Enqueue(device[r], a))
  BY <1>0, <1>3, RunsAt DEF StreamsTo
<1>9. Training(r)' = Training(r)
  BY <1>0, SameLoop
<1> QED BY <1>6, <1>7, <1>8, <1>9, OneHost

\* The splits of the batch ahead are there when its tensors are launched.
LEMMA WaitDistRuns ==
  ASSUME HostOK, RunsOK, NEW r \in Rank, WaitDist(r)
  PROVE  RunsOK'
<1> DEFINE i == IF Prefetching THEN 1 ELSE 2
           there == i \in DOMAIN contexts[r]
           cs == IF there THEN [contexts[r] EXCEPT ![i] = Waited(@)] ELSE contexts[r]
           a == If(there, WaitSparseDataDist(contexts[r][i])) \o Workloads(raw[r])
<1>0. /\ pc[r] = "dist" /\ pc' = [pc EXCEPT ![r] = "forward"] /\ Launches(r, a)
      /\ there => ~Pending(r, "splits", contexts[r][i].splits)
      /\ contexts' = [contexts EXCEPT ![r] = IF there THEN [contexts[r] EXCEPT ![i] = Waited(@)] ELSE @]
      /\ plan' = plan /\ slice' = slice /\ loader' = loader /\ slots' = slots /\ raw' = raw /\ forwards' = forwards
      /\ kk' = kk /\ kind' = kind /\ shuffler' = shuffler /\ ran' = ran /\ stale' = stale
  BY DEF WaitDist, jobVars
<1>1. StreamsOK(kind, shuffler, "dist", slice[r], loader[r], slots[r], raw[r], contexts[r], kk[r],
                device[r], ran[r], Training(r))
  BY <1>0, RunsAt
<1>2. /\ slots[r] \in Seq(Nat) /\ Len(slots[r]) \in Nat /\ Len(slots[r]) >= 1 /\ raw[r] \in Nat
      /\ \A j \in 1..Len(slots[r]) : slots[r][j] \in Nat /\ slots[r][j] # None
  BY <1>0, RankSlots
<1>3. /\ contexts' = [contexts EXCEPT ![r] = cs] /\ device' = [device EXCEPT ![r] = Enqueue(device[r], a)]
  <2>1. r \in DOMAIN contexts /\ r \in DOMAIN device
    BY DEF RunsOK
  <2>2. contexts' = [contexts EXCEPT ![r] = cs]
    <3> HIDE DEF there, i
    <3> QED BY <1>0
  <2> HIDE DEF a, i, there
  <2> QED BY <1>0, <2>1, <2>2 DEF Launches
<1>4. there => <<"splits", contexts[r][i].splits>> \in ran[r]
  <2> SUFFICES ASSUME there PROVE <<"splits", contexts[r][i].splits>> \in ran[r]
    OBVIOUS
  <2>1. Has(device[r], ran[r], "dist", <<"splits", contexts[r][i].splits>>)
    <3>1. CASE Prefetching
      <4>1. SecondPrefetch("dist", slots[r], contexts[r], device[r], ran[r])
        BY <1>1, <3>1 DEF StreamsOK, Relied, Prefetching
      <4>2. DistStarted(contexts[r][1], slots[r][Len(slots[r])], device[r], ran[r])
        BY <4>1 DEF SecondPrefetch, Filled
      <4> QED BY <3>1, <4>2 DEF DistStarted
    <3>2. CASE ~Prefetching
      <4>1. SecondNative(shuffler, "dist", slots[r], contexts[r], device[r], ran[r])
        BY <1>1, <3>2 DEF StreamsOK, Relied, Prefetching
      <4>2. contexts[r] \in Seq(Contexts) /\ Len(slots[r]) <= 2
        BY <1>1 DEF StreamsOK, Relied, ShortOK
      <4>3. Len(contexts[r]) = Len(slots[r])
        BY <1>2, <4>1 DEF SecondNative
      <4>4. 2 \in 1..Len(contexts[r])
        BY <3>2, <4>2
      <4>5. Len(slots[r]) = 2
        <5>1. \A n \in Nat : n <= 2 /\ 2 \in 1..n => n = 2
          OBVIOUS
        <5> QED BY ONLY <5>1, <1>2, <4>2, <4>3, <4>4, Zenon
      <4>6. DistStarted(contexts[r][2], slots[r][2], device[r], ran[r])
        BY <4>1, <4>5 DEF SecondNative
      <4> QED BY <3>2, <4>6 DEF DistStarted
    <3> QED BY <3>1, <3>2
  <2>2. device[r] \in Devices /\ "dist" \in Stream
    BY <1>1 DEF StreamsOK, DeviceOK, Stream
  <2>3. ~Pending(r, "splits", contexts[r][i].splits)
    BY <1>0
  <2> HIDE DEF i, there
  <2> QED BY <2>1, <2>2, <2>3, NotPending
<1>i. i = IF Prefetching THEN 1 ELSE 2
  OBVIOUS
<1>t. there = (i \in DOMAIN contexts[r])
  OBVIOUS
<1> HIDE DEF i, there
<1>5. StreamsOK(kind, shuffler, "forward", slice[r], loader[r], slots[r], raw[r], cs, kk[r],
                Enqueue(device[r], a), ran[r], Training(r))
  BY ONLY <1>1, <1>2, <1>4, <1>i, <1>t, DistDone, ZenonT(60)
<1> HIDE DEF a, cs
<1>6. StepTo(r, "forward", slice[r], loader[r], slots[r], raw[r], forwards[r])
  BY <1>0, AtRank DEF StepTo
<1>7. StreamsTo(r, cs, kk[r], Enqueue(device[r], a))
  BY <1>0, <1>3, RunsAt DEF StreamsTo
<1>8. Training(r)' = Training(r)
  BY <1>0, SameLoop
<1> QED BY <1>5, <1>6, <1>7, <1>8, OneHost

\* The model runs on batch i.
LEMMA ForwardRuns ==
  ASSUME HostOK, RunsOK, NEW r \in Rank, Forward(r)
  PROVE  RunsOK'
<1> DEFINE b == slots[r][1]
           c == contexts[r][1]
           k == kk[r] \o If(raw[r] # None /\ Balanced, <<raw[r]>>)
           cs == [contexts[r] EXCEPT ![1] = Popped(@)]
           h == Append(forwards[r], <<b, plan[slice[r]].mode>>)
           a == <<Launch("default", "forward", b, ForwardData(c),
                         IF Prefetching THEN {"dist", "prefetch"} ELSE {"dist"})>>
<1>0. /\ pc[r] = "forward" /\ pc' = [pc EXCEPT ![r] = "finish"] /\ Launches(r, a)
      /\ WorkloadsRead(r, raw[r])
      /\ kk' = [kk EXCEPT ![r] = @ \o If(raw[r] # None /\ Balanced, <<raw[r]>>)]
      /\ contexts' = [contexts EXCEPT ![r][1] = Popped(@)]
      /\ forwards' = [forwards EXCEPT ![r] = Append(@, <<b, plan[slice[r]].mode>>)]
      /\ plan' = plan /\ slice' = slice /\ loader' = loader /\ slots' = slots /\ raw' = raw
      /\ kind' = kind /\ shuffler' = shuffler /\ ran' = ran /\ stale' = stale
  BY DEF Forward, jobVars
<1>1. StreamsOK(kind, shuffler, "forward", slice[r], loader[r], slots[r], raw[r], contexts[r], kk[r],
                device[r], ran[r], Training(r))
  BY <1>0, RunsAt
<1>2. /\ slots[r] \in Seq(Nat) /\ Len(slots[r]) >= 1 /\ raw[r] \in Nat
      /\ \A j \in 1..Len(slots[r]) : slots[r][j] \in Nat /\ slots[r][j] # None
  BY <1>0, RankSlots
<1>3. /\ contexts' = [contexts EXCEPT ![r] = cs] /\ device' = [device EXCEPT ![r] = Enqueue(device[r], a)]
      /\ kk' = [kk EXCEPT ![r] = k] /\ forwards' = [forwards EXCEPT ![r] = h]
  <2>1. r \in DOMAIN contexts /\ r \in DOMAIN device /\ r \in DOMAIN kk /\ r \in DOMAIN forwards
    BY DEF RunsOK, HostOK
  <2>2. contexts' = [contexts EXCEPT ![r] = cs]
    BY <1>0, <2>1
  <2>3. kk' = [kk EXCEPT ![r] = k]
    BY <1>0, <2>1
  <2>4. forwards' = [forwards EXCEPT ![r] = h]
    BY <1>0, <2>1
  <2> HIDE DEF a
  <2>5. device' = [device EXCEPT ![r] = Enqueue(device[r], a)]
    BY <1>0, <2>1 DEF Launches
  <2> QED BY <2>2, <2>3, <2>4, <2>5
<1>4. raw[r] # None /\ Balanced => <<"workloads", raw[r]>> \in ran[r]
  <2> SUFFICES ASSUME raw[r] # None, Balanced PROVE <<"workloads", raw[r]>> \in ran[r]
    OBVIOUS
  <2>1. Has(device[r], ran[r], "memcpy", <<"workloads", raw[r]>>)
    BY <1>1 DEF StreamsOK, Relied, RawOK, Balanced
  <2>2. device[r] \in Devices /\ "memcpy" \in Stream
    BY <1>1 DEF StreamsOK, DeviceOK, Stream
  <2>3. ~Pending(r, "workloads", raw[r])
    BY <1>0 DEF WorkloadsRead
  <2> QED BY <2>1, <2>2, <2>3, NotPending
<1>5. StreamsOK(kind, shuffler, "finish", slice[r], loader[r], slots[r], raw[r], cs, k,
                Enqueue(device[r], a), ran[r], Training(r))
  BY ONLY <1>1, <1>2, <1>4, ModelRuns
<1> HIDE DEF a, cs, c, k, h
<1>6. StepTo(r, "finish", slice[r], loader[r], slots[r], raw[r], h)
  BY <1>0, <1>3, AtRank DEF StepTo
<1>7. StreamsTo(r, cs, k, Enqueue(device[r], a))
  BY <1>0, <1>3, RunsAt DEF StreamsTo
<1>8. Training(r)' = Training(r)
  BY <1>0, SameLoop
<1> QED BY <1>5, <1>6, <1>7, <1>8, OneHost

\* The batches move up in the pipeline.
LEMMA FinishRuns ==
  ASSUME HostOK, RunsOK, NEW r \in Rank, Finish(r)
  PROVE  RunsOK'
<1> DEFINE b == slots[r][1]
           w == raw[r]
           ahead == IF Prefetching /\ Len(slots[r]) >= 2 THEN slots[r][2] ELSE None
           c == contexts[r][1]
           q == Tail(slots[r]) \o If(w # None, <<w>>)
           cs == IF Prefetching THEN <<Started(Prefetched(c, ahead), w)>>
                 ELSE Tail(contexts[r]) \o If(w # None, <<NewContext>>)
           a == Redistribute(w) \o CommunicatorGuard \o Prefetch(c, ahead) \o Backward(r, b)
                  \o If(Prefetching, StartSparseDataDist(w))
<1>0. /\ pc[r] = "finish" /\ pc' = [pc EXCEPT ![r] = "call"] /\ Launches(r, a)
      /\ slots' = [slots EXCEPT ![r] = q]
      /\ contexts' = [contexts EXCEPT ![r] = IF Prefetching THEN <<Started(Prefetched(c, ahead), w)>>
                                             ELSE Tail(@) \o If(w # None, <<NewContext>>)]
      /\ raw' = [raw EXCEPT ![r] = None]
      /\ plan' = plan /\ slice' = slice /\ loader' = loader /\ forwards' = forwards
      /\ kk' = kk /\ kind' = kind /\ shuffler' = shuffler /\ ran' = ran /\ stale' = stale
  BY DEF Finish, jobVars
<1>1. StreamsOK(kind, shuffler, "finish", slice[r], loader[r], slots[r], raw[r], contexts[r], kk[r],
                device[r], ran[r], Training(r))
  BY <1>0, RunsAt
<1>2. /\ slots[r] \in Seq(Nat) /\ Len(slots[r]) >= 1 /\ raw[r] \in Nat
      /\ \A j \in 1..Len(slots[r]) : slots[r][j] \in Nat /\ slots[r][j] # None
  BY <1>0, RankSlots
<1>3. /\ contexts' = [contexts EXCEPT ![r] = cs] /\ device' = [device EXCEPT ![r] = Enqueue(device[r], a)]
  <2>1. r \in DOMAIN contexts /\ r \in DOMAIN device
    BY DEF RunsOK
  <2> HIDE DEF a, ahead, c
  <2> QED BY <1>0, <2>1 DEF Launches
<1>a. ahead = IF Prefetching /\ Len(slots[r]) >= 2 THEN slots[r][2] ELSE None
  OBVIOUS
<1> HIDE DEF ahead
<1>4. StreamsOK(kind, shuffler, "call", slice[r], loader[r], q, None, cs, kk[r],
                Enqueue(device[r], a), ran[r], Training(r))
  BY ONLY <1>1, <1>2, <1>a, PipelineAdvances
<1> HIDE DEF a, cs, c, q
<1>5. StepTo(r, "call", slice[r], loader[r], q, None, forwards[r])
  BY <1>0, AtRank DEF StepTo
<1>6. StreamsTo(r, cs, kk[r], Enqueue(device[r], a))
  BY <1>0, <1>3, RunsAt DEF StreamsTo
<1>7. Training(r)' = Training(r)
  BY <1>0, SameLoop
<1> QED BY <1>4, <1>5, <1>6, <1>7, OneHost

-----------------------------------------------------------------------------
(* The KK thread and the devices.                                          *)

\* A step that leaves the host threads alone.
LEMMA HostsWait ==
  ASSUME RunsOK, UNCHANGED <<jobVars, hostVars>>,
         device' = [n \in Rank |-> device'[n]], kk' = [n \in Rank |-> kk'[n]],
         ran' = [n \in Rank |-> ran'[n]], stale' = [n \in Rank |-> stale'[n]],
         \A n \in Rank : /\ stale'[n] = {}
                         /\ StreamsOK(kind, shuffler, pc[n], slice[n], loader[n], slots[n], raw[n], contexts[n],
                                      kk'[n], device'[n], ran'[n], Training(n))
  PROVE  RunsOK'
<1>1. /\ kind' = kind /\ shuffler' = shuffler /\ plan' = plan /\ pc' = pc /\ slice' = slice /\ loader' = loader
      /\ slots' = slots /\ raw' = raw /\ contexts' = contexts
  BY DEF jobVars, hostVars
<1>2. \A n \in Rank : Training(n)' = Training(n)
  BY <1>1, SameLoop
<1>3. contexts' = [n \in Rank |-> contexts'[n]]
  BY <1>1 DEF RunsOK
<1>4. ASSUME NEW n \in Rank
      PROVE  /\ stale'[n] = {}
             /\ StreamsOK(kind', shuffler', pc'[n], slice'[n], loader'[n], slots'[n], raw'[n], contexts'[n], kk'[n],
                          device'[n], ran'[n], Training(n)')
  BY <1>1, <1>2
<1> QED BY <1>3, <1>4 DEF RunsOK

\* The oldest work of stream s of rank r, when it is ready, has its inputs.
LEMMA ReadyIsSound ==
  ASSUME RunsOK, NEW r \in Rank, NEW s \in Stream, Ready(r, s), NEW e,
         e \in Devices, e.count = device[r].count, e.queue = [device[r].queue EXCEPT ![s] = Tail(@)],
         NEW v, v = Head(device[r].queue[s])
  PROVE  /\ Spoilt(r, v) = {}
         /\ StreamsOK(kind, shuffler, pc[r], slice[r], loader[r], slots[r], raw[r], contexts[r],
                      kk[r], e, Computed(r, v), Training(r))
<1>1. /\ stale[r] = {}
      /\ StreamsOK(kind, shuffler, pc[r], slice[r], loader[r], slots[r], raw[r], contexts[r], kk[r],
                   device[r], ran[r], Training(r))
  BY RunsAt
<1>2. device[r].queue[s] # <<>> /\ \A a \in Head(device[r].queue[s]).after : Done(r, a[1]) >= a[2]
  BY DEF Ready
<1>3. \A z : Done(r, z) = RunOn(device[r], z)
  BY DEF Done, RunOn
<1>4. \A a \in Head(device[r].queue[s]).after : RunOn(device[r], a[1]) >= a[2]
  BY <1>2, <1>3
<1>5. Advanced(device[r], ran[r], s, e, Computed(r, v))
  BY <1>2 DEF Advanced, Computed, Result
<1>6. /\ v.data = v.batch /\ Needs(v) \subseteq ran[r]
      /\ StreamsOK(kind, shuffler, pc[r], slice[r], loader[r], slots[r], raw[r], contexts[r],
                   kk[r], e, Computed(r, v), Training(r))
  BY <1>1, <1>4, <1>5, OldestRuns
<1>7. Spoilt(r, v) = {}
  BY <1>1, <1>6 DEF Spoilt, Sound
<1> QED BY <1>6, <1>7

\* A copy, the prefetch or a wait runs.
LEMMA RunRuns ==
  ASSUME RunsOK, NEW r \in Rank, NEW s \in Stream, Run(r, s)
  PROVE  RunsOK'
<1> DEFINE v == Head(device[r].queue[s])
           e == [device[r] EXCEPT !.queue[s] = Tail(@)]
<1>0. /\ Ready(r, s) /\ device' = [device EXCEPT ![r].queue[s] = Tail(@)]
      /\ ran' = [ran EXCEPT ![r] = Computed(r, v)] /\ stale' = [stale EXCEPT ![r] = Spoilt(r, v)]
      /\ UNCHANGED <<jobVars, hostVars>> /\ kk' = kk
  BY DEF Run
<1>1. /\ device = [n \in Rank |-> device[n]] /\ kk = [n \in Rank |-> kk[n]]
      /\ ran = [n \in Rank |-> ran[n]] /\ stale = [n \in Rank |-> stale[n]]
  BY DEF RunsOK
<1>2. device[r] \in Devices
  BY RunsAt DEF StreamsOK, DeviceOK
<1>3. device' = [device EXCEPT ![r] = e]
  BY <1>0, <1>1
<1>4. /\ e.count = device[r].count /\ e.queue = [device[r].queue EXCEPT ![s] = Tail(@)] /\ e.issued = device[r].issued
      /\ e = [queue |-> e.queue, count |-> e.count, issued |-> e.issued]
  <2> DEFINE g == device[r]
  <2>1. g = [queue |-> g.queue, count |-> g.count, issued |-> g.issued]
    BY <1>2 DEF Devices
  <2>2. e = [g EXCEPT !.queue = [g.queue EXCEPT ![s] = Tail(@)]]
    BY <2>1
  <2> HIDE DEF e, g
  <2>3. e = [queue |-> [g.queue EXCEPT ![s] = Tail(@)], count |-> g.count, issued |-> g.issued]
    BY <2>1, <2>2
  <2> QED BY <2>3 DEF g
<1>5. e \in Devices
  <2>1. /\ device[r].queue \in [Stream -> Seq(Items)] /\ device[r].count \in [Stream -> Nat]
        /\ device[r].issued \in [Communicator -> Seq(Ops \X Nat)] /\ device[r].queue[s] # <<>>
    BY <1>0, <1>2 DEF Devices, Ready
  <2>2. device[r].queue[s] \in Seq(Items)
    BY <2>1
  <2>3. Tail(device[r].queue[s]) \in Seq(Items)
    <3> DEFINE q == device[r].queue[s]
    <3> HIDE DEF q
    <3>1. q \in Seq(Items) /\ q # <<>>
      BY <2>1, <2>2 DEF q
    <3>2. Tail(q) \in Seq(Items)
      BY <3>1
    <3> QED BY <3>2 DEF q
  <2>4. e.queue \in [Stream -> Seq(Items)]
    BY <1>4, <2>1, <2>3
  <2> HIDE DEF e
  <2> QED BY <1>4, <2>1, <2>4 DEF Devices
<1>6. v = Head(device[r].queue[s])
  OBVIOUS
<1> HIDE DEF e, v
<1>7. /\ Spoilt(r, v) = {}
      /\ StreamsOK(kind, shuffler, pc[r], slice[r], loader[r], slots[r], raw[r], contexts[r],
                   kk[r], e, Computed(r, v), Training(r))
  BY <1>0, <1>4, <1>5, <1>6, ReadyIsSound
<1>8. /\ device' = [n \in Rank |-> device'[n]] /\ kk' = [n \in Rank |-> kk'[n]]
      /\ ran' = [n \in Rank |-> ran'[n]] /\ stale' = [n \in Rank |-> stale'[n]]
  BY <1>0, <1>1, <1>3
<1>9. ASSUME NEW n \in Rank
      PROVE  /\ stale'[n] = {}
             /\ StreamsOK(kind, shuffler, pc[n], slice[n], loader[n], slots[n], raw[n], contexts[n],
                          kk'[n], device'[n], ran'[n], Training(n))
  <2>1. CASE n = r
    <3>1. device'[n] = e /\ kk'[n] = kk[r] /\ ran'[n] = Computed(r, v) /\ stale'[n] = Spoilt(r, v)
      BY <1>0, <1>1, <1>3, <2>1
    <3> QED BY <1>7, <2>1, <3>1
  <2>2. CASE n # r
    <3>1. device'[n] = device[n] /\ kk'[n] = kk[n] /\ ran'[n] = ran[n] /\ stale'[n] = stale[n]
      BY <1>0, <1>1, <1>3, <2>2
    <3> QED BY <3>1, RunsAt
  <2> QED BY <2>1, <2>2
<1> QED BY <1>0, <1>8, <1>9, HostsWait

\* A collective runs, on all ranks.
LEMMA CollectiveRuns ==
  ASSUME RunsOK, NEW c \in Communicator, NEW at \in [Rank -> Stream], Collective(c, at)
  PROVE  RunsOK'
<1> DEFINE work == [n \in Rank |-> Head(device[n].queue[at[n]])]
           E(n) == [device[n] EXCEPT !.queue[at[n]] = Tail(@), !.issued[c] = Tail(@)]
<1>0. /\ \A n \in Rank : Ready(n, at[n]) /\ device[n].issued[c] # <<>>
      /\ device' = [n \in Rank |-> E(n)]
      /\ ran' = [n \in Rank |-> Computed(n, work[n])] /\ stale' = [n \in Rank |-> Spoilt(n, work[n])]
      /\ UNCHANGED <<jobVars, hostVars>> /\ kk' = kk
  BY DEF Collective
<1>1. kk' = [n \in Rank |-> kk'[n]]
  BY <1>0 DEF RunsOK
<1>2. ASSUME NEW n \in Rank
      PROVE  /\ E(n) \in Devices /\ E(n).count = device[n].count
             /\ E(n).queue = [device[n].queue EXCEPT ![at[n]] = Tail(@)]
  <2> DEFINE s == at[n]
             e == E(n)
  <2>1. device[n] \in Devices /\ s \in Stream
    BY RunsAt DEF StreamsOK, DeviceOK
  <2>2. /\ e.count = device[n].count /\ e.queue = [device[n].queue EXCEPT ![s] = Tail(@)]
        /\ e.issued = [device[n].issued EXCEPT ![c] = Tail(@)]
        /\ e = [queue |-> e.queue, count |-> e.count, issued |-> e.issued]
    <3> DEFINE g == device[n]
    <3>1. g = [queue |-> g.queue, count |-> g.count, issued |-> g.issued]
      BY <2>1 DEF Devices
    <3>2. e = [[g EXCEPT !.queue = [g.queue EXCEPT ![s] = Tail(@)]] EXCEPT !.issued = [g.issued EXCEPT ![c] = Tail(@)]]
      BY <3>1
    <3> HIDE DEF e, g, s
    <3>3. e = [queue |-> [g.queue EXCEPT ![s] = Tail(@)], count |-> g.count,
               issued |-> [g.issued EXCEPT ![c] = Tail(@)]]
      BY <3>1, <3>2
    <3> QED BY <3>3 DEF g
  <2> HIDE DEF e, s
  <2>3. /\ device[n].queue \in [Stream -> Seq(Items)] /\ device[n].count \in [Stream -> Nat]
        /\ device[n].issued \in [Communicator -> Seq(Ops \X Nat)]
        /\ device[n].queue[s] # <<>> /\ device[n].issued[c] # <<>>
    BY <1>0, <2>1 DEF Devices, Ready, s
  <2>4. \A S : \A q \in Seq(S) : q # <<>> => Tail(q) \in Seq(S)
    OBVIOUS
  <2>5. Tail(device[n].queue[s]) \in Seq(Items) /\ Tail(device[n].issued[c]) \in Seq(Ops \X Nat)
    <3>1. device[n].queue[s] \in Seq(Items) /\ device[n].issued[c] \in Seq(Ops \X Nat)
      BY <2>1, <2>3
    <3> QED BY ONLY <2>3, <2>4, <3>1
  <2>6. e.queue \in [Stream -> Seq(Items)] /\ e.issued \in [Communicator -> Seq(Ops \X Nat)]
    BY <2>1, <2>2, <2>3, <2>5
  <2>7. e \in Devices
    BY <2>2, <2>3, <2>6 DEF Devices
  <2> QED BY <2>2, <2>7 DEF e, s
<1> HIDE DEF E
<1>3. ASSUME NEW n \in Rank
      PROVE  /\ stale'[n] = {}
             /\ StreamsOK(kind, shuffler, pc[n], slice[n], loader[n], slots[n], raw[n], contexts[n],
                          kk'[n], device'[n], ran'[n], Training(n))
  <2>1. work[n] = Head(device[n].queue[at[n]]) /\ at[n] \in Stream
    OBVIOUS
  <2> HIDE DEF work
  <2>2. /\ Spoilt(n, work[n]) = {}
        /\ StreamsOK(kind, shuffler, pc[n], slice[n], loader[n], slots[n], raw[n], contexts[n],
                     kk[n], E(n), Computed(n, work[n]), Training(n))
    BY <1>0, <1>2, <2>1, ReadyIsSound
  <2>3. device'[n] = E(n) /\ kk'[n] = kk[n] /\ ran'[n] = Computed(n, work[n]) /\ stale'[n] = Spoilt(n, work[n])
    BY <1>0
  <2> QED BY <2>2, <2>3
<1>4. /\ device' = [n \in Rank |-> device'[n]] /\ ran' = [n \in Rank |-> ran'[n]] /\ stale' = [n \in Rank |-> stale'[n]]
  <2> HIDE DEF work
  <2> QED BY <1>0
<1> QED BY <1>0, <1>1, <1>3, <1>4, HostsWait

\* The KK thread runs a task.
LEMMA RunKKRuns ==
  ASSUME RunsOK, NEW r \in Rank, RunKK(r)
  PROVE  RunsOK'
<1> DEFINE k == kk[r]
           v == [op |-> "kk", batch |-> Head(k), data |-> Head(k)]
           S == ran[r] \cup {<<"kk", Head(k)>>}
<1>0. /\ k # <<>> /\ kk' = [kk EXCEPT ![r] = Tail(k)]
      /\ ran' = [ran EXCEPT ![r] = Computed(r, v)] /\ stale' = [stale EXCEPT ![r] = Spoilt(r, v)]
      /\ UNCHANGED <<jobVars, hostVars>> /\ device' = device
  BY DEF RunKK
<1>1. /\ device = [n \in Rank |-> device[n]] /\ kk = [n \in Rank |-> kk[n]]
      /\ ran = [n \in Rank |-> ran[n]] /\ stale = [n \in Rank |-> stale[n]]
  BY DEF RunsOK
<1>2. /\ <<"workloads", Head(k)>> \in ran[r]
      /\ StreamsOK(kind, shuffler, pc[r], slice[r], loader[r], slots[r], raw[r], contexts[r],
                   Tail(k), device[r], S, Training(r))
  BY <1>0, RunsAt, TaskRuns
<1>3. Computed(r, v) = S
  BY DEF Computed
<1>4. Spoilt(r, v) = {}
  <2>1. Needs(v) = {<<"workloads", Head(k)>>}
    BY DEF Needs
  <2>2. Sound(r, v)
    BY <1>2, <2>1 DEF Sound
  <2> QED BY <2>2, RunsAt DEF Spoilt
<1> HIDE DEF v, k, S
<1>8. /\ device' = [n \in Rank |-> device'[n]] /\ kk' = [n \in Rank |-> kk'[n]]
      /\ ran' = [n \in Rank |-> ran'[n]] /\ stale' = [n \in Rank |-> stale'[n]]
  BY <1>0, <1>1
<1>9. ASSUME NEW n \in Rank
      PROVE  /\ stale'[n] = {}
             /\ StreamsOK(kind, shuffler, pc[n], slice[n], loader[n], slots[n], raw[n], contexts[n],
                          kk'[n], device'[n], ran'[n], Training(n))
  <2>1. CASE n = r
    <3>1. device'[n] = device[r] /\ kk'[n] = Tail(k) /\ ran'[n] = S /\ stale'[n] = {}
      BY <1>0, <1>1, <1>3, <1>4, <2>1
    <3> QED BY <1>2, <2>1, <3>1
  <2>2. CASE n # r
    <3>1. device'[n] = device[n] /\ kk'[n] = kk[n] /\ ran'[n] = ran[n] /\ stale'[n] = stale[n]
      BY <1>0, <1>1, <2>2
    <3> QED BY <3>1, RunsAt
  <2> QED BY <2>1, <2>2
<1> QED BY <1>0, <1>8, <1>9, HostsWait

\* Nothing is launched at first.
LEMMA RunsInit ==
  ASSUME Init PROVE RunsOK
<1> DEFINE d == [queue |-> [s \in Stream |-> <<>>], count |-> [s \in Stream |-> 0],
                 issued |-> [c \in Communicator |-> <<>>]]
           cs == If(Prefetching, <<NewContext>>)
           l == [iter |-> 0, exhausted |-> FALSE, drawn |-> 0]
<1>1. /\ pc = [r \in Rank |-> "call"] /\ slice = [r \in Rank |-> 1] /\ loader = [r \in Rank |-> l]
      /\ slots = [r \in Rank |-> <<>>] /\ raw = [r \in Rank |-> None] /\ contexts = [r \in Rank |-> cs]
      /\ device = [r \in Rank |-> d] /\ kk = [r \in Rank |-> <<>>]
      /\ ran = [r \in Rank |-> {}] /\ stale = [r \in Rank |-> {}]
  BY DEF Init
<1>2. /\ d.queue = [s \in Stream |-> <<>>] /\ d.count = [s \in Stream |-> 0]
      /\ d.issued = [c \in Communicator |-> <<>>]
      /\ d = [queue |-> d.queue, count |-> d.count, issued |-> d.issued]
  OBVIOUS
<1> HIDE DEF d, l
<1>3. Len(<<>>) = 0 /\ <<>> \in Seq(Items) /\ <<>> \in Seq(Ops \X Nat) /\ <<>> \in Seq(Nat)
  OBVIOUS
<1>4. d \in Devices
  <2>1. d.queue \in [Stream -> Seq(Items)]
    BY <1>2, <1>3
  <2>2. d.count \in [Stream -> Nat]
    BY <1>2
  <2>3. d.issued \in [Communicator -> Seq(Ops \X Nat)]
    BY <1>2, <1>3
  <2>4. \A x, y, z : /\ x \in [Stream -> Seq(Items)] /\ y \in [Stream -> Nat]
                     /\ z \in [Communicator -> Seq(Ops \X Nat)]
                     => [queue |-> x, count |-> y, issued |-> z] \in Devices
    BY DEF Devices
  <2>5. [queue |-> d.queue, count |-> d.count, issued |-> d.issued] \in Devices
    BY ONLY <2>1, <2>2, <2>3, <2>4
  <2> QED BY ONLY <1>2, <2>5
<1>5. \A s \in Stream : d.queue[s] = <<>> /\ d.count[s] = 0
  BY <1>2
<1>6. DeviceOK(kind, shuffler, d, {})
  <2>1. \A s \in Stream : Len(d.queue[s]) <= d.count[s]
    BY <1>3, <1>5
  <2>2. \A s \in Stream : \A i \in 1..Len(d.queue[s]) : Behind(kind, shuffler, d, {}, s, RunOn(d, s) + i, d.queue[s][i])
    BY <1>3, <1>5
  <2> QED BY <1>4, <2>1, <2>2 DEF DeviceOK
<1>7. RanOK(shuffler, {}) /\ TasksRead(<<>>, {})
  BY <1>3 DEF RanOK, TasksRead
<1>8. ShortOK("call", 1, l, <<>>, None)
  BY <1>3 DEF ShortOK, Filled
<1>9. cs \in Seq(Contexts) /\ (kind = "prefetch" => Len(cs) = 1)
  <2>1. <<NewContext>> \in Seq(Contexts) /\ Len(<<NewContext>>) = 1 /\ <<>> \in Seq(Contexts)
    BY NewIs
  <2> QED BY <2>1 DEF If, Prefetching
<1> HIDE DEF cs
<1>10. \A t : Relied(kind, shuffler, "call", <<>>, None, cs, d, {}, t)
  <2>1. ~Filled("call", <<>>)
    BY <1>3 DEF Filled
  <2>2. RawOK(shuffler, "call", None, d, {})
    BY DEF RawOK
  <2>3. \A t : FirstOK(kind, shuffler, "call", <<>>, cs, d, {}, t)
    BY <2>1 DEF FirstOK
  <2>4. kind = "prefetch" => SecondPrefetch("call", <<>>, cs, d, {})
    BY <1>9, <2>1 DEF SecondPrefetch
  <2>5. SecondNative(shuffler, "call", <<>>, cs, d, {})
    BY <1>3 DEF SecondNative
  <2> QED BY <1>9, <2>2, <2>3, <2>4, <2>5 DEF Relied
<1>11. ASSUME NEW r \in Rank
       PROVE  /\ stale[r] = {}
              /\ StreamsOK(kind, shuffler, pc[r], slice[r], loader[r], slots[r], raw[r], contexts[r], kk[r],
                           device[r], ran[r], Training(r))
  <2>1. /\ pc[r] = "call" /\ slice[r] = 1 /\ loader[r] = l /\ slots[r] = <<>> /\ raw[r] = None /\ contexts[r] = cs
        /\ device[r] = d /\ kk[r] = <<>> /\ ran[r] = {} /\ stale[r] = {}
    BY <1>1
  <2>2. Relied(kind, shuffler, "call", <<>>, None, cs, d, {}, Training(r))
    BY <1>10
  <2>3. StreamsOK(kind, shuffler, "call", 1, l, <<>>, None, cs, <<>>, d, {}, Training(r))
    BY <1>3, <1>6, <1>7, <1>8, <2>2 DEF StreamsOK
  <2> QED BY <2>1, <2>3
<1>12. /\ contexts = [r \in Rank |-> contexts[r]] /\ device = [r \in Rank |-> device[r]]
       /\ kk = [r \in Rank |-> kk[r]] /\ ran = [r \in Rank |-> ran[r]] /\ stale = [r \in Rank |-> stale[r]]
  BY <1>1
<1> QED BY <1>11, <1>12 DEF RunsOK

\* Every step keeps the streams in order.
LEMMA RunsStep ==
  ASSUME HostOK, RunsOK, [Next]_trainVars PROVE RunsOK'
<1>1. ASSUME NEW r \in Rank, Host(r) PROVE RunsOK'
  BY <1>1, FillFirstRuns, FillDistRuns, FillSecondRuns, FillEndRuns, BeginRuns, WaitDistRuns, ForwardRuns,
     FinishRuns DEF Host
<1>2. CASE UNCHANGED trainVars
  <2>1. UNCHANGED <<kind, shuffler, plan, pc, slice, loader, slots, raw, contexts, device, kk, ran, stale>>
    BY <1>2 DEF trainVars, jobVars, hostVars
  <2>2. \A r : Training(r)' = Training(r)
    BY <2>1, SameLoop
  <2> QED BY <2>1, <2>2 DEF RunsOK
<1>3. CASE Next
  BY <1>1, <1>3, RunRuns, RunKKRuns, CollectiveRuns DEF Next
<1> QED BY <1>2, <1>3

\* progress, fill_pipeline and the shuffler (train_pipeline.py, batch_shuffler.py):
\* whatever the pipeline, the shuffler, the plan and the order in which streams,
\* collectives and the KK thread get on, all that waits on a stream is behind what
\* it reads, and the contexts hold the results of the batch they are used for.
THEOREM StreamsInOrder == Spec => [](HostOK /\ RunsOK)
<1>1. Init => HostOK /\ RunsOK
  BY HostInit, RunsInit
<1>2. (HostOK /\ RunsOK) /\ [Next]_trainVars => (HostOK /\ RunsOK)'
  BY HostStep, RunsStep
<1> QED BY <1>1, <1>2, PTL DEF Spec

\* The wait_stream calls and the points where the host stops are enough: nothing
\* is computed before its inputs or from those of another batch.
THEOREM InputsComeFirst == Spec => []NothingReadEarly
<1>1. HostOK /\ RunsOK => NothingReadEarly
  BY DEF RunsOK, NothingReadEarly
<1> QED BY <1>1, StreamsInOrder, PTL
=============================================================================
