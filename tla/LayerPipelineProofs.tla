------------------------ MODULE LayerPipelineProofs ------------------------
(***************************************************************************)
(* Theorems about the layer pipeline: two buffers in each direction and    *)
(* the events of the code are enough, for every number of layers, pages    *)
(* and requests.                                                           *)
(*                                                                         *)
(* A stream runs its work in order, so the invariant speaks of the work    *)
(* that is pending, of the events that have happened, and of the order of  *)
(* the pending work of one stream; never of positions in a queue.          *)
(***************************************************************************)
EXTENDS LayerPipeline, SequenceTheorems, TLAPS

\* The events of a call.
Loaded(n, l) == <<"loaded", n, l>>
Compl(n, l) == <<"compl", n, l>>
Gathered(n, l) == <<"gathered", n, l>>
Sent(n, l) == <<"ready", n, l>>
Inferred(n) == <<"inference", n>>

\* The work of a call.
Load(n, l, d) == Copy(OnBufFree(n, l), Host(d, l), OnBuf(l), Loaded(n, l))
LoadEnd(n) == Wait({Compl(n, NumLayers - 1)})
Scatter(n, l, p) == Copy({Loaded(n, l)}, OnBuf(l), Gpu(p, l), Compl(n, l))
Begin(n) == Wait({Inferred(n)})
Gather(n, l, p) == Copy(OffBufFree(n, l), Gpu(p, l), OffBuf(l), Gathered(n, l))
End(n) == Wait({Sent(n, NumLayers - 1)})
Send(n, l, d) == Copy({Gathered(n, l)}, OffBuf(l), Host(d, l), Sent(n, l))
Hit(l, p, d) == Read({}, Gpu(p, l), KV(d, l), <<>>)
Att(n, l, p, d) == Read({Compl(n, l)}, Gpu(p, l), KV(d, l), <<>>)
Put(l, p, d) == Write({}, Gpu(p, l), KV(d, l), <<>>)
Infer(n) == [Wait({}) EXCEPT !.event = Inferred(n)]

OnloadItems == {Load(n, l, d) : n \in Nat, l \in Layer, d \in Data} \cup {LoadEnd(n) : n \in Nat}
ScatterItems == {Scatter(n, l, p) : n \in Nat, l \in Layer, p \in Page}
GatherItems == {Begin(n) : n \in Nat} \cup {Gather(n, l, p) : n \in Nat, l \in Layer, p \in Page}
               \cup {End(n) : n \in Nat}
OffloadItems == {Send(n, l, d) : n \in Nat, l \in Layer, d \in Data}
ComputeItems == {Hit(l, p, d) : l \in Layer, p \in Page, d \in Data}
                \cup {Att(n, l, p, d) : n \in Nat, l \in Layer, p \in Page, d \in Data}
                \cup {Put(l, p, d) : l \in Layer, p \in Page, d \in Data}
                \cup {Infer(n) : n \in Nat}

\* w is still to run on a stream with the queue q.
In(q, w) == \E i \in 1..Len(q) : q[i] = w

\* Layer l of call n comes before layer k of call m.
Earlier(n, l, m, k) == n < m \/ (n = m /\ l < k)

\* Where an item of the gather stream stands in its call.
At(w, n, k) ==
    \/ k = -1 /\ w = Begin(n)
    \/ k \in Layer /\ \E p \in Page : w = Gather(n, k, p)
    \/ k = NumLayers /\ w = End(n)

\* The order of two items of one stream.
LoadsBefore(u, v) ==
    \A n, m \in Nat, l, k \in Layer, d, e \in Data : u = Load(n, l, d) /\ v = Load(m, k, e) => l < k
ScattersBefore(u, v) ==
    \A n, m \in Nat, l, k \in Layer, p, q \in Page : u = Scatter(n, l, p) /\ v = Scatter(m, k, q) => l < k
GathersBefore(u, v) ==
    \A n, m \in Nat, l, k \in Int : At(u, n, l) /\ At(v, m, k) => Earlier(n, l, m, k)
SendsBefore(u, v) ==
    \A n, m \in Nat, l, k \in Layer, d, e \in Data :
        u = Send(n, l, d) /\ v = Send(m, k, e) => Earlier(n, l, m, k)
ComputesBefore(u, v) ==
    /\ \A n \in Nat : u # Infer(n)
    /\ \A l \in Layer, p \in Page, d \in Data :
          u = Hit(l, p, d) \/ (\E n \in Nat : u = Att(n, l, p, d)) => v # Put(l, p, d)

Before(s, u, v) ==
    /\ s = "onload" => LoadsBefore(u, v)
    /\ s = "scatter" => ScattersBefore(u, v)
    /\ s = "gather" => GathersBefore(u, v)
    /\ s = "offload" => SendsBefore(u, v)
    /\ s = "compute" => ComputesBefore(u, v)
Ordered(s, q) == \A i, j \in 1..Len(q) : i < j => Before(s, q[i], q[j])
-----------------------------------------------------------------------------
(* The inductive invariant.                                                *)

TypesOK ==
    /\ mem = [c \in Cell |-> mem[c]]
    /\ queue = [s \in Stream |-> queue[s]]
    /\ queue["onload"] \in Seq(OnloadItems) /\ queue["scatter"] \in Seq(ScatterItems)
    /\ queue["gather"] \in Seq(GatherItems) /\ queue["offload"] \in Seq(OffloadItems)
    /\ queue["compute"] \in Seq(ComputeItems)
    /\ holder \in [Page -> Data \cup {"none"}]
    /\ tasks \subseteq [call : Nat, data : Data, page : Page]
    /\ hosted \subseteq Data
    /\ calls \in Nat
    /\ predicted \in Data \cup {"none"}

QueuesOrdered == \A s \in Stream : Ordered(s, queue[s])

\* A history is in one page; that of the pass whose offload is next is in one.
HolderOK ==
    /\ \A p, q \in Page : holder[p] # "none" /\ holder[p] = holder[q] => p = q
    /\ predicted # "none" => \E p \in Page : holder[p] = predicted

\* Call n has begun, and launched its offload if it belongs to one.
Begun(n) == n <= calls
Launched(n) == n <= calls /\ (predicted # "none" => n < calls)

TasksOK ==
    /\ \A t \in tasks : Launched(t.call) /\ holder[t.page] = t.data /\ t.data \notin hosted
    /\ \A t, u \in tasks : t.call = u.call \/ t.data = u.data => t = u

\* No event of a call that is still to come has happened.
EventsPast ==
    /\ \A n \in Nat, l \in Layer : Loaded(n, l) \in events \/ Compl(n, l) \in events => Begun(n)
    /\ \A n \in Nat, l \in Layer : Gathered(n, l) \in events \/ Sent(n, l) \in events => Launched(n)
    /\ \A n \in Nat : Inferred(n) \in events => Launched(n)

\* Copies from the host are of the last call, for the page that is scattered to.
LoadsOK ==
    \A n \in Nat, l \in Layer, d \in Data : In(queue["onload"], Load(n, l, d)) =>
        /\ n = calls /\ d \in hosted
        /\ \E p \in Page : In(queue["scatter"], Scatter(n, l, p))
        /\ \A k \in Layer, p \in Page : In(queue["scatter"], Scatter(n, k, p)) => holder[p] = d
        /\ \A k \in Layer : Loaded(n, k) \in events => k < l

\* Only the offload of the last call can be about a page that is being written.
Mine(p) == \A t \in tasks : t.page = p => t.call = calls

ScattersOK ==
    \A n \in Nat, l \in Layer, p \in Page : In(queue["scatter"], Scatter(n, l, p)) =>
        /\ n = calls /\ holder[p] \in Data /\ Mine(p)
        /\ \A k \in Layer : Compl(n, k) \in events => k < l
        /\ Loaded(n, l) \in events => mem[OnBuf(l)] = KV(holder[p], l)
        /\ In(queue["compute"], Att(n, l, p, holder[p]))
        /\ \A d \in Data : ~In(queue["compute"], Hit(l, p, d))

ComputeOK ==
    /\ \A l \in Layer, p \in Page, d \in Data :
          /\ In(queue["compute"], Hit(l, p, d)) => holder[p] = d
          /\ In(queue["compute"], Put(l, p, d)) => holder[p] = d /\ Mine(p)
    /\ \A n \in Nat, l \in Layer, p \in Page, d \in Data :
          In(queue["compute"], Att(n, l, p, d)) => holder[p] = d /\ n = calls
    /\ \A n \in Nat : In(queue["compute"], Infer(n)) => n = calls /\ predicted = "none"
    /\ Inferred(calls) \in events => queue["compute"] = <<>>

\* A page has the layers of its history that are not still to be written.
PagesOK ==
    \A l \in Layer, p \in Page : holder[p] # "none" =>
        \/ mem[Gpu(p, l)] = KV(holder[p], l)
        \/ In(queue["compute"], Put(l, p, holder[p]))
        \/ In(queue["scatter"], Scatter(calls, l, p))

GathersOK ==
    /\ \A n \in Nat, l \in Layer, p \in Page : In(queue["gather"], Gather(n, l, p)) =>
          /\ \E t \in tasks : t.call = n /\ t.page = p
          /\ In(queue["gather"], Begin(n)) \/ Inferred(n) \in events
          /\ \A m \in Nat, k \in Layer : Gathered(m, k) \in events => Earlier(m, k, n, l)
    /\ \A n \in Nat, k \in Int, w \in GatherItems : In(queue["gather"], w) /\ At(w, n, k) => Launched(n)

SendsOK ==
    \A n \in Nat, l \in Layer, d \in Data : In(queue["offload"], Send(n, l, d)) =>
        /\ \E t \in tasks : t.call = n /\ t.data = d
        /\ In(queue["gather"], End(n))
        /\ \A m \in Nat, k \in Layer : Sent(m, k) \in events => Earlier(m, k, n, l)
        /\ Gathered(n, l) \in events => mem[OffBuf(l)] = KV(d, l)

\* What has been sent of an unsettled offload is there; what has not is to be sent.
SentOK ==
    /\ \A n \in Nat, l \in Layer : Sent(n, l) \in events => Gathered(n, l) \in events
    /\ \A t \in tasks, l \in Layer :
          /\ Sent(t.call, l) \in events => mem[Host(t.data, l)] = KV(t.data, l)
          /\ Sent(t.call, l) \in events \/ In(queue["offload"], Send(t.call, l, t.data))

PipeInv ==
    /\ TypesOK /\ QueuesOrdered /\ HolderOK /\ TasksOK /\ EventsPast
    /\ LoadsOK /\ ScattersOK /\ ComputeOK /\ PagesOK /\ HostedIsComplete
    /\ GathersOK /\ SendsOK /\ SentOK

-----------------------------------------------------------------------------
(* Events, cells and work are told apart by their names.                   *)

\* What an event adds to the events.
LEMMA AddLoaded ==
  ASSUME NEW E, NEW n, NEW l
  PROVE  LET F == E \cup {Loaded(n, l)}
         IN  /\ \A m, k : Loaded(m, k) \in F <=> Loaded(m, k) \in E \/ (m = n /\ k = l)
             /\ \A m, k : Compl(m, k) \in F <=> Compl(m, k) \in E
             /\ \A m, k : Gathered(m, k) \in F <=> Gathered(m, k) \in E
             /\ \A m, k : Sent(m, k) \in F <=> Sent(m, k) \in E
             /\ \A m : Inferred(m) \in F <=> Inferred(m) \in E
BY DEF Loaded, Compl, Gathered, Sent, Inferred

\* The same for the scatter of a layer, ...
LEMMA AddCompl ==
  ASSUME NEW E, NEW n, NEW l
  PROVE  LET F == E \cup {Compl(n, l)}
         IN  /\ \A m, k : Loaded(m, k) \in F <=> Loaded(m, k) \in E
             /\ \A m, k : Compl(m, k) \in F <=> Compl(m, k) \in E \/ (m = n /\ k = l)
             /\ \A m, k : Gathered(m, k) \in F <=> Gathered(m, k) \in E
             /\ \A m, k : Sent(m, k) \in F <=> Sent(m, k) \in E
             /\ \A m : Inferred(m) \in F <=> Inferred(m) \in E
BY DEF Loaded, Compl, Gathered, Sent, Inferred

\* ... its gather, ...
LEMMA AddGathered ==
  ASSUME NEW E, NEW n, NEW l
  PROVE  LET F == E \cup {Gathered(n, l)}
         IN  /\ \A m, k : Loaded(m, k) \in F <=> Loaded(m, k) \in E
             /\ \A m, k : Compl(m, k) \in F <=> Compl(m, k) \in E
             /\ \A m, k : Gathered(m, k) \in F <=> Gathered(m, k) \in E \/ (m = n /\ k = l)
             /\ \A m, k : Sent(m, k) \in F <=> Sent(m, k) \in E
             /\ \A m : Inferred(m) \in F <=> Inferred(m) \in E
BY DEF Loaded, Compl, Gathered, Sent, Inferred

\* ... its copy to the host, ...
LEMMA AddSent ==
  ASSUME NEW E, NEW n, NEW l
  PROVE  LET F == E \cup {Sent(n, l)}
         IN  /\ \A m, k : Loaded(m, k) \in F <=> Loaded(m, k) \in E
             /\ \A m, k : Compl(m, k) \in F <=> Compl(m, k) \in E
             /\ \A m, k : Gathered(m, k) \in F <=> Gathered(m, k) \in E
             /\ \A m, k : Sent(m, k) \in F <=> Sent(m, k) \in E \/ (m = n /\ k = l)
             /\ \A m : Inferred(m) \in F <=> Inferred(m) \in E
BY DEF Loaded, Compl, Gathered, Sent, Inferred

\* ... and the end of a forward pass.
LEMMA AddInferred ==
  ASSUME NEW E, NEW n
  PROVE  LET F == E \cup {Inferred(n)}
         IN  /\ \A m, k : Loaded(m, k) \in F <=> Loaded(m, k) \in E
             /\ \A m, k : Compl(m, k) \in F <=> Compl(m, k) \in E
             /\ \A m, k : Gathered(m, k) \in F <=> Gathered(m, k) \in E
             /\ \A m, k : Sent(m, k) \in F <=> Sent(m, k) \in E
             /\ \A m : Inferred(m) \in F <=> Inferred(m) \in E \/ m = n
BY DEF Loaded, Compl, Gathered, Sent, Inferred

\* The work of the onload and scatter streams tells its call, layer and data.
LEMMA OnNames ==
  /\ \A n, m, l, k, d, e : Load(n, l, d) = Load(m, k, e) => n = m /\ l = k /\ d = e
  /\ \A n, m, l, d : Load(n, l, d) # LoadEnd(m)
  /\ \A n, m, l, k, p, q : Scatter(n, l, p) = Scatter(m, k, q) => n = m /\ l = k /\ p = q
BY DEF Load, LoadEnd, Scatter, Copy, Wait, Host, Gpu, Loaded, Compl

\* So does that of the gather and offload streams, ...
LEMMA OffNames ==
  /\ \A n, m, l, k, p, q : Gather(n, l, p) = Gather(m, k, q) => n = m /\ l = k /\ p = q
  /\ \A n, m : Begin(n) = Begin(m) => n = m
  /\ \A n, m : End(n) = End(m) => n = m
  /\ \A n, m, l, p : Gather(n, l, p) # Begin(m) /\ Gather(n, l, p) # End(m)
  /\ \A n, m : Begin(n) # End(m)
  /\ \A n, m, l, k, d, e : Send(n, l, d) = Send(m, k, e) => n = m /\ l = k /\ d = e
<1>1. \A n, m, l, k, p, q : Gather(n, l, p) = Gather(m, k, q) => n = m /\ l = k /\ p = q
  BY DEF Gather, Copy, Gpu, Gathered
<1>2. \A n, m : Begin(n) = Begin(m) => n = m
  <2> TAKE n, m
  <2>1. Begin(n).after = {Inferred(n)} /\ Begin(m).after = {Inferred(m)}
    BY DEF Begin, Wait
  <2>2. Inferred(n) = Inferred(m) => n = m
    BY DEF Inferred
  <2> QED BY <2>1, <2>2
<1>3. \A n, m : End(n) = End(m) => n = m
  <2> TAKE n, m
  <2>1. End(n).after = {Sent(n, NumLayers - 1)} /\ End(m).after = {Sent(m, NumLayers - 1)}
    BY DEF End, Wait
  <2>2. Sent(n, NumLayers - 1) = Sent(m, NumLayers - 1) => n = m
    BY DEF Sent
  <2> QED BY <2>1, <2>2
<1>4. \A n, m, l, p : Gather(n, l, p) # Begin(m) /\ Gather(n, l, p) # End(m)
  BY DEF Gather, Begin, End, Copy, Wait
<1>5. \A n, m : Begin(n) # End(m)
  <2> TAKE n, m
  <2>1. Begin(n).after = {Inferred(n)} /\ End(m).after = {Sent(m, NumLayers - 1)}
    BY DEF Begin, End, Wait
  <2>2. Inferred(n) # Sent(m, NumLayers - 1)
    BY DEF Inferred, Sent
  <2> QED BY <2>1, <2>2
<1>6. \A n, m, l, k, d, e : Send(n, l, d) = Send(m, k, e) => n = m /\ l = k /\ d = e
  BY DEF Send, Copy, Host, Sent
<1> QED BY <1>1, <1>2, <1>3, <1>4, <1>5, <1>6

\* ... and that of the compute stream.
LEMMA ComputeNames ==
  /\ \A l, k, p, q, d, e : Hit(l, p, d) = Hit(k, q, e) => l = k /\ p = q /\ d = e
  /\ \A n, m, l, k, p, q, d, e : Att(n, l, p, d) = Att(m, k, q, e) => n = m /\ l = k /\ p = q /\ d = e
  /\ \A l, k, p, q, d, e : Put(l, p, d) = Put(k, q, e) => l = k /\ p = q /\ d = e
  /\ \A n, m : Infer(n) = Infer(m) => n = m
  /\ \A n, l, k, p, q, d, e : Hit(l, p, d) # Att(n, k, q, e)
  /\ \A l, k, p, q, d, e : Hit(l, p, d) # Put(k, q, e)
  /\ \A n, l, k, p, q, d, e : Att(n, l, p, d) # Put(k, q, e)
  /\ \A n, l, p, d : Infer(n) # Hit(l, p, d) /\ Infer(n) # Put(l, p, d)
  /\ \A n, m, l, p, d : Infer(n) # Att(m, l, p, d)
<1>1. \A l, k, p, q, d, e : Hit(l, p, d) = Hit(k, q, e) => l = k /\ p = q /\ d = e
  BY DEF Hit, Read, Gpu, KV
<1>2. \A n, m, l, k, p, q, d, e : Att(n, l, p, d) = Att(m, k, q, e) => n = m /\ l = k /\ p = q /\ d = e
  <2> TAKE n, m, l, k, p, q, d, e
  <2>1. /\ Att(n, l, p, d).after = {Compl(n, l)} /\ Att(m, k, q, e).after = {Compl(m, k)}
        /\ Att(n, l, p, d).a = Gpu(p, l) /\ Att(m, k, q, e).a = Gpu(q, k)
        /\ Att(n, l, p, d).b = KV(d, l) /\ Att(m, k, q, e).b = KV(e, k)
    BY DEF Att, Read
  <2>2. /\ Compl(n, l) = Compl(m, k) => n = m
        /\ Gpu(p, l) = Gpu(q, k) => p = q /\ l = k
        /\ KV(d, l) = KV(e, k) => d = e
    BY DEF Compl, Gpu, KV
  <2> QED BY <2>1, <2>2
<1>3. \A l, k, p, q, d, e : Put(l, p, d) = Put(k, q, e) => l = k /\ p = q /\ d = e
  BY DEF Put, Write, Gpu, KV
<1>4. \A n, m : Infer(n) = Infer(m) => n = m
  BY DEF Infer, Wait, Inferred
<1>5. \A n, l, k, p, q, d, e : Hit(l, p, d) # Att(n, k, q, e)
  BY DEF Hit, Att, Read
<1>6. \A l, k, p, q, d, e : Hit(l, p, d) # Put(k, q, e)
  BY DEF Hit, Put, Read, Write
<1>7. \A n, l, k, p, q, d, e : Att(n, l, p, d) # Put(k, q, e)
  BY DEF Att, Put, Read, Write
<1>8. \A n, l, p, d : Infer(n) # Hit(l, p, d) /\ Infer(n) # Put(l, p, d)
  BY DEF Infer, Hit, Put, Wait, Read, Write
<1>9. \A n, m, l, p, d : Infer(n) # Att(m, l, p, d)
  BY DEF Infer, Att, Wait, Read
<1> QED BY <1>1, <1>2, <1>3, <1>4, <1>5, <1>6, <1>7, <1>8, <1>9

\* The cells of different pages, histories, layers and buffers differ.
LEMMA Cells ==
  /\ \A l, k, p, q : Gpu(p, l) = Gpu(q, k) => p = q /\ l = k
  /\ \A l, k, d, e : Host(d, l) = Host(e, k) => d = e /\ l = k
  /\ \A l, k, p, d : Gpu(p, l) # Host(d, k)
  /\ \A l, k, p : Gpu(p, l) # OnBuf(k) /\ Gpu(p, l) # OffBuf(k)
  /\ \A l, k, d : Host(d, l) # OnBuf(k) /\ Host(d, l) # OffBuf(k)
  /\ \A l, k : OnBuf(l) # OffBuf(k)
  /\ \A l, k : OnBuf(l) = OnBuf(k) => l % 2 = k % 2
  /\ \A l, k : OffBuf(l) = OffBuf(k) => l % 2 = k % 2
BY DEF Gpu, Host, OnBuf, OffBuf, Buffer

\* Every cell that is written exists.
LEMMA CellsExist ==
  /\ \A l \in Layer : OnBuf(l) \in Cell /\ OffBuf(l) \in Cell
  /\ \A l \in Layer, p \in Page : Gpu(p, l) \in Cell
  /\ \A l \in Layer, d \in Data : Host(d, l) \in Cell
BY DEF Cell

-----------------------------------------------------------------------------
(* Queues.                                                                 *)

\* A stream runs the head of its queue; what stays is after it.
LEMMA HeadRuns ==
  ASSUME NEW s, NEW X, NEW q \in Seq(X), q # <<>>, Ordered(s, q)
  PROVE  /\ Head(q) \in X /\ Tail(q) \in Seq(X) /\ Ordered(s, Tail(q))
         /\ \A w : In(q, w) <=> w = Head(q) \/ In(Tail(q), w)
         /\ \A w : In(Tail(q), w) => Before(s, Head(q), w)
<1> DEFINE t == Tail(q)
<1>1. /\ Len(q) \in Nat \ {0} /\ t \in Seq(X) /\ Len(t) = Len(q) - 1 /\ Head(q) = q[1] /\ q[1] \in X
      /\ \A i \in 1..Len(t) : t[i] = q[i + 1]
  OBVIOUS
<1> HIDE DEF t
<1>2. Ordered(s, t)
  <2> SUFFICES ASSUME NEW i \in 1..Len(t), NEW j \in 1..Len(t), i < j PROVE Before(s, t[i], t[j])
    BY DEF Ordered
  <2>1. i + 1 \in 1..Len(q) /\ j + 1 \in 1..Len(q) /\ i + 1 < j + 1
    BY <1>1
  <2>2. Before(s, q[i + 1], q[j + 1])
    BY <2>1 DEF Ordered
  <2> QED BY <1>1, <2>2
<1>3. ASSUME NEW w PROVE In(q, w) <=> w = q[1] \/ In(t, w)
  <2>1. ASSUME In(q, w) PROVE w = q[1] \/ In(t, w)
    <3>1. PICK i \in 1..Len(q) : q[i] = w
      BY <2>1 DEF In
    <3>2. CASE i = 1
      BY <3>1, <3>2
    <3>3. CASE i # 1
      <4>1. i - 1 \in 1..Len(t) /\ (i - 1) + 1 = i
        BY <1>1, <3>3
      <4>2. t[i - 1] = w
        BY <1>1, <3>1, <4>1
      <4> QED BY <4>1, <4>2 DEF In
    <3> QED BY <3>2, <3>3
  <2>2. ASSUME In(t, w) PROVE In(q, w)
    <3>1. PICK i \in 1..Len(t) : t[i] = w
      BY <2>2 DEF In
    <3>2. i + 1 \in 1..Len(q) /\ q[i + 1] = w
      BY <1>1, <3>1
    <3> QED BY <3>2 DEF In
  <2>3. In(q, q[1])
    BY <1>1 DEF In
  <2> QED BY <2>1, <2>2, <2>3
<1>4. ASSUME NEW w, In(t, w) PROVE Before(s, q[1], w)
  <2>1. PICK i \in 1..Len(t) : t[i] = w
    BY <1>4 DEF In
  <2>2. 1 \in 1..Len(q) /\ i + 1 \in 1..Len(q) /\ 1 < i + 1 /\ q[i + 1] = w
    BY <1>1, <2>1
  <2> QED BY <2>2 DEF Ordered
<1> QED BY <1>1, <1>2, <1>3, <1>4 DEF t

\* Work is put behind what is queued.
LEMMA WorkJoins ==
  ASSUME NEW s, NEW X, NEW q \in Seq(X), NEW r \in Seq(X), Ordered(s, q), Ordered(s, r),
         \A u, v : In(q, u) /\ In(r, v) => Before(s, u, v)
  PROVE  /\ q \o r \in Seq(X) /\ Ordered(s, q \o r)
         /\ \A w : In(q \o r, w) <=> In(q, w) \/ In(r, w)
<1> DEFINE t == q \o r
<1>1. /\ Len(q) \in Nat /\ Len(r) \in Nat /\ t \in Seq(X) /\ Len(t) = Len(q) + Len(r)
      /\ \A i \in 1..Len(q) : i \in 1..Len(t) /\ t[i] = q[i]
      /\ \A i \in 1..Len(r) : Len(q) + i \in 1..Len(t) /\ t[Len(q) + i] = r[i]
  OBVIOUS
<1>2. \A i \in 1..Len(t) : i > Len(q) => i - Len(q) \in 1..Len(r) /\ t[i] = r[i - Len(q)]
  OBVIOUS
<1> HIDE DEF t
<1>3. ASSUME NEW i \in 1..Len(t), NEW j \in 1..Len(t), i < j PROVE Before(s, t[i], t[j])
  <2>1. CASE j <= Len(q)
    <3>1. i \in 1..Len(q) /\ j \in 1..Len(q)
      BY <1>1, <1>3, <2>1
    <3> QED BY <1>1, <1>3, <3>1 DEF Ordered
  <2>2. CASE i > Len(q)
    <3>1. j > Len(q)
      BY <1>1, <1>3, <2>2
    <3>2. /\ i - Len(q) \in 1..Len(r) /\ j - Len(q) \in 1..Len(r) /\ i - Len(q) < j - Len(q)
          /\ t[i] = r[i - Len(q)] /\ t[j] = r[j - Len(q)]
      BY <1>1, <1>2, <1>3, <2>2, <3>1
    <3> QED BY <3>2 DEF Ordered
  <2>3. CASE i <= Len(q) /\ j > Len(q)
    <3>1. i \in 1..Len(q) /\ t[i] = q[i]
      BY <1>1, <2>3
    <3>2. j - Len(q) \in 1..Len(r) /\ t[j] = r[j - Len(q)]
      BY <1>2, <2>3
    <3>3. In(q, t[i]) /\ In(r, t[j])
      BY <3>1, <3>2 DEF In
    <3> QED BY <3>3
  <2> QED BY <1>1, <1>3, <2>1, <2>2, <2>3
<1>4. ASSUME NEW w PROVE In(t, w) <=> In(q, w) \/ In(r, w)
  <2>1. ASSUME In(t, w) PROVE In(q, w) \/ In(r, w)
    <3>1. PICK i \in 1..Len(t) : t[i] = w
      BY <2>1 DEF In
    <3>2. CASE i <= Len(q)
      <4>1. i \in 1..Len(q) /\ q[i] = w
        BY <1>1, <3>1, <3>2
      <4> QED BY <4>1 DEF In
    <3>3. CASE i > Len(q)
      <4>1. i - Len(q) \in 1..Len(r) /\ r[i - Len(q)] = w
        BY <1>2, <3>1, <3>3
      <4> QED BY <4>1 DEF In
    <3> QED BY <1>1, <3>2, <3>3
  <2>2. ASSUME In(q, w) PROVE In(t, w)
    BY <1>1, <2>2 DEF In
  <2>3. ASSUME In(r, w) PROVE In(t, w)
    BY <1>1, <2>3 DEF In
  <2> QED BY <2>1, <2>2, <2>3
<1>5. Ordered(s, t)
  BY <1>3 DEF Ordered
<1> QED BY <1>1, <1>4, <1>5 DEF t

\* Nothing is pending on an idle stream, and what is pending is work.
LEMMA Idle ==
  ASSUME NEW s
  PROVE  Ordered(s, <<>>) /\ \A w : ~In(<<>>, w)
BY DEF Ordered, In

\* What is pending on a stream is work of that stream.
LEMMA Pending ==
  ASSUME NEW X, NEW q \in Seq(X), NEW w, In(q, w)
  PROVE  w \in X
BY DEF In

-----------------------------------------------------------------------------
(* The work of a call, in the order it is enqueued.                        *)

\* A piece of work per layer.
LEMMA Layers ==
  /\ NumLayers \in Nat \ {0}
  /\ \A i \in 1..NumLayers : i - 1 \in Layer
  /\ \A l \in Layer : l \in Nat /\ l < NumLayers /\ l <= NumLayers - 1 /\ l + 1 \in 1..NumLayers /\ (l + 1) - 1 = l
BY PipelineAssumption DEF Layer

\* Layers that share a buffer are two apart.
LEMMA TwoApart ==
  ASSUME NEW k \in Layer, NEW l \in Layer, k < l, k % 2 = l % 2
  PROVE  k <= l - 2 /\ l >= 2 /\ l - 2 \in Layer
<1>1. k \in Nat /\ l \in Nat /\ l <= NumLayers - 1 /\ NumLayers \in Nat
  BY Layers
<1>2. k + 1 # l
  BY <1>1
<1>3. k <= l - 2
  BY <1>1, <1>2
<1> QED BY <1>1, <1>3 DEF Layer

\* onload_kvcache: the layers in order, then the wait for the last scatter.
LEMMA OnloadIs ==
  ASSUME NEW n \in Nat, NEW d \in Data
  PROVE  /\ OnloadWork(n, d) \in Seq(OnloadItems) /\ Ordered("onload", OnloadWork(n, d))
         /\ \A w : In(OnloadWork(n, d), w) <=> w = LoadEnd(n) \/ \E l \in Layer : w = Load(n, l, d)
<1> DEFINE q == [i \in 1..NumLayers |-> Load(n, i - 1, d)]
           r == <<LoadEnd(n)>>
<1>1. OnloadWork(n, d) = q \o r
  BY DEF OnloadWork, PerLayer, Load, LoadEnd, Loaded, Compl
<1>2. q \in Seq(OnloadItems) /\ Len(q) = NumLayers /\ \A i \in 1..NumLayers : q[i] = Load(n, i - 1, d)
  <2>1. \A i \in 1..NumLayers : Load(n, i - 1, d) \in OnloadItems
    BY Layers DEF OnloadItems
  <2> QED BY <2>1, Layers
<1>3. r \in Seq(OnloadItems) /\ Len(r) = 1 /\ r[1] = LoadEnd(n)
  BY DEF OnloadItems
<1> HIDE DEF q, r
<1>4. \A w : In(q, w) <=> \E l \in Layer : w = Load(n, l, d)
  BY <1>2, Layers DEF In
<1>5. \A w : In(r, w) <=> w = LoadEnd(n)
  BY <1>3 DEF In
<1>6. Ordered("onload", q)
  <2> SUFFICES ASSUME NEW i \in 1..NumLayers, NEW j \in 1..NumLayers, i < j
               PROVE  LoadsBefore(q[i], q[j])
    BY <1>2 DEF Ordered, Before
  <2>1. q[i] = Load(n, i - 1, d) /\ q[j] = Load(n, j - 1, d) /\ i - 1 < j - 1
    BY <1>2
  <2> QED BY <2>1, OnNames DEF LoadsBefore
<1>7. Ordered("onload", r)
  BY <1>3 DEF Ordered
<1>8. \A u, v : In(q, u) /\ In(r, v) => Before("onload", u, v)
  <2> SUFFICES ASSUME NEW u, NEW v, In(q, u), In(r, v) PROVE LoadsBefore(u, v)
    BY DEF Before
  <2> QED BY <1>5, OnNames DEF LoadsBefore
<1>9. /\ q \o r \in Seq(OnloadItems) /\ Ordered("onload", q \o r)
      /\ \A w : In(q \o r, w) <=> In(q, w) \/ In(r, w)
  BY ONLY <1>2, <1>3, <1>6, <1>7, <1>8, WorkJoins
<1> QED BY <1>1, <1>4, <1>5, <1>9

\* The scatters of an onload.
LEMMA ScatterIs ==
  ASSUME NEW n \in Nat, NEW p \in Page
  PROVE  /\ ScatterWork(n, p) \in Seq(ScatterItems) /\ Ordered("scatter", ScatterWork(n, p))
         /\ \A w : In(ScatterWork(n, p), w) <=> \E l \in Layer : w = Scatter(n, l, p)
<1> DEFINE q == [i \in 1..NumLayers |-> Scatter(n, i - 1, p)]
<1>1. ScatterWork(n, p) = q
  BY DEF ScatterWork, PerLayer, Scatter, Loaded, Compl
<1>2. q \in Seq(ScatterItems) /\ Len(q) = NumLayers /\ \A i \in 1..NumLayers : q[i] = Scatter(n, i - 1, p)
  <2>1. \A i \in 1..NumLayers : Scatter(n, i - 1, p) \in ScatterItems
    BY Layers DEF ScatterItems
  <2> QED BY <2>1, Layers
<1> HIDE DEF q
<1>4. \A w : In(q, w) <=> \E l \in Layer : w = Scatter(n, l, p)
  BY <1>2, Layers DEF In
<1>6. Ordered("scatter", q)
  <2> SUFFICES ASSUME NEW i \in 1..NumLayers, NEW j \in 1..NumLayers, i < j
               PROVE  ScattersBefore(q[i], q[j])
    BY <1>2 DEF Ordered, Before
  <2>1. q[i] = Scatter(n, i - 1, p) /\ q[j] = Scatter(n, j - 1, p) /\ i - 1 < j - 1
    BY <1>2
  <2> QED BY <2>1, OnNames DEF ScattersBefore
<1> QED BY <1>1, <1>2, <1>4, <1>6

\* The copies to the host of an offload.
LEMMA OffloadIs ==
  ASSUME NEW n \in Nat, NEW d \in Data
  PROVE  /\ OffloadWork(n, d) \in Seq(OffloadItems) /\ Ordered("offload", OffloadWork(n, d))
         /\ \A w : In(OffloadWork(n, d), w) <=> \E l \in Layer : w = Send(n, l, d)
<1> DEFINE q == [i \in 1..NumLayers |-> Send(n, i - 1, d)]
<1>1. OffloadWork(n, d) = q
  BY DEF OffloadWork, PerLayer, Send, Gathered, Sent
<1>2. q \in Seq(OffloadItems) /\ Len(q) = NumLayers /\ \A i \in 1..NumLayers : q[i] = Send(n, i - 1, d)
  <2>1. \A i \in 1..NumLayers : Send(n, i - 1, d) \in OffloadItems
    BY Layers DEF OffloadItems
  <2> QED BY <2>1, Layers
<1> HIDE DEF q
<1>4. \A w : In(q, w) <=> \E l \in Layer : w = Send(n, l, d)
  BY <1>2, Layers DEF In
<1>6. Ordered("offload", q)
  <2> SUFFICES ASSUME NEW i \in 1..NumLayers, NEW j \in 1..NumLayers, i < j
               PROVE  SendsBefore(q[i], q[j])
    BY <1>2 DEF Ordered, Before
  <2>1. q[i] = Send(n, i - 1, d) /\ q[j] = Send(n, j - 1, d) /\ i - 1 < j - 1
    BY <1>2
  <2> QED BY <2>1, OffNames DEF SendsBefore, Earlier
<1> QED BY <1>1, <1>2, <1>4, <1>6

\* Where the work of the gather stream stands in its call.
LEMMA Stands ==
  ASSUME NEW n, NEW m, NEW k
  PROVE  /\ At(Begin(n), m, k) <=> m = n /\ k = -1
         /\ At(End(n), m, k) <=> m = n /\ k = NumLayers
         /\ \A l \in Layer, p \in Page : At(Gather(n, l, p), m, k) <=> m = n /\ k = l
<1>1. At(Begin(n), m, k) <=> m = n /\ k = -1
  BY OffNames DEF At
<1>2. At(End(n), m, k) <=> m = n /\ k = NumLayers
  BY OffNames DEF At
<1>3. ASSUME NEW l \in Layer, NEW p \in Page
      PROVE  At(Gather(n, l, p), m, k) <=> m = n /\ k = l
  BY OffNames DEF At
<1> QED BY <1>1, <1>2, <1>3

\* Work that stands earlier comes before.
LEMMA ByPlace ==
  ASSUME NEW u, NEW v, NEW n, NEW m, NEW l, NEW k,
         \A a, b : At(u, a, b) <=> a = n /\ b = l,
         \A a, b : At(v, a, b) <=> a = m /\ b = k,
         Earlier(n, l, m, k)
  PROVE  GathersBefore(u, v)
BY DEF GathersBefore

\* offload_kvcache: the wait for the forward pass, the layers, the wait for the
\* last copy.
LEMMA GatherIs ==
  ASSUME NEW n \in Nat, NEW p \in Page
  PROVE  /\ GatherWork(n, p) \in Seq(GatherItems) /\ Ordered("gather", GatherWork(n, p))
         /\ \A w : In(GatherWork(n, p), w) <=> w = Begin(n) \/ w = End(n) \/ \E l \in Layer : w = Gather(n, l, p)
<1> DEFINE a == <<Begin(n)>>
           q == [i \in 1..NumLayers |-> Gather(n, i - 1, p)]
           b == <<End(n)>>
<1>1. GatherWork(n, p) = (a \o q) \o b
  BY DEF GatherWork, PerLayer, Begin, Gather, End, Inferred, Gathered, Sent
<1>2. q \in Seq(GatherItems) /\ Len(q) = NumLayers /\ \A i \in 1..NumLayers : q[i] = Gather(n, i - 1, p)
  <2>1. \A i \in 1..NumLayers : Gather(n, i - 1, p) \in GatherItems
    BY Layers DEF GatherItems
  <2> QED BY <2>1, Layers
<1>3. /\ a \in Seq(GatherItems) /\ Len(a) = 1 /\ a[1] = Begin(n)
      /\ b \in Seq(GatherItems) /\ Len(b) = 1 /\ b[1] = End(n)
  BY DEF GatherItems
<1> HIDE DEF a, q, b
<1>4. \A w : In(q, w) <=> \E l \in Layer : w = Gather(n, l, p)
  BY <1>2, Layers DEF In
<1>5. \A w : (In(a, w) <=> w = Begin(n)) /\ (In(b, w) <=> w = End(n))
  BY <1>3 DEF In
<1>6. Ordered("gather", q)
  <2> SUFFICES ASSUME NEW i \in 1..NumLayers, NEW j \in 1..NumLayers, i < j
               PROVE  GathersBefore(q[i], q[j])
    BY <1>2 DEF Ordered, Before
  <2>1. /\ q[i] = Gather(n, i - 1, p) /\ q[j] = Gather(n, j - 1, p) /\ i - 1 < j - 1
        /\ i - 1 \in Layer /\ j - 1 \in Layer
    BY <1>2, Layers
  <2>2. PICK l \in Layer, k \in Layer : q[i] = Gather(n, l, p) /\ q[j] = Gather(n, k, p) /\ l < k
    BY <2>1
  <2>3. Earlier(n, l, n, k)
    BY <2>2 DEF Earlier
  <2>4. /\ \A x, y : At(q[i], x, y) <=> x = n /\ y = l
        /\ \A x, y : At(q[j], x, y) <=> x = n /\ y = k
    <3>1. \A x, y : At(Gather(n, l, p), x, y) <=> x = n /\ y = l
      BY Stands
    <3>2. \A x, y : At(Gather(n, k, p), x, y) <=> x = n /\ y = k
      BY Stands
    <3> QED BY ONLY <2>2, <3>1, <3>2
  <2> QED BY ONLY <2>3, <2>4, ByPlace
<1>7. Ordered("gather", a) /\ Ordered("gather", b)
  BY <1>3 DEF Ordered
<1>8. \A u, v : In(a, u) /\ In(q, v) => Before("gather", u, v)
  <2> SUFFICES ASSUME NEW u, NEW v, In(a, u), In(q, v) PROVE GathersBefore(u, v)
    BY DEF Before
  <2>1. PICK l \in Layer : u = Begin(n) /\ v = Gather(n, l, p)
    BY <1>4, <1>5
  <2>2. Earlier(n, -1, n, l)
    BY Layers DEF Earlier
  <2>3. /\ \A x, y : At(u, x, y) <=> x = n /\ y = -1
        /\ \A x, y : At(v, x, y) <=> x = n /\ y = l
    BY <2>1, Stands
  <2> QED BY <2>2, <2>3, ByPlace
<1>9. /\ a \o q \in Seq(GatherItems) /\ Ordered("gather", a \o q)
      /\ \A w : In(a \o q, w) <=> In(a, w) \/ In(q, w)
  BY ONLY <1>2, <1>3, <1>6, <1>7, <1>8, WorkJoins
<1> DEFINE c == a \o q
<1>10. c \in Seq(GatherItems) /\ Ordered("gather", c) /\ \A w : In(c, w) <=> In(a, w) \/ In(q, w)
  BY <1>9
<1> HIDE DEF c
<1>11. \A u, v : In(c, u) /\ In(b, v) => Before("gather", u, v)
  <2> SUFFICES ASSUME NEW u, NEW v, In(c, u), In(b, v) PROVE GathersBefore(u, v)
    BY DEF Before
  <2>1. v = End(n) /\ (u = Begin(n) \/ \E l \in Layer : u = Gather(n, l, p))
    BY <1>4, <1>5, <1>10
  <2>2. PICK l : Earlier(n, l, n, NumLayers) /\ \A x, y : At(u, x, y) <=> x = n /\ y = l
    <3>1. CASE u = Begin(n)
      <4>1. Earlier(n, -1, n, NumLayers)
        BY Layers DEF Earlier
      <4>2. \A x, y : At(u, x, y) <=> x = n /\ y = -1
        BY <3>1, Stands
      <4> QED BY <4>1, <4>2
    <3>2. ASSUME NEW l \in Layer, u = Gather(n, l, p)
          PROVE  \E k : Earlier(n, k, n, NumLayers) /\ \A x, y : At(u, x, y) <=> x = n /\ y = k
      <4>1. Earlier(n, l, n, NumLayers)
        BY Layers DEF Earlier
      <4>2. \A x, y : At(u, x, y) <=> x = n /\ y = l
        BY <3>2, Stands
      <4> QED BY <4>1, <4>2
    <3> QED BY <2>1, <3>1, <3>2
  <2>3. \A x, y : At(v, x, y) <=> x = n /\ y = NumLayers
    BY <2>1, Stands
  <2> QED BY ONLY <2>2, <2>3, ByPlace
<1>12. /\ c \o b \in Seq(GatherItems) /\ Ordered("gather", c \o b)
       /\ \A w : In(c \o b, w) <=> In(c, w) \/ In(b, w)
  BY ONLY <1>3, <1>7, <1>10, <1>11, WorkJoins
<1> QED BY <1>1, <1>4, <1>5, <1>10, <1>12 DEF c

\* The forward pass on a history that is in its page, ...
LEMMA HitIs ==
  ASSUME NEW n \in Nat, NEW d \in Data, NEW p \in Page
  PROVE  /\ Attend(n, d, p, FALSE) \in Seq(ComputeItems) /\ Ordered("compute", Attend(n, d, p, FALSE))
         /\ \A w : In(Attend(n, d, p, FALSE), w) <=> \E l \in Layer : w = Hit(l, p, d)
<1> DEFINE q == [i \in 1..NumLayers |-> Hit(i - 1, p, d)]
<1>1. Attend(n, d, p, FALSE) = q
  BY DEF Attend, PerLayer, Hit
<1>2. q \in Seq(ComputeItems) /\ Len(q) = NumLayers /\ \A i \in 1..NumLayers : q[i] = Hit(i - 1, p, d)
  <2>1. \A i \in 1..NumLayers : Hit(i - 1, p, d) \in ComputeItems
    BY Layers DEF ComputeItems
  <2> QED BY <2>1, Layers
<1> HIDE DEF q
<1>4. \A w : In(q, w) <=> \E l \in Layer : w = Hit(l, p, d)
  BY <1>2, Layers DEF In
<1>6. Ordered("compute", q)
  BY <1>2, ComputeNames DEF Ordered, Before, ComputesBefore
<1> QED BY <1>1, <1>2, <1>4, <1>6

\* ... on one that is being onboarded, ...
LEMMA AttIs ==
  ASSUME NEW n \in Nat, NEW d \in Data, NEW p \in Page
  PROVE  /\ Attend(n, d, p, TRUE) \in Seq(ComputeItems) /\ Ordered("compute", Attend(n, d, p, TRUE))
         /\ \A w : In(Attend(n, d, p, TRUE), w) <=> \E l \in Layer : w = Att(n, l, p, d)
<1> DEFINE q == [i \in 1..NumLayers |-> Att(n, i - 1, p, d)]
<1>1. Attend(n, d, p, TRUE) = q
  BY DEF Attend, PerLayer, Att, Compl
<1>2. q \in Seq(ComputeItems) /\ Len(q) = NumLayers /\ \A i \in 1..NumLayers : q[i] = Att(n, i - 1, p, d)
  <2>1. \A i \in 1..NumLayers : Att(n, i - 1, p, d) \in ComputeItems
    BY Layers DEF ComputeItems
  <2> QED BY <2>1, Layers
<1> HIDE DEF q
<1>4. \A w : In(q, w) <=> \E l \in Layer : w = Att(n, l, p, d)
  BY <1>2, Layers DEF In
<1>6. Ordered("compute", q)
  BY <1>2, ComputeNames DEF Ordered, Before, ComputesBefore
<1> QED BY <1>1, <1>2, <1>4, <1>6

\* ... and on one that it computes.
LEMMA PutIs ==
  ASSUME NEW d \in Data, NEW p \in Page
  PROVE  /\ AppendAndAttend(d, p) \in Seq(ComputeItems) /\ Ordered("compute", AppendAndAttend(d, p))
         /\ \A w : In(AppendAndAttend(d, p), w) <=> \E l \in Layer : w = Put(l, p, d) \/ w = Hit(l, p, d)
<1> DEFINE q == AppendAndAttend(d, p)
           L(i) == (i - 1) \div 2
<1>1. /\ q = [i \in 1..(2 * NumLayers) |-> IF i % 2 = 1 THEN Put(L(i), p, d) ELSE Hit(L(i), p, d)]
      /\ \A i \in 1..(2 * NumLayers) : L(i) \in Layer
      /\ 2 * NumLayers \in Nat
  BY PipelineAssumption DEF AppendAndAttend, Put, Hit, Layer
<1>2. \A i \in 1..(2 * NumLayers) : Put(L(i), p, d) \in ComputeItems /\ Hit(L(i), p, d) \in ComputeItems
  BY <1>1 DEF ComputeItems
<1>3. \A l \in Layer : /\ 2 * l + 1 \in 1..(2 * NumLayers) /\ (2 * l + 1) % 2 = 1 /\ L(2 * l + 1) = l
                       /\ 2 * l + 2 \in 1..(2 * NumLayers) /\ (2 * l + 2) % 2 # 1 /\ L(2 * l + 2) = l
  BY PipelineAssumption DEF Layer
<1>4. \A i, j \in 1..(2 * NumLayers) : i < j /\ i % 2 # 1 /\ j % 2 = 1 => L(i) # L(j)
  BY PipelineAssumption
<1> HIDE DEF q, L
<1>5. q \in Seq(ComputeItems) /\ Len(q) = 2 * NumLayers
  BY <1>1, <1>2
<1>6. /\ \A i \in 1..(2 * NumLayers) : i % 2 = 1 => q[i] = Put(L(i), p, d)
      /\ \A i \in 1..(2 * NumLayers) : i % 2 # 1 => q[i] = Hit(L(i), p, d)
  BY <1>1
<1>7. ASSUME NEW w PROVE In(q, w) <=> \E l \in Layer : w = Put(l, p, d) \/ w = Hit(l, p, d)
  <2>1. ASSUME In(q, w) PROVE \E l \in Layer : w = Put(l, p, d) \/ w = Hit(l, p, d)
    <3>1. PICK i \in 1..(2 * NumLayers) : q[i] = w
      BY <1>5, <2>1 DEF In
    <3>2. L(i) \in Layer /\ (w = Put(L(i), p, d) \/ w = Hit(L(i), p, d))
      BY <1>1, <1>6, <3>1
    <3> QED BY <3>2
  <2>2. ASSUME NEW l \in Layer, w = Put(l, p, d) PROVE In(q, w)
    <3>1. 2 * l + 1 \in 1..Len(q) /\ q[2 * l + 1] = w
      BY <1>3, <1>5, <1>6, <2>2
    <3> QED BY <3>1 DEF In
  <2>3. ASSUME NEW l \in Layer, w = Hit(l, p, d) PROVE In(q, w)
    <3>1. 2 * l + 2 \in 1..Len(q) /\ q[2 * l + 2] = w
      BY <1>3, <1>5, <1>6, <2>3
    <3> QED BY <3>1 DEF In
  <2> QED BY <2>1, <2>2, <2>3
<1>8. Ordered("compute", q)
  <2> SUFFICES ASSUME NEW i \in 1..(2 * NumLayers), NEW j \in 1..(2 * NumLayers), i < j
               PROVE  ComputesBefore(q[i], q[j])
    BY <1>5 DEF Ordered, Before
  <2>1. CASE i % 2 = 1
    BY <1>6, <2>1, ComputeNames DEF ComputesBefore
  <2>2. CASE i % 2 # 1
    <3>1. q[i] = Hit(L(i), p, d)
      BY <1>6, <2>2
    <3>2. CASE j % 2 = 1
      <4>1. q[j] = Put(L(j), p, d) /\ L(i) # L(j)
        BY <1>4, <1>6, <2>2, <3>2
      <4> QED BY <3>1, <4>1, ComputeNames DEF ComputesBefore
    <3>3. CASE j % 2 # 1
      <4>1. q[j] = Hit(L(j), p, d)
        BY <1>6, <3>3
      <4> QED BY <3>1, <4>1, ComputeNames DEF ComputesBefore
    <3> QED BY <3>2, <3>3
  <2> QED BY <2>1, <2>2
<1> QED BY <1>5, <1>7, <1>8 DEF q

\* The event behind a forward pass.
LEMMA InferIs ==
  ASSUME NEW n \in Nat
  PROVE  /\ InferenceEvent(n) \in Seq(ComputeItems) /\ Ordered("compute", InferenceEvent(n))
         /\ \A w : In(InferenceEvent(n), w) <=> w = Infer(n)
<1>1. InferenceEvent(n) = <<Infer(n)>> /\ Infer(n) \in ComputeItems
  BY DEF InferenceEvent, Infer, Inferred, ComputeItems
<1> QED BY <1>1 DEF Ordered, In

-----------------------------------------------------------------------------
(* What a step leaves alone.                                               *)

SameLoaded == \A n \in Nat, l \in Layer : Loaded(n, l) \in events' <=> Loaded(n, l) \in events
SameCompl == \A n \in Nat, l \in Layer : Compl(n, l) \in events' <=> Compl(n, l) \in events
SameGathered == \A n \in Nat, l \in Layer : Gathered(n, l) \in events' <=> Gathered(n, l) \in events
SameSent == \A n \in Nat, l \in Layer : Sent(n, l) \in events' <=> Sent(n, l) \in events
SameInferred == \A n \in Nat : Inferred(n) \in events' <=> Inferred(n) \in events
SameGpu == \A p \in Page, l \in Layer : mem'[Gpu(p, l)] = mem[Gpu(p, l)]
SameHost == \A d \in Data, l \in Layer : mem'[Host(d, l)] = mem[Host(d, l)]
SameOnBuf == \A l \in Layer : mem'[OnBuf(l)] = mem[OnBuf(l)]
SameOffBuf == \A l \in Layer : mem'[OffBuf(l)] = mem[OffBuf(l)]
SameQueue(s) == queue'[s] = queue[s]
SameTable == UNCHANGED <<holder, tasks, hosted, calls, predicted>>

\* Each part of the invariant is kept when what it reads is: the page table, ...
LEMMA KeepTable ==
  ASSUME HolderOK, TasksOK, SameTable
  PROVE  HolderOK' /\ TasksOK'
<1>1. HolderOK'
  BY DEF HolderOK, SameTable
<1>2. TasksOK'
  BY DEF TasksOK, SameTable, Launched
<1> QED BY <1>1, <1>2

\* ... the onload direction, ...
LEMMA KeepLoads ==
  ASSUME LoadsOK, SameTable, SameQueue("onload"), SameQueue("scatter"), SameLoaded
  PROVE  LoadsOK'
BY DEF LoadsOK, SameTable, SameQueue, SameLoaded

\* ... its scatters, ...
LEMMA KeepScatters ==
  ASSUME ScattersOK, SameTable, SameQueue("scatter"), SameQueue("compute"), SameLoaded, SameCompl, SameOnBuf
  PROVE  ScattersOK'
<1> SUFFICES ASSUME NEW n \in Nat, NEW l \in Layer, NEW p \in Page, In(queue'["scatter"], Scatter(n, l, p))
             PROVE  (/\ n = calls /\ holder[p] \in Data /\ Mine(p)
                     /\ \A k \in Layer : Compl(n, k) \in events => k < l
                     /\ Loaded(n, l) \in events => mem[OnBuf(l)] = KV(holder[p], l)
                     /\ In(queue["compute"], Att(n, l, p, holder[p]))
                     /\ \A d \in Data : ~In(queue["compute"], Hit(l, p, d)))'
  BY DEF ScattersOK
<1>1. In(queue["scatter"], Scatter(n, l, p))
  BY DEF SameQueue
<1>2. /\ n = calls /\ holder[p] \in Data /\ Mine(p)
      /\ \A k \in Layer : Compl(n, k) \in events => k < l
      /\ Loaded(n, l) \in events => mem[OnBuf(l)] = KV(holder[p], l)
      /\ In(queue["compute"], Att(n, l, p, holder[p]))
      /\ \A d \in Data : ~In(queue["compute"], Hit(l, p, d))
  BY <1>1 DEF ScattersOK
<1>3. (n = calls /\ holder[p] \in Data /\ Mine(p))'
  BY <1>2 DEF SameTable, Mine
<1>4. (\A k \in Layer : Compl(n, k) \in events => k < l)'
  BY <1>2 DEF SameCompl
<1>5. (Loaded(n, l) \in events => mem[OnBuf(l)] = KV(holder[p], l))'
  BY <1>2 DEF SameLoaded, SameOnBuf, SameTable
<1>6. (/\ In(queue["compute"], Att(n, l, p, holder[p]))
       /\ \A d \in Data : ~In(queue["compute"], Hit(l, p, d)))'
  BY <1>2 DEF SameQueue, SameTable
<1> QED BY <1>3, <1>4, <1>5, <1>6

\* ... the compute stream, ...
LEMMA KeepCompute ==
  ASSUME ComputeOK, SameTable, SameQueue("compute"), SameInferred, calls \in Nat
  PROVE  ComputeOK'
BY DEF ComputeOK, SameTable, SameQueue, SameInferred, Mine

\* ... the pages, ...
LEMMA KeepPages ==
  ASSUME PagesOK, SameTable, SameQueue("compute"), SameQueue("scatter"), SameGpu
  PROVE  PagesOK'
BY DEF PagesOK, SameTable, SameQueue, SameGpu

\* ... the pinned memory, ...
LEMMA KeepHosted ==
  ASSUME HostedIsComplete, SameTable, SameHost, hosted \subseteq Data
  PROVE  HostedIsComplete'
BY DEF HostedIsComplete, SameTable, SameHost

\* ... the offload direction, ...
LEMMA KeepGathers ==
  ASSUME GathersOK, SameTable, SameQueue("gather"), SameGathered, SameInferred
  PROVE  GathersOK'
<1>1. \A n : Launched(n)' <=> Launched(n)
  BY DEF Launched, SameTable
<1> QED BY <1>1 DEF GathersOK, SameTable, SameQueue, SameGathered, SameInferred

\* ... its copies, ...
LEMMA KeepSends ==
  ASSUME SendsOK, SameTable, SameQueue("gather"), SameQueue("offload"), SameGathered, SameSent, SameOffBuf
  PROVE  SendsOK'
BY DEF SendsOK, SameTable, SameQueue, SameGathered, SameSent, SameOffBuf

\* ... and what has been copied.
LEMMA KeepSent ==
  ASSUME SentOK, SameTable, SameQueue("offload"), SameGathered, SameSent, SameHost,
         tasks \subseteq [call : Nat, data : Data, page : Page]
  PROVE  SentOK'
<1>1. \A t \in tasks : t.call \in Nat /\ t.data \in Data
  OBVIOUS
<1>2. tasks' = tasks
  BY DEF SameTable
<1>3. (\A n \in Nat, l \in Layer : Sent(n, l) \in events => Gathered(n, l) \in events)'
  BY DEF SentOK, SameGathered, SameSent
<1>4. ASSUME NEW t \in tasks, NEW l \in Layer
      PROVE  (/\ Sent(t.call, l) \in events => mem[Host(t.data, l)] = KV(t.data, l)
              /\ Sent(t.call, l) \in events \/ In(queue["offload"], Send(t.call, l, t.data)))'
  BY <1>1 DEF SentOK, SameSent, SameHost, SameQueue
<1> QED BY <1>2, <1>3, <1>4 DEF SentOK

\* The events of the past stay so.
LEMMA KeepEvents ==
  ASSUME EventsPast, SameTable, SameLoaded, SameCompl, SameGathered, SameSent, SameInferred
  PROVE  EventsPast'
<1>1. \A n : (Launched(n)' <=> Launched(n)) /\ (Begun(n)' <=> Begun(n))
  BY DEF Launched, Begun, SameTable
<1> QED BY <1>1 DEF EventsPast, SameLoaded, SameCompl, SameGathered, SameSent, SameInferred

\* A step of a stream takes the head of its queue.
LEMMA RunIs ==
  ASSUME TypesOK, NEW s \in Stream, Run(s)
  PROVE  /\ queue[s] # <<>> /\ Head(queue[s]).after \subseteq events
         /\ queue'[s] = Tail(queue[s]) /\ \A z \in Stream : z # s => SameQueue(z)
         /\ queue' = [z \in Stream |-> queue'[z]]
         /\ SameTable
<1>1. queue = [z \in Stream |-> queue[z]] /\ queue' = [queue EXCEPT ![s] = Tail(@)]
  BY DEF TypesOK, Run
<1>2. queue'[s] = Tail(queue[s]) /\ \A z \in Stream : z # s => queue'[z] = queue[z]
  BY <1>1
<1>3. queue' = [z \in Stream |-> queue'[z]]
  BY <1>1
<1> QED BY <1>2, <1>3 DEF Run, SameTable, SameQueue

\* A write changes one cell.
LEMMA Stored ==
  ASSUME mem = [c \in Cell |-> mem[c]], NEW x \in Cell, NEW v, mem' = [mem EXCEPT ![x] = v]
  PROVE  mem' = [c \in Cell |-> mem'[c]] /\ mem'[x] = v /\ \A c \in Cell : c # x => mem'[c] = mem[c]
<1>1. mem' = [c \in Cell |-> IF c = x THEN v ELSE mem[c]]
  OBVIOUS
<1>2. mem'[x] = v /\ \A c \in Cell : c # x => mem'[c] = mem[c]
  BY <1>1
<1>3. mem' = [c \in Cell |-> mem'[c]]
  BY <1>1
<1> QED BY <1>2, <1>3

-----------------------------------------------------------------------------
(* The onload stream.                                                      *)

\* The types after a step of a stream.
LEMMA KeepTypes ==
  ASSUME TypesOK, SameTable, mem' = [c \in Cell |-> mem'[c]], queue' = [z \in Stream |-> queue'[z]],
         queue'["onload"] \in Seq(OnloadItems), queue'["scatter"] \in Seq(ScatterItems),
         queue'["gather"] \in Seq(GatherItems), queue'["offload"] \in Seq(OffloadItems),
         queue'["compute"] \in Seq(ComputeItems)
  PROVE  TypesOK'
BY DEF TypesOK, SameTable

\* The order after a step of a stream.
LEMMA KeepOrder ==
  ASSUME QueuesOrdered, NEW s \in Stream, Ordered(s, queue'[s]), \A z \in Stream : z # s => SameQueue(z)
  PROVE  QueuesOrdered'
BY DEF QueuesOrdered, SameQueue

\* A wait of a stream that nothing looks for does nothing.
LEMMA WaitRuns ==
  ASSUME NEW s \in Stream, Run(s), Head(queue[s]).kind = "wait", Head(queue[s]).event = <<>>
  PROVE  mem' = mem /\ events' = events
BY DEF Run

\* The invariant by its parts, and the streams by their names.
LEMMA Unfolded ==
  ASSUME PipeInv
  PROVE  /\ TypesOK /\ QueuesOrdered /\ HolderOK /\ TasksOK /\ EventsPast
         /\ LoadsOK /\ ScattersOK /\ ComputeOK /\ PagesOK /\ HostedIsComplete
         /\ GathersOK /\ SendsOK /\ SentOK
         /\ "onload" \in Stream /\ "scatter" \in Stream /\ "gather" \in Stream /\ "offload" \in Stream
         /\ "compute" \in Stream
         /\ queue["onload"] \in Seq(OnloadItems) /\ queue["scatter"] \in Seq(ScatterItems)
         /\ queue["gather"] \in Seq(GatherItems) /\ queue["offload"] \in Seq(OffloadItems)
         /\ queue["compute"] \in Seq(ComputeItems)
         /\ calls \in Nat /\ hosted \subseteq Data /\ tasks \subseteq [call : Nat, data : Data, page : Page]
         /\ mem = [c \in Cell |-> mem[c]]
BY DEF PipeInv, TypesOK, Stream

\* A step of a stream takes its oldest work and leaves the other streams alone.
LEMMA StreamStep ==
  ASSUME PipeInv, NEW s \in Stream, NEW X, queue[s] \in Seq(X), Run(s)
  PROVE  /\ Head(queue[s]) \in X /\ Head(queue[s]).after \subseteq events /\ queue[s] # <<>>
         /\ queue'[s] \in Seq(X) /\ queue' = [z \in Stream |-> queue'[z]]
         /\ \A v : In(queue[s], v) <=> v = Head(queue[s]) \/ In(queue'[s], v)
         /\ \A v : In(queue'[s], v) => Before(s, Head(queue[s]), v)
         /\ \A z \in Stream : z # s => SameQueue(z)
         /\ SameTable /\ QueuesOrdered' /\ HolderOK' /\ TasksOK'
<1> DEFINE q == queue[s]
           r == queue'[s]
<1>1. TypesOK /\ QueuesOrdered /\ HolderOK /\ TasksOK
  BY DEF PipeInv
<1>2. /\ q # <<>> /\ Head(q).after \subseteq events /\ r = Tail(q)
      /\ \A z \in Stream : z # s => SameQueue(z)
      /\ queue' = [z \in Stream |-> queue'[z]] /\ SameTable
  BY <1>1, RunIs
<1>3. q \in Seq(X) /\ Ordered(s, q)
  BY <1>1 DEF QueuesOrdered
<1>4. /\ Head(q) \in X /\ r \in Seq(X) /\ Ordered(s, r)
      /\ \A v : In(q, v) <=> v = Head(q) \/ In(r, v)
      /\ \A v : In(r, v) => Before(s, Head(q), v)
  <2> HIDE DEF q, r
  <2> QED BY <1>2, <1>3, HeadRuns
<1>5. QueuesOrdered'
  BY <1>1, <1>2, <1>4, KeepOrder
<1>6. HolderOK' /\ TasksOK'
  BY <1>1, <1>2, KeepTable
<1> QED BY <1>2, <1>4, <1>5, <1>6

\* A step of the onload stream: the buffer it fills is free.
LEMMA OnloadRuns ==
  ASSUME PipeInv, Run("onload")
  PROVE  PipeInv'
<1> DEFINE q == queue["onload"]
           r == queue'["onload"]
           w == Head(q)
<1>1. /\ TypesOK /\ EventsPast /\ LoadsOK /\ ScattersOK /\ ComputeOK /\ PagesOK /\ HostedIsComplete
      /\ GathersOK /\ SendsOK /\ SentOK
  BY Unfolded
<1>2. "onload" \in Stream
  BY Unfolded
<1>3. /\ w.after \subseteq events
      /\ SameQueue("scatter") /\ SameQueue("gather") /\ SameQueue("offload") /\ SameQueue("compute")
      /\ queue' = [z \in Stream |-> queue'[z]] /\ SameTable
  BY Unfolded, StreamStep
<1>5. /\ w \in OnloadItems /\ r \in Seq(OnloadItems)
      /\ \A v : In(q, v) <=> v = w \/ In(r, v)
      /\ \A v : In(r, v) => Before("onload", w, v)
  BY Unfolded, StreamStep
<1>6. mem' = [c \in Cell |-> mem'[c]] => TypesOK'
  BY <1>1, <1>3, <1>5, KeepTypes DEF TypesOK, SameQueue
<1>7. QueuesOrdered' /\ HolderOK' /\ TasksOK'
  BY Unfolded, StreamStep
<1>9. calls \in Nat /\ hosted \subseteq Data /\ tasks \subseteq [call : Nat, data : Data, page : Page]
      /\ mem = [c \in Cell |-> mem[c]]
  BY Unfolded
<1>10. CASE \E n \in Nat : w = LoadEnd(n)
  <2>1. w.kind = "wait" /\ w.event = <<>>
    BY <1>10 DEF LoadEnd, Wait
  <2>2. mem' = mem /\ events' = events
    BY <1>2, <2>1, WaitRuns
  <2>3. /\ SameLoaded /\ SameCompl /\ SameGathered /\ SameSent /\ SameInferred
        /\ SameGpu /\ SameHost /\ SameOnBuf /\ SameOffBuf
    BY <2>2 DEF SameLoaded, SameCompl, SameGathered, SameSent, SameInferred, SameGpu, SameHost, SameOnBuf, SameOffBuf
  <2>4. LoadsOK'
    BY <1>1, <1>3, <1>5, <2>2 DEF LoadsOK, SameTable, SameQueue
  <2>5. TypesOK'
    BY <1>6, <1>9, <2>2
  <2> QED BY <1>1, <1>3, <1>7, <1>9, <2>3, <2>4, <2>5, KeepEvents, KeepScatters, KeepCompute,
             KeepPages, KeepHosted, KeepGathers, KeepSends, KeepSent DEF PipeInv
<1>11. ASSUME NEW n \in Nat, NEW l \in Layer, NEW d \in Data, w = Load(n, l, d)
       PROVE  PipeInv'
  <2>1. /\ w.kind = "copy" /\ w.a = Host(d, l) /\ w.b = OnBuf(l) /\ w.event = Loaded(n, l)
        /\ w.after = OnBufFree(n, l) /\ Loaded(n, l) # <<>>
    BY <1>11 DEF Load, Copy, Loaded
  <2>2. mem' = [mem EXCEPT ![OnBuf(l)] = mem[Host(d, l)]] /\ events' = events \cup {Loaded(n, l)}
    BY <2>1 DEF Run
  <2>3. OnBuf(l) \in Cell
    BY CellsExist
  <2>4. /\ mem' = [c \in Cell |-> mem'[c]] /\ mem'[OnBuf(l)] = mem[Host(d, l)]
        /\ \A c \in Cell : c # OnBuf(l) => mem'[c] = mem[c]
    BY <1>9, <2>2, <2>3, Stored
  <2>5. SameGpu /\ SameHost /\ SameOffBuf
    BY <2>4, Cells, CellsExist DEF SameGpu, SameHost, SameOffBuf
  <2>6. /\ \A m, k : Loaded(m, k) \in events' <=> Loaded(m, k) \in events \/ (m = n /\ k = l)
        /\ SameCompl /\ SameGathered /\ SameSent /\ SameInferred
    BY <2>2, AddLoaded DEF SameCompl, SameGathered, SameSent, SameInferred
  <2>7. In(q, Load(n, l, d))
    BY <1>5, <1>11
  <2>8. /\ n = calls /\ d \in hosted
        /\ \E p \in Page : In(queue["scatter"], Scatter(n, l, p))
        /\ \A k \in Layer, p \in Page : In(queue["scatter"], Scatter(n, k, p)) => holder[p] = d
        /\ \A k \in Layer : Loaded(n, k) \in events => k < l
    BY <1>1, <2>7 DEF LoadsOK
  <2>9. EventsPast'
    <3>1. \A m : (Launched(m)' <=> Launched(m)) /\ (Begun(m)' <=> Begun(m))
      BY <1>3 DEF Launched, Begun, SameTable
    <3>2. Begun(n)
      BY <2>8, <1>9 DEF Begun
    <3> QED BY <1>1, <2>6, <3>1, <3>2 DEF EventsPast, SameCompl, SameGathered, SameSent, SameInferred
  <2>10. LoadsOK'
    <3> SUFFICES ASSUME NEW m \in Nat, NEW k \in Layer, NEW e \in Data, In(r, Load(m, k, e))
                 PROVE  (/\ m = calls /\ e \in hosted
                         /\ \E p \in Page : In(queue["scatter"], Scatter(m, k, p))
                         /\ \A j \in Layer, p \in Page : In(queue["scatter"], Scatter(m, j, p)) => holder[p] = e
                         /\ \A j \in Layer : Loaded(m, j) \in events => j < k)'
      BY DEF LoadsOK
    <3>1. In(q, Load(m, k, e))
      BY <1>5
    <3>2. /\ m = calls /\ e \in hosted
          /\ \E p \in Page : In(queue["scatter"], Scatter(m, k, p))
          /\ \A j \in Layer, p \in Page : In(queue["scatter"], Scatter(m, j, p)) => holder[p] = e
          /\ \A j \in Layer : Loaded(m, j) \in events => j < k
      BY <1>1, <3>1 DEF LoadsOK
    <3>3. l < k
      BY <1>5, <1>11 DEF Before, LoadsBefore
    <3>4. (\A j \in Layer : Loaded(m, j) \in events => j < k)'
      BY <2>6, <3>2, <3>3
    <3> QED BY <1>3, <3>2, <3>4 DEF SameTable, SameQueue
  <2>11. ScattersOK'
    <3> SUFFICES ASSUME NEW m \in Nat, NEW k \in Layer, NEW p \in Page, In(queue'["scatter"], Scatter(m, k, p))
                 PROVE  (/\ m = calls /\ holder[p] \in Data /\ Mine(p)
                         /\ \A j \in Layer : Compl(m, j) \in events => j < k
                         /\ Loaded(m, k) \in events => mem[OnBuf(k)] = KV(holder[p], k)
                         /\ In(queue["compute"], Att(m, k, p, holder[p]))
                         /\ \A e \in Data : ~In(queue["compute"], Hit(k, p, e)))'
      BY DEF ScattersOK
    <3>1. In(queue["scatter"], Scatter(m, k, p))
      BY <1>3 DEF SameQueue
    <3>2. /\ m = calls /\ holder[p] \in Data /\ Mine(p)
          /\ \A j \in Layer : Compl(m, j) \in events => j < k
          /\ Loaded(m, k) \in events => mem[OnBuf(k)] = KV(holder[p], k)
          /\ In(queue["compute"], Att(m, k, p, holder[p]))
          /\ \A e \in Data : ~In(queue["compute"], Hit(k, p, e))
      BY <1>1, <3>1 DEF ScattersOK
    <3>3. holder[p] = d /\ m = n
      BY <2>8, <3>1, <3>2
    <3>4. ASSUME Loaded(m, k) \in events' PROVE mem'[OnBuf(k)] = KV(d, k)
      <4>1. CASE k = l
        <5>1. mem[Host(d, l)] = KV(d, l)
          BY <1>1, <2>8 DEF HostedIsComplete
        <5> QED BY <2>4, <4>1, <5>1
      <4>2. CASE k # l
        <5>1. Loaded(n, k) \in events
          BY <2>6, <3>3, <3>4, <4>2
        <5>2. k < l
          BY <2>8, <5>1
        <5>3. OnBuf(k) # OnBuf(l)
          <6> SUFFICES ASSUME OnBuf(k) = OnBuf(l) PROVE FALSE
            OBVIOUS
          <6>1. k % 2 = l % 2
            BY Cells
          <6>2. k \in Nat /\ l \in Nat
            BY Layers
          <6>3. k <= l - 2 /\ l >= 2 /\ l - 2 \in Layer
            BY <5>2, <6>1, TwoApart
          <6>4. Compl(n, l - 2) \in events
            BY <1>3, <2>1, <6>3 DEF OnBufFree, Buffer, Compl
          <6>5. l - 2 < k
            BY <3>2, <3>3, <6>3, <6>4
          <6> QED BY <6>2, <6>3, <6>5
        <5>4. mem'[OnBuf(k)] = mem[OnBuf(k)]
          BY <2>4, <5>3, CellsExist
        <5> QED BY <3>2, <3>3, <5>1, <5>4
      <4> QED BY <4>1, <4>2
    <3>5. (m = calls /\ holder[p] \in Data /\ Mine(p))'
      BY <1>3, <3>2 DEF SameTable, Mine
    <3>6. (\A j \in Layer : Compl(m, j) \in events => j < k)'
      BY <2>6, <3>2 DEF SameCompl
    <3>7. (/\ In(queue["compute"], Att(m, k, p, holder[p]))
           /\ \A e \in Data : ~In(queue["compute"], Hit(k, p, e)))'
      BY <1>3, <3>2 DEF SameQueue, SameTable
    <3>8. (Loaded(m, k) \in events => mem[OnBuf(k)] = KV(holder[p], k))'
      BY <1>3, <3>3, <3>4 DEF SameTable
    <3> QED BY <3>5, <3>6, <3>7, <3>8
  <2> QED BY <1>1, <1>3, <1>6, <1>7, <1>9, <2>4, <2>5, <2>6, <2>9, <2>10, <2>11, KeepCompute,
             KeepPages, KeepHosted, KeepGathers, KeepSends, KeepSent DEF PipeInv
<1>12. (\E n \in Nat : w = LoadEnd(n)) \/ \E n \in Nat, l \in Layer, d \in Data : w = Load(n, l, d)
  BY ONLY <1>5 DEF OnloadItems
<1> HIDE DEF w
<1> QED BY ONLY <1>10, <1>11, <1>12

-----------------------------------------------------------------------------
(* The scatter stream.                                                     *)

\* A step of the scatter stream: the buffer it empties holds its layer.
LEMMA ScatterRuns ==
  ASSUME PipeInv, Run("scatter")
  PROVE  PipeInv'
<1> DEFINE q == queue["scatter"]
           r == queue'["scatter"]
           w == Head(q)
<1>1. /\ TypesOK /\ EventsPast /\ LoadsOK /\ ScattersOK /\ ComputeOK /\ PagesOK /\ HostedIsComplete
      /\ GathersOK /\ SendsOK /\ SentOK
  BY Unfolded
<1>2. "scatter" \in Stream
  BY Unfolded
<1>3. /\ w.after \subseteq events
      /\ SameQueue("onload") /\ SameQueue("gather") /\ SameQueue("offload") /\ SameQueue("compute")
      /\ queue' = [z \in Stream |-> queue'[z]] /\ SameTable
  BY Unfolded, StreamStep
<1>4. /\ w \in ScatterItems /\ r \in Seq(ScatterItems)
      /\ \A v : In(q, v) <=> v = w \/ In(r, v)
      /\ \A v : In(r, v) => Before("scatter", w, v)
  BY Unfolded, StreamStep
<1>5. QueuesOrdered' /\ HolderOK' /\ TasksOK'
  BY Unfolded, StreamStep
<1>6. calls \in Nat /\ hosted \subseteq Data /\ tasks \subseteq [call : Nat, data : Data, page : Page]
      /\ mem = [c \in Cell |-> mem[c]]
  BY Unfolded
<1>7. PICK n \in Nat, l \in Layer, p \in Page : w = Scatter(n, l, p)
  BY <1>4 DEF ScatterItems
<1>8. /\ w.kind = "copy" /\ w.a = OnBuf(l) /\ w.b = Gpu(p, l) /\ w.event = Compl(n, l)
      /\ w.after = {Loaded(n, l)} /\ Compl(n, l) # <<>>
  BY <1>7 DEF Scatter, Copy, Compl
<1>9. mem' = [mem EXCEPT ![Gpu(p, l)] = mem[OnBuf(l)]] /\ events' = events \cup {Compl(n, l)}
  BY <1>8 DEF Run
<1>10. /\ mem' = [c \in Cell |-> mem'[c]] /\ mem'[Gpu(p, l)] = mem[OnBuf(l)]
       /\ \A c \in Cell : c # Gpu(p, l) => mem'[c] = mem[c]
  BY <1>6, <1>9, CellsExist, Stored
<1>11. SameOnBuf /\ SameHost /\ SameOffBuf
  BY <1>10, Cells, CellsExist DEF SameOnBuf, SameHost, SameOffBuf
<1>12. /\ \A m, k : Compl(m, k) \in events' <=> Compl(m, k) \in events \/ (m = n /\ k = l)
       /\ SameLoaded /\ SameGathered /\ SameSent /\ SameInferred
  BY <1>9, AddCompl DEF SameLoaded, SameGathered, SameSent, SameInferred
<1>13. In(q, Scatter(n, l, p))
  BY <1>4, <1>7
<1>14. /\ n = calls /\ holder[p] \in Data /\ Loaded(n, l) \in events
       /\ mem[OnBuf(l)] = KV(holder[p], l)
  BY <1>1, <1>3, <1>8, <1>13 DEF ScattersOK
<1>15. TypesOK'
  BY <1>1, <1>3, <1>4, <1>10, KeepTypes DEF TypesOK, SameQueue
<1>16. EventsPast'
  <2>1. \A m : (Launched(m)' <=> Launched(m)) /\ (Begun(m)' <=> Begun(m))
    BY <1>3 DEF Launched, Begun, SameTable
  <2>2. Begun(n)
    BY <1>6, <1>14 DEF Begun
  <2> QED BY <1>1, <1>12, <2>1, <2>2 DEF EventsPast, SameLoaded, SameGathered, SameSent, SameInferred
<1>17. LoadsOK'
  <2> SUFFICES ASSUME NEW m \in Nat, NEW k \in Layer, NEW e \in Data, In(queue'["onload"], Load(m, k, e))
               PROVE  (/\ m = calls /\ e \in hosted
                       /\ \E x \in Page : In(queue["scatter"], Scatter(m, k, x))
                       /\ \A j \in Layer, x \in Page : In(queue["scatter"], Scatter(m, j, x)) => holder[x] = e
                       /\ \A j \in Layer : Loaded(m, j) \in events => j < k)'
    BY DEF LoadsOK
  <2>1. In(queue["onload"], Load(m, k, e))
    BY <1>3 DEF SameQueue
  <2>2. /\ m = calls /\ e \in hosted
        /\ \E x \in Page : In(q, Scatter(m, k, x))
        /\ \A j \in Layer, x \in Page : In(q, Scatter(m, j, x)) => holder[x] = e
        /\ \A j \in Layer : Loaded(m, j) \in events => j < k
    BY <1>1, <2>1 DEF LoadsOK
  <2>3. l < k /\ l \in Nat
    BY <1>14, <2>2, Layers
  <2>4. PICK x \in Page : In(q, Scatter(m, k, x))
    BY <2>2
  <2>5. Scatter(m, k, x) # w
    BY <1>7, <2>3, OnNames
  <2>6. In(r, Scatter(m, k, x))
    BY <1>4, <2>4, <2>5
  <2>7. \A j \in Layer, y \in Page : In(r, Scatter(m, j, y)) => holder[y] = e
    BY <1>4, <2>2
  <2>8. (\A j \in Layer : Loaded(m, j) \in events => j < k)'
    BY <1>12, <2>2 DEF SameLoaded
  <2> QED BY <1>3, <2>2, <2>6, <2>7, <2>8 DEF SameTable
<1>18. ScattersOK'
  <2> SUFFICES ASSUME NEW m \in Nat, NEW k \in Layer, NEW x \in Page, In(r, Scatter(m, k, x))
               PROVE  (/\ m = calls /\ holder[x] \in Data /\ Mine(x)
                       /\ \A j \in Layer : Compl(m, j) \in events => j < k
                       /\ Loaded(m, k) \in events => mem[OnBuf(k)] = KV(holder[x], k)
                       /\ In(queue["compute"], Att(m, k, x, holder[x]))
                       /\ \A e \in Data : ~In(queue["compute"], Hit(k, x, e)))'
    BY DEF ScattersOK
  <2>1. In(q, Scatter(m, k, x))
    BY <1>4
  <2>2. /\ m = calls /\ holder[x] \in Data /\ Mine(x)
        /\ \A j \in Layer : Compl(m, j) \in events => j < k
        /\ Loaded(m, k) \in events => mem[OnBuf(k)] = KV(holder[x], k)
        /\ In(queue["compute"], Att(m, k, x, holder[x]))
        /\ \A e \in Data : ~In(queue["compute"], Hit(k, x, e))
    BY <1>1, <2>1 DEF ScattersOK
  <2>3. l < k
    BY <1>4, <1>7 DEF Before, ScattersBefore
  <2>4. (\A j \in Layer : Compl(m, j) \in events => j < k)'
    BY <1>12, <2>2, <2>3
  <2>5. (m = calls /\ holder[x] \in Data /\ Mine(x))'
    BY <1>3, <2>2 DEF SameTable, Mine
  <2>6. (Loaded(m, k) \in events => mem[OnBuf(k)] = KV(holder[x], k))'
    BY <1>3, <1>11, <1>12, <2>2 DEF SameTable, SameOnBuf, SameLoaded
  <2>7. (/\ In(queue["compute"], Att(m, k, x, holder[x]))
         /\ \A e \in Data : ~In(queue["compute"], Hit(k, x, e)))'
    BY <1>3, <2>2 DEF SameQueue, SameTable
  <2> QED BY <2>4, <2>5, <2>6, <2>7
<1>19. PagesOK'
  <2> SUFFICES ASSUME NEW k \in Layer, NEW x \in Page, holder[x] # "none"
               PROVE  \/ mem'[Gpu(x, k)] = KV(holder[x], k)
                      \/ In(queue["compute"], Put(k, x, holder[x]))
                      \/ In(r, Scatter(calls, k, x))
    BY <1>3 DEF PagesOK, SameTable, SameQueue
  <2>1. CASE x = p /\ k = l
    BY <1>10, <1>14, <2>1
  <2>2. CASE ~(x = p /\ k = l)
    <3>1. mem'[Gpu(x, k)] = mem[Gpu(x, k)]
      BY <1>10, <2>2, Cells, CellsExist
    <3>2. Scatter(calls, k, x) # w
      BY <1>7, <2>2, OnNames
    <3>3. In(q, Scatter(calls, k, x)) => In(r, Scatter(calls, k, x))
      BY <1>4, <3>2
    <3> QED BY <1>1, <3>1, <3>3 DEF PagesOK
  <2> QED BY <2>1, <2>2
<1> QED BY <1>1, <1>3, <1>5, <1>6, <1>11, <1>12, <1>15, <1>16, <1>17, <1>18, <1>19, KeepCompute,
           KeepHosted, KeepGathers, KeepSends, KeepSent DEF PipeInv
-----------------------------------------------------------------------------
(* The compute stream.                                                     *)

\* A step of the compute stream: a read, a write or the event behind a pass.
LEMMA ComputeRuns ==
  ASSUME PipeInv, Run("compute")
  PROVE  PipeInv'
<1> DEFINE q == queue["compute"]
           r == queue'["compute"]
           w == Head(q)
<1>1. /\ TypesOK /\ EventsPast /\ LoadsOK /\ ScattersOK /\ ComputeOK /\ PagesOK /\ HostedIsComplete
      /\ GathersOK /\ SendsOK /\ SentOK
  BY Unfolded
<1>2. "compute" \in Stream
  BY Unfolded
<1>3. /\ w.after \subseteq events /\ q # <<>>
      /\ SameQueue("onload") /\ SameQueue("gather") /\ SameQueue("offload") /\ SameQueue("scatter")
      /\ queue' = [z \in Stream |-> queue'[z]] /\ SameTable
  BY Unfolded, StreamStep
<1>4. /\ w \in ComputeItems /\ r \in Seq(ComputeItems)
      /\ \A v : In(q, v) <=> v = w \/ In(r, v)
      /\ \A v : In(r, v) => Before("compute", w, v)
  BY Unfolded, StreamStep
<1>5. QueuesOrdered' /\ HolderOK' /\ TasksOK'
  BY Unfolded, StreamStep
<1>6. calls \in Nat /\ hosted \subseteq Data /\ tasks \subseteq [call : Nat, data : Data, page : Page]
      /\ mem = [c \in Cell |-> mem[c]]
  BY Unfolded
<1>7. mem' = [c \in Cell |-> mem'[c]] => TypesOK'
  BY <1>1, <1>3, <1>4, KeepTypes DEF TypesOK, SameQueue
<1>8. Inferred(calls) \notin events
  BY <1>1, <1>3 DEF ComputeOK
<1>9. ASSUME Inferred(calls) \in events' => r = <<>> PROVE ComputeOK'
  <2>1. \A x : Mine(x)' <=> Mine(x)
    BY <1>3 DEF Mine, SameTable
  <2>2. (\A l \in Layer, p \in Page, d \in Data :
          /\ In(queue["compute"], Hit(l, p, d)) => holder[p] = d
          /\ In(queue["compute"], Put(l, p, d)) => holder[p] = d /\ Mine(p))'
    BY <1>1, <1>3, <1>4, <2>1 DEF ComputeOK, SameTable
  <2>3. (\A n \in Nat, l \in Layer, p \in Page, d \in Data :
          In(queue["compute"], Att(n, l, p, d)) => holder[p] = d /\ n = calls)'
    BY <1>1, <1>3, <1>4 DEF ComputeOK, SameTable
  <2>4. (\A n \in Nat : In(queue["compute"], Infer(n)) => n = calls /\ predicted = "none")'
    BY <1>1, <1>3, <1>4 DEF ComputeOK, SameTable
  <2>5. (Inferred(calls) \in events => queue["compute"] = <<>>)'
    BY <1>3, <1>9 DEF SameTable
  <2> QED BY <2>2, <2>3, <2>4, <2>5 DEF ComputeOK
<1>10. SameLoaded => LoadsOK'
  BY <1>1, <1>3, KeepLoads
<1>11. ASSUME SameLoaded, SameCompl, SameOnBuf,
              \A m \in Nat, k \in Layer, x \in Page : In(queue["scatter"], Scatter(m, k, x)) => w # Att(m, k, x, holder[x])
       PROVE  ScattersOK'
  <2> SUFFICES ASSUME NEW m \in Nat, NEW k \in Layer, NEW x \in Page, In(queue'["scatter"], Scatter(m, k, x))
               PROVE  (/\ m = calls /\ holder[x] \in Data /\ Mine(x)
                       /\ \A j \in Layer : Compl(m, j) \in events => j < k
                       /\ Loaded(m, k) \in events => mem[OnBuf(k)] = KV(holder[x], k)
                       /\ In(queue["compute"], Att(m, k, x, holder[x]))
                       /\ \A e \in Data : ~In(queue["compute"], Hit(k, x, e)))'
    BY DEF ScattersOK
  <2>1. In(queue["scatter"], Scatter(m, k, x))
    BY <1>3 DEF SameQueue
  <2>2. /\ m = calls /\ holder[x] \in Data /\ Mine(x)
        /\ \A j \in Layer : Compl(m, j) \in events => j < k
        /\ Loaded(m, k) \in events => mem[OnBuf(k)] = KV(holder[x], k)
        /\ In(q, Att(m, k, x, holder[x]))
        /\ \A e \in Data : ~In(q, Hit(k, x, e))
    BY <1>1, <2>1 DEF ScattersOK
  <2>3. In(r, Att(m, k, x, holder[x])) /\ \A e \in Data : ~In(r, Hit(k, x, e))
    BY <1>4, <1>11, <2>1, <2>2
  <2>4. (\A j \in Layer : Compl(m, j) \in events => j < k)'
    BY <1>11, <2>2 DEF SameCompl
  <2>5. (m = calls /\ holder[x] \in Data /\ Mine(x))'
    BY <1>3, <2>2 DEF SameTable, Mine
  <2>6. (Loaded(m, k) \in events => mem[OnBuf(k)] = KV(holder[x], k))'
    BY <1>3, <1>11, <2>2 DEF SameTable, SameOnBuf, SameLoaded
  <2> QED BY <1>3, <2>3, <2>4, <2>5, <2>6 DEF SameTable
<1>12. ASSUME SameGpu, \A k \in Layer, x \in Page, e \in Data : w # Put(k, x, e) PROVE PagesOK'
  <2> SUFFICES ASSUME NEW k \in Layer, NEW x \in Page, holder[x] # "none"
               PROVE  \/ mem'[Gpu(x, k)] = KV(holder[x], k)
                      \/ In(r, Put(k, x, holder[x]))
                      \/ In(queue["scatter"], Scatter(calls, k, x))
    BY <1>3 DEF PagesOK, SameTable, SameQueue
  <2>1. holder[x] \in Data
    BY <1>1 DEF TypesOK
  <2>2. In(q, Put(k, x, holder[x])) => In(r, Put(k, x, holder[x]))
    BY <1>4, <1>12, <2>1
  <2> QED BY <1>1, <1>12, <2>2 DEF PagesOK, SameGpu
<1>13. ASSUME mem' = mem, events' = events, \A k \in Layer, x \in Page, e \in Data : w # Put(k, x, e),
              \A m \in Nat, k \in Layer, x \in Page : In(queue["scatter"], Scatter(m, k, x)) => w # Att(m, k, x, holder[x])
       PROVE  PipeInv'
  <2>1. /\ SameLoaded /\ SameCompl /\ SameGathered /\ SameSent /\ SameInferred
        /\ SameGpu /\ SameHost /\ SameOnBuf /\ SameOffBuf
    BY <1>13 DEF SameLoaded, SameCompl, SameGathered, SameSent, SameInferred, SameGpu, SameHost, SameOnBuf, SameOffBuf
  <2>2. TypesOK' /\ ComputeOK'
    BY <1>6, <1>7, <1>8, <1>9, <1>13
  <2>3. LoadsOK' /\ ScattersOK' /\ PagesOK'
    BY <1>10, <1>11, <1>12, <1>13, <2>1
  <2> QED BY <1>1, <1>3, <1>5, <1>6, <2>1, <2>2, <2>3, KeepEvents, KeepHosted, KeepGathers, KeepSends,
             KeepSent DEF PipeInv
<1>14. ASSUME NEW l \in Layer, NEW p \in Page, NEW d \in Data, w = Hit(l, p, d)
       PROVE  PipeInv'
  <2>1. w.kind = "read" /\ w.event = <<>>
    BY <1>14 DEF Hit, Read
  <2>2. mem' = mem /\ events' = events
    BY <2>1 DEF Run
  <2> QED BY <1>13, <1>14, <2>2, ComputeNames
<1>15. ASSUME NEW n \in Nat, NEW l \in Layer, NEW p \in Page, NEW d \in Data, w = Att(n, l, p, d)
       PROVE  PipeInv'
  <2>1. w.kind = "read" /\ w.event = <<>> /\ w.after = {Compl(n, l)}
    BY <1>15 DEF Att, Read
  <2>2. mem' = mem /\ events' = events
    BY <2>1 DEF Run
  <2>3. ASSUME NEW m \in Nat, NEW k \in Layer, NEW x \in Page, In(queue["scatter"], Scatter(m, k, x)),
               w = Att(m, k, x, holder[x])
        PROVE  FALSE
    <3>1. m = n /\ k = l
      BY <1>15, <2>3, ComputeNames
    <3>2. Compl(n, l) \in events
      BY <1>3, <2>1
    <3>3. l < l
      BY <1>1, <2>3, <3>1, <3>2 DEF ScattersOK
    <3> QED BY <3>3, Layers
  <2>4. \A k \in Layer, x \in Page, e \in Data : w # Put(k, x, e)
    BY <1>15, ComputeNames
  <2> QED BY <1>13, <2>2, <2>3, <2>4
<1>16. ASSUME NEW l \in Layer, NEW p \in Page, NEW d \in Data, w = Put(l, p, d)
       PROVE  PipeInv'
  <2>1. w.kind = "write" /\ w.event = <<>> /\ w.a = Gpu(p, l) /\ w.b = KV(d, l)
    BY <1>16 DEF Put, Write
  <2>2. mem' = [mem EXCEPT ![Gpu(p, l)] = KV(d, l)] /\ events' = events
    BY <2>1 DEF Run
  <2>3. /\ mem' = [c \in Cell |-> mem'[c]] /\ mem'[Gpu(p, l)] = KV(d, l)
        /\ \A c \in Cell : c # Gpu(p, l) => mem'[c] = mem[c]
    BY <1>6, <2>2, CellsExist, Stored
  <2>4. SameOnBuf /\ SameHost /\ SameOffBuf
    BY <2>3, Cells, CellsExist DEF SameOnBuf, SameHost, SameOffBuf
  <2>5. SameLoaded /\ SameCompl /\ SameGathered /\ SameSent /\ SameInferred
    BY <2>2 DEF SameLoaded, SameCompl, SameGathered, SameSent, SameInferred
  <2>6. holder[p] = d
    BY <1>1, <1>4, <1>16 DEF ComputeOK
  <2>7. PagesOK'
    <3> SUFFICES ASSUME NEW k \in Layer, NEW x \in Page, holder[x] # "none"
                 PROVE  \/ mem'[Gpu(x, k)] = KV(holder[x], k)
                        \/ In(r, Put(k, x, holder[x]))
                        \/ In(queue["scatter"], Scatter(calls, k, x))
      BY <1>3 DEF PagesOK, SameTable, SameQueue
    <3>1. CASE x = p /\ k = l
      BY <2>3, <2>6, <3>1
    <3>2. CASE ~(x = p /\ k = l)
      <4>1. mem'[Gpu(x, k)] = mem[Gpu(x, k)]
        BY <2>3, <3>2, Cells, CellsExist
      <4>2. Put(k, x, holder[x]) # w
        BY <1>16, <3>2, ComputeNames
      <4>3. In(q, Put(k, x, holder[x])) => In(r, Put(k, x, holder[x]))
        BY <1>4, <4>2
      <4> QED BY <1>1, <4>1, <4>3 DEF PagesOK
    <3> QED BY <3>1, <3>2
  <2>8. TypesOK' /\ ComputeOK'
    BY <1>7, <1>8, <1>9, <2>2, <2>3
  <2>9. \A m \in Nat, k \in Layer, x \in Page : In(queue["scatter"], Scatter(m, k, x)) => w # Att(m, k, x, holder[x])
    BY <1>16, ComputeNames
  <2>10. LoadsOK' /\ ScattersOK'
    BY <1>10, <1>11, <2>4, <2>5, <2>9
  <2> QED BY <1>1, <1>3, <1>5, <1>6, <2>4, <2>5, <2>7, <2>8, <2>10, KeepEvents, KeepHosted, KeepGathers,
             KeepSends, KeepSent DEF PipeInv
<1>17. ASSUME NEW n \in Nat, w = Infer(n)
       PROVE  PipeInv'
  <2>1. w.kind = "wait" /\ w.event = Inferred(n) /\ Inferred(n) # <<>>
    BY <1>17 DEF Infer, Wait, Inferred
  <2>2. mem' = mem /\ events' = events \cup {Inferred(n)}
    BY <2>1 DEF Run
  <2>3. /\ \A m : Inferred(m) \in events' <=> Inferred(m) \in events \/ m = n
        /\ SameLoaded /\ SameCompl /\ SameGathered /\ SameSent
    BY <2>2, AddInferred DEF SameLoaded, SameCompl, SameGathered, SameSent
  <2>4. SameGpu /\ SameHost /\ SameOnBuf /\ SameOffBuf
    BY <2>2 DEF SameGpu, SameHost, SameOnBuf, SameOffBuf
  <2>5. n = calls /\ predicted = "none"
    BY <1>1, <1>4, <1>17 DEF ComputeOK
  <2>6. r = <<>>
    <3> SUFFICES ASSUME r # <<>> PROVE FALSE
      OBVIOUS
    <3>1. Len(r) \in Nat /\ Len(r) # 0
      BY <1>4
    <3>2. In(r, r[1])
      BY <3>1 DEF In
    <3>3. ComputesBefore(w, r[1])
      BY <1>4, <3>2 DEF Before
    <3> QED BY <1>17, <3>3 DEF ComputesBefore
  <2>7. TypesOK' /\ ComputeOK'
    BY <1>6, <1>7, <1>9, <2>2, <2>6
  <2>8. EventsPast'
    <3>1. \A m : (Launched(m)' <=> Launched(m)) /\ (Begun(m)' <=> Begun(m))
      BY <1>3 DEF Launched, Begun, SameTable
    <3>2. Launched(n)
      BY <1>6, <2>5 DEF Launched
    <3> QED BY <1>1, <2>3, <3>1, <3>2 DEF EventsPast, SameLoaded, SameCompl, SameGathered, SameSent
  <2>9. GathersOK'
    <3>1. \A m : Launched(m)' <=> Launched(m)
      BY <1>3 DEF Launched, SameTable
    <3> QED BY <1>1, <1>3, <2>3, <3>1 DEF GathersOK, SameTable, SameQueue, SameGathered
  <2>10. \A m \in Nat, k \in Layer, x \in Page : In(queue["scatter"], Scatter(m, k, x)) => w # Att(m, k, x, holder[x])
    BY <1>17, ComputeNames
  <2>11. \A k \in Layer, x \in Page, e \in Data : w # Put(k, x, e)
    BY <1>17, ComputeNames
  <2>12. LoadsOK' /\ ScattersOK' /\ PagesOK'
    BY <1>10, <1>11, <1>12, <2>3, <2>4, <2>10, <2>11
  <2> QED BY <1>1, <1>3, <1>5, <1>6, <2>3, <2>4, <2>7, <2>8, <2>9, <2>12, KeepHosted, KeepSends, KeepSent DEF PipeInv
<1>18. w \in ComputeItems
  BY <1>4
<1> HIDE DEF w
<1>19. \/ \E l \in Layer, p \in Page, d \in Data : w = Hit(l, p, d)
       \/ \E n \in Nat, l \in Layer, p \in Page, d \in Data : w = Att(n, l, p, d)
       \/ \E l \in Layer, p \in Page, d \in Data : w = Put(l, p, d)
       \/ \E n \in Nat : w = Infer(n)
  BY ONLY <1>18 DEF ComputeItems
<1> QED BY ONLY <1>14, <1>15, <1>16, <1>17, <1>19

-----------------------------------------------------------------------------
(* The gather stream.                                                      *)

\* The page of an unsettled offload holds its history once the forward pass of
\* the call is over: whatever still writes a page belongs to the last call.
LEMMA PageIsWhole ==
  ASSUME PipeInv, NEW t \in tasks, NEW l \in Layer, Inferred(t.call) \in events
  PROVE  mem[Gpu(t.page, l)] = KV(t.data, l)
<1>1. TypesOK /\ TasksOK /\ ScattersOK /\ ComputeOK /\ PagesOK
  BY Unfolded
<1> DEFINE p == t.page
<1>2. p \in Page /\ t.data \in Data /\ calls \in Nat /\ t.call \in Nat
  BY Unfolded
<1>3. holder[p] = t.data /\ t.data # "none"
  BY <1>1, <1>2, PipelineAssumption DEF TasksOK
<1>4. Mine(p) => queue["compute"] = <<>>
  BY <1>1 DEF Mine, ComputeOK
<1>5. Mine(p) => \A w : ~In(queue["compute"], w)
  BY <1>4, Idle
<1> HIDE DEF p
<1>6. ~In(queue["compute"], Put(l, p, holder[p]))
  BY <1>1, <1>2, <1>3, <1>5 DEF ComputeOK
<1>7. ~In(queue["scatter"], Scatter(calls, l, p))
  BY <1>1, <1>2, <1>5 DEF ScattersOK
<1>8. mem[Gpu(p, l)] = KV(holder[p], l)
  BY <1>1, <1>2, <1>3, <1>6, <1>7 DEF PagesOK
<1> QED BY <1>3, <1>8 DEF p

\* A step of the gather stream: the buffer it fills is free, and the page it
\* reads holds its history.
LEMMA GatherRuns ==
  ASSUME PipeInv, Run("gather")
  PROVE  PipeInv'
<1> DEFINE q == queue["gather"]
           r == queue'["gather"]
           w == Head(q)
<1>1. /\ TypesOK /\ EventsPast /\ LoadsOK /\ ScattersOK /\ ComputeOK /\ PagesOK /\ HostedIsComplete
      /\ GathersOK /\ SendsOK /\ SentOK /\ TasksOK
  BY Unfolded
<1>2. "gather" \in Stream
  BY Unfolded
<1>3. /\ w.after \subseteq events
      /\ SameQueue("onload") /\ SameQueue("scatter") /\ SameQueue("offload") /\ SameQueue("compute")
      /\ queue' = [z \in Stream |-> queue'[z]] /\ SameTable
  BY Unfolded, StreamStep
<1>4. /\ w \in GatherItems /\ r \in Seq(GatherItems)
      /\ \A v : In(q, v) <=> v = w \/ In(r, v)
      /\ \A v : In(r, v) => Before("gather", w, v)
  BY Unfolded, StreamStep
<1>5. QueuesOrdered' /\ HolderOK' /\ TasksOK'
  BY Unfolded, StreamStep
<1>6. calls \in Nat /\ hosted \subseteq Data /\ tasks \subseteq [call : Nat, data : Data, page : Page]
      /\ mem = [c \in Cell |-> mem[c]]
  BY Unfolded
<1>7. mem' = [c \in Cell |-> mem'[c]] => TypesOK'
  BY <1>1, <1>3, <1>4, KeepTypes DEF TypesOK, SameQueue
<1>8. \A m : (Launched(m)' <=> Launched(m)) /\ (Begun(m)' <=> Begun(m))
  BY <1>3 DEF Launched, Begun, SameTable
<1>9. ASSUME SameInferred,
             \A m \in Nat : w = Begin(m) => Inferred(m) \in events,
             \A m, n \in Nat, k, l \in Layer, p \in Page :
                 In(r, Gather(n, l, p)) /\ Gathered(m, k) \in events' => Earlier(m, k, n, l)
      PROVE  GathersOK'
  <2>1. ASSUME NEW n \in Nat, NEW l \in Layer, NEW p \in Page, In(r, Gather(n, l, p))
        PROVE  (/\ \E t \in tasks : t.call = n /\ t.page = p
                /\ In(queue["gather"], Begin(n)) \/ Inferred(n) \in events
                /\ \A m \in Nat, k \in Layer : Gathered(m, k) \in events => Earlier(m, k, n, l))'
    <3>1. In(q, Gather(n, l, p))
      BY <1>4, <2>1
    <3>2. /\ \E t \in tasks : t.call = n /\ t.page = p
          /\ In(q, Begin(n)) \/ Inferred(n) \in events
      BY <1>1, <3>1 DEF GathersOK
    <3>3. In(r, Begin(n)) \/ Inferred(n) \in events
      BY <1>4, <1>9, <3>2
    <3> QED BY <1>3, <1>9, <2>1, <3>2, <3>3 DEF SameTable, SameInferred
  <2>2. (\A n \in Nat, k \in Int, v \in GatherItems : In(queue["gather"], v) /\ At(v, n, k) => Launched(n))'
    BY <1>1, <1>4, <1>8 DEF GathersOK
  <2> QED BY <2>1, <2>2 DEF GathersOK
<1>10. ASSUME mem' = mem, events' = events,
              \A m \in Nat : w = Begin(m) => Inferred(m) \in events,
              \A m \in Nat : w = End(m) => Sent(m, NumLayers - 1) \in events
       PROVE  PipeInv'
  <2>1. /\ SameLoaded /\ SameCompl /\ SameGathered /\ SameSent /\ SameInferred
        /\ SameGpu /\ SameHost /\ SameOnBuf /\ SameOffBuf
    BY <1>10 DEF SameLoaded, SameCompl, SameGathered, SameSent, SameInferred, SameGpu, SameHost, SameOnBuf, SameOffBuf
  <2>2. \A m, n \in Nat, k, l \in Layer, p \in Page :
            In(r, Gather(n, l, p)) /\ Gathered(m, k) \in events' => Earlier(m, k, n, l)
    BY <1>1, <1>4, <1>10 DEF GathersOK
  <2>3. GathersOK'
    BY <1>9, <1>10, <2>1, <2>2
  <2>4. SendsOK'
    <3> SUFFICES ASSUME NEW m \in Nat, NEW k \in Layer, NEW e \in Data, In(queue'["offload"], Send(m, k, e))
                 PROVE  (/\ \E t \in tasks : t.call = m /\ t.data = e
                         /\ In(queue["gather"], End(m))
                         /\ \A n \in Nat, l \in Layer : Sent(n, l) \in events => Earlier(n, l, m, k)
                         /\ Gathered(m, k) \in events => mem[OffBuf(k)] = KV(e, k))'
      BY DEF SendsOK
    <3>1. In(queue["offload"], Send(m, k, e))
      BY <1>3 DEF SameQueue
    <3>2. /\ \E t \in tasks : t.call = m /\ t.data = e
          /\ In(q, End(m))
          /\ \A n \in Nat, l \in Layer : Sent(n, l) \in events => Earlier(n, l, m, k)
          /\ Gathered(m, k) \in events => mem[OffBuf(k)] = KV(e, k)
      BY <1>1, <3>1 DEF SendsOK
    <3>3. NumLayers - 1 \in Layer /\ NumLayers \in Nat /\ k \in Nat /\ k <= NumLayers - 1
      BY Layers DEF Layer
    <3>4. Sent(m, NumLayers - 1) \notin events
      BY <3>2, <3>3 DEF Earlier
    <3>5. In(r, End(m))
      BY <1>4, <1>10, <3>2, <3>4
    <3> QED BY <1>3, <1>10, <3>2, <3>5 DEF SameTable
  <2>5. TypesOK'
    BY <1>6, <1>7, <1>10
  <2> QED BY <1>1, <1>3, <1>5, <1>6, <2>1, <2>3, <2>4, <2>5, KeepEvents, KeepLoads, KeepScatters, KeepCompute,
             KeepPages, KeepHosted, KeepSent DEF PipeInv
<1>11. ASSUME NEW n \in Nat, w = Begin(n)
       PROVE  PipeInv'
  <2>1. w.kind = "wait" /\ w.event = <<>> /\ w.after = {Inferred(n)}
    BY <1>11 DEF Begin, Wait
  <2>2. mem' = mem /\ events' = events
    BY <1>2, <2>1, WaitRuns
  <2>3. Inferred(n) \in events
    BY <1>3, <2>1
  <2> QED BY <1>10, <1>11, <2>2, <2>3, OffNames
<1>12. ASSUME NEW n \in Nat, w = End(n)
       PROVE  PipeInv'
  <2>1. w.kind = "wait" /\ w.event = <<>> /\ w.after = {Sent(n, NumLayers - 1)}
    BY <1>12 DEF End, Wait
  <2>2. mem' = mem /\ events' = events
    BY <1>2, <2>1, WaitRuns
  <2>3. Sent(n, NumLayers - 1) \in events
    BY <1>3, <2>1
  <2> QED BY <1>10, <1>12, <2>2, <2>3, OffNames
<1>13. ASSUME NEW n \in Nat, NEW l \in Layer, NEW p \in Page, w = Gather(n, l, p)
       PROVE  PipeInv'
  <2>1. /\ w.kind = "copy" /\ w.a = Gpu(p, l) /\ w.b = OffBuf(l) /\ w.event = Gathered(n, l)
        /\ w.after = OffBufFree(n, l) /\ Gathered(n, l) # <<>>
    BY <1>13 DEF Gather, Copy, Gathered
  <2>2. mem' = [mem EXCEPT ![OffBuf(l)] = mem[Gpu(p, l)]] /\ events' = events \cup {Gathered(n, l)}
    BY <2>1 DEF Run
  <2>3. /\ mem' = [c \in Cell |-> mem'[c]] /\ mem'[OffBuf(l)] = mem[Gpu(p, l)]
        /\ \A c \in Cell : c # OffBuf(l) => mem'[c] = mem[c]
    BY <1>6, <2>2, CellsExist, Stored
  <2>4. SameGpu /\ SameHost /\ SameOnBuf
    BY <2>3, Cells, CellsExist DEF SameGpu, SameHost, SameOnBuf
  <2>5. /\ \A m, k : Gathered(m, k) \in events' <=> Gathered(m, k) \in events \/ (m = n /\ k = l)
        /\ SameLoaded /\ SameCompl /\ SameSent /\ SameInferred
    BY <2>2, AddGathered DEF SameLoaded, SameCompl, SameSent, SameInferred
  <2>6. In(q, Gather(n, l, p)) /\ l \in Int /\ l \in Nat
    BY <1>4, <1>13, Layers
  <2>7. /\ In(q, Begin(n)) \/ Inferred(n) \in events
        /\ \A m \in Nat, k \in Layer : Gathered(m, k) \in events => Earlier(m, k, n, l)
    BY <1>1, <2>6 DEF GathersOK
  <2>8. PICK t \in tasks : t.call = n /\ t.page = p
    BY <1>1, <2>6 DEF GathersOK
  <2>9. \A a, b : At(w, a, b) <=> a = n /\ b = l
    <3>1. \A a, b : At(Gather(n, l, p), a, b) <=> a = n /\ b = l
      BY Stands
    <3> QED BY ONLY <1>13, <3>1
  <2>10. \A v : \A m \in Nat, k \in Int : In(r, v) /\ At(v, m, k) => Earlier(n, l, m, k)
    BY <1>4, <2>6, <2>9 DEF Before, GathersBefore
  <2>11. Inferred(n) \in events
    <3> SUFFICES ASSUME In(q, Begin(n)) PROVE FALSE
      BY <2>7
    <3>1. In(r, Begin(n))
      BY <1>4, <1>13, OffNames
    <3>2. At(Begin(n), n, -1)
      BY Stands
    <3>3. Earlier(n, l, n, -1)
      BY <2>10, <3>1, <3>2
    <3> QED BY <2>6, <3>3 DEF Earlier
  <2>12. mem[Gpu(p, l)] = KV(t.data, l)
    BY <2>8, <2>11, PageIsWhole
  <2>13. EventsPast'
    <3>1. Launched(n)
      BY <1>1, <1>4, <2>6, <2>9 DEF GathersOK
    <3> QED BY <1>1, <1>8, <2>5, <3>1 DEF EventsPast, SameLoaded, SameCompl, SameSent, SameInferred
  <2>14. GathersOK'
    <3>1. ASSUME NEW m \in Nat, NEW k \in Layer, NEW i \in Nat, NEW j \in Layer, NEW x \in Page,
                 In(r, Gather(i, j, x)), Gathered(m, k) \in events'
          PROVE  Earlier(m, k, i, j)
      <4>1. CASE Gathered(m, k) \in events
        <5>1. In(q, Gather(i, j, x))
          BY <1>4, <3>1
        <5> QED BY <1>1, <4>1, <5>1 DEF GathersOK
      <4>2. CASE m = n /\ k = l
        <5>1. At(Gather(i, j, x), i, j)
          BY Stands
        <5>3. j \in Int
          BY Layers
        <5>2. Earlier(n, l, i, j)
          BY <2>10, <3>1, <5>1, <5>3
        <5> QED BY <4>2, <5>2
      <4> QED BY <2>5, <3>1, <4>1, <4>2
    <3>2. \A m \in Nat : w # Begin(m)
      BY <1>13, OffNames
    <3> QED BY <1>9, <2>5, <3>1, <3>2
  <2>15. SendsOK'
    <3> SUFFICES ASSUME NEW m \in Nat, NEW k \in Layer, NEW e \in Data, In(queue'["offload"], Send(m, k, e))
                 PROVE  (/\ \E u \in tasks : u.call = m /\ u.data = e
                         /\ In(queue["gather"], End(m))
                         /\ \A i \in Nat, j \in Layer : Sent(i, j) \in events => Earlier(i, j, m, k)
                         /\ Gathered(m, k) \in events => mem[OffBuf(k)] = KV(e, k))'
      BY DEF SendsOK
    <3>1. In(queue["offload"], Send(m, k, e))
      BY <1>3 DEF SameQueue
    <3>2. /\ \E u \in tasks : u.call = m /\ u.data = e
          /\ In(q, End(m))
          /\ \A i \in Nat, j \in Layer : Sent(i, j) \in events => Earlier(i, j, m, k)
          /\ Gathered(m, k) \in events => mem[OffBuf(k)] = KV(e, k)
      BY <1>1, <3>1 DEF SendsOK
    <3>3. In(r, End(m))
      BY <1>4, <1>13, <3>2, OffNames
    <3>4. ASSUME Gathered(m, k) \in events' PROVE mem'[OffBuf(k)] = KV(e, k)
      <4>1. CASE m = n /\ k = l
        <5>1. PICK u \in tasks : u.call = m /\ u.data = e
          BY <3>2
        <5>2. e = t.data
          BY <1>1, <2>8, <4>1, <5>1 DEF TasksOK
        <5> QED BY <2>3, <2>12, <4>1, <5>2
      <4>2. CASE ~(m = n /\ k = l)
        <5>1. Gathered(m, k) \in events
          BY <2>5, <3>4, <4>2
        <5>2. Earlier(m, k, n, l)
          BY <2>7, <5>1
        <5>3. k \in Nat /\ k < NumLayers /\ NumLayers \in Nat
          BY Layers
        <5>4. m = n /\ k < l
          <6>1. At(End(m), m, NumLayers)
            BY Stands
          <6>2. Earlier(n, l, m, NumLayers)
            BY <2>10, <3>3, <5>3, <6>1
          <6> QED BY <5>2, <6>2 DEF Earlier
        <5>5. OffBuf(k) # OffBuf(l)
          <6> SUFFICES ASSUME OffBuf(k) = OffBuf(l) PROVE FALSE
            OBVIOUS
          <6>1. k % 2 = l % 2
            BY Cells
          <6>2. k <= l - 2 /\ l >= 2 /\ l - 2 \in Layer
            BY <5>4, <6>1, TwoApart
          <6>3. Sent(n, l - 2) \in events
            BY <1>3, <2>1, <6>2 DEF OffBufFree, Buffer, Sent
          <6>4. Earlier(n, l - 2, m, k)
            BY <3>2, <6>2, <6>3
          <6> QED BY <2>6, <5>3, <5>4, <6>2, <6>4 DEF Earlier
        <5>6. mem'[OffBuf(k)] = mem[OffBuf(k)]
          BY <2>3, <5>5, CellsExist
        <5> QED BY <3>2, <5>1, <5>6
      <4> QED BY <4>1, <4>2
    <3>5. (\A i \in Nat, j \in Layer : Sent(i, j) \in events => Earlier(i, j, m, k))'
      BY <2>5, <3>2 DEF SameSent
    <3> QED BY <1>3, <3>2, <3>3, <3>4, <3>5 DEF SameTable
  <2>16. SentOK'
    <3>1. \A u \in tasks : u.call \in Nat /\ u.data \in Data
      BY <1>6
    <3>2. tasks' = tasks
      BY <1>3 DEF SameTable
    <3>3. (\A i \in Nat, j \in Layer : Sent(i, j) \in events => Gathered(i, j) \in events)'
      BY <1>1, <2>5 DEF SentOK, SameSent
    <3>4. ASSUME NEW u \in tasks, NEW j \in Layer
          PROVE  (/\ Sent(u.call, j) \in events => mem[Host(u.data, j)] = KV(u.data, j)
                  /\ Sent(u.call, j) \in events \/ In(queue["offload"], Send(u.call, j, u.data)))'
      BY <1>1, <1>3, <2>4, <2>5, <3>1 DEF SentOK, SameSent, SameHost, SameQueue
    <3> QED BY <3>2, <3>3, <3>4 DEF SentOK
  <2>17. TypesOK'
    BY <1>7, <2>3
  <2> QED BY <1>1, <1>3, <1>5, <1>6, <2>4, <2>5, <2>13, <2>14, <2>15, <2>16, <2>17, KeepLoads, KeepScatters,
             KeepCompute, KeepPages, KeepHosted DEF PipeInv
<1>14. (\E n \in Nat : w = Begin(n)) \/ (\E n \in Nat : w = End(n))
       \/ \E n \in Nat, l \in Layer, p \in Page : w = Gather(n, l, p)
  BY ONLY <1>4 DEF GatherItems
<1> HIDE DEF w
<1> QED BY ONLY <1>11, <1>12, <1>13, <1>14

-----------------------------------------------------------------------------
(* The offload stream.                                                     *)

\* A step of the offload stream: the buffer it empties holds its layer.
LEMMA OffloadRuns ==
  ASSUME PipeInv, Run("offload")
  PROVE  PipeInv'
<1> DEFINE q == queue["offload"]
           r == queue'["offload"]
           w == Head(q)
<1>1. /\ TypesOK /\ EventsPast /\ LoadsOK /\ ScattersOK /\ ComputeOK /\ PagesOK /\ HostedIsComplete
      /\ GathersOK /\ SendsOK /\ SentOK /\ TasksOK
  BY Unfolded
<1>2. "offload" \in Stream
  BY Unfolded
<1>3. /\ w.after \subseteq events
      /\ SameQueue("onload") /\ SameQueue("scatter") /\ SameQueue("gather") /\ SameQueue("compute")
      /\ queue' = [z \in Stream |-> queue'[z]] /\ SameTable
  BY Unfolded, StreamStep
<1>4. /\ w \in OffloadItems /\ r \in Seq(OffloadItems)
      /\ \A v : In(q, v) <=> v = w \/ In(r, v)
      /\ \A v : In(r, v) => Before("offload", w, v)
  BY Unfolded, StreamStep
<1>5. QueuesOrdered' /\ HolderOK' /\ TasksOK'
  BY Unfolded, StreamStep
<1>6. calls \in Nat /\ hosted \subseteq Data /\ tasks \subseteq [call : Nat, data : Data, page : Page]
      /\ mem = [c \in Cell |-> mem[c]]
  BY Unfolded
<1>7. PICK n \in Nat, l \in Layer, d \in Data : w = Send(n, l, d)
  BY <1>4 DEF OffloadItems
<1>8. /\ w.kind = "copy" /\ w.a = OffBuf(l) /\ w.b = Host(d, l) /\ w.event = Sent(n, l)
      /\ w.after = {Gathered(n, l)} /\ Sent(n, l) # <<>>
  BY <1>7 DEF Send, Copy, Sent
<1>9. mem' = [mem EXCEPT ![Host(d, l)] = mem[OffBuf(l)]] /\ events' = events \cup {Sent(n, l)}
  BY <1>8 DEF Run
<1>10. /\ mem' = [c \in Cell |-> mem'[c]] /\ mem'[Host(d, l)] = mem[OffBuf(l)]
       /\ \A c \in Cell : c # Host(d, l) => mem'[c] = mem[c]
  BY <1>6, <1>9, CellsExist, Stored
<1>11. SameOnBuf /\ SameGpu /\ SameOffBuf
  BY <1>10, Cells, CellsExist DEF SameOnBuf, SameGpu, SameOffBuf
<1>12. /\ \A m, k : Sent(m, k) \in events' <=> Sent(m, k) \in events \/ (m = n /\ k = l)
       /\ SameLoaded /\ SameCompl /\ SameGathered /\ SameInferred
  BY <1>9, AddSent DEF SameLoaded, SameCompl, SameGathered, SameInferred
<1>13. In(q, Send(n, l, d))
  BY <1>4, <1>7
<1>14. Gathered(n, l) \in events /\ mem[OffBuf(l)] = KV(d, l)
  BY <1>1, <1>3, <1>8, <1>13 DEF SendsOK
<1>15. PICK t \in tasks : t.call = n /\ t.data = d
  BY <1>1, <1>13 DEF SendsOK
<1>16. TypesOK'
  BY <1>1, <1>3, <1>4, <1>10, KeepTypes DEF TypesOK, SameQueue
<1>17. EventsPast'
  <2>1. \A m : (Launched(m)' <=> Launched(m)) /\ (Begun(m)' <=> Begun(m))
    BY <1>3 DEF Launched, Begun, SameTable
  <2>2. Launched(n)
    BY <1>1, <1>15 DEF TasksOK
  <2> QED BY <1>1, <1>12, <2>1, <2>2 DEF EventsPast, SameLoaded, SameCompl, SameGathered, SameInferred
<1>18. \A e \in Data, k \in Layer :
          mem[Host(e, k)] = KV(e, k) \/ (e = d /\ k = l) => mem'[Host(e, k)] = KV(e, k)
  <2> TAKE e \in Data, k \in Layer
  <2>1. CASE e = d /\ k = l
    BY <1>10, <1>14, <2>1
  <2>2. CASE ~(e = d /\ k = l)
    <3>1. mem'[Host(e, k)] = mem[Host(e, k)]
      BY <1>10, <2>2, Cells, CellsExist
    <3> QED BY <2>2, <3>1
  <2> QED BY <2>1, <2>2
<1>19. HostedIsComplete'
  BY <1>1, <1>3, <1>6, <1>18 DEF HostedIsComplete, SameTable
<1>20. SendsOK'
  <2> SUFFICES ASSUME NEW m \in Nat, NEW k \in Layer, NEW e \in Data, In(r, Send(m, k, e))
               PROVE  (/\ \E u \in tasks : u.call = m /\ u.data = e
                       /\ In(queue["gather"], End(m))
                       /\ \A i \in Nat, j \in Layer : Sent(i, j) \in events => Earlier(i, j, m, k)
                       /\ Gathered(m, k) \in events => mem[OffBuf(k)] = KV(e, k))'
    BY DEF SendsOK
  <2>1. In(q, Send(m, k, e))
    BY <1>4
  <2>2. /\ \E u \in tasks : u.call = m /\ u.data = e
        /\ In(queue["gather"], End(m))
        /\ \A i \in Nat, j \in Layer : Sent(i, j) \in events => Earlier(i, j, m, k)
        /\ Gathered(m, k) \in events => mem[OffBuf(k)] = KV(e, k)
    BY <1>1, <2>1 DEF SendsOK
  <2>3. Earlier(n, l, m, k)
    BY <1>4, <1>7 DEF Before, SendsBefore
  <2>4. (\A i \in Nat, j \in Layer : Sent(i, j) \in events => Earlier(i, j, m, k))'
    BY <1>12, <2>2, <2>3
  <2>5. (Gathered(m, k) \in events => mem[OffBuf(k)] = KV(e, k))'
    BY <1>11, <1>12, <2>2 DEF SameOffBuf, SameGathered
  <2> QED BY <1>3, <2>2, <2>4, <2>5 DEF SameTable, SameQueue
<1>21. SentOK'
  <2>1. \A u \in tasks : u.call \in Nat /\ u.data \in Data
    BY <1>6
  <2>2. tasks' = tasks
    BY <1>3 DEF SameTable
  <2>3. (\A i \in Nat, j \in Layer : Sent(i, j) \in events => Gathered(i, j) \in events)'
    BY <1>1, <1>12, <1>14 DEF SentOK, SameGathered
  <2>4. ASSUME NEW u \in tasks, NEW j \in Layer
        PROVE  (/\ Sent(u.call, j) \in events => mem[Host(u.data, j)] = KV(u.data, j)
                /\ Sent(u.call, j) \in events \/ In(queue["offload"], Send(u.call, j, u.data)))'
    <3>1. /\ Sent(u.call, j) \in events => mem[Host(u.data, j)] = KV(u.data, j)
          /\ Sent(u.call, j) \in events \/ In(q, Send(u.call, j, u.data))
      BY <1>1 DEF SentOK
    <3>2. u.call = n => u.data = d
      BY <1>1, <1>15 DEF TasksOK
    <3>3. Sent(u.call, j) \in events' => mem'[Host(u.data, j)] = KV(u.data, j)
      BY <1>12, <1>18, <2>1, <3>1, <3>2
    <3>4. Send(u.call, j, u.data) = w => u.call = n /\ j = l
      BY <1>7, OffNames
    <3>5. Sent(u.call, j) \in events' \/ In(r, Send(u.call, j, u.data))
      BY <1>4, <1>12, <3>1, <3>4
    <3> QED BY <3>3, <3>5
  <2> QED BY <2>2, <2>3, <2>4 DEF SentOK
<1> QED BY <1>1, <1>3, <1>5, <1>6, <1>11, <1>12, <1>16, <1>17, <1>19, <1>20, <1>21, KeepLoads, KeepScatters,
           KeepCompute, KeepPages, KeepGathers DEF PipeInv

-----------------------------------------------------------------------------
(* offload_try_wait.                                                       *)

\* An offload that offload_try_wait takes off the list is complete: all its
\* layers are on the host and none of its work is pending.
LEMMA Settled ==
  ASSUME PipeInv
  PROVE  /\ \A t \in tasks \ Left, l \in Layer : mem[Host(t.data, l)] = KV(t.data, l)
         /\ \A n \in Nat, l \in Layer, d \in Data : In(queue["offload"], Send(n, l, d)) =>
               \E t \in Left : t.call = n /\ t.data = d
         /\ \A n \in Nat, l \in Layer, p \in Page : In(queue["gather"], Gather(n, l, p)) =>
               \E t \in Left : t.call = n /\ t.page = p
<1>1. GathersOK /\ SendsOK /\ SentOK /\ tasks \subseteq [call : Nat, data : Data, page : Page]
  BY Unfolded
<1>2. NumLayers - 1 \in Layer
  BY Layers DEF Layer
<1>3. ASSUME NEW t \in tasks, t \notin Left, NEW l \in Layer
      PROVE  Sent(t.call, l) \in events
  <2>1. Sent(t.call, NumLayers - 1) \in events
    BY <1>3 DEF Left, Ready, Sent
  <2>2. t.call \in Nat /\ t.data \in Data /\ l \in Nat /\ l <= NumLayers - 1 /\ NumLayers \in Nat
    BY <1>1, Layers
  <2>3. ~In(queue["offload"], Send(t.call, l, t.data))
    BY <1>1, <1>2, <2>1, <2>2 DEF SendsOK, Earlier
  <2> QED BY <1>1, <2>3 DEF SentOK
<1>4. ASSUME NEW t \in tasks \ Left, NEW l \in Layer
      PROVE  mem[Host(t.data, l)] = KV(t.data, l)
  BY <1>1, <1>3 DEF SentOK
<1>5. ASSUME NEW n \in Nat, NEW l \in Layer, NEW d \in Data, In(queue["offload"], Send(n, l, d))
      PROVE  \E t \in Left : t.call = n /\ t.data = d
  <2>1. PICK t \in tasks : t.call = n /\ t.data = d
    BY <1>1, <1>5 DEF SendsOK
  <2>2. Sent(n, l) \notin events
    BY <1>1, <1>5, Layers DEF SendsOK, Earlier
  <2> QED BY <1>3, <2>1, <2>2
<1>6. ASSUME NEW n \in Nat, NEW l \in Layer, NEW p \in Page, In(queue["gather"], Gather(n, l, p))
      PROVE  \E t \in Left : t.call = n /\ t.page = p
  <2>1. PICK t \in tasks : t.call = n /\ t.page = p
    BY <1>1, <1>6 DEF GathersOK
  <2>2. Gathered(n, l) \notin events
    BY <1>1, <1>6, Layers DEF GathersOK, Earlier
  <2>3. Sent(n, l) \notin events
    BY <1>1, <2>2 DEF SentOK
  <2> QED BY <1>3, <2>1, <2>3
<1> QED BY <1>4, <1>5, <1>6

\* The host learns complete histories, and only those.
LEMMA ReapHosts ==
  ASSUME PipeInv, Reap, mem' = mem
  PROVE  /\ HostedIsComplete' /\ hosted \subseteq hosted' /\ hosted' \subseteq Data
         /\ \A t \in Left : t \in tasks /\ t.data \notin hosted'
<1>1. HostedIsComplete /\ TasksOK /\ hosted \subseteq Data /\ tasks \subseteq [call : Nat, data : Data, page : Page]
  BY Unfolded
<1>2. hosted' = hosted \cup {t.data : t \in tasks \ Left}
  BY DEF Reap
<1>3. hosted \subseteq hosted' /\ hosted' \subseteq Data
  BY <1>1, <1>2
<1>4. ASSUME NEW t \in Left PROVE t \in tasks /\ t.data \notin hosted'
  <2>1. t \in tasks
    BY DEF Left
  <2> QED BY <1>1, <1>2, <2>1 DEF TasksOK
<1>5. HostedIsComplete'
  <2> SUFFICES ASSUME NEW d \in hosted', NEW l \in Layer PROVE mem[Host(d, l)] = KV(d, l)
    BY DEF HostedIsComplete
  <2>1. CASE d \in hosted
    BY <1>1, <2>1 DEF HostedIsComplete
  <2>2. ASSUME NEW t \in tasks \ Left, d = t.data PROVE mem[Host(d, l)] = KV(d, l)
    BY <2>2, Settled
  <2> QED BY <1>2, <2>1, <2>2
<1> QED BY <1>3, <1>4, <1>5

\* Taking the complete offloads off the list, after a forward pass or not.
LEMMA ReapStep ==
  ASSUME PipeInv, Reap, tasks' = Left, UNCHANGED <<mem, queue, events, holder, calls>>,
         predicted' = "none"
  PROVE  PipeInv'
<1>1. /\ TypesOK /\ QueuesOrdered /\ HolderOK /\ TasksOK /\ EventsPast /\ LoadsOK /\ ScattersOK /\ ComputeOK
      /\ PagesOK /\ GathersOK /\ SendsOK /\ SentOK
  BY Unfolded
<1>2. /\ HostedIsComplete' /\ hosted \subseteq hosted' /\ hosted' \subseteq Data
      /\ \A t \in Left : t \in tasks /\ t.data \notin hosted'
  BY ReapHosts
<1>3. TypesOK'
  BY <1>1, <1>2 DEF TypesOK
<1>4. QueuesOrdered' /\ HolderOK'
  BY <1>1 DEF QueuesOrdered, HolderOK
<1>5. \A n : (Launched(n) => Launched(n)') /\ (Begun(n)' <=> Begun(n))
  BY DEF Launched, Begun
<1>6. \A p : Mine(p) => Mine(p)'
  BY <1>2 DEF Mine
<1>7. TasksOK'
  BY <1>1, <1>2, <1>5 DEF TasksOK
<1>8. EventsPast'
  BY <1>1, <1>5 DEF EventsPast
<1>9. LoadsOK'
  BY <1>1, <1>2 DEF LoadsOK
<1>10. ScattersOK'
  BY <1>1, <1>6 DEF ScattersOK
<1>11. ComputeOK'
  BY <1>1, <1>6 DEF ComputeOK
<1>12. PagesOK'
  BY <1>1 DEF PagesOK
<1>13. GathersOK'
  BY <1>1, <1>5, Settled DEF GathersOK
<1>14. SendsOK'
  BY <1>1, Settled DEF SendsOK
<1>15. SentOK'
  BY <1>1, <1>2 DEF SentOK
<1> QED BY <1>2, <1>3, <1>4, <1>7, <1>8, <1>9, <1>10, <1>11, <1>12, <1>13, <1>14, <1>15 DEF PipeInv

-----------------------------------------------------------------------------
(* offload_launch.                                                         *)

\* What the launch of an offload enqueues.
LEMMA EnqueueLaunch ==
  ASSUME NEW a, NEW b, NEW c, Enqueue([compute |-> a, gather |-> b, offload |-> c])
  PROVE  /\ queue' = [s \in Stream |-> queue'[s]]
         /\ queue'["compute"] = queue["compute"] \o a /\ queue'["gather"] = queue["gather"] \o b
         /\ queue'["offload"] = queue["offload"] \o c
         /\ SameQueue("onload") /\ SameQueue("scatter")
BY DEF Enqueue, Stream, SameQueue

\* The launch of the offload of the last call, after offload_try_wait.
LEMMA LaunchStep ==
  ASSUME PipeInv, NEW p \in Page, predicted # "none", holder[p] = predicted,
         Reap, predicted \notin hosted', \A t \in Left : t.data # predicted,
         tasks' = Left \cup {[call |-> calls, data |-> predicted, page |-> p]},
         Enqueue([compute |-> InferenceEvent(calls), gather |-> GatherWork(calls, p),
                  offload |-> OffloadWork(calls, predicted)]),
         UNCHANGED <<mem, events, holder, calls>>, predicted' = "none"
  PROVE  PipeInv'
<1> DEFINE d == predicted
           new == [call |-> calls, data |-> d, page |-> p]
<1>1. /\ TypesOK /\ QueuesOrdered /\ HolderOK /\ TasksOK /\ EventsPast /\ LoadsOK /\ ScattersOK /\ ComputeOK
      /\ PagesOK /\ GathersOK /\ SendsOK /\ SentOK /\ calls \in Nat
      /\ tasks \subseteq [call : Nat, data : Data, page : Page]
      /\ queue["gather"] \in Seq(GatherItems) /\ queue["offload"] \in Seq(OffloadItems)
      /\ queue["compute"] \in Seq(ComputeItems)
  BY Unfolded
<1>2. /\ HostedIsComplete' /\ hosted \subseteq hosted' /\ hosted' \subseteq Data
      /\ \A t \in Left : t \in tasks /\ t.data \notin hosted'
  BY ReapHosts
<1>3. d \in Data /\ new \in [call : Nat, data : Data, page : Page]
      /\ new.call = calls /\ new.data = d /\ new.page = p
  BY <1>1 DEF TypesOK
<1>4. tasks' = Left \cup {new} /\ d \notin hosted' /\ \A t \in Left : t.data # d
  OBVIOUS
<1>5. \A n : Launched(n) => n < calls
  BY DEF Launched
<1>6. \A n : (Launched(n) => Launched(n)') /\ (Begun(n)' <=> Begun(n))
  BY DEF Launched, Begun
<1>7. Launched(calls)'
  BY <1>1 DEF Launched
<1>8. \A x : Mine(x) => Mine(x)'
  BY <1>2, <1>3, <1>4 DEF Mine
<1>9. /\ queue' = [s \in Stream |-> queue'[s]]
      /\ queue'["compute"] = queue["compute"] \o InferenceEvent(calls)
      /\ queue'["gather"] = queue["gather"] \o GatherWork(calls, p)
      /\ queue'["offload"] = queue["offload"] \o OffloadWork(calls, d)
      /\ SameQueue("onload") /\ SameQueue("scatter")
  BY EnqueueLaunch
<1>10. /\ Ordered("compute", queue["compute"]) /\ Ordered("gather", queue["gather"])
       /\ Ordered("offload", queue["offload"]) /\ Ordered("onload", queue["onload"])
       /\ Ordered("scatter", queue["scatter"])
  BY <1>1, Unfolded DEF QueuesOrdered
<1>11. /\ queue'["compute"] \in Seq(ComputeItems) /\ Ordered("compute", queue'["compute"])
       /\ \A w : In(queue'["compute"], w) <=> In(queue["compute"], w) \/ w = Infer(calls)
  <2>1. /\ InferenceEvent(calls) \in Seq(ComputeItems) /\ Ordered("compute", InferenceEvent(calls))
        /\ \A w : In(InferenceEvent(calls), w) <=> w = Infer(calls)
    BY <1>1, InferIs
  <2>2. ASSUME NEW u, NEW v, In(queue["compute"], u), In(InferenceEvent(calls), v)
        PROVE  Before("compute", u, v)
    <3>1. v = Infer(calls)
      BY <2>1, <2>2
    <3>2. \A n \in Nat : u # Infer(n)
      BY <1>1, <2>2 DEF ComputeOK
    <3>3. ComputesBefore(u, v)
      BY <3>1, <3>2, ComputeNames DEF ComputesBefore
    <3> QED BY <3>3 DEF Before
  <2> QED BY ONLY <1>1, <1>9, <1>10, <2>1, <2>2, WorkJoins
<1>12. /\ queue'["gather"] \in Seq(GatherItems) /\ Ordered("gather", queue'["gather"])
       /\ \A w : In(queue'["gather"], w) <=>
             In(queue["gather"], w) \/ w = Begin(calls) \/ w = End(calls) \/ \E l \in Layer : w = Gather(calls, l, p)
  <2>1. /\ GatherWork(calls, p) \in Seq(GatherItems) /\ Ordered("gather", GatherWork(calls, p))
        /\ \A w : In(GatherWork(calls, p), w) <=> w = Begin(calls) \/ w = End(calls) \/ \E l \in Layer : w = Gather(calls, l, p)
    BY <1>1, GatherIs
  <2>2. ASSUME NEW u, NEW v, In(queue["gather"], u), In(GatherWork(calls, p), v)
        PROVE  Before("gather", u, v)
    <3>1. \A m, k : At(v, m, k) => m = calls
      BY <2>1, <2>2, OffNames DEF At
    <3>2. u \in GatherItems
      BY <1>1, <2>2, Pending
    <3>3. \A n \in Nat, l \in Int : At(u, n, l) => n < calls
      BY <1>1, <1>5, <2>2, <3>2 DEF GathersOK
    <3>4. GathersBefore(u, v)
      BY <3>1, <3>3 DEF GathersBefore, Earlier
    <3> QED BY <3>4 DEF Before
  <2>3. /\ queue["gather"] \o GatherWork(calls, p) \in Seq(GatherItems)
        /\ Ordered("gather", queue["gather"] \o GatherWork(calls, p))
        /\ \A w : In(queue["gather"] \o GatherWork(calls, p), w) <=> In(queue["gather"], w) \/ In(GatherWork(calls, p), w)
    BY ONLY <1>1, <1>10, <2>1, <2>2, WorkJoins
  <2> QED BY ONLY <1>9, <2>1, <2>3
<1>13. /\ queue'["offload"] \in Seq(OffloadItems) /\ Ordered("offload", queue'["offload"])
       /\ \A w : In(queue'["offload"], w) <=> In(queue["offload"], w) \/ \E l \in Layer : w = Send(calls, l, d)
  <2>1. /\ OffloadWork(calls, d) \in Seq(OffloadItems) /\ Ordered("offload", OffloadWork(calls, d))
        /\ \A w : In(OffloadWork(calls, d), w) <=> \E l \in Layer : w = Send(calls, l, d)
    BY <1>1, <1>3, OffloadIs
  <2>2. ASSUME NEW u, NEW v, In(queue["offload"], u), In(OffloadWork(calls, d), v)
        PROVE  Before("offload", u, v)
    <3>1. PICK k \in Layer : v = Send(calls, k, d)
      BY <2>1, <2>2
    <3>2. ASSUME NEW n \in Nat, NEW l \in Layer, NEW e \in Data, u = Send(n, l, e) PROVE n < calls
      <4>1. \E t \in tasks : t.call = n
        BY <1>1, <2>2, <3>2 DEF SendsOK
      <4> QED BY <1>1, <1>5, <4>1 DEF TasksOK
    <3>3. SendsBefore(u, v)
      <4> SUFFICES ASSUME NEW n \in Nat, NEW m \in Nat, NEW l \in Layer, NEW j \in Layer, NEW e \in Data,
                          NEW f \in Data, u = Send(n, l, e), v = Send(m, j, f)
                   PROVE  n < m
        BY DEF SendsBefore, Earlier
      <4>1. n < calls
        BY <3>2
      <4>2. Send(m, j, f) = Send(calls, k, d)
        BY <3>1
      <4>3. m = calls
        BY ONLY <4>2, OffNames
      <4> QED BY <4>1, <4>3
    <3> QED BY <3>3 DEF Before
  <2>3. /\ queue["offload"] \o OffloadWork(calls, d) \in Seq(OffloadItems)
        /\ Ordered("offload", queue["offload"] \o OffloadWork(calls, d))
        /\ \A w : In(queue["offload"] \o OffloadWork(calls, d), w) <=> In(queue["offload"], w) \/ In(OffloadWork(calls, d), w)
    BY ONLY <1>1, <1>10, <2>1, <2>2, WorkJoins
  <2> QED BY ONLY <1>9, <2>1, <2>3
<1> HIDE DEF new, d
<1>14. TypesOK'
  BY <1>1, <1>2, <1>3, <1>4, <1>9, <1>11, <1>12, <1>13 DEF TypesOK, SameQueue
<1>15. QueuesOrdered'
  BY <1>9, <1>10, <1>11, <1>12, <1>13 DEF QueuesOrdered, SameQueue, Stream
<1>16. HolderOK'
  BY <1>1 DEF HolderOK
<1>17. \A t \in Left : t.call # calls /\ t.call < calls
  BY <1>1, <1>2, <1>5 DEF TasksOK
<1>18. TasksOK'
  <2>1. (\A t \in tasks : Launched(t.call) /\ holder[t.page] = t.data /\ t.data \notin hosted)'
    BY <1>1, <1>2, <1>3, <1>4, <1>6, <1>7 DEF TasksOK, d
  <2>2. (\A t, u \in tasks : t.call = u.call \/ t.data = u.data => t = u)'
    BY <1>1, <1>2, <1>3, <1>4, <1>17 DEF TasksOK
  <2> QED BY <2>1, <2>2 DEF TasksOK
<1>19. EventsPast'
  BY <1>1, <1>6 DEF EventsPast
<1>20. LoadsOK'
  BY <1>1, <1>2, <1>9 DEF LoadsOK, SameQueue
<1>21. ScattersOK'
  <2>1. \A l, x, e : In(queue'["compute"], Hit(l, x, e)) => In(queue["compute"], Hit(l, x, e))
    BY <1>11, ComputeNames
  <2>2. \A w : In(queue["compute"], w) => In(queue'["compute"], w)
    BY <1>11
  <2> QED BY <1>1, <1>8, <1>9, <2>1, <2>2 DEF ScattersOK, SameQueue
<1>22. ComputeOK'
  <2>1. /\ \A l, x, e : In(queue'["compute"], Hit(l, x, e)) => In(queue["compute"], Hit(l, x, e))
        /\ \A l, x, e : In(queue'["compute"], Put(l, x, e)) => In(queue["compute"], Put(l, x, e))
        /\ \A n, l, x, e : In(queue'["compute"], Att(n, l, x, e)) => In(queue["compute"], Att(n, l, x, e))
    BY <1>11, ComputeNames
  <2>2. \A n \in Nat : In(queue'["compute"], Infer(n)) => n = calls
    BY <1>1, <1>11, ComputeNames DEF ComputeOK
  <2>3. Inferred(calls) \notin events
    BY <1>1, <1>5 DEF EventsPast
  <2>4. (\A l \in Layer, x \in Page, e \in Data :
          /\ In(queue["compute"], Hit(l, x, e)) => holder[x] = e
          /\ In(queue["compute"], Put(l, x, e)) => holder[x] = e /\ Mine(x))'
    BY <1>1, <1>8, <2>1 DEF ComputeOK
  <2>5. (\A n \in Nat, l \in Layer, x \in Page, e \in Data :
          In(queue["compute"], Att(n, l, x, e)) => holder[x] = e /\ n = calls)'
    BY <1>1, <2>1 DEF ComputeOK
  <2> QED BY <2>2, <2>3, <2>4, <2>5 DEF ComputeOK
<1>23. PagesOK'
  BY <1>1, <1>9, <1>11 DEF PagesOK, SameQueue
<1>24. GathersOK'
  <2>1. ASSUME NEW n \in Nat, NEW l \in Layer, NEW x \in Page, In(queue'["gather"], Gather(n, l, x))
        PROVE  (/\ \E t \in tasks : t.call = n /\ t.page = x
                /\ In(queue["gather"], Begin(n)) \/ Inferred(n) \in events
                /\ \A m \in Nat, k \in Layer : Gathered(m, k) \in events => Earlier(m, k, n, l))'
    <3>1. CASE In(queue["gather"], Gather(n, l, x))
      <4>1. \E t \in Left : t.call = n /\ t.page = x
        BY <3>1, Settled
      <4>2. /\ In(queue["gather"], Begin(n)) \/ Inferred(n) \in events
            /\ \A m \in Nat, k \in Layer : Gathered(m, k) \in events => Earlier(m, k, n, l)
        BY <1>1, <3>1 DEF GathersOK
      <4> QED BY <1>4, <1>12, <4>1, <4>2
    <3>2. CASE n = calls /\ x = p
      <4>1. \A m \in Nat, k \in Layer : Gathered(m, k) \in events => Earlier(m, k, n, l)
        BY <1>1, <1>5, <3>2 DEF EventsPast, Earlier
      <4>2. In(queue'["gather"], Begin(n))
        BY <1>12, <3>2
      <4> QED BY <1>3, <1>4, <3>2, <4>1, <4>2
    <3> QED BY <1>12, <2>1, <3>1, <3>2, OffNames
  <2>2. ASSUME NEW n \in Nat, NEW k \in Int, NEW w \in GatherItems, In(queue'["gather"], w), At(w, n, k)
        PROVE  Launched(n)'
    <3>1. CASE In(queue["gather"], w)
      BY <1>1, <1>6, <2>2, <3>1 DEF GathersOK
    <3>2. CASE ~In(queue["gather"], w)
      <4>1. n = calls
        BY <1>12, <2>2, <3>2, OffNames DEF At
      <4> QED BY <1>7, <4>1
    <3> QED BY <3>1, <3>2
  <2> QED BY <2>1, <2>2 DEF GathersOK
<1>25. SendsOK'
  <2> SUFFICES ASSUME NEW m \in Nat, NEW k \in Layer, NEW e \in Data, In(queue'["offload"], Send(m, k, e))
               PROVE  (/\ \E u \in tasks : u.call = m /\ u.data = e
                       /\ In(queue["gather"], End(m))
                       /\ \A i \in Nat, j \in Layer : Sent(i, j) \in events => Earlier(i, j, m, k)
                       /\ Gathered(m, k) \in events => mem[OffBuf(k)] = KV(e, k))'
    BY DEF SendsOK
  <2>1. CASE In(queue["offload"], Send(m, k, e))
    <3>1. \E t \in Left : t.call = m /\ t.data = e
      BY <2>1, Settled
    <3>2. /\ In(queue["gather"], End(m))
          /\ \A i \in Nat, j \in Layer : Sent(i, j) \in events => Earlier(i, j, m, k)
          /\ Gathered(m, k) \in events => mem[OffBuf(k)] = KV(e, k)
      BY <1>1, <2>1 DEF SendsOK
    <3> QED BY <1>4, <1>12, <3>1, <3>2
  <2>2. CASE m = calls /\ e = d
    <3>1. \A i \in Nat, j \in Layer : Sent(i, j) \in events => Earlier(i, j, m, k)
      BY <1>1, <1>5, <2>2 DEF EventsPast, Earlier
    <3>2. Gathered(m, k) \notin events
      BY <1>1, <1>5, <2>2 DEF EventsPast
    <3>3. In(queue'["gather"], End(m))
      BY <1>12, <2>2
    <3> QED BY <1>3, <1>4, <2>2, <3>1, <3>2, <3>3
  <2> QED BY <1>13, <2>1, <2>2, OffNames
<1>26. SentOK'
  <2>1. (\A i \in Nat, j \in Layer : Sent(i, j) \in events => Gathered(i, j) \in events)'
    BY <1>1 DEF SentOK
  <2>2. ASSUME NEW u \in Left, NEW j \in Layer
        PROVE  (/\ Sent(u.call, j) \in events => mem[Host(u.data, j)] = KV(u.data, j)
                /\ Sent(u.call, j) \in events \/ In(queue["offload"], Send(u.call, j, u.data)))'
    BY <1>1, <1>2, <1>13 DEF SentOK
  <2>3. ASSUME NEW j \in Layer
        PROVE  /\ Sent(calls, j) \notin events
               /\ In(queue'["offload"], Send(calls, j, d))
    BY <1>1, <1>5, <1>13 DEF EventsPast
  <2> QED BY <1>3, <1>4, <2>1, <2>2, <2>3 DEF SentOK
<1> QED BY <1>2, <1>14, <1>15, <1>16, <1>18, <1>19, <1>20, <1>21, <1>22, <1>23, <1>24, <1>25, <1>26 DEF PipeInv

-----------------------------------------------------------------------------
(* A forward pass begins.                                                  *)

\* What a pass enqueues on the compute stream, ...
LEMMA EnqueueCompute ==
  ASSUME NEW a, Enqueue([compute |-> a])
  PROVE  /\ queue' = [s \in Stream |-> queue'[s]]
         /\ queue'["compute"] = queue["compute"] \o a
         /\ SameQueue("onload") /\ SameQueue("scatter") /\ SameQueue("gather") /\ SameQueue("offload")
BY DEF Enqueue, Stream, SameQueue

\* ... and with an onload.
LEMMA EnqueueOnload ==
  ASSUME NEW a, NEW b, NEW c, Enqueue([onload |-> a, scatter |-> b, compute |-> c])
  PROVE  /\ queue' = [s \in Stream |-> queue'[s]]
         /\ queue'["onload"] = queue["onload"] \o a /\ queue'["scatter"] = queue["scatter"] \o b
         /\ queue'["compute"] = queue["compute"] \o c
         /\ SameQueue("gather") /\ SameQueue("offload")
BY DEF Enqueue, Stream, SameQueue

\* When the compute stream is idle, so is the onload of the pass before: its
\* attention waited for every layer.
LEMMA Quiet ==
  ASSUME PipeInv, queue["compute"] = <<>>
  PROVE  /\ \A w : ~In(queue["compute"], w)
         /\ \A n \in Nat, l \in Layer, p \in Page : ~In(queue["scatter"], Scatter(n, l, p))
         /\ \A n \in Nat, l \in Layer, d \in Data : ~In(queue["onload"], Load(n, l, d))
         /\ \A l \in Layer, p \in Page : holder[p] # "none" => mem[Gpu(p, l)] = KV(holder[p], l)
<1>1. LoadsOK /\ ScattersOK /\ PagesOK /\ calls \in Nat
  BY Unfolded
<1>2. \A w : ~In(queue["compute"], w)
  BY Idle
<1>3. \A n \in Nat, l \in Layer, p \in Page : ~In(queue["scatter"], Scatter(n, l, p))
  BY <1>1, <1>2 DEF ScattersOK
<1>4. \A n \in Nat, l \in Layer, d \in Data : ~In(queue["onload"], Load(n, l, d))
  BY <1>1, <1>3 DEF LoadsOK
<1>5. \A l \in Layer, p \in Page : holder[p] # "none" => mem[Gpu(p, l)] = KV(holder[p], l)
  BY <1>1, <1>2, <1>3 DEF PagesOK
<1> QED BY <1>2, <1>3, <1>4, <1>5

\* The page table and the offloads when a pass begins.
LEMMA ForwardTable ==
  ASSUME PipeInv, NEW d \in Data, NEW p \in Page, Forward(d, p),
         holder[p] = d \/ (p \notin Locked /\ ~OnGpu(d)),
         SameQueue("gather"), SameQueue("offload")
  PROVE  /\ HolderOK' /\ TasksOK' /\ EventsPast' /\ HostedIsComplete' /\ GathersOK' /\ SendsOK' /\ SentOK'
         /\ holder' \in [Page -> Data \cup {"none"}] /\ holder'[p] = d /\ \A x \in Page : x # p => holder'[x] = holder[x]
         /\ calls' = calls + 1 /\ calls' \in Nat /\ predicted' = d /\ UNCHANGED <<mem, events, tasks, hosted>>
         /\ queue["compute"] = <<>>
         /\ Inferred(calls') \notin events'
         /\ \A l \in Layer : Loaded(calls', l) \notin events' /\ Compl(calls', l) \notin events'
<1>1. /\ TypesOK /\ HolderOK /\ TasksOK /\ EventsPast /\ HostedIsComplete /\ GathersOK /\ SendsOK /\ SentOK
      /\ calls \in Nat /\ tasks \subseteq [call : Nat, data : Data, page : Page]
  BY Unfolded
<1>2. /\ calls' = calls + 1 /\ calls' \in Nat /\ predicted = "none" /\ predicted' = d
      /\ UNCHANGED <<mem, events, tasks, hosted>> /\ queue["compute"] = <<>>
      /\ holder' = [holder EXCEPT ![p] = d]
  BY <1>1 DEF Forward, HostStarts
<1>3. d # "none"
  BY PipelineAssumption
<1>4. holder \in [Page -> Data \cup {"none"}]
  BY <1>1 DEF TypesOK
<1>5. /\ holder' \in [Page -> Data \cup {"none"}] /\ holder'[p] = d
      /\ \A x \in Page : x # p => holder'[x] = holder[x]
  BY <1>2, <1>4
<1>6. \A n \in Nat : (Launched(n)' <=> Launched(n)) /\ (Begun(n) => Begun(n)')
  BY <1>1, <1>2, <1>3 DEF Launched, Begun
<1>7. ~Begun(calls') /\ ~Launched(calls')
  BY <1>1, <1>2 DEF Begun, Launched
<1>8. HolderOK'
  <2>1. \A x \in Page : x # p => holder[x] # d
    BY <1>1, <1>3 DEF HolderOK, OnGpu
  <2> QED BY <1>1, <1>2, <1>5, <2>1 DEF HolderOK
<1>9. TasksOK'
  <2>1. \A t \in tasks : t.call \in Nat /\ t.page \in Page /\ holder[t.page] = t.data
    BY <1>1 DEF TasksOK
  <2>2. \A t \in tasks : holder'[t.page] = t.data
    BY <1>5, <2>1 DEF Locked
  <2> QED BY <1>1, <1>2, <1>6, <2>1, <2>2 DEF TasksOK
<1>10. EventsPast'
  BY <1>1, <1>2, <1>6 DEF EventsPast
<1>11. HostedIsComplete'
  BY <1>1, <1>2 DEF HostedIsComplete
<1>12. GathersOK'
  BY <1>1, <1>2, <1>6 DEF GathersOK, SameQueue
<1>13. SendsOK'
  BY <1>1, <1>2 DEF SendsOK, SameQueue
<1>14. SentOK'
  BY <1>1, <1>2 DEF SentOK, SameQueue
<1>15. /\ Inferred(calls') \notin events'
       /\ \A l \in Layer : Loaded(calls', l) \notin events' /\ Compl(calls', l) \notin events'
  BY <1>1, <1>2, <1>7 DEF EventsPast
<1> QED BY <1>2, <1>5, <1>8, <1>9, <1>10, <1>11, <1>12, <1>13, <1>14, <1>15

\* A queue that was idle holds what was enqueued.
LEMMA Alone ==
  ASSUME NEW X, NEW r \in Seq(X)
  PROVE  <<>> \o r = r
OBVIOUS

\* The history is in the page.
LEMMA GpuHitStep ==
  ASSUME PipeInv, NEW d \in Data, NEW p \in Page, GpuHit(d, p)
  PROVE  PipeInv'
<1> DEFINE work == Attend(calls', d, p, FALSE)
<1>1. holder[p] = d /\ Forward(d, p) /\ Enqueue([compute |-> work])
  BY DEF GpuHit
<1> HIDE DEF work
<1>2. /\ queue' = [s \in Stream |-> queue'[s]]
      /\ queue'["compute"] = queue["compute"] \o work
      /\ SameQueue("onload") /\ SameQueue("scatter") /\ SameQueue("gather") /\ SameQueue("offload")
  BY ONLY <1>1, EnqueueCompute
<1>3. /\ HolderOK' /\ TasksOK' /\ EventsPast' /\ HostedIsComplete' /\ GathersOK' /\ SendsOK' /\ SentOK'
      /\ holder' \in [Page -> Data \cup {"none"}] /\ holder'[p] = d /\ \A x \in Page : x # p => holder'[x] = holder[x]
      /\ calls' \in Nat /\ predicted' = d /\ UNCHANGED <<mem, events, tasks, hosted>>
      /\ queue["compute"] = <<>> /\ Inferred(calls') \notin events'
  BY <1>1, <1>2, ForwardTable
<1>4. /\ \A n \in Nat, l \in Layer, x \in Page : ~In(queue["scatter"], Scatter(n, l, x))
      /\ \A n \in Nat, l \in Layer, e \in Data : ~In(queue["onload"], Load(n, l, e))
      /\ \A l \in Layer, x \in Page : holder[x] # "none" => mem[Gpu(x, l)] = KV(holder[x], l)
  BY <1>3, Quiet
<1>5. /\ work \in Seq(ComputeItems) /\ Ordered("compute", work)
      /\ \A w : In(work, w) <=> \E l \in Layer : w = Hit(l, p, d)
  BY <1>3, HitIs DEF work
<1>6. queue'["compute"] = work
  BY <1>2, <1>3, <1>5, Alone
<1>7. TypesOK'
  BY <1>2, <1>3, <1>5, <1>6, Unfolded DEF TypesOK, SameQueue
<1>8. QueuesOrdered'
  BY <1>2, <1>5, <1>6, Unfolded DEF QueuesOrdered, SameQueue, Stream
<1>9. LoadsOK'
  BY <1>2, <1>4 DEF LoadsOK, SameQueue
<1>10. ScattersOK'
  BY <1>2, <1>4 DEF ScattersOK, SameQueue
<1>11. ComputeOK'
  <2>1. \A l, x, e : In(work, Hit(l, x, e)) => x = p /\ e = d
    BY <1>5, ComputeNames
  <2>2. /\ \A l, x, e : ~In(work, Put(l, x, e))
        /\ \A n, l, x, e : ~In(work, Att(n, l, x, e))
        /\ \A n : ~In(work, Infer(n))
    BY <1>5, ComputeNames
  <2> QED BY <1>3, <1>6, <2>1, <2>2 DEF ComputeOK
<1>12. PagesOK'
  BY <1>1, <1>3, <1>4 DEF PagesOK
<1> QED BY <1>3, <1>7, <1>8, <1>9, <1>10, <1>11, <1>12 DEF PipeInv

\* The history is nowhere.
LEMMA ComputeStep ==
  ASSUME PipeInv, NEW d \in Data, NEW p \in Page, Compute(d, p)
  PROVE  PipeInv'
<1> DEFINE work == AppendAndAttend(d, p)
<1>1. p \notin Locked /\ ~OnGpu(d) /\ Forward(d, p) /\ Enqueue([compute |-> work])
  BY DEF Compute
<1> HIDE DEF work
<1>2. /\ queue' = [s \in Stream |-> queue'[s]]
      /\ queue'["compute"] = queue["compute"] \o work
      /\ SameQueue("onload") /\ SameQueue("scatter") /\ SameQueue("gather") /\ SameQueue("offload")
  BY ONLY <1>1, EnqueueCompute
<1>3. /\ HolderOK' /\ TasksOK' /\ EventsPast' /\ HostedIsComplete' /\ GathersOK' /\ SendsOK' /\ SentOK'
      /\ holder' \in [Page -> Data \cup {"none"}] /\ holder'[p] = d /\ \A x \in Page : x # p => holder'[x] = holder[x]
      /\ calls' \in Nat /\ predicted' = d /\ UNCHANGED <<mem, events, tasks, hosted>>
      /\ queue["compute"] = <<>> /\ Inferred(calls') \notin events'
  BY <1>1, <1>2, ForwardTable
<1>4. /\ \A n \in Nat, l \in Layer, x \in Page : ~In(queue["scatter"], Scatter(n, l, x))
      /\ \A n \in Nat, l \in Layer, e \in Data : ~In(queue["onload"], Load(n, l, e))
      /\ \A l \in Layer, x \in Page : holder[x] # "none" => mem[Gpu(x, l)] = KV(holder[x], l)
  BY <1>3, Quiet
<1>5. /\ work \in Seq(ComputeItems) /\ Ordered("compute", work)
      /\ \A w : In(work, w) <=> \E l \in Layer : w = Put(l, p, d) \/ w = Hit(l, p, d)
  BY <1>3, PutIs DEF work
<1>6. queue'["compute"] = work
  BY <1>2, <1>3, <1>5, Alone
<1>7. TypesOK'
  BY <1>2, <1>3, <1>5, <1>6, Unfolded DEF TypesOK, SameQueue
<1>8. QueuesOrdered'
  BY <1>2, <1>5, <1>6, Unfolded DEF QueuesOrdered, SameQueue, Stream
<1>9. LoadsOK'
  BY <1>2, <1>4 DEF LoadsOK, SameQueue
<1>10. ScattersOK'
  BY <1>2, <1>4 DEF ScattersOK, SameQueue
<1>11. ComputeOK'
  <2>1. /\ \A l, x, e : In(work, Hit(l, x, e)) => x = p /\ e = d
        /\ \A l, x, e : In(work, Put(l, x, e)) => x = p /\ e = d
    BY <1>5, ComputeNames
  <2>2. /\ \A n, l, x, e : ~In(work, Att(n, l, x, e))
        /\ \A n : ~In(work, Infer(n))
    BY <1>5, ComputeNames
  <2>3. Mine(p)'
    BY <1>1, <1>3 DEF Mine, Locked
  <2> QED BY <1>3, <1>6, <2>1, <2>2, <2>3 DEF ComputeOK
<1>12. PagesOK'
  <2> SUFFICES ASSUME NEW l \in Layer, NEW x \in Page, holder'[x] # "none"
               PROVE  mem'[Gpu(x, l)] = KV(holder'[x], l) \/ In(queue'["compute"], Put(l, x, holder'[x]))
    BY DEF PagesOK
  <2>1. CASE x = p
    BY <1>3, <1>5, <1>6, <2>1
  <2>2. CASE x # p
    BY <1>3, <1>4, <2>2
  <2> QED BY <2>1, <2>2
<1> QED BY <1>3, <1>7, <1>8, <1>9, <1>10, <1>11, <1>12 DEF PipeInv

\* The history is on the host.
LEMMA OnboardStep ==
  ASSUME PipeInv, NEW d \in Data, NEW p \in Page, Onboard(d, p)
  PROVE  PipeInv'
<1> DEFINE n == calls'
           load == OnloadWork(n, d)
           scat == ScatterWork(n, p)
           work == Attend(n, d, p, TRUE)
<1>1. /\ p \notin Locked /\ ~OnGpu(d) /\ d \in hosted /\ Forward(d, p)
      /\ Enqueue([onload |-> load, scatter |-> scat, compute |-> work])
  BY DEF Onboard
<1> HIDE DEF load, scat, work
<1>2. /\ queue' = [s \in Stream |-> queue'[s]]
      /\ queue'["onload"] = queue["onload"] \o load /\ queue'["scatter"] = queue["scatter"] \o scat
      /\ queue'["compute"] = queue["compute"] \o work
      /\ SameQueue("gather") /\ SameQueue("offload")
  BY ONLY <1>1, EnqueueOnload
<1>3. /\ HolderOK' /\ TasksOK' /\ EventsPast' /\ HostedIsComplete' /\ GathersOK' /\ SendsOK' /\ SentOK'
      /\ holder' \in [Page -> Data \cup {"none"}] /\ holder'[p] = d /\ \A x \in Page : x # p => holder'[x] = holder[x]
      /\ n \in Nat /\ predicted' = d /\ UNCHANGED <<mem, events, tasks, hosted>>
      /\ queue["compute"] = <<>> /\ Inferred(n) \notin events'
      /\ \A l \in Layer : Loaded(n, l) \notin events' /\ Compl(n, l) \notin events'
  BY <1>1, <1>2, ForwardTable
<1>4. /\ \A m \in Nat, l \in Layer, x \in Page : ~In(queue["scatter"], Scatter(m, l, x))
      /\ \A m \in Nat, l \in Layer, e \in Data : ~In(queue["onload"], Load(m, l, e))
      /\ \A l \in Layer, x \in Page : holder[x] # "none" => mem[Gpu(x, l)] = KV(holder[x], l)
  BY <1>3, Quiet
<1>5. /\ work \in Seq(ComputeItems) /\ Ordered("compute", work)
      /\ \A w : In(work, w) <=> \E l \in Layer : w = Att(n, l, p, d)
  BY <1>3, AttIs DEF work
<1>6. queue'["compute"] = work
  BY <1>2, <1>3, <1>5, Alone
<1>7. /\ queue["onload"] \in Seq(OnloadItems) /\ queue["scatter"] \in Seq(ScatterItems)
      /\ Ordered("onload", queue["onload"]) /\ Ordered("scatter", queue["scatter"])
  BY Unfolded DEF QueuesOrdered
<1>8. /\ queue'["onload"] \in Seq(OnloadItems) /\ Ordered("onload", queue'["onload"])
      /\ \A w : In(queue'["onload"], w) <=>
            In(queue["onload"], w) \/ w = LoadEnd(n) \/ \E l \in Layer : w = Load(n, l, d)
  <2>1. /\ load \in Seq(OnloadItems) /\ Ordered("onload", load)
        /\ \A w : In(load, w) <=> w = LoadEnd(n) \/ \E l \in Layer : w = Load(n, l, d)
    BY <1>3, OnloadIs DEF load
  <2>2. \A u, v : In(queue["onload"], u) /\ In(load, v) => Before("onload", u, v)
    BY <1>4 DEF Before, LoadsBefore
  <2>3. /\ queue["onload"] \o load \in Seq(OnloadItems) /\ Ordered("onload", queue["onload"] \o load)
        /\ \A w : In(queue["onload"] \o load, w) <=> In(queue["onload"], w) \/ In(load, w)
    BY ONLY <1>7, <2>1, <2>2, WorkJoins
  <2> QED BY ONLY <1>2, <2>1, <2>3
<1>9. /\ queue'["scatter"] \in Seq(ScatterItems) /\ Ordered("scatter", queue'["scatter"])
      /\ \A w : In(queue'["scatter"], w) <=> In(queue["scatter"], w) \/ \E l \in Layer : w = Scatter(n, l, p)
  <2>1. /\ scat \in Seq(ScatterItems) /\ Ordered("scatter", scat)
        /\ \A w : In(scat, w) <=> \E l \in Layer : w = Scatter(n, l, p)
    BY <1>3, ScatterIs DEF scat
  <2>2. \A u, v : In(queue["scatter"], u) /\ In(scat, v) => Before("scatter", u, v)
    BY <1>4 DEF Before, ScattersBefore
  <2>3. /\ queue["scatter"] \o scat \in Seq(ScatterItems) /\ Ordered("scatter", queue["scatter"] \o scat)
        /\ \A w : In(queue["scatter"] \o scat, w) <=> In(queue["scatter"], w) \/ In(scat, w)
    BY ONLY <1>7, <2>1, <2>2, WorkJoins
  <2> QED BY ONLY <1>2, <2>1, <2>3
<1>10. TypesOK'
  BY <1>2, <1>3, <1>5, <1>6, <1>8, <1>9, Unfolded DEF TypesOK, SameQueue
<1>11. QueuesOrdered'
  BY <1>2, <1>5, <1>6, <1>8, <1>9, Unfolded DEF QueuesOrdered, SameQueue, Stream
<1>12. /\ \A m \in Nat, l \in Layer, e \in Data : In(queue'["onload"], Load(m, l, e)) => m = n /\ e = d
       /\ \A m \in Nat, l \in Layer, x \in Page : In(queue'["scatter"], Scatter(m, l, x)) => m = n /\ x = p
       /\ \A l \in Layer : In(queue'["scatter"], Scatter(n, l, p)) /\ In(queue'["compute"], Att(n, l, p, d))
  BY <1>4, <1>5, <1>6, <1>8, <1>9, OnNames
<1>13. /\ \A l, x, e : ~In(work, Put(l, x, e)) /\ ~In(work, Hit(l, x, e))
       /\ \A m, l, x, e : In(work, Att(m, l, x, e)) => m = n /\ x = p /\ e = d
       /\ \A m : ~In(work, Infer(m))
  BY <1>5, ComputeNames
<1>14. LoadsOK'
  <2> SUFFICES ASSUME NEW m \in Nat, NEW l \in Layer, NEW e \in Data, In(queue'["onload"], Load(m, l, e))
               PROVE  /\ m = n /\ e \in hosted'
                      /\ \E x \in Page : In(queue'["scatter"], Scatter(m, l, x))
                      /\ \A k \in Layer, x \in Page : In(queue'["scatter"], Scatter(m, k, x)) => holder'[x] = e
                      /\ \A k \in Layer : Loaded(m, k) \in events' => k < l
    BY DEF LoadsOK
  <2> QED BY <1>1, <1>3, <1>12
<1>15. ScattersOK'
  <2> SUFFICES ASSUME NEW m \in Nat, NEW l \in Layer, NEW x \in Page, In(queue'["scatter"], Scatter(m, l, x))
               PROVE  /\ m = n /\ holder'[x] \in Data /\ Mine(x)'
                      /\ \A k \in Layer : Compl(m, k) \in events' => k < l
                      /\ Loaded(m, l) \in events' => mem'[OnBuf(l)] = KV(holder'[x], l)
                      /\ In(queue'["compute"], Att(m, l, x, holder'[x]))
                      /\ \A e \in Data : ~In(queue'["compute"], Hit(l, x, e))
    BY DEF ScattersOK
  <2>1. m = n /\ x = p
    BY <1>12
  <2>2. Mine(p)'
    BY <1>1, <1>3 DEF Mine, Locked
  <2> QED BY <1>3, <1>6, <1>12, <1>13, <2>1, <2>2
<1>16. ComputeOK'
  BY <1>3, <1>6, <1>13 DEF ComputeOK
<1>17. PagesOK'
  <2> SUFFICES ASSUME NEW l \in Layer, NEW x \in Page, holder'[x] # "none"
               PROVE  mem'[Gpu(x, l)] = KV(holder'[x], l) \/ In(queue'["scatter"], Scatter(n, l, x))
    BY DEF PagesOK
  <2>1. CASE x = p
    BY <1>12, <2>1
  <2>2. CASE x # p
    BY <1>3, <1>4, <2>2
  <2> QED BY <2>1, <2>2
<1> QED BY <1>3, <1>10, <1>11, <1>14, <1>15, <1>16, <1>17 DEF PipeInv

-----------------------------------------------------------------------------
(* The invariant.                                                          *)

\* The pipeline starts idle.
LEMMA PipeInit ==
  ASSUME Init
  PROVE  PipeInv
<1>1. /\ mem = [c \in Cell |-> <<>>] /\ queue = [s \in Stream |-> <<>>]
      /\ events = {} /\ tasks = {} /\ hosted = {} /\ holder = [p \in Page |-> "none"]
      /\ calls = 0 /\ predicted = "none"
  BY DEF Init
<1>2. /\ \A s \in Stream : queue[s] = <<>>
      /\ queue["onload"] = <<>> /\ queue["scatter"] = <<>> /\ queue["gather"] = <<>>
      /\ queue["offload"] = <<>> /\ queue["compute"] = <<>>
  BY <1>1 DEF Stream
<1>3. /\ \A w : ~In(queue["onload"], w) /\ ~In(queue["scatter"], w) /\ ~In(queue["gather"], w)
      /\ \A w : ~In(queue["offload"], w) /\ ~In(queue["compute"], w)
  BY <1>2, Idle
<1>4. mem = [c \in Cell |-> mem[c]] /\ queue = [s \in Stream |-> queue[s]]
      /\ holder \in [Page -> Data \cup {"none"}]
  BY <1>1
<1>5. TypesOK
  <2>1. /\ <<>> \in Seq(OnloadItems) /\ <<>> \in Seq(ScatterItems) /\ <<>> \in Seq(GatherItems)
        /\ <<>> \in Seq(OffloadItems) /\ <<>> \in Seq(ComputeItems)
    OBVIOUS
  <2>2. /\ tasks \subseteq [call : Nat, data : Data, page : Page] /\ hosted \subseteq Data
        /\ calls \in Nat /\ predicted \in Data \cup {"none"}
    BY <1>1
  <2> QED BY ONLY <1>2, <1>4, <2>1, <2>2 DEF TypesOK
<1>6. QueuesOrdered
  BY <1>2, Idle DEF QueuesOrdered
<1>7. HolderOK /\ TasksOK /\ EventsPast /\ HostedIsComplete
  BY <1>1 DEF HolderOK, TasksOK, EventsPast, HostedIsComplete
<1>8. LoadsOK /\ ScattersOK /\ GathersOK /\ SendsOK
  BY <1>3 DEF LoadsOK, ScattersOK, GathersOK, SendsOK
<1>9. ComputeOK /\ PagesOK /\ SentOK
  BY <1>1, <1>3 DEF ComputeOK, PagesOK, SentOK
<1> QED BY <1>5, <1>6, <1>7, <1>8, <1>9 DEF PipeInv

\* After the forward pass.
LEMMA TryWaitStep ==
  ASSUME PipeInv, TryWaitAndOffload
  PROVE  PipeInv'
<1> DEFINE d == predicted
           p == CHOOSE q \in Page : holder[q] = d
<1>1. /\ d # "none" /\ predicted' = "none" /\ Reap
      /\ IF d \in hosted' \/ \E t \in Left : t.data = d
         THEN tasks' = Left /\ UNCHANGED queue
         ELSE /\ tasks' = Left \cup {[call |-> calls, data |-> d, page |-> p]}
              /\ Enqueue([compute |-> InferenceEvent(calls), gather |-> GatherWork(calls, p),
                          offload |-> OffloadWork(calls, d)])
      /\ UNCHANGED <<mem, events, holder, calls>>
  BY DEF TryWaitAndOffload
<1>2. p \in Page /\ holder[p] = d
  BY <1>1, Unfolded DEF HolderOK
<1> HIDE DEF p
<1>3. CASE d \in hosted' \/ \E t \in Left : t.data = d
  <2>1. tasks' = Left /\ UNCHANGED <<mem, queue, events, holder, calls>>
    BY <1>1, <1>3
  <2> QED BY <1>1, <2>1, ReapStep
<1>4. CASE ~(d \in hosted' \/ \E t \in Left : t.data = d)
  <2>1. /\ d \notin hosted' /\ \A t \in Left : t.data # d
        /\ tasks' = Left \cup {[call |-> calls, data |-> d, page |-> p]}
        /\ Enqueue([compute |-> InferenceEvent(calls), gather |-> GatherWork(calls, p),
                    offload |-> OffloadWork(calls, d)])
    BY <1>1, <1>4
  <2> QED BY <1>1, <1>2, <2>1, LaunchStep
<1> QED BY <1>3, <1>4

\* No step of the host or of a stream breaks the invariant.
LEMMA PipeStep ==
  ASSUME PipeInv, [Next]_pipeVars
  PROVE  PipeInv'
<1>1. ASSUME NEW d \in Data, NEW p \in Page, GpuHit(d, p) PROVE PipeInv'
  BY <1>1, GpuHitStep
<1>2. ASSUME NEW d \in Data, NEW p \in Page, Onboard(d, p) PROVE PipeInv'
  BY <1>2, OnboardStep
<1>3. ASSUME NEW d \in Data, NEW p \in Page, Compute(d, p) PROVE PipeInv'
  BY <1>3, ComputeStep
<1>4. CASE TryWaitAndOffload
  BY <1>4, TryWaitStep
<1>5. CASE ReapCompleted
  <2>1. Reap /\ tasks' = Left /\ UNCHANGED <<mem, queue, events, holder, calls>> /\ predicted' = "none"
    BY <1>5 DEF ReapCompleted
  <2> QED BY <2>1, ReapStep
<1>6. ASSUME NEW s \in Stream, Run(s) PROVE PipeInv'
  <2>1. s \in {"compute", "onload", "scatter", "gather", "offload"}
    BY DEF Stream
  <2> QED BY <1>6, <2>1, OnloadRuns, ScatterRuns, ComputeRuns, GatherRuns, OffloadRuns
<1>7. CASE UNCHANGED pipeVars
  <2>1. /\ SameTable /\ SameLoaded /\ SameCompl /\ SameGathered /\ SameSent /\ SameInferred
        /\ SameGpu /\ SameHost /\ SameOnBuf /\ SameOffBuf /\ \A s \in Stream : SameQueue(s)
    BY <1>7 DEF pipeVars, SameTable, SameLoaded, SameCompl, SameGathered, SameSent, SameInferred,
                SameGpu, SameHost, SameOnBuf, SameOffBuf, SameQueue
  <2>2. TypesOK' /\ QueuesOrdered'
    BY <1>7, Unfolded DEF pipeVars, TypesOK, QueuesOrdered
  <2> QED BY <2>1, <2>2, Unfolded, KeepTable, KeepEvents, KeepLoads, KeepScatters, KeepCompute, KeepPages,
             KeepHosted, KeepGathers, KeepSends, KeepSent DEF PipeInv
<1> QED BY <1>1, <1>2, <1>3, <1>4, <1>5, <1>6, <1>7 DEF Next

\* For every number of layers, pages, histories and forward passes, and for
\* every interleaving of the five streams with the host: what is pending on the
\* streams, the events that have happened and the contents of the buffers,
\* pages and pinned memory agree.
THEOREM PipelineInvariant == Spec => []PipeInv
<1>1. Init => PipeInv
  BY PipeInit
<1>2. PipeInv /\ [Next]_pipeVars => PipeInv'
  BY PipeStep
<1> QED BY <1>1, <1>2, PTL DEF Spec

\* What attention reads: nothing that is still to be written by an append
\* behind it, nor by a scatter it waits for.
LEMMA ReadsOwn ==
  ASSUME PipeInv
  PROVE  AttendsOwnLayer
<1> DEFINE q == queue["compute"]
           w == Head(q)
<1> SUFFICES ASSUME q # <<>>, w.kind = "read", w.after \subseteq events PROVE mem[w.a] = w.b
  BY DEF AttendsOwnLayer
<1>1. TypesOK /\ ScattersOK /\ ComputeOK /\ PagesOK /\ calls \in Nat
  BY Unfolded
<1>2. q \in Seq(ComputeItems) /\ Ordered("compute", q)
  BY Unfolded DEF QueuesOrdered
<1>3. /\ w \in ComputeItems /\ \A v : In(q, v) <=> v = w \/ In(Tail(q), v)
      /\ \A v : In(Tail(q), v) => Before("compute", w, v)
  <2> HIDE DEF q
  <2> QED BY <1>2, HeadRuns
<1>4. In(q, w)
  BY <1>3
<1>5. ASSUME NEW l \in Layer, NEW p \in Page, NEW d \in Data, holder[p] = d,
             w = Hit(l, p, d) \/ \E n \in Nat : w = Att(n, l, p, d),
             ~In(queue["scatter"], Scatter(calls, l, p))
      PROVE  mem[Gpu(p, l)] = KV(d, l)
  <2>1. d # "none"
    BY PipelineAssumption
  <2>2. Put(l, p, d) # w
    BY <1>5, ComputeNames
  <2>3. ~In(Tail(q), Put(l, p, d))
    BY <1>3, <1>5 DEF Before, ComputesBefore
  <2>4. ~In(q, Put(l, p, d))
    BY <1>3, <2>2, <2>3
  <2> QED BY <1>1, <1>5, <2>1, <2>4 DEF PagesOK
<1>6. ASSUME NEW l \in Layer, NEW p \in Page, NEW d \in Data, w = Hit(l, p, d)
      PROVE  mem[w.a] = w.b
  <2>1. w.a = Gpu(p, l) /\ w.b = KV(d, l)
    BY <1>6 DEF Hit, Read
  <2>2. holder[p] = d
    BY <1>1, <1>4, <1>6 DEF ComputeOK
  <2>3. ~In(queue["scatter"], Scatter(calls, l, p))
    BY <1>1, <1>4, <1>6 DEF ScattersOK
  <2> QED BY <1>5, <1>6, <2>1, <2>2, <2>3
<1>7. ASSUME NEW n \in Nat, NEW l \in Layer, NEW p \in Page, NEW d \in Data, w = Att(n, l, p, d)
      PROVE  mem[w.a] = w.b
  <2>1. w.a = Gpu(p, l) /\ w.b = KV(d, l) /\ w.after = {Compl(n, l)}
    BY <1>7 DEF Att, Read
  <2>2. holder[p] = d /\ n = calls
    BY <1>1, <1>4, <1>7 DEF ComputeOK
  <2>3. ~In(queue["scatter"], Scatter(calls, l, p))
    <3> SUFFICES ASSUME In(queue["scatter"], Scatter(calls, l, p)) PROVE FALSE
      OBVIOUS
    <3>1. l < l
      BY <1>1, <2>1, <2>2 DEF ScattersOK
    <3> QED BY <3>1, Layers
  <2> QED BY <1>5, <1>7, <2>1, <2>2, <2>3
<1>8. \A l \in Layer, p \in Page, d \in Data : w # Put(l, p, d)
  BY DEF Put, Write
<1>9. \A n \in Nat : w # Infer(n)
  BY DEF Infer, Wait
<1>10. \/ \E l \in Layer, p \in Page, d \in Data : w = Hit(l, p, d)
       \/ \E n \in Nat, l \in Layer, p \in Page, d \in Data : w = Att(n, l, p, d)
  BY <1>3, <1>8, <1>9 DEF ComputeItems
<1> HIDE DEF w
<1> QED BY <1>6, <1>7, <1>10

\* Attention on a layer, whenever the device may run it, finds that layer of its
\* own history in its page: two onload buffers, the loaded and complete events
\* and the blocking read at the start of a pass are enough.
THEOREM OwnLayerAttended == Spec => []AttendsOwnLayer
BY PipelineInvariant, ReadsOwn, PTL

\* A history the host lookup knows is in the pinned memory with all its layers,
\* and stays so while later offloads use the same two buffers.
THEOREM HostedComplete == Spec => []HostedIsComplete
<1>1. PipeInv => HostedIsComplete
  BY DEF PipeInv
<1> QED BY <1>1, PipelineInvariant, PTL

\* A page that offload_try_wait has unlocked is not read by a pending gather.
THEOREM GathersFromLockedPages == Spec => []NoGatherFromFreePages
<1>1. ASSUME PipeInv PROVE NoGatherFromFreePages
  <2> DEFINE q == queue["gather"]
  <2> SUFFICES ASSUME NEW i \in DOMAIN q, q[i].kind = "copy"
               PROVE  \E t \in tasks, l \in Layer : q[i].a = Gpu(t.page, l)
    BY DEF NoGatherFromFreePages
  <2>1. q \in Seq(GatherItems) /\ GathersOK
    BY <1>1, Unfolded
  <2>2. i \in 1..Len(q) /\ q[i] \in GatherItems
    BY <2>1
  <2>3. In(q, q[i])
    BY <2>2 DEF In
  <2>4. PICK n \in Nat, l \in Layer, p \in Page : q[i] = Gather(n, l, p)
    BY <2>2 DEF GatherItems, Begin, End, Wait
  <2>5. PICK t \in tasks : t.page = p
    BY <2>1, <2>3, <2>4 DEF GathersOK
  <2>6. q[i].a = Gpu(p, l)
    BY <2>4 DEF Gather, Copy
  <2> QED BY <2>5, <2>6
<1> QED BY <1>1, PipelineInvariant, PTL
=============================================================================
