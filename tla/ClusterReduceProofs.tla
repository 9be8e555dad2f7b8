------------------------ MODULE ClusterReduceProofs ------------------------
(***************************************************************************)
(* Theorems about ClusterReduce, for any number of CTAs in the cluster,    *)
(* warps, load slots and tiles, of the forward and the backward kernels.   *)
(***************************************************************************)
EXTENDS ClusterReduce, FiniteSetTheorems, TLAPS

-----------------------------------------------------------------------------
(* The inductive invariant of the exchange. *)

Me(v) == warp[v[1]][v[2]]
Remote == shape.ctas > 1
Reusing == shape.persistent /\ shape.ctas > 1

\* The reductions for which warp v has stored its value, waited, and freed the
\* stage.
Puts(v) == IF Me(v).pc \in {"wait", "read"} THEN Me(v).i + 1 ELSE Me(v).i
Reads(v) == IF Me(v).pc = "read" THEN Me(v).i + 1 ELSE Me(v).i
Frees(v) == Me(v).i

Message(kind, v, c, r) == [kind |-> kind, from |-> v, to |-> c, stage |-> r % 2, i |-> r]

\* The warps whose value of reduction r is at CTA c, and those whose arrival
\* that frees the stage is.
Got(c) == [r \in Nat |-> {v \in Peers : r < Puts(v) /\ Message("value", v, c, r) \notin flying}]
Freed(c) == [r \in Nat |-> {v \in Peers : r < Frees(v) /\ Message("free", v, c, r) \notin flying}]

\* Of the rounds that share slot s of m, round r is the one that S is in the
\* middle of: all have done those before and none has begun one behind it.
Open(S, P, m, s, r) ==
  /\ r % m = s /\ S[r] # P
  /\ \A q \in Nat : q % m = s => (q < r => S[q] = P) /\ (q > r => S[q] = {})

\* The parity of the lap of round r over the two stages.
Half(r) == (r \div 2) % 2

Place == {"join", "begin", "ahead", "load", "put", "wait", "read", "tail", "scratch", "exit", "done"}
Early == {"join", "begin"}
Loop == {"ahead", "load", "put", "wait", "read"}

WarpRecord == [pc : Place, i : Nat, stage : Stages, consumer : {0, 1}, producer : {0, 1}]
Barrier == [pending : Int, tx : Int, phase : {0, 1}]
SlotRecord == [data : [Warps -> Int], full : {0, 1}, left : SUBSET Warps]

TypeInv ==
  /\ shape \in Shapes
  /\ warp \in [Cluster -> [Warps -> WarpRecord]]
  /\ joined \subseteq Peers
  /\ buffer \in [Cluster -> [Stages -> [Peers -> Int]]]
  /\ full \in [Cluster -> [Stages -> Barrier]]
  /\ empty \in [Cluster -> [Stages -> Barrier]]
  /\ ring \in [Cluster -> [Slots -> SlotRecord]]
  /\ landing \subseteq Cluster \X Warps \X Slots \X Nat

\* Stage and parities of a warp follow from the round it is in.
WarpInv(v) ==
  /\ Me(v).i <= shape.rounds /\ Me(v).stage = Me(v).i % 2
  /\ Me(v).i < shape.rounds \/ shape.persistent => Me(v).consumer = Half(Me(v).i)
  /\ shape.persistent => Me(v).producer = 1 - Half(Me(v).i)
  /\ Me(v).pc \in Early => Me(v).i = 0
  /\ Me(v).pc \in Loop => Me(v).i < shape.rounds
  /\ Me(v).pc \in {"ahead", "load"} => shape.loads # "none"
  /\ Me(v).pc \in {"tail", "scratch", "exit"} => shape.persistent
  /\ Me(v).pc \in {"tail", "scratch", "exit", "done"} => Me(v).i = shape.rounds
  /\ Me(v).pc # "join" => v \in joined
  /\ Remote /\ Me(v).pc \notin Early => joined = Peers

\* What flies was sent.
FlyingInv ==
  \A m \in flying :
    /\ Remote /\ m.from \in Peers /\ m.to \in Cluster /\ m.to # m.from[1] /\ m.i \in Nat
    /\ m = Message(m.kind, m.from, m.to, m.i)
    /\ \/ m.kind = "value" /\ m.i < Puts(m.from)
       \/ m.kind = "free" /\ m.i < Frees(m.from) /\ shape.persistent

\* A full barrier is in the phase of its open round, and waits for the values
\* that have not come (and for the elected thread to expect them).
FullIs(c, s, r) ==
  full[c][s] = [pending |-> IF r < Puts(<<c, Warp0>>) THEN 0 ELSE 1,
                tx |-> (IF r < Puts(<<c, Warp0>>) THEN Contributions ELSE 0) - Cardinality(Got(c)[r]),
                phase |-> Half(r)]
FullInv(c, s) == \E r \in Nat : Open(Got(c), Peers, 2, s, r) /\ FullIs(c, s, r)

\* An empty barrier likewise waits for the arrivals that have not come.
EmptyIs(c, s, r) ==
  empty[c][s] = [pending |-> Contributions - Cardinality(Freed(c)[r]), tx |-> 0, phase |-> Half(r)]
EmptyInv(c, s) == \E r \in Nat : Open(Freed(c), Peers, 2, s, r) /\ EmptyIs(c, s, r)

\* What a warp has waited for: a stage is freed by all before it is used again,
\* all values are there before they are read, all stages freed before the end.
PutInv == \A v \in Peers, r \in Nat : r + 2 < Puts(v) => Freed(v[1])[r] = Peers
ReadInv == \A v \in Peers, r \in Nat : r < Reads(v) => Got(v[1])[r] = Peers
DoneInv == \A v \in Peers, r \in Nat : Me(v).pc = "done" /\ r < shape.rounds => Freed(v[1])[r] = Peers

\* Arrivals of a warp come in order.
OrderInv == \A c \in Cluster, r \in Nat, q \in Nat : q < r => Freed(c)[r] \subseteq Freed(c)[q]

\* The buffer holds the last value of each warp that came.
BufferInv ==
  \A c \in Cluster, v \in Peers, r \in Nat :
    v \in Got(c)[r] /\ Puts(v) <= r + 2 => buffer[c][r % 2][v] = r

\* In a single CTA its barrier keeps the warps in step.
LockStep == \A v, u \in Peers : Reads(v) = Reads(u)

ExchangeInv ==
  /\ TypeInv
  /\ \A v \in Peers : WarpInv(v)
  /\ FlyingInv
  /\ Remote => ReadInv /\ \A c \in Cluster, s \in Stages : FullInv(c, s)
  /\ Reusing => PutInv /\ OrderInv /\ DoneInv /\ \A c \in Cluster, s \in Stages : EmptyInv(c, s)
  /\ ~Remote => LockStep
  /\ BufferInv

-----------------------------------------------------------------------------
(* Arithmetic of slots. *)

\* Division with remainder.
LEMMA DivMod ==
  ASSUME NEW m \in Nat \ {0}, NEW r \in Nat
  PROVE  r \div m \in Nat /\ r % m \in 0 .. m - 1 /\ r = m * (r \div m) + (r % m)
<1>1. r \div m \in Nat
  OBVIOUS
<1>2. r % m \in 0 .. m - 1
  OBVIOUS
<1>3. r = m * (r \div m) + (r % m)
  OBVIOUS
<1>4. QED
  BY <1>1, <1>2, <1>3

\* A quotient is found from a remainder.
LEMMA DivUnique ==
  ASSUME NEW m \in Nat \ {0}, NEW k \in Nat, NEW s \in 0 .. m - 1
  PROVE  (m * k + s) % m = s /\ (m * k + s) \div m = k
OBVIOUS

\* One lap on.
LEMMA NextLap ==
  ASSUME NEW m \in Nat \ {0}, NEW r \in Nat
  PROVE  (r + m) % m = r % m /\ (r + m) \div m = (r \div m) + 1
<1>1. r \div m \in Nat /\ r % m \in 0 .. m - 1 /\ r = m * (r \div m) + (r % m)
  BY DivMod
<1>2. \A k \in Nat : m * (k + 1) = m * k + m
  OBVIOUS
<1>3. m * ((r \div m) + 1) = m * (r \div m) + m
  BY <1>1, <1>2
<1>4. r + m = m * ((r \div m) + 1) + (r % m)
  BY <1>1, <1>3
<1>5. (r \div m) + 1 \in Nat
  BY <1>1
<1>6. /\ (m * ((r \div m) + 1) + (r % m)) % m = r % m
      /\ (m * ((r \div m) + 1) + (r % m)) \div m = (r \div m) + 1
  BY <1>1, <1>5, DivUnique
<1>7. QED
  BY <1>4, <1>6

\* Rounds of the same slot are laps apart.
LEMMA SameSlot ==
  ASSUME NEW m \in Nat \ {0}, NEW q \in Nat, NEW r \in Nat, q % m = r % m, q < r
  PROVE  q + m <= r
<1>0. m \in Nat /\ q \in Nat /\ r \in Nat
  OBVIOUS
<1>a. q \div m \in Nat /\ q % m \in 0 .. m - 1 /\ q = m * (q \div m) + (q % m)
  BY DivMod
<1>b. r \div m \in Nat /\ r % m \in 0 .. m - 1 /\ r = m * (r \div m) + (r % m)
  BY DivMod
<1>1. /\ q \div m \in Nat /\ q = m * (q \div m) + (q % m)
      /\ r \div m \in Nat /\ r = m * (r \div m) + (r % m) /\ q % m \in Int
  BY <1>a, <1>b, <1>0
<1>2. m * (q \div m) < m * (r \div m)
  BY <1>1
<1>3. q \div m < r \div m
  BY <1>1, <1>2
<1>4. (q \div m) + 1 <= r \div m
  BY <1>1, <1>3
<1>5. m * ((q \div m) + 1) <= m * (r \div m)
  BY <1>1, <1>4
<1>6. m * ((q \div m) + 1) = m * (q \div m) + m
  BY <1>1
<1>7. QED
  BY <1>1, <1>5, <1>6

\* The two stages and their laps.
LEMMA TwoStages ==
  ASSUME NEW r \in Nat
  PROVE  /\ r % 2 \in Stages /\ Half(r) \in {0, 1}
         /\ (r + 1) % 2 = 1 - (r % 2) /\ (r + 2) % 2 = r % 2
         /\ Half(r + 2) = 1 - Half(r)
         /\ (r + 1) \div 2 = IF r % 2 = 1 THEN (r \div 2) + 1 ELSE r \div 2
<1>1. r % 2 \in {0, 1} /\ (r + 1) % 2 = 1 - (r % 2) /\ r \div 2 \in Nat
  OBVIOUS
<1>2. (r + 2) % 2 = r % 2 /\ (r + 2) \div 2 = (r \div 2) + 1
  BY NextLap
<1>3. \A k \in Nat : k % 2 \in {0, 1} /\ (k + 1) % 2 = 1 - (k % 2)
  OBVIOUS
<1>4. (r + 1) \div 2 = IF r % 2 = 1 THEN (r \div 2) + 1 ELSE r \div 2
  OBVIOUS
<1>5. QED
  BY <1>1, <1>2, <1>3, <1>4 DEF Half, Stages

\* From S to T, v comes to round i, and all have done the one before it in its slot.
Comes(S, T, P, m, s, i, v) ==
  /\ i \in Nat /\ i % m = s
  /\ v \in P /\ v \notin S[i] /\ (i >= m => S[i - m] = P)
  /\ T[i] = S[i] \cup {v} /\ \A q \in Nat : q # i => T[q] = S[q]

\* Then i is the open round, which stays open or, complete, opens the next one.
StaysOrOpens(T, P, m, s, i) ==
  /\ T[i] # P => Open(T, P, m, s, i)
  /\ T[i] = P => Open(T, P, m, s, i + m)

LEMMA Turn ==
  ASSUME NEW m \in Nat \ {0}, NEW s, NEW P, NEW S, NEW T, NEW r \in Nat,
         Open(S, P, m, s, r), NEW i, NEW v, Comes(S, T, P, m, s, i, v)
  PROVE  r = i /\ StaysOrOpens(T, P, m, s, i)
<1>a. /\ i \in Nat /\ i % m = s
      /\ v \in P /\ v \notin S[i] /\ (i >= m => S[i - m] = P)
      /\ T[i] = S[i] \cup {v} /\ \A q \in Nat : q # i => T[q] = S[q]
  BY DEF Comes
<1>1. S[i] # P /\ P # {}
  BY <1>a
<1>2. ~(i < r)
  BY <1>a, <1>1 DEF Open
<1>3. ~(r < i)
  <2>1. SUFFICES ASSUME r < i PROVE FALSE
    OBVIOUS
  <2>2. r + m <= i /\ i - m \in Nat /\ r <= i - m
    <3>1. r % m = i % m
      BY <1>a DEF Open
    <3>2. r + m <= i
      BY <1>a, <2>1, <3>1, SameSlot
    <3>3. QED
      BY <1>a, <3>2
  <2>3. S[i - m] = P
    BY <1>a, <2>2
  <2>4. (i - m) % m = s
    <3>1. ((i - m) + m) % m = (i - m) % m
      BY <2>2, NextLap
    <3>2. (i - m) + m = i
      BY <1>a
    <3>3. QED
      BY <1>a, <3>1, <3>2
  <2>5. QED
    BY <1>1, <2>2, <2>3, <2>4 DEF Open
<1>4. r = i
  BY <1>a, <1>2, <1>3
<1>5. \A q \in Nat : q % m = s => (q < i => T[q] = P) /\ (q > i => T[q] = {})
  BY <1>a, <1>4 DEF Open
<1>6. ASSUME T[i] = P PROVE Open(T, P, m, s, i + m)
  <2>1. i + m \in Nat /\ i + m > i /\ (i + m) % m = s
    <3>1. (i + m) % m = i % m
      BY <1>a, NextLap
    <3>2. i + m \in Nat /\ i + m > i
      BY <1>a
    <3>3. QED
      BY <1>a, <3>1, <3>2
  <2>2. T[i + m] # P
    BY <1>1, <1>5, <2>1
  <2>3. ASSUME NEW q \in Nat, q % m = s, q < i + m PROVE T[q] = P
    <3>1. CASE q < i
      BY <1>5, <2>3, <3>1
    <3>2. CASE q = i
      BY <1>6, <3>2
    <3>3. CASE q > i
      <4>1. i + m <= q
        BY <1>a, <2>3, <3>3, SameSlot
      <4>2. QED
        BY <1>a, <2>3, <4>1
    <3>4. QED
      BY <1>a, <3>1, <3>2, <3>3
  <2>4. ASSUME NEW q \in Nat, q % m = s, q > i + m PROVE T[q] = {}
    <3>1. q > i
      BY <1>a, <2>4
    <3>2. QED
      BY <1>5, <2>4, <3>1
  <2>5. QED
    BY <2>1, <2>2, <2>3, <2>4 DEF Open
<1>7. ASSUME T[i] # P PROVE Open(T, P, m, s, i)
  BY <1>a, <1>5, <1>7 DEF Open
<1>8. QED
  BY <1>4, <1>6, <1>7 DEF StaysOrOpens

\* With two stages.
LEMMA TurnOfTwo ==
  ASSUME NEW s, NEW P, NEW S, NEW T, NEW r \in Nat, Open(S, P, 2, s, r),
         NEW i, NEW v, Comes(S, T, P, 2, s, i, v)
  PROVE  r = i /\ StaysOrOpens(T, P, 2, s, i)
<1>1. 2 \in Nat \ {0}
  OBVIOUS
<1>2. QED
  BY <1>1, Turn

\* Other slots see nothing of it.
LEMMA OtherTurn ==
  ASSUME NEW m, NEW s, NEW P, NEW S, NEW T, NEW r \in Nat,
         Open(S, P, m, s, r), \A q \in Nat : q % m = s => T[q] = S[q]
  PROVE  Open(T, P, m, s, r)
BY DEF Open

-----------------------------------------------------------------------------
(* Constants, messages and what a state has in common with the next. *)

\* The warps of the cluster are as many as a barrier counts.
LEMMA PeersFinite ==
  ASSUME shape \in Shapes
  PROVE  /\ IsFiniteSet(Peers) /\ Cardinality(Peers) = Contributions /\ Contributions \in Nat
         /\ Warp0 \in Warps /\ 0 \in Cluster
<1>1. /\ shape.ctas \in Nat \ {0} /\ IsFiniteSet(Warps) /\ Warp0 \in Warps
  BY ReduceAssumption
<1>2. IsFiniteSet(Cluster) /\ Cardinality(Cluster) = shape.ctas
  <2>1. 0 \in Int /\ shape.ctas - 1 \in Int /\ ~(0 > shape.ctas - 1) /\ shape.ctas - 1 - 0 + 1 = shape.ctas
    BY <1>1
  <2>2. IsFiniteSet(0 .. shape.ctas - 1) /\ Cardinality(0 .. shape.ctas - 1) = shape.ctas - 1 - 0 + 1
    BY <2>1, FS_Interval
  <2>3. QED
    BY <2>1, <2>2 DEF Cluster
<1>3. Peers = Cluster \X Warps
  BY DEF Peers
<1>4. Cardinality(Warps) \in Nat
  BY <1>1, FS_CardinalityType
<1>5. Cardinality(Cluster \X Warps) = shape.ctas * Cardinality(Warps) /\ IsFiniteSet(Cluster \X Warps)
  BY <1>1, <1>2, FS_Product
<1>6. shape.ctas * Cardinality(Warps) = Cardinality(Warps) * shape.ctas /\ Cardinality(Warps) * shape.ctas \in Nat
  BY <1>1, <1>4
<1>7. 0 \in Cluster
  BY <1>1 DEF Cluster
<1>8. QED
  BY <1>1, <1>3, <1>5, <1>6, <1>7 DEF Contributions

\* A peer is a CTA and a warp.
LEMMA PeerPair ==
  /\ \A v \in Peers : v[1] \in Cluster /\ v[2] \in Warps /\ v = <<v[1], v[2]>>
  /\ \A c \in Cluster, w \in Warps : <<c, w>> \in Peers
BY DEF Peers

\* Shapes.
LEMMA ShapeFacts ==
  ASSUME shape \in Shapes
  PROVE  /\ shape.ctas \in Nat \ {0} /\ shape.rounds \in Nat
         /\ shape.persistent \in BOOLEAN /\ shape.rows \in BOOLEAN
         /\ shape.loads \in {"tma", "async", "none"}
         /\ ~shape.persistent => shape.rounds \in {1, 2} /\ shape.loads = "none"
BY ReduceAssumption

\* Messages that agree are of the same kind, sender, receiver and round.
LEMMA SameMessage ==
  ASSUME NEW k, NEW v, NEW c, NEW r, NEW l, NEW u, NEW d, NEW q,
         Message(k, v, c, r) = Message(l, u, d, q)
  PROVE  k = l /\ v = u /\ c = d /\ r = q
<1>1. /\ Message(k, v, c, r).kind = k /\ Message(k, v, c, r).from = v
      /\ Message(k, v, c, r).to = c /\ Message(k, v, c, r).i = r
  BY DEF Message
<1>2. /\ Message(l, u, d, q).kind = l /\ Message(l, u, d, q).from = u
      /\ Message(l, u, d, q).to = d /\ Message(l, u, d, q).i = q
  BY DEF Message
<1>3. QED
  BY <1>1, <1>2

\* The kernel does not change.
LEMMA SameShape ==
  ASSUME shape' = shape
  PROVE  /\ Cluster' = Cluster /\ Peers' = Peers /\ Contributions' = Contributions
         /\ Remote' = Remote /\ Reusing' = Reusing
BY DEF Cluster, Peers, Contributions, Remote, Reusing

\* A step keeps the kernel.
LEMMA ShapeStep == [Next]_vars => shape' = shape
<1>1. ASSUME NEW c \in Cluster, NEW w \in Warps, WarpStep(c, w) PROVE shape' = shape
  <2>1. CASE Join(c, w)
    BY <2>1 DEF Join
  <2>2. CASE Begin(c, w)
    BY <2>2 DEF Begin
  <2>3. CASE PrefetchAhead(c, w)
    BY <2>3 DEF PrefetchAhead
  <2>4. CASE WaitLoad(c, w)
    BY <2>4 DEF WaitLoad
  <2>5. CASE Put(c, w)
    BY <2>5 DEF Put
  <2>6. CASE WaitFull(c, w)
    BY <2>6 DEF WaitFull
  <2>7. CASE Release(c, w)
    BY <2>7 DEF Release
  <2>8. CASE WriteScratch(c, w)
    BY <2>8 DEF WriteScratch
  <2>9. CASE Exit(c, w)
    BY <2>9 DEF Exit
  <2>10. QED
    BY <1>1, <2>1, <2>2, <2>3, <2>4, <2>5, <2>6, <2>7, <2>8, <2>9 DEF WarpStep
<1>2. \A c \in Cluster : CtaBarrier(c) => shape' = shape
  BY DEF CtaBarrier
<1>3. LandLoad \/ LandRemote => shape' = shape
  BY DEF LandLoad, LandRemote
<1>4. QED
  BY <1>1, <1>2, <1>3 DEF Next, vars

-----------------------------------------------------------------------------
(* Types, and the counters of a warp. *)

\* A warp that changes its place changes nothing else.
LEMMA GotoEffect ==
  ASSUME TypeInv, shape' = shape, NEW c \in Cluster, NEW w \in Warps, NEW p \in Place, Goto(c, w, p)
  PROVE  /\ warp' \in [Cluster -> [Warps -> WarpRecord]]
         /\ \A v \in Peers : v # <<c, w>> => Me(v)' = Me(v)
         /\ Me(<<c, w>>)' = [Me(<<c, w>>) EXCEPT !.pc = p]
<1>1. warp \in [Cluster -> [Warps -> WarpRecord]] /\ warp' = [warp EXCEPT ![c][w].pc = p]
  BY DEF TypeInv, Goto
<1>2. /\ warp' \in [Cluster -> [Warps -> WarpRecord]]
  <2>1. warp[c][w] \in WarpRecord
    BY <1>1
  <2>2. [warp[c][w] EXCEPT !.pc = p] \in WarpRecord
    BY <2>1 DEF WarpRecord
  <2>3. warp' = [warp EXCEPT ![c] = [warp[c] EXCEPT ![w] = [warp[c][w] EXCEPT !.pc = p]]]
    BY <1>1
  <2>4. QED
    BY <1>1, <2>2, <2>3
<1>3. \A d \in Cluster, u \in Warps :
        warp'[d][u] = IF d = c /\ u = w THEN [warp[c][w] EXCEPT !.pc = p] ELSE warp[d][u]
  BY <1>1
<1>4. QED
  BY <1>2, <1>3, PeerPair DEF Me

\* The next round of a warp.
LEMMA NextRoundEffect ==
  ASSUME shape \in Shapes, NEW me \in WarpRecord
  PROVE  /\ NextRound(me) \in WarpRecord
         /\ NextRound(me).i = me.i + 1 /\ NextRound(me).stage = 1 - me.stage
         /\ NextRound(me).pc = IF me.i + 1 < shape.rounds THEN IterationPc ELSE AfterLoop
         /\ ~shape.persistent => NextRound(me).consumer = me.consumer /\ NextRound(me).producer = me.producer
         /\ shape.persistent => /\ NextRound(me).consumer = IF me.stage = 1 THEN 1 - me.consumer ELSE me.consumer
                                /\ NextRound(me).producer = IF me.stage = 1 THEN 1 - me.producer ELSE me.producer
<1> DEFINE p == IF me.i + 1 < shape.rounds THEN IterationPc ELSE AfterLoop
           f == IF NextStage(me.stage) = 0 THEN 1 ELSE 0
           next == [me EXCEPT !.i = @ + 1, !.stage = NextStage(me.stage)]
           flipped == [next EXCEPT !.consumer = (@ + f) % 2, !.producer = (@ + f) % 2]
<1>1. /\ me.i \in Nat /\ me.stage \in {0, 1} /\ me.consumer \in {0, 1} /\ me.producer \in {0, 1}
      /\ p \in Place
  BY DEF WarpRecord, Stages, IterationPc, AfterLoop, Place
<1>2. f = (IF me.stage = 1 THEN 1 ELSE 0) /\ NextStage(me.stage) = 1 - me.stage /\ 1 - me.stage \in {0, 1}
  BY <1>1 DEF NextStage
<1>3. /\ (me.consumer + f) % 2 = IF me.stage = 1 THEN 1 - me.consumer ELSE me.consumer
      /\ (me.producer + f) % 2 = IF me.stage = 1 THEN 1 - me.producer ELSE me.producer
      /\ (me.consumer + f) % 2 \in {0, 1} /\ (me.producer + f) % 2 \in {0, 1}
  <2>1. CASE me.stage = 1
    BY <1>1, <1>2, <2>1
  <2>2. CASE me.stage = 0
    BY <1>1, <1>2, <2>2
  <2>3. QED
    BY <1>1, <2>1, <2>2
<1> HIDE DEF f, p
<1>4. /\ next \in WarpRecord /\ next.i = me.i + 1 /\ next.stage = 1 - me.stage /\ next.pc = me.pc
      /\ next.consumer = me.consumer /\ next.producer = me.producer
  <2>1. next = [[me EXCEPT !.i = me.i + 1] EXCEPT !.stage = 1 - me.stage]
    BY <1>2
  <2>2. /\ [me EXCEPT !.i = me.i + 1] \in WarpRecord /\ [me EXCEPT !.i = me.i + 1].i = me.i + 1
        /\ [me EXCEPT !.i = me.i + 1].pc = me.pc
        /\ [me EXCEPT !.i = me.i + 1].consumer = me.consumer
        /\ [me EXCEPT !.i = me.i + 1].producer = me.producer
    BY <1>1 DEF WarpRecord
  <2>3. ASSUME NEW r \in WarpRecord
        PROVE  /\ [r EXCEPT !.stage = 1 - me.stage] \in WarpRecord
               /\ [r EXCEPT !.stage = 1 - me.stage].stage = 1 - me.stage
               /\ [r EXCEPT !.stage = 1 - me.stage].i = r.i /\ [r EXCEPT !.stage = 1 - me.stage].pc = r.pc
               /\ [r EXCEPT !.stage = 1 - me.stage].consumer = r.consumer
               /\ [r EXCEPT !.stage = 1 - me.stage].producer = r.producer
    BY <1>2 DEF WarpRecord, Stages
  <2>4. QED
    BY <2>1, <2>2, <2>3
<1> HIDE DEF next
<1>5. /\ flipped \in WarpRecord /\ flipped.i = next.i /\ flipped.stage = next.stage
      /\ flipped.consumer = (me.consumer + f) % 2 /\ flipped.producer = (me.producer + f) % 2
  BY <1>3, <1>4 DEF WarpRecord
<1> HIDE DEF flipped
<1>6. NextRound(me) = [(IF shape.persistent THEN flipped ELSE next) EXCEPT !.pc = p]
  BY DEF NextRound, next, flipped, f, p
<1>7. CASE shape.persistent
  <2>1. NextRound(me) = [flipped EXCEPT !.pc = p]
    BY <1>6, <1>7
  <2>2. /\ NextRound(me) \in WarpRecord /\ NextRound(me).pc = p /\ NextRound(me).i = flipped.i
        /\ NextRound(me).stage = flipped.stage
        /\ NextRound(me).consumer = flipped.consumer /\ NextRound(me).producer = flipped.producer
    BY <1>1, <1>5, <2>1 DEF WarpRecord
  <2>3. QED
    BY <1>3, <1>4, <1>5, <1>7, <2>2 DEF p
<1>8. CASE ~shape.persistent
  <2>1. NextRound(me) = [next EXCEPT !.pc = p]
    BY <1>6, <1>8
  <2>2. /\ NextRound(me) \in WarpRecord /\ NextRound(me).pc = p /\ NextRound(me).i = next.i
        /\ NextRound(me).stage = next.stage
        /\ NextRound(me).consumer = next.consumer /\ NextRound(me).producer = next.producer
    BY <1>1, <1>4, <2>1 DEF WarpRecord
  <2>3. QED
    BY <1>4, <1>8, <2>2 DEF p
<1>9. QED
  BY <1>7, <1>8

\* Release moves a warp to its next round and leaves the others.
LEMMA ReleaseEffect ==
  ASSUME TypeInv, NEW c \in Cluster, NEW w \in Warps, warp' = [warp EXCEPT ![c][w] = NextRound(warp[c][w])]
  PROVE  /\ warp' \in [Cluster -> [Warps -> WarpRecord]]
         /\ \A v \in Peers : v # <<c, w>> => Me(v)' = Me(v)
         /\ Me(<<c, w>>)' = NextRound(Me(<<c, w>>))
<1>1. warp \in [Cluster -> [Warps -> WarpRecord]] /\ warp[c][w] \in WarpRecord /\ shape \in Shapes
  BY DEF TypeInv
<1>2. NextRound(warp[c][w]) \in WarpRecord
  BY <1>1, NextRoundEffect
<1>3. warp' \in [Cluster -> [Warps -> WarpRecord]]
  BY <1>1, <1>2
<1>4. \A d \in Cluster, u \in Warps :
        warp'[d][u] = IF d = c /\ u = w THEN NextRound(warp[c][w]) ELSE warp[d][u]
  BY <1>1
<1>5. QED
  BY <1>3, <1>4, PeerPair DEF Me

\* The barrier of a CTA moves all its warps and leaves the others.
LEMMA BarrierEffect ==
  ASSUME TypeInv, NEW c \in Cluster, NEW p \in Place,
         warp' = [warp EXCEPT ![c] = [w \in Warps |-> [@[w] EXCEPT !.pc = p]]]
  PROVE  /\ warp' \in [Cluster -> [Warps -> WarpRecord]]
         /\ \A v \in Peers : Me(v)' = IF v[1] = c THEN [Me(v) EXCEPT !.pc = p] ELSE Me(v)
<1>1. warp \in [Cluster -> [Warps -> WarpRecord]]
  BY DEF TypeInv
<1>2. [w \in Warps |-> [warp[c][w] EXCEPT !.pc = p]] \in [Warps -> WarpRecord]
  <2>1. \A w \in Warps : warp[c][w] \in WarpRecord
    BY <1>1
  <2>2. \A w \in Warps : [warp[c][w] EXCEPT !.pc = p] \in WarpRecord
    BY <2>1 DEF WarpRecord
  <2>3. QED
    BY <2>2
<1>3. warp' = [warp EXCEPT ![c] = [w \in Warps |-> [warp[c][w] EXCEPT !.pc = p]]]
  BY <1>1
<1>4. \A d \in Cluster, u \in Warps :
        warp'[d][u] = IF d = c THEN [warp[d][u] EXCEPT !.pc = p] ELSE warp[d][u]
  BY <1>1, <1>3
<1>5. warp' \in [Cluster -> [Warps -> WarpRecord]]
  BY <1>1, <1>2, <1>3
<1>6. QED
  BY <1>4, <1>5, PeerPair DEF Me

\* A barrier stays a barrier.
LEMMA SettleType ==
  ASSUME NEW b \in Barrier, NEW n \in Int
  PROVE  Settle(b, n) \in Barrier
BY DEF Settle, Barrier

\* A tile has a slot.
LEMMA SlotType ==
  ASSUME NEW i \in Nat
  PROVE  SlotOf(i) \in Slots
<1>1. LoadStages \in Nat \ {0}
  BY ReduceAssumption
<1>2. i % LoadStages \in 0 .. LoadStages - 1
  BY <1>1, DivMod
<1>3. QED
  BY <1>2 DEF SlotOf, Slots

\* Updates of one field of a barrier or of a slot.
LEMMA PutBarrier ==
  ASSUME NEW f \in [Cluster -> [Stages -> Barrier]], NEW c \in Cluster, NEW s \in Stages, NEW b \in Barrier
  PROVE  [f EXCEPT ![c][s] = b] \in [Cluster -> [Stages -> Barrier]]
OBVIOUS

\* The parity of the lap changes behind the second stage.
LEMMA NextHalf ==
  ASSUME NEW r \in Nat
  PROVE  Half(r + 1) = IF r % 2 = 1 THEN 1 - Half(r) ELSE Half(r)
<1>1. (r + 1) \div 2 = IF r % 2 = 1 THEN (r \div 2) + 1 ELSE r \div 2
  BY TwoStages
<1>2. r \div 2 \in Nat
  OBVIOUS
<1>3. \A k \in Nat : (k + 1) % 2 = 1 - (k % 2)
  OBVIOUS
<1>4. QED
  BY <1>1, <1>2, <1>3 DEF Half

\* What lands with a load: the parts of all warps of a TMA, or the one part.
Batch(l) == IF shape.loads = "tma" THEN {m \in landing : m[1] = l[1] /\ m[4] = l[4]} ELSE {l}
LandedSlot(l) ==
  [ring[l[1]][l[3]] EXCEPT
     !.data = [w \in Warps |-> IF \E m \in Batch(l) : m[2] = w THEN l[4] ELSE @[w]],
     !.full = 1 - @]
LandsAt(l) ==
  /\ landing' = landing \ Batch(l)
  /\ ring' = [ring EXCEPT ![l[1]][l[3]] = LandedSlot(l)]
  /\ shape' = shape /\ warp' = warp /\ joined' = joined /\ buffer' = buffer /\ full' = full
  /\ empty' = empty /\ flying' = flying

LEMMA LandLoadEffect ==
  ASSUME TypeInv, LandLoad
  PROVE  \E l \in landing : LandsAt(l)
<1>1. PICK l \in landing :
        /\ landing' = landing \ Batch(l)
        /\ ring' = [ring EXCEPT ![l[1]][l[3]].data =
                      [w \in Warps |-> IF \E m \in Batch(l) : m[2] = w THEN l[4] ELSE @[w]],
                    ![l[1]][l[3]].full = 1 - @]
        /\ UNCHANGED <<shape, warp, joined, buffer, full, empty, flying>>
  BY DEF LandLoad, Batch
<1>2. l[1] \in Cluster /\ l[3] \in Slots /\ ring \in [Cluster -> [Slots -> SlotRecord]]
  BY DEF TypeInv
<1>3. ring' = [ring EXCEPT ![l[1]][l[3]] = LandedSlot(l)]
  BY <1>1, <1>2 DEF LandedSlot, SlotRecord
<1>4. QED
  BY <1>1, <1>3 DEF LandsAt

\* What lands at another CTA.
LandsRemote(m) ==
  /\ InOrder(m) /\ flying' = flying \ {m}
  /\ shape' = shape /\ warp' = warp /\ joined' = joined /\ ring' = ring /\ landing' = landing
  /\ \/ /\ m.kind = "value"
        /\ buffer' = [buffer EXCEPT ![m.to][m.stage][m.from] = m.i]
        /\ full' = [full EXCEPT ![m.to][m.stage] = Settle(Land(full[m.to][m.stage]), 1)]
        /\ empty' = empty
     \/ /\ m.kind = "free"
        /\ empty' = [empty EXCEPT ![m.to][m.stage] =
                       Settle(Arrive(empty[m.to][m.stage]), Contributions)]
        /\ buffer' = buffer /\ full' = full

LEMMA LandRemoteEffect ==
  ASSUME LandRemote
  PROVE  \E m \in flying : LandsRemote(m)
<1>1. PICK m \in flying :
        /\ InOrder(m) /\ flying' = flying \ {m}
        /\ \/ /\ m.kind = "value"
              /\ buffer' = [buffer EXCEPT ![m.to][m.stage][m.from] = m.i]
              /\ full' = [full EXCEPT ![m.to][m.stage] = Settle(Land(full[m.to][m.stage]), 1)]
              /\ empty' = empty
           \/ /\ m.kind = "free"
              /\ empty' = [empty EXCEPT ![m.to][m.stage] =
                             Settle(Arrive(empty[m.to][m.stage]), Contributions)]
              /\ buffer' = buffer /\ full' = full
        /\ UNCHANGED <<shape, warp, joined, ring, landing>>
  BY DEF LandRemote
<1>2. LandsRemote(m)
  BY <1>1 DEF LandsRemote
<1>3. QED
  BY <1>2


\* What is done to a barrier, which stays one.
LEMMA BarrierType ==
  ASSUME NEW b \in Barrier, Contributions \in Int
  PROVE  /\ Land(b) \in Barrier /\ Arrive(b) \in Barrier /\ Expect(b) \in Barrier
         /\ Land(b) = [pending |-> b.pending, tx |-> b.tx - 1, phase |-> b.phase]
         /\ Arrive(b) = [pending |-> b.pending - 1, tx |-> b.tx, phase |-> b.phase]
         /\ Expect(b) = [pending |-> b.pending - 1, tx |-> b.tx + Contributions, phase |-> b.phase]
<1>1. /\ b = [pending |-> b.pending, tx |-> b.tx, phase |-> b.phase]
      /\ b.pending \in Int /\ b.tx \in Int /\ b.phase \in {0, 1}
  BY DEF Barrier
<1>2. Land(b) = [pending |-> b.pending, tx |-> b.tx - 1, phase |-> b.phase]
  BY <1>1 DEF Land
<1>3. Arrive(b) = [pending |-> b.pending - 1, tx |-> b.tx, phase |-> b.phase]
  BY <1>1 DEF Arrive
<1>4. Expect(b) = [pending |-> b.pending - 1, tx |-> b.tx + Contributions, phase |-> b.phase]
  <2>1. [b EXCEPT !.pending = b.pending - 1] = [pending |-> b.pending - 1, tx |-> b.tx, phase |-> b.phase]
    BY <1>1
  <2>2. [[b EXCEPT !.pending = b.pending - 1] EXCEPT !.tx = b.tx + Contributions]
          = [pending |-> b.pending - 1, tx |-> b.tx + Contributions, phase |-> b.phase]
    <3> DEFINE a == [pending |-> b.pending - 1, tx |-> b.tx, phase |-> b.phase]
               n == b.tx + Contributions
    <3>1. [a EXCEPT !.tx = n] = [pending |-> b.pending - 1, tx |-> n, phase |-> b.phase]
      <4> HIDE DEF n
      <4>1. QED
        OBVIOUS
    <3>2. QED
      BY <2>1, <3>1
  <2>3. Expect(b) = [[b EXCEPT !.pending = b.pending - 1] EXCEPT !.tx = b.tx + Contributions]
    BY <1>1 DEF Expect
  <2>4. QED
    BY <2>2, <2>3
<1>5. b.pending - 1 \in Int /\ b.tx - 1 \in Int /\ b.tx + Contributions \in Int
  BY <1>1
<1>6. QED
  BY <1>1, <1>2, <1>3, <1>4, <1>5 DEF Barrier
LEMMA PutSlot ==
  ASSUME NEW f \in [Cluster -> [Slots -> SlotRecord]], NEW c \in Cluster, NEW s \in Slots, NEW b \in SlotRecord
  PROVE  [f EXCEPT ![c][s] = b] \in [Cluster -> [Slots -> SlotRecord]]
OBVIOUS

\* A place that a warp may go to.
MayBe(u, p) ==
  /\ p \in Place
  /\ p \in Early => Me(u).i = 0
  /\ p \in Loop => Me(u).i < shape.rounds
  /\ p \in {"ahead", "load"} => shape.loads # "none"
  /\ p \in {"tail", "scratch", "exit"} => shape.persistent
  /\ p \in {"tail", "scratch", "exit", "done"} => Me(u).i = shape.rounds

\* A warp that goes to a place keeps what holds of warps.
LEMMA WarpGoes ==
  ASSUME TypeInv, \A v \in Peers : WarpInv(v), shape' = shape,
         joined \subseteq joined', joined' \subseteq Peers,
         NEW c \in Cluster, NEW w \in Warps, NEW p, MayBe(<<c, w>>, p), Goto(c, w, p),
         p # "join" => <<c, w>> \in joined', Remote /\ p \notin Early => joined' = Peers
  PROVE  /\ warp' \in [Cluster -> [Warps -> WarpRecord]]
         /\ \A v \in Peers : WarpInv(v)'
<1> DEFINE u == <<c, w>>
<1>1. p \in Place
  BY DEF MayBe
<1>2. /\ warp' \in [Cluster -> [Warps -> WarpRecord]]
      /\ \A v \in Peers : v # u => Me(v)' = Me(v)
      /\ Me(u)' = [Me(u) EXCEPT !.pc = p]
  BY <1>1, GotoEffect
<1>3. u \in Peers /\ Me(u) \in WarpRecord
  BY PeerPair DEF TypeInv, Me
<1>4. /\ Me(u)'.pc = p /\ Me(u)'.i = Me(u).i /\ Me(u)'.stage = Me(u).stage
      /\ Me(u)'.consumer = Me(u).consumer /\ Me(u)'.producer = Me(u).producer
  BY <1>2, <1>3 DEF WarpRecord
<1>5. ASSUME NEW v \in Peers PROVE WarpInv(v)'
  <2>1. WarpInv(v)
    OBVIOUS
  <2>2. Remote' = Remote /\ Peers' = Peers
    BY SameShape
  <2>3. CASE v # u
    BY <1>2, <2>1, <2>2, <2>3 DEF WarpInv
  <2>4. CASE v = u
    <3> HIDE DEF u
    <3>1. Remote' /\ p \notin Early => joined' = Peers
      BY <2>2
    <3>2. p # "join" => u \in joined'
      BY DEF u
    <3>3. MayBe(u, p)
      BY DEF u
    <3>4. QED
      BY <1>4, <2>1, <2>2, <2>4, <3>1, <3>2, <3>3 DEF WarpInv, MayBe
  <2>5. QED
    BY <2>3, <2>4
<1>6. QED
  BY <1>2, <1>5

\* Issued loads are loads.
LEMMA IssuedType ==
  ASSUME NEW c \in Cluster, NEW w \in Warps, NEW i \in Nat
  PROVE  Issued(c, w, i) \subseteq Cluster \X Warps \X Slots \X Nat
<1>1. SlotOf(i) \in Slots
  BY SlotType
<1>2. QED
  BY <1>1 DEF Issued

\* The head of a loop, and its end.
LEMMA Turning ==
  ASSUME shape \in Shapes
  PROVE  /\ IterationPc \in {"put", "ahead"} /\ (IterationPc = "ahead" => shape.loads # "none")
         /\ AfterLoop \in {"tail", "exit", "done"} /\ (AfterLoop # "done" => shape.persistent)
         /\ ~shape.persistent => AfterLoop = "done"
BY DEF IterationPc, AfterLoop

\* Each step keeps the types and what follows from a warp's round.
LEMMA TypeStep ==
  ASSUME TypeInv, \A v \in Peers : WarpInv(v), FlyingInv, [Next]_vars
  PROVE  TypeInv' /\ \A v \in Peers : WarpInv(v)'
<1>a. /\ shape' = shape /\ shape \in Shapes /\ Cluster' = Cluster /\ Peers' = Peers /\ Remote' = Remote
      /\ shape.rounds \in Nat /\ shape.loads \in {"tma", "async", "none"}
      /\ LoadStages \in Nat \ {0} /\ Ahead \in Nat /\ Contributions \in Int
  BY ShapeStep, SameShape, ShapeFacts, ReduceAssumption, PeersFinite DEF TypeInv, Ahead
<1>b. /\ warp \in [Cluster -> [Warps -> WarpRecord]] /\ joined \subseteq Peers
      /\ buffer \in [Cluster -> [Stages -> [Peers -> Int]]]
      /\ full \in [Cluster -> [Stages -> Barrier]] /\ empty \in [Cluster -> [Stages -> Barrier]]
      /\ ring \in [Cluster -> [Slots -> SlotRecord]]
      /\ landing \subseteq Cluster \X Warps \X Slots \X Nat
  BY DEF TypeInv
<1>c. \A c \in Cluster, w \in Warps :
        /\ <<c, w>> \in Peers /\ Me(<<c, w>>) = warp[c][w] /\ warp[c][w] \in WarpRecord /\ WarpInv(<<c, w>>)
        /\ warp[c][w].i \in Nat /\ warp[c][w].stage \in Stages
  <2>1. \A c \in Cluster, w \in Warps :
          /\ <<c, w>> \in Peers /\ Me(<<c, w>>) = warp[c][w] /\ warp[c][w] \in WarpRecord
          /\ WarpInv(<<c, w>>)
    BY <1>b, PeerPair DEF Me
  <2>2. \A r \in WarpRecord : r.i \in Nat /\ r.stage \in Stages
    BY DEF WarpRecord
  <2>3. QED
    BY <2>1, <2>2
<1>d. ASSUME warp' \in [Cluster -> [Warps -> WarpRecord]], joined' \subseteq Peers,
             buffer' \in [Cluster -> [Stages -> [Peers -> Int]]],
             full' \in [Cluster -> [Stages -> Barrier]], empty' \in [Cluster -> [Stages -> Barrier]],
             ring' \in [Cluster -> [Slots -> SlotRecord]],
             landing' \subseteq Cluster \X Warps \X Slots \X Nat
      PROVE  TypeInv'
  BY <1>a, <1>d DEF TypeInv, Stages, Slots, WarpRecord, SlotRecord, Place, Barrier
<1>1. CASE UNCHANGED vars
  <2>1. /\ warp' = warp /\ joined' = joined /\ buffer' = buffer /\ full' = full /\ empty' = empty
        /\ ring' = ring /\ landing' = landing
    BY <1>1 DEF vars
  <2>2. \A v \in Peers : WarpInv(v)'
    BY <1>a, <2>1 DEF WarpInv, Me
  <2>3. QED
    BY <1>b, <1>d, <2>1, <2>2
<1>2. ASSUME NEW c \in Cluster, NEW w \in Warps, Join(c, w) PROVE TypeInv' /\ \A v \in Peers : WarpInv(v)'
  <2>1. /\ joined' = joined \cup {<<c, w>>} /\ Goto(c, w, "begin") /\ warp[c][w].pc = "join"
        /\ buffer' = buffer /\ full' = full /\ empty' = empty /\ ring' = ring /\ landing' = landing
    BY <1>2 DEF Join
  <2>2. MayBe(<<c, w>>, "begin")
    BY <1>c, <2>1 DEF MayBe, WarpInv, Place, Early, Loop
  <2>3. joined' \subseteq Peers
    BY <1>b, <1>c, <2>1
  <2>4. QED
    BY <1>a, <1>b, <1>d, <2>1, <2>2, <2>3, WarpGoes DEF Early
<1>3. ASSUME NEW c \in Cluster, NEW w \in Warps, Begin(c, w) PROVE TypeInv' /\ \A v \in Peers : WarpInv(v)'
  <2> DEFINE p == IF shape.rounds = 0 THEN AfterLoop ELSE IterationPc
  <2>1. /\ joined' = joined /\ Goto(c, w, p) /\ warp[c][w].pc = "begin" /\ ClusterReady
        /\ landing' = landing \cup UNION {Issued(c, w, i) : i \in 0 .. Ahead - 1}
        /\ buffer' = buffer /\ full' = full /\ empty' = empty /\ ring' = ring
    BY <1>3 DEF Begin
  <2>2. Me(<<c, w>>).i = 0
    BY <1>c, <2>1 DEF WarpInv, Early
  <2>3. MayBe(<<c, w>>, p)
    BY <1>a, <2>2, Turning DEF MayBe, Place, Early, Loop
  <2>4. Remote => joined' = Peers
    BY <2>1 DEF ClusterReady, Remote
  <2>5. <<c, w>> \in joined'
    BY <1>c, <2>1 DEF WarpInv
  <2>6. landing' \subseteq Cluster \X Warps \X Slots \X Nat
    <3>1. \A i \in 0 .. Ahead - 1 : Issued(c, w, i) \subseteq Cluster \X Warps \X Slots \X Nat
      BY <1>a, IssuedType
    <3>2. QED
      BY <1>b, <2>1, <3>1
  <2>7. QED
    BY <1>a, <1>b, <1>d, <2>1, <2>3, <2>4, <2>5, <2>6, WarpGoes
<1>4. ASSUME NEW c \in Cluster, NEW w \in Warps, PrefetchAhead(c, w)
      PROVE  TypeInv' /\ \A v \in Peers : WarpInv(v)'
  <2> DEFINE next == warp[c][w].i + Ahead
  <2>1. /\ joined' = joined /\ Goto(c, w, "load") /\ warp[c][w].pc = "ahead"
        /\ landing' = landing \cup Issued(c, w, next) /\ ring' = Cleared(c, w, next)
        /\ buffer' = buffer /\ full' = full /\ empty' = empty
    BY <1>4 DEF PrefetchAhead
  <2>2. MayBe(<<c, w>>, "load") /\ <<c, w>> \in joined' /\ (Remote => joined' = Peers)
    BY <1>c, <2>1 DEF MayBe, WarpInv, Place, Early, Loop
  <2>3. next \in Nat
    <3>1. warp[c][w].i \in Nat
      BY <1>c
    <3>2. QED
      BY <1>a, <3>1
  <2>4. landing' \subseteq Cluster \X Warps \X Slots \X Nat
    BY <1>b, <2>1, <2>3, IssuedType
  <2>5. ring' \in [Cluster -> [Slots -> SlotRecord]]
    <3>1. SlotOf(next) \in Slots
      BY <2>3, SlotType
    <3>2. ring[c][SlotOf(next)] \in SlotRecord
      BY <1>b, <3>1
    <3>3. [ring[c][SlotOf(next)] EXCEPT !.left = {}] \in SlotRecord
      BY <3>2 DEF SlotRecord
    <3>4. [ring EXCEPT ![c][SlotOf(next)] = [ring[c][SlotOf(next)] EXCEPT !.left = {}]]
            \in [Cluster -> [Slots -> SlotRecord]]
      BY <1>b, <3>1, <3>3, PutSlot
    <3>5. ring' = ring \/ ring' = [ring EXCEPT ![c][SlotOf(next)] = [ring[c][SlotOf(next)] EXCEPT !.left = {}]]
      BY <2>1 DEF Cleared
    <3>6. QED
      BY <1>b, <3>4, <3>5
  <2>6. QED
    BY <1>a, <1>b, <1>d, <2>1, <2>2, <2>4, <2>5, WarpGoes
<1>5. ASSUME NEW c \in Cluster, NEW w \in Warps, WaitLoad(c, w)
      PROVE  TypeInv' /\ \A v \in Peers : WarpInv(v)'
  <2>1. /\ joined' = joined /\ Goto(c, w, "put") /\ warp[c][w].pc = "load"
        /\ landing' = landing /\ ring' = ring /\ buffer' = buffer /\ full' = full /\ empty' = empty
    BY <1>5 DEF WaitLoad
  <2>2. MayBe(<<c, w>>, "put") /\ <<c, w>> \in joined' /\ (Remote => joined' = Peers)
    BY <1>c, <2>1 DEF MayBe, WarpInv, Place, Early, Loop
  <2>3. QED
    BY <1>a, <1>b, <1>d, <2>1, <2>2, WarpGoes
<1>6. ASSUME NEW c \in Cluster, NEW w \in Warps, Put(c, w) PROVE TypeInv' /\ \A v \in Peers : WarpInv(v)'
  <2> DEFINE s == warp[c][w].stage
             expecting == IF w = Warp0 THEN Expect(full[c][s]) ELSE full[c][s]
             settled == Settle(Land(expecting), 1)
  <2>1. /\ joined' = joined /\ Goto(c, w, "wait") /\ warp[c][w].pc = "put"
        /\ landing' = landing /\ ring' = ring /\ empty' = empty
        /\ buffer' = [buffer EXCEPT ![c][s][<<c, w>>] = warp[c][w].i]
        /\ full' = full \/ full' = [full EXCEPT ![c][s] = settled]
    BY <1>6 DEF Put
  <2>2. MayBe(<<c, w>>, "wait") /\ <<c, w>> \in joined' /\ (Remote => joined' = Peers)
    BY <1>c, <2>1 DEF MayBe, WarpInv, Place, Early, Loop
  <2>3. s \in Stages /\ Contributions \in Int
    BY <1>a, <1>c
  <2>4. buffer' \in [Cluster -> [Stages -> [Peers -> Int]]]
    <3>1. buffer' = [buffer EXCEPT ![c] = [buffer[c] EXCEPT ![s] = [buffer[c][s] EXCEPT ![<<c, w>>] = warp[c][w].i]]]
      BY <1>b, <2>1
    <3>2. [buffer[c][s] EXCEPT ![<<c, w>>] = warp[c][w].i] \in [Peers -> Int]
      BY <1>b, <1>c, <2>3
    <3>3. QED
      BY <1>b, <2>3, <3>1, <3>2
  <2>5. settled \in Barrier
    <3>1. full[c][s] \in Barrier
      BY <1>b, <2>3
    <3>2. expecting \in Barrier
      BY <2>3, <3>1, BarrierType
    <3> HIDE DEF expecting, s
    <3>3. QED
      BY <2>3, <3>2, BarrierType, SettleType
  <2>6. full' \in [Cluster -> [Stages -> Barrier]]
    <3> HIDE DEF settled, s
    <3>1. [full EXCEPT ![c][s] = settled] \in [Cluster -> [Stages -> Barrier]]
      BY <1>b, <2>3, <2>5, PutBarrier
    <3>2. QED
      BY <1>b, <2>1, <3>1
  <2>7. QED
    BY <1>a, <1>b, <1>d, <2>1, <2>2, <2>4, <2>6, WarpGoes
<1>7. ASSUME NEW c \in Cluster, NEW w \in Warps, WaitFull(c, w)
      PROVE  TypeInv' /\ \A v \in Peers : WarpInv(v)'
  <2>1. /\ joined' = joined /\ Goto(c, w, "read") /\ warp[c][w].pc = "wait"
        /\ landing' = landing /\ ring' = ring /\ buffer' = buffer /\ full' = full /\ empty' = empty
    BY <1>7 DEF WaitFull
  <2>2. MayBe(<<c, w>>, "read") /\ <<c, w>> \in joined' /\ (Remote => joined' = Peers)
    BY <1>c, <2>1 DEF MayBe, WarpInv, Place, Early, Loop
  <2>3. QED
    BY <1>a, <1>b, <1>d, <2>1, <2>2, WarpGoes
<1>8. ASSUME NEW c \in Cluster, NEW w \in Warps, Release(c, w)
      PROVE  TypeInv' /\ \A v \in Peers : WarpInv(v)'
  <2> DEFINE me == warp[c][w]
             u == <<c, w>>
  <2>1. /\ joined' = joined /\ me.pc = "read" /\ warp' = [warp EXCEPT ![c][w] = NextRound(warp[c][w])]
        /\ landing' = landing /\ buffer' = buffer /\ full' = full
    BY <1>8 DEF Release
  <2>a. \/ empty' = empty
        \/ empty' = [empty EXCEPT ![c][me.stage] =
                       Settle(Arrive(empty[c][me.stage]), Contributions)]
    BY <1>8 DEF Release
  <2>b. \/ ring' = ring
        \/ ring' = [ring EXCEPT ![c][SlotOf(me.i)] =
                      [ring[c][SlotOf(me.i)] EXCEPT !.left = @ \cup {w}]]
    <3>1. \/ ring' = ring
          \/ ring' = [ring EXCEPT ![c][SlotOf(me.i)].left = @ \cup {w}]
      BY <1>8 DEF Release
    <3>2. QED
      BY <3>1
  <2>2. /\ warp' \in [Cluster -> [Warps -> WarpRecord]]
        /\ \A v \in Peers : v # u => Me(v)' = Me(v)
        /\ Me(u)' = NextRound(me)
    <3>1. Me(u) = me
      BY <1>c
    <3>2. QED
      BY <2>1, <3>1, ReleaseEffect
  <2>3. empty' \in [Cluster -> [Stages -> Barrier]]
    <3>1. me.stage \in Stages /\ Contributions \in Int
      BY <1>a, <1>c
    <3>2. empty[c][me.stage] \in Barrier
      BY <1>b, <3>1
    <3>3. Arrive(empty[c][me.stage]) \in Barrier
      BY <3>1, <3>2, BarrierType
    <3> DEFINE b == Settle(Arrive(empty[c][me.stage]), Contributions)
    <3>4. b \in Barrier
      BY <3>1, <3>3, SettleType
    <3>5. empty' = empty \/ empty' = [empty EXCEPT ![c][me.stage] = b]
      BY <2>a
    <3> HIDE DEF b
    <3>6. [empty EXCEPT ![c][me.stage] = b] \in [Cluster -> [Stages -> Barrier]]
      BY <1>b, <3>1, <3>4, PutBarrier
    <3>7. QED
      BY <1>b, <3>5, <3>6
  <2>4. ring' \in [Cluster -> [Slots -> SlotRecord]]
    <3>1. SlotOf(me.i) \in Slots
      BY <1>c, SlotType
    <3>2. ring[c][SlotOf(me.i)] \in SlotRecord
      BY <1>b, <3>1
    <3> DEFINE b == [ring[c][SlotOf(me.i)] EXCEPT !.left = @ \cup {w}]
    <3>3. b \in SlotRecord
      BY <3>2 DEF SlotRecord
    <3>4. ring' = ring \/ ring' = [ring EXCEPT ![c][SlotOf(me.i)] = b]
      BY <2>b
    <3> HIDE DEF b
    <3>5. [ring EXCEPT ![c][SlotOf(me.i)] = b] \in [Cluster -> [Slots -> SlotRecord]]
      BY <1>b, <3>1, <3>3, PutSlot
    <3>6. QED
      BY <1>b, <3>4, <3>5
  <2>5. WarpInv(u) /\ me.i < shape.rounds /\ u \in joined' /\ (Remote => joined' = Peers)
    BY <1>c, <2>1 DEF WarpInv, Early, Loop
  <2>6. WarpInv(u)'
    <3> DEFINE me2 == NextRound(me)
    <3>1. /\ me2.i = me.i + 1 /\ me2.stage = 1 - me.stage
          /\ me2.pc = IF me.i + 1 < shape.rounds THEN IterationPc ELSE AfterLoop
          /\ ~shape.persistent => me2.consumer = me.consumer /\ me2.producer = me.producer
          /\ shape.persistent => /\ me2.consumer = IF me.stage = 1 THEN 1 - me.consumer ELSE me.consumer
                                 /\ me2.producer = IF me.stage = 1 THEN 1 - me.producer ELSE me.producer
      BY <1>a, <1>c, NextRoundEffect
    <3>2. me.i \in Nat /\ me.i + 1 <= shape.rounds /\ me.stage = me.i % 2 /\ me.consumer = Half(me.i)
          /\ (shape.persistent => me.producer = 1 - Half(me.i))
      BY <1>a, <1>c, <2>5 DEF WarpInv
    <3>3. Half(me.i + 1) = IF me.i % 2 = 1 THEN 1 - Half(me.i) ELSE Half(me.i)
      BY <3>2, NextHalf
    <3>4. me2.stage = me2.i % 2
      BY <3>1, <3>2, TwoStages
    <3>5. shape.persistent => me2.consumer = Half(me2.i) /\ me2.producer = 1 - Half(me2.i)
      <4>1. Half(me.i) \in {0, 1}
        BY <3>2, TwoStages
      <4>2. QED
        BY <3>1, <3>2, <3>3, <4>1
    <3>6. me2.i < shape.rounds /\ ~shape.persistent => me2.consumer = Half(me2.i)
      <4>1. SUFFICES ASSUME me.i + 1 < shape.rounds, ~shape.persistent PROVE me.i = 0
        BY <3>1, <3>2, <3>3
      <4>2. shape.rounds \in {1, 2}
        BY <1>a, <4>1, ShapeFacts
      <4>3. QED
        BY <3>2, <4>1, <4>2
    <3> HIDE DEF me2
    <3>7. Me(u)' = me2
      BY <2>2 DEF me2
    <3>8. /\ me2.pc \in {"put", "ahead", "tail", "exit", "done"}
          /\ me2.pc \in Loop => me2.i < shape.rounds
          /\ me2.pc \in {"ahead", "load"} => shape.loads # "none"
          /\ me2.pc \in {"tail", "scratch", "exit"} => shape.persistent
          /\ me2.pc \in {"tail", "scratch", "exit", "done"} => me2.i = shape.rounds
      BY <1>a, <3>1, <3>2, Turning DEF Loop
    <3>9. QED
      BY <1>a, <2>5, <3>1, <3>2, <3>4, <3>5, <3>6, <3>7, <3>8 DEF WarpInv, Early
  <2>7. \A v \in Peers : WarpInv(v)'
    <3> HIDE DEF u
    <3>1. SUFFICES ASSUME NEW v \in Peers, v # u PROVE WarpInv(v)'
      BY <2>6
    <3>2. WarpInv(v) /\ Me(v)' = Me(v)
      BY <2>2, <3>1
    <3>3. QED
      BY <1>a, <2>1, <3>2 DEF WarpInv
  <2>8. QED
    BY <1>b, <1>d, <2>1, <2>2, <2>3, <2>4, <2>7
<1>9. ASSUME NEW c \in Cluster, NEW w \in Warps, WriteScratch(c, w)
      PROVE  TypeInv' /\ \A v \in Peers : WarpInv(v)'
  <2>1. /\ joined' = joined /\ Goto(c, w, "exit") /\ warp[c][w].pc = "scratch"
        /\ landing' = landing /\ buffer' = buffer /\ full' = full /\ empty' = empty
        /\ ring' = [ring EXCEPT ![c] = [s \in Slots |->
                      [ring[c][s] EXCEPT !.data = [v \in Warps |-> Scratch]]]]
    BY <1>9, <1>b DEF WriteScratch
  <2>2. MayBe(<<c, w>>, "exit") /\ <<c, w>> \in joined' /\ (Remote => joined' = Peers)
    BY <1>c, <2>1 DEF MayBe, WarpInv, Place, Early, Loop
  <2>3. ring' \in [Cluster -> [Slots -> SlotRecord]]
    <3>1. \A s \in Slots : ring[c][s] \in SlotRecord
      BY <1>b
    <3>2. [v \in Warps |-> Scratch] \in [Warps -> Int]
      BY DEF Scratch
    <3>3. \A s \in Slots : [ring[c][s] EXCEPT !.data = [v \in Warps |-> Scratch]] \in SlotRecord
      BY <3>1, <3>2 DEF SlotRecord
    <3>4. QED
      BY <1>b, <2>1, <3>3
  <2>4. QED
    BY <1>a, <1>b, <1>d, <2>1, <2>2, <2>3, WarpGoes
<1>10. ASSUME NEW c \in Cluster, NEW w \in Warps, Exit(c, w)
       PROVE  TypeInv' /\ \A v \in Peers : WarpInv(v)'
  <2>1. /\ joined' = joined /\ Goto(c, w, "done") /\ warp[c][w].pc = "exit"
        /\ landing' = landing /\ ring' = ring /\ buffer' = buffer /\ full' = full /\ empty' = empty
    BY <1>10 DEF Exit
  <2>2. MayBe(<<c, w>>, "done") /\ <<c, w>> \in joined' /\ (Remote => joined' = Peers)
    BY <1>c, <2>1 DEF MayBe, WarpInv, Place, Early, Loop
  <2>3. QED
    BY <1>a, <1>b, <1>d, <2>1, <2>2, WarpGoes
<1>11. ASSUME NEW c \in Cluster, CtaBarrier(c) PROVE TypeInv' /\ \A v \in Peers : WarpInv(v)'
  <2>1. PICK at \in {"wait", "tail"} :
          /\ \A w \in Warps : warp[c][w].pc = at
          /\ warp' = [warp EXCEPT ![c] = [w \in Warps |->
                        [@[w] EXCEPT !.pc = IF at = "wait" THEN "read" ELSE "scratch"]]]
          /\ joined' = joined /\ landing' = landing /\ ring' = ring /\ buffer' = buffer
          /\ full' = full /\ empty' = empty
    BY <1>11 DEF CtaBarrier
  <2> DEFINE p == IF at = "wait" THEN "read" ELSE "scratch"
  <2>2. p \in Place
    BY DEF Place
  <2>3. /\ warp' \in [Cluster -> [Warps -> WarpRecord]]
        /\ \A v \in Peers : Me(v)' = IF v[1] = c THEN [Me(v) EXCEPT !.pc = p] ELSE Me(v)
    BY <2>1, <2>2, BarrierEffect
  <2>4. ASSUME NEW v \in Peers PROVE WarpInv(v)'
    <3>1. WarpInv(v) /\ Me(v) \in WarpRecord
      BY <1>b, PeerPair DEF Me
    <3>2. CASE v[1] # c
      BY <1>a, <2>1, <2>3, <3>1, <3>2 DEF WarpInv
    <3>3. CASE v[1] = c
      <4>1. Me(v).pc = at
        BY <2>1, <3>3, PeerPair DEF Me
      <4>2. /\ Me(v)'.pc = p /\ Me(v)'.i = Me(v).i /\ Me(v)'.stage = Me(v).stage
            /\ Me(v)'.consumer = Me(v).consumer /\ Me(v)'.producer = Me(v).producer
        BY <2>3, <3>1, <3>3 DEF WarpRecord
      <4>3. QED
        BY <1>a, <2>1, <3>1, <4>1, <4>2 DEF WarpInv, Early, Loop
    <3>4. QED
      BY <3>2, <3>3
  <2>5. QED
    BY <1>b, <1>d, <2>1, <2>3, <2>4
<1>12. CASE LandLoad
  <2>1. PICK l \in landing : LandsAt(l)
    BY <1>12, LandLoadEffect
  <2>2. /\ warp' = warp /\ joined' = joined /\ buffer' = buffer /\ full' = full /\ empty' = empty
        /\ landing' = landing \ Batch(l)
        /\ ring' = [ring EXCEPT ![l[1]][l[3]] = LandedSlot(l)]
    BY <2>1 DEF LandsAt
  <2>3. \A v \in Peers : WarpInv(v)'
    BY <1>a, <2>2 DEF WarpInv, Me
  <2>4. l[1] \in Cluster /\ l[3] \in Slots /\ l[4] \in Nat
    BY <1>b
  <2>5. ring[l[1]][l[3]] \in SlotRecord
    BY <1>b, <2>4
  <2>6. LandedSlot(l) \in SlotRecord
    <3> DEFINE r == ring[l[1]][l[3]]
               d == [w \in Warps |-> IF \E m \in Batch(l) : m[2] = w THEN l[4] ELSE r.data[w]]
    <3>1. r.data \in [Warps -> Int] /\ 1 - r.full \in {0, 1}
      BY <2>5 DEF SlotRecord
    <3>2. d \in [Warps -> Int]
      BY <2>4, <3>1
    <3>3. LandedSlot(l) = [r EXCEPT !.data = d, !.full = 1 - r.full]
      BY DEF LandedSlot
    <3> HIDE DEF r, d
    <3>4. QED
      BY <2>5, <3>1, <3>2, <3>3 DEF SlotRecord, r
  <2>7. ring' \in [Cluster -> [Slots -> SlotRecord]]
    BY <1>b, <2>2, <2>4, <2>6, PutSlot
  <2>8. QED
    BY <1>b, <1>d, <2>2, <2>3, <2>7
<1>13. CASE LandRemote
  <2>1. PICK m \in flying : LandsRemote(m)
    BY <1>13, LandRemoteEffect
  <2>2. /\ warp' = warp /\ joined' = joined /\ ring' = ring /\ landing' = landing
        /\ \/ /\ buffer' = [buffer EXCEPT ![m.to][m.stage][m.from] = m.i]
              /\ full' = [full EXCEPT ![m.to][m.stage] = Settle(Land(full[m.to][m.stage]), 1)]
              /\ empty' = empty
           \/ /\ empty' = [empty EXCEPT ![m.to][m.stage] =
                             Settle(Arrive(empty[m.to][m.stage]), Contributions)]
              /\ buffer' = buffer /\ full' = full
    BY <2>1 DEF LandsRemote
  <2>3. \A v \in Peers : WarpInv(v)'
    BY <1>a, <2>2 DEF WarpInv, Me
  <2>4. /\ m.to \in Cluster /\ m.from \in Peers /\ m.i \in Nat /\ m.stage \in Stages
        /\ Contributions \in Int
    <3>1. m = Message(m.kind, m.from, m.to, m.i)
      BY DEF FlyingInv
    <3>2. m.stage = m.i % 2
      BY <3>1 DEF Message
    <3>3. QED
      BY <1>a, <3>2, TwoStages, PeersFinite DEF FlyingInv
  <2> DEFINE b == Settle(Land(full[m.to][m.stage]), 1)
             e == Settle(Arrive(empty[m.to][m.stage]), Contributions)
  <2>5. b \in Barrier /\ e \in Barrier
    <3>1. full[m.to][m.stage] \in Barrier /\ empty[m.to][m.stage] \in Barrier
      BY <1>b, <2>4
    <3>2. Land(full[m.to][m.stage]) \in Barrier /\ Arrive(empty[m.to][m.stage]) \in Barrier
      BY <2>4, <3>1, BarrierType
    <3>3. QED
      BY <2>4, <3>2, SettleType
  <2>6. \/ /\ buffer' = [buffer EXCEPT ![m.to][m.stage][m.from] = m.i]
           /\ full' = [full EXCEPT ![m.to][m.stage] = b] /\ empty' = empty
        \/ /\ empty' = [empty EXCEPT ![m.to][m.stage] = e] /\ buffer' = buffer /\ full' = full
    BY <2>2
  <2> HIDE DEF b, e
  <2>7. full' \in [Cluster -> [Stages -> Barrier]] /\ empty' \in [Cluster -> [Stages -> Barrier]]
    <3>1. /\ [full EXCEPT ![m.to][m.stage] = b] \in [Cluster -> [Stages -> Barrier]]
          /\ [empty EXCEPT ![m.to][m.stage] = e] \in [Cluster -> [Stages -> Barrier]]
      BY <1>b, <2>4, <2>5, PutBarrier
    <3>2. QED
      BY <1>b, <2>6, <3>1
  <2>8. buffer' \in [Cluster -> [Stages -> [Peers -> Int]]]
    <3>1. [buffer[m.to][m.stage] EXCEPT ![m.from] = m.i] \in [Peers -> Int]
      BY <1>b, <2>4
    <3>2. [buffer EXCEPT ![m.to][m.stage][m.from] = m.i]
            = [buffer EXCEPT ![m.to] = [buffer[m.to] EXCEPT ![m.stage] =
                                          [buffer[m.to][m.stage] EXCEPT ![m.from] = m.i]]]
      BY <1>b
    <3>3. [buffer EXCEPT ![m.to][m.stage][m.from] = m.i] \in [Cluster -> [Stages -> [Peers -> Int]]]
      BY <1>b, <2>4, <3>1, <3>2
    <3>4. QED
      BY <1>b, <2>6, <3>3
  <2>9. QED
    BY <1>b, <1>d, <2>2, <2>3, <2>7, <2>8
<1>14. QED
  BY <1>1, <1>2, <1>3, <1>4, <1>5, <1>6, <1>7, <1>8, <1>9, <1>10, <1>11, <1>12, <1>13 DEF Next, WarpStep

-----------------------------------------------------------------------------
(* What has come to a CTA. *)

\* How far a warp is.
LEMMA Counts ==
  ASSUME TypeInv, NEW v \in Peers, WarpInv(v)
  PROVE  /\ Frees(v) \in Nat /\ Reads(v) \in Nat /\ Puts(v) \in Nat
         /\ Frees(v) <= Reads(v) /\ Reads(v) <= Puts(v) /\ Puts(v) <= Frees(v) + 1
         /\ Puts(v) <= shape.rounds
<1>1. Me(v) \in WarpRecord /\ shape.rounds \in Nat
  BY PeerPair, ShapeFacts DEF TypeInv, Me
<1>2. Me(v).i \in Nat
  BY <1>1 DEF WarpRecord
<1>3. Me(v).i <= shape.rounds /\ (Me(v).pc \in {"wait", "read"} => Me(v).i < shape.rounds)
  BY DEF WarpInv, Loop
<1>4. QED
  BY <1>1, <1>2, <1>3 DEF Frees, Reads, Puts

\* The values of a round at a CTA, and the arrivals.
LEMMA InGot ==
  ASSUME NEW c, NEW r \in Nat
  PROVE  /\ Got(c)[r] \subseteq Peers
         /\ \A v \in Peers : v \in Got(c)[r] <=> r < Puts(v) /\ Message("value", v, c, r) \notin flying
BY DEF Got

LEMMA InFreed ==
  ASSUME NEW c, NEW r \in Nat
  PROVE  /\ Freed(c)[r] \subseteq Peers
         /\ \A v \in Peers : v \in Freed(c)[r] <=> r < Frees(v) /\ Message("free", v, c, r) \notin flying
BY DEF Freed

\* And in the next state.
LEMMA InGotNext ==
  ASSUME NEW c, NEW r \in Nat, shape' = shape
  PROVE  /\ Got(c)'[r] \subseteq Peers
         /\ \A v \in Peers : v \in Got(c)'[r] <=> r < Puts(v)' /\ Message("value", v, c, r) \notin flying'
<1>1. Peers' = Peers
  BY SameShape
<1>2. QED
  BY <1>1 DEF Got

LEMMA InFreedNext ==
  ASSUME NEW c, NEW r \in Nat, shape' = shape
  PROVE  /\ Freed(c)'[r] \subseteq Peers
         /\ \A v \in Peers : v \in Freed(c)'[r] <=> r < Frees(v)' /\ Message("free", v, c, r) \notin flying'
<1>1. Peers' = Peers
  BY SameShape
<1>2. QED
  BY <1>1 DEF Freed

\* One more of a finite set.
OneMoreOf(P, S, T, u) == IsFiniteSet(P) /\ S \subseteq P /\ u \in P /\ u \notin S /\ T = S \cup {u}

LEMMA OneMore ==
  ASSUME NEW P, NEW S, NEW T, NEW u, OneMoreOf(P, S, T, u)
  PROVE  /\ Cardinality(S) \in Nat /\ Cardinality(S) < Cardinality(P)
         /\ Cardinality(T) = Cardinality(S) + 1
         /\ Cardinality(T) = Cardinality(P) <=> T = P
<1>1. IsFiniteSet(P) /\ S \subseteq P /\ u \in P /\ u \notin S /\ T = S \cup {u} /\ T \subseteq P
  BY DEF OneMoreOf
<1>2. IsFiniteSet(S) /\ Cardinality(P) \in Nat /\ Cardinality(S) \in Nat
  BY <1>1, FS_Subset, FS_CardinalityType
<1>3. Cardinality(T) = Cardinality(S) + 1
  BY <1>1, <1>2, FS_AddElement
<1>4. Cardinality(T) <= Cardinality(P) /\ (Cardinality(T) = Cardinality(P) => T = P)
  BY <1>1, FS_Subset
<1>5. Cardinality(S) + 1 <= Cardinality(P)
  BY <1>3, <1>4
<1>6. Cardinality(T) = Cardinality(P) <=> T = P
  BY <1>4
<1>7. Cardinality(S) < Cardinality(P)
  BY <1>2, <1>5
<1>8. QED
  BY <1>2, <1>3, <1>6, <1>7

\* A full barrier keeps its phase when nothing comes.
LEMMA FullKept ==
  ASSUME shape' = shape, NEW c \in Cluster, NEW s \in Stages, FullInv(c, s), full'[c][s] = full[c][s],
         \A r \in Nat : r % 2 = s => /\ Got(c)'[r] = Got(c)[r]
                                     /\ r < Puts(<<c, Warp0>>)' <=> r < Puts(<<c, Warp0>>)
  PROVE  FullInv(c, s)'
<1>1. PICK r \in Nat : Open(Got(c), Peers, 2, s, r) /\ FullIs(c, s, r)
  BY DEF FullInv
<1>2. Peers' = Peers /\ Contributions' = Contributions
  BY SameShape
<1>3. r % 2 = s
  BY <1>1 DEF Open
<1>4. Open(Got(c)', Peers, 2, s, r)
  BY <1>1, OtherTurn
<1>5. FullIs(c, s, r)'
  BY <1>1, <1>2, <1>3 DEF FullIs
<1>6. QED
  BY <1>2, <1>4, <1>5 DEF FullInv

\* What a coming value finds, once the elected thread of the CTA may have
\* expected it, and does.
ValueComes(c, s, i, b) ==
  /\ Puts(<<c, Warp0>>)' \in Nat /\ Puts(<<c, Warp0>>)' <= i + 2
  /\ Got(c)'[i] = Peers => i < Puts(<<c, Warp0>>)'
  /\ b \in Barrier
  /\ FullIs(c, s, i) =>
       b = [pending |-> IF i < Puts(<<c, Warp0>>)' THEN 0 ELSE 1,
            tx |-> (IF i < Puts(<<c, Warp0>>)' THEN Contributions ELSE 0) - Cardinality(Got(c)[i]),
            phase |-> Half(i)]
  /\ full'[c][s] = Settle(Land(b), 1)

\* The phase ends with the last value, behind the elected thread.
LEMMA FullTurn ==
  ASSUME shape' = shape, shape \in Shapes, NEW c \in Cluster, NEW s \in Stages, FullInv(c, s),
         NEW i, NEW u, Comes(Got(c), Got(c)', Peers, 2, s, i, u),
         NEW b, ValueComes(c, s, i, b)
  PROVE  FullInv(c, s)'
<1> DEFINE g == Cardinality(Got(c)[i])
           sent == i < Puts(<<c, Warp0>>)'
<1>1. Peers' = Peers /\ Contributions' = Contributions /\ Contributions \in Nat /\ IsFiniteSet(Peers)
      /\ Cardinality(Peers) = Contributions
  BY SameShape, PeersFinite
<1>2. PICK r \in Nat : Open(Got(c), Peers, 2, s, r) /\ FullIs(c, s, r)
  BY DEF FullInv
<1>c. /\ i \in Nat /\ i % 2 = s
      /\ u \in Peers /\ u \notin Got(c)[i] /\ Got(c)'[i] = Got(c)[i] \cup {u}
      /\ \A q \in Nat : q # i => Got(c)'[q] = Got(c)[q]
  BY DEF Comes
<1>v. /\ Puts(<<c, Warp0>>)' \in Nat /\ Puts(<<c, Warp0>>)' <= i + 2
      /\ Got(c)'[i] = Peers => i < Puts(<<c, Warp0>>)'
      /\ b \in Barrier
      /\ FullIs(c, s, i) =>
           b = [pending |-> IF i < Puts(<<c, Warp0>>)' THEN 0 ELSE 1,
                tx |-> (IF i < Puts(<<c, Warp0>>)' THEN Contributions ELSE 0) - Cardinality(Got(c)[i]),
                phase |-> Half(i)]
      /\ full'[c][s] = Settle(Land(b), 1)
  BY DEF ValueComes
<1>t. r = i /\ StaysOrOpens(Got(c)', Peers, 2, s, i)
  BY <1>2, TurnOfTwo
<1>3. /\ r = i
      /\ Got(c)'[i] # Peers => Open(Got(c)', Peers, 2, s, i)
      /\ Got(c)'[i] = Peers => Open(Got(c)', Peers, 2, s, i + 2)
  BY <1>t DEF StaysOrOpens
<1>4. b = [pending |-> IF sent THEN 0 ELSE 1, tx |-> (IF sent THEN Contributions ELSE 0) - g,
           phase |-> Half(i)]
  BY <1>2, <1>3, <1>v
<1>5. /\ g \in Nat /\ g < Contributions /\ Cardinality(Got(c)'[i]) = g + 1
      /\ g + 1 = Contributions <=> Got(c)'[i] = Peers
  <2>1. OneMoreOf(Peers, Got(c)[i], Got(c)'[i], u)
    <3>1. Got(c)[i] \subseteq Peers
      BY <1>c, InGot
    <3>2. QED
      BY <1>1, <1>c, <3>1 DEF OneMoreOf
  <2>2. /\ Cardinality(Got(c)[i]) \in Nat /\ Cardinality(Got(c)[i]) < Cardinality(Peers)
        /\ Cardinality(Got(c)'[i]) = Cardinality(Got(c)[i]) + 1
        /\ Cardinality(Got(c)'[i]) = Cardinality(Peers) <=> Got(c)'[i] = Peers
    BY <2>1, OneMore
  <2>3. QED
    BY <1>1, <2>2
<1>6. Land(b) = [pending |-> IF sent THEN 0 ELSE 1, tx |-> (IF sent THEN Contributions ELSE 0) - (g + 1),
                 phase |-> Half(i)]
  <2>1. Land(b) = [pending |-> b.pending, tx |-> b.tx - 1, phase |-> b.phase]
    BY <1>1, <1>v, BarrierType
  <2>2. b.pending = (IF sent THEN 0 ELSE 1) /\ b.phase = Half(i)
        /\ b.tx - 1 = (IF sent THEN Contributions ELSE 0) - (g + 1)
    BY <1>1, <1>c, <1>4, <1>5
  <2>3. QED
    BY <2>1, <2>2
<1>7. CASE Got(c)'[i] = Peers
  <2>1. sent /\ g + 1 = Contributions
    BY <1>5, <1>7, <1>v
  <2>2. Land(b) = [pending |-> 0, tx |-> 0, phase |-> Half(i)]
    BY <1>1, <1>6, <2>1
  <2>3. full'[c][s] = [pending |-> 1, tx |-> 0, phase |-> 1 - Half(i)]
    BY <1>v, <2>2 DEF Settle
  <2>4. /\ i + 2 \in Nat /\ i + 2 > i /\ i + 2 # i /\ Half(i + 2) = 1 - Half(i) /\ (i + 2) % 2 = s
        /\ ~(i + 2 < Puts(<<c, Warp0>>)')
    <3>1. Half(i + 2) = 1 - Half(i) /\ (i + 2) % 2 = i % 2
      BY <1>c, TwoStages
    <3>2. QED
      BY <1>c, <1>v, <3>1
  <2>5. Got(c)'[i + 2] = {}
    <3>1. Got(c)[i + 2] = {}
      BY <1>2, <1>3, <2>4 DEF Open
    <3>2. QED
      BY <1>c, <2>4, <3>1
  <2>6. Cardinality(Got(c)'[i + 2]) = 0
    BY <2>5, FS_EmptySet
  <2>7. FullIs(c, s, i + 2)'
    BY <1>c, <2>3, <2>4, <2>6 DEF FullIs
  <2>8. QED
    BY <1>1, <1>c, <1>3, <1>7, <2>4, <2>7 DEF FullInv
<1>8. CASE Got(c)'[i] # Peers
  <2>1. ~(Land(b).pending = 0 /\ Land(b).tx = 0)
    BY <1>1, <1>5, <1>6, <1>8
  <2>2. full'[c][s] = Land(b)
    BY <1>v, <2>1 DEF Settle
  <2>3. FullIs(c, s, i)'
    BY <1>1, <1>5, <1>6, <2>2 DEF FullIs
  <2>4. QED
    BY <1>1, <1>c, <1>3, <1>8, <2>3 DEF FullInv
<1>9. QED
  BY <1>7, <1>8

\* The same of an empty barrier.
LEMMA EmptyKept ==
  ASSUME shape' = shape, NEW c \in Cluster, NEW s \in Stages, EmptyInv(c, s), empty'[c][s] = empty[c][s],
         \A r \in Nat : r % 2 = s => Freed(c)'[r] = Freed(c)[r]
  PROVE  EmptyInv(c, s)'
<1>1. PICK r \in Nat : Open(Freed(c), Peers, 2, s, r) /\ EmptyIs(c, s, r)
  BY DEF EmptyInv
<1>2. Peers' = Peers /\ Contributions' = Contributions
  BY SameShape
<1>3. r % 2 = s
  BY <1>1 DEF Open
<1>4. Open(Freed(c)', Peers, 2, s, r)
  BY <1>1, OtherTurn
<1>5. EmptyIs(c, s, r)'
  BY <1>1, <1>2, <1>3 DEF EmptyIs
<1>6. QED
  BY <1>2, <1>4, <1>5 DEF EmptyInv

LEMMA EmptyTurn ==
  ASSUME shape' = shape, shape \in Shapes, NEW c \in Cluster, NEW s \in Stages, EmptyInv(c, s),
         NEW i, NEW u, Comes(Freed(c), Freed(c)', Peers, 2, s, i, u),
         NEW b \in Barrier, EmptyIs(c, s, i) => b = empty[c][s],
         empty'[c][s] = Settle(Arrive(b), Contributions)
  PROVE  EmptyInv(c, s)'
<1> DEFINE g == Cardinality(Freed(c)[i])
<1>1. Peers' = Peers /\ Contributions' = Contributions /\ Contributions \in Nat /\ IsFiniteSet(Peers)
      /\ Cardinality(Peers) = Contributions
  BY SameShape, PeersFinite
<1>2. PICK r \in Nat : Open(Freed(c), Peers, 2, s, r) /\ EmptyIs(c, s, r)
  BY DEF EmptyInv
<1>c. /\ i \in Nat /\ i % 2 = s
      /\ u \in Peers /\ u \notin Freed(c)[i] /\ Freed(c)'[i] = Freed(c)[i] \cup {u}
      /\ \A q \in Nat : q # i => Freed(c)'[q] = Freed(c)[q]
  BY DEF Comes
<1>t. r = i /\ StaysOrOpens(Freed(c)', Peers, 2, s, i)
  BY <1>2, TurnOfTwo
<1>3. /\ r = i
      /\ Freed(c)'[i] # Peers => Open(Freed(c)', Peers, 2, s, i)
      /\ Freed(c)'[i] = Peers => Open(Freed(c)', Peers, 2, s, i + 2)
  BY <1>t DEF StaysOrOpens
<1>4. b = [pending |-> Contributions - g, tx |-> 0, phase |-> Half(i)]
  BY <1>2, <1>3 DEF EmptyIs
<1>5. /\ g \in Nat /\ g < Contributions /\ Cardinality(Freed(c)'[i]) = g + 1
      /\ g + 1 = Contributions <=> Freed(c)'[i] = Peers
  <2>1. OneMoreOf(Peers, Freed(c)[i], Freed(c)'[i], u)
    <3>1. Freed(c)[i] \subseteq Peers
      BY <1>c, InFreed
    <3>2. QED
      BY <1>1, <1>c, <3>1 DEF OneMoreOf
  <2>2. /\ Cardinality(Freed(c)[i]) \in Nat /\ Cardinality(Freed(c)[i]) < Cardinality(Peers)
        /\ Cardinality(Freed(c)'[i]) = Cardinality(Freed(c)[i]) + 1
        /\ Cardinality(Freed(c)'[i]) = Cardinality(Peers) <=> Freed(c)'[i] = Peers
    BY <2>1, OneMore
  <2>3. QED
    BY <1>1, <2>2
<1>6. Arrive(b) = [pending |-> Contributions - (g + 1), tx |-> 0, phase |-> Half(i)]
  <2>1. Arrive(b) = [pending |-> b.pending - 1, tx |-> b.tx, phase |-> b.phase]
    <3>1. b \in Barrier /\ Contributions \in Int
      BY <1>1

    <3>2. QED
      BY <3>1, BarrierType
  <2>2. b.pending - 1 = Contributions - (g + 1) /\ b.phase = Half(i) /\ b.tx = 0
    BY <1>1, <1>c, <1>4, <1>5
  <2>3. QED
    BY <2>1, <2>2
<1>7. CASE Freed(c)'[i] = Peers
  <2>1. g + 1 = Contributions
    BY <1>5, <1>7
  <2>2. Arrive(b) = [pending |-> 0, tx |-> 0, phase |-> Half(i)]
    BY <1>1, <1>6, <2>1
  <2>3. empty'[c][s] = [pending |-> Contributions, tx |-> 0, phase |-> 1 - Half(i)]
    BY <2>2 DEF Settle
  <2>4. i + 2 \in Nat /\ i + 2 > i /\ i + 2 # i /\ Half(i + 2) = 1 - Half(i) /\ (i + 2) % 2 = s
    <3>1. Half(i + 2) = 1 - Half(i) /\ (i + 2) % 2 = i % 2
      BY <1>c, TwoStages
    <3>2. QED
      BY <1>c, <3>1
  <2>5. Freed(c)'[i + 2] = {}
    <3>1. Freed(c)[i + 2] = {}
      BY <1>2, <1>3, <2>4 DEF Open
    <3>2. QED
      BY <1>c, <2>4, <3>1
  <2>6. Cardinality(Freed(c)'[i + 2]) = 0
    BY <2>5, FS_EmptySet
  <2>7. EmptyIs(c, s, i + 2)'
    BY <1>1, <2>3, <2>4, <2>6 DEF EmptyIs
  <2>8. QED
    BY <1>1, <1>c, <1>3, <1>7, <2>4, <2>7 DEF EmptyInv
<1>8. CASE Freed(c)'[i] # Peers
  <2>1. Arrive(b).pending # 0
    BY <1>1, <1>5, <1>6, <1>8
  <2>2. empty'[c][s] = Arrive(b)
    BY <2>1 DEF Settle
  <2>3. EmptyIs(c, s, i)'
    BY <1>1, <1>5, <1>6, <2>2 DEF EmptyIs
  <2>4. QED
    BY <1>1, <1>c, <1>3, <1>8, <2>3 DEF EmptyInv
<1>9. QED
  BY <1>7, <1>8

-----------------------------------------------------------------------------
(* What a warp knows when it has waited. *)

\* How far all warps are.
LEMMA AllCounts ==
  ASSUME TypeInv, \A v \in Peers : WarpInv(v)
  PROVE  \A v \in Peers : /\ Frees(v) \in Nat /\ Reads(v) \in Nat /\ Puts(v) \in Nat
                          /\ Frees(v) <= Reads(v) /\ Reads(v) <= Puts(v) /\ Puts(v) <= Frees(v) + 1
                          /\ Puts(v) <= shape.rounds
BY Counts

\* Rounds of one stage are two apart.
LEMMA SameStage ==
  ASSUME NEW q \in Nat, NEW r \in Nat, q % 2 = r % 2, q < r
  PROVE  q + 2 <= r /\ r - 2 \in Nat /\ Half(r - 2) = 1 - Half(r) /\ (r - 2) % 2 = r % 2
<1>1. q + 2 <= r
  BY SameSlot
<1>2. r - 2 \in Nat /\ (r - 2) + 2 = r
  BY <1>1
<1>3. Half((r - 2) + 2) = 1 - Half(r - 2) /\ Half(r - 2) \in {0, 1} /\ ((r - 2) + 2) % 2 = (r - 2) % 2
  BY <1>2, TwoStages
<1>4. QED
  BY <1>1, <1>2, <1>3

\* When a warp has put a value into a stage again, all warps have freed it, so
\* all values of the round before had come everywhere.
LEMMA Behind ==
  ASSUME ExchangeInv, Remote, NEW v \in Peers, NEW r \in Nat, r + 2 < Puts(v)
  PROVE  /\ Reusing /\ Freed(v[1])[r] = Peers
         /\ \A u \in Peers : r < Frees(u)
         /\ \A c \in Cluster : Got(c)[r] = Peers
<1>1. /\ TypeInv /\ \A u \in Peers : WarpInv(u)
      /\ ReadInv /\ (Reusing => PutInv)
  BY DEF ExchangeInv
<1>2. \A u \in Peers : /\ Frees(u) \in Nat /\ Reads(u) \in Nat /\ Puts(u) \in Nat
                       /\ Frees(u) <= Reads(u) /\ Puts(u) <= shape.rounds
  BY <1>1, AllCounts
<1>3. Reusing
  <2>1. shape.rounds \in Nat /\ (~shape.persistent => shape.rounds \in {1, 2})
    BY <1>1, ShapeFacts DEF TypeInv
  <2>2. Puts(v) \in Nat /\ Puts(v) <= shape.rounds
    BY <1>2
  <2>3. QED
    BY <2>1, <2>2 DEF Reusing, Remote
<1>4. Freed(v[1])[r] = Peers
  BY <1>1, <1>3 DEF PutInv
<1>5. \A u \in Peers : r < Frees(u)
  BY <1>4, InFreed
<1>6. ASSUME NEW c \in Cluster PROVE Got(c)[r] = Peers
  <2>1. <<c, Warp0>> \in Peers /\ <<c, Warp0>>[1] = c
    BY ReduceAssumption, PeerPair
  <2>2. r < Reads(<<c, Warp0>>)
    BY <1>2, <1>5, <2>1
  <2>3. QED
    BY <1>1, <2>1, <2>2 DEF ReadInv
<1>7. QED
  BY <1>3, <1>4, <1>5, <1>6

\* A warp whose wait on the full barrier passes has all values of its round.
LEMMA FullPassed ==
  ASSUME ExchangeInv, Remote, NEW c \in Cluster, NEW w \in Warps, warp[c][w].pc = "wait",
         Passed(full[c][warp[c][w].stage], warp[c][w].consumer)
  PROVE  Got(c)[warp[c][w].i] = Peers
<1> DEFINE u == <<c, w>>
           i == warp[c][w].i
<1>1. /\ TypeInv /\ ReadInv /\ (\A v \in Peers : WarpInv(v))
      /\ \A s \in Stages : FullInv(c, s)
  BY DEF ExchangeInv
<1>2. u \in Peers /\ Me(u) = warp[c][w] /\ WarpInv(u) /\ Me(u) \in WarpRecord
  BY <1>1, PeerPair DEF Me, TypeInv
<1>3. /\ i \in Nat /\ warp[c][w].stage = i % 2 /\ warp[c][w].consumer = Half(i) /\ Reads(u) = i
      /\ i % 2 \in Stages
  <2>1. i \in Nat
    BY <1>2 DEF WarpRecord
  <2>2. warp[c][w].stage = i % 2 /\ warp[c][w].consumer = Half(i) /\ Reads(u) = i
    BY <1>2 DEF WarpInv, Loop, Reads
  <2>3. QED
    BY <2>1, <2>2, TwoStages
<1>4. PICK r \in Nat : Open(Got(c), Peers, 2, i % 2, r) /\ FullIs(c, i % 2, r)
  BY <1>1, <1>3 DEF FullInv
<1>5. r % 2 = i % 2 /\ Got(c)[r] # Peers /\ (i < r => Got(c)[i] = Peers)
  BY <1>3, <1>4 DEF Open
<1>6. full[c][i % 2].phase = Half(r)
  BY <1>4 DEF FullIs
<1>7. r # i
  BY <1>3, <1>6 DEF Passed
<1>8. ~(r < i)
  <2>1. r < Reads(u) => Got(c)[r] = Peers
    BY <1>1, <1>2 DEF ReadInv
  <2>2. QED
    BY <1>3, <1>5, <2>1
<1>9. QED
  BY <1>3, <1>5, <1>7, <1>8

\* A warp whose wait on the empty barrier passes finds the stage freed by all.
LEMMA EmptyPassed ==
  ASSUME ExchangeInv, Reusing, NEW c \in Cluster, NEW w \in Warps, warp[c][w].pc = "put",
         Passed(empty[c][warp[c][w].stage], warp[c][w].producer), warp[c][w].i >= 2
  PROVE  Freed(c)[warp[c][w].i - 2] = Peers
<1> DEFINE u == <<c, w>>
           i == warp[c][w].i
<1>1. /\ TypeInv /\ PutInv /\ (\A v \in Peers : WarpInv(v))
      /\ \A s \in Stages : EmptyInv(c, s)
  BY DEF ExchangeInv
<1>2. u \in Peers /\ Me(u) = warp[c][w] /\ WarpInv(u) /\ Me(u) \in WarpRecord
  BY <1>1, PeerPair DEF Me, TypeInv
<1>3. /\ i \in Nat /\ warp[c][w].stage = i % 2 /\ warp[c][w].producer = 1 - Half(i) /\ Puts(u) = i
      /\ i % 2 \in Stages
  <2>1. i \in Nat
    BY <1>2 DEF WarpRecord
  <2>2. warp[c][w].stage = i % 2 /\ warp[c][w].producer = 1 - Half(i) /\ Puts(u) = i
    BY <1>2 DEF WarpInv, Loop, Puts, Reusing
  <2>3. QED
    BY <2>1, <2>2, TwoStages
<1>4. PICK r \in Nat : Open(Freed(c), Peers, 2, i % 2, r) /\ EmptyIs(c, i % 2, r)
  BY <1>1, <1>3 DEF EmptyInv
<1>5. r % 2 = i % 2 /\ Freed(c)[r] # Peers
      /\ (\A q \in Nat : q % 2 = i % 2 /\ q < r => Freed(c)[q] = Peers)
  BY <1>3, <1>4 DEF Open
<1>6. empty[c][i % 2].phase = Half(r)
  BY <1>4 DEF EmptyIs
<1>7. Half(r) # 1 - Half(i)
  BY <1>3, <1>6 DEF Passed
<1>8. i - 2 \in Nat /\ (i - 2) % 2 = i % 2 /\ Half(i - 2) = 1 - Half(i)
  <2>1. i - 2 \in Nat /\ (i - 2) + 2 = i
    BY <1>3
  <2>2. Half((i - 2) + 2) = 1 - Half(i - 2) /\ Half(i - 2) \in {0, 1} /\ ((i - 2) + 2) % 2 = (i - 2) % 2
    BY <2>1, TwoStages
  <2>3. QED
    BY <2>1, <2>2
<1>9. ~(r < i - 2)
  <2>1. r + 2 < Puts(u) => Freed(c)[r] = Peers
    BY <1>1, <1>2 DEF PutInv
  <2>2. QED
    BY <1>3, <1>5, <2>1
<1>10. r # i - 2
  BY <1>7, <1>8
<1>11. i - 2 < r
  BY <1>8, <1>9, <1>10
<1>12. QED
  BY <1>5, <1>8, <1>11

\* A warp that leaves finds all stages freed by all.
LEMMA ExitPassed ==
  ASSUME ExchangeInv, Reusing, NEW c \in Cluster, NEW w \in Warps, warp[c][w].pc = "exit",
         LastStageFreed(c, warp[c][w]), NEW q \in Nat, q < shape.rounds
  PROVE  Freed(c)[q] = Peers
<1> DEFINE u == <<c, w>>
           me == warp[c][w]
           l == shape.rounds - 1
<1>1. /\ TypeInv /\ PutInv /\ OrderInv /\ (\A v \in Peers : WarpInv(v))
      /\ \A s \in Stages : EmptyInv(c, s)
  BY DEF ExchangeInv
<1>2. u \in Peers /\ Me(u) = me /\ WarpInv(u) /\ Me(u) \in WarpRecord
  BY <1>1, PeerPair DEF Me, TypeInv
<1>3. /\ shape.rounds \in Nat /\ l \in Nat /\ l + 1 = shape.rounds
      /\ me.stage = shape.rounds % 2 /\ me.producer = 1 - Half(shape.rounds) /\ Puts(u) = shape.rounds
  <2>1. shape.rounds \in Nat
    BY <1>1, ShapeFacts DEF TypeInv
  <2>2. me.stage = shape.rounds % 2 /\ me.producer = 1 - Half(shape.rounds) /\ Puts(u) = shape.rounds
    BY <1>2 DEF WarpInv, Loop, Puts, Reusing
  <2>3. QED
    BY <2>1, <2>2
<1>4. /\ l % 2 \in Stages /\ Half(l) \in {0, 1} /\ shape.rounds % 2 = 1 - (l % 2)
      /\ Half(shape.rounds) = IF l % 2 = 1 THEN 1 - Half(l) ELSE Half(l)
  <2>1. /\ l % 2 \in Stages /\ Half(l) \in {0, 1} /\ (l + 1) % 2 = 1 - (l % 2)
        /\ Half(l + 1) = IF l % 2 = 1 THEN 1 - Half(l) ELSE Half(l)
    BY <1>3, TwoStages, NextHalf
  <2>2. QED
    BY <1>3, <2>1
<1> HIDE DEF l
<1>5. Passed(empty[c][l % 2], Half(l))
  <2>1. l % 2 \in {0, 1}
    BY <1>4 DEF Stages
  <2>2. 1 - me.stage = l % 2
    BY <1>3, <1>4, <2>1
  <2>3. (IF l % 2 = 0 THEN 1 - me.producer ELSE me.producer) = Half(l)
    BY <1>3, <1>4, <2>1
  <2>4. QED
    BY <2>2, <2>3 DEF LastStageFreed
<1>6. PICK r \in Nat : Open(Freed(c), Peers, 2, l % 2, r) /\ EmptyIs(c, l % 2, r)
  BY <1>1, <1>4 DEF EmptyInv
<1>7. r % 2 = l % 2 /\ Freed(c)[r] # Peers /\ (l < r => Freed(c)[l] = Peers)
  BY <1>3, <1>6 DEF Open
<1>8. Half(r) # Half(l)
  BY <1>5, <1>6 DEF EmptyIs, Passed
<1>9. ~(r < l)
  <2>1. r + 2 < Puts(u) => Freed(c)[r] = Peers
    BY <1>1, <1>2 DEF PutInv
  <2>2. r < l => r + 2 <= l
    BY <1>3, <1>7, SameStage
  <2>3. QED
    BY <1>3, <1>7, <2>1, <2>2
<1>10. Freed(c)[l] = Peers
  BY <1>3, <1>7, <1>8, <1>9
<1>11. q = l \/ q < l
  BY <1>3
<1>12. q < l => Freed(c)[l] \subseteq Freed(c)[q]
  BY <1>1, <1>3 DEF OrderInv
<1>13. Freed(c)[q] \subseteq Peers
  BY InFreed
<1>14. QED
  BY <1>10, <1>11, <1>12, <1>13

-----------------------------------------------------------------------------
(* Steps at which nothing is stored, sent or freed. *)

LEMMA GotSame ==
  ASSUME shape' = shape, NEW c, NEW r \in Nat,
         \A v \in Peers : /\ r < Puts(v)' <=> r < Puts(v)
                          /\ Message("value", v, c, r) \in flying' <=> Message("value", v, c, r) \in flying
  PROVE  Got(c)'[r] = Got(c)[r]
<1>1. Got(c)[r] \subseteq Peers /\ Got(c)'[r] \subseteq Peers
  BY InGot, InGotNext
<1>2. \A v \in Peers : v \in Got(c)'[r] <=> v \in Got(c)[r]
  BY InGot, InGotNext
<1>3. QED
  BY <1>1, <1>2

LEMMA FreedSame ==
  ASSUME shape' = shape, NEW c, NEW r \in Nat,
         \A v \in Peers : /\ r < Frees(v)' <=> r < Frees(v)
                          /\ Message("free", v, c, r) \in flying' <=> Message("free", v, c, r) \in flying
  PROVE  Freed(c)'[r] = Freed(c)[r]
<1>1. Freed(c)[r] \subseteq Peers /\ Freed(c)'[r] \subseteq Peers
  BY InFreed, InFreedNext
<1>2. \A v \in Peers : v \in Freed(c)'[r] <=> v \in Freed(c)[r]
  BY InFreed, InFreedNext
<1>3. QED
  BY <1>1, <1>2

\* Then the exchange stays as it is, but for what the warps know.
LEMMA Quiet ==
  ASSUME ExchangeInv, TypeInv', \A v \in Peers : WarpInv(v)',
         shape' = shape, buffer' = buffer, full' = full, empty' = empty, flying' = flying,
         \A v \in Peers : Puts(v)' = Puts(v) /\ Frees(v)' = Frees(v),
         Remote => ReadInv', Reusing => DoneInv', ~Remote => LockStep'
  PROVE  ExchangeInv'
<1>1. Cluster' = Cluster /\ Peers' = Peers /\ Remote' = Remote /\ Reusing' = Reusing
  BY SameShape
<1>2. /\ \A c \in Cluster, r \in Nat : Got(c)'[r] = Got(c)[r]
      /\ \A c \in Cluster, r \in Nat : Freed(c)'[r] = Freed(c)[r]
  BY GotSame, FreedSame
<1>3. FlyingInv'
  BY <1>1 DEF ExchangeInv, FlyingInv
<1>4. Warp0 \in Warps /\ \A c \in Cluster : <<c, Warp0>> \in Peers
  BY ReduceAssumption, PeerPair
<1>5. ASSUME Remote, NEW c \in Cluster, NEW s \in Stages PROVE FullInv(c, s)'
  <2>1. FullInv(c, s)
    BY <1>5 DEF ExchangeInv
  <2>2. \A r \in Nat : r % 2 = s => /\ Got(c)'[r] = Got(c)[r]
                                    /\ r < Puts(<<c, Warp0>>)' <=> r < Puts(<<c, Warp0>>)
    BY <1>2, <1>4
  <2>3. QED
    BY <2>1, <2>2, FullKept
<1>6. ASSUME Reusing, NEW c \in Cluster, NEW s \in Stages PROVE EmptyInv(c, s)'
  <2>1. EmptyInv(c, s)
    BY <1>6 DEF ExchangeInv
  <2>2. \A r \in Nat : r % 2 = s => Freed(c)'[r] = Freed(c)[r]
    BY <1>2
  <2>3. QED
    BY <2>1, <2>2, EmptyKept
<1>7. ASSUME Reusing PROVE PutInv' /\ OrderInv'
  <2>1. PutInv /\ OrderInv
    BY <1>7 DEF ExchangeInv
  <2>2. \A v \in Peers : v[1] \in Cluster
    BY PeerPair
  <2>3. PutInv'
    BY <1>1, <1>2, <2>1, <2>2 DEF PutInv
  <2>4. OrderInv'
    BY <1>1, <1>2, <2>1 DEF OrderInv
  <2>5. QED
    BY <2>3, <2>4
<1>8. BufferInv'
  BY <1>1, <1>2 DEF ExchangeInv, BufferInv
<1>9. Stages' = Stages
  BY DEF Stages
<1>10. QED
  BY <1>1, <1>3, <1>5, <1>6, <1>7, <1>8, <1>9 DEF ExchangeInv

\* No warp gets further, and those that are done know that all has been freed.
LEMMA Still ==
  ASSUME ExchangeInv, TypeInv', \A v \in Peers : WarpInv(v)',
         shape' = shape, buffer' = buffer, full' = full, empty' = empty, flying' = flying,
         \A v \in Peers : /\ Puts(v)' = Puts(v) /\ Reads(v)' = Reads(v) /\ Frees(v)' = Frees(v)
                          /\ \/ Me(v)'.pc # "done" \/ Me(v).pc = "done"
                             \/ Reusing => \A q \in Nat : q < shape.rounds => Freed(v[1])[q] = Peers
  PROVE  ExchangeInv'
<1>1. Cluster' = Cluster /\ Peers' = Peers /\ Remote' = Remote /\ Reusing' = Reusing
  BY SameShape
<1>2. /\ \A c \in Cluster, r \in Nat : Got(c)'[r] = Got(c)[r]
      /\ \A c \in Cluster, r \in Nat : Freed(c)'[r] = Freed(c)[r]
  BY GotSame, FreedSame
<1>3. \A v \in Peers : v[1] \in Cluster
  BY PeerPair
<1>4. Remote => ReadInv'
  <2>1. SUFFICES ASSUME Remote PROVE ReadInv'
    OBVIOUS
  <2>2. ReadInv
    BY <2>1 DEF ExchangeInv
  <2>3. QED
    BY <1>1, <1>2, <1>3, <2>2 DEF ReadInv
<1>5. Reusing => DoneInv'
  <2>1. SUFFICES ASSUME Reusing, NEW v \in Peers, NEW r \in Nat, Me(v)'.pc = "done", r < shape.rounds
                 PROVE  Freed(v[1])[r] = Peers
    BY <1>1, <1>2, <1>3 DEF DoneInv
  <2>2. Me(v).pc = "done" => Freed(v[1])[r] = Peers
    BY <2>1 DEF ExchangeInv, DoneInv
  <2>3. QED
    BY <2>1, <2>2
<1>6. ~Remote => LockStep'
  BY <1>1 DEF ExchangeInv, LockStep
<1>7. QED
  BY <1>4, <1>5, <1>6, Quiet

\* A warp goes on elsewhere.
LEMMA Goes ==
  ASSUME ExchangeInv, TypeInv', \A v \in Peers : WarpInv(v)',
         shape' = shape, buffer' = buffer, full' = full, empty' = empty, flying' = flying,
         NEW c \in Cluster, NEW w \in Warps, NEW p \in Place, Goto(c, w, p),
         p \notin {"wait", "read"}, warp[c][w].pc \notin {"wait", "read"},
         p = "done" /\ Reusing => \A q \in Nat : q < shape.rounds => Freed(c)[q] = Peers
  PROVE  ExchangeInv'
<1> DEFINE u == <<c, w>>
<1>1. TypeInv
  BY DEF ExchangeInv
<1>2. /\ \A v \in Peers : v # u => Me(v)' = Me(v)
      /\ Me(u)' = [Me(u) EXCEPT !.pc = p]
  BY <1>1, GotoEffect
<1>3. u \in Peers /\ Me(u) \in WarpRecord /\ Me(u).pc = warp[c][w].pc /\ u[1] = c
  BY <1>1, PeerPair DEF TypeInv, Me
<1>4. Me(u)'.pc = p /\ Me(u)'.i = Me(u).i
  BY <1>2, <1>3 DEF WarpRecord
<1>5. ASSUME NEW v \in Peers
      PROVE  /\ Puts(v)' = Puts(v) /\ Reads(v)' = Reads(v) /\ Frees(v)' = Frees(v)
             /\ \/ Me(v)'.pc # "done" \/ Me(v).pc = "done"
                \/ Reusing => \A q \in Nat : q < shape.rounds => Freed(v[1])[q] = Peers
  <2> HIDE DEF u
  <2>1. CASE v = u
    BY <1>3, <1>4, <2>1 DEF Puts, Reads, Frees
  <2>2. CASE v # u
    BY <1>2, <2>2 DEF Puts, Reads, Frees
  <2>3. QED
    BY <2>1, <2>2
<1>6. QED
  BY <1>5, Still

\* Steps of the exchange that keep all counts, one for each.
LEMMA QuietSteps ==
  ASSUME ExchangeInv, TypeInv', \A v \in Peers : WarpInv(v)', shape' = shape,
         NEW c \in Cluster, NEW w \in Warps,
         \/ Join(c, w) \/ Begin(c, w) \/ PrefetchAhead(c, w) \/ WaitLoad(c, w)
         \/ WriteScratch(c, w) \/ Exit(c, w)
  PROVE  ExchangeInv'
<1>a. TypeInv /\ WarpInv(<<c, w>>) /\ Me(<<c, w>>) = warp[c][w]
  BY PeerPair DEF ExchangeInv, Me
<1>b. shape \in Shapes /\ shape.rounds \in Nat
  BY <1>a, ShapeFacts DEF TypeInv
<1>1. CASE Join(c, w)
  <2>1. /\ Goto(c, w, "begin") /\ warp[c][w].pc = "join"
        /\ buffer' = buffer /\ full' = full /\ empty' = empty /\ flying' = flying
    BY <1>1 DEF Join
  <2>2. "begin" \in Place
    BY DEF Place
  <2>3. QED
    BY <2>1, <2>2, Goes
<1>2. CASE Begin(c, w)
  <2> DEFINE p == IF shape.rounds = 0 THEN AfterLoop ELSE IterationPc
  <2>1. /\ Goto(c, w, p) /\ warp[c][w].pc = "begin"
        /\ buffer' = buffer /\ full' = full /\ empty' = empty /\ flying' = flying
    BY <1>2 DEF Begin
  <2>2. /\ IterationPc \in {"put", "ahead"} /\ AfterLoop \in {"tail", "exit", "done"}
        /\ AfterLoop = "done" => ~shape.persistent
    BY <1>b DEF IterationPc, AfterLoop
  <2>3. p \in Place /\ p \notin {"wait", "read"}
    BY <2>2 DEF Place
  <2>4. p = "done" /\ Reusing => FALSE
    BY <2>2 DEF Reusing
  <2> HIDE DEF p
  <2>5. QED
    BY <2>1, <2>3, <2>4, Goes
<1>3. CASE PrefetchAhead(c, w)
  <2>1. /\ Goto(c, w, "load") /\ warp[c][w].pc = "ahead"
        /\ buffer' = buffer /\ full' = full /\ empty' = empty /\ flying' = flying
    BY <1>3 DEF PrefetchAhead
  <2>2. "load" \in Place
    BY DEF Place
  <2>3. QED
    BY <2>1, <2>2, Goes
<1>4. CASE WaitLoad(c, w)
  <2>1. /\ Goto(c, w, "put") /\ warp[c][w].pc = "load"
        /\ buffer' = buffer /\ full' = full /\ empty' = empty /\ flying' = flying
    BY <1>4 DEF WaitLoad
  <2>2. "put" \in Place
    BY DEF Place
  <2>3. QED
    BY <2>1, <2>2, Goes
<1>5. CASE WriteScratch(c, w)
  <2>1. /\ Goto(c, w, "exit") /\ warp[c][w].pc = "scratch"
        /\ buffer' = buffer /\ full' = full /\ empty' = empty /\ flying' = flying
    BY <1>5 DEF WriteScratch
  <2>2. "exit" \in Place
    BY DEF Place
  <2>3. QED
    BY <2>1, <2>2, Goes
<1>6. CASE Exit(c, w)
  <2>1. /\ Goto(c, w, "done") /\ warp[c][w].pc = "exit"
        /\ shape.ctas > 1 => LastStageFreed(c, warp[c][w])
        /\ buffer' = buffer /\ full' = full /\ empty' = empty /\ flying' = flying
    BY <1>6 DEF Exit
  <2>2. "done" \in Place
    BY DEF Place
  <2>3. ASSUME Reusing, NEW q \in Nat, q < shape.rounds PROVE Freed(c)[q] = Peers
    BY <2>1, <2>3, ExitPassed DEF Reusing
  <2>4. QED
    BY <2>1, <2>2, <2>3, Goes
<1>7. QED
  BY <1>1, <1>2, <1>3, <1>4, <1>5, <1>6

-----------------------------------------------------------------------------
(* Steps at which warps get to know what has come. *)

LEMMA WaitFullStep ==
  ASSUME ExchangeInv, TypeInv', \A v \in Peers : WarpInv(v)', shape' = shape,
         NEW c \in Cluster, NEW w \in Warps, WaitFull(c, w)
  PROVE  ExchangeInv'
<1> DEFINE u == <<c, w>>
           i == warp[c][w].i
<1>1. TypeInv /\ "read" \in Place
  BY DEF ExchangeInv, Place
<1>2. /\ Remote /\ warp[c][w].pc = "wait" /\ Goto(c, w, "read")
      /\ Passed(full[c][warp[c][w].stage], warp[c][w].consumer)
      /\ buffer' = buffer /\ full' = full /\ empty' = empty /\ flying' = flying
  BY DEF WaitFull, Remote
<1>3. /\ \A v \in Peers : v # u => Me(v)' = Me(v)
      /\ Me(u)' = [Me(u) EXCEPT !.pc = "read"]
  BY <1>1, <1>2, GotoEffect
<1>4. u \in Peers /\ Me(u) \in WarpRecord /\ Me(u) = warp[c][w] /\ u[1] = c
  BY <1>1, PeerPair DEF TypeInv, Me
<1>5. Me(u)'.pc = "read" /\ Me(u)'.i = i /\ Me(u).pc = "wait" /\ Me(u).i = i /\ i \in Nat
  BY <1>2, <1>3, <1>4 DEF WarpRecord
<1>6. Got(c)[i] = Peers
  BY <1>2, FullPassed
<1> HIDE DEF u, i
<1>7. /\ Cluster' = Cluster /\ Peers' = Peers /\ Remote' = Remote /\ Reusing' = Reusing
      /\ \A v \in Peers : v[1] \in Cluster
  BY SameShape, PeerPair
<1>8. \A v \in Peers : Puts(v)' = Puts(v) /\ Frees(v)' = Frees(v)
  <2>1. SUFFICES ASSUME NEW v \in Peers PROVE Puts(v)' = Puts(v) /\ Frees(v)' = Frees(v)
    OBVIOUS
  <2>2. CASE v = u
    BY <1>5, <2>2 DEF Puts, Frees
  <2>3. CASE v # u
    BY <1>3, <2>3 DEF Puts, Frees
  <2>4. QED
    BY <2>2, <2>3
<1>9. /\ \A d \in Cluster, r \in Nat : Got(d)'[r] = Got(d)[r]
      /\ \A d \in Cluster, r \in Nat : Freed(d)'[r] = Freed(d)[r]
  BY <1>2, <1>8, GotSame, FreedSame
<1>10. ReadInv'
  <2>1. SUFFICES ASSUME NEW v \in Peers, NEW r \in Nat, r < Reads(v)' PROVE Got(v[1])[r] = Peers
    BY <1>7, <1>9 DEF ReadInv
  <2>2. r < Reads(v) => Got(v[1])[r] = Peers
    BY <1>2 DEF ExchangeInv, ReadInv
  <2>3. CASE v # u
    <3>1. Reads(v)' = Reads(v)
      BY <1>3, <2>3 DEF Reads
    <3>2. QED
      BY <2>1, <2>2, <3>1
  <2>4. CASE v = u
    <3>1. Reads(v)' = i + 1 /\ Reads(v) = i
      BY <1>5, <2>4 DEF Reads
    <3>2. r = i \/ r < i
      BY <1>5, <2>1, <3>1
    <3>3. QED
      BY <1>4, <1>6, <2>2, <2>4, <3>1, <3>2
  <2>5. QED
    BY <2>3, <2>4
<1>11. Reusing => DoneInv'
  <2>1. SUFFICES ASSUME Reusing, NEW v \in Peers, NEW r \in Nat, Me(v)'.pc = "done", r < shape.rounds
                 PROVE  Freed(v[1])[r] = Peers
    BY <1>7, <1>9 DEF DoneInv
  <2>2. v # u
    BY <1>5, <2>1
  <2>3. QED
    BY <1>3, <2>1, <2>2 DEF ExchangeInv, DoneInv
<1>12. QED
  BY <1>2, <1>8, <1>10, <1>11, Quiet

LEMMA CtaBarrierStep ==
  ASSUME ExchangeInv, TypeInv', \A v \in Peers : WarpInv(v)', shape' = shape,
         NEW c \in Cluster, CtaBarrier(c)
  PROVE  ExchangeInv'
<1>1. TypeInv
  BY DEF ExchangeInv
<1>2. PICK at \in {"wait", "tail"} :
        /\ at = "wait" => shape.ctas = 1
        /\ \A w \in Warps : warp[c][w].pc = at
        /\ warp' = [warp EXCEPT ![c] = [w \in Warps |->
                      [@[w] EXCEPT !.pc = IF at = "wait" THEN "read" ELSE "scratch"]]]
        /\ buffer' = buffer /\ full' = full /\ empty' = empty /\ flying' = flying
  BY DEF CtaBarrier
<1> DEFINE p == IF at = "wait" THEN "read" ELSE "scratch"
<1>3. p \in Place
  BY DEF Place
<1>4. \A v \in Peers : Me(v)' = IF v[1] = c THEN [Me(v) EXCEPT !.pc = p] ELSE Me(v)
  BY <1>1, <1>2, <1>3, BarrierEffect
<1>5. \A v \in Peers : Me(v) \in WarpRecord /\ (v[1] = c => Me(v).pc = at)
  BY <1>1, <1>2, PeerPair DEF TypeInv, Me
<1>6. ASSUME NEW v \in Peers
      PROVE  IF v[1] = c THEN Me(v)'.pc = p /\ Me(v)'.i = Me(v).i /\ Me(v).pc = at /\ Me(v).i \in Nat
                         ELSE Me(v)' = Me(v)
  BY <1>4, <1>5 DEF WarpRecord
<1>7. CASE at = "wait"
  <2>1. ~Remote /\ ~Reusing /\ Cluster = 0 .. 0 /\ Cluster = {0}
    BY <1>2, <1>7 DEF Remote, Reusing, Cluster
  <2>2. \A v \in Peers : v[1] = c
    BY <2>1, PeerPair
  <2>3. \A v \in Peers : Me(v)'.pc = "read" /\ Me(v)'.i = Me(v).i /\ Me(v).pc = "wait" /\ Me(v).i \in Nat
    BY <1>6, <1>7, <2>2
  <2>4. \A v \in Peers : Puts(v)' = Puts(v) /\ Frees(v)' = Frees(v)
    BY <2>3 DEF Puts, Frees
  <2>5. \A v \in Peers : Reads(v)' = Reads(v) + 1
    BY <2>3 DEF Reads
  <2>6. LockStep'
    <3>1. LockStep /\ Peers' = Peers
      BY <2>1, SameShape DEF ExchangeInv
    <3>2. QED
      BY <2>5, <3>1 DEF LockStep
  <2>7. QED
    BY <1>2, <2>1, <2>4, <2>6, Quiet
<1>8. CASE at = "tail"
  <2>1. \A v \in Peers : /\ Puts(v)' = Puts(v) /\ Reads(v)' = Reads(v) /\ Frees(v)' = Frees(v)
                         /\ Me(v)'.pc # "done" \/ Me(v).pc = "done"
    BY <1>6, <1>8 DEF Puts, Reads, Frees
  <2>2. QED
    BY <1>2, <2>1, Still
<1>9. QED
  BY <1>7, <1>8

LEMMA LandLoadStep ==
  ASSUME ExchangeInv, TypeInv', \A v \in Peers : WarpInv(v)', shape' = shape,
         warp' = warp, buffer' = buffer, full' = full, empty' = empty, flying' = flying
  PROVE  ExchangeInv'
<1>1. \A v \in Peers : /\ Puts(v)' = Puts(v) /\ Reads(v)' = Reads(v) /\ Frees(v)' = Frees(v)
                       /\ Me(v)'.pc # "done" \/ Me(v).pc = "done"
  BY DEF Puts, Reads, Frees, Me
<1>2. QED
  BY <1>1, Still

-----------------------------------------------------------------------------
(* A warp stores its value. *)

\* A set of arrived warps that stays.
LEMMA GotStays ==
  ASSUME shape' = shape, NEW c, NEW r \in Nat,
         \A v \in Peers : r < Puts(v)' /\ Message("value", v, c, r) \notin flying'
                            <=> r < Puts(v) /\ Message("value", v, c, r) \notin flying
  PROVE  Got(c)'[r] = Got(c)[r]
<1>1. Got(c)[r] \subseteq Peers /\ Got(c)'[r] \subseteq Peers
  BY InGot, InGotNext
<1>2. \A v \in Peers : v \in Got(c)'[r] <=> v \in Got(c)[r]
  BY InGot, InGotNext
<1>3. QED
  BY <1>1, <1>2

LEMMA FreedStays ==
  ASSUME shape' = shape, NEW c, NEW r \in Nat,
         \A v \in Peers : r < Frees(v)' /\ Message("free", v, c, r) \notin flying'
                            <=> r < Frees(v) /\ Message("free", v, c, r) \notin flying
  PROVE  Freed(c)'[r] = Freed(c)[r]
<1>1. Freed(c)[r] \subseteq Peers /\ Freed(c)'[r] \subseteq Peers
  BY InFreed, InFreedNext
<1>2. \A v \in Peers : v \in Freed(c)'[r] <=> v \in Freed(c)[r]
  BY InFreed, InFreedNext
<1>3. QED
  BY <1>1, <1>2

\* The counters, and what flies.
PutDone(c, u, i) ==
  /\ shape' = shape /\ c \in Cluster /\ u \in Peers /\ u[1] = c /\ i \in Nat
  /\ Puts(u) = i /\ Puts(u)' = i + 1 /\ Reads(u) = i /\ Me(u)'.pc = "wait"
  /\ \A v \in Peers : /\ Reads(v)' = Reads(v) /\ Frees(v)' = Frees(v)
                      /\ v # u => Puts(v)' = Puts(v) /\ Me(v)' = Me(v)
  /\ flying' = flying \cup {Message("value", u, d, i) : d \in Cluster \ {c}}

LEMMA PutEffect ==
  ASSUME ExchangeInv, shape' = shape, NEW c \in Cluster, NEW w \in Warps, Put(c, w)
  PROVE  PutDone(c, <<c, w>>, warp[c][w].i) /\ warp[c][w].stage = warp[c][w].i % 2
<1> DEFINE u == <<c, w>>
           i == warp[c][w].i
<1>1. TypeInv /\ "wait" \in Place
  BY DEF ExchangeInv, Place
<1>2. /\ warp[c][w].pc = "put" /\ Goto(c, w, "wait")
      /\ flying' = flying \cup {[kind |-> "value", from |-> u, to |-> d, stage |-> warp[c][w].stage, i |-> i]
                                : d \in Cluster \ {c}}
  BY DEF Put
<1>3. /\ \A v \in Peers : v # u => Me(v)' = Me(v)
      /\ Me(u)' = [Me(u) EXCEPT !.pc = "wait"]
  BY <1>1, <1>2, GotoEffect
<1>4. u \in Peers /\ Me(u) \in WarpRecord /\ Me(u) = warp[c][w] /\ u[1] = c
  BY <1>1, PeerPair DEF TypeInv, Me
<1>5. Me(u)'.pc = "wait" /\ Me(u)'.i = i /\ Me(u).pc = "put" /\ Me(u).i = i /\ i \in Nat
  BY <1>2, <1>3, <1>4 DEF WarpRecord
<1>6. warp[c][w].stage = i % 2
  BY <1>4 DEF ExchangeInv, WarpInv
<1>7. flying' = flying \cup {Message("value", u, d, i) : d \in Cluster \ {c}}
  BY <1>2, <1>6 DEF Message
<1> HIDE DEF u, i
<1>8. Puts(u) = i /\ Puts(u)' = i + 1 /\ Reads(u) = i /\ Reads(u)' = i /\ Frees(u)' = Frees(u)
  BY <1>5 DEF Puts, Reads, Frees
<1>9. \A v \in Peers : v # u => Puts(v)' = Puts(v) /\ Reads(v)' = Reads(v) /\ Frees(v)' = Frees(v)
  BY <1>3 DEF Puts, Reads, Frees
<1>10. PutDone(c, u, i)
  BY <1>3, <1>4, <1>5, <1>7, <1>8, <1>9 DEF PutDone
<1>11. QED
  BY <1>6, <1>10 DEF u, i

\* The warp's own CTA has the value; all else is as it was.
LEMMA PutComes ==
  ASSUME ExchangeInv, NEW c, NEW u, NEW i, PutDone(c, u, i)
  PROVE  /\ u \notin Got(c)[i] /\ Got(c)'[i] = Got(c)[i] \cup {u}
         /\ \A d \in Cluster, r \in Nat : d # c \/ r # i => Got(d)'[r] = Got(d)[r]
         /\ \A d \in Cluster, r \in Nat : Freed(d)'[r] = Freed(d)[r]
         /\ Remote => Comes(Got(c), Got(c)', Peers, 2, i % 2, i, u)
<1>1. /\ shape' = shape /\ c \in Cluster /\ u \in Peers /\ u[1] = c /\ i \in Nat
      /\ Puts(u) = i /\ Puts(u)' = i + 1 /\ Reads(u) = i
      /\ \A v \in Peers : Frees(v)' = Frees(v) /\ (v # u => Puts(v)' = Puts(v))
      /\ flying' = flying \cup {Message("value", u, d, i) : d \in Cluster \ {c}}
  BY DEF PutDone
<1>2. \A k, v, d, r : Message(k, v, d, r) \in flying' <=>
        \/ Message(k, v, d, r) \in flying
        \/ k = "value" /\ v = u /\ d \in Cluster \ {c} /\ r = i
  <2>1. SUFFICES ASSUME NEW k, NEW v, NEW d, NEW r
                 PROVE  Message(k, v, d, r) \in {Message("value", u, e, i) : e \in Cluster \ {c}}
                          <=> k = "value" /\ v = u /\ d \in Cluster \ {c} /\ r = i
    BY <1>1
  <2>2. ASSUME NEW e \in Cluster \ {c}, Message(k, v, d, r) = Message("value", u, e, i)
        PROVE  k = "value" /\ v = u /\ d \in Cluster \ {c} /\ r = i
    BY <2>2, SameMessage
  <2>3. QED
    BY <2>2
<1>3. Message("value", u, c, i) \notin flying
  <2>1. ASSUME Message("value", u, c, i) \in flying PROVE FALSE
    <3>1. Message("value", u, c, i).to # Message("value", u, c, i).from[1]
      BY <2>1 DEF ExchangeInv, FlyingInv
    <3>2. Message("value", u, c, i).to = c /\ Message("value", u, c, i).from = u
      BY DEF Message
    <3>3. QED
      BY <1>1, <3>1, <3>2
  <2>2. QED
    BY <2>1
<1>4. u \notin Got(c)[i]
  BY <1>1, InGot
<1>5. Got(c)'[i] = Got(c)[i] \cup {u}
  <2>1. \A v \in Peers : v \in Got(c)'[i] <=> v \in Got(c)[i] \/ v = u
    <3>1. SUFFICES ASSUME NEW v \in Peers PROVE v \in Got(c)'[i] <=> v \in Got(c)[i] \/ v = u
      OBVIOUS
    <3>2. /\ v \in Got(c)'[i] <=> i < Puts(v)' /\ Message("value", v, c, i) \notin flying'
          /\ v \in Got(c)[i] <=> i < Puts(v) /\ Message("value", v, c, i) \notin flying
      BY <1>1, InGot, InGotNext
    <3>3. CASE v = u
      BY <1>1, <1>2, <1>3, <3>2, <3>3
    <3>4. CASE v # u
      BY <1>1, <1>2, <3>2, <3>4
    <3>5. QED
      BY <3>3, <3>4
  <2>2. Got(c)'[i] \subseteq Peers /\ Got(c)[i] \subseteq Peers
    BY <1>1, InGot, InGotNext
  <2>3. QED
    BY <1>1, <2>1, <2>2
<1>6. ASSUME NEW d \in Cluster, NEW r \in Nat, d # c \/ r # i PROVE Got(d)'[r] = Got(d)[r]
  <2>1. ASSUME NEW v \in Peers
        PROVE  r < Puts(v)' /\ Message("value", v, d, r) \notin flying'
                 <=> r < Puts(v) /\ Message("value", v, d, r) \notin flying
    <3>1. CASE v # u
      BY <1>1, <1>2, <3>1
    <3>2. CASE v = u /\ r # i
      BY <1>1, <1>2, <3>2
    <3>3. CASE v = u /\ r = i
      <4>1. Message("value", v, d, r) \in flying'
        BY <1>2, <1>6, <3>3
      <4>2. QED
        BY <1>1, <3>3, <4>1
    <3>4. QED
      BY <3>1, <3>2, <3>3
  <2>2. QED
    BY <1>1, <2>1, GotStays
<1>7. ASSUME NEW d \in Cluster, NEW r \in Nat PROVE Freed(d)'[r] = Freed(d)[r]
  <2>1. "free" # "value"
    OBVIOUS
  <2>2. ASSUME NEW v \in Peers
        PROVE  r < Frees(v)' /\ Message("free", v, d, r) \notin flying'
                 <=> r < Frees(v) /\ Message("free", v, d, r) \notin flying
    BY <1>1, <1>2, <2>1
  <2>3. QED
    BY <1>1, <2>2, FreedStays
<1>8. ASSUME Remote PROVE Comes(Got(c), Got(c)', Peers, 2, i % 2, i, u)
  <2>1. i >= 2 => Got(c)[i - 2] = Peers
    <3>1. SUFFICES ASSUME i >= 2 PROVE Got(c)[i - 2] = Peers
      OBVIOUS
    <3>2. i - 2 \in Nat /\ i - 2 < Reads(u)
      BY <1>1, <3>1
    <3>3. QED
      BY <1>1, <1>8, <3>2 DEF ExchangeInv, ReadInv
  <2>2. \A q \in Nat : q # i => Got(c)'[q] = Got(c)[q]
    BY <1>1, <1>6
  <2>3. QED
    BY <1>1, <1>4, <1>5, <2>1, <2>2 DEF Comes
<1>9. QED
  BY <1>4, <1>5, <1>6, <1>7, <1>8

LEMMA PutFlying ==
  ASSUME ExchangeInv, NEW c, NEW u, NEW i, PutDone(c, u, i)
  PROVE  FlyingInv'
<1>1. /\ shape' = shape /\ c \in Cluster /\ u \in Peers /\ u[1] = c /\ i \in Nat
      /\ Puts(u) = i /\ Puts(u)' = i + 1
      /\ \A v \in Peers : Frees(v)' = Frees(v) /\ (v # u => Puts(v)' = Puts(v))
      /\ flying' = flying \cup {Message("value", u, d, i) : d \in Cluster \ {c}}
  BY DEF PutDone
<1>2. Cluster' = Cluster /\ Peers' = Peers /\ Remote' = Remote
  BY <1>1, SameShape
<1>3. \A v \in Peers, r \in Nat : r < Puts(v) => r < Puts(v)'
  BY <1>1
<1>4. SUFFICES ASSUME NEW m \in flying'
               PROVE  /\ Remote /\ m.from \in Peers /\ m.to \in Cluster /\ m.to # m.from[1] /\ m.i \in Nat
                      /\ m = Message(m.kind, m.from, m.to, m.i)
                      /\ \/ m.kind = "value" /\ m.i < Puts(m.from)'
                         \/ m.kind = "free" /\ m.i < Frees(m.from)' /\ shape.persistent
  BY <1>1, <1>2 DEF FlyingInv, Message
<1>5. CASE m \in flying
  BY <1>1, <1>3, <1>5 DEF ExchangeInv, FlyingInv
<1>6. CASE m \notin flying
  <2>1. PICK d \in Cluster \ {c} : m = Message("value", u, d, i)
    BY <1>1, <1>6
  <2>2. m.kind = "value" /\ m.from = u /\ m.to = d /\ m.i = i
    BY <2>1 DEF Message
  <2>3. Remote
    <3>1. shape.ctas \in Nat \ {0}
      BY ShapeFacts DEF ExchangeInv, TypeInv
    <3>2. QED
      BY <1>1, <3>1 DEF Remote, Cluster
  <2>4. i < Puts(u)'
    BY <1>1
  <2>5. QED
    BY <1>1, <2>1, <2>2, <2>3, <2>4
<1>7. QED
  BY <1>5, <1>6

\* The full barrier of the stage.
LEMMA PutFull ==
  ASSUME ExchangeInv, Remote, NEW c \in Cluster, NEW w \in Warps, Put(c, w), shape' = shape,
         NEW d \in Cluster, NEW t \in Stages
  PROVE  FullInv(d, t)'
<1> DEFINE u == <<c, w>>
           z == <<c, Warp0>>
<1>0. PICK i \in Nat, s \in Stages :
        warp[c][w].i = i /\ s = i % 2 /\ PutDone(c, u, i) /\ warp[c][w].stage = s
  <2>1. PutDone(c, u, warp[c][w].i) /\ warp[c][w].stage = warp[c][w].i % 2
    BY PutEffect
  <2>2. warp[c][w].i \in Nat
    BY <2>1 DEF PutDone
  <2>3. warp[c][w].i % 2 \in Stages
    BY <2>2, TwoStages
  <2>4. QED
    BY <2>1, <2>2, <2>3
<1> DEFINE b == IF w = Warp0 THEN Expect(full[c][s]) ELSE full[c][s]
<1>1. PutDone(c, u, i) /\ warp[c][w].stage = s /\ s = i % 2
  BY <1>0
<1>2. full' = [full EXCEPT ![c][s] = Settle(Land(b), 1)]
  BY <1>1 DEF Put, Remote
<1>3. /\ u \notin Got(c)[i] /\ Got(c)'[i] = Got(c)[i] \cup {u}
      /\ \A e \in Cluster, r \in Nat : e # c \/ r # i => Got(e)'[r] = Got(e)[r]
      /\ Comes(Got(c), Got(c)', Peers, 2, s, i, u)
  BY <1>1, PutComes
<1>4. /\ u \in Peers /\ u[1] = c /\ i \in Nat /\ Puts(u) = i /\ Puts(u)' = i + 1
      /\ \A v \in Peers : v # u => Puts(v)' = Puts(v)
  BY <1>1 DEF PutDone
<1>5. /\ shape \in Shapes /\ full \in [Cluster -> [Stages -> Barrier]] /\ FullInv(d, t)
      /\ TypeInv /\ \A v \in Peers : WarpInv(v)
  BY DEF ExchangeInv, TypeInv
<1>6. s \in Stages /\ z \in Peers /\ z[1] = c /\ Contributions \in Nat
  BY <1>4, <1>5, PeersFinite, PeerPair
<1>7. (u = z) <=> (w = Warp0)
  OBVIOUS
<1>8. CASE d = c /\ t = s
  <2>1. full[c][s] \in Barrier
    BY <1>5, <1>6
  <2>2. b \in Barrier
    BY <1>6, <2>1, BarrierType
  <2>3. full'[c][s] = Settle(Land(b), 1)
    BY <1>2, <1>5, <1>6
  <2>4. Puts(z)' \in Nat /\ Puts(z)' <= i + 2
    <3>1. CASE w = Warp0
      BY <1>4, <1>7, <3>1
    <3>2. CASE w # Warp0
      <4>1. Puts(z)' = Puts(z)
        BY <1>4, <1>6, <1>7, <3>2
      <4>2. /\ Reads(z) \in Nat /\ Puts(z) \in Nat /\ Frees(z) \in Nat
            /\ Frees(z) <= Reads(z) /\ Puts(z) <= Frees(z) + 1
        BY <1>5, <1>6, AllCounts
      <4>3. ~(i < Reads(z))
        BY <1>3, <1>4, <1>6 DEF ExchangeInv, ReadInv
      <4>4. QED
        BY <1>4, <4>1, <4>2, <4>3
    <3>3. QED
      BY <3>1, <3>2
  <2>5. Got(c)'[i] = Peers => i < Puts(z)'
    <3>1. shape' = shape
      OBVIOUS
    <3>2. QED
      BY <1>4, <1>6, <3>1, InGotNext
  <2>6. ASSUME FullIs(c, s, i)
        PROVE  b = [pending |-> IF i < Puts(z)' THEN 0 ELSE 1,
                    tx |-> (IF i < Puts(z)' THEN Contributions ELSE 0) - Cardinality(Got(c)[i]),
                    phase |-> Half(i)]
    <3>1. full[c][s] = [pending |-> IF i < Puts(z) THEN 0 ELSE 1,
                        tx |-> (IF i < Puts(z) THEN Contributions ELSE 0) - Cardinality(Got(c)[i]),
                        phase |-> Half(i)]
      BY <2>6 DEF FullIs
    <3>2. CASE w # Warp0
      <4>1. b = full[c][s] /\ Puts(z)' = Puts(z)
        BY <1>4, <1>6, <1>7, <3>2
      <4>2. QED
        BY <3>1, <4>1
    <3>3. CASE w = Warp0
      <4>1. ~(i < Puts(z)) /\ i < Puts(z)'
        BY <1>4, <1>7, <3>3
      <4>2. full[c][s].pending = 1 /\ full[c][s].tx = 0 - Cardinality(Got(c)[i])
            /\ full[c][s].phase = Half(i)
        BY <3>1, <4>1
      <4>a. Expect(full[c][s]) = [pending |-> full[c][s].pending - 1,
                                  tx |-> full[c][s].tx + Contributions, phase |-> full[c][s].phase]
        <5>1. PICK x \in Barrier : x = full[c][s]
          BY <2>1
        <5>2. Contributions \in Int
          BY <1>6
        <5>3. Expect(x) = [pending |-> x.pending - 1, tx |-> x.tx + Contributions, phase |-> x.phase]
          BY <5>2, BarrierType
        <5>4. QED
          BY <5>1, <5>3
      <4>3. b = [pending |-> full[c][s].pending - 1, tx |-> full[c][s].tx + Contributions,
                 phase |-> full[c][s].phase]
        BY <3>3, <4>a
      <4>4. Cardinality(Got(c)[i]) \in Nat
        <5>1. Got(c)[i] \subseteq Peers /\ IsFiniteSet(Peers)
          BY <1>4, <1>5, InGot, PeersFinite
        <5>2. QED
          BY <5>1, FS_Subset, FS_CardinalityType
      <4>5. full[c][s].tx + Contributions = Contributions - Cardinality(Got(c)[i])
            /\ full[c][s].pending - 1 = 0
        BY <1>6, <4>2, <4>4
      <4>6. QED
        BY <4>1, <4>2, <4>3, <4>5
    <3>4. QED
      BY <3>2, <3>3
  <2>7. ValueComes(c, s, i, b)
    BY <2>2, <2>3, <2>4, <2>5, <2>6 DEF ValueComes
  <2> HIDE DEF b, z, u
  <2>8. FullInv(c, s)
    BY <1>5, <1>8
  <2>9. FullInv(c, s)'
    BY <1>3, <1>5, <1>6, <2>7, <2>8, FullTurn
  <2>10. QED
    BY <1>8, <2>9
<1>9. CASE ~(d = c /\ t = s)
  <2>1. full'[d][t] = full[d][t]
    BY <1>2, <1>5, <1>6, <1>9
  <2>2. ASSUME NEW r \in Nat, r % 2 = t
        PROVE  Got(d)'[r] = Got(d)[r] /\ (r < Puts(<<d, Warp0>>)' <=> r < Puts(<<d, Warp0>>))
    <3>1. d # c \/ r # i
      BY <1>1, <1>9, <2>2
    <3>2. Got(d)'[r] = Got(d)[r]
      BY <1>3, <3>1
    <3>3. <<d, Warp0>> \in Peers
      BY ReduceAssumption, PeerPair
    <3>4. CASE <<d, Warp0>> # u
      BY <1>4, <3>2, <3>3, <3>4
    <3>5. CASE <<d, Warp0>> = u
      <4>1. r # i
        BY <3>1, <3>5
      <4>2. QED
        BY <1>4, <3>2, <3>5, <4>1
    <3>6. QED
      BY <3>4, <3>5
  <2>3. QED
    BY <1>5, <2>1, <2>2, FullKept
<1>10. QED
  BY <1>8, <1>9

\* The buffers.
LEMMA PutBuffer ==
  ASSUME ExchangeInv, NEW c \in Cluster, NEW w \in Warps, Put(c, w), shape' = shape
  PROVE  BufferInv'
<1> DEFINE u == <<c, w>>
           i == warp[c][w].i
           s == i % 2
<1>1. PutDone(c, u, i) /\ warp[c][w].stage = s
  BY PutEffect
<1>2. buffer' = [buffer EXCEPT ![c][s][u] = i]
  BY <1>1 DEF Put
<1>3. /\ Got(c)'[i] = Got(c)[i] \cup {u}
      /\ \A e \in Cluster, r \in Nat : e # c \/ r # i => Got(e)'[r] = Got(e)[r]
  BY <1>1, PutComes
<1>4. /\ u \in Peers /\ u[1] = c /\ i \in Nat /\ Puts(u) = i /\ Puts(u)' = i + 1
      /\ \A v \in Peers : v # u => Puts(v)' = Puts(v)
  BY <1>1 DEF PutDone
<1>5. buffer \in [Cluster -> [Stages -> [Peers -> Int]]] /\ s \in Stages
  BY <1>4, TwoStages DEF ExchangeInv, TypeInv
<1> HIDE DEF u, s, i
<1>6. \A d \in Cluster, t \in Stages, v \in Peers :
        buffer'[d][t][v] = IF d = c /\ t = s /\ v = u THEN i ELSE buffer[d][t][v]
  BY <1>2, <1>4, <1>5
<1>7. Peers' = Peers /\ Cluster' = Cluster
  BY SameShape
<1>8. SUFFICES ASSUME NEW d \in Cluster, NEW v \in Peers, NEW r \in Nat,
                      v \in Got(d)'[r], Puts(v)' <= r + 2
               PROVE  buffer'[d][r % 2][v] = r
  BY <1>7 DEF BufferInv
<1>9. r % 2 \in Stages
  BY TwoStages
<1>10. v \in Got(d)[r] /\ Puts(v) <= r + 2 => buffer[d][r % 2][v] = r
  BY DEF ExchangeInv, BufferInv
<1>11. CASE v # u
  <2>1. v \in Got(d)[r]
    BY <1>3, <1>4, <1>8, <1>11
  <2>2. QED
    BY <1>4, <1>6, <1>8, <1>9, <1>10, <1>11, <2>1
<1>12. CASE v = u
  <2>1. Puts(u) <= r + 2 /\ i + 1 <= r + 2
    BY <1>4, <1>8, <1>12
  <2>2. CASE d = c /\ r = i
    BY <1>6, <1>9, <1>12, <2>2 DEF s
  <2>3. CASE d # c
    BY <1>3, <1>6, <1>8, <1>9, <1>10, <1>12, <2>1, <2>3
  <2>4. CASE d = c /\ r # i
    <3>1. v \in Got(d)[r]
      BY <1>3, <1>4, <1>8, <2>4
    <3>2. r < i
      <4>1. r < Puts(u)
        BY <1>12, <3>1, InGot
      <4>2. QED
        BY <1>4, <4>1
    <3>3. r % 2 # s
      <4>1. r % 2 = i % 2 => r + 2 <= i
        BY <1>4, <3>2, SameStage
      <4>2. ~(r + 2 <= i)
        BY <1>4, <2>1
      <4>3. QED
        BY <4>1, <4>2 DEF s
    <3>4. QED
      BY <1>6, <1>9, <1>10, <1>12, <2>1, <3>1, <3>3
  <2>5. QED
    BY <2>2, <2>3, <2>4
<1>13. QED
  BY <1>11, <1>12

LEMMA PutStep ==
  ASSUME ExchangeInv, TypeInv', \A v \in Peers : WarpInv(v)', shape' = shape,
         NEW c \in Cluster, NEW w \in Warps, Put(c, w)
  PROVE  ExchangeInv'
<1> DEFINE u == <<c, w>>
<1>1. PICK i \in Nat : PutDone(c, u, i) /\ i = warp[c][w].i
  <2>1. PutDone(c, u, warp[c][w].i)
    BY PutEffect
  <2>2. QED
    BY <2>1 DEF PutDone
<1>2. /\ Cluster' = Cluster /\ Peers' = Peers /\ Remote' = Remote /\ Reusing' = Reusing
      /\ Stages' = Stages /\ \A v \in Peers : v[1] \in Cluster
  BY SameShape, PeerPair DEF Stages
<1>3. /\ Got(c)'[i] = Got(c)[i] \cup {u}
      /\ \A e \in Cluster, r \in Nat : e # c \/ r # i => Got(e)'[r] = Got(e)[r]
      /\ \A e \in Cluster, r \in Nat : Freed(e)'[r] = Freed(e)[r]
  BY <1>1, PutComes
<1>4. /\ u \in Peers /\ u[1] = c /\ Puts(u) = i /\ Puts(u)' = i + 1 /\ Me(u)'.pc = "wait"
      /\ \A v \in Peers : /\ Reads(v)' = Reads(v) /\ Frees(v)' = Frees(v)
                          /\ v # u => Puts(v)' = Puts(v) /\ Me(v)' = Me(v)
  BY <1>1 DEF PutDone
<1>5. FlyingInv'
  BY <1>1, PutFlying
<1>6. BufferInv'
  BY PutBuffer
<1>7. Remote => \A d \in Cluster, t \in Stages : FullInv(d, t)'
  BY PutFull
<1>8. Remote => ReadInv'
  <2>1. SUFFICES ASSUME Remote, NEW v \in Peers, NEW r \in Nat, r < Reads(v)
                 PROVE  Got(v[1])'[r] = Peers
    BY <1>2, <1>4 DEF ReadInv
  <2>2. Got(v[1])[r] = Peers
    BY <2>1 DEF ExchangeInv, ReadInv
  <2>3. QED
    BY <1>2, <1>3, <1>4, <2>2
<1>9. Reusing => PutInv'
  <2>1. SUFFICES ASSUME Reusing, NEW v \in Peers, NEW r \in Nat, r + 2 < Puts(v)'
                 PROVE  Freed(v[1])[r] = Peers
    BY <1>2, <1>3 DEF PutInv
  <2>2. r + 2 < Puts(v) => Freed(v[1])[r] = Peers
    BY <2>1 DEF ExchangeInv, PutInv
  <2>3. CASE r + 2 < Puts(v)
    BY <2>2, <2>3
  <2>4. CASE ~(r + 2 < Puts(v))
    <3>1. v = u
      BY <1>4, <2>1, <2>4
    <3>2. r = i - 2 /\ i >= 2
      BY <1>4, <2>1, <2>4, <3>1
    <3>3. warp[c][w].pc = "put" /\ Passed(empty[c][warp[c][w].stage], warp[c][w].producer)
      BY <2>1 DEF Put, StageFree, Reusing
    <3>4. Freed(c)[i - 2] = Peers
      BY <1>1, <2>1, <3>2, <3>3, EmptyPassed
    <3>5. QED
      BY <1>4, <3>1, <3>2, <3>4
  <2>5. QED
    BY <2>3, <2>4
<1>10. Reusing => OrderInv'
  BY <1>2, <1>3 DEF ExchangeInv, OrderInv
<1>11. Reusing => DoneInv'
  <2>1. SUFFICES ASSUME Reusing, NEW v \in Peers, NEW r \in Nat, Me(v)'.pc = "done", r < shape.rounds
                 PROVE  Freed(v[1])[r] = Peers
    BY <1>2, <1>3 DEF DoneInv
  <2>2. v # u
    BY <1>4, <2>1
  <2>3. QED
    BY <1>4, <2>1, <2>2 DEF ExchangeInv, DoneInv
<1>12. ASSUME Reusing, NEW d \in Cluster, NEW t \in Stages PROVE EmptyInv(d, t)'
  <2>1. EmptyInv(d, t)
    BY <1>12 DEF ExchangeInv
  <2>2. empty' = empty
    BY DEF Put
  <2>3. \A r \in Nat : r % 2 = t => Freed(d)'[r] = Freed(d)[r]
    BY <1>3
  <2>4. QED
    BY <2>1, <2>2, <2>3, EmptyKept
<1>13. ~Remote => LockStep'
  BY <1>2, <1>4 DEF ExchangeInv, LockStep
<1>14. QED
  BY <1>2, <1>5, <1>6, <1>7, <1>8, <1>9, <1>10, <1>11, <1>12, <1>13 DEF ExchangeInv

-----------------------------------------------------------------------------
(* A warp frees its stage. *)

FreeDone(c, u, i) ==
  /\ shape' = shape /\ c \in Cluster /\ u \in Peers /\ u[1] = c /\ i \in Nat
  /\ Frees(u) = i /\ Frees(u)' = i + 1 /\ Puts(u) = i + 1 /\ Puts(u)' = i + 1
  /\ Reads(u) = i + 1 /\ Reads(u)' = i + 1 /\ (Reusing => Me(u)'.pc # "done")
  /\ \A v \in Peers : /\ Reads(v)' = Reads(v) /\ Puts(v)' = Puts(v)
                      /\ v # u => Frees(v)' = Frees(v) /\ Me(v)' = Me(v)
  /\ flying' = IF Reusing THEN flying \cup {Message("free", u, d, i) : d \in Cluster \ {c}} ELSE flying

LEMMA FreeEffect ==
  ASSUME ExchangeInv, shape' = shape, NEW c \in Cluster, NEW w \in Warps, Release(c, w)
  PROVE  FreeDone(c, <<c, w>>, warp[c][w].i) /\ warp[c][w].stage = warp[c][w].i % 2
<1> DEFINE u == <<c, w>>
           me == warp[c][w]
           i == me.i
<1>1. TypeInv /\ shape \in Shapes
  BY DEF ExchangeInv, TypeInv
<1>2. /\ me.pc = "read" /\ warp' = [warp EXCEPT ![c][w] = NextRound(warp[c][w])]
      /\ flying' = IF Reusing THEN flying \cup {[kind |-> "free", from |-> u, to |-> d,
                                                 stage |-> me.stage, i |-> i] : d \in Cluster \ {c}}
                              ELSE flying
  BY DEF Release, Reusing
<1>3. /\ \A v \in Peers : v # u => Me(v)' = Me(v)
      /\ Me(u)' = NextRound(Me(u))
  BY <1>1, <1>2, ReleaseEffect
<1>4. u \in Peers /\ me \in WarpRecord /\ Me(u) = me /\ u[1] = c
  BY <1>1, PeerPair DEF TypeInv, Me
<1>5. /\ NextRound(me).i = i + 1 /\ i \in Nat
      /\ NextRound(me).pc = IF i + 1 < shape.rounds THEN IterationPc ELSE AfterLoop
  <2>1. i \in Nat
    BY <1>4 DEF WarpRecord
  <2>2. QED
    BY <1>1, <1>4, <2>1, NextRoundEffect
<1>6. /\ NextRound(me).pc \in {"put", "ahead", "tail", "exit", "done"}
      /\ Reusing => NextRound(me).pc # "done"
  BY <1>5 DEF IterationPc, AfterLoop, Reusing
<1>7. me.stage = i % 2
  BY <1>4 DEF ExchangeInv, WarpInv
<1>8. flying' = IF Reusing THEN flying \cup {Message("free", u, d, i) : d \in Cluster \ {c}} ELSE flying
  BY <1>2, <1>7 DEF Message
<1>9. Me(u)'.i = i + 1 /\ Me(u)'.pc \in {"put", "ahead", "tail", "exit", "done"}
      /\ (Reusing => Me(u)'.pc # "done") /\ Me(u).pc = "read" /\ Me(u).i = i
  BY <1>2, <1>3, <1>4, <1>5, <1>6
<1> HIDE DEF u, i, me
<1>10. /\ Frees(u) = i /\ Frees(u)' = i + 1 /\ Puts(u) = i + 1 /\ Puts(u)' = i + 1
       /\ Reads(u) = i + 1 /\ Reads(u)' = i + 1
  BY <1>9 DEF Puts, Reads, Frees
<1>11. \A v \in Peers : v # u => Puts(v)' = Puts(v) /\ Reads(v)' = Reads(v) /\ Frees(v)' = Frees(v)
  BY <1>3 DEF Puts, Reads, Frees
<1>12. FreeDone(c, u, i)
  BY <1>3, <1>4, <1>5, <1>8, <1>9, <1>10, <1>11 DEF FreeDone
<1>13. QED
  BY <1>7, <1>12 DEF u, i, me

LEMMA FreeComes ==
  ASSUME ExchangeInv, NEW c, NEW u, NEW i, FreeDone(c, u, i)
  PROVE  /\ \A d \in Cluster, r \in Nat : Got(d)'[r] = Got(d)[r]
         /\ Reusing => /\ u \notin Freed(c)[i] /\ Freed(c)'[i] = Freed(c)[i] \cup {u}
                       /\ \A d \in Cluster, r \in Nat : d # c \/ r # i => Freed(d)'[r] = Freed(d)[r]
                       /\ Comes(Freed(c), Freed(c)', Peers, 2, i % 2, i, u)
<1>1. /\ shape' = shape /\ c \in Cluster /\ u \in Peers /\ u[1] = c /\ i \in Nat
      /\ Frees(u) = i /\ Frees(u)' = i + 1 /\ Puts(u) = i + 1
      /\ \A v \in Peers : Puts(v)' = Puts(v) /\ (v # u => Frees(v)' = Frees(v))
      /\ flying' = IF Reusing THEN flying \cup {Message("free", u, d, i) : d \in Cluster \ {c}} ELSE flying
  BY DEF FreeDone
<1>2. \A k, v, d, r : Message(k, v, d, r) \in flying' <=>
        \/ Message(k, v, d, r) \in flying
        \/ Reusing /\ k = "free" /\ v = u /\ d \in Cluster \ {c} /\ r = i
  <2>1. SUFFICES ASSUME NEW k, NEW v, NEW d, NEW r
                 PROVE  Message(k, v, d, r) \in {Message("free", u, e, i) : e \in Cluster \ {c}}
                          <=> k = "free" /\ v = u /\ d \in Cluster \ {c} /\ r = i
    BY <1>1
  <2>2. ASSUME NEW e \in Cluster \ {c}, Message(k, v, d, r) = Message("free", u, e, i)
        PROVE  k = "free" /\ v = u /\ d \in Cluster \ {c} /\ r = i
    BY <2>2, SameMessage
  <2>3. QED
    BY <2>2
<1>3. ASSUME NEW d \in Cluster, NEW r \in Nat PROVE Got(d)'[r] = Got(d)[r]
  <2>1. "free" # "value"
    OBVIOUS
  <2>2. ASSUME NEW v \in Peers
        PROVE  r < Puts(v)' /\ Message("value", v, d, r) \notin flying'
                 <=> r < Puts(v) /\ Message("value", v, d, r) \notin flying
    BY <1>1, <1>2, <2>1
  <2>3. QED
    BY <1>1, <2>2, GotStays
<1>4. Message("free", u, c, i) \notin flying
  <2>1. ASSUME Message("free", u, c, i) \in flying PROVE FALSE
    <3>1. Message("free", u, c, i).to # Message("free", u, c, i).from[1]
      BY <2>1 DEF ExchangeInv, FlyingInv
    <3>2. Message("free", u, c, i).to = c /\ Message("free", u, c, i).from = u
      BY DEF Message
    <3>3. QED
      BY <1>1, <3>1, <3>2
  <2>2. QED
    BY <2>1
<1>5. ASSUME Reusing
      PROVE  /\ u \notin Freed(c)[i] /\ Freed(c)'[i] = Freed(c)[i] \cup {u}
             /\ \A d \in Cluster, r \in Nat : d # c \/ r # i => Freed(d)'[r] = Freed(d)[r]
             /\ Comes(Freed(c), Freed(c)', Peers, 2, i % 2, i, u)
  <2>1. u \notin Freed(c)[i]
    BY <1>1, InFreed
  <2>2. Freed(c)'[i] = Freed(c)[i] \cup {u}
    <3>1. \A v \in Peers : v \in Freed(c)'[i] <=> v \in Freed(c)[i] \/ v = u
      <4>1. SUFFICES ASSUME NEW v \in Peers PROVE v \in Freed(c)'[i] <=> v \in Freed(c)[i] \/ v = u
        OBVIOUS
      <4>2. /\ v \in Freed(c)'[i] <=> i < Frees(v)' /\ Message("free", v, c, i) \notin flying'
            /\ v \in Freed(c)[i] <=> i < Frees(v) /\ Message("free", v, c, i) \notin flying
        BY <1>1, InFreed, InFreedNext
      <4>3. CASE v = u
        BY <1>1, <1>2, <1>4, <4>2, <4>3
      <4>4. CASE v # u
        BY <1>1, <1>2, <4>2, <4>4
      <4>5. QED
        BY <4>3, <4>4
    <3>2. Freed(c)'[i] \subseteq Peers /\ Freed(c)[i] \subseteq Peers
      BY <1>1, InFreed, InFreedNext
    <3>3. QED
      BY <1>1, <3>1, <3>2
  <2>3. ASSUME NEW d \in Cluster, NEW r \in Nat, d # c \/ r # i PROVE Freed(d)'[r] = Freed(d)[r]
    <3>1. ASSUME NEW v \in Peers
          PROVE  r < Frees(v)' /\ Message("free", v, d, r) \notin flying'
                   <=> r < Frees(v) /\ Message("free", v, d, r) \notin flying
      <4>1. CASE v # u
        BY <1>1, <1>2, <4>1
      <4>2. CASE v = u /\ r # i
        BY <1>1, <1>2, <4>2
      <4>3. CASE v = u /\ r = i
        <5>1. Message("free", v, d, r) \in flying'
          BY <1>2, <1>5, <2>3, <4>3
        <5>2. QED
          BY <1>1, <4>3, <5>1
      <4>4. QED
        BY <4>1, <4>2, <4>3
    <3>2. QED
      BY <1>1, <3>1, FreedStays
  <2>4. i >= 2 => Freed(c)[i - 2] = Peers
    <3>1. SUFFICES ASSUME i >= 2 PROVE Freed(c)[i - 2] = Peers
      OBVIOUS
    <3>2. i - 2 \in Nat /\ (i - 2) + 2 < Puts(u)
      BY <1>1, <3>1
    <3>3. QED
      BY <1>1, <1>5, <3>2 DEF ExchangeInv, PutInv
  <2>5. \A q \in Nat : q # i => Freed(c)'[q] = Freed(c)[q]
    BY <1>1, <2>3
  <2>6. Comes(Freed(c), Freed(c)', Peers, 2, i % 2, i, u)
    BY <1>1, <2>1, <2>2, <2>4, <2>5 DEF Comes
  <2>7. QED
    BY <2>1, <2>2, <2>3, <2>6
<1>6. QED
  BY <1>3, <1>5

LEMMA FreeFlying ==
  ASSUME ExchangeInv, NEW c, NEW u, NEW i, FreeDone(c, u, i)
  PROVE  FlyingInv'
<1>1. /\ shape' = shape /\ c \in Cluster /\ u \in Peers /\ u[1] = c /\ i \in Nat
      /\ Frees(u) = i /\ Frees(u)' = i + 1
      /\ \A v \in Peers : Puts(v)' = Puts(v) /\ (v # u => Frees(v)' = Frees(v))
      /\ flying' = IF Reusing THEN flying \cup {Message("free", u, d, i) : d \in Cluster \ {c}} ELSE flying
  BY DEF FreeDone
<1>2. Cluster' = Cluster /\ Peers' = Peers /\ Remote' = Remote
  BY <1>1, SameShape
<1>3. \A v \in Peers, r \in Nat : r < Frees(v) => r < Frees(v)'
  BY <1>1
<1>4. SUFFICES ASSUME NEW m \in flying'
               PROVE  /\ Remote /\ m.from \in Peers /\ m.to \in Cluster /\ m.to # m.from[1] /\ m.i \in Nat
                      /\ m = Message(m.kind, m.from, m.to, m.i)
                      /\ \/ m.kind = "value" /\ m.i < Puts(m.from)'
                         \/ m.kind = "free" /\ m.i < Frees(m.from)' /\ shape.persistent
  BY <1>1, <1>2 DEF FlyingInv, Message
<1>5. CASE m \in flying
  BY <1>1, <1>3, <1>5 DEF ExchangeInv, FlyingInv
<1>6. CASE m \notin flying
  <2>1. Reusing /\ \E d \in Cluster \ {c} : m = Message("free", u, d, i)
    BY <1>1, <1>6
  <2>2. PICK d \in Cluster \ {c} : m = Message("free", u, d, i)
    BY <2>1
  <2>3. m.kind = "free" /\ m.from = u /\ m.to = d /\ m.i = i
    BY <2>2 DEF Message
  <2>4. i < Frees(u)'
    BY <1>1
  <2>5. QED
    BY <1>1, <2>1, <2>2, <2>3, <2>4 DEF Reusing, Remote
<1>7. QED
  BY <1>5, <1>6

LEMMA ReleaseStep ==
  ASSUME ExchangeInv, TypeInv', \A v \in Peers : WarpInv(v)', shape' = shape,
         NEW c \in Cluster, NEW w \in Warps, Release(c, w)
  PROVE  ExchangeInv'
<1> DEFINE u == <<c, w>>
<1>1. PICK i \in Nat, s \in Stages : FreeDone(c, u, i) /\ warp[c][w].stage = s /\ s = i % 2
  <2>1. FreeDone(c, u, warp[c][w].i) /\ warp[c][w].stage = warp[c][w].i % 2
    BY FreeEffect
  <2>2. warp[c][w].i \in Nat
    BY <2>1 DEF FreeDone
  <2>3. warp[c][w].i % 2 \in Stages
    BY <2>2, TwoStages
  <2>4. QED
    BY <2>1, <2>2, <2>3
<1>2. /\ Cluster' = Cluster /\ Peers' = Peers /\ Remote' = Remote /\ Reusing' = Reusing
      /\ Stages' = Stages /\ \A v \in Peers : v[1] \in Cluster
  BY SameShape, PeerPair DEF Stages
<1>3. /\ \A d \in Cluster, r \in Nat : Got(d)'[r] = Got(d)[r]
      /\ Reusing => /\ u \notin Freed(c)[i] /\ Freed(c)'[i] = Freed(c)[i] \cup {u}
                    /\ \A d \in Cluster, r \in Nat : d # c \/ r # i => Freed(d)'[r] = Freed(d)[r]
                    /\ Comes(Freed(c), Freed(c)', Peers, 2, i % 2, i, u)
  BY <1>1, FreeComes
<1>4. /\ u \in Peers /\ u[1] = c /\ Frees(u) = i /\ Frees(u)' = i + 1 /\ (Reusing => Me(u)'.pc # "done")
      /\ \A v \in Peers : /\ Reads(v)' = Reads(v) /\ Puts(v)' = Puts(v)
                          /\ v # u => Me(v)' = Me(v)
  BY <1>1 DEF FreeDone
<1>5. FlyingInv'
  BY <1>1, FreeFlying
<1>6. buffer' = buffer /\ full' = full
  BY DEF Release
<1>7. BufferInv'
  BY <1>2, <1>3, <1>4, <1>6 DEF ExchangeInv, BufferInv
<1>8. ASSUME Remote, NEW d \in Cluster, NEW t \in Stages PROVE FullInv(d, t)'
  <2>1. FullInv(d, t)
    BY <1>8 DEF ExchangeInv
  <2>2. <<d, Warp0>> \in Peers
    BY ReduceAssumption, PeerPair
  <2>3. \A r \in Nat : r % 2 = t => /\ Got(d)'[r] = Got(d)[r]
                                    /\ r < Puts(<<d, Warp0>>)' <=> r < Puts(<<d, Warp0>>)
    BY <1>3, <1>4, <2>2
  <2>4. QED
    BY <1>6, <2>1, <2>3, FullKept
<1>9. Remote => ReadInv'
  <2>1. SUFFICES ASSUME Remote, NEW v \in Peers, NEW r \in Nat, r < Reads(v)
                 PROVE  Got(v[1])[r] = Peers
    BY <1>2, <1>3, <1>4 DEF ReadInv
  <2>2. QED
    BY <2>1 DEF ExchangeInv, ReadInv
<1>10. ASSUME Reusing, NEW d \in Cluster, NEW r \in Nat, Freed(d)[r] = Peers PROVE Freed(d)'[r] = Peers
  BY <1>3, <1>4, <1>10
<1>11. Reusing => PutInv'
  <2>1. SUFFICES ASSUME Reusing, NEW v \in Peers, NEW r \in Nat, r + 2 < Puts(v)
                 PROVE  Freed(v[1])'[r] = Peers
    BY <1>2, <1>4 DEF PutInv
  <2>2. Freed(v[1])[r] = Peers
    BY <2>1 DEF ExchangeInv, PutInv
  <2>3. QED
    BY <1>2, <1>10, <2>1, <2>2
<1>12. Reusing => DoneInv'
  <2>1. SUFFICES ASSUME Reusing, NEW v \in Peers, NEW r \in Nat, Me(v)'.pc = "done", r < shape.rounds
                 PROVE  Freed(v[1])'[r] = Peers
    BY <1>2 DEF DoneInv
  <2>2. v # u
    BY <1>4, <2>1
  <2>3. Freed(v[1])[r] = Peers
    BY <1>4, <2>1, <2>2 DEF ExchangeInv, DoneInv
  <2>4. QED
    BY <1>2, <1>10, <2>1, <2>3
<1>13. Reusing => OrderInv'
  <2>1. SUFFICES ASSUME Reusing, NEW d \in Cluster, NEW r \in Nat, NEW q \in Nat, q < r,
                        NEW v \in Freed(d)'[r]
                 PROVE  v \in Freed(d)'[q]
    BY <1>2 DEF OrderInv
  <2>2. v \in Freed(d)[r] => v \in Freed(d)[q]
    BY <2>1 DEF ExchangeInv, OrderInv
  <2>3. v \in Freed(d)[q] => v \in Freed(d)'[q]
    BY <1>3, <2>1
  <2>4. CASE v \in Freed(d)[r]
    BY <2>2, <2>3, <2>4
  <2>5. CASE v \notin Freed(d)[r]
    <3>1. v = u /\ d = c /\ r = i
      BY <1>3, <2>1, <2>5
    <3>2. q < Frees(u)
      BY <1>4, <2>1, <3>1
    <3>3. Message("free", u, c, q) \notin flying
      <4>1. ASSUME Message("free", u, c, q) \in flying PROVE FALSE
        <5>1. Message("free", u, c, q).to # Message("free", u, c, q).from[1]
          BY <4>1 DEF ExchangeInv, FlyingInv
        <5>2. Message("free", u, c, q).to = c /\ Message("free", u, c, q).from = u
          BY DEF Message
        <5>3. QED
          BY <1>4, <5>1, <5>2
      <4>2. QED
        BY <4>1
    <3>4. u \in Freed(c)[q]
      BY <1>4, <3>2, <3>3, InFreed
    <3>5. QED
      BY <2>3, <3>1, <3>4
  <2>6. QED
    BY <2>4, <2>5
<1>14. ASSUME Reusing, NEW d \in Cluster, NEW t \in Stages PROVE EmptyInv(d, t)'
  <2>1. EmptyInv(d, t) /\ empty \in [Cluster -> [Stages -> Barrier]] /\ shape \in Shapes
    BY <1>14 DEF ExchangeInv, TypeInv
  <2>2. empty' = [empty EXCEPT ![c][s] = Settle(Arrive(empty[c][s]), Contributions)]
    BY <1>1, <1>14 DEF Release, Reusing
  <2>3. CASE d = c /\ t = s
    <3>1. empty'[c][s] = Settle(Arrive(empty[c][s]), Contributions)
      BY <2>1, <2>2
    <3>2. PICK b \in Barrier : b = empty[c][s]
      BY <2>1
    <3>3. Comes(Freed(c), Freed(c)', Peers, 2, s, i, u) /\ EmptyInv(c, s)
      BY <1>1, <1>3, <1>14, <2>1, <2>3
    <3> HIDE DEF u
    <3>4. EmptyInv(c, s)'
      BY <2>1, <3>1, <3>2, <3>3, EmptyTurn
    <3>5. QED
      BY <2>3, <3>4
  <2>4. CASE ~(d = c /\ t = s)
    <3>1. empty'[d][t] = empty[d][t]
      BY <2>1, <2>2, <2>4
    <3>2. \A r \in Nat : r % 2 = t => Freed(d)'[r] = Freed(d)[r]
      BY <1>1, <1>3, <1>14, <2>4
    <3>3. QED
      BY <2>1, <3>1, <3>2, EmptyKept
  <2>5. QED
    BY <2>3, <2>4
<1>15. ~Remote => LockStep'
  BY <1>2, <1>4 DEF ExchangeInv, LockStep
<1>16. QED
  BY <1>2, <1>5, <1>7, <1>8, <1>9, <1>11, <1>12, <1>13, <1>14, <1>15 DEF ExchangeInv

-----------------------------------------------------------------------------
(* What was sent lands. *)

\* No warp moves.
LEMMA NobodyMoves ==
  ASSUME warp' = warp
  PROVE  \A v : Puts(v)' = Puts(v) /\ Reads(v)' = Reads(v) /\ Frees(v)' = Frees(v) /\ Me(v)' = Me(v)
BY DEF Puts, Reads, Frees, Me

\* A value.
LEMMA LandValue ==
  ASSUME ExchangeInv, TypeInv', \A v \in Peers : WarpInv(v)', shape' = shape, warp' = warp,
         NEW v \in Peers, NEW d \in Cluster, NEW i \in Nat,
         Message("value", v, d, i) \in flying, i < Puts(v), d # v[1], Remote,
         flying' = flying \ {Message("value", v, d, i)},
         buffer' = [buffer EXCEPT ![d][i % 2][v] = i],
         full' = [full EXCEPT ![d][i % 2] = Settle(Land(full[d][i % 2]), 1)],
         empty' = empty
  PROVE  ExchangeInv'
<1> DEFINE z == <<d, Warp0>>
<1>1. /\ Cluster' = Cluster /\ Peers' = Peers /\ Remote' = Remote /\ Reusing' = Reusing
      /\ Stages' = Stages /\ (\A u \in Peers : u[1] \in Cluster) /\ z \in Peers /\ z[1] = d /\ z # v
  BY SameShape, PeerPair, ReduceAssumption DEF Stages
<1>2. /\ TypeInv /\ (\A u \in Peers : WarpInv(u)) /\ shape \in Shapes
      /\ full \in [Cluster -> [Stages -> Barrier]]
      /\ buffer \in [Cluster -> [Stages -> [Peers -> Int]]]
      /\ ReadInv
  BY DEF ExchangeInv, TypeInv
<1>3. \A u : Puts(u)' = Puts(u) /\ Reads(u)' = Reads(u) /\ Frees(u)' = Frees(u) /\ Me(u)' = Me(u)
  BY NobodyMoves
<1>4. \A u \in Peers : /\ Frees(u) \in Nat /\ Reads(u) \in Nat /\ Puts(u) \in Nat
                       /\ Frees(u) <= Reads(u) /\ Puts(u) <= Frees(u) + 1
  BY <1>2, AllCounts
<1>5. \A k, u, e, r : Message(k, u, e, r) \in flying' <=>
        Message(k, u, e, r) \in flying /\ ~(k = "value" /\ u = v /\ e = d /\ r = i)
  <2>1. SUFFICES ASSUME NEW k, NEW u, NEW e, NEW r
                 PROVE  Message(k, u, e, r) = Message("value", v, d, i)
                          <=> k = "value" /\ u = v /\ e = d /\ r = i
    OBVIOUS
  <2>2. QED
    BY SameMessage
<1>6. i % 2 \in Stages
  BY TwoStages
<1>7. v \notin Got(d)[i]
  BY InGot
<1>8. Got(d)'[i] = Got(d)[i] \cup {v}
  <2>1. \A u \in Peers : u \in Got(d)'[i] <=> u \in Got(d)[i] \/ u = v
    <3>1. SUFFICES ASSUME NEW u \in Peers PROVE u \in Got(d)'[i] <=> u \in Got(d)[i] \/ u = v
      OBVIOUS
    <3>2. /\ u \in Got(d)'[i] <=> i < Puts(u)' /\ Message("value", u, d, i) \notin flying'
          /\ u \in Got(d)[i] <=> i < Puts(u) /\ Message("value", u, d, i) \notin flying
      BY InGot, InGotNext
    <3>3. QED
      BY <1>3, <1>5, <3>2
  <2>2. Got(d)'[i] \subseteq Peers /\ Got(d)[i] \subseteq Peers
    BY InGot, InGotNext
  <2>3. QED
    BY <2>1, <2>2
<1>9. ASSUME NEW e \in Cluster, NEW r \in Nat, e # d \/ r # i PROVE Got(e)'[r] = Got(e)[r]
  <2>1. ASSUME NEW u \in Peers
        PROVE  r < Puts(u)' /\ Message("value", u, e, r) \notin flying'
                 <=> r < Puts(u) /\ Message("value", u, e, r) \notin flying
    BY <1>3, <1>5, <1>9
  <2>2. QED
    BY <2>1, GotStays
<1>10. ASSUME NEW e \in Cluster, NEW r \in Nat PROVE Freed(e)'[r] = Freed(e)[r]
  <2>1. "free" # "value"
    OBVIOUS
  <2>2. ASSUME NEW u \in Peers
        PROVE  r < Frees(u)' /\ Message("free", u, e, r) \notin flying'
                 <=> r < Frees(u) /\ Message("free", u, e, r) \notin flying
    BY <1>3, <1>5, <2>1
  <2>3. QED
    BY <2>2, FreedStays
<1>11. ASSUME NEW e \in Cluster, NEW r \in Nat, Got(e)[r] = Peers PROVE Got(e)'[r] = Peers
  BY <1>8, <1>9, <1>11
<1>12. i >= 2 => Got(d)[i - 2] = Peers
  <2>1. SUFFICES ASSUME i >= 2 PROVE Got(d)[i - 2] = Peers
    OBVIOUS
  <2>2. i - 2 \in Nat /\ (i - 2) + 2 < Puts(v)
    BY <2>1
  <2>3. QED
    BY <2>2, Behind
<1>13. Comes(Got(d), Got(d)', Peers, 2, i % 2, i, v)
  <2>1. \A q \in Nat : q # i => Got(d)'[q] = Got(d)[q]
    BY <1>9
  <2>2. QED
    BY <1>7, <1>8, <1>12, <2>1 DEF Comes
<1>14. FlyingInv'
  <2>1. SUFFICES ASSUME NEW m \in flying'
                 PROVE  /\ Remote /\ m.from \in Peers /\ m.to \in Cluster /\ m.to # m.from[1] /\ m.i \in Nat
                        /\ m = Message(m.kind, m.from, m.to, m.i)
                        /\ \/ m.kind = "value" /\ m.i < Puts(m.from)
                           \/ m.kind = "free" /\ m.i < Frees(m.from) /\ shape.persistent
    BY <1>1, <1>3 DEF FlyingInv, Message
  <2>2. m \in flying
    OBVIOUS
  <2>3. QED
    BY <2>2 DEF ExchangeInv, FlyingInv
<1>15. ASSUME NEW c \in Cluster, NEW t \in Stages PROVE FullInv(c, t)'
  <2>1. FullInv(c, t)
    BY DEF ExchangeInv
  <2>2. CASE c = d /\ t = i % 2
    <3>1. PICK b \in Barrier : b = full[d][i % 2]
      BY <1>2, <1>6
    <3>2. Puts(z)' \in Nat /\ Puts(z)' <= i + 2
      <4>1. ~(i < Reads(z))
        BY <1>1, <1>2, <1>7 DEF ReadInv
      <4>2. QED
        BY <1>1, <1>3, <1>4, <4>1
    <3>3. Got(d)'[i] = Peers => i < Puts(z)'
      BY <1>1, InGotNext
    <3>4. full'[d][i % 2] = Settle(Land(b), 1)
      BY <1>2, <1>6, <3>1
    <3>5. Puts(z)' = Puts(z)
      BY <1>3
    <3>6. FullIs(d, i % 2, i) =>
            b = [pending |-> IF i < Puts(z)' THEN 0 ELSE 1,
                 tx |-> (IF i < Puts(z)' THEN Contributions ELSE 0) - Cardinality(Got(d)[i]),
                 phase |-> Half(i)]
      BY <3>1, <3>5 DEF FullIs
    <3>7. ValueComes(d, i % 2, i, b)
      BY <3>2, <3>3, <3>4, <3>6 DEF ValueComes
    <3> HIDE DEF z
    <3>8. FullInv(d, i % 2)
      BY <2>1, <2>2
    <3>9. FullInv(d, i % 2)'
      BY <1>2, <1>6, <1>13, <3>7, <3>8, FullTurn
    <3>10. QED
      BY <2>2, <3>9
  <2>3. CASE ~(c = d /\ t = i % 2)
    <3>1. full'[c][t] = full[c][t]
      BY <1>2, <1>6, <2>3
    <3>2. \A r \in Nat : r % 2 = t => /\ Got(c)'[r] = Got(c)[r]
                                      /\ r < Puts(<<c, Warp0>>)' <=> r < Puts(<<c, Warp0>>)
      BY <1>3, <1>9, <2>3
    <3>3. QED
      BY <2>1, <3>1, <3>2, FullKept
  <2>4. QED
    BY <2>2, <2>3
<1>16. ReadInv'
  <2>1. SUFFICES ASSUME NEW u \in Peers, NEW r \in Nat, r < Reads(u) PROVE Got(u[1])'[r] = Peers
    BY <1>1, <1>3 DEF ReadInv
  <2>2. Got(u[1])[r] = Peers
    BY <1>2, <2>1 DEF ReadInv
  <2>3. QED
    BY <1>1, <1>11, <2>2
<1>17. Reusing => PutInv' /\ OrderInv' /\ DoneInv'
  <2>1. Reusing => PutInv'
    BY <1>1, <1>3, <1>10 DEF ExchangeInv, PutInv
  <2>2. Reusing => OrderInv'
    BY <1>1, <1>10 DEF ExchangeInv, OrderInv
  <2>3. Reusing => DoneInv'
    BY <1>1, <1>3, <1>10 DEF ExchangeInv, DoneInv
  <2>4. QED
    BY <2>1, <2>2, <2>3
<1>18. ASSUME Reusing, NEW c \in Cluster, NEW t \in Stages PROVE EmptyInv(c, t)'
  <2>1. EmptyInv(c, t)
    BY <1>18 DEF ExchangeInv
  <2>2. \A r \in Nat : r % 2 = t => Freed(c)'[r] = Freed(c)[r]
    BY <1>10
  <2>3. QED
    BY <2>1, <2>2, EmptyKept
<1>19. BufferInv'
  <2>1. SUFFICES ASSUME NEW c \in Cluster, NEW u \in Peers, NEW r \in Nat, u \in Got(c)'[r], Puts(u) <= r + 2
                 PROVE  buffer'[c][r % 2][u] = r
    BY <1>1, <1>3 DEF BufferInv
  <2>2. r % 2 \in Stages
    BY TwoStages
  <2>3. buffer'[c][r % 2][u] = IF c = d /\ r % 2 = i % 2 /\ u = v THEN i ELSE buffer[c][r % 2][u]
    <3>1. buffer \in [Cluster -> [Stages -> [Peers -> Int]]]
      BY <1>2
    <3>2. CASE c # d
      BY <3>1, <3>2
    <3>3. CASE c = d
      <4>1. buffer[d] \in [Stages -> [Peers -> Int]] /\ buffer[d][r % 2] \in [Peers -> Int]
        BY <2>2, <3>1
      <4>2. buffer'[d] = [buffer[d] EXCEPT ![i % 2][v] = i]
        BY <3>1
      <4>3. QED
        BY <2>2, <3>3, <4>1, <4>2
    <3>4. QED
      BY <3>2, <3>3
  <2>4. u \in Got(c)[r] => buffer[c][r % 2][u] = r
    BY <2>1 DEF ExchangeInv, BufferInv
  <2>5. CASE c = d /\ u = v /\ r = i
    BY <2>3, <2>5
  <2>6. CASE ~(c = d /\ u = v /\ r = i)
    <3>1. u \in Got(c)[r]
      BY <1>8, <1>9, <2>1, <2>6
    <3>2. ~(c = d /\ r % 2 = i % 2 /\ u = v)
      <4>1. SUFFICES ASSUME c = d, r % 2 = i % 2, u = v PROVE FALSE
        OBVIOUS
      <4>2. r # i
        BY <2>6, <4>1
      <4>3. ~(r < i)
        <5>1. r < i => r + 2 <= i
          BY <4>1, SameStage
        <5>2. QED
          BY <1>4, <2>1, <4>1, <5>1
      <4>4. ~(i < r)
        <5>1. i < r => i + 2 <= r
          BY <4>1, SameStage
        <5>2. r < Puts(v)
          BY <3>1, <4>1, InGot
        <5>3. i < r => i + 2 < Puts(v)
          BY <1>4, <5>1, <5>2
        <5>4. i < r => Got(d)[i] = Peers
          BY <5>3, Behind
        <5>5. QED
          BY <1>7, <5>4
      <4>5. QED
        BY <4>2, <4>3, <4>4
    <3>3. QED
      BY <2>3, <2>4, <3>1, <3>2
  <2>7. QED
    BY <2>5, <2>6
<1>20. QED
  BY <1>1, <1>14, <1>15, <1>16, <1>17, <1>18, <1>19 DEF ExchangeInv

\* The arrival that frees a stage.
LEMMA LandFree ==
  ASSUME ExchangeInv, TypeInv', \A v \in Peers : WarpInv(v)', shape' = shape, warp' = warp,
         NEW v \in Peers, NEW d \in Cluster, NEW i \in Nat,
         Message("free", v, d, i) \in flying, i < Frees(v), d # v[1], Reusing,
         \A q \in Nat : Message("free", v, d, q) \in flying => q >= i,
         flying' = flying \ {Message("free", v, d, i)},
         empty' = [empty EXCEPT ![d][i % 2] = Settle(Arrive(empty[d][i % 2]), Contributions)],
         buffer' = buffer, full' = full
  PROVE  ExchangeInv'
<1>1. /\ Cluster' = Cluster /\ Peers' = Peers /\ Remote' = Remote /\ Reusing' = Reusing
      /\ Stages' = Stages /\ (\A u \in Peers : u[1] \in Cluster) /\ Remote
      /\ \A c \in Cluster : <<c, Warp0>> \in Peers /\ <<c, Warp0>>[1] = c
  BY SameShape, PeerPair, ReduceAssumption DEF Stages, Remote, Reusing
<1>2. /\ TypeInv /\ (\A u \in Peers : WarpInv(u)) /\ shape \in Shapes
      /\ empty \in [Cluster -> [Stages -> Barrier]]
      /\ ReadInv /\ PutInv
  BY <1>1 DEF ExchangeInv, TypeInv
<1>3. \A u : Puts(u)' = Puts(u) /\ Reads(u)' = Reads(u) /\ Frees(u)' = Frees(u) /\ Me(u)' = Me(u)
  BY NobodyMoves
<1>4. \A u \in Peers : /\ Frees(u) \in Nat /\ Reads(u) \in Nat /\ Puts(u) \in Nat
                       /\ Frees(u) <= Reads(u) /\ Puts(u) <= Frees(u) + 1
  BY <1>2, AllCounts
<1>5. \A k, u, e, r : Message(k, u, e, r) \in flying' <=>
        Message(k, u, e, r) \in flying /\ ~(k = "free" /\ u = v /\ e = d /\ r = i)
  <2>1. SUFFICES ASSUME NEW k, NEW u, NEW e, NEW r
                 PROVE  Message(k, u, e, r) = Message("free", v, d, i)
                          <=> k = "free" /\ u = v /\ e = d /\ r = i
    OBVIOUS
  <2>2. QED
    BY SameMessage
<1>6. i % 2 \in Stages
  BY TwoStages
<1>7. v \notin Freed(d)[i]
  BY InFreed
<1>8. Freed(d)'[i] = Freed(d)[i] \cup {v}
  <2>1. \A u \in Peers : u \in Freed(d)'[i] <=> u \in Freed(d)[i] \/ u = v
    <3>1. SUFFICES ASSUME NEW u \in Peers PROVE u \in Freed(d)'[i] <=> u \in Freed(d)[i] \/ u = v
      OBVIOUS
    <3>2. /\ u \in Freed(d)'[i] <=> i < Frees(u)' /\ Message("free", u, d, i) \notin flying'
          /\ u \in Freed(d)[i] <=> i < Frees(u) /\ Message("free", u, d, i) \notin flying
      BY InFreed, InFreedNext
    <3>3. QED
      BY <1>3, <1>5, <3>2
  <2>2. Freed(d)'[i] \subseteq Peers /\ Freed(d)[i] \subseteq Peers
    BY InFreed, InFreedNext
  <2>3. QED
    BY <2>1, <2>2
<1>9. ASSUME NEW e \in Cluster, NEW r \in Nat, e # d \/ r # i PROVE Freed(e)'[r] = Freed(e)[r]
  <2>1. ASSUME NEW u \in Peers
        PROVE  r < Frees(u)' /\ Message("free", u, e, r) \notin flying'
                 <=> r < Frees(u) /\ Message("free", u, e, r) \notin flying
    BY <1>3, <1>5, <1>9
  <2>2. QED
    BY <2>1, FreedStays
<1>10. ASSUME NEW e \in Cluster, NEW r \in Nat PROVE Got(e)'[r] = Got(e)[r]
  <2>1. "free" # "value"
    OBVIOUS
  <2>2. ASSUME NEW u \in Peers
        PROVE  r < Puts(u)' /\ Message("value", u, e, r) \notin flying'
                 <=> r < Puts(u) /\ Message("value", u, e, r) \notin flying
    BY <1>3, <1>5, <2>1
  <2>3. QED
    BY <2>2, GotStays
<1>11. ASSUME NEW e \in Cluster, NEW r \in Nat, Freed(e)[r] = Peers PROVE Freed(e)'[r] = Peers
  BY <1>8, <1>9, <1>11
<1>12. i >= 2 => Freed(d)[i - 2] = Peers
  \* The sender has read all values of round i, those of the receiver's warps
  \* among them, who had put them behind a wait for the round before to be freed.
  <2>1. SUFFICES ASSUME i >= 2 PROVE Freed(d)[i - 2] = Peers
    OBVIOUS
  <2>2. i < Reads(v)
    BY <1>4
  <2>3. Got(v[1])[i] = Peers
    BY <1>2, <2>2 DEF ReadInv
  <2>4. i < Puts(<<d, Warp0>>)
    BY <1>1, <2>3, InGot
  <2>5. i - 2 \in Nat /\ (i - 2) + 2 < Puts(<<d, Warp0>>)
    BY <2>1, <2>4
  <2>6. QED
    BY <1>1, <1>2, <2>5 DEF PutInv
<1>13. Comes(Freed(d), Freed(d)', Peers, 2, i % 2, i, v)
  <2>1. \A q \in Nat : q # i => Freed(d)'[q] = Freed(d)[q]
    BY <1>9
  <2>2. QED
    BY <1>7, <1>8, <1>12, <2>1 DEF Comes
<1>14. FlyingInv'
  <2>1. SUFFICES ASSUME NEW m \in flying'
                 PROVE  /\ Remote /\ m.from \in Peers /\ m.to \in Cluster /\ m.to # m.from[1] /\ m.i \in Nat
                        /\ m = Message(m.kind, m.from, m.to, m.i)
                        /\ \/ m.kind = "value" /\ m.i < Puts(m.from)
                           \/ m.kind = "free" /\ m.i < Frees(m.from) /\ shape.persistent
    BY <1>1, <1>3 DEF FlyingInv, Message
  <2>2. m \in flying
    OBVIOUS
  <2>3. QED
    BY <2>2 DEF ExchangeInv, FlyingInv
<1>15. ASSUME NEW c \in Cluster, NEW t \in Stages PROVE EmptyInv(c, t)'
  <2>1. EmptyInv(c, t)
    BY DEF ExchangeInv
  <2>2. CASE c = d /\ t = i % 2
    <3>1. PICK b \in Barrier : b = empty[d][i % 2]
      BY <1>2, <1>6
    <3>2. empty'[d][i % 2] = Settle(Arrive(b), Contributions)
      BY <1>2, <1>6, <3>1
    <3>3. EmptyInv(d, i % 2)
      BY <2>1, <2>2
    <3>4. EmptyInv(d, i % 2)'
      BY <1>2, <1>6, <1>13, <3>1, <3>2, <3>3, EmptyTurn
    <3>5. QED
      BY <2>2, <3>4
  <2>3. CASE ~(c = d /\ t = i % 2)
    <3>1. empty'[c][t] = empty[c][t]
      BY <1>2, <1>6, <2>3
    <3>2. \A r \in Nat : r % 2 = t => Freed(c)'[r] = Freed(c)[r]
      BY <1>9, <2>3
    <3>3. QED
      BY <2>1, <3>1, <3>2, EmptyKept
  <2>4. QED
    BY <2>2, <2>3
<1>16. PutInv'
  <2>1. SUFFICES ASSUME NEW u \in Peers, NEW r \in Nat, r + 2 < Puts(u) PROVE Freed(u[1])'[r] = Peers
    BY <1>1, <1>3 DEF PutInv
  <2>2. Freed(u[1])[r] = Peers
    BY <1>2, <2>1 DEF PutInv
  <2>3. QED
    BY <1>1, <1>11, <2>2
<1>17. DoneInv'
  <2>1. SUFFICES ASSUME NEW u \in Peers, NEW r \in Nat, Me(u).pc = "done", r < shape.rounds
                 PROVE  Freed(u[1])'[r] = Peers
    BY <1>1, <1>3 DEF DoneInv
  <2>2. Freed(u[1])[r] = Peers
    BY <2>1 DEF ExchangeInv, DoneInv
  <2>3. QED
    BY <1>1, <1>11, <2>2
<1>18. OrderInv'
  <2>1. SUFFICES ASSUME NEW c \in Cluster, NEW r \in Nat, NEW q \in Nat, q < r, NEW u \in Freed(c)'[r]
                 PROVE  u \in Freed(c)'[q]
    BY <1>1 DEF OrderInv
  <2>2. u \in Freed(c)[r] => u \in Freed(c)[q]
    BY <2>1 DEF ExchangeInv, OrderInv
  <2>3. u \in Freed(c)[q] => u \in Freed(c)'[q]
    BY <1>8, <1>9
  <2>4. CASE u \in Freed(c)[r]
    BY <2>2, <2>3, <2>4
  <2>5. CASE u \notin Freed(c)[r]
    <3>1. u = v /\ c = d /\ r = i
      BY <1>8, <1>9, <2>1, <2>5
    <3>2. q < Frees(v) /\ q # i /\ ~(q >= i)
      BY <1>4, <2>1, <3>1
    <3>3. Message("free", v, d, q) \notin flying
      BY <3>2
    <3>4. v \in Freed(d)[q]
      BY <3>2, <3>3, InFreed
    <3>5. QED
      BY <2>3, <3>1, <3>4
  <2>6. QED
    BY <2>4, <2>5
<1>19. ReadInv' /\ \A c \in Cluster, t \in Stages : FullInv(c, t)'
  <2>1. ReadInv'
    BY <1>1, <1>2, <1>3, <1>10 DEF ReadInv
  <2>2. ASSUME NEW c \in Cluster, NEW t \in Stages PROVE FullInv(c, t)'
    <3>1. FullInv(c, t)
      BY <1>1 DEF ExchangeInv
    <3>2. \A r \in Nat : r % 2 = t => /\ Got(c)'[r] = Got(c)[r]
                                      /\ r < Puts(<<c, Warp0>>)' <=> r < Puts(<<c, Warp0>>)
      BY <1>3, <1>10
    <3>3. QED
      BY <3>1, <3>2, FullKept
  <2>3. QED
    BY <2>1, <2>2
<1>20. BufferInv'
  BY <1>1, <1>3, <1>10 DEF ExchangeInv, BufferInv
<1>21. QED
  BY <1>1, <1>14, <1>15, <1>16, <1>17, <1>18, <1>19, <1>20 DEF ExchangeInv

LEMMA LandRemoteStep ==
  ASSUME ExchangeInv, TypeInv', \A v \in Peers : WarpInv(v)', shape' = shape, LandRemote
  PROVE  ExchangeInv'
<1>1. PICK m \in flying : LandsRemote(m)
  BY LandRemoteEffect
<1> DEFINE v == m.from
           d == m.to
           i == m.i
<1>2. /\ v \in Peers /\ d \in Cluster /\ i \in Nat /\ d # v[1] /\ Remote
      /\ m = Message(m.kind, v, d, i) /\ m.stage = i % 2
      /\ \/ m.kind = "value" /\ i < Puts(v)
         \/ m.kind = "free" /\ i < Frees(v) /\ Reusing
  <2>1. /\ v \in Peers /\ d \in Cluster /\ i \in Nat /\ d # v[1] /\ Remote
        /\ m = Message(m.kind, v, d, i)
        /\ \/ m.kind = "value" /\ i < Puts(v)
           \/ m.kind = "free" /\ i < Frees(v) /\ shape.persistent
    BY DEF ExchangeInv, FlyingInv
  <2>2. m.stage = i % 2
    BY <2>1 DEF Message
  <2>3. QED
    BY <2>1, <2>2 DEF Remote, Reusing
<1>3. /\ InOrder(m) /\ flying' = flying \ {m} /\ warp' = warp
      /\ \/ /\ m.kind = "value"
            /\ buffer' = [buffer EXCEPT ![d][i % 2][v] = i]
            /\ full' = [full EXCEPT ![d][i % 2] = Settle(Land(full[d][i % 2]), 1)]
            /\ empty' = empty
         \/ /\ m.kind = "free"
            /\ empty' = [empty EXCEPT ![d][i % 2] = Settle(Arrive(empty[d][i % 2]), Contributions)]
            /\ buffer' = buffer /\ full' = full
  BY <1>1, <1>2 DEF LandsRemote
<1>4. CASE m.kind = "value"
  <2>1. /\ Message("value", v, d, i) \in flying /\ i < Puts(v)
        /\ flying' = flying \ {Message("value", v, d, i)}
        /\ buffer' = [buffer EXCEPT ![d][i % 2][v] = i]
        /\ full' = [full EXCEPT ![d][i % 2] = Settle(Land(full[d][i % 2]), 1)]
        /\ empty' = empty
    BY <1>2, <1>3, <1>4
  <2> HIDE DEF v, d, i
  <2>2. QED
    BY <1>2, <1>3, <2>1, LandValue
<1>5. CASE m.kind = "free"
  <2>1. /\ Message("free", v, d, i) \in flying /\ i < Frees(v) /\ Reusing
        /\ flying' = flying \ {Message("free", v, d, i)}
        /\ empty' = [empty EXCEPT ![d][i % 2] = Settle(Arrive(empty[d][i % 2]), Contributions)]
        /\ buffer' = buffer /\ full' = full
    BY <1>2, <1>3, <1>5
  <2>2. ASSUME NEW q \in Nat, Message("free", v, d, q) \in flying PROVE q >= i
    <3>1. Message("free", v, d, q).kind = "free" /\ Message("free", v, d, q).from = v
          /\ Message("free", v, d, q).to = d /\ Message("free", v, d, q).i = q
      BY DEF Message
    <3>2. QED
      BY <1>3, <1>5, <2>2, <3>1 DEF InOrder
  <2> HIDE DEF v, d, i
  <2>3. QED
    BY <1>2, <1>3, <2>1, <2>2, LandFree
<1>6. QED
  BY <1>2, <1>4, <1>5

-----------------------------------------------------------------------------
(* The invariant of the exchange holds. *)

\* At the start nothing has come, and the first two rounds are open.
LEMMA ExchangeInit == Init => ExchangeInv
<1> SUFFICES ASSUME Init PROVE ExchangeInv
  OBVIOUS
<1>1. /\ shape \in Shapes /\ joined = {} /\ flying = {} /\ landing = {}
      /\ warp = [c \in Cluster |-> [w \in Warps |->
           [pc |-> "join", i |-> 0, stage |-> 0, consumer |-> 0, producer |-> 1]]]
      /\ buffer = [c \in Cluster |-> [s \in Stages |-> [v \in Peers |-> None]]]
      /\ full = [c \in Cluster |-> [s \in Stages |-> [pending |-> 1, tx |-> 0, phase |-> 0]]]
      /\ empty = [c \in Cluster |-> [s \in Stages |->
                    [pending |-> Contributions, tx |-> 0, phase |-> 0]]]
      /\ ring = [c \in Cluster |-> [s \in Slots |-> [data |-> [w \in Warps |-> None],
                                                    full |-> 0, left |-> {}]]]
  BY DEF Init
<1>2. /\ IsFiniteSet(Peers) /\ Cardinality(Peers) = Contributions /\ Contributions \in Nat
      /\ Warp0 \in Warps /\ 0 \in Cluster
  BY <1>1, PeersFinite
<1>3. shape.rounds \in Nat
  BY <1>1, ShapeFacts
<1>4. Half(0) = 0 /\ Half(1) = 0 /\ 0 % 2 = 0 /\ 1 % 2 = 1
  BY DEF Half
<1>5. \A v \in Peers : Me(v) = [pc |-> "join", i |-> 0, stage |-> 0, consumer |-> 0, producer |-> 1]
  BY <1>1, PeerPair DEF Me
<1>6. \A v \in Peers : Puts(v) = 0 /\ Reads(v) = 0 /\ Frees(v) = 0
  BY <1>5 DEF Puts, Reads, Frees
<1>7. \A c \in Cluster, r \in Nat : Got(c)[r] = {} /\ Freed(c)[r] = {}
  BY <1>6 DEF Got, Freed
<1>8. TypeInv
  <2>1. [pc |-> "join", i |-> 0, stage |-> 0, consumer |-> 0, producer |-> 1] \in WarpRecord
    BY DEF WarpRecord, Place, Stages
  <2>2. warp \in [Cluster -> [Warps -> WarpRecord]]
    BY <1>1, <2>1
  <2>3. buffer \in [Cluster -> [Stages -> [Peers -> Int]]]
    BY <1>1 DEF None
  <2>4. /\ [pending |-> 1, tx |-> 0, phase |-> 0] \in Barrier
        /\ [pending |-> Contributions, tx |-> 0, phase |-> 0] \in Barrier
    BY <1>2 DEF Barrier
  <2>5. full \in [Cluster -> [Stages -> Barrier]] /\ empty \in [Cluster -> [Stages -> Barrier]]
    BY <1>1, <2>4
  <2>6. [data |-> [w \in Warps |-> None], full |-> 0, left |-> {}] \in SlotRecord
    BY DEF SlotRecord, None
  <2>7. ring \in [Cluster -> [Slots -> SlotRecord]]
    BY <1>1, <2>6
  <2>8. QED
    BY <1>1, <2>2, <2>3, <2>5, <2>7 DEF TypeInv
<1>9. \A v \in Peers : WarpInv(v)
  BY <1>3, <1>4, <1>5 DEF WarpInv, Early, Loop
<1>10. \A s \in Stages : s \in Nat /\ s % 2 = s /\ Half(s) = 0
  BY <1>4 DEF Stages
<1>11. Peers # {}
  BY <1>2, PeerPair
<1>12. ASSUME NEW c \in Cluster, NEW s \in Stages
       PROVE  Open(Got(c), Peers, 2, s, s) /\ Open(Freed(c), Peers, 2, s, s)
  <2>1. \A q \in Nat : q % 2 = s => ~(q < s)
    BY <1>4 DEF Stages
  <2>2. QED
    BY <1>7, <1>10, <1>11, <2>1 DEF Open
<1>13. Cardinality({}) = 0
  BY FS_EmptySet
<1>14. ASSUME NEW c \in Cluster, NEW s \in Stages PROVE FullInv(c, s) /\ EmptyInv(c, s)
  <2>1. ~(s < Puts(<<c, Warp0>>)) /\ Got(c)[s] = {} /\ Freed(c)[s] = {} /\ Half(s) = 0 /\ s \in Nat
    BY <1>2, <1>6, <1>7, <1>10, PeerPair
  <2>2. FullIs(c, s, s)
    BY <1>1, <1>13, <2>1 DEF FullIs
  <2>3. EmptyIs(c, s, s)
    BY <1>1, <1>2, <1>13, <2>1 DEF EmptyIs
  <2>4. QED
    BY <1>12, <2>1, <2>2, <2>3 DEF FullInv, EmptyInv
<1>15. /\ FlyingInv /\ ReadInv /\ PutInv /\ OrderInv /\ LockStep /\ DoneInv
  <2>1. FlyingInv
    BY <1>1 DEF FlyingInv
  <2>2. ReadInv /\ LockStep
    BY <1>6 DEF ReadInv, LockStep
  <2>3. PutInv /\ OrderInv
    BY <1>6, <1>7 DEF PutInv, OrderInv
  <2>4. DoneInv
    BY <1>5 DEF DoneInv
  <2>5. QED
    BY <2>1, <2>2, <2>3, <2>4
<1>16. BufferInv
  BY <1>7 DEF BufferInv
<1>17. QED
  BY <1>8, <1>9, <1>14, <1>15, <1>16 DEF ExchangeInv

\* Every step keeps it.
LEMMA ExchangeStep == ExchangeInv /\ [Next]_vars => ExchangeInv'
<1> SUFFICES ASSUME ExchangeInv, [Next]_vars PROVE ExchangeInv'
  OBVIOUS
<1>1. TypeInv /\ (\A v \in Peers : WarpInv(v)) /\ FlyingInv
  BY DEF ExchangeInv
<1>2. TypeInv' /\ (\A v \in Peers : WarpInv(v)')
  BY <1>1, TypeStep
<1>3. shape' = shape
  BY ShapeStep
<1>4. CASE UNCHANGED vars
  <2>1. warp' = warp /\ buffer' = buffer /\ full' = full /\ empty' = empty /\ flying' = flying
    BY <1>4 DEF vars
  <2>2. QED
    BY <1>2, <1>3, <2>1, LandLoadStep
<1>5. CASE LandLoad
  <2>1. warp' = warp /\ buffer' = buffer /\ full' = full /\ empty' = empty /\ flying' = flying
    BY <1>1, <1>5, LandLoadEffect DEF LandsAt
  <2>2. QED
    BY <1>2, <1>3, <2>1, LandLoadStep
<1>6. CASE LandRemote
  BY <1>2, <1>3, <1>6, LandRemoteStep
<1>7. ASSUME NEW c \in Cluster, CtaBarrier(c) PROVE ExchangeInv'
  BY <1>2, <1>3, <1>7, CtaBarrierStep
<1>8. ASSUME NEW c \in Cluster, NEW w \in Warps, WarpStep(c, w) PROVE ExchangeInv'
  <2>1. CASE Put(c, w)
    BY <1>2, <1>3, <2>1, PutStep
  <2>2. CASE WaitFull(c, w)
    BY <1>2, <1>3, <2>2, WaitFullStep
  <2>3. CASE Release(c, w)
    BY <1>2, <1>3, <2>3, ReleaseStep
  <2>4. CASE \/ Join(c, w) \/ Begin(c, w) \/ PrefetchAhead(c, w) \/ WaitLoad(c, w)
             \/ WriteScratch(c, w) \/ Exit(c, w)
    BY <1>2, <1>3, <2>4, QuietSteps
  <2>5. QED
    BY <1>8, <2>1, <2>2, <2>3, <2>4 DEF WarpStep
<1>9. QED
  BY <1>4, <1>5, <1>6, <1>7, <1>8 DEF Next

(***************************************************************************)
(* The stages are handed on as their barriers say: of each stage one round *)
(* is open, whose values and arrivals its barriers count; a warp has gone  *)
(* on only with what it waited for; and the buffer holds what came last.   *)
(***************************************************************************)
THEOREM ExchangeIsOrdered == Spec => []ExchangeInv
<1>1. Init => ExchangeInv
  BY ExchangeInit
<1>2. ExchangeInv /\ [Next]_vars => ExchangeInv'
  BY ExchangeStep
<1>3. QED
  BY <1>1, <1>2, PTL DEF Spec

\* What flies is sent behind the cluster barrier, and its receiver still waits
\* for it: for all arrivals before it ends, for all values before it reads.
LEMMA ReceiverWaits == ExchangeInv => PeersAreThere
<1> SUFFICES ASSUME ExchangeInv, NEW m \in flying
             PROVE  <<m.to, Warp0>> \in joined /\ \E w \in Warps : warp[m.to][w].pc # "done"
  BY DEF PeersAreThere
<1> DEFINE v == m.from
           d == m.to
           i == m.i
           u == <<d, Warp0>>
<1>1. /\ TypeInv /\ (\A x \in Peers : WarpInv(x)) /\ FlyingInv
  BY DEF ExchangeInv
<1>2. /\ Remote /\ v \in Peers /\ d \in Cluster /\ i \in Nat
      /\ m = Message(m.kind, v, d, i)
      /\ \/ m.kind = "value" /\ i < Puts(v)
         \/ m.kind = "free" /\ i < Frees(v) /\ shape.persistent
  BY <1>1 DEF FlyingInv
<1>3. /\ u \in Peers /\ u[1] = d /\ Me(u) = warp[d][Warp0] /\ Warp0 \in Warps
  BY <1>2, ReduceAssumption, PeerPair DEF Me
<1>4. /\ Frees(v) \in Nat /\ Puts(v) \in Nat /\ Frees(v) <= Puts(v) /\ Puts(v) <= shape.rounds
      /\ shape.rounds \in Nat
  BY <1>1, <1>2, AllCounts, ShapeFacts DEF TypeInv
<1>5. i < Puts(v) /\ i < shape.rounds
  BY <1>2, <1>4
<1>6. joined = Peers
  <2>1. Me(v).pc \notin Early
    BY <1>1, <1>2, <1>5 DEF WarpInv, Puts, Early
  <2>2. QED
    BY <1>1, <1>2, <2>1 DEF WarpInv
<1>7. ASSUME Me(u).pc = "done" PROVE FALSE
  <2>1. CASE m.kind = "free"
    <3>1. Reusing /\ DoneInv
      BY <1>2, <2>1 DEF ExchangeInv, Reusing, Remote
    <3>2. Freed(d)[i] = Peers
      BY <1>2, <1>3, <1>5, <1>7, <3>1 DEF DoneInv
    <3>3. Message("free", v, d, i) \notin flying
      BY <1>2, <3>2, InFreed
    <3>4. QED
      BY <1>2, <2>1, <3>3
  <2>2. CASE m.kind = "value"
    <3>1. Me(u).i = shape.rounds
      BY <1>1, <1>3, <1>7 DEF WarpInv
    <3>2. Reads(u) = shape.rounds
      BY <1>7, <3>1 DEF Reads
    <3>3. Got(d)[i] = Peers
      BY <1>2, <1>3, <1>5, <3>2 DEF ExchangeInv, ReadInv
    <3>4. Message("value", v, d, i) \notin flying
      BY <1>2, <3>3, InGot
    <3>5. QED
      BY <1>2, <2>2, <3>4
  <2>3. QED
    BY <1>2, <2>1, <2>2
<1>8. QED
  BY <1>3, <1>6, <1>7

(***************************************************************************)
(* No CTA ends, or has not begun, while something flies to it: the wait    *)
(* for the last stage and the cluster barrier of reduction_base.py do.     *)
(***************************************************************************)
THEOREM ReceiversArePresent == Spec => []PeersAreThere
BY ExchangeIsOrdered, ReceiverWaits, PTL

\* A warp that reads has all values of its round, and no warp is two rounds on.
LEMMA RowIsThere ==
  ASSUME ExchangeInv, NEW c \in Cluster, NEW w \in Warps, warp[c][w].pc = "read"
  PROVE  BufferHoldsRow(c, w)
<1> DEFINE v == <<c, w>>
           i == warp[c][w].i
<1>1. TypeInv /\ (\A x \in Peers : WarpInv(x)) /\ FlyingInv /\ BufferInv
  BY DEF ExchangeInv
<1>2. v \in Peers /\ v[1] = c /\ Me(v) = warp[c][w] /\ Me(v) \in WarpRecord
  BY <1>1, PeerPair DEF TypeInv, Me
<1>3. /\ i \in Nat /\ warp[c][w].stage = i % 2 /\ Reads(v) = i + 1 /\ Frees(v) = i
  BY <1>1, <1>2 DEF WarpInv, WarpRecord, Reads, Frees
<1>4. \A x \in Peers : /\ Frees(x) \in Nat /\ Reads(x) \in Nat /\ Puts(x) \in Nat
                       /\ Frees(x) <= Reads(x) /\ Reads(x) <= Puts(x) /\ Puts(x) <= Frees(x) + 1
  BY <1>1, AllCounts
<1> HIDE DEF v, i
<1>5. SUFFICES ASSUME NEW x \in Peers PROVE x \in Got(c)[i] /\ Puts(x) <= i + 2
  BY <1>1, <1>3 DEF BufferHoldsRow, BufferInv, i
<1>6. CASE Remote
  <2>1. Got(c)[i] = Peers
    BY <1>2, <1>3, <1>6 DEF ExchangeInv, ReadInv
  <2>2. ~(i + 2 < Puts(x))
    <3>1. ASSUME i + 2 < Puts(x) PROVE FALSE
      <4>1. i < Frees(v)
        BY <1>2, <1>3, <1>6, <3>1, Behind
      <4>2. QED
        BY <1>3, <4>1
    <3>2. QED
      BY <3>1
  <2>3. QED
    BY <1>3, <1>4, <2>1, <2>2
<1>7. CASE ~Remote
  <2>1. Reads(x) = i + 1
    BY <1>2, <1>3, <1>7 DEF ExchangeInv, LockStep
  <2>2. i < Puts(x) /\ Puts(x) <= i + 2
    BY <1>3, <1>4, <2>1
  <2>3. Message("value", x, c, i) \notin flying
    BY <1>1, <1>7 DEF FlyingInv
  <2>4. QED
    BY <1>3, <2>2, <2>3, InGot
<1>8. QED
  BY <1>6, <1>7

-----------------------------------------------------------------------------
(* The inductive invariant of the loads. *)

\* Who issues the loads of warp w, how many tiles the issuer has issued, and
\* where a warp is.
Issuer(w) == IF shape.loads = "tma" THEN Warp0 ELSE w
IssuedBy(v) ==
  IF Me(v).pc \in Early THEN 0
  ELSE LET n == Me(v).i + (IF Me(v).pc = "ahead" THEN Ahead ELSE LoadStages)
       IN  IF n < shape.rounds THEN n ELSE shape.rounds
Iss(c, w) == IssuedBy(<<c, Issuer(w)>>)
At(c, w) == warp[c][w].i
Has(c, w) == warp[c][w].pc \in {"put", "wait", "read"}
Gone(c, w) == warp[c][w].pc \in {"scratch", "exit", "done"}

\* The part of tile j for warp w, and whether it is in shared memory.
Part(c, w, j) == <<c, w, SlotOf(j), j>>
Loaded(c, w, j) == j < Iss(c, w) /\ Part(c, w, j) \notin landing
LoadsOf(c) == [j \in Nat |-> IF Loaded(c, Warp0, j) THEN {Warp0} ELSE {}]
LapOf(j) == (j \div LoadStages) % 2

\* A TMA is for all warps.
LandingInv ==
  \A l \in landing : /\ l[3] = SlotOf(l[4]) /\ l[4] < Iss(l[1], l[2])
                     /\ shape.loads = "tma" => \A w \in Warps : Part(l[1], w, l[4]) \in landing

\* No load is issued more than a lap ahead of a warp that it is for.
AheadInv ==
  \A c \in Cluster, w \in Warps, u \in Warps :
    shape.loads = "tma" \/ w = u => Iss(c, w) <= At(c, u) + LoadStages

\* A warp has waited for its part of each tile that it was or is in.
OperandInv ==
  \A c \in Cluster, w \in Warps, j \in Nat :
    j < At(c, w) \/ (j = At(c, w) /\ Has(c, w)) => Loaded(c, w, j)

\* The full barrier of a slot is in the phase of the tile to come.
SlotInv ==
  \A c \in Cluster, s \in Slots :
    \E j \in Nat : Open(LoadsOf(c), {Warp0}, LoadStages, s, j) /\ ring[c][s].full = LapOf(j)

\* Of the last tile issued into a slot, those that are behind it have left.
LeftInv ==
  \A c \in Cluster, j \in Nat :
    /\ j < Iss(c, Warp0) /\ Iss(c, Warp0) <= j + LoadStages
         => ring[c][SlotOf(j)].left = {w \in Warps : j < At(c, w)}
    /\ Iss(c, Warp0) <= j /\ j < LoadStages => ring[c][SlotOf(j)].left = {}

\* A part that has landed stays until the next load into its slot is issued, or
\* the memory becomes the scratch of a CTA all of whose warps are at the end.
DataInv ==
  \A c \in Cluster, w \in Warps, j \in Nat :
    ~Gone(c, w) /\ Loaded(c, w, j) /\ Iss(c, w) <= j + LoadStages => ring[c][SlotOf(j)].data[w] = j
ScratchInv ==
  \A c \in Cluster, w \in Warps, u \in Warps : warp[c][w].pc = "scratch" => Gone(c, u)

LoadInv ==
  /\ ScratchInv
  /\ shape.loads = "none" => landing = {}
  /\ shape.loads # "none" => LandingInv /\ AheadInv /\ OperandInv /\ DataInv
  /\ shape.loads = "tma" => SlotInv /\ LeftInv

\* Slots and laps.
LEMMA SlotFacts ==
  ASSUME NEW j \in Nat
  PROVE  /\ SlotOf(j) \in Slots /\ SlotOf(j) <= j /\ SlotOf(j) \in Nat
         /\ j < LoadStages => SlotOf(j) = j
         /\ LapOf(j) \in {0, 1} /\ LapOf(j + LoadStages) = 1 - LapOf(j)
         /\ \A k \in Nat : SlotOf(j) = SlotOf(k) /\ j < k => j + LoadStages <= k
<1>1. LoadStages \in Nat \ {0}
  BY ReduceAssumption
<1>2. j \div LoadStages \in Nat /\ j % LoadStages \in 0 .. LoadStages - 1
      /\ j = LoadStages * (j \div LoadStages) + (j % LoadStages)
  BY <1>1, DivMod
<1>3. (j + LoadStages) \div LoadStages = (j \div LoadStages) + 1
  BY <1>1, NextLap
<1>4. \A n \in Nat : n % 2 \in {0, 1} /\ (n + 1) % 2 = 1 - (n % 2)
  OBVIOUS
<1>5. LapOf(j) \in {0, 1} /\ LapOf(j + LoadStages) = 1 - LapOf(j)
  BY <1>2, <1>3, <1>4 DEF LapOf
<1>6. LoadStages * (j \div LoadStages) \in Nat
  BY <1>1, <1>2
<1>7. SlotOf(j) \in Slots /\ SlotOf(j) <= j /\ SlotOf(j) \in Nat
  BY <1>1, <1>2, <1>6 DEF SlotOf, Slots
<1>8. ASSUME j < LoadStages PROVE SlotOf(j) = j
  <2>1. j \in 0 .. LoadStages - 1 /\ LoadStages * 0 + j = j
    BY <1>1, <1>8
  <2>2. (LoadStages * 0 + j) % LoadStages = j
    BY <1>1, <2>1, DivUnique
  <2>3. QED
    BY <2>1, <2>2 DEF SlotOf
<1>9. ASSUME NEW k \in Nat, SlotOf(j) = SlotOf(k), j < k PROVE j + LoadStages <= k
  BY <1>1, <1>9, SameSlot DEF SlotOf
<1>10. QED
  BY <1>5, <1>7, <1>8, <1>9

\* Within a lap each slot is that of one tile.
LEMMA OneLap ==
  ASSUME NEW j \in Nat, NEW k \in Nat, SlotOf(j) = SlotOf(k), NEW n \in Nat,
         j < n, n <= j + LoadStages, k < n, n <= k + LoadStages
  PROVE  j = k
<1>1. LoadStages \in Nat
  BY ReduceAssumption
<1>2. ~(j < k) /\ ~(k < j)
  BY <1>1, SlotFacts
<1>3. QED
  BY <1>2

\* Parts that agree are of the same CTA, warp and tile.
LEMMA SamePart ==
  ASSUME NEW c, NEW w, NEW j, NEW d, NEW u, NEW k
  PROVE  /\ Part(c, w, j)[1] = c /\ Part(c, w, j)[2] = w /\ Part(c, w, j)[3] = SlotOf(j)
         /\ Part(c, w, j)[4] = j
         /\ Part(c, w, j) = Part(d, u, k) => c = d /\ w = u /\ j = k
BY DEF Part

\* How far loads and warps are.
LEMMA LoadCounts ==
  ASSUME TypeInv, \A v \in Peers : WarpInv(v)
  PROVE  /\ shape.rounds \in Nat /\ LoadStages \in Nat \ {0} /\ Ahead \in Nat /\ Ahead + 1 = LoadStages
         /\ Warp0 \in Warps /\ shape.loads \in {"tma", "async", "none"}
         /\ \A c \in Cluster, w \in Warps :
              /\ Iss(c, w) \in Nat /\ Iss(c, w) <= shape.rounds
              /\ At(c, w) \in Nat /\ At(c, w) <= shape.rounds
              /\ <<c, w>> \in Peers /\ Me(<<c, w>>) = warp[c][w] /\ Issuer(w) \in Warps
<1>1. /\ shape.rounds \in Nat /\ LoadStages \in Nat \ {0} /\ Ahead \in Nat /\ Ahead + 1 = LoadStages
      /\ Warp0 \in Warps /\ shape.loads \in {"tma", "async", "none"}
  BY ShapeFacts, ReduceAssumption DEF TypeInv, Ahead
<1>2. ASSUME NEW c \in Cluster, NEW w \in Warps
      PROVE  /\ <<c, w>> \in Peers /\ Me(<<c, w>>) = warp[c][w] /\ Issuer(w) \in Warps
             /\ Me(<<c, w>>).i \in Nat /\ Me(<<c, w>>).i <= shape.rounds
  <2>1. <<c, w>> \in Peers /\ Me(<<c, w>>) = warp[c][w] /\ Issuer(w) \in Warps
    BY <1>1, PeerPair DEF Me, Issuer
  <2>2. warp[c][w] \in WarpRecord
    BY DEF TypeInv
  <2>3. Me(<<c, w>>).i \in Nat
    BY <2>1, <2>2 DEF WarpRecord
  <2>4. QED
    BY <2>1, <2>3 DEF WarpInv
<1>3. ASSUME NEW c \in Cluster, NEW w \in Warps
      PROVE  IssuedBy(<<c, w>>) \in Nat /\ IssuedBy(<<c, w>>) <= shape.rounds
  BY <1>1, <1>2 DEF IssuedBy
<1>4. QED
  BY <1>1, <1>2, <1>3 DEF Iss, At

-----------------------------------------------------------------------------
(* Steps that neither issue nor land a load, nor leave a tile. *)

\* A warp that comes to a place which is as early or as ahead as its old one.
LEMMA SameIssued ==
  ASSUME TypeInv, shape' = shape,
         \A v \in Peers : /\ Me(v)'.i = Me(v).i
                          /\ Me(v)'.pc \in Early <=> Me(v).pc \in Early
                          /\ Me(v)'.pc = "ahead" <=> Me(v).pc = "ahead"
  PROVE  \A c \in Cluster, w \in Warps : Iss(c, w)' = Iss(c, w) /\ At(c, w)' = At(c, w)
<1>1. \A v \in Peers : IssuedBy(v)' = IssuedBy(v)
  BY DEF IssuedBy, Early
<1>2. Warp0 \in Warps
  BY ReduceAssumption
<1>3. SUFFICES ASSUME NEW c \in Cluster, NEW w \in Warps
               PROVE  Iss(c, w)' = Iss(c, w) /\ At(c, w)' = At(c, w)
  OBVIOUS
<1>4. Issuer(w)' = Issuer(w) /\ Issuer(w) \in Warps /\ <<c, w>> \in Peers /\ <<c, Issuer(w)>> \in Peers
  BY <1>2, PeerPair DEF Issuer
<1>5. At(c, w)' = At(c, w)
  BY <1>4 DEF At, Me
<1>6. Iss(c, w)' = Iss(c, w)
  BY <1>1, <1>4 DEF Iss
<1>7. QED
  BY <1>5, <1>6

\* What is loaded depends on what is issued and what has not landed.
LEMMA SameLoaded ==
  ASSUME shape' = shape, landing' = landing,
         \A c \in Cluster, w \in Warps : Iss(c, w)' = Iss(c, w)
  PROVE  \A c \in Cluster, w \in Warps, j \in Nat : Loaded(c, w, j)' <=> Loaded(c, w, j)
BY DEF Loaded, Part, SlotOf

\* Open slots stay open.
LEMMA SlotKept ==
  ASSUME shape' = shape, NEW c \in Cluster, NEW s \in Slots, Warp0 \in Warps,
         NEW j \in Nat, Open(LoadsOf(c), {Warp0}, LoadStages, s, j),
         \A k \in Nat : SlotOf(k) = s => (Loaded(c, Warp0, k)' <=> Loaded(c, Warp0, k))
  PROVE  Open(LoadsOf(c)', {Warp0}, LoadStages, s, j)
<1>1. \A k \in Nat : k % LoadStages = s => LoadsOf(c)'[k] = LoadsOf(c)[k]
  BY DEF LoadsOf, SlotOf
<1>2. QED
  BY <1>1, OtherTurn

\* A warp goes on in its tile: into it when its part is there.
MovesIn(c, w) ==
  /\ Iss(c, w)' = Iss(c, w) /\ At(c, w)' = At(c, w)
  /\ Has(c, w)' /\ shape.loads # "none" => Has(c, w) \/ Loaded(c, w, At(c, w))
  /\ Gone(c, w) => Gone(c, w)'

LEMMA LoadsRest ==
  ASSUME ExchangeInv, LoadInv, shape' = shape, landing' = landing, ring' = ring, ScratchInv',
         \A c \in Cluster, w \in Warps : MovesIn(c, w)
  PROVE  LoadInv'
<1>1. TypeInv /\ (\A v \in Peers : WarpInv(v)) /\ Warp0 \in Warps /\ Cluster' = Cluster
  BY SameShape, ReduceAssumption DEF ExchangeInv
<1>2. \A c \in Cluster, w \in Warps :
        /\ Iss(c, w)' = Iss(c, w) /\ At(c, w)' = At(c, w)
        /\ Has(c, w)' /\ shape.loads # "none" => Has(c, w) \/ Loaded(c, w, At(c, w))
        /\ Gone(c, w) => Gone(c, w)'
  BY DEF MovesIn
<1>3. \A c \in Cluster, w \in Warps, j \in Nat : Loaded(c, w, j)' <=> Loaded(c, w, j)
  BY <1>2, SameLoaded
<1>4. ASSUME shape.loads # "none" PROVE LandingInv' /\ AheadInv' /\ OperandInv' /\ DataInv'
  <2>1. LandingInv /\ AheadInv /\ OperandInv /\ DataInv
    BY <1>4 DEF LoadInv
  <2>2. LandingInv'
    <3>1. ASSUME NEW l \in landing
          PROVE  /\ l[3] = SlotOf(l[4]) /\ l[4] < Iss(l[1], l[2])'
                 /\ shape.loads = "tma" => \A w \in Warps : Part(l[1], w, l[4]) \in landing
      <4>1. l[1] \in Cluster /\ l[2] \in Warps
        BY <1>1 DEF TypeInv
      <4>2. QED
        BY <1>2, <2>1, <4>1 DEF LandingInv
    <3>2. QED
      BY <3>1 DEF LandingInv, Part, SlotOf
  <2>3. AheadInv'
    BY <1>1, <1>2, <2>1 DEF AheadInv
  <2>4. OperandInv'
    BY <1>1, <1>2, <1>3, <1>4, <2>1 DEF OperandInv
  <2>5. DataInv'
    BY <1>1, <1>2, <1>3, <2>1 DEF DataInv, SlotOf
  <2>6. QED
    BY <2>2, <2>3, <2>4, <2>5
<1>5. ASSUME shape.loads = "tma" PROVE SlotInv' /\ LeftInv'
  <2>1. SlotInv /\ LeftInv
    BY <1>5 DEF LoadInv
  <2>2. SlotInv'
    <3>1. ASSUME NEW c \in Cluster, NEW s \in Slots
          PROVE  \E j \in Nat : Open(LoadsOf(c)', {Warp0}, LoadStages, s, j) /\ ring[c][s].full = LapOf(j)
      <4>1. PICK j \in Nat : Open(LoadsOf(c), {Warp0}, LoadStages, s, j) /\ ring[c][s].full = LapOf(j)
        BY <2>1 DEF SlotInv
      <4>2. Open(LoadsOf(c)', {Warp0}, LoadStages, s, j)
        BY <1>1, <1>3, <4>1, SlotKept
      <4>3. QED
        BY <4>1, <4>2
    <3>2. QED
      BY <1>1, <3>1 DEF SlotInv, Slots, LapOf, Open
  <2>3. LeftInv'
    BY <1>1, <1>2, <2>1 DEF LeftInv, SlotOf
  <2>4. QED
    BY <2>2, <2>3
<1>6. shape.loads = "none" => landing' = {}
  BY DEF LoadInv
<1>7. QED
  BY <1>4, <1>5, <1>6 DEF LoadInv

\* A warp goes to a place.
LEMMA GotoPlace ==
  ASSUME TypeInv, shape' = shape, NEW c \in Cluster, NEW w \in Warps, NEW p \in Place, Goto(c, w, p)
  PROVE  /\ \A d \in Cluster, u \in Warps :
              /\ warp'[d][u].i = warp[d][u].i
              /\ warp'[d][u].pc = IF d = c /\ u = w THEN p ELSE warp[d][u].pc
         /\ \A v \in Peers : Me(v)'.i = Me(v).i /\ Me(v)'.pc = IF v = <<c, w>> THEN p ELSE Me(v).pc
<1>1. /\ \A v \in Peers : v # <<c, w>> => Me(v)' = Me(v)
      /\ Me(<<c, w>>)' = [Me(<<c, w>>) EXCEPT !.pc = p]
  BY GotoEffect
<1>2. <<c, w>> \in Peers /\ Me(<<c, w>>) \in WarpRecord
  BY PeerPair DEF TypeInv, Me
<1>3. Me(<<c, w>>)'.i = Me(<<c, w>>).i /\ Me(<<c, w>>)'.pc = p
  BY <1>1, <1>2 DEF WarpRecord
<1>4. \A v \in Peers : Me(v)'.i = Me(v).i /\ Me(v)'.pc = IF v = <<c, w>> THEN p ELSE Me(v).pc
  BY <1>1, <1>3
<1>5. \A d \in Cluster, u \in Warps : <<d, u>> \in Peers /\ (<<d, u>> = <<c, w>> <=> d = c /\ u = w)
  BY PeerPair
<1>6. \A d \in Cluster, u \in Warps : Me(<<d, u>>) = warp[d][u] /\ Me(<<d, u>>)' = warp'[d][u]
  BY DEF Me
<1>7. ASSUME NEW d \in Cluster, NEW u \in Warps
      PROVE  /\ warp'[d][u].i = warp[d][u].i
             /\ warp'[d][u].pc = IF d = c /\ u = w THEN p ELSE warp[d][u].pc
  <2>1. <<d, u>> \in Peers /\ (<<d, u>> = <<c, w>> <=> d = c /\ u = w)
    BY <1>5
  <2>2. Me(<<d, u>>) = warp[d][u] /\ Me(<<d, u>>)' = warp'[d][u]
    BY <1>6
  <2>3. Me(<<d, u>>)'.i = Me(<<d, u>>).i
    BY <1>4, <2>1
  <2>4. Me(<<d, u>>)'.pc = IF <<d, u>> = <<c, w>> THEN p ELSE Me(<<d, u>>).pc
    BY <1>4, <2>1
  <2>5. QED
    BY <2>1, <2>2, <2>3, <2>4
<1>8. QED
  BY <1>4, <1>7

\* No warp comes to the scratch, and none back from the end.
LEMMA ScratchKept ==
  ASSUME ScratchInv, shape' = shape,
         \A c \in Cluster, w \in Warps : /\ warp'[c][w].pc = "scratch" => warp[c][w].pc = "scratch"
                                         /\ Gone(c, w) => Gone(c, w)'
  PROVE  ScratchInv'
<1>1. Cluster' = Cluster
  BY SameShape
<1>2. QED
  BY <1>1 DEF ScratchInv

\* A TMA lands for all warps of the CTA.
LEMMA TmaForAll ==
  ASSUME LandingInv, shape.loads = "tma", NEW c \in Cluster, NEW w \in Warps, NEW u \in Warps,
         NEW j \in Nat, Loaded(c, w, j)
  PROVE  Loaded(c, u, j)
<1>1. Iss(c, w) = Iss(c, u)
  BY DEF Iss, Issuer
<1>2. Part(c, u, j) \in landing => Part(c, w, j) \in landing
  <2>1. ASSUME Part(c, u, j) \in landing PROVE Part(Part(c, u, j)[1], w, Part(c, u, j)[4]) \in landing
    BY <2>1 DEF LandingInv
  <2>2. QED
    BY <2>1, SamePart
<1>3. QED
  BY <1>1, <1>2 DEF Loaded

\* A wait for the operands that passes finds them loaded.
LEMMA ArrivedLoaded ==
  ASSUME TypeInv, \A v \in Peers : WarpInv(v), LoadInv, NEW c \in Cluster, NEW w \in Warps,
         warp[c][w].pc = "load", Arrived(c, w, At(c, w))
  PROVE  Loaded(c, w, At(c, w))
<1> DEFINE i == At(c, w)
<1>1. /\ i \in Nat /\ Warp0 \in Warps /\ LoadStages \in Nat \ {0} /\ shape.rounds \in Nat
      /\ <<c, w>> \in Peers /\ Me(<<c, w>>) = warp[c][w]
  BY LoadCounts
<1>2. shape.loads # "none" /\ i < shape.rounds
  BY <1>1 DEF WarpInv, Loop, At
<1>3. LandingInv /\ OperandInv /\ (shape.loads = "tma" => SlotInv)
  BY <1>2 DEF LoadInv
<1> HIDE DEF i
<1>4. CASE shape.loads = "tma"
  <2>1. SlotOf(i) \in Slots
    BY <1>1, SlotFacts
  <2>2. PICK j \in Nat : /\ Open(LoadsOf(c), {Warp0}, LoadStages, SlotOf(i), j)
                         /\ ring[c][SlotOf(i)].full = LapOf(j)
    BY <1>3, <1>4, <2>1 DEF SlotInv
  <2>3. ring[c][SlotOf(i)].full # LapOf(i)
    BY <1>4 DEF Arrived, LapOf, i
  <2>4. j # i
    BY <2>2, <2>3
  <2>5. LoadsOf(c)[j] # {Warp0}
    BY <2>2 DEF Open
  <2>6. ~Loaded(c, Warp0, j)
    BY <2>5 DEF LoadsOf
  <2>7. ~(j < i)
    <3>1. ASSUME j < i PROVE FALSE
      <4>1. Loaded(c, w, j)
        BY <1>3, <3>1 DEF OperandInv, i
      <4>2. QED
        BY <1>1, <1>3, <1>4, <2>6, <4>1, TmaForAll
    <3>2. QED
      BY <3>1
  <2>8. i < j
    BY <1>1, <2>4, <2>7
  <2>9. i % LoadStages = SlotOf(i)
    BY DEF SlotOf
  <2>10. LoadsOf(c)[i] = {Warp0}
    BY <1>1, <2>2, <2>8, <2>9 DEF Open
  <2>11. Loaded(c, Warp0, i)
    BY <1>1, <2>10 DEF LoadsOf
  <2>12. Loaded(c, w, i)
    BY <1>1, <1>3, <1>4, <2>11, TmaForAll
  <2>13. QED
    BY <2>12 DEF i
<1>5. CASE shape.loads # "tma"
  <2>1. \A l \in landing : l[1] = c /\ l[2] = w => l[4] > i
    BY <1>5 DEF Arrived, i
  <2>2. Part(c, w, i) \notin landing
    BY <1>1, <2>1, SamePart
  <2>3. Iss(c, w) = IssuedBy(<<c, w>>)
    BY <1>5 DEF Iss, Issuer
  <2>4. Me(<<c, w>>).pc = "load" /\ Me(<<c, w>>).i = i
    BY <1>1 DEF At, i
  <2>5. i < Iss(c, w)
    BY <1>1, <1>2, <2>3, <2>4 DEF IssuedBy, Early
  <2>6. QED
    BY <2>2, <2>5 DEF Loaded, i
<1>6. QED
  BY <1>4, <1>5

\* A warp that goes on in its tile, or to the end.
LEMMA GoesIn ==
  ASSUME ExchangeInv, LoadInv, shape' = shape, landing' = landing, ring' = ring,
         NEW c \in Cluster, NEW w \in Warps, NEW p \in Place, Goto(c, w, p),
         p \in Early <=> warp[c][w].pc \in Early, p # "ahead", warp[c][w].pc # "ahead",
         p # "scratch", Gone(c, w) => p \in {"exit", "done"},
         p \in {"put", "wait", "read"} /\ shape.loads # "none" => Has(c, w) \/ Loaded(c, w, At(c, w))
  PROVE  LoadInv'
<1>1. TypeInv
  BY DEF ExchangeInv
<1>2. /\ \A d \in Cluster, u \in Warps :
           /\ warp'[d][u].i = warp[d][u].i
           /\ warp'[d][u].pc = IF d = c /\ u = w THEN p ELSE warp[d][u].pc
      /\ \A v \in Peers : Me(v)'.i = Me(v).i /\ Me(v)'.pc = IF v = <<c, w>> THEN p ELSE Me(v).pc
  BY <1>1, GotoPlace
<1>3. Me(<<c, w>>).pc = warp[c][w].pc
  BY DEF Me
<1>4. \A d \in Cluster, u \in Warps : Iss(d, u)' = Iss(d, u) /\ At(d, u)' = At(d, u)
  BY <1>1, <1>2, <1>3, SameIssued
<1>5. \A d \in Cluster, u \in Warps : MovesIn(d, u)
  BY <1>2, <1>4 DEF MovesIn, Has, Gone
<1>6. ScratchInv'
  BY <1>2, ScratchKept DEF LoadInv, Gone
<1>7. QED
  BY <1>5, <1>6, LoadsRest

LEMMA QuietLoads ==
  ASSUME ExchangeInv, LoadInv, shape' = shape, NEW c \in Cluster, NEW w \in Warps,
         \/ Join(c, w) \/ WaitLoad(c, w) \/ Put(c, w) \/ WaitFull(c, w) \/ Exit(c, w)
  PROVE  LoadInv'
<1>1. TypeInv /\ (\A v \in Peers : WarpInv(v)) /\ {"begin", "put", "wait", "read", "done"} \subseteq Place
  BY DEF ExchangeInv, Place
<1>2. CASE Join(c, w)
  <2>1. warp[c][w].pc = "join" /\ Goto(c, w, "begin") /\ ring' = ring /\ landing' = landing
    BY <1>2 DEF Join
  <2>2. QED
    BY <1>1, <2>1, GoesIn DEF Early, Gone
<1>3. CASE WaitLoad(c, w)
  <2>1. /\ warp[c][w].pc = "load" /\ Arrived(c, w, At(c, w)) /\ Goto(c, w, "put")
        /\ ring' = ring /\ landing' = landing
    BY <1>3 DEF WaitLoad, At
  <2>2. Loaded(c, w, At(c, w))
    BY <1>1, <2>1, ArrivedLoaded
  <2>3. QED
    BY <1>1, <2>1, <2>2, GoesIn DEF Early, Gone
<1>4. CASE Put(c, w)
  <2>1. warp[c][w].pc = "put" /\ Goto(c, w, "wait") /\ ring' = ring /\ landing' = landing
    BY <1>4 DEF Put
  <2>2. QED
    BY <1>1, <2>1, GoesIn DEF Early, Gone, Has
<1>5. CASE WaitFull(c, w)
  <2>1. warp[c][w].pc = "wait" /\ Goto(c, w, "read") /\ ring' = ring /\ landing' = landing
    BY <1>5 DEF WaitFull
  <2>2. QED
    BY <1>1, <2>1, GoesIn DEF Early, Gone, Has
<1>6. CASE Exit(c, w)
  <2>1. warp[c][w].pc = "exit" /\ Goto(c, w, "done") /\ ring' = ring /\ landing' = landing
    BY <1>6 DEF Exit
  <2>2. QED
    BY <1>1, <2>1, GoesIn DEF Early, Gone
<1>7. QED
  BY <1>2, <1>3, <1>4, <1>5, <1>6

\* The warps of a CTA meet.
LEMMA CtaBarrierLoads ==
  ASSUME ExchangeInv, LoadInv, shape' = shape, NEW c \in Cluster, CtaBarrier(c)
  PROVE  LoadInv'
<1>1. TypeInv
  BY DEF ExchangeInv
<1>2. PICK at \in {"wait", "tail"} :
        /\ \A w \in Warps : warp[c][w].pc = at
        /\ warp' = [warp EXCEPT ![c] = [w \in Warps |->
                      [@[w] EXCEPT !.pc = IF at = "wait" THEN "read" ELSE "scratch"]]]
        /\ ring' = ring /\ landing' = landing
  BY DEF CtaBarrier
<1> DEFINE p == IF at = "wait" THEN "read" ELSE "scratch"
<1>3. p \in Place
  BY DEF Place
<1>4. \A v \in Peers : Me(v)' = IF v[1] = c THEN [Me(v) EXCEPT !.pc = p] ELSE Me(v)
  BY <1>1, <1>2, <1>3, BarrierEffect
<1>5. \A v \in Peers : Me(v) \in WarpRecord /\ (v[1] = c => Me(v).pc = at)
  BY <1>1, <1>2, PeerPair DEF TypeInv, Me
<1>6. ASSUME NEW v \in Peers
      PROVE  Me(v)'.i = Me(v).i /\ Me(v)'.pc = IF v[1] = c THEN p ELSE Me(v).pc
  BY <1>4, <1>5 DEF WarpRecord
<1>7. \A d \in Cluster, u \in Warps :
        /\ <<d, u>> \in Peers /\ Me(<<d, u>>) = warp[d][u] /\ Me(<<d, u>>)' = warp'[d][u]
        /\ <<d, u>>[1] = d
  BY PeerPair DEF Me
<1>8. \A d \in Cluster, u \in Warps :
        /\ warp'[d][u].pc = IF d = c THEN p ELSE warp[d][u].pc
        /\ d = c => warp[d][u].pc = at
  <2>1. SUFFICES ASSUME NEW d \in Cluster, NEW u \in Warps
                 PROVE  /\ warp'[d][u].pc = IF d = c THEN p ELSE warp[d][u].pc
                        /\ d = c => warp[d][u].pc = at
    OBVIOUS
  <2> DEFINE v == <<d, u>>
  <2>2. v \in Peers /\ Me(v) = warp[d][u] /\ Me(v)' = warp'[d][u] /\ v[1] = d
    BY <1>7
  <2> HIDE DEF v
  <2>3. Me(v)'.pc = IF d = c THEN p ELSE Me(v).pc
    BY <1>6, <2>2
  <2>4. d = c => Me(v).pc = at
    BY <1>5, <2>2
  <2>5. QED
    BY <2>2, <2>3, <2>4
<1>9. \A v \in Peers : /\ Me(v)'.i = Me(v).i
                       /\ Me(v)'.pc \in Early <=> Me(v).pc \in Early
                       /\ Me(v)'.pc = "ahead" <=> Me(v).pc = "ahead"
  BY <1>5, <1>6 DEF Early
<1>10. \A d \in Cluster, u \in Warps : Iss(d, u)' = Iss(d, u) /\ At(d, u)' = At(d, u)
  BY <1>1, <1>9, SameIssued
<1>11. \A d \in Cluster, u \in Warps : MovesIn(d, u)
  BY <1>8, <1>10 DEF MovesIn, Has, Gone
<1>12. ScratchInv'
  <2>1. SUFFICES ASSUME NEW d \in Cluster, NEW w \in Warps, NEW u \in Warps, warp'[d][w].pc = "scratch"
                 PROVE  Gone(d, u)'
    BY SameShape DEF ScratchInv
  <2>2. CASE d = c
    BY <1>8, <2>1, <2>2 DEF Gone
  <2>3. CASE d # c
    <3>1. warp[d][w].pc = "scratch"
      BY <1>8, <2>1, <2>3
    <3>2. Gone(d, u)
      BY <3>1 DEF LoadInv, ScratchInv
    <3>3. QED
      BY <1>8, <2>3, <3>2 DEF Gone
  <2>4. QED
    BY <2>2, <2>3
<1>13. QED
  BY <1>2, <1>11, <1>12, LoadsRest

\* Nothing of the loads changes.
LEMMA StillLoads ==
  ASSUME ExchangeInv, LoadInv, shape' = shape, warp' = warp, ring' = ring, landing' = landing
  PROVE  LoadInv'
<1>1. \A c \in Cluster, w \in Warps : MovesIn(c, w)
  BY DEF MovesIn, Iss, Issuer, IssuedBy, Me, At, Has, Gone
<1>2. ScratchInv'
  BY SameShape DEF LoadInv, ScratchInv, Gone
<1>3. QED
  BY <1>1, <1>2, LoadsRest

\* The scratch is written when no warp of the CTA reads its operands any more.
LEMMA WriteScratchLoads ==
  ASSUME ExchangeInv, LoadInv, shape' = shape, NEW c \in Cluster, NEW w \in Warps, WriteScratch(c, w)
  PROVE  LoadInv'
<1>1. TypeInv /\ (\A v \in Peers : WarpInv(v)) /\ "exit" \in Place /\ Warp0 \in Warps /\ Cluster' = Cluster
  BY SameShape, ReduceAssumption DEF ExchangeInv, Place
<1>2. /\ warp[c][w].pc = "scratch" /\ Goto(c, w, "exit") /\ landing' = landing
      /\ ring' = [ring EXCEPT ![c] = [s \in Slots |->
                    [@[s] EXCEPT !.data = [v \in Warps |-> Scratch]]]]
  BY DEF WriteScratch
<1>3. \A u \in Warps : Gone(c, u)
  BY <1>2 DEF LoadInv, ScratchInv
<1>4. /\ \A d \in Cluster, u \in Warps :
           /\ warp'[d][u].i = warp[d][u].i
           /\ warp'[d][u].pc = IF d = c /\ u = w THEN "exit" ELSE warp[d][u].pc
      /\ \A v \in Peers : Me(v)'.i = Me(v).i /\ Me(v)'.pc = IF v = <<c, w>> THEN "exit" ELSE Me(v).pc
  BY <1>1, <1>2, GotoPlace
<1>5. \A d \in Cluster, u \in Warps : Iss(d, u)' = Iss(d, u) /\ At(d, u)' = At(d, u)
  <2>1. Me(<<c, w>>).pc = "scratch"
    BY <1>2 DEF Me
  <2>2. \A v \in Peers : /\ Me(v)'.i = Me(v).i
                         /\ Me(v)'.pc \in Early <=> Me(v).pc \in Early
                         /\ Me(v)'.pc = "ahead" <=> Me(v).pc = "ahead"
    BY <1>4, <2>1 DEF Early
  <2>3. QED
    BY <1>1, <2>2, SameIssued
<1>6. \A d \in Cluster, u \in Warps : (Has(d, u)' <=> Has(d, u)) /\ (Gone(d, u)' <=> Gone(d, u))
  BY <1>2, <1>4 DEF Has, Gone
<1>7. /\ \A d \in Cluster, s \in Slots : /\ ring'[d][s].left = ring[d][s].left
                                         /\ ring'[d][s].full = ring[d][s].full
      /\ \A d \in Cluster, s \in Slots : d # c => ring'[d][s] = ring[d][s]
  <2>1. ring \in [Cluster -> [Slots -> SlotRecord]]
    BY <1>1 DEF TypeInv
  <2>2. \A d \in Cluster, s \in Slots : d # c => ring'[d][s] = ring[d][s]
    BY <1>2, <2>1
  <2>3. ASSUME NEW s \in Slots
        PROVE  ring'[c][s].left = ring[c][s].left /\ ring'[c][s].full = ring[c][s].full
    <3>1. ring[c][s] \in SlotRecord
      BY <2>1
    <3>2. ring'[c][s] = [ring[c][s] EXCEPT !.data = [v \in Warps |-> Scratch]]
      BY <1>2, <2>1
    <3>3. QED
      BY <3>1, <3>2 DEF SlotRecord
  <2>4. QED
    BY <2>2, <2>3
<1>8. \A d \in Cluster, u \in Warps, j \in Nat : Loaded(d, u, j)' <=> Loaded(d, u, j)
  BY <1>2, <1>5, SameLoaded
<1>9. ScratchInv'
  BY <1>4, <1>6, ScratchKept DEF LoadInv
<1>10. ASSUME shape.loads # "none" PROVE LandingInv' /\ AheadInv' /\ OperandInv' /\ DataInv'
  <2>1. LandingInv /\ AheadInv /\ OperandInv /\ DataInv
    BY <1>10 DEF LoadInv
  <2>2. LandingInv'
    <3>1. ASSUME NEW l \in landing
          PROVE  /\ l[3] = SlotOf(l[4]) /\ l[4] < Iss(l[1], l[2])'
                 /\ shape.loads = "tma" => \A u \in Warps : Part(l[1], u, l[4]) \in landing
      <4>1. l[1] \in Cluster /\ l[2] \in Warps
        BY <1>1 DEF TypeInv
      <4>2. QED
        BY <1>5, <2>1, <4>1 DEF LandingInv
    <3>2. QED
      BY <1>2, <3>1 DEF LandingInv, Part, SlotOf
  <2>3. AheadInv'
    BY <1>1, <1>5, <2>1 DEF AheadInv
  <2>4. OperandInv'
    BY <1>1, <1>5, <1>6, <1>8, <2>1 DEF OperandInv
  <2>5. DataInv'
    <3>1. SUFFICES ASSUME NEW d \in Cluster, NEW u \in Warps, NEW j \in Nat,
                          ~Gone(d, u)', Loaded(d, u, j)', Iss(d, u)' <= j + LoadStages
                   PROVE  ring'[d][SlotOf(j)].data[u] = j
      BY <1>1 DEF DataInv, SlotOf
    <3>2. d # c /\ SlotOf(j) \in Slots
      BY <1>3, <1>6, <3>1, SlotFacts
    <3>3. QED
      BY <1>5, <1>6, <1>7, <1>8, <2>1, <3>1, <3>2 DEF DataInv
  <2>6. QED
    BY <2>2, <2>3, <2>4, <2>5
<1>11. ASSUME shape.loads = "tma" PROVE SlotInv' /\ LeftInv'
  <2>1. SlotInv /\ LeftInv
    BY <1>11 DEF LoadInv
  <2>2. SlotInv'
    <3>1. ASSUME NEW d \in Cluster, NEW s \in Slots
          PROVE  \E j \in Nat : Open(LoadsOf(d)', {Warp0}, LoadStages, s, j) /\ ring'[d][s].full = LapOf(j)
      <4>1. PICK j \in Nat : Open(LoadsOf(d), {Warp0}, LoadStages, s, j) /\ ring[d][s].full = LapOf(j)
        BY <2>1 DEF SlotInv
      <4>2. Open(LoadsOf(d)', {Warp0}, LoadStages, s, j)
        BY <1>1, <1>8, <4>1, SlotKept
      <4>3. QED
        BY <1>7, <4>1, <4>2
    <3>2. QED
      BY <1>1, <3>1 DEF SlotInv, Slots, LapOf, Open
  <2>3. LeftInv'
    <3>1. \A j \in Nat : SlotOf(j) \in Slots
      BY SlotFacts
    <3>2. QED
      BY <1>1, <1>5, <1>7, <2>1, <3>1 DEF LeftInv, SlotOf
  <2>4. QED
    BY <2>2, <2>3
<1>12. shape.loads = "none" => landing' = {}
  BY <1>2 DEF LoadInv
<1>13. QED
  BY <1>9, <1>10, <1>11, <1>12 DEF LoadInv

-----------------------------------------------------------------------------
(* A warp leaves a tile. *)

\* Without loads there is only the scratch.
LEMMA NoLoads ==
  ASSUME shape' = shape, shape.loads = "none", ScratchInv', landing' = {}
  PROVE  LoadInv'
BY DEF LoadInv

\* The warp that leaves goes to the next tile, whose loads have been issued, or
\* to the end.
LEMMA ReleasePlace ==
  ASSUME TypeInv, \A v \in Peers : WarpInv(v), shape' = shape,
         NEW c \in Cluster, NEW w \in Warps, Release(c, w)
  PROVE  /\ warp[c][w].pc = "read" /\ landing' = landing
         /\ \A d \in Cluster, u \in Warps :
              /\ At(d, u)' = IF d = c /\ u = w THEN At(c, w) + 1 ELSE At(d, u)
              /\ d # c \/ u # w => warp'[d][u] = warp[d][u]
         /\ warp'[c][w].pc \in {"put", "ahead", "tail", "exit", "done"}
         /\ shape.loads # "none" => /\ warp'[c][w].pc # "put"
                                    /\ \A d \in Cluster, u \in Warps : Iss(d, u)' = Iss(d, u)
<1> DEFINE x == <<c, w>>
           i == warp[c][w].i
<1>1. /\ shape.rounds \in Nat /\ LoadStages \in Nat \ {0} /\ Ahead \in Nat /\ Ahead + 1 = LoadStages
      /\ shape \in Shapes /\ x \in Peers /\ Me(x) = warp[c][w] /\ Me(x) \in WarpRecord
  BY LoadCounts, PeerPair DEF TypeInv, Me
<1>2. /\ warp[c][w].pc = "read" /\ landing' = landing
      /\ warp' = [warp EXCEPT ![c][w] = NextRound(warp[c][w])]
  BY DEF Release
<1>3. /\ \A v \in Peers : v # x => Me(v)' = Me(v)
      /\ Me(x)' = NextRound(Me(x))
  BY <1>2, ReleaseEffect
<1>4. /\ Me(x)'.i = i + 1 /\ i \in Nat /\ i < shape.rounds
      /\ Me(x)'.pc = IF i + 1 < shape.rounds THEN IterationPc ELSE AfterLoop
  <2>1. i \in Nat
    BY <1>1 DEF WarpRecord
  <2>2. i < shape.rounds
    BY <1>1, <1>2 DEF WarpInv, Loop
  <2>3. QED
    BY <1>1, <1>3, <2>1, <2>2, NextRoundEffect
<1>5. \A d \in Cluster, u \in Warps :
        /\ <<d, u>> \in Peers /\ (<<d, u>> = x <=> d = c /\ u = w)
        /\ Me(<<d, u>>) = warp[d][u] /\ Me(<<d, u>>)' = warp'[d][u]
  BY PeerPair DEF Me
<1>6. \A d \in Cluster, u \in Warps :
        /\ At(d, u)' = IF d = c /\ u = w THEN At(c, w) + 1 ELSE At(d, u)
        /\ d # c \/ u # w => warp'[d][u] = warp[d][u]
  <2>1. SUFFICES ASSUME NEW d \in Cluster, NEW u \in Warps
                 PROVE  /\ At(d, u)' = IF d = c /\ u = w THEN At(c, w) + 1 ELSE At(d, u)
                        /\ d # c \/ u # w => warp'[d][u] = warp[d][u]
    OBVIOUS
  <2>2. CASE d = c /\ u = w
    BY <1>4, <1>5, <2>2 DEF At
  <2>3. CASE d # c \/ u # w
    <3>1. <<d, u>> \in Peers /\ <<d, u>> # x
      BY <1>5, <2>3
    <3>2. Me(<<d, u>>)' = Me(<<d, u>>)
      BY <1>3, <3>1
    <3>3. QED
      BY <1>5, <2>3, <3>2 DEF At
  <2>4. QED
    BY <2>2, <2>3
<1>7. warp'[c][w].pc \in {"put", "ahead", "tail", "exit", "done"}
      /\ (shape.loads # "none" => warp'[c][w].pc # "put")
  BY <1>4, <1>5 DEF IterationPc, AfterLoop
<1> HIDE DEF x, i
<1>8. ASSUME shape.loads # "none" PROVE \A d \in Cluster, u \in Warps : Iss(d, u)' = Iss(d, u)
  <2>1. Me(x).pc = "read" /\ Me(x).i = i
    BY <1>1, <1>2 DEF i
  <2>2. CASE i + 1 < shape.rounds
    <3>1. Me(x)'.pc = "ahead"
      BY <1>4, <1>8, <2>2 DEF IterationPc
    <3>2. QED
      <4>1. i + 1 + Ahead = i + LoadStages
        BY <1>1, <1>4
      <4>2. IssuedBy(x)' = IssuedBy(x)
        BY <1>1, <1>4, <2>1, <3>1, <4>1 DEF IssuedBy, Early, Ahead
      <4>3. \A v \in Peers : IssuedBy(v)' = IssuedBy(v)
        BY <1>3, <4>2 DEF IssuedBy
      <4>4. \A u \in Warps : Issuer(u)' = Issuer(u) /\ Issuer(u) \in Warps
        BY ReduceAssumption DEF Issuer
      <4>5. QED
        BY <4>3, <4>4, PeerPair DEF Iss
  <2>3. CASE ~(i + 1 < shape.rounds)
    <3>1. Me(x)'.pc \in {"tail", "exit", "done"}
      BY <1>4, <2>3 DEF AfterLoop
    <3>2. i + 1 = shape.rounds
      BY <1>1, <1>4, <2>3
    <3>3. IssuedBy(x) = shape.rounds
      BY <1>1, <1>4, <2>1, <3>2 DEF IssuedBy, Early
    <3>4. IssuedBy(x)' = shape.rounds
      BY <1>1, <1>4, <3>1, <3>2 DEF IssuedBy, Early
    <3>5. \A v \in Peers : IssuedBy(v)' = IssuedBy(v)
      BY <1>3, <3>3, <3>4 DEF IssuedBy
    <3>6. \A u \in Warps : Issuer(u)' = Issuer(u) /\ Issuer(u) \in Warps
      BY ReduceAssumption DEF Issuer
    <3>7. QED
      BY <3>5, <3>6, PeerPair DEF Iss
  <2>4. QED
    BY <2>2, <2>3
<1>9. QED
  BY <1>2, <1>6, <1>7, <1>8

\* It leaves the slot of its tile.
LeavesSlot(c, w, i) == ring' = [ring EXCEPT ![c][SlotOf(i)].left = @ \cup {w}]
SlotLeft(c, w, i) ==
  \A d \in Cluster, s \in Slots :
    /\ ring'[d][s].data = ring[d][s].data /\ ring'[d][s].full = ring[d][s].full
    /\ ring'[d][s].left = IF d = c /\ s = SlotOf(i) THEN ring[d][s].left \cup {w} ELSE ring[d][s].left

LEMMA ReleaseRing ==
  ASSUME TypeInv, shape.loads # "none", NEW c \in Cluster, NEW w \in Warps, NEW i \in Nat,
         LeavesSlot(c, w, i)
  PROVE  SlotLeft(c, w, i)
<1>1. SlotOf(i) \in Slots
  BY SlotFacts
<1>2. ring \in [Cluster -> [Slots -> SlotRecord]]
  BY DEF TypeInv
<1> DEFINE t == SlotOf(i)
<1>3. \A d \in Cluster, s \in Slots : d # c \/ s # t => ring'[d][s] = ring[d][s]
  BY <1>1, <1>2 DEF LeavesSlot
<1>4. ring'[c][t] = [ring[c][t] EXCEPT !.left = ring[c][t].left \cup {w}]
  BY <1>1, <1>2 DEF LeavesSlot
<1>5. ring[c][t] \in SlotRecord
  BY <1>1, <1>2
<1>6. /\ ring'[c][t].data = ring[c][t].data /\ ring'[c][t].full = ring[c][t].full
      /\ ring'[c][t].left = ring[c][t].left \cup {w}
  BY <1>4, <1>5 DEF SlotRecord
<1>7. SUFFICES ASSUME NEW d \in Cluster, NEW s \in Slots
               PROVE  /\ ring'[d][s].data = ring[d][s].data /\ ring'[d][s].full = ring[d][s].full
                      /\ ring'[d][s].left = IF d = c /\ s = t THEN ring[d][s].left \cup {w}
                                                            ELSE ring[d][s].left
  BY DEF SlotLeft
<1> HIDE DEF t
<1>8. CASE d = c /\ s = t
  BY <1>6, <1>8
<1>9. CASE d # c \/ s # t
  <2>1. ring'[d][s] = ring[d][s]
    BY <1>3, <1>9
  <2>2. QED
    BY <1>9, <2>1
<1>10. QED
  BY <1>8, <1>9

LEMMA ReleaseLoads ==
  ASSUME ExchangeInv, LoadInv, shape' = shape, NEW c \in Cluster, NEW w \in Warps, Release(c, w)
  PROVE  LoadInv'
<1> DEFINE i == At(c, w)
<1>1. /\ TypeInv /\ (\A v \in Peers : WarpInv(v)) /\ Cluster' = Cluster
      /\ Warp0 \in Warps /\ LoadStages \in Nat \ {0} /\ i \in Nat
      /\ \A d \in Cluster, u \in Warps : Iss(d, u) \in Nat /\ At(d, u) \in Nat
  BY SameShape, LoadCounts DEF ExchangeInv
<1>2. /\ warp[c][w].pc = "read" /\ landing' = landing
      /\ \A d \in Cluster, u \in Warps :
           /\ At(d, u)' = IF d = c /\ u = w THEN i + 1 ELSE At(d, u)
           /\ d # c \/ u # w => warp'[d][u] = warp[d][u]
      /\ warp'[c][w].pc \in {"put", "ahead", "tail", "exit", "done"}
  BY <1>1, ReleasePlace
<1>3. \A d \in Cluster, u \in Warps : Gone(d, u) => Gone(d, u)'
  BY <1>2 DEF Gone
<1>4. ScratchInv'
  <2>1. \A d \in Cluster, u \in Warps : warp'[d][u].pc = "scratch" => warp[d][u].pc = "scratch"
    BY <1>2
  <2>2. QED
    BY <1>3, <2>1, ScratchKept DEF LoadInv
<1>5. CASE shape.loads = "none"
  BY <1>2, <1>4, <1>5, NoLoads DEF LoadInv
<1>6. CASE shape.loads # "none"
  <2>1. LandingInv /\ AheadInv /\ OperandInv /\ DataInv /\ (shape.loads = "tma" => SlotInv /\ LeftInv)
    BY <1>6 DEF LoadInv
  <2>2. /\ warp'[c][w].pc # "put" /\ \A d \in Cluster, u \in Warps : Iss(d, u)' = Iss(d, u)
    BY <1>1, <1>6, ReleasePlace
  <2>3. \A d \in Cluster, u \in Warps, j \in Nat : Loaded(d, u, j)' <=> Loaded(d, u, j)
    BY <1>2, <2>2, SameLoaded
  <2>4. \A d \in Cluster, s \in Slots :
          /\ ring'[d][s].data = ring[d][s].data /\ ring'[d][s].full = ring[d][s].full
          /\ ring'[d][s].left = IF d = c /\ s = SlotOf(i) THEN ring[d][s].left \cup {w} ELSE ring[d][s].left
    <3>1. LeavesSlot(c, w, i)
      BY <1>6 DEF Release, At, LeavesSlot
    <3> HIDE DEF i
    <3>2. SlotLeft(c, w, i)
      BY <1>1, <1>6, <3>1, ReleaseRing
    <3>3. QED
      BY <3>2 DEF SlotLeft
  <2>5. Loaded(c, w, i) /\ i < Iss(c, w)
    <3>1. Has(c, w)
      BY <1>2 DEF Has
    <3>2. Loaded(c, w, i)
      BY <1>1, <2>1, <3>1 DEF OperandInv
    <3>3. QED
      BY <3>2 DEF Loaded
  <2> HIDE DEF i
  <2>6. LandingInv'
    <3>1. ASSUME NEW l \in landing
          PROVE  /\ l[3] = SlotOf(l[4]) /\ l[4] < Iss(l[1], l[2])'
                 /\ shape.loads = "tma" => \A u \in Warps : Part(l[1], u, l[4]) \in landing
      <4>1. l[1] \in Cluster /\ l[2] \in Warps
        BY <1>1 DEF TypeInv
      <4>2. QED
        BY <2>1, <2>2, <4>1 DEF LandingInv
    <3>2. QED
      BY <1>2, <3>1 DEF LandingInv, Part, SlotOf
  <2>7. AheadInv'
    <3>1. SUFFICES ASSUME NEW d \in Cluster, NEW u \in Warps, NEW x \in Warps, shape.loads = "tma" \/ u = x
                   PROVE  Iss(d, u)' <= At(d, x)' + LoadStages
      BY <1>1 DEF AheadInv
    <3>2. Iss(d, u) <= At(d, x) + LoadStages /\ Iss(d, u) \in Nat /\ At(d, x) \in Nat
      BY <1>1, <2>1, <3>1 DEF AheadInv
    <3>3. At(d, x)' = At(d, x) \/ At(d, x)' = At(d, x) + 1
      BY <1>2 DEF i
    <3>4. Iss(d, u)' = Iss(d, u)
      BY <2>2
    <3>5. QED
      BY <1>1, <3>2, <3>3, <3>4
  <2>8. OperandInv'
    <3>1. SUFFICES ASSUME NEW d \in Cluster, NEW u \in Warps, NEW j \in Nat,
                          j < At(d, u)' \/ (j = At(d, u)' /\ Has(d, u)')
                   PROVE  Loaded(d, u, j)'
      BY <1>1 DEF OperandInv
    <3>2. CASE d = c /\ u = w
      <4>1. At(c, w)' = i + 1 /\ ~Has(c, w)'
        BY <1>2, <2>2 DEF Has
      <4>2. j < i \/ j = i
        BY <1>1, <3>1, <3>2, <4>1
      <4>3. Loaded(c, w, j)
        BY <2>1, <2>5, <4>2 DEF OperandInv, i
      <4>4. QED
        BY <2>3, <3>2, <4>3
    <3>3. CASE d # c \/ u # w
      <4>1. At(d, u)' = At(d, u) /\ (Has(d, u)' <=> Has(d, u))
        BY <1>2, <3>3 DEF Has
      <4>2. QED
        BY <2>1, <2>3, <3>1, <4>1 DEF OperandInv
    <3>4. QED
      BY <3>2, <3>3
  <2>9. DataInv'
    <3>1. SUFFICES ASSUME NEW d \in Cluster, NEW u \in Warps, NEW j \in Nat,
                          ~Gone(d, u)', Loaded(d, u, j)', Iss(d, u)' <= j + LoadStages
                   PROVE  ring'[d][SlotOf(j)].data[u] = j
      BY <1>1 DEF DataInv, SlotOf
    <3>2. SlotOf(j) \in Slots
      BY SlotFacts
    <3>3. ring[d][SlotOf(j)].data[u] = j
      BY <1>3, <2>1, <2>2, <2>3, <3>1 DEF DataInv
    <3>4. QED
      BY <2>4, <3>2, <3>3
  <2>10. ASSUME shape.loads = "tma" PROVE SlotInv'
    <3>1. ASSUME NEW d \in Cluster, NEW s \in Slots
          PROVE  \E j \in Nat : Open(LoadsOf(d)', {Warp0}, LoadStages, s, j) /\ ring'[d][s].full = LapOf(j)
      <4>1. PICK j \in Nat : Open(LoadsOf(d), {Warp0}, LoadStages, s, j) /\ ring[d][s].full = LapOf(j)
        BY <2>1, <2>10 DEF SlotInv
      <4>2. Open(LoadsOf(d)', {Warp0}, LoadStages, s, j)
        BY <1>1, <2>3, <4>1, SlotKept
      <4>3. QED
        BY <2>4, <4>1, <4>2
    <3>2. QED
      BY <1>1, <3>1 DEF SlotInv, Slots, LapOf, Open
  <2>11. ASSUME shape.loads = "tma" PROVE LeftInv'
    <3> DEFINE n == Iss(c, Warp0)
    <3>1. n = Iss(c, w) /\ n \in Nat
      BY <1>1, <2>11 DEF Iss, Issuer
    <3>2. i < n /\ n <= i + LoadStages
      <4>1. Iss(c, w) <= At(c, w) + LoadStages
        BY <2>1, <2>11 DEF AheadInv
      <4>2. QED
        BY <2>5, <3>1, <4>1 DEF i
    <3>3. SUFFICES ASSUME NEW d \in Cluster, NEW j \in Nat
          PROVE  /\ j < Iss(d, Warp0)' /\ Iss(d, Warp0)' <= j + LoadStages
                      => ring'[d][SlotOf(j)].left = {u \in Warps : j < At(d, u)'}
                 /\ Iss(d, Warp0)' <= j /\ j < LoadStages => ring'[d][SlotOf(j)].left = {}
      BY <1>1 DEF LeftInv, SlotOf
    <3>4. Iss(d, Warp0)' = Iss(d, Warp0) /\ SlotOf(j) \in Slots
      BY <1>1, <2>2, SlotFacts
    <3>5. /\ j < Iss(d, Warp0) /\ Iss(d, Warp0) <= j + LoadStages
               => ring[d][SlotOf(j)].left = {u \in Warps : j < At(d, u)}
          /\ Iss(d, Warp0) <= j /\ j < LoadStages => ring[d][SlotOf(j)].left = {}
      BY <2>1, <2>11 DEF LeftInv
    <3>6. CASE d = c /\ SlotOf(j) = SlotOf(i)
      <4>1. ring'[d][SlotOf(j)].left = ring[d][SlotOf(j)].left \cup {w}
        BY <2>4, <3>4, <3>6
      <4>2. ASSUME j < n, n <= j + LoadStages
            PROVE  ring'[d][SlotOf(j)].left = {u \in Warps : j < At(d, u)'}
        <5>1. j = i
          BY <1>1, <3>1, <3>2, <3>6, <4>2, OneLap
        <5>2. ring[d][SlotOf(j)].left = {u \in Warps : j < At(d, u)}
          BY <3>5, <3>6, <4>2
        <5>3. \A u \in Warps : j < At(d, u)' <=> j < At(d, u) \/ u = w
          BY <1>1, <1>2, <3>6, <5>1
        <5>4. QED
          BY <4>1, <5>2, <5>3
      <4>3. ~(n <= j /\ j < LoadStages)
        <5>1. j < LoadStages => SlotOf(j) = j
          BY SlotFacts
        <5>2. SlotOf(i) <= i
          BY <1>1, SlotFacts
        <5>3. QED
          BY <1>1, <3>1, <3>2, <3>6, <5>1, <5>2
      <4>4. QED
        BY <3>4, <3>6, <4>2, <4>3
    <3>7. CASE d # c \/ SlotOf(j) # SlotOf(i)
      <4>1. ring'[d][SlotOf(j)].left = ring[d][SlotOf(j)].left
        BY <2>4, <3>4, <3>7
      <4>2. d # c \/ j # i
        BY <3>7
      <4>3. {u \in Warps : j < At(d, u)'} = {u \in Warps : j < At(d, u)}
        <5>1. \A u \in Warps : j < At(d, u)' <=> j < At(d, u)
          <6>1. SUFFICES ASSUME NEW u \in Warps PROVE j < At(d, u)' <=> j < At(d, u)
            OBVIOUS
          <6>2. CASE d = c /\ u = w
            <7>1. At(d, u)' = i + 1 /\ At(d, u) = i /\ j # i
              BY <1>2, <4>2, <6>2 DEF i
            <7>2. QED
              BY <1>1, <7>1
          <6>3. CASE d # c \/ u # w
            BY <1>2, <6>3
          <6>4. QED
            BY <6>2, <6>3
        <5>2. QED
          BY <5>1
      <4>4. QED
        BY <3>4, <3>5, <4>1, <4>3
    <3>8. QED
      BY <3>6, <3>7
  <2>12. QED
    BY <1>4, <1>6, <2>6, <2>7, <2>8, <2>9, <2>10, <2>11 DEF LoadInv
<1>7. QED
  BY <1>5, <1>6

-----------------------------------------------------------------------------
(* A warp issues loads. *)

\* The warps it issues them for, and the parts of tiles lo to hi - 1.
Served(w) == {u \in Warps : Issuer(u) = w}
NewParts(c, w, lo, hi) == {Part(c, u, j) : u \in Served(w), j \in lo .. hi - 1}

\* Warp w goes from lo to hi issued tiles.
Issues(c, w, lo, hi) ==
  /\ lo \in Nat /\ hi \in Nat /\ lo <= hi
  /\ \A u \in Served(w) : Iss(c, u) = lo /\ Iss(c, u)' = hi /\ hi <= At(c, u) + LoadStages
  /\ \A d \in Cluster, u \in Warps :
       /\ d # c \/ u \notin Served(w) => Iss(d, u)' = Iss(d, u)
       /\ At(d, u)' = At(d, u) /\ (Has(d, u)' <=> Has(d, u)) /\ (Gone(d, u) => Gone(d, u)')
  /\ landing' = landing \cup NewParts(c, w, lo, hi)

\* What is issued is not loaded yet.
LEMMA IssuesLoaded ==
  ASSUME TypeInv, \A v \in Peers : WarpInv(v), shape' = shape,
         NEW c \in Cluster, NEW w \in Warps, NEW lo, NEW hi, Issues(c, w, lo, hi)
  PROVE  \A d \in Cluster, u \in Warps, j \in Nat : Loaded(d, u, j)' <=> Loaded(d, u, j)
<1>1. SUFFICES ASSUME NEW d \in Cluster, NEW u \in Warps, NEW j \in Nat
               PROVE  Loaded(d, u, j)' <=> Loaded(d, u, j)
  OBVIOUS
<1>2. lo \in Nat /\ hi \in Nat /\ lo <= hi /\ landing' = landing \cup NewParts(c, w, lo, hi)
  BY DEF Issues
<1>3. Part(d, u, j)' = Part(d, u, j)
  BY DEF Part, SlotOf
<1>4. Part(d, u, j) \in NewParts(c, w, lo, hi) <=> d = c /\ u \in Served(w) /\ j \in lo .. hi - 1
  BY SamePart DEF NewParts
<1>5. CASE d = c /\ u \in Served(w)
  <2>1. Iss(d, u) = lo /\ Iss(d, u)' = hi
    BY <1>5 DEF Issues
  <2>2. QED
    BY <1>2, <1>3, <1>4, <1>5, <2>1 DEF Loaded
<1>6. CASE ~(d = c /\ u \in Served(w))
  <2>1. Iss(d, u)' = Iss(d, u)
    BY <1>6 DEF Issues
  <2>2. QED
    BY <1>2, <1>3, <1>4, <1>6, <2>1 DEF Loaded
<1>7. QED
  BY <1>5, <1>6

\* It keeps what holds of the loads, if the slots are empty or have been left.
LEMMA IssuesKeep ==
  ASSUME ExchangeInv, LoadInv, TypeInv', shape' = shape, shape.loads # "none",
         NEW c \in Cluster, NEW w \in Warps, NEW lo, NEW hi, Issues(c, w, lo, hi), ScratchInv',
         \A d \in Cluster, s \in Slots : /\ ring'[d][s].data = ring[d][s].data
                                         /\ ring'[d][s].full = ring[d][s].full,
         shape.loads = "tma" => LeftInv'
  PROVE  LoadInv'
<1>1. /\ TypeInv /\ (\A v \in Peers : WarpInv(v)) /\ Cluster' = Cluster
      /\ Warp0 \in Warps /\ LoadStages \in Nat \ {0}
      /\ \A d \in Cluster, u \in Warps : Iss(d, u) \in Nat /\ At(d, u) \in Nat
  BY SameShape, LoadCounts DEF ExchangeInv
<1>2. /\ lo \in Nat /\ hi \in Nat /\ lo <= hi
      /\ \A u \in Served(w) : Iss(c, u) = lo /\ Iss(c, u)' = hi /\ hi <= At(c, u) + LoadStages
      /\ \A d \in Cluster, u \in Warps :
           /\ d # c \/ u \notin Served(w) => Iss(d, u)' = Iss(d, u)
           /\ At(d, u)' = At(d, u) /\ (Has(d, u)' <=> Has(d, u)) /\ (Gone(d, u) => Gone(d, u)')
      /\ landing' = landing \cup NewParts(c, w, lo, hi)
  BY DEF Issues
<1>3. \A d \in Cluster, u \in Warps, j \in Nat : Loaded(d, u, j)' <=> Loaded(d, u, j)
  BY <1>1, IssuesLoaded
<1>4. LandingInv /\ AheadInv /\ OperandInv /\ DataInv /\ (shape.loads = "tma" => SlotInv)
  BY DEF LoadInv
<1>5. \A d \in Cluster, u \in Warps : Iss(d, u) <= Iss(d, u)' /\ Iss(d, u)' \in Nat
  <2>1. SUFFICES ASSUME NEW d \in Cluster, NEW u \in Warps
                 PROVE  Iss(d, u) <= Iss(d, u)' /\ Iss(d, u)' \in Nat
    OBVIOUS
  <2>2. CASE d = c /\ u \in Served(w)
    BY <1>2, <2>2
  <2>3. CASE d # c \/ u \notin Served(w)
    BY <1>1, <1>2, <2>3
  <2>4. QED
    BY <2>2, <2>3
<1>6. LandingInv'
  <2>1. SUFFICES ASSUME NEW l \in landing'
                 PROVE  /\ l[3] = SlotOf(l[4]) /\ l[4] < Iss(l[1], l[2])'
                        /\ shape.loads = "tma" => \A u \in Warps : Part(l[1], u, l[4]) \in landing'
    BY DEF LandingInv, Part, SlotOf
  <2>2. CASE l \in landing
    <3>1. l[1] \in Cluster /\ l[2] \in Warps /\ l[4] \in Nat
      BY <1>1, <2>2 DEF TypeInv
    <3>2. /\ l[3] = SlotOf(l[4]) /\ l[4] < Iss(l[1], l[2])
          /\ shape.loads = "tma" => \A u \in Warps : Part(l[1], u, l[4]) \in landing
      BY <1>4, <2>2 DEF LandingInv
    <3>3. Iss(l[1], l[2]) <= Iss(l[1], l[2])' /\ Iss(l[1], l[2]) \in Nat /\ Iss(l[1], l[2])' \in Nat
      BY <1>1, <1>5, <3>1
    <3>4. QED
      BY <1>2, <3>1, <3>2, <3>3
  <2>3. CASE l \in NewParts(c, w, lo, hi)
    <3>1. PICK u \in Served(w), j \in lo .. hi - 1 : l = Part(c, u, j)
      BY <2>3 DEF NewParts
    <3>2. l[1] = c /\ l[2] = u /\ l[3] = SlotOf(j) /\ l[4] = j
      BY <3>1, SamePart
    <3>3. j < Iss(c, u)'
      BY <1>2
    <3>4. ASSUME shape.loads = "tma", NEW x \in Warps PROVE Part(c, x, j) \in landing'
      <4>1. x \in Served(w)
        BY <3>4 DEF Served, Issuer
      <4>2. QED
        BY <1>2, <4>1 DEF NewParts
    <3>5. QED
      BY <3>2, <3>3, <3>4
  <2>4. QED
    BY <1>2, <2>1, <2>2, <2>3
<1>7. AheadInv'
  <2>1. SUFFICES ASSUME NEW d \in Cluster, NEW u \in Warps, NEW x \in Warps, shape.loads = "tma" \/ u = x
                 PROVE  Iss(d, u)' <= At(d, x) + LoadStages
    BY <1>1, <1>2 DEF AheadInv
  <2>2. CASE d = c /\ u \in Served(w)
    <3>1. x \in Served(w)
      BY <2>1, <2>2 DEF Served, Issuer
    <3>2. QED
      BY <1>2, <2>2, <3>1
  <2>3. CASE d # c \/ u \notin Served(w)
    <3>1. Iss(d, u)' = Iss(d, u)
      BY <1>2, <2>3
    <3>2. Iss(d, u) <= At(d, x) + LoadStages
      BY <1>4, <2>1 DEF AheadInv
    <3>3. QED
      BY <3>1, <3>2
  <2>4. QED
    BY <2>2, <2>3
<1>8. OperandInv'
  BY <1>1, <1>2, <1>3, <1>4 DEF OperandInv
<1>9. DataInv'
  <2>1. SUFFICES ASSUME NEW d \in Cluster, NEW u \in Warps, NEW j \in Nat,
                        ~Gone(d, u)', Loaded(d, u, j)', Iss(d, u)' <= j + LoadStages
                 PROVE  ring'[d][SlotOf(j)].data[u] = j
    BY <1>1 DEF DataInv, SlotOf
  <2>2. SlotOf(j) \in Slots
    BY SlotFacts
  <2>3. Iss(d, u) <= j + LoadStages
    BY <1>1, <1>5, <2>1
  <2>4. ~Gone(d, u) /\ Loaded(d, u, j)
    BY <1>2, <1>3, <2>1
  <2>5. ring[d][SlotOf(j)].data[u] = j
    BY <1>4, <2>3, <2>4 DEF DataInv
  <2>6. QED
    BY <2>2, <2>5
<1>10. ASSUME shape.loads = "tma" PROVE SlotInv'
  <2>1. ASSUME NEW d \in Cluster, NEW s \in Slots
        PROVE  \E j \in Nat : Open(LoadsOf(d)', {Warp0}, LoadStages, s, j) /\ ring'[d][s].full = LapOf(j)
    <3>1. PICK j \in Nat : Open(LoadsOf(d), {Warp0}, LoadStages, s, j) /\ ring[d][s].full = LapOf(j)
      BY <1>4, <1>10 DEF SlotInv
    <3>2. Open(LoadsOf(d)', {Warp0}, LoadStages, s, j)
      BY <1>1, <1>3, <3>1, SlotKept
    <3>3. QED
      BY <3>1, <3>2
  <2>2. QED
    BY <1>1, <2>1 DEF SlotInv, Slots, LapOf, Open
<1>11. QED
  BY <1>6, <1>7, <1>8, <1>9, <1>10 DEF LoadInv

\* What a warp issues for a tile.
LEMMA IssuedParts ==
  ASSUME shape.loads \in {"tma", "async"}, shape.rounds \in Nat, Warp0 \in Warps,
         NEW c \in Cluster, NEW w \in Warps, NEW j \in Nat
  PROVE  Issued(c, w, j) = IF j < shape.rounds THEN {Part(c, u, j) : u \in Served(w)} ELSE {}
<1>1. j >= shape.rounds <=> ~(j < shape.rounds)
  OBVIOUS
<1>2. CASE shape.loads = "tma" /\ w # Warp0
  <2>1. Served(w) = {}
    BY <1>2 DEF Served, Issuer
  <2>2. QED
    BY <1>2, <2>1 DEF Issued
<1>3. CASE shape.loads = "tma" /\ w = Warp0
  <2>1. Served(w) = Warps
    BY <1>3 DEF Served, Issuer
  <2>2. QED
    BY <1>1, <1>3, <2>1 DEF Issued, Part
<1>4. CASE shape.loads = "async"
  <2>1. Served(w) = {w}
    BY <1>4 DEF Served, Issuer
  <2>2. QED
    BY <1>1, <1>4, <2>1 DEF Issued, Part
<1>5. QED
  BY <1>2, <1>3, <1>4

\* What a warp has issued, at its places.
LEMMA IssuedAt ==
  ASSUME TypeInv, \A v \in Peers : WarpInv(v), shape.loads # "none", shape' = shape,
         NEW c \in Cluster, NEW w \in Warps, NEW p \in Place, Goto(c, w, p),
         p \notin {"put", "wait", "read"}, ~Has(c, w), ~Gone(c, w)
  PROVE  /\ \A u \in Served(w) : Iss(c, u) = IssuedBy(<<c, w>>) /\ Iss(c, u)' = IssuedBy(<<c, w>>)'
         /\ \A d \in Cluster, u \in Warps :
              /\ d # c \/ u \notin Served(w) => Iss(d, u)' = Iss(d, u)
              /\ At(d, u)' = At(d, u) /\ (Has(d, u)' <=> Has(d, u))
              /\ Gone(d, u) => Gone(d, u)'
<1>a. \A v \in Peers : v # <<c, w>> => Me(v)' = Me(v)
  BY GotoEffect
<1>1. \A d \in Cluster, u \in Warps :
        /\ warp'[d][u].i = warp[d][u].i
        /\ warp'[d][u].pc = IF d = c /\ u = w THEN p ELSE warp[d][u].pc
  BY GotoPlace
<1>2. \A u \in Served(w) : Iss(c, u) = IssuedBy(<<c, w>>) /\ Iss(c, u)' = IssuedBy(<<c, w>>)'
  BY DEF Served, Iss, Issuer
<1>3. ASSUME NEW d \in Cluster, NEW u \in Warps, d # c \/ u \notin Served(w)
      PROVE  Iss(d, u)' = Iss(d, u)
  <2> DEFINE v == <<d, Issuer(u)>>
  <2>1. Issuer(u)' = Issuer(u) /\ Issuer(u) \in Warps
    BY ReduceAssumption DEF Issuer
  <2>2. v \in Peers /\ v # <<c, w>>
    BY <1>3, <2>1, PeerPair DEF Served
  <2>3. Me(v)' = Me(v)
    BY <1>a, <2>1, <2>2
  <2>4. IssuedBy(v)' = IssuedBy(v)
    BY <2>1, <2>3 DEF IssuedBy
  <2>5. QED
    BY <2>1, <2>4 DEF Iss
<1>4. \A d \in Cluster, u \in Warps :
        /\ At(d, u)' = At(d, u) /\ (Has(d, u)' <=> Has(d, u))
        /\ Gone(d, u) => Gone(d, u)'
  BY <1>1 DEF At, Has, Gone
<1>5. QED
  BY <1>2, <1>3, <1>4

\* No warp is in front of its loads.
LEMMA AtMostIssued ==
  ASSUME TypeInv, \A v \in Peers : WarpInv(v), OperandInv
  PROVE  \A c \in Cluster, w \in Warps : At(c, w) <= Iss(c, w)
<1>1. SUFFICES ASSUME NEW c \in Cluster, NEW w \in Warps, ~(At(c, w) <= Iss(c, w)) PROVE FALSE
  OBVIOUS
<1>2. At(c, w) \in Nat /\ Iss(c, w) \in Nat
  BY LoadCounts
<1>3. Iss(c, w) < At(c, w)
  BY <1>1, <1>2
<1>4. Loaded(c, w, Iss(c, w))
  BY <1>2, <1>3 DEF OperandInv
<1>5. QED
  BY <1>2, <1>4 DEF Loaded

\* Before the loop.
LEMMA BeginLoads ==
  ASSUME ExchangeInv, LoadInv, TypeInv', shape' = shape,
         NEW c \in Cluster, NEW w \in Warps, Begin(c, w)
  PROVE  LoadInv'
<1> DEFINE p == IF shape.rounds = 0 THEN AfterLoop ELSE IterationPc
           x == <<c, w>>
           hi == IF Ahead < shape.rounds THEN Ahead ELSE shape.rounds
<1>1. /\ TypeInv /\ (\A v \in Peers : WarpInv(v)) /\ Cluster' = Cluster
      /\ shape.rounds \in Nat /\ LoadStages \in Nat \ {0} /\ Ahead \in Nat /\ Ahead + 1 = LoadStages
      /\ Warp0 \in Warps /\ shape.loads \in {"tma", "async", "none"}
      /\ x \in Peers /\ Me(x) = warp[c][w]
      /\ \A d \in Cluster, u \in Warps : Iss(d, u) \in Nat /\ At(d, u) \in Nat
  BY SameShape, LoadCounts DEF ExchangeInv
<1>2. /\ warp[c][w].pc = "begin" /\ Goto(c, w, p) /\ ring' = ring
      /\ landing' = landing \cup UNION {Issued(c, w, j) : j \in 0 .. Ahead - 1}
  BY DEF Begin
<1>3. /\ p \in Place /\ p \in {"put", "ahead", "tail", "exit", "done"}
      /\ p = "put" => shape.loads = "none"
      /\ shape.rounds # 0 /\ shape.loads # "none" => p = "ahead"
      /\ shape.rounds = 0 => p \in {"tail", "exit", "done"}
  BY DEF Place, AfterLoop, IterationPc
<1>4. At(c, w) = 0
  BY <1>1, <1>2 DEF WarpInv, Early, At
<1> HIDE DEF p
<1>5. ScratchInv'
  <2>1. \A d \in Cluster, u \in Warps : warp'[d][u].pc = IF d = c /\ u = w THEN p ELSE warp[d][u].pc
    BY <1>1, <1>2, <1>3, GotoPlace
  <2>2. \A d \in Cluster, u \in Warps : warp'[d][u].pc = "scratch" => warp[d][u].pc = "scratch"
    BY <1>3, <2>1
  <2>3. \A d \in Cluster, u \in Warps : Gone(d, u) => Gone(d, u)'
    BY <1>2, <2>1 DEF Gone
  <2>4. QED
    BY <2>2, <2>3, ScratchKept DEF LoadInv
<1>6. CASE shape.loads = "none"
  <2>1. \A j : Issued(c, w, j) = {}
    BY <1>6 DEF Issued
  <2>2. landing' = {}
    BY <1>2, <1>6, <2>1 DEF LoadInv
  <2>3. QED
    BY <1>5, <1>6, <2>2, NoLoads
<1>7. CASE shape.loads # "none"
  <2>1. LandingInv /\ AheadInv /\ OperandInv /\ DataInv /\ (shape.loads = "tma" => SlotInv /\ LeftInv)
    BY <1>7 DEF LoadInv
  <2>2. /\ \A u \in Served(w) : Iss(c, u) = IssuedBy(x) /\ Iss(c, u)' = IssuedBy(x)'
        /\ \A d \in Cluster, u \in Warps :
              /\ d # c \/ u \notin Served(w) => Iss(d, u)' = Iss(d, u)
              /\ At(d, u)' = At(d, u) /\ (Has(d, u)' <=> Has(d, u))
              /\ Gone(d, u) => Gone(d, u)'
    <3>1. p \notin {"put", "wait", "read"} /\ ~Has(c, w) /\ ~Gone(c, w)
      BY <1>2, <1>3, <1>7 DEF Has, Gone
    <3>2. QED
      BY <1>1, <1>2, <1>3, <1>7, <3>1, IssuedAt
  <2>3. IssuedBy(x) = 0
    BY <1>1, <1>2 DEF IssuedBy, Early
  <2>4. IssuedBy(x)' = hi
    <3>1. Me(x)'.i = 0 /\ Me(x)'.pc = p
      <4>1. Me(x)'.i = Me(x).i /\ Me(x)'.pc = p
        BY <1>1, <1>2, <1>3, GotoPlace
      <4>2. QED
        BY <1>1, <1>4, <4>1 DEF At
    <3>2. CASE shape.rounds = 0
      <4>1. Me(x)'.pc \in {"tail", "exit", "done"}
        BY <1>3, <3>1, <3>2
      <4>2. QED
        BY <1>1, <3>1, <3>2, <4>1 DEF IssuedBy, Early
    <3>3. CASE shape.rounds # 0
      <4>1. Me(x)'.pc = "ahead"
        BY <1>3, <1>7, <3>1, <3>3
      <4>2. QED
        BY <1>1, <3>1, <4>1 DEF IssuedBy, Early, Ahead
    <3>4. QED
      BY <3>2, <3>3
  <2>5. hi \in Nat /\ hi <= Ahead /\ hi <= shape.rounds
    BY <1>1
  <2>6. landing' = landing \cup NewParts(c, w, 0, hi)
    <3>1. UNION {Issued(c, w, j) : j \in 0 .. Ahead - 1} = NewParts(c, w, 0, hi)
      <4>1. \A j \in 0 .. Ahead - 1 :
              Issued(c, w, j) = IF j < shape.rounds THEN {Part(c, u, j) : u \in Served(w)} ELSE {}
        BY <1>1, <1>7, IssuedParts
      <4>2. \A j : j \in 0 .. hi - 1 <=> j \in 0 .. Ahead - 1 /\ j < shape.rounds
        BY <1>1
      <4> HIDE DEF hi
      <4>3. \A l : l \in UNION {Issued(c, w, j) : j \in 0 .. Ahead - 1}
                     <=> \E j \in 0 .. Ahead - 1 : l \in Issued(c, w, j)
        OBVIOUS
      <4>4. \A l : (\E j \in 0 .. Ahead - 1 : l \in Issued(c, w, j))
                     <=> \E j \in 0 .. hi - 1 : \E u \in Served(w) : l = Part(c, u, j)
        BY <4>1, <4>2
      <4>5. \A l : l \in NewParts(c, w, 0, hi) <=> \E j \in 0 .. hi - 1 : \E u \in Served(w) : l = Part(c, u, j)
        BY DEF NewParts
      <4>6. QED
        BY <4>3, <4>4, <4>5
    <3>2. QED
      BY <1>2, <3>1
  <2> HIDE DEF hi
  <2>7. Issues(c, w, 0, hi)
    <3>1. \A u \in Served(w) : hi <= At(c, u) + LoadStages
      <4>1. \A u \in Served(w) : At(c, u) \in Nat
        BY <1>1 DEF Served
      <4>2. QED
        BY <1>1, <2>5, <4>1
    <3>2. QED
      BY <2>2, <2>3, <2>4, <2>5, <2>6, <3>1 DEF Issues
  <2>8. ASSUME shape.loads = "tma" PROVE LeftInv'
    <3>0. SUFFICES ASSUME NEW d \in Cluster, NEW j \in Nat
          PROVE  /\ j < Iss(d, Warp0)' /\ Iss(d, Warp0)' <= j + LoadStages
                      => ring'[d][SlotOf(j)].left = {u \in Warps : j < At(d, u)'}
                 /\ Iss(d, Warp0)' <= j /\ j < LoadStages => ring'[d][SlotOf(j)].left = {}
      BY <1>1 DEF LeftInv, SlotOf
    <3>1. SUFFICES
                 /\ j < Iss(d, Warp0)' /\ Iss(d, Warp0)' <= j + LoadStages
                      => ring[d][SlotOf(j)].left = {u \in Warps : j < At(d, u)}
                 /\ Iss(d, Warp0)' <= j /\ j < LoadStages => ring[d][SlotOf(j)].left = {}
      <4>1. {u \in Warps : j < At(d, u)'} = {u \in Warps : j < At(d, u)}
        BY <2>2
      <4>2. QED
        BY <1>2, <4>1
    <3>2. /\ j < Iss(d, Warp0) /\ Iss(d, Warp0) <= j + LoadStages
               => ring[d][SlotOf(j)].left = {u \in Warps : j < At(d, u)}
          /\ Iss(d, Warp0) <= j /\ j < LoadStages => ring[d][SlotOf(j)].left = {}
      BY <2>1, <2>8 DEF LeftInv
    <3>3. CASE d = c /\ Warp0 \in Served(w)
      <4>1. Iss(d, Warp0) = 0 /\ Iss(d, Warp0)' = hi
        BY <2>2, <2>3, <2>4, <3>3
      <4>2. j < LoadStages => ring[d][SlotOf(j)].left = {}
        BY <3>2, <4>1
      <4>3. {u \in Warps : j < At(d, u)} = {}
        <5>1. \A u \in Warps : At(d, u) <= Iss(d, u) /\ Iss(d, u) = Iss(d, Warp0) /\ At(d, u) \in Nat
          BY <1>1, <2>1, <2>8, AtMostIssued DEF Iss, Issuer
        <5>2. QED
          BY <4>1, <5>1
      <4>4. j < hi => j < LoadStages
        BY <1>1, <2>5
      <4>5. QED
        BY <4>1, <4>2, <4>3, <4>4
    <3>4. CASE ~(d = c /\ Warp0 \in Served(w))
      BY <1>1, <2>2, <3>2, <3>4
    <3>5. QED
      BY <3>3, <3>4
  <2>9. \A d \in Cluster, s \in Slots : ring'[d][s].data = ring[d][s].data /\ ring'[d][s].full = ring[d][s].full
    BY <1>2
  <2>10. QED
    BY <1>5, <1>7, <2>7, <2>8, <2>9, IssuesKeep
<1>8. QED
  BY <1>6, <1>7

\* The slot of a TMA is cleared.
Clears(c, w, i) == ring' = Cleared(c, w, i)
SlotCleared(c, i) ==
  \A d \in Cluster, s \in Slots :
    /\ ring'[d][s].data = ring[d][s].data /\ ring'[d][s].full = ring[d][s].full
    /\ ring'[d][s].left = IF d = c /\ s = SlotOf(i) THEN {} ELSE ring[d][s].left

LEMMA ClearRing ==
  ASSUME TypeInv, shape.loads = "tma", NEW c \in Cluster, NEW i \in Nat, i < shape.rounds, Clears(c, Warp0, i)
  PROVE  SlotCleared(c, i)
<1>1. SlotOf(i) \in Slots
  BY SlotFacts
<1>2. ring \in [Cluster -> [Slots -> SlotRecord]]
  BY DEF TypeInv
<1> DEFINE t == SlotOf(i)
<1>0. ring' = [ring EXCEPT ![c][t].left = {}]
  BY DEF Clears, Cleared
<1>3. \A d \in Cluster, s \in Slots : d # c \/ s # t => ring'[d][s] = ring[d][s]
  BY <1>0, <1>1, <1>2
<1>4. ring'[c][t] = [ring[c][t] EXCEPT !.left = {}]
  BY <1>0, <1>1, <1>2
<1>5. ring[c][t] \in SlotRecord
  BY <1>1, <1>2
<1>6. /\ ring'[c][t].data = ring[c][t].data /\ ring'[c][t].full = ring[c][t].full
      /\ ring'[c][t].left = {}
  BY <1>4, <1>5 DEF SlotRecord
<1>7. SUFFICES ASSUME NEW d \in Cluster, NEW s \in Slots
               PROVE  /\ ring'[d][s].data = ring[d][s].data /\ ring'[d][s].full = ring[d][s].full
                      /\ ring'[d][s].left = IF d = c /\ s = t THEN {} ELSE ring[d][s].left
  BY DEF SlotCleared
<1> HIDE DEF t
<1>8. CASE d = c /\ s = t
  BY <1>6, <1>8
<1>9. CASE d # c \/ s # t
  <2>1. ring'[d][s] = ring[d][s]
    BY <1>3, <1>9
  <2>2. QED
    BY <1>9, <2>1
<1>10. QED
  BY <1>8, <1>9

\* In the loop.
LEMMA PrefetchLoads ==
  ASSUME ExchangeInv, LoadInv, TypeInv', shape' = shape,
         NEW c \in Cluster, NEW w \in Warps, PrefetchAhead(c, w)
  PROVE  LoadInv'
<1> DEFINE x == <<c, w>>
           i == At(c, w)
           next == i + Ahead
           lo == IF next < shape.rounds THEN next ELSE shape.rounds
           hi == IF i + LoadStages < shape.rounds THEN i + LoadStages ELSE shape.rounds
<1>1. /\ TypeInv /\ (\A v \in Peers : WarpInv(v)) /\ Cluster' = Cluster
      /\ shape.rounds \in Nat /\ LoadStages \in Nat \ {0} /\ Ahead \in Nat /\ Ahead + 1 = LoadStages
      /\ Warp0 \in Warps /\ shape.loads \in {"tma", "async", "none"}
      /\ x \in Peers /\ Me(x) = warp[c][w]
      /\ \A d \in Cluster, u \in Warps : Iss(d, u) \in Nat /\ At(d, u) \in Nat
  BY SameShape, LoadCounts DEF ExchangeInv
<1>2. /\ warp[c][w].pc = "ahead" /\ Goto(c, w, "load") /\ (w = Warp0 => MayIssue(c, next))
      /\ landing' = landing \cup Issued(c, w, next) /\ Clears(c, w, next) /\ "load" \in Place
  BY DEF PrefetchAhead, At, Clears, Place
<1>3. i \in Nat /\ i < shape.rounds /\ shape.loads \in {"tma", "async"}
  BY <1>1, <1>2 DEF WarpInv, Loop, At
<1>4. /\ next \in Nat /\ i + LoadStages = next + 1
      /\ lo \in Nat /\ hi \in Nat /\ lo <= hi /\ hi <= i + LoadStages
      /\ next < shape.rounds => lo = next /\ hi = next + 1
      /\ ~(next < shape.rounds) => lo = shape.rounds /\ hi = shape.rounds
  BY <1>1, <1>3
<1>5. ScratchInv'
  <2>1. \A d \in Cluster, u \in Warps : warp'[d][u].pc = IF d = c /\ u = w THEN "load" ELSE warp[d][u].pc
    BY <1>1, <1>2, GotoPlace
  <2>2. \A d \in Cluster, u \in Warps : warp'[d][u].pc = "scratch" => warp[d][u].pc = "scratch"
    BY <2>1
  <2>3. \A d \in Cluster, u \in Warps : Gone(d, u) => Gone(d, u)'
    BY <1>2, <2>1 DEF Gone
  <2>4. QED
    BY <2>2, <2>3, ScratchKept DEF LoadInv
<1>6. LandingInv /\ AheadInv /\ OperandInv /\ DataInv /\ (shape.loads = "tma" => SlotInv /\ LeftInv)
  BY <1>3 DEF LoadInv
<1>7. /\ \A u \in Served(w) : Iss(c, u) = IssuedBy(x) /\ Iss(c, u)' = IssuedBy(x)'
      /\ \A d \in Cluster, u \in Warps :
            /\ d # c \/ u \notin Served(w) => Iss(d, u)' = Iss(d, u)
            /\ At(d, u)' = At(d, u) /\ (Has(d, u)' <=> Has(d, u))
            /\ Gone(d, u) => Gone(d, u)'
  <2>1. "load" \notin {"put", "wait", "read"} /\ ~Has(c, w) /\ ~Gone(c, w) /\ shape.loads # "none"
    BY <1>2, <1>3 DEF Has, Gone
  <2>2. QED
    BY <1>1, <1>2, <2>1, IssuedAt
<1>8. IssuedBy(x) = lo
  <2>1. Me(x).pc = "ahead" /\ Me(x).i = i
    BY <1>1, <1>2 DEF At
  <2>2. QED
    BY <1>1, <2>1 DEF IssuedBy, Early
<1>9. IssuedBy(x)' = hi
  <2>1. Me(x)'.i = i /\ Me(x)'.pc = "load"
    <3>1. Me(x)'.i = Me(x).i /\ Me(x)'.pc = "load"
      BY <1>1, <1>2, GotoPlace
    <3>2. QED
      BY <1>1, <3>1 DEF At
  <2>2. QED
    BY <1>1, <2>1 DEF IssuedBy, Early
<1> HIDE DEF i, lo, hi
<1>10. landing' = landing \cup NewParts(c, w, lo, hi)
  <2>1. Issued(c, w, next) = IF next < shape.rounds THEN {Part(c, u, next) : u \in Served(w)} ELSE {}
    BY <1>1, <1>3, <1>4, IssuedParts
  <2>2. CASE next < shape.rounds
    <3>1. lo .. hi - 1 = {next}
      BY <1>4, <2>2
    <3>2. NewParts(c, w, lo, hi) = {Part(c, u, next) : u \in Served(w)}
      BY <3>1 DEF NewParts
    <3>3. QED
      BY <1>2, <2>1, <2>2, <3>2
  <2>3. CASE ~(next < shape.rounds)
    <3>1. lo .. hi - 1 = {}
      BY <1>1, <1>4, <2>3
    <3>2. NewParts(c, w, lo, hi) = {}
      BY <3>1 DEF NewParts
    <3>3. QED
      BY <1>2, <2>1, <2>3, <3>2
  <2>4. QED
    BY <2>2, <2>3
<1>11. ASSUME NEW u \in Served(w) PROVE hi <= At(c, u) + LoadStages
  <2>1. u \in Warps /\ At(c, u) \in Nat /\ Iss(c, u) = lo /\ Iss(c, u) \in Nat
    BY <1>1, <1>7, <1>8 DEF Served
  <2>2. CASE shape.loads = "async"
    <3>1. u = w
      BY <2>2 DEF Served, Issuer
    <3>2. QED
      BY <1>4, <3>1 DEF i
  <2>3. CASE shape.loads = "tma" /\ ~(next < shape.rounds)
    <3>1. Iss(c, u) <= At(c, u) + LoadStages
      BY <1>6, <2>1, <2>3 DEF AheadInv
    <3>2. QED
      BY <1>4, <2>1, <2>3, <3>1
  <2>4. CASE shape.loads = "tma" /\ next < shape.rounds /\ next < LoadStages
    BY <1>1, <1>3, <1>4, <2>1, <2>4
  <2>5. CASE shape.loads = "tma" /\ next < shape.rounds /\ ~(next < LoadStages)
    <3> DEFINE k == next - LoadStages
    <3>1. k \in Nat /\ k + LoadStages = next /\ k + 1 = i
      BY <1>1, <1>3, <1>4, <2>5
    <3>2. w = Warp0
      BY <2>5 DEF Served, Issuer
    <3>3. ring[c][SlotOf(next)].left = Warps
      BY <1>1, <1>2, <1>4, <2>5, <3>2 DEF MayIssue
    <3> HIDE DEF k
    <3>4. SlotOf(k) = SlotOf(next)
      BY <1>1, <3>1, NextLap DEF SlotOf
    <3>5. Iss(c, Warp0) = next
      BY <1>1, <1>4, <2>1, <2>5 DEF Iss, Issuer
    <3>6. k < Iss(c, Warp0) /\ Iss(c, Warp0) <= k + LoadStages
      BY <1>1, <1>4, <3>1, <3>5
    <3>7. ring[c][SlotOf(k)].left = {y \in Warps : k < At(c, y)}
      BY <1>6, <2>5, <3>1, <3>6 DEF LeftInv
    <3>8. k < At(c, u)
      BY <2>1, <3>3, <3>4, <3>7
    <3>9. QED
      BY <1>1, <1>3, <1>4, <2>1, <3>1, <3>8
  <2>6. QED
    BY <1>3, <2>2, <2>3, <2>4, <2>5
<1>12. Issues(c, w, lo, hi)
  BY <1>4, <1>7, <1>8, <1>9, <1>10, <1>11 DEF Issues
<1>13. ASSUME shape.loads = "tma", w = Warp0, next < shape.rounds PROVE SlotCleared(c, next)
  <2>1. PICK k \in Nat : k = next
    BY <1>4
  <2>2. Clears(c, Warp0, k) /\ k < shape.rounds
    BY <1>2, <1>13, <2>1
  <2>3. SlotCleared(c, k)
    BY <1>1, <1>13, <2>2, ClearRing
  <2>4. QED
    BY <2>1, <2>3
<1>14. ASSUME ~(shape.loads = "tma" /\ w = Warp0 /\ next < shape.rounds) PROVE ring' = ring
  BY <1>2, <1>14 DEF Clears, Cleared
<1>15. \A d \in Cluster, s \in Slots : ring'[d][s].data = ring[d][s].data /\ ring'[d][s].full = ring[d][s].full
  BY <1>13, <1>14 DEF SlotCleared
<1> HIDE DEF next
<1>16. ASSUME shape.loads = "tma" PROVE LeftInv'
  <2>0. SUFFICES ASSUME NEW d \in Cluster, NEW j \in Nat
        PROVE  /\ j < Iss(d, Warp0)' /\ Iss(d, Warp0)' <= j + LoadStages
                    => ring'[d][SlotOf(j)].left = {u \in Warps : j < At(d, u)'}
               /\ Iss(d, Warp0)' <= j /\ j < LoadStages => ring'[d][SlotOf(j)].left = {}
    BY <1>1 DEF LeftInv, SlotOf
  <2>1. SUFFICES
               /\ j < Iss(d, Warp0)' /\ Iss(d, Warp0)' <= j + LoadStages
                    => ring'[d][SlotOf(j)].left = {u \in Warps : j < At(d, u)}
               /\ Iss(d, Warp0)' <= j /\ j < LoadStages => ring'[d][SlotOf(j)].left = {}
    <3>1. {u \in Warps : j < At(d, u)'} = {u \in Warps : j < At(d, u)}
      BY <1>7
    <3>2. QED
      BY <3>1
  <2>2. /\ j < Iss(d, Warp0) /\ Iss(d, Warp0) <= j + LoadStages
             => ring[d][SlotOf(j)].left = {u \in Warps : j < At(d, u)}
        /\ Iss(d, Warp0) <= j /\ j < LoadStages => ring[d][SlotOf(j)].left = {}
    BY <1>6, <1>16 DEF LeftInv
  <2>3. SlotOf(j) \in Slots
    BY SlotFacts
  <2>4. CASE d = c /\ w = Warp0 /\ next < shape.rounds
    <3>1. Warp0 \in Served(w)
      BY <1>1, <1>16, <2>4 DEF Served, Issuer
    <3>2. Iss(d, Warp0) = next /\ Iss(d, Warp0)' = next + 1
      BY <1>4, <1>7, <1>8, <1>9, <2>4, <3>1
    <3>3. ring'[d][SlotOf(j)].left = IF SlotOf(j) = SlotOf(next) THEN {} ELSE ring[d][SlotOf(j)].left
      BY <1>13, <1>16, <2>3, <2>4 DEF SlotCleared
    <3>4. CASE j < next
      <4>1. j < next + 1 /\ next + 1 <= j + LoadStages => SlotOf(j) # SlotOf(next)
        BY <1>1, <1>4, <3>4, SlotFacts
      <4>2. QED
        BY <1>1, <1>4, <2>2, <3>2, <3>3, <3>4, <4>1
    <3>5. CASE j = next
      <4>1. {u \in Warps : j < At(d, u)} = {}
        <5>1. \A u \in Warps : At(d, u) <= Iss(d, u) /\ Iss(d, u) = Iss(d, Warp0) /\ At(d, u) \in Nat
          BY <1>1, <1>6, <1>16, AtMostIssued DEF Iss, Issuer
        <5>2. QED
          BY <1>4, <3>2, <3>5, <5>1
      <4>2. QED
        BY <1>4, <3>2, <3>3, <3>5, <4>1
    <3>6. CASE next < j
      <4>1. j < LoadStages => ring[d][SlotOf(j)].left = {}
        BY <1>4, <2>2, <3>2, <3>6
      <4>2. QED
        BY <1>4, <3>2, <3>3, <3>6, <4>1
    <3>7. QED
      BY <1>4, <3>4, <3>5, <3>6
  <2>5. CASE d # c \/ w # Warp0
    <3>1. Iss(d, Warp0)' = Iss(d, Warp0)
      <4>1. d # c \/ Warp0 \notin Served(w)
        BY <1>16, <2>5 DEF Served, Issuer
      <4>2. QED
        BY <1>1, <1>7, <4>1
    <3>2. ring'[d][SlotOf(j)].left = ring[d][SlotOf(j)].left
      <4>1. CASE w # Warp0
        BY <1>14, <4>1
      <4>2. CASE d # c /\ next < shape.rounds /\ w = Warp0
        BY <1>13, <1>16, <2>3, <4>2 DEF SlotCleared
      <4>3. CASE ~(next < shape.rounds)
        BY <1>14, <4>3
      <4>4. QED
        BY <2>5, <4>1, <4>2, <4>3
    <3>3. QED
      BY <2>2, <3>1, <3>2
  <2>6. CASE ~(next < shape.rounds) /\ d = c /\ w = Warp0
    <3>1. Iss(d, Warp0)' = Iss(d, Warp0)
      <4>1. Warp0 \in Served(w)
        BY <1>1, <1>16, <2>6 DEF Served, Issuer
      <4>2. QED
        BY <1>4, <1>7, <1>8, <1>9, <2>6, <4>1
    <3>2. ring' = ring
      BY <1>14, <2>6
    <3>3. QED
      BY <2>2, <3>1, <3>2
  <2>7. QED
    BY <2>4, <2>5, <2>6
<1>17. shape.loads # "none"
  BY <1>3
<1>18. QED
  BY <1>1, <1>5, <1>12, <1>15, <1>16, <1>17, IssuesKeep

-----------------------------------------------------------------------------
(* A load lands. *)

\* For these warps.
Lands(l) == IF shape.loads = "tma" THEN Warps ELSE {l[2]}

\* What changes when the load of tile j lands at CTA c for the warps of U.
LandsFor(c, U, j) ==
  /\ U # {} /\ U \subseteq Warps /\ (shape.loads = "tma" => U = Warps)
  /\ \A u \in U : Part(c, u, j) \in landing
  /\ \A m : m \in landing' <=> m \in landing /\ ~(m[1] = c /\ m[4] = j /\ m[2] \in U)
  /\ \A d \in Cluster, s \in Slots :
       /\ ring'[d][s].left = ring[d][s].left
       /\ d # c \/ s # SlotOf(j) => ring'[d][s] = ring[d][s]
  /\ ring'[c][SlotOf(j)].full = 1 - ring[c][SlotOf(j)].full
  /\ \A u \in Warps : ring'[c][SlotOf(j)].data[u] = IF u \in U THEN j ELSE ring[c][SlotOf(j)].data[u]

\* A landing is of this kind.
LEMMA LandsForSome ==
  ASSUME TypeInv, LandingInv, shape.loads # "none", NEW l \in landing, LandsAt(l)
  PROVE  \E c \in Cluster, j \in Nat, U \in SUBSET Warps : LandsFor(c, U, j)
<1> DEFINE c == l[1]
           j == l[4]
           U == Lands(l)
<1>1. /\ c \in Cluster /\ l[2] \in Warps /\ j \in Nat /\ l[3] \in Slots
      /\ landing \subseteq Cluster \X Warps \X Slots \X Nat
      /\ ring \in [Cluster -> [Slots -> SlotRecord]]
  BY DEF TypeInv
<1>2. /\ l[3] = SlotOf(j)
      /\ shape.loads = "tma" => \A u \in Warps : Part(c, u, j) \in landing
  BY DEF LandingInv
<1>3. l = Part(c, l[2], j)
  <2>1. l = <<l[1], l[2], l[3], l[4]>>
    BY <1>1
  <2>2. QED
    BY <1>2, <2>1 DEF Part
<1>4. U # {} /\ U \subseteq Warps /\ (shape.loads = "tma" => U = Warps)
  BY <1>1 DEF Lands
<1>5. \A u \in U : Part(c, u, j) \in landing
  BY <1>1, <1>2, <1>3 DEF Lands
<1>6. \A m \in landing : m \in Batch(l) <=> m[1] = c /\ m[4] = j /\ m[2] \in U
  <2>1. SUFFICES ASSUME NEW m \in landing PROVE m \in Batch(l) <=> m[1] = c /\ m[4] = j /\ m[2] \in U
    OBVIOUS
  <2>2. m[2] \in Warps /\ m = <<m[1], m[2], m[3], m[4]>> /\ m[3] = SlotOf(m[4])
    BY <1>1 DEF LandingInv
  <2>3. CASE shape.loads = "tma"
    BY <2>2, <2>3 DEF Batch, Lands
  <2>4. CASE shape.loads # "tma"
    <3>1. m = l <=> m[1] = c /\ m[4] = j /\ m[2] = l[2]
      <4>1. m = Part(m[1], m[2], m[4])
        BY <2>2 DEF Part
      <4>2. QED
        BY <1>3, <4>1
    <3>2. QED
      BY <2>4, <3>1 DEF Batch, Lands
  <2>5. QED
    BY <2>3, <2>4
<1>7. \A m : m \in landing' <=> m \in landing /\ ~(m[1] = c /\ m[4] = j /\ m[2] \in U)
  <2>1. landing' = landing \ Batch(l)
    BY DEF LandsAt
  <2>2. QED
    BY <1>6, <2>1
<1>8. \A u \in Warps : (\E m \in Batch(l) : m[2] = u) <=> u \in U
  <2>1. Batch(l) \subseteq landing
    BY DEF Batch
  <2>2. ASSUME NEW u \in Warps, u \in U PROVE \E m \in Batch(l) : m[2] = u
    <3>1. /\ Part(c, u, j) \in landing /\ Part(c, u, j)[1] = c /\ Part(c, u, j)[4] = j
          /\ Part(c, u, j)[2] = u
      BY <1>5, <2>2 DEF Part
    <3>2. Part(c, u, j) \in Batch(l)
      BY <1>6, <2>2, <3>1
    <3>3. QED
      BY <3>1, <3>2
  <2>3. QED
    BY <1>6, <2>1, <2>2
<1>9. /\ \A d \in Cluster, s \in Slots : d # c \/ s # SlotOf(j) => ring'[d][s] = ring[d][s]
      /\ ring'[c][SlotOf(j)] = LandedSlot(l)
  <2>1. ring' = [ring EXCEPT ![c][SlotOf(j)] = LandedSlot(l)]
    BY <1>2 DEF LandsAt
  <2>2. QED
    BY <1>1, <1>2, <2>1
<1>10. /\ LandedSlot(l).left = ring[c][SlotOf(j)].left
       /\ LandedSlot(l).full = 1 - ring[c][SlotOf(j)].full
       /\ \A u \in Warps : LandedSlot(l).data[u] = IF u \in U THEN j ELSE ring[c][SlotOf(j)].data[u]
  <2> DEFINE r == ring[c][SlotOf(j)]
             e == [u \in Warps |-> IF \E m \in Batch(l) : m[2] = u THEN j ELSE r.data[u]]
  <2>1. r \in SlotRecord
    BY <1>1, <1>2
  <2>2. LandedSlot(l) = [r EXCEPT !.data = e, !.full = 1 - r.full]
    BY <1>2 DEF LandedSlot
  <2>3. \A u \in Warps : e[u] = IF u \in U THEN j ELSE r.data[u]
    BY <1>8
  <2> HIDE DEF r, e
  <2>4. LandedSlot(l).left = r.left /\ LandedSlot(l).full = 1 - r.full /\ LandedSlot(l).data = e
    BY <2>1, <2>2 DEF SlotRecord
  <2>5. QED
    BY <2>3, <2>4 DEF r
<1>11. \A d \in Cluster, s \in Slots : ring'[d][s].left = ring[d][s].left
  <2>1. SUFFICES ASSUME NEW d \in Cluster, NEW s \in Slots PROVE ring'[d][s].left = ring[d][s].left
    OBVIOUS
  <2>2. CASE d = c /\ s = SlotOf(j)
    BY <1>9, <1>10, <2>2
  <2>3. CASE d # c \/ s # SlotOf(j)
    <3>1. ring'[d][s] = ring[d][s]
      BY <1>9, <2>3
    <3>2. QED
      BY <3>1
  <2>4. QED
    BY <2>2, <2>3
<1>12. ring'[c][SlotOf(j)].full = 1 - ring[c][SlotOf(j)].full
  BY <1>9, <1>10
<1>13. \A u \in Warps : ring'[c][SlotOf(j)].data[u] = IF u \in U THEN j ELSE ring[c][SlotOf(j)].data[u]
  BY <1>9, <1>10
<1>14. LandsFor(c, U, j)
  <2>1. \A d \in Cluster, s \in Slots : d # c \/ s # SlotOf(j) => ring'[d][s] = ring[d][s]
    BY <1>9
  <2> HIDE DEF c, U, j
  <2>2. QED
    BY <1>4, <1>5, <1>7, <1>11, <1>12, <1>13, <2>1 DEF LandsFor
<1>15. QED
  BY <1>1, <1>4, <1>14

\* It keeps what holds of the loads.
LEMMA LoadLands ==
  ASSUME ExchangeInv, LoadInv, shape' = shape, warp' = warp, shape.loads # "none",
         NEW c \in Cluster, NEW j \in Nat, NEW U \in SUBSET Warps, LandsFor(c, U, j)
  PROVE  LoadInv'
<1>1. /\ TypeInv /\ (\A v \in Peers : WarpInv(v)) /\ Cluster' = Cluster
      /\ Warp0 \in Warps /\ LoadStages \in Nat \ {0}
      /\ landing \subseteq Cluster \X Warps \X Slots \X Nat
      /\ \A d \in Cluster, u \in Warps : Iss(d, u) \in Nat /\ At(d, u) \in Nat
  BY SameShape, LoadCounts DEF ExchangeInv, TypeInv
<1>2. /\ U # {} /\ U \subseteq Warps /\ (shape.loads = "tma" => U = Warps)
      /\ \A u \in U : Part(c, u, j) \in landing
      /\ \A m : m \in landing' <=> m \in landing /\ ~(m[1] = c /\ m[4] = j /\ m[2] \in U)
      /\ \A d \in Cluster, s \in Slots :
           /\ ring'[d][s].left = ring[d][s].left
           /\ d # c \/ s # SlotOf(j) => ring'[d][s] = ring[d][s]
      /\ ring'[c][SlotOf(j)].full = 1 - ring[c][SlotOf(j)].full
      /\ \A u \in Warps : ring'[c][SlotOf(j)].data[u] = IF u \in U THEN j ELSE ring[c][SlotOf(j)].data[u]
  BY DEF LandsFor
<1>3. LandingInv /\ AheadInv /\ OperandInv /\ DataInv /\ (shape.loads = "tma" => SlotInv /\ LeftInv)
  BY DEF LoadInv
<1>4. \A d \in Cluster, u \in Warps : /\ Iss(d, u)' = Iss(d, u) /\ At(d, u)' = At(d, u)
                                      /\ (Has(d, u)' <=> Has(d, u)) /\ (Gone(d, u)' <=> Gone(d, u))
  BY DEF Iss, Issuer, IssuedBy, Me, At, Has, Gone
<1>5. SlotOf(j) \in Slots
  BY SlotFacts
\* The tile that lands is the one the slot is for.
<1>6. ASSUME NEW u \in U
      PROVE  /\ j < Iss(c, u) /\ Iss(c, u) <= j + LoadStages /\ At(c, u) <= j /\ ~Loaded(c, u, j)
  <2>1. u \in Warps /\ Part(c, u, j) \in landing
    BY <1>2
  <2>2. ~Loaded(c, u, j)
    BY <2>1 DEF Loaded
  <2>3. j < Iss(c, u)
    <3>1. Part(c, u, j)[4] < Iss(Part(c, u, j)[1], Part(c, u, j)[2])
      BY <1>3, <2>1 DEF LandingInv
    <3>2. QED
      BY <3>1, SamePart
  <2>4. ~(j < At(c, u))
    BY <1>3, <2>1, <2>2 DEF OperandInv
  <2>5. Iss(c, u) <= At(c, u) + LoadStages
    BY <1>3, <2>1 DEF AheadInv
  <2>6. QED
    BY <1>1, <2>1, <2>2, <2>3, <2>4, <2>5
<1>7. ASSUME NEW d \in Cluster, NEW u \in Warps, NEW k \in Nat
      PROVE  Loaded(d, u, k)' <=> Loaded(d, u, k) \/ (d = c /\ u \in U /\ k = j)
  <2>1. Part(d, u, k)' = Part(d, u, k)
    BY DEF Part, SlotOf
  <2>2. Part(d, u, k) \in landing' <=> Part(d, u, k) \in landing /\ ~(d = c /\ k = j /\ u \in U)
    BY <1>2, SamePart
  <2>3. d = c /\ u \in U /\ k = j => k < Iss(d, u)
    BY <1>6
  <2>4. QED
    BY <1>4, <2>1, <2>2, <2>3 DEF Loaded
<1>8. LandingInv'
  <2>1. SUFFICES ASSUME NEW m \in landing'
                 PROVE  /\ m[3] = SlotOf(m[4]) /\ m[4] < Iss(m[1], m[2])'
                        /\ shape.loads = "tma" => \A u \in Warps : Part(m[1], u, m[4]) \in landing'
    BY DEF LandingInv, Part, SlotOf
  <2>2. m \in landing /\ ~(m[1] = c /\ m[4] = j /\ m[2] \in U)
    BY <1>2
  <2>3. m[1] \in Cluster /\ m[2] \in Warps
    BY <1>1, <2>2
  <2>4. /\ m[3] = SlotOf(m[4]) /\ m[4] < Iss(m[1], m[2])
        /\ shape.loads = "tma" => \A u \in Warps : Part(m[1], u, m[4]) \in landing
    BY <1>3, <2>2 DEF LandingInv
  <2>5. ASSUME shape.loads = "tma", NEW u \in Warps PROVE Part(m[1], u, m[4]) \in landing'
    <3>1. ~(m[1] = c /\ m[4] = j)
      BY <1>2, <2>2, <2>3, <2>5
    <3>2. QED
      BY <1>2, <2>4, <2>5, <3>1, SamePart
  <2>6. QED
    BY <1>4, <2>3, <2>4, <2>5
<1>9. AheadInv'
  BY <1>1, <1>3, <1>4 DEF AheadInv
<1>10. OperandInv'
  BY <1>1, <1>3, <1>4, <1>7 DEF OperandInv
<1>11. ScratchInv'
  BY <1>1, <1>4 DEF LoadInv, ScratchInv
<1>12. DataInv'
  <2>1. SUFFICES ASSUME NEW d \in Cluster, NEW u \in Warps, NEW k \in Nat,
                        ~Gone(d, u)', Loaded(d, u, k)', Iss(d, u)' <= k + LoadStages
                 PROVE  ring'[d][SlotOf(k)].data[u] = k
    BY <1>1 DEF DataInv, SlotOf
  <2>2. SlotOf(k) \in Slots /\ ~Gone(d, u) /\ Iss(d, u) <= k + LoadStages
    BY <1>4, <2>1, SlotFacts
  <2>3. CASE d = c /\ u \in U /\ SlotOf(k) = SlotOf(j)
    <3>1. j < Iss(c, u) /\ Iss(c, u) <= j + LoadStages
      BY <1>6, <2>3
    <3>2. k < Iss(c, u)
      BY <1>4, <2>1, <2>3 DEF Loaded
    <3>3. Iss(c, u) \in Nat /\ Iss(c, u) <= k + LoadStages
      BY <1>1, <2>2, <2>3
    <3>4. k = j
      BY <2>3, <3>1, <3>2, <3>3, OneLap
    <3>5. QED
      BY <1>2, <2>3, <3>4
  <2>4. CASE ~(d = c /\ u \in U /\ SlotOf(k) = SlotOf(j))
    <3>1. Loaded(d, u, k)
      BY <1>7, <2>1, <2>4
    <3>2. ring[d][SlotOf(k)].data[u] = k
      BY <1>3, <2>2, <3>1 DEF DataInv
    <3>3. ring'[d][SlotOf(k)].data[u] = ring[d][SlotOf(k)].data[u]
      <4>1. CASE d # c \/ SlotOf(k) # SlotOf(j)
        <5>1. ring'[d][SlotOf(k)] = ring[d][SlotOf(k)]
          BY <1>2, <2>2, <4>1
        <5>2. QED
          BY <5>1
      <4>2. CASE d = c /\ SlotOf(k) = SlotOf(j) /\ u \notin U
        BY <1>2, <4>2
      <4>3. QED
        BY <2>4, <4>1, <4>2
    <3>4. QED
      BY <3>2, <3>3
  <2>5. QED
    BY <2>3, <2>4
<1>13. ASSUME shape.loads = "tma" PROVE SlotInv'
  <2>1. U = Warps /\ Warp0 \in U
    BY <1>1, <1>2, <1>13
  <2>2. ASSUME NEW d \in Cluster, NEW s \in Slots
        PROVE  \E k \in Nat : Open(LoadsOf(d)', {Warp0}, LoadStages, s, k) /\ ring'[d][s].full = LapOf(k)
    <3>1. PICK r \in Nat : Open(LoadsOf(d), {Warp0}, LoadStages, s, r) /\ ring[d][s].full = LapOf(r)
      BY <1>3, <1>13 DEF SlotInv
    <3>2. CASE d = c /\ s = SlotOf(j)
      <4>1. Comes(LoadsOf(c), LoadsOf(c)', {Warp0}, LoadStages, s, j, Warp0)
        <5>1. j % LoadStages = s
          BY <3>2 DEF SlotOf
        <5>2. LoadsOf(c)[j] = {} /\ LoadsOf(c)'[j] = {Warp0}
          BY <1>6, <1>7, <2>1 DEF LoadsOf
        <5>3. \A q \in Nat : q # j => LoadsOf(c)'[q] = LoadsOf(c)[q]
          BY <1>1, <1>7 DEF LoadsOf
        <5>4. ASSUME j >= LoadStages PROVE LoadsOf(c)[j - LoadStages] = {Warp0}
          <6>1. j - LoadStages \in Nat
            BY <1>1, <5>4
          <6>2. j < Iss(c, Warp0) /\ Iss(c, Warp0) <= At(c, Warp0) + LoadStages
            BY <1>1, <1>3, <1>6, <2>1 DEF AheadInv
          <6>3. j - LoadStages < At(c, Warp0)
            BY <1>1, <6>2
          <6>4. Loaded(c, Warp0, j - LoadStages)
            BY <1>1, <1>3, <6>1, <6>3 DEF OperandInv
          <6>5. QED
            BY <6>1, <6>4 DEF LoadsOf
        <5>5. QED
          BY <5>1, <5>2, <5>3, <5>4 DEF Comes
      <4>2. r = j /\ StaysOrOpens(LoadsOf(c)', {Warp0}, LoadStages, s, j)
        BY <1>1, <3>1, <3>2, <4>1, Turn
      <4>3. LoadsOf(c)'[j] = {Warp0}
        BY <1>7, <2>1 DEF LoadsOf
      <4>4. Open(LoadsOf(c)', {Warp0}, LoadStages, s, j + LoadStages)
        BY <4>2, <4>3 DEF StaysOrOpens
      <4>5. j + LoadStages \in Nat /\ LapOf(j + LoadStages) = 1 - LapOf(j)
        BY <1>1, SlotFacts
      <4>6. ring'[d][s].full = LapOf(j + LoadStages)
        BY <1>2, <3>1, <3>2, <4>2, <4>5
      <4>7. QED
        BY <3>2, <4>4, <4>5, <4>6
    <3>3. CASE d # c \/ s # SlotOf(j)
      <4>1. \A k \in Nat : SlotOf(k) = s => (Loaded(d, Warp0, k)' <=> Loaded(d, Warp0, k))
        BY <1>1, <1>7, <3>3
      <4>2. Open(LoadsOf(d)', {Warp0}, LoadStages, s, r)
        BY <1>1, <3>1, <4>1, SlotKept
      <4>3. ring'[d][s] = ring[d][s]
        BY <1>2, <3>3
      <4>4. QED
        BY <3>1, <4>2, <4>3
    <3>4. QED
      BY <3>2, <3>3
  <2>3. QED
    BY <1>1, <2>2 DEF SlotInv, Slots, LapOf, Open
<1>14. ASSUME shape.loads = "tma" PROVE LeftInv'
  <2>1. LeftInv
    BY <1>3, <1>14
  <2>2. SUFFICES ASSUME NEW d \in Cluster, NEW k \in Nat
        PROVE  /\ k < Iss(d, Warp0) /\ Iss(d, Warp0) <= k + LoadStages
                    => ring'[d][SlotOf(k)].left = {u \in Warps : k < At(d, u)}
               /\ Iss(d, Warp0) <= k /\ k < LoadStages => ring'[d][SlotOf(k)].left = {}
    BY <1>1, <1>4 DEF LeftInv, SlotOf
  <2>3. SlotOf(k) \in Slots
    BY SlotFacts
  <2>4. ring'[d][SlotOf(k)].left = ring[d][SlotOf(k)].left
    BY <1>2, <2>3
  <2>5. QED
    BY <2>1, <2>4 DEF LeftInv
<1>15. QED
  BY <1>8, <1>9, <1>10, <1>11, <1>12, <1>13, <1>14 DEF LoadInv

\* A step in which a load lands.
LEMMA LandLoadLoads ==
  ASSUME ExchangeInv, LoadInv, shape' = shape, LandLoad
  PROVE  LoadInv'
<1>1. TypeInv
  BY DEF ExchangeInv
<1>2. PICK l \in landing : LandsAt(l)
  BY <1>1, LandLoadEffect
<1>3. shape.loads # "none"
  BY DEF LoadInv
<1>4. LandingInv /\ warp' = warp
  BY <1>2, <1>3 DEF LoadInv, LandsAt
<1>5. PICK c \in Cluster, j \in Nat, U \in SUBSET Warps : LandsFor(c, U, j)
  BY <1>1, <1>2, <1>3, <1>4, LandsForSome
<1>6. QED
  BY <1>3, <1>4, <1>5, LoadLands

-----------------------------------------------------------------------------
(* The invariant of the loads holds. *)

LEMMA LoadInit == Init => LoadInv
<1> SUFFICES ASSUME Init PROVE LoadInv
  OBVIOUS
<1>1. ExchangeInv
  BY ExchangeInit
<1>2. TypeInv /\ (\A v \in Peers : WarpInv(v)) /\ shape \in Shapes
  BY <1>1 DEF ExchangeInv, TypeInv
<1>3. /\ landing = {}
      /\ warp = [c \in Cluster |-> [w \in Warps |->
           [pc |-> "join", i |-> 0, stage |-> 0, consumer |-> 0, producer |-> 1]]]
      /\ ring = [c \in Cluster |-> [s \in Slots |-> [data |-> [w \in Warps |-> None],
                                                    full |-> 0, left |-> {}]]]
  BY DEF Init
<1>4. /\ LoadStages \in Nat \ {0} /\ Warp0 \in Warps
      /\ \A c \in Cluster, w \in Warps : Issuer(w) \in Warps /\ Iss(c, w) \in Nat /\ At(c, w) \in Nat
  BY <1>2, LoadCounts
<1>5. \A c \in Cluster, w \in Warps : warp[c][w].pc = "join" /\ At(c, w) = 0 /\ ~Has(c, w) /\ ~Gone(c, w)
  BY <1>3 DEF At, Has, Gone
<1>6. \A c \in Cluster, w \in Warps : Iss(c, w) = 0
  BY <1>4, <1>5 DEF Iss, IssuedBy, Me, Early
<1>7. \A c \in Cluster, w \in Warps, j \in Nat : ~Loaded(c, w, j)
  BY <1>6 DEF Loaded
<1>8. LandingInv /\ OperandInv /\ DataInv /\ ScratchInv
  BY <1>3, <1>5, <1>7 DEF LandingInv, OperandInv, DataInv, ScratchInv
<1>9. AheadInv
  BY <1>4, <1>5, <1>6 DEF AheadInv
<1>10. LeftInv
  <2>1. SUFFICES ASSUME NEW c \in Cluster, NEW j \in Nat
                 PROVE  ~(j < Iss(c, Warp0)) /\ ring[c][SlotOf(j)].left = {}
    BY DEF LeftInv
  <2>2. SlotOf(j) \in Slots
    BY SlotFacts
  <2>3. QED
    BY <1>3, <1>4, <1>6, <2>2
<1>11. SlotInv
  <2>1. SUFFICES ASSUME NEW c \in Cluster, NEW s \in Slots
                 PROVE  \E j \in Nat : Open(LoadsOf(c), {Warp0}, LoadStages, s, j) /\ ring[c][s].full = LapOf(j)
    BY DEF SlotInv
  <2>2. s \in Nat /\ s < LoadStages
    BY <1>4 DEF Slots
  <2>3. SlotOf(s) = s
    BY <2>2, SlotFacts
  <2>4. ring[c][s].full = 0
    BY <1>3
  <2>5. LapOf(s) = 0
    <3>1. s \in 0 .. LoadStages - 1 /\ LoadStages * 0 + s = s
      BY <1>4, <2>2
    <3>2. (LoadStages * 0 + s) \div LoadStages = 0
      BY <1>4, <3>1, DivUnique
    <3>3. s \div LoadStages = 0
      BY <3>1, <3>2
    <3>4. 0 % 2 = 0
      OBVIOUS
    <3>5. QED
      BY <3>3, <3>4 DEF LapOf
  <2>6. \A q \in Nat : LoadsOf(c)[q] = {}
    BY <1>4, <1>7 DEF LoadsOf
  <2>7. \A q \in Nat : q % LoadStages = s => ~(q < s)
    <3>1. \A q \in Nat : SlotOf(q) <= q /\ SlotOf(q) \in Nat
      BY SlotFacts
    <3>2. QED
      BY <2>2, <3>1 DEF SlotOf
  <2>8. Open(LoadsOf(c), {Warp0}, LoadStages, s, s)
    BY <2>2, <2>3, <2>6, <2>7 DEF Open, SlotOf
  <2>9. QED
    BY <2>2, <2>4, <2>5, <2>8
<1>12. QED
  BY <1>3, <1>8, <1>9, <1>10, <1>11 DEF LoadInv

LEMMA LoadStep == ExchangeInv /\ LoadInv /\ ExchangeInv' /\ [Next]_vars => LoadInv'
<1> SUFFICES ASSUME ExchangeInv, LoadInv, ExchangeInv', [Next]_vars PROVE LoadInv'
  OBVIOUS
<1>1. shape' = shape /\ TypeInv'
  BY ShapeStep DEF ExchangeInv
<1>2. CASE UNCHANGED vars
  <2>1. warp' = warp /\ ring' = ring /\ landing' = landing
    BY <1>2 DEF vars
  <2>2. QED
    BY <1>1, <2>1, StillLoads
<1>3. CASE LandLoad
  BY <1>1, <1>3, LandLoadLoads
<1>4. CASE LandRemote
  <2>1. warp' = warp /\ ring' = ring /\ landing' = landing
    BY <1>4 DEF LandRemote
  <2>2. QED
    BY <1>1, <2>1, StillLoads
<1>5. ASSUME NEW c \in Cluster, CtaBarrier(c) PROVE LoadInv'
  BY <1>1, <1>5, CtaBarrierLoads
<1>6. ASSUME NEW c \in Cluster, NEW w \in Warps, WarpStep(c, w) PROVE LoadInv'
  <2>1. CASE Begin(c, w)
    BY <1>1, <2>1, BeginLoads
  <2>2. CASE PrefetchAhead(c, w)
    BY <1>1, <2>2, PrefetchLoads
  <2>3. CASE Release(c, w)
    BY <1>1, <2>3, ReleaseLoads
  <2>4. CASE WriteScratch(c, w)
    BY <1>1, <2>4, WriteScratchLoads
  <2>5. CASE \/ Join(c, w) \/ WaitLoad(c, w) \/ Put(c, w) \/ WaitFull(c, w) \/ Exit(c, w)
    BY <1>1, <2>5, QuietLoads
  <2>6. QED
    BY <1>6, <2>1, <2>2, <2>3, <2>4, <2>5 DEF WarpStep
<1>7. QED
  BY <1>2, <1>3, <1>4, <1>5, <1>6 DEF Next

(***************************************************************************)
(* The ring of operands is filled and left as the pipeline says: a part is *)
(* loaded when a warp uses it, no load comes more than a lap ahead of the  *)
(* warps it is for, and what has landed stays for its lap.                 *)
(***************************************************************************)
THEOREM RingIsOrdered == Spec => [](ExchangeInv /\ LoadInv)
<1>1. Init => ExchangeInv /\ LoadInv
  BY ExchangeInit, LoadInit
<1>2. ExchangeInv /\ LoadInv /\ [Next]_vars => (ExchangeInv /\ LoadInv)'
  BY ExchangeStep, LoadStep
<1>3. QED
  BY <1>1, <1>2, PTL DEF Spec

\* A warp in its tile finds its part.
LEMMA OperandIsThere ==
  ASSUME ExchangeInv, LoadInv, shape.loads # "none",
         NEW c \in Cluster, NEW w \in Warps, Has(c, w)
  PROVE  OperandStays(c, w)
<1>1. TypeInv /\ (\A v \in Peers : WarpInv(v)) /\ AheadInv /\ OperandInv /\ DataInv
  BY DEF ExchangeInv, LoadInv
<1>2. At(c, w) \in Nat
  BY <1>1, LoadCounts
<1>3. Loaded(c, w, At(c, w))
  BY <1>1, <1>2 DEF OperandInv
<1>4. Iss(c, w) <= At(c, w) + LoadStages
  BY <1>1 DEF AheadInv
<1>5. ~Gone(c, w)
  BY DEF Has, Gone
<1>6. ring[c][SlotOf(At(c, w))].data[w] = At(c, w)
  BY <1>1, <1>2, <1>3, <1>4, <1>5 DEF DataInv
<1>7. QED
  BY <1>6 DEF OperandStays, At

(***************************************************************************)
(* A warp that reads the reduction buffer finds the values of all warps of *)
(* the cluster for this reduction, and until it releases its slot it finds *)
(* its part of its own tile there, for any number of CTAs, warps, slots    *)
(* and tiles, loads by TMA or by cp.async.                                 *)
(***************************************************************************)
THEOREM RowsAreRead == Spec => []ReadsWholeRow
<1>1. ExchangeInv /\ LoadInv => ReadsWholeRow
  BY RowIsThere, OperandIsThere DEF ReadsWholeRow, Has
<1>2. QED
  BY <1>1, RingIsOrdered, PTL
=============================================================================
