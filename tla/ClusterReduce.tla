--------------------------- MODULE ClusterReduce ---------------------------
(***************************************************************************)
(* Row reductions by the warps of the CTAs of a cluster                    *)
(* (quack/reduce.py, reduction_base.py) and the two kinds of kernel around *)
(* them: the forward kernels of rmsnorm.py, softmax.py and                 *)
(* cross_entropy.py, which reduce one tile of rows in one or two passes,   *)
(* each with a stage of its own, and the persistent RMSNormBackward, which *)
(* loops over tiles with two stages and prefetches its operands.           *)
(*                                                                         *)
(* Between CTAs a warp stores its partial result into every peer with      *)
(* st.async, which lands later and counts bytes on the peer's mbarrier;    *)
(* within one CTA it uses shared memory and the CTA barrier.  A value is   *)
(* the number of the reduction it belongs to: the arithmetic is left out.  *)
(***************************************************************************)
EXTENDS Integers, FiniteSets

CONSTANTS Warps,       \* the warps of a CTA, with the elected one
          Warp0,
          LoadStages,  \* smem_stages of the backward kernel
          Shapes       \* kernels and their work

(***************************************************************************)
(* A shape: the CTAs of the cluster, whether the kernel is the persistent  *)
(* one, its reductions (tiles of the cluster, or passes), its prefetched   *)
(* loads ("tma", "async", or "none": left out, they meet no barrier of the *)
(* cluster), and whether a tile has several rows.                          *)
(***************************************************************************)
ASSUME ReduceAssumption ==
  /\ Warp0 \in Warps /\ IsFiniteSet(Warps) /\ LoadStages \in Nat \ {0}
  /\ \A p \in Shapes : /\ p.ctas \in Nat \ {0} /\ p.rounds \in Nat
                       /\ {p.persistent, p.rows} \subseteq BOOLEAN
                       /\ p.loads \in {"tma", "async", "none"}
                       /\ ~p.persistent => p.rounds \in {1, 2} /\ p.loads = "none"

VARIABLES
  shape,     \* the kernel that runs
  warp,      \* warp[c][w]
  joined,    \* warps that have arrived at the cluster barrier
  buffer,    \* buffer[c][s][v]: reduction_buffer, a value for each warp v
  full,      \* full[c][s]: mbarriers of the stages
  empty,     \* empty[c][s]
  flying,    \* remote stores and arrivals that have not landed
  ring,      \* ring[c][s]: X and dO in shared memory, a part for each warp
  landing    \* loads that have not landed: <<c, w, s, i>>

vars == <<shape, warp, joined, buffer, full, empty, flying, ring, landing>>

Cluster == 0 .. shape.ctas - 1
Peers == {<<c, w>> : c \in Cluster, w \in Warps}
Stages == {0, 1}
Slots == 0 .. LoadStages - 1
None == -1
Scratch == -2

\* num_warps * cluster_n: values stored into a CTA, warps that free a stage.
Contributions == Cardinality(Warps) * shape.ctas

Init ==
  /\ shape \in Shapes
  /\ warp = [c \in Cluster |-> [w \in Warps |->
       [pc |-> "join", i |-> 0, stage |-> 0, consumer |-> 0, producer |-> 1]]]
  /\ joined = {}
  /\ buffer = [c \in Cluster |-> [s \in Stages |-> [v \in Peers |-> None]]]
  /\ full = [c \in Cluster |-> [s \in Stages |-> [pending |-> 1, tx |-> 0, phase |-> 0]]]
  /\ empty = [c \in Cluster |-> [s \in Stages |-> [pending |-> Contributions, tx |-> 0, phase |-> 0]]]
  /\ flying = {}
  /\ ring = [c \in Cluster |-> [s \in Slots |-> [data |-> [w \in Warps |-> None],
                                                 full |-> 0, left |-> {}]]]
  /\ landing = {}

\* The phase of a barrier ends when nothing is pending and all bytes came.
Settle(b, count) ==
  IF b.pending = 0 /\ b.tx = 0 THEN [pending |-> count, tx |-> 0, phase |-> 1 - b.phase] ELSE b

\* What is done to a barrier: the elected thread arrives and expects the values
\* of all warps of the cluster, a value lands, a warp arrives.
Expect(b) == [b EXCEPT !.pending = @ - 1, !.tx = @ + Contributions]
Land(b) == [b EXCEPT !.tx = @ - 1]
Arrive(b) == [b EXCEPT !.pending = @ - 1]

\* mbarrier_wait passes unless its parity is the barrier's current one.
Passed(b, parity) == b.phase # parity

Goto(c, w, pc) == warp' = [warp EXCEPT ![c][w].pc = pc]

-----------------------------------------------------------------------------
(* Loads of X and dO, LoadStages - 1 tiles ahead.                           *)

AheadByOneMore == LoadStages
Ahead == LoadStages - 1

\* The slot that tile i goes through, and the parity of its lap.
SlotOf(i) == i % LoadStages

\* A TMA load of tile i waits until every thread has left the slot's last
\* tile; a cp.async load waits for nothing: it fills what its own thread left.
MayIssue(c, i) ==
  shape.loads = "tma" /\ i < shape.rounds /\ i >= LoadStages => ring[c][SlotOf(i)].left = Warps

\* Warp 0 issues a TMA for all, each warp its own cp.async.
Issued(c, w, i) ==
  IF i >= shape.rounds \/ shape.loads = "none" \/ (shape.loads = "tma" /\ w # Warp0) THEN {}
  ELSE IF shape.loads = "tma" THEN {<<c, v, SlotOf(i), i>> : v \in Warps}
  ELSE {<<c, w, SlotOf(i), i>>}

Cleared(c, w, i) ==
  IF shape.loads = "tma" /\ w = Warp0 /\ i < shape.rounds
    THEN [ring EXCEPT ![c][SlotOf(i)].left = {}] ELSE ring

\* A load of a warp's part lands, and with TMA it does for all warps at once.
LandLoad ==
  \E l \in landing :
    LET batch == IF shape.loads = "tma" THEN {m \in landing : m[1] = l[1] /\ m[4] = l[4]} ELSE {l}
    IN  /\ landing' = landing \ batch
        /\ ring' = [ring EXCEPT ![l[1]][l[3]].data =
                        [w \in Warps |-> IF \E m \in batch : m[2] = w THEN l[4] ELSE @[w]],
                      ![l[1]][l[3]].full = 1 - @]
        /\ UNCHANGED <<shape, warp, joined, buffer, full, empty, flying>>

\* consumer_wait of the slot's lap, or cp_async_wait_group(LoadStages - 1): all
\* but the last loads of this warp have landed.
Arrived(c, w, i) ==
  IF shape.loads = "tma" THEN ring[c][SlotOf(i)].full # (i \div LoadStages) % 2
  ELSE \A l \in landing : l[1] = c /\ l[2] = w => l[4] > i

-----------------------------------------------------------------------------
(* The cluster.                                                             *)

\* _initialize_cluster: the barriers are initialised by warp 0, and every
\* thread arrives.
Join(c, w) ==
  /\ warp[c][w].pc = "join"
  /\ joined' = joined \cup {<<c, w>>}
  /\ Goto(c, w, "begin")
  /\ UNCHANGED <<shape, buffer, full, empty, flying, ring, landing>>

ClusterReady == shape.ctas > 1 => joined = Peers

IterationPc == IF shape.loads = "none" THEN "put" ELSE "ahead"
AfterLoop == IF shape.persistent THEN (IF shape.rows THEN "tail" ELSE "exit") ELSE "done"

\* cluster_wait, and the loads before the loop.
Begin(c, w) ==
  /\ warp[c][w].pc = "begin"
  /\ ClusterReady
  /\ landing' = landing \cup UNION {Issued(c, w, i) : i \in 0 .. Ahead - 1}
  /\ Goto(c, w, IF shape.rounds = 0 THEN AfterLoop ELSE IterationPc)
  /\ UNCHANGED <<shape, joined, buffer, full, empty, flying, ring>>

\* The head of an iteration: one more load, Ahead tiles on.
PrefetchAhead(c, w) ==
  LET next == warp[c][w].i + Ahead
  IN  /\ warp[c][w].pc = "ahead"
      /\ w = Warp0 => MayIssue(c, next)
      /\ landing' = landing \cup Issued(c, w, next)
      /\ ring' = Cleared(c, w, next)
      /\ Goto(c, w, "load")
      /\ UNCHANGED <<shape, joined, buffer, full, empty, flying>>

\* The operands of this tile are there.
WaitLoad(c, w) ==
  /\ warp[c][w].pc = "load"
  /\ Arrived(c, w, warp[c][w].i)
  /\ Goto(c, w, "put")
  /\ UNCHANGED <<shape, joined, buffer, full, empty, flying, ring, landing>>

-----------------------------------------------------------------------------
(* One reduction.                                                           *)

\* The backward kernel waits until the stage is free in all CTAs.
StageFree(c, me) ==
  shape.persistent /\ shape.ctas > 1 => Passed(empty[c][me.stage], me.producer)

\* block_reduce: the value goes into shared memory and the warp to the barrier.
\* cluster_reduce: the elected thread expects the bytes of all warps of the
\* cluster, and each warp stores into every CTA.
Put(c, w) ==
  LET me == warp[c][w]
      s == me.stage
      expecting == IF w = Warp0 THEN Expect(full[c][s]) ELSE full[c][s]
  IN  /\ me.pc = "put"
      /\ StageFree(c, me)
      /\ buffer' = [buffer EXCEPT ![c][s][<<c, w>>] = me.i]
      /\ full' = IF shape.ctas > 1 THEN [full EXCEPT ![c][s] = Settle(Land(expecting), 1)] ELSE full
      /\ flying' = flying \cup {[kind |-> "value", from |-> <<c, w>>, to |-> d, stage |-> s, i |-> me.i]
                                : d \in Cluster \ {c}}
      /\ Goto(c, w, "wait")
      /\ UNCHANGED <<shape, joined, empty, ring, landing>>

\* An arrival is a release: those of one warp on another CTA land in order.
InOrder(m) ==
  m.kind = "free" => \A n \in flying : n.kind = "free" /\ n.from = m.from /\ n.to = m.to => n.i >= m.i

\* What was sent to another CTA lands there.
LandRemote ==
  \E m \in flying :
    /\ InOrder(m)
    /\ flying' = flying \ {m}
    /\ \/ /\ m.kind = "value"
          /\ buffer' = [buffer EXCEPT ![m.to][m.stage][m.from] = m.i]
          /\ full' = [full EXCEPT ![m.to][m.stage] = Settle(Land(@), 1)]
          /\ UNCHANGED empty
       \/ /\ m.kind = "free"
          /\ empty' = [empty EXCEPT ![m.to][m.stage] = Settle(Arrive(@), Contributions)]
          /\ UNCHANGED <<buffer, full>>
    /\ UNCHANGED <<shape, warp, joined, ring, landing>>

\* mbarrier_wait on the full barrier of the stage.
WaitFull(c, w) ==
  LET me == warp[c][w]
  IN  /\ shape.ctas > 1
      /\ me.pc = "wait"
      /\ Passed(full[c][me.stage], me.consumer)
      /\ Goto(c, w, "read")
      /\ UNCHANGED <<shape, joined, buffer, full, empty, flying, ring, landing>>

\* The barrier of a CTA: all of its warps are there and go on.
CtaBarrier(c) ==
  \E at \in {"wait", "tail"} :
    /\ at = "wait" => shape.ctas = 1
    /\ \A w \in Warps : warp[c][w].pc = at
    /\ warp' = [warp EXCEPT ![c] = [w \in Warps |->
                  [@[w] EXCEPT !.pc = IF at = "wait" THEN "read" ELSE "scratch"]]]
    /\ UNCHANGED <<shape, joined, buffer, full, empty, flying, ring, landing>>

\* stage ^= 1; the phases change when it comes back to 0.
NextStage(s) == 1 - s
NextRound(me) ==
  LET s == NextStage(me.stage)
      flip == IF s = 0 THEN 1 ELSE 0
      next == [me EXCEPT !.i = @ + 1, !.stage = s]
      flipped == [next EXCEPT !.consumer = (@ + flip) % 2, !.producer = (@ + flip) % 2]
  IN  [(IF shape.persistent THEN flipped ELSE next) EXCEPT
         !.pc = IF me.i + 1 < shape.rounds THEN IterationPc ELSE AfterLoop]

\* The buffer has been read: the backward kernel frees the stage in all CTAs
\* and the slot of its operands, and goes on.
Release(c, w) ==
  LET me == warp[c][w]
      frees == shape.persistent /\ shape.ctas > 1
  IN  /\ me.pc = "read"
      /\ empty' = IF frees THEN [empty EXCEPT ![c][me.stage] = Settle(Arrive(@), Contributions)] ELSE empty
      /\ flying' = IF frees THEN flying \cup {[kind |-> "free", from |-> <<c, w>>, to |-> d,
                                               stage |-> me.stage, i |-> me.i] : d \in Cluster \ {c}}
                            ELSE flying
      /\ ring' = IF shape.loads # "none" THEN [ring EXCEPT ![c][SlotOf(me.i)].left = @ \cup {w}] ELSE ring
      /\ warp' = [warp EXCEPT ![c][w] = NextRound(me)]
      /\ UNCHANGED <<shape, joined, buffer, full, landing>>

-----------------------------------------------------------------------------
(* The end of the backward kernel.                                          *)

\* Several rows in a tile: behind the CTA barrier the memory of X is the
\* scratch in which dW is summed.
WriteScratch(c, w) ==
  /\ warp[c][w].pc = "scratch"
  /\ ring' = [ring EXCEPT ![c] = [s \in Slots |->
                [@[s] EXCEPT !.data = [v \in Warps |-> Scratch]]]]
  /\ Goto(c, w, "exit")
  /\ UNCHANGED <<shape, joined, buffer, full, empty, flying, landing>>

\* The last stage used has been freed by all CTAs.
LastStageSkipped(c, me) == TRUE
LastStageSameParity(c, me) == Passed(empty[c][1 - me.stage], me.producer)
LastStageFreed(c, me) ==
  LET s == 1 - me.stage
      parity == IF s = 0 THEN 1 - me.producer ELSE me.producer
  IN  Passed(empty[c][s], parity)

Exit(c, w) ==
  /\ warp[c][w].pc = "exit"
  /\ shape.ctas > 1 => LastStageFreed(c, warp[c][w])
  /\ Goto(c, w, "done")
  /\ UNCHANGED <<shape, joined, buffer, full, empty, flying, ring, landing>>

WarpStep(c, w) ==
  \/ Join(c, w) \/ Begin(c, w) \/ PrefetchAhead(c, w) \/ WaitLoad(c, w)
  \/ Put(c, w) \/ WaitFull(c, w) \/ Release(c, w) \/ WriteScratch(c, w) \/ Exit(c, w)

Next ==
  \/ \E c \in Cluster : CtaBarrier(c) \/ \E w \in Warps : WarpStep(c, w)
  \/ LandLoad \/ LandRemote

Spec == Init /\ [][Next]_vars

\* Resident warps are scheduled, and what was sent lands.
Fairness ==
  /\ \A c \in UNION {0 .. p.ctas - 1 : p \in Shapes} :
       /\ WF_vars(c \in Cluster /\ CtaBarrier(c))
       /\ \A w \in Warps : WF_vars(c \in Cluster /\ WarpStep(c, w))
  /\ WF_vars(LandLoad) /\ WF_vars(LandRemote)

FairSpec == Spec /\ Fairness

-----------------------------------------------------------------------------
(***************************************************************************)
(* A warp that reads the reduction buffer finds in it the values of all    *)
(* warps of the cluster, and of this reduction: none is missing, left from *)
(* an earlier one or already of the next.  And from its wait until it      *)
(* releases the slot, a warp of the backward kernel finds its part of its  *)
(* own tile in shared memory (it may read it again behind the reduction):  *)
(* no prefetch and no scratch overwrites it.                               *)
(***************************************************************************)
BufferHoldsRow(c, w) == \A v \in Peers : buffer[c][warp[c][w].stage][v] = warp[c][w].i
OperandStays(c, w) == ring[c][SlotOf(warp[c][w].i)].data[w] = warp[c][w].i
ReadsWholeRow ==
  \A c \in Cluster, w \in Warps :
    /\ warp[c][w].pc = "read" => BufferHoldsRow(c, w)
    /\ shape.loads # "none" /\ warp[c][w].pc \in {"put", "wait", "read"} => OperandStays(c, w)

(***************************************************************************)
(* What flies to another CTA meets its barriers: initialised, and the CTA  *)
(* still there.  No warp but those of one's own CTA say when it exits.     *)
(***************************************************************************)
PeersAreThere ==
  \A m \in flying : /\ <<m.to, Warp0>> \in joined
                    /\ \E w \in Warps : warp[m.to][w].pc # "done"

(***************************************************************************)
(* Every warp of every kernel gets to its end.                             *)
(***************************************************************************)
KernelsEnd == <>(\A c \in Cluster, w \in Warps : warp[c][w].pc = "done")
=============================================================================
