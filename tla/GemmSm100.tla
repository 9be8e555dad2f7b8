----------------------------- MODULE GemmSm100 -----------------------------
(***************************************************************************)
(* The warp-specialised persistent GEMM of SM100 (quack/gemm_sm100.py):    *)
(* one CTA, or the two CTAs of a 2-CTA MMA.  A scheduler warp hands out    *)
(* work tiles, load warps fill the stages of A and B (gathering the rows   *)
(* or columns of A through indices that a prefetch warp fetches), a warp   *)
(* loads C, the MMA warp of the leader CTA multiplies into tensor memory   *)
(* and the epilogue warps read it out.  They share nothing but rings of    *)
(* buffers with a parity bit per stage, two named barriers and the tensor  *)
(* memory.                                                                 *)
(*                                                                         *)
(* The warps of one role move as one actor whose arrivals are one.  A TMA  *)
(* load lands when it is issued, a cp.async gather of A some time later.   *)
(* An MMA is atomic: it waits for its operands, reads them and releases    *)
(* their stage.  The stores of D are in GemmTilePublish; PDL, multicast    *)
(* and the register reallocation are left out.                             *)
(***************************************************************************)
EXTENDS Integers, Sequences, FiniteSets

CONSTANTS ABStages,    \* ab_stage
          CStages,     \* epi_c_stage
          EpiTiles,    \* epi_tile_num: subtiles of an output tile
          SubCols,     \* columns of a subtile
          Shapes       \* kernel variants and the tiles of the cluster

(***************************************************************************)
(* A shape: the CTAs of the MMA, the gather of A ("none", "m": one index   *)
(* block per tile, "k": one per k tile), whether the gather is a TMA, C,   *)
(* overlap_accum_sf with the columns of tensor memory the scale factors    *)
(* take, varlen_k, and the k tiles of each work tile.                      *)
(***************************************************************************)
ASSUME Sm100Assumption ==
  /\ {ABStages, CStages, EpiTiles, SubCols} \subseteq Nat \ {0}
  /\ \A p \in Shapes :
       /\ p.ctas \in {1, 2} /\ p.gather \in {"none", "m", "k"}
       /\ {p.tmaGather, p.hasC, p.overlapSf, p.varlenK} \subseteq BOOLEAN
       /\ p.sfCols \in 0 .. EpiTiles * SubCols - 1
       /\ p.kTiles \in Seq(Nat)
       /\ p.gather = "k" => p.varlenK
       /\ (\E t \in DOMAIN p.kTiles : p.kTiles[t] = 0) => p.varlenK

VARIABLES
  shape,    \* the variant and its tiles
  warp,     \* warp[c][r]: the warps of CTA c in role r
  slot,     \* the scheduler ring (sched_stage = 1) of the cluster
  ab,       \* ab[s]: stages of A and B
  idx,      \* idx[c][s]: stages of A indices
  cs,       \* cs[c][s]: stages of C
  acc,      \* acc[s]: barriers of the accumulator stages
  tmem,     \* tmem[h][x]: columns of subtile x in half h
  alloc,    \* alloc[c]: tensor memory is "held" or "freed"
  signal    \* signal[c]: arrivals on the two named barriers

vars == <<shape, warp, slot, ab, idx, cs, acc, tmem, alloc, signal>>

Ctas == 0 .. shape.ctas - 1
Leader == 0
Tiles == Len(shape.kTiles)
KCount(t) == shape.kTiles[t]
Invalid == 0
Nothing == <<>>

Role == {"sched", "load", "index", "cload", "mma", "epi"}

\* The roles that have a warp in this variant.
RolesPresent == {"sched", "load", "mma", "epi"} \cup
                (IF shape.gather = "none" THEN {} ELSE {"index"}) \cup
                (IF shape.hasC THEN {"cload"} ELSE {})

\* The arrivals that free a slot of the scheduler ring (make_sched_pipeline).
SchedArrivalsWithoutIndex == shape.ctas * Cardinality(RolesPresent \ {"index"})
SchedArrivals == shape.ctas * Cardinality(RolesPresent)

\* A cp.async gather lands in its own CTA only; the MMA warp of the other CTA
\* passes the news on to the leader (need_nonleader_cta).
Relays == shape.gather # "none" /\ ~shape.tmaGather /\ shape.ctas = 2
LandsLater == shape.gather # "none" /\ ~shape.tmaGather

\* Arrivals that complete a stage for the leader: the TMA loads of each CTA,
\* its own gather, the relay (make_ab_pipeline's producer counts).
LeaderNeedsNoRelay == {<<"tma", c>> : c \in Ctas} \cup (IF LandsLater THEN {<<"gather", 0>>} ELSE {})
LeaderNeeds == {<<"tma", c>> : c \in Ctas} \cup
               (IF LandsLater THEN {<<"gather", 0>>} ELSE {}) \cup
               (IF Relays THEN {<<"relay", 1>>} ELSE {})

IdxStages == IF shape.gather = "k" THEN ABStages ELSE 2
AccStages == IF shape.overlapSf THEN 1 ELSE 2

\* Pipeline states; a wait passes unless its phase is the barrier's current one.
Producer == [index |-> 0, phase |-> 1]
Consumer == [index |-> 0, phase |-> 0]
Advance(s, stages) == [index |-> (s.index + 1) % stages,
                       phase |-> (s.phase + (s.index + 1) \div stages) % 2]
Rewind(s, stages) == [index |-> (s.index + stages - 1) % stages,
                      phase |-> (s.phase + (s.index + stages - 1) \div stages) % 2]
Passed(bar, s) == bar # s.phase
Flip(bar) == 1 - bar

-----------------------------------------------------------------------------
FirstTile == IF Tiles > 0 THEN 1 ELSE Invalid
TileAfter(t) == IF t < Tiles THEN t + 1 ELSE Invalid

\* Where a role of CTA c is: fetching, waiting for its next tile, at work on
\* one, in its tail, or done.  The index warp and, in the CTA that is not the
\* leader, the load warps have no tail; the scheduler warp of that CTA only
\* follows.
PcAt(c, r, t) ==
  CASE r \notin RolesPresent                                  -> "done"
    [] t # Invalid                                            -> IF r = "sched" /\ c # Leader THEN "take" ELSE "work"
    [] r = "index" \/ (c # Leader /\ r \in {"sched", "load"}) -> "done"
    [] OTHER                                                  -> "tail"

StartState(r) == IF r \in {"load", "index", "cload"} THEN Producer ELSE Consumer

Init ==
  /\ shape \in Shapes
  /\ warp = [c \in Ctas |-> [r \in Role |->
       [pc |-> PcAt(c, r, FirstTile), tile |-> FirstTile, k |-> 0, phase |-> 0, first |-> TRUE,
        st |-> StartState(r),       \* its ring of A/B, indices or C
        st2 |-> IF r = "mma" THEN Producer ELSE Consumer,  \* accumulators; load: indices
        held |-> Nothing,           \* load: the indices in registers
        sf |-> 1]]]                 \* mma: the half that holds the scale factors
  /\ slot = [data |-> Invalid, full |-> 0, empty |-> 0, missing |-> SchedArrivals]
  /\ ab = [s \in 0 .. ABStages - 1 |->
       [a |-> [c \in Ctas |-> Nothing], b |-> [c \in Ctas |-> Nothing],
        coming |-> [c \in Ctas |-> Nothing], got |-> {},
        full |-> [c \in Ctas |-> 0], empty |-> 0]]
  /\ idx = [c \in Ctas |-> [s \in 0 .. IdxStages - 1 |-> [data |-> Nothing, full |-> 0, empty |-> 0]]]
  /\ cs = [c \in Ctas |-> [s \in 0 .. CStages - 1 |-> [data |-> Nothing, full |-> 0, empty |-> 0]]]
  /\ acc = [s \in 0 .. AccStages - 1 |-> [full |-> 0, empty |-> 0, missing |-> shape.ctas]]
  /\ tmem = [h \in {0, 1} |-> [x \in 0 .. EpiTiles - 1 |-> Nothing]]
  /\ alloc = [c \in Ctas |-> "held"]
  /\ signal = [c \in Ctas |-> {}]

Goto(c, r, pc) == warp' = [warp EXCEPT ![c][r].pc = pc]

\* A stage is filled, or read and given back.
Fill(st, data) == [st EXCEPT !.data = data, !.full = Flip(@)]
Drain(st) == [st EXCEPT !.empty = Flip(@)]

-----------------------------------------------------------------------------
(* Work tiles.                                                              *)

\* advance_to_next_work of the one scheduler warp of the cluster, which writes
\* the next tile into the slot of every CTA.
Fetch ==
  LET me == warp[Leader]["sched"]
  IN  /\ me.pc = "work"
      /\ Passed(slot.empty, [index |-> 0, phase |-> 1 - me.phase])
      /\ slot' = [slot EXCEPT !.data = TileAfter(me.tile), !.full = Flip(@)]
      /\ Goto(Leader, "sched", "take")
      /\ UNCHANGED <<shape, ab, idx, cs, acc, tmem, alloc, signal>>

\* The blocks of indices of a tile: one, or one per k tile.
IndexBlocks(t) == IF shape.gather = "m" THEN 1 ELSE KCount(t)

\* get_current_work: read the slot and give it back to CTA 0.
Take(c, r) ==
  LET me == warp[c][r]
  IN  /\ me.pc = "take" \/ (me.pc = "work" /\ r = "index" /\ me.k = IndexBlocks(me.tile))
      /\ Passed(slot.full, [index |-> 0, phase |-> me.phase])
      /\ slot' = IF slot.missing = 1
                   THEN [slot EXCEPT !.missing = SchedArrivals, !.empty = Flip(@)]
                   ELSE [slot EXCEPT !.missing = @ - 1]
      /\ warp' = [warp EXCEPT ![c][r].tile = slot.data, ![c][r].k = 0,
                              ![c][r].phase = 1 - @,
                              ![c][r].pc = PcAt(c, r, slot.data)]
      /\ UNCHANGED <<shape, ab, idx, cs, acc, tmem, alloc, signal>>

\* producer_tail of the scheduler: the last write has been read by everyone.
SchedTailSkipped == TRUE
SchedTail == Passed(slot.empty, [index |-> 0, phase |-> 1 - warp[Leader]["sched"].phase])

SchedEnd ==
  /\ warp[Leader]["sched"].pc = "tail"
  /\ SchedTail
  /\ Goto(Leader, "sched", "done")
  /\ UNCHANGED <<shape, slot, ab, idx, cs, acc, tmem, alloc, signal>>

-----------------------------------------------------------------------------
(* The A-index prefetch warp: a block of indices per tile or per k tile.    *)

PrefetchIndex(c) ==
  LET me == warp[c]["index"]
  IN  /\ me.pc = "work"
      /\ me.k < IndexBlocks(me.tile)
      /\ Passed(idx[c][me.st.index].empty, me.st)
      /\ idx' = [idx EXCEPT ![c][me.st.index] =
                   Fill(@, IF shape.gather = "m" THEN <<me.tile>> ELSE <<me.tile, me.k>>)]
      /\ warp' = [warp EXCEPT ![c]["index"].k = @ + 1,
                              ![c]["index"].st = Advance(@, IdxStages)]
      /\ UNCHANGED <<shape, slot, ab, cs, acc, tmem, alloc, signal>>

-----------------------------------------------------------------------------
(* The A/B load warps.                                                      *)

\* The stage the indices are read from.  With varlen_k the code waits for the
\* index ring's own stage but reads the one that the A/B ring is at.
IndexRead(me) == IF shape.gather = "k" THEN me.st.index ELSE me.st2.index

NeedsIndex(me) == IF shape.gather = "m" THEN me.k = 0 /\ me.held = Nothing
                  ELSE shape.gather = "k" /\ me.k < KCount(me.tile) /\ me.held = Nothing

\* consumer_wait, indices into registers, consumer_release.
ReadIndex(c) ==
  LET me == warp[c]["load"]
  IN  /\ me.pc = "work"
      /\ NeedsIndex(me)
      /\ Passed(idx[c][me.st2.index].full, me.st2)
      /\ idx' = [idx EXCEPT ![c][me.st2.index] = Drain(@)]
      /\ warp' = [warp EXCEPT ![c]["load"].held = idx[c][IndexRead(me)].data,
                              ![c]["load"].st2 = Advance(@, IdxStages)]
      /\ UNCHANGED <<shape, slot, ab, cs, acc, tmem, alloc, signal>>

\* What the held indices select from A.
Gathered(me) == IF shape.gather = "m" THEN Append(me.held, me.k)
                ELSE IF shape.gather = "k" THEN me.held ELSE <<me.tile, me.k>>

\* An arrival on the leader's full barrier.
Arrived(st, x) ==
  IF st.got \cup {x} = LeaderNeeds
    THEN [st EXCEPT !.got = {}, !.full[Leader] = Flip(@)]
    ELSE [st EXCEPT !.got = @ \cup {x}]

\* load_tma, load_AB_tma_gather, load_AB_gather_A: one k tile.
LoadK(c) ==
  LET me == warp[c]["load"]
      i == me.st.index
  IN  /\ me.pc = "work"
      /\ me.k < KCount(me.tile)
      /\ ~ NeedsIndex(me)
      /\ Passed(ab[i].empty, me.st)
      /\ ab' = [ab EXCEPT ![i] =
                  Arrived([@ EXCEPT !.b[c] = <<me.tile, me.k>>,
                                    !.a[c] = IF LandsLater THEN Nothing ELSE Gathered(me),
                                    !.coming[c] = IF LandsLater THEN Gathered(me) ELSE Nothing],
                          <<"tma", c>>)]
      /\ warp' = [warp EXCEPT ![c]["load"].k = @ + 1,
                              ![c]["load"].st = Advance(@, ABStages),
                              ![c]["load"].held = IF shape.gather = "k" THEN Nothing ELSE @]
      /\ UNCHANGED <<shape, slot, idx, cs, acc, tmem, alloc, signal>>

\* A cp.async gather completes (producer_cpasync_commit).
LandGather(c) ==
  \E i \in DOMAIN ab :
    LET landed == [ab[i] EXCEPT !.a[c] = ab[i].coming[c], !.coming[c] = Nothing]
    IN  /\ ab[i].coming[c] # Nothing
        /\ ab' = [ab EXCEPT ![i] = IF c = Leader THEN Arrived(landed, <<"gather", 0>>)
                                   ELSE [landed EXCEPT !.full[c] = Flip(@)]]
        /\ UNCHANGED <<shape, warp, slot, idx, cs, acc, tmem, alloc, signal>>

\* Behind the last k tile: epi_load_barrier.arrive() after the first tile.
LoadNext(c) ==
  LET me == warp[c]["load"]
  IN  /\ me.pc = "work"
      /\ me.k = KCount(me.tile)
      /\ ~ NeedsIndex(me)
      /\ signal' = [signal EXCEPT ![c] = IF shape.hasC /\ me.first THEN @ \cup {"loaded"} ELSE @]
      /\ warp' = [warp EXCEPT ![c]["load"].pc = "take", ![c]["load"].first = FALSE,
                              ![c]["load"].held = Nothing]
      /\ UNCHANGED <<shape, slot, ab, idx, cs, acc, tmem, alloc>>

\* producer_tail: the last stage used has been multiplied.
LoadEnd ==
  LET me == warp[Leader]["load"]
      last == Rewind(me.st, ABStages)
  IN  /\ me.pc = "tail"
      /\ Passed(ab[last.index].empty, last)
      /\ Goto(Leader, "load", "done")
      /\ UNCHANGED <<shape, slot, ab, idx, cs, acc, tmem, alloc, signal>>

-----------------------------------------------------------------------------
(* The C load warp.                                                         *)

LoadC(c) ==
  LET me == warp[c]["cload"]
  IN  /\ me.pc = "work"
      /\ me.first => "loaded" \in signal[c]
      /\ Passed(cs[c][me.st.index].empty, me.st)
      /\ cs' = [cs EXCEPT ![c][me.st.index] = Fill(@, <<me.tile, me.k>>)]
      /\ warp' = [warp EXCEPT ![c]["cload"].k = @ + 1, ![c]["cload"].first = FALSE,
                              ![c]["cload"].st = Advance(@, CStages),
                              ![c]["cload"].pc = IF me.k + 1 = EpiTiles THEN "take" ELSE @]
      /\ UNCHANGED <<shape, slot, ab, idx, acc, tmem, alloc, signal>>

LoadCEnd(c) ==
  LET me == warp[c]["cload"]
      last == Rewind(me.st, CStages)
  IN  /\ me.pc = "tail"
      /\ Passed(cs[c][last.index].empty, last)
      /\ Goto(c, "cload", "done")
      /\ UNCHANGED <<shape, slot, ab, idx, cs, acc, tmem, alloc, signal>>

-----------------------------------------------------------------------------
(* The MMA warps.                                                           *)

\* Behind the leader's wait for an empty accumulator, before its first k tile.
AccAcquired(me) == me.k = 0 => Passed(acc[me.st2.index].empty, me.st2)

\* acc_stage_idx
AccHalf(me) == IF shape.overlapSf THEN 1 - me.st2.phase ELSE me.st2.index

\* The scale factors go into the first columns of their half, the products
\* into all columns of the accumulator's.
Multiply(me) ==
  [h \in {0, 1} |-> [x \in 0 .. EpiTiles - 1 |->
     IF shape.overlapSf /\ h = me.sf /\ x * SubCols < shape.sfCols THEN <<"sf", me.tile>>
     ELSE IF h = AccHalf(me) THEN <<"acc", me.tile, me.k + 1>> ELSE tmem[h][x]]]

\* mma(): one k tile.
MmaK ==
  LET me == warp[Leader]["mma"]
      i == me.st.index
  IN  /\ me.pc = "work"
      /\ me.k < KCount(me.tile)
      /\ AccAcquired(me)
      /\ Passed(ab[i].full[Leader], me.st)
      /\ tmem' = Multiply(me)
      /\ ab' = [ab EXCEPT ![i].empty = Flip(@)]
      /\ warp' = [warp EXCEPT ![Leader]["mma"].k = @ + 1, ![Leader]["mma"].st = Advance(@, ABStages)]
      /\ UNCHANGED <<shape, slot, idx, cs, acc, alloc, signal>>

\* The accumulator is full, for the epilogues of both CTAs; the scale factors
\* change halves (acc_producer_state.phase * 2 - 1).
CommitAcc ==
  LET me == warp[Leader]["mma"]
      next == Advance(me.st2, AccStages)
  IN  /\ me.pc = "work"
      /\ me.k = KCount(me.tile)
      /\ AccAcquired(me)
      /\ acc' = [acc EXCEPT ![me.st2.index].full = Flip(@)]
      /\ warp' = [warp EXCEPT ![Leader]["mma"].pc = "take", ![Leader]["mma"].st2 = next,
                              ![Leader]["mma"].sf = IF shape.overlapSf THEN @ + 2 * next.phase - 1 ELSE @]
      /\ UNCHANGED <<shape, slot, ab, idx, cs, tmem, alloc, signal>>

\* The MMA warp that is not the leader: relay each gathered stage, or nothing.
Relay(c) ==
  LET me == warp[c]["mma"]
      i == me.st.index
  IN  /\ c # Leader
      /\ me.pc = "work"
      /\ \/ /\ Relays /\ me.k < KCount(me.tile)
            /\ Passed(ab[i].full[c], me.st)
            /\ ab' = [ab EXCEPT ![i] = Arrived(@, <<"relay", 1>>)]
            /\ warp' = [warp EXCEPT ![c]["mma"].k = @ + 1, ![c]["mma"].st = Advance(@, ABStages)]
         \/ /\ ~Relays \/ me.k = KCount(me.tile)
            /\ Goto(c, "mma", "take")
            /\ UNCHANGED ab
      /\ UNCHANGED <<shape, slot, idx, cs, acc, tmem, alloc, signal>>

\* tmem_alloc_barrier.arrive(); then the leader's producer_tail.
MmaDone(c) ==
  /\ warp[c]["mma"].pc = "tail"
  /\ signal' = [signal EXCEPT ![c] = @ \cup {"issued"}]
  /\ Goto(c, "mma", IF c = Leader THEN "accTail" ELSE "done")
  /\ UNCHANGED <<shape, slot, ab, idx, cs, acc, tmem, alloc>>

MmaEnd ==
  LET me == warp[Leader]["mma"]
      last == Rewind(me.st2, AccStages)
  IN  /\ me.pc = "accTail"
      /\ Passed(acc[last.index].empty, last)
      /\ Goto(Leader, "mma", "done")
      /\ UNCHANGED <<shape, slot, ab, idx, cs, acc, tmem, alloc, signal>>

-----------------------------------------------------------------------------
(* The epilogue warps.                                                      *)

\* Behind the wait for a full accumulator, before the first subtile.
AccReady(me) == me.k = 0 => Passed(acc[me.st2.index].full, me.st2)

\* epi_acc_stage; the subtile behind which the accumulator is given back.
EpiHalf(me) == IF shape.overlapSf THEN me.st2.phase ELSE me.st2.index
ReleaseIndex == IF shape.overlapSf THEN shape.sfCols \div SubCols ELSE EpiTiles - 1

\* The epilogue warps go to the next subtile, or behind the last one to the
\* next tile.
NextSubtile(me) ==
  IF me.k + 1 < EpiTiles THEN [me EXCEPT !.pc = "work", !.k = @ + 1]
  ELSE [me EXCEPT !.pc = "take", !.st2 = Advance(@, AccStages)]

\* epi_load_acc_subtile: tensor memory into registers, and the release.
LoadSubtile(c) ==
  LET me == warp[c]["epi"]
      i == me.st2.index
  IN  /\ me.pc = "work"
      /\ AccReady(me)
      /\ acc' = IF me.k # ReleaseIndex THEN acc
                ELSE IF acc[i].missing = 1
                  THEN [acc EXCEPT ![i].missing = shape.ctas, ![i].empty = Flip(@)]
                  ELSE [acc EXCEPT ![i].missing = @ - 1]
      /\ warp' = [warp EXCEPT ![c]["epi"] = IF shape.hasC THEN [@ EXCEPT !.pc = "c"] ELSE NextSubtile(@)]
      /\ UNCHANGED <<shape, slot, ab, idx, cs, tmem, alloc, signal>>

\* The subtile of C.
ReadC(c) ==
  LET me == warp[c]["epi"]
  IN  /\ me.pc = "c"
      /\ Passed(cs[c][me.st.index].full, me.st)
      /\ cs' = [cs EXCEPT ![c][me.st.index] = Drain(@)]
      /\ warp' = [warp EXCEPT ![c]["epi"] = NextSubtile([@ EXCEPT !.st = Advance(@, CStages)])]
      /\ UNCHANGED <<shape, slot, ab, idx, acc, tmem, alloc, signal>>

\* tmem_alloc_barrier.arrive_and_wait(), then free.  With two CTAs the
\* allocator's own barrier makes them wait for each other.
MayFree(c) == "issued" \in signal[c]

Free(c) ==
  /\ warp[c]["epi"].pc = "tail"
  /\ \A d \in Ctas : warp[d]["epi"].pc \in {"tail", "done"} /\ MayFree(d)
  /\ alloc' = [alloc EXCEPT ![c] = "freed"]
  /\ Goto(c, "epi", "done")
  /\ UNCHANGED <<shape, slot, ab, idx, cs, acc, tmem, signal>>

-----------------------------------------------------------------------------
SchedStep(c) == Take(c, "sched") \/ (c = Leader /\ (Fetch \/ SchedEnd))
IndexStep(c) == PrefetchIndex(c) \/ Take(c, "index")
LoadStep(c) == ReadIndex(c) \/ LoadK(c) \/ LoadNext(c) \/ Take(c, "load") \/ (c = Leader /\ LoadEnd)
CLoadStep(c) == LoadC(c) \/ Take(c, "cload") \/ LoadCEnd(c)
MmaStep(c) ==
  \/ Relay(c) \/ Take(c, "mma") \/ MmaDone(c)
  \/ c = Leader /\ (MmaK \/ CommitAcc \/ MmaEnd)
EpiStep(c) == LoadSubtile(c) \/ ReadC(c) \/ Take(c, "epi") \/ Free(c)

CtaStep(c) ==
  \/ SchedStep(c) \/ IndexStep(c) \/ LoadStep(c) \/ CLoadStep(c) \/ MmaStep(c) \/ EpiStep(c)
  \/ LandGather(c)

Next == \E c \in Ctas : CtaStep(c)

Spec == Init /\ [][Next]_vars

\* Every warp of a resident CTA is scheduled, and what was issued completes.
Fairness ==
  \A c \in {0, 1} :
    /\ WF_vars(c \in Ctas /\ SchedStep(c)) /\ WF_vars(c \in Ctas /\ IndexStep(c))
    /\ WF_vars(c \in Ctas /\ LoadStep(c)) /\ WF_vars(c \in Ctas /\ CLoadStep(c))
    /\ WF_vars(c \in Ctas /\ MmaStep(c)) /\ WF_vars(c \in Ctas /\ EpiStep(c))
    /\ WF_vars(c \in Ctas /\ LandGather(c))

FairSpec == Spec /\ Fairness

-----------------------------------------------------------------------------
\* The k tile that the leader is about to multiply is its own, whole, in the
\* stages of all CTAs: A came through the right indices and has landed.
MmaReadsOwnTile ==
  LET me == warp[Leader]["mma"]
      aboutTo == me.pc = "work" /\ me.k < KCount(me.tile) /\ AccAcquired(me)
                 /\ Passed(ab[me.st.index].full[Leader], me.st)
  IN  aboutTo => \A c \in Ctas : /\ ab[me.st.index].a[c] = <<me.tile, me.k>>
                                /\ ab[me.st.index].b[c] = <<me.tile, me.k>>

\* Tensor memory is allocated, in both CTAs, while it is written and read.
TmemHeldInUse ==
  /\ warp[Leader]["mma"].pc = "work" /\ warp[Leader]["mma"].k > 0 => \A c \in Ctas : alloc[c] # "freed"
  /\ \A c \in Ctas : /\ warp[c]["epi"].pc \in {"work", "c"} => alloc[c] = "held"
                     /\ warp[c]["mma"].pc \notin {"accTail", "done"} => alloc[c] = "held"

\* What the epilogue is about to read is the finished accumulator of its tile
\* (unless the tile has no k at all and it takes zeros), not the next tile's
\* products or scale factors, and the C of the same subtile.
EpilogueReadsOwnTile ==
  \A c \in Ctas :
       LET me == warp[c]["epi"]
       IN  /\ me.pc = "work" /\ AccReady(me) /\ KCount(me.tile) > 0 =>
                tmem[EpiHalf(me)][me.k] = <<"acc", me.tile, KCount(me.tile)>>
           /\ me.pc = "c" /\ Passed(cs[c][me.st.index].full, me.st) =>
                cs[c][me.st.index].data = <<me.tile, me.k>>

(***************************************************************************)
(* From the loads to the epilogue, in both CTAs, each stage works on the   *)
(* data of its own tile: MMA and epilogue read neither what is missing nor *)
(* what the next tile already put there, whichever warps overlap; and      *)
(* nobody frees the tensor memory under them.                              *)
(***************************************************************************)
StagesReadOwnTile == MmaReadsOwnTile /\ EpilogueReadsOwnTile /\ TmemHeldInUse

Exited(c) == \A r \in Role : warp[c][r].pc = "done"

\* The barriers that live in the shared memory of CTA c.
BarriersOf(c) == IF c = Leader THEN <<slot, [s \in DOMAIN ab |-> <<ab[s].got, ab[s].full[0], ab[s].empty>>], acc>>
                 ELSE <<slot.full, [s \in DOMAIN ab |-> <<ab[s].full[c], ab[s].empty>>],
                        [s \in DOMAIN acc |-> acc[s].full]>>

(***************************************************************************)
(* No CTA of a cluster arrives on a barrier of one that has already        *)
(* exited: its shared memory may belong to another kernel.                 *)
(***************************************************************************)
NoArrivalAfterExit ==
  [][\A c \in Ctas : Exited(c) => BarriersOf(c)' = BarriersOf(c)]_vars

(***************************************************************************)
(* Every warp of every variant gets to its end.                            *)
(***************************************************************************)
CtasEnd == <>(\A c \in Ctas : Exited(c))
=============================================================================
