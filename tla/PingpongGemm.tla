---------------------------- MODULE PingpongGemm ----------------------------
(***************************************************************************)
(* One CTA of the SM90 GEMM in pingpong mode (quack/gemm_sm90.py, the      *)
(* epilogue of gemm_base.py, the scheduler pipeline of tile_scheduler.py). *)
(* A load warp streams A/B tiles into ABStages stages, two math warp       *)
(* groups take turns: while one multiplies, the other runs the epilogue of *)
(* the tile before.  They share every buffer, and each warp group keeps    *)
(* its own copies of all pipeline states, which it moves by hand over the  *)
(* tiles of the other (advance_iters).  Nothing but a parity bit per stage *)
(* tells a wait whether it is one lap off.                                 *)
(*                                                                         *)
(* A warp group moves as one actor, and all its warps' arrivals are one.   *)
(* TMA loads and stores are asynchronous: a stage is torn until the load   *)
(* lands, a store reads its buffer at some later time.  The index fetch of *)
(* the scheduler is the next tile of the CTA; clusters, multicast, gather  *)
(* of A and fp8_slow_accum are left out.                                   *)
(***************************************************************************)
EXTENDS Integers, Sequences, FiniteSets

CONSTANTS ABStages,     \* ab_stage
          EpiStages,    \* epi_stage: buffers of D
          CStages,      \* epi_c_stage: buffers of C, 0 without C
          EpiTiles,     \* c_tile_cnt, epi_tile_num
          SchedStages,  \* sched_stage, slots of the scheduler pipeline
          Shapes        \* the tiles of the CTA, see below

\* A shape: varlenK, the k tiles of each tile of the CTA, and the static count
\* that the code uses without varlen_k.  With varlen_k the CTA has a tile,
\* which the persistent grid (at most one CTA for each tile) guarantees.
ASSUME PingpongAssumption ==
  /\ {ABStages, EpiStages, EpiTiles} \subseteq Nat \ {0}
  /\ SchedStages \in Nat \ {0, 1}   \* 2 in pingpong mode
  /\ CStages \in Nat
  /\ \A p \in Shapes :
       /\ p.varlenK \in BOOLEAN
       /\ p.staticK \in Nat \ {0}
       /\ p.kTiles \in Seq(Nat)
       /\ p.varlenK => p.kTiles # <<>>
       /\ ~p.varlenK => \A t \in DOMAIN p.kTiles : p.kTiles[t] = p.staticK

WG == {0, 1}
Invalid == 0     \* a work tile that is not valid; the tiles are 1, 2, ...
Nothing == <<>>  \* content of a buffer that is torn or was never filled

-----------------------------------------------------------------------------
(* Pipeline states and barriers.                                            *)

\* make_pipeline_state
Producer == [index |-> 0, phase |-> 1]
Consumer == [index |-> 0, phase |-> 0]

AdvanceItersOnce(s, n, stages) ==
  [index |-> (s.index + n) % stages,
   phase |-> IF s.index + n >= stages THEN 1 - s.phase ELSE s.phase]

\* advance_iters.  The code XORs the whole number of crossings into the phase;
\* a wait looks at the low bit only.
AdvanceIters(s, n, stages) ==
  [index |-> (s.index + n) % stages,
   phase |-> (s.phase + (s.index + n) \div stages) % 2]

\* PipelineState.advance
Advance(s, stages) == AdvanceIters(s, 1, stages)

\* mbarrier wait on a parity: passes unless that phase is the current one.
Passed(bar, s) == bar # s.phase
Flip(bar) == 1 - bar

\* Stages of a TMA pipeline, loads under way included, and scheduler slots
\* with the releases that are still missing.
EmptyStage == [data |-> Nothing, coming |-> Nothing, full |-> 0, empty |-> 0]
EmptySlot(n) == [data |-> Invalid, full |-> 0, empty |-> 0, missing |-> n]

-----------------------------------------------------------------------------
VARIABLES
  shape,   \* the tiles of this CTA
  load,    \* the load warp, which is the scheduler warp too
  wg,      \* wg[g]: the math warp groups
  ab,      \* ab[s]: stages of A and B
  cs,      \* cs[s]: stages of C
  slot,    \* slot[s]: the scheduler pipeline
  turn,    \* turn[kind][g]: pending arrivals on the named barriers
  dbuf,    \* dbuf[b]: content of the D buffers
  stores,  \* stores[g]: the bulk stores of g that are not known to be read
  out      \* subtiles of D that are stored

vars == <<shape, load, wg, ab, cs, slot, turn, dbuf, stores, out>>

Tiles == Len(shape.kTiles)
KCount(t) == shape.kTiles[t]

\* initial_work_tile_info, and the tile behind t.
FirstTile == IF Tiles > 0 THEN 1 ELSE Invalid
TileAfter(t) == IF t < Tiles THEN t + 1 ELSE Invalid

\* make_sched_pipeline: one warp group for each round, or with varlen_k both,
\* and the load warp.
SchedArrivals(varlenK) == (IF varlenK THEN 2 ELSE 1) + 1

Init ==
  /\ shape \in Shapes
  /\ load = [pc |-> IF FirstTile # Invalid THEN "load" ELSE IF shape.varlenK THEN "tail" ELSE "last",
             tile |-> FirstTile, k |-> 0, st |-> Producer, sched |-> Consumer]
  /\ wg = [g \in WG |-> [pc |-> "start", tile |-> FirstTile, k |-> 0, flight |-> 0, e |-> 0,
                         executed |-> 0, ab |-> Consumer, rel |-> Consumer,
                         cRead |-> Consumer, cLoad |-> Producer, sched |-> Consumer]]
  /\ ab = [s \in 0 .. ABStages - 1 |-> EmptyStage]
  /\ cs = [s \in 0 .. CStages - 1 |-> EmptyStage]
  /\ slot = [s \in 0 .. SchedStages - 1 |-> EmptySlot(SchedArrivals(shape.varlenK))]
  /\ turn = [x \in {"mma", "epi"} |-> [g \in WG |-> 0]]
  /\ dbuf = [b \in 0 .. EpiStages - 1 |-> Nothing]
  /\ stores = [g \in WG |-> <<>>]
  /\ out = {}

-----------------------------------------------------------------------------
(* Operations on the pipelines.                                             *)

\* producer_acquire and the TMA load of an item; consumer_release.
Started(st, item) == [st EXCEPT !.data = Nothing, !.coming = item]
Released(st) == [st EXCEPT !.empty = Flip(@)]

\* get_current_work: what the slot of s holds, once it is full.
SlotFull(s) == Passed(slot[s.index].full, s)
ReadOnce(st) ==
  IF st.missing = 1
    THEN [st EXCEPT !.missing = SchedArrivals(shape.varlenK), !.empty = Flip(@)]
    ELSE [st EXCEPT !.missing = @ - 1]
Take(s) == slot' = [slot EXCEPT ![s.index] = ReadOnce(@)]
AdvanceC(s, n) == IF CStages = 0 THEN s ELSE AdvanceIters(s, n, CStages)

\* pingpong_barrier_arrive, pingpong_barrier_sync
Arrive(kind, g) == turn' = [turn EXCEPT ![kind][g] = @ + 1]
Sync(kind, g) ==
  /\ turn[kind][g] > 0
  /\ turn' = [turn EXCEPT ![kind][g] = @ - 1]

-----------------------------------------------------------------------------
(* The load warp.                                                           *)

\* load_tma, one k tile.
LoadK ==
  /\ load.pc = "load"
  /\ load.k < KCount(load.tile)
  /\ Passed(ab[load.st.index].empty, load.st)
  /\ ab' = [ab EXCEPT ![load.st.index] = Started(@, <<load.tile, load.k>>)]
  /\ load' = [load EXCEPT !.k = @ + 1, !.st = Advance(@, ABStages)]
  /\ UNCHANGED <<shape, wg, cs, slot, turn, dbuf, stores, out>>

\* write_work_tile_to_smem; its producer phase is the consumer phase ^ 1.
WriteTile(tile, next) ==
  LET s == load.sched
  IN  /\ Passed(slot[s.index].empty, [s EXCEPT !.phase = 1 - @])
      /\ slot' = [slot EXCEPT ![s.index].data = tile, ![s.index].full = Flip(@)]
      /\ load' = [load EXCEPT !.pc = next]
      /\ UNCHANGED <<shape, wg, ab, cs, turn, dbuf, stores, out>>

\* advance_to_next_work of the scheduler warp.
Fetch ==
  /\ load.pc = "load"
  /\ load.k = KCount(load.tile)
  /\ WriteTile(TileAfter(load.tile), "take")

LastSkipped ==
  /\ load.pc = "last"
  /\ load' = [load EXCEPT !.pc = "tail"]
  /\ UNCHANGED <<shape, wg, ab, cs, slot, turn, dbuf, stores, out>>

\* The invalid tile once more, for the other warp group.
WriteLast == load.pc = "last" /\ WriteTile(load.tile, "takeLast")

\* get_current_work of the load warp.
LoadTake ==
  /\ load.pc \in {"take", "takeLast"}
  /\ SlotFull(load.sched)
  /\ Take(load.sched)
  /\ LET t == slot[load.sched.index].data
     IN  load' = [load EXCEPT
                    !.tile = t, !.k = 0, !.sched = Advance(@, SchedStages),
                    !.pc = IF t # Invalid THEN "load"
                           ELSE IF load.pc = "take" /\ ~shape.varlenK THEN "last" ELSE "tail"]
  /\ UNCHANGED <<shape, wg, ab, cs, turn, dbuf, stores, out>>

\* producer_tail of both pipelines: the state moves to the last stage used, and
\* waits for it to be empty.
LoadTail ==
  LET a == AdvanceIters(load.st, ABStages - 1, ABStages)
      p == AdvanceIters([load.sched EXCEPT !.phase = 1 - @], SchedStages - 1, SchedStages)
  IN  /\ \/ /\ load.pc = "tail"
            /\ Passed(ab[a.index].empty, a)
            /\ load' = [load EXCEPT !.pc = "schedTail"]
         \/ /\ load.pc = "schedTail"
            /\ Passed(slot[p.index].empty, p)
            /\ load' = [load EXCEPT !.pc = "done"]
      /\ UNCHANGED <<shape, wg, ab, cs, slot, turn, dbuf, stores, out>>

LoadStep == LoadK \/ Fetch \/ WriteLast \/ LoadTake \/ LoadTail

-----------------------------------------------------------------------------
(* The math warp groups: start, and the tiles they take and skip.           *)

NextPc(t) == IF t = Invalid THEN "done" ELSE "mmaSync"

\* WG0 needs a start signal.
StartFirst ==
  /\ wg[0].pc = "start"
  /\ turn' = [x \in {"mma", "epi"} |-> [turn[x] EXCEPT ![0] = @ + 1]]
  /\ wg' = [wg EXCEPT ![0].pc = NextPc(wg[0].tile)]
  /\ UNCHANGED <<shape, load, ab, cs, slot, dbuf, stores, out>>

\* The k tiles by which a warp group's A/B state has to pass tile t.
SkippedK(t) == IF shape.varlenK THEN KCount(t) ELSE shape.staticK

\* WG1 moves its states past the first tile.
StartSecond ==
  /\ wg[1].pc = "start"
  /\ wg' = [wg EXCEPT ![1].pc = "take", ![1].executed = @ + 1,
                      ![1].ab = AdvanceIters(@, SkippedK(FirstTile), ABStages),
                      ![1].cRead = AdvanceC(@, EpiTiles), ![1].cLoad = AdvanceC(@, EpiTiles)]
  /\ UNCHANGED <<shape, load, ab, cs, slot, turn, dbuf, stores, out>>

\* With varlen_k: the tile of the other warp group has to be read as well.
SkipTake(g) ==
  LET s == wg[g].sched
      t == slot[s.index].data
  IN  /\ wg[g].pc = "skip"
      /\ SlotFull(s)
      /\ Take(s)
      /\ wg' = [wg EXCEPT ![g].sched = Advance(@, SchedStages),
                  ![g].pc = IF t = Invalid THEN "done" ELSE "take",
                  ![g].ab = IF t = Invalid THEN @ ELSE AdvanceIters(@, KCount(t), ABStages),
                  ![g].executed = IF t = Invalid THEN @ ELSE @ + 1]
      /\ UNCHANGED <<shape, load, ab, cs, turn, dbuf, stores, out>>

\* get_current_work for the warp group's own next tile.
OwnTake(g) ==
  LET s == wg[g].sched
      t == slot[s.index].data
  IN  /\ wg[g].pc = "take"
      /\ SlotFull(s)
      /\ Take(s)
      /\ wg' = [wg EXCEPT ![g].sched = Advance(@, SchedStages),
                          ![g].tile = t, ![g].pc = NextPc(t)]
      /\ UNCHANGED <<shape, load, ab, cs, turn, dbuf, stores, out>>

-----------------------------------------------------------------------------
(* The mainloop (mma).                                                      *)

\* Wait for the turn.
MmaSync(g) ==
  /\ wg[g].pc = "mmaSync"
  /\ Sync("mma", g)
  /\ wg' = [wg EXCEPT ![g].pc = "mma", ![g].k = 0, ![g].rel = wg[g].ab]
  /\ UNCHANGED <<shape, load, ab, cs, slot, dbuf, stores, out>>

\* One wgmma is issued; it reads its stage until it has been waited for.
Issue(g) ==
  /\ wg[g].pc = "mma"
  /\ wg[g].k < KCount(wg[g].tile)
  /\ wg[g].flight < 2
  /\ Passed(ab[wg[g].ab.index].full, wg[g].ab)
  /\ wg' = [wg EXCEPT ![g].k = @ + 1, ![g].flight = @ + 1, ![g].ab = Advance(@, ABStages)]
  /\ UNCHANGED <<shape, load, ab, cs, slot, turn, dbuf, stores, out>>

\* consumer_release of the oldest stage, after its wgmma is complete.
ReleaseOldest(g) ==
  /\ ab' = [ab EXCEPT ![wg[g].rel.index] = Released(@)]
  /\ wg' = [wg EXCEPT ![g].flight = @ - 1, ![g].rel = Advance(@, ABStages),
                      ![g].pc = IF @ = "drain" THEN "epiSync" ELSE @]
  /\ UNCHANGED <<shape, load, cs, slot, turn, dbuf, stores, out>>

\* wait_group(1) behind each wgmma but the first.
ReleaseOlder(g) == wg[g].pc = "mma" /\ wg[g].flight = 2 /\ ReleaseOldest(g)

\* Everything is issued: the other warp group may start its mainloop.
HandOver(g) ==
  /\ wg[g].pc = "mma"
  /\ wg[g].k = KCount(wg[g].tile)
  /\ wg[g].flight < 2
  /\ Arrive("mma", 1 - g)
  /\ wg' = [wg EXCEPT ![g].pc = IF wg[g].flight = 0 THEN "epiSync" ELSE "drain"]
  /\ UNCHANGED <<shape, load, ab, cs, slot, dbuf, stores, out>>

Drain(g) == wg[g].pc = "drain" /\ ReleaseOldest(g)

-----------------------------------------------------------------------------
(* The epilogue.                                                            *)

SmallerOf(a, b) == IF a < b THEN a ELSE b

\* Subtile g works on; where the epilogue goes for subtile e.
Subtile(g) == <<wg[g].tile, wg[g].e>>
SubtilePc == IF CStages > 0 THEN "readC" ELSE "acquire"

EpiSync(g) ==
  /\ wg[g].pc = "epiSync"
  /\ Sync("epi", g)
  /\ wg' = [wg EXCEPT ![g].pc = IF CStages > 0 THEN "prefetch" ELSE SubtilePc, ![g].e = 0]
  /\ UNCHANGED <<shape, load, ab, cs, slot, dbuf, stores, out>>

\* producer_acquire and TMA load of subtile e of C, by the TMA warp of g.
LoadC(g, e) ==
  /\ Passed(cs[wg[g].cLoad.index].empty, wg[g].cLoad)
  /\ cs' = [cs EXCEPT ![wg[g].cLoad.index] = Started(@, <<wg[g].tile, e>>)]

Prefetch(g) ==
  LET last == wg[g].e + 1 = SmallerOf(EpiTiles, CStages)
  IN  /\ wg[g].pc = "prefetch"
      /\ LoadC(g, wg[g].e)
      /\ wg' = [wg EXCEPT ![g].cLoad = AdvanceC(@, 1), ![g].e = IF last THEN 0 ELSE @ + 1,
                          ![g].pc = IF last THEN SubtilePc ELSE @]
      /\ UNCHANGED <<shape, load, ab, slot, turn, dbuf, stores, out>>

\* consumer_wait, copy to registers, consumer_release.
ReadC(g) ==
  /\ wg[g].pc = "readC"
  /\ Passed(cs[wg[g].cRead.index].full, wg[g].cRead)
  /\ cs' = [cs EXCEPT ![wg[g].cRead.index] = Released(@)]
  /\ wg' = [wg EXCEPT ![g].cRead = AdvanceC(@, 1),
                      ![g].pc = IF wg[g].e + CStages < EpiTiles THEN "refill" ELSE "acquire"]
  /\ UNCHANGED <<shape, load, ab, slot, turn, dbuf, stores, out>>

\* The load that is CStages subtiles ahead.
Refill(g) ==
  /\ wg[g].pc = "refill"
  /\ LoadC(g, wg[g].e + CStages)
  /\ wg' = [wg EXCEPT ![g].cLoad = AdvanceC(@, 1), ![g].pc = "acquire"]
  /\ UNCHANGED <<shape, load, ab, slot, turn, dbuf, stores, out>>

\* wait_group(n, read=True) on the bulk stores of g: all but the last n have
\* read their buffers.
AllButRead(g, n) == \A i \in 1 .. Len(stores[g]) - n : stores[g][i].read
LastOnes(g, n) == SubSeq(stores[g], Len(stores[g]) - SmallerOf(n, Len(stores[g])) + 1, Len(stores[g]))

WaitStores(g, n) ==
  /\ AllButRead(g, n)
  /\ stores' = [stores EXCEPT ![g] = LastOnes(g, n)]

\* producer_acquire of the store pipeline.
AcquireD(g) ==
  /\ wg[g].pc = "acquire"
  /\ WaitStores(g, EpiStages - 1)
  /\ wg' = [wg EXCEPT ![g].pc = "write"]
  /\ UNCHANGED <<shape, load, ab, cs, slot, turn, dbuf, out>>

EpiBuffer(g) == (wg[g].executed * EpiTiles + wg[g].e) % EpiStages

\* Registers to SMEM, fence, and the store of the buffer is issued.
WriteD(g) ==
  LET last == wg[g].e + 1 = EpiTiles
  IN  /\ wg[g].pc = "write"
      /\ dbuf' = [dbuf EXCEPT ![EpiBuffer(g)] = Subtile(g)]
      /\ stores' = [stores EXCEPT ![g] = Append(@, [dst |-> Subtile(g), buf |-> EpiBuffer(g), read |-> FALSE])]
      /\ wg' = [wg EXCEPT ![g].e = @ + 1, ![g].pc = IF last THEN "storeTail" ELSE SubtilePc]
      /\ UNCHANGED <<shape, load, ab, cs, slot, turn, out>>

StoreTailBehind(g) == WaitStores(g, 1)
\* producer_tail of the store pipeline.
StoreTail(g) == WaitStores(g, 0)

\* The other warp group's epilogue may start; this one passes over the tile of
\* the other, all of it at once without varlen_k.
Finish(g) ==
  /\ wg[g].pc = "storeTail"
  /\ StoreTail(g)
  /\ Arrive("epi", 1 - g)
  /\ LET w == [wg[g] EXCEPT !.cRead = AdvanceC(@, EpiTiles), !.cLoad = AdvanceC(@, EpiTiles)]
     IN  wg' = [wg EXCEPT ![g] =
           IF shape.varlenK
             THEN [w EXCEPT !.pc = "skip", !.executed = @ + 1]
             ELSE [w EXCEPT !.pc = "take", !.executed = @ + 2,
                            !.ab = AdvanceIters(@, shape.staticK, ABStages),
                            !.sched = Advance(@, SchedStages)]]
  /\ UNCHANGED <<shape, load, ab, cs, slot, dbuf, out>>

Start(g) == IF g = 0 THEN StartFirst ELSE StartSecond
Mainloop(g) == MmaSync(g) \/ Issue(g) \/ ReleaseOlder(g) \/ HandOver(g) \/ Drain(g)
Epilogue(g) == EpiSync(g) \/ Prefetch(g) \/ ReadC(g) \/ Refill(g) \/ AcquireD(g) \/ WriteD(g) \/ Finish(g)
WgStep(g) == Start(g) \/ OwnTake(g) \/ SkipTake(g) \/ Mainloop(g) \/ Epilogue(g)

-----------------------------------------------------------------------------
(* The TMA unit: loads land and stores read, in any order.                  *)

Landed(st) == [st EXCEPT !.data = st.coming, !.coming = Nothing, !.full = Flip(@)]

LandAB(s) ==
  /\ ab[s].coming # Nothing
  /\ ab' = [ab EXCEPT ![s] = Landed(@)]
  /\ UNCHANGED <<shape, load, wg, cs, slot, turn, dbuf, stores, out>>

LandC(s) ==
  /\ cs[s].coming # Nothing
  /\ cs' = [cs EXCEPT ![s] = Landed(@)]
  /\ UNCHANGED <<shape, load, wg, ab, slot, turn, dbuf, stores, out>>

\* Store i of g reads its buffer.
ReadStore(g, i) ==
  /\ i \in DOMAIN stores[g]
  /\ ~stores[g][i].read
  /\ stores' = [stores EXCEPT ![g][i].read = TRUE]
  /\ out' = out \cup {stores[g][i].dst}
  /\ UNCHANGED <<shape, load, wg, ab, cs, slot, turn, dbuf>>

Store == 1 .. EpiStages

TmaStep ==
  \/ \E s \in 0 .. ABStages - 1 : LandAB(s)
  \/ \E s \in 0 .. CStages - 1 : LandC(s)
  \/ \E g \in WG, i \in Store : ReadStore(g, i)

Next == LoadStep \/ (\E g \in WG : WgStep(g)) \/ TmaStep

Spec == Init /\ [][Next]_vars

\* Warps and warp groups keep running, every transfer ends.
Fairness ==
  /\ WF_vars(LoadStep)
  /\ \A g \in WG : WF_vars(WgStep(g))
  /\ \A s \in 0 .. ABStages - 1 : WF_vars(LandAB(s))
  /\ \A s \in 0 .. CStages - 1 : WF_vars(LandC(s))
  /\ \A g \in WG, i \in Store : WF_vars(ReadStore(g, i))

FairSpec == Spec /\ Fairness

-----------------------------------------------------------------------------
\* The stage of g's n-th k tile in flight, counted from the oldest.
InFlight(g, n) == AdvanceIters(wg[g].rel, n, ABStages).index

(***************************************************************************)
(* Every wgmma of a warp group that is still running reads the k tile it   *)
(* was issued for: no wait on a parity bit passes a lap early, and no      *)
(* stage is handed back to the load warp while it is read.                 *)
(***************************************************************************)
MmaReadsOwnTile ==
  \A g \in WG : \A n \in 0 .. wg[g].flight - 1 :
    ab[InFlight(g, n)].data = <<wg[g].tile, wg[g].k - wg[g].flight + n>>

(***************************************************************************)
(* The shared epilogue buffers: a warp group that gets past its wait finds *)
(* C of its own subtile, and no D buffer is overwritten, by either warp    *)
(* group, before its store has read it.                                    *)
(***************************************************************************)
EpilogueBuffersSafe ==
  \A g \in WG :
    /\ wg[g].pc = "readC" /\ Passed(cs[wg[g].cRead.index].full, wg[g].cRead)
         => cs[wg[g].cRead.index].data = Subtile(g)
    /\ \A i \in DOMAIN stores[g] :
         ~stores[g][i].read => dbuf[stores[g][i].buf] = stores[g][i].dst

(***************************************************************************)
(* The CTA ends, whichever warp group has the last tile, and the output of *)
(* every tile has been stored.                                             *)
(***************************************************************************)
Finished == load.pc = "done" /\ \A g \in WG : wg[g].pc = "done"

AllTilesStored == <>[](Finished /\ out = (1 .. Tiles) \X (0 .. EpiTiles - 1))

-----------------------------------------------------------------------------
(* The inductive invariant behind the two safety properties.  What goes     *)
(* through a ring is numbered, and a pipeline state is a place in it.       *)

At(p, stages, phase) == [index |-> p % stages, phase |-> (phase + p \div stages) % 2]

\* The k tiles of tile t; behind the last tile, those that are skipped anyway.
KTiles(t) == IF t <= Tiles THEN KCount(t) ELSE shape.staticK

\* The k tiles before tile t, and the place of a k tile among all.
Before(t) == Cardinality(UNION {{u} \X (0 .. KTiles(u) - 1) : u \in 1 .. t - 1})
Items == UNION {{t} \X (0 .. KTiles(t) - 1) : t \in 1 .. Tiles}
Pos(x) == Before(x[1]) + x[2]

\* A warp group has every other tile.  The tile it is at or passes over, and
\* its own next tile to finish.
Owner(t) == (t + 1) % 2
Pass(g) == wg[g].executed + 1
Own(g) == IF Owner(Pass(g)) = g THEN Pass(g) ELSE Pass(g) + 1

EpiPlace == {"prefetch", "readC", "refill", "acquire", "write", "storeTail"}
Behind == {"drain", "epiSync"} \cup EpiPlace    \* the mainloop is issued
Busy == {"mma"} \cup Behind
Idle == {"start", "skip", "take", "mmaSync", "done"}

\* The next tile that g multiplies, and that any warp group does.
Mul(g) == IF wg[g].pc \in Behind THEN Own(g) + 2 ELSE Own(g)
NextMul == SmallerOf(Mul(0), Mul(1))
NextOwn == SmallerOf(Own(0), Own(1))

\* How many k tiles are issued to the tensor cores and loaded, how many tiles
\* the load warp has taken and written.
Issued ==
  LET w == wg[Owner(NextMul)]
  IN  Before(NextMul) + (IF w.pc = "mma" THEN w.k ELSE 0)
Loaded == IF load.tile = Invalid THEN Before(Tiles + 1) ELSE Before(load.tile) + load.k
Taken ==
  IF load.tile # Invalid THEN load.tile - 1
  ELSE IF load.pc \in {"last", "takeLast"} \/ shape.varlenK THEN Tiles ELSE Tiles + 1
Written == IF load.pc \in {"take", "takeLast"} THEN Taken + 1 ELSE Taken

\* Warp group g's place in the rings of A/B and of the scheduler.
AbPos(g) == Before(Pass(g)) + (IF wg[g].pc \in Busy THEN wg[g].k ELSE 0)
SchedPos(g) == wg[g].executed - (IF wg[g].pc \in {"skip", "take"} THEN 1 ELSE 0)

IsFree(x) ==
  LET w == wg[Owner(x[1])]
  IN  \/ x[1] <= w.executed
      \/ x[1] = w.executed + 1 /\ w.pc \in Busy /\ x[2] < w.k - w.flight

PipeState == [index : Nat, phase : {0, 1}]
LoadState ==
  [pc : {"load", "take", "last", "takeLast", "tail", "schedTail", "done"},
   tile : 0 .. Tiles, k : Nat, st : PipeState, sched : PipeState]
WgState ==
  [pc : Busy \cup Idle, tile : 0 .. Tiles, k : Nat, flight : Nat, e : Nat, executed : Nat,
   ab : PipeState, rel : PipeState, cRead : PipeState, cLoad : PipeState, sched : PipeState]
Content == (Nat \X Nat) \cup {Nothing}
Stage == [data : Content, coming : Content, full : {0, 1}, empty : {0, 1}]
Slot == [data : 0 .. Tiles, full : {0, 1}, empty : {0, 1}, missing : Nat]

TypeOK ==
  /\ shape \in Shapes
  /\ load \in LoadState
  /\ wg \in [WG -> WgState]
  /\ ab \in [0 .. ABStages - 1 -> Stage]
  /\ cs \in [0 .. CStages - 1 -> Stage]
  /\ slot \in [0 .. SchedStages - 1 -> Slot]
  /\ turn \in [{"mma", "epi"} -> [WG -> Nat]]
  /\ dbuf \in [0 .. EpiStages - 1 -> Content]
  /\ stores \in [WG -> Seq([dst : Nat \X Nat, buf : 0 .. EpiStages - 1, read : BOOLEAN])]
  /\ out \in SUBSET (Nat \X Nat)

\* Where a warp group is, and its pipeline states.
WgOK(g) ==
  LET w == wg[g]
  IN  /\ w.pc = "start" => w.executed = 0 /\ w.tile = FirstTile
      /\ w.pc = "skip" => shape.varlenK /\ Owner(Pass(g)) # g
      /\ w.pc \in {"take", "mmaSync"} \cup Busy => Owner(Pass(g)) = g
      /\ w.pc \in {"skip", "take"} => w.executed > 0
      /\ w.pc \in {"mmaSync"} \cup Busy => w.tile = Pass(g) /\ w.tile # Invalid
      /\ w.pc \in Busy => w.k <= KTiles(Pass(g)) /\ w.flight <= w.k
      /\ w.pc \in Behind => w.k = KTiles(Pass(g))
      /\ w.flight > 0 => w.pc \in {"mma", "drain"}
      /\ w.pc = "drain" => w.flight = 1
      /\ w.ab = At(AbPos(g), ABStages, 0)
      /\ w.pc \in {"mma", "drain"} => w.rel = At(AbPos(g) - w.flight, ABStages, 0)
      /\ w.sched = At(SchedPos(g), SchedStages, 0)
      /\ SchedPos(g) <= Written + (IF w.pc = "take" /\ ~shape.varlenK THEN 1 ELSE 0)

LoadOK ==
  /\ load.pc \in {"load", "take"} <=> load.tile # Invalid
  /\ load.tile # Invalid => load.k <= KTiles(load.tile)
  /\ load.pc = "take" => load.k = KTiles(load.tile)
  /\ load.pc \in {"last", "takeLast"} => ~shape.varlenK
  /\ load.st = At(Loaded, ABStages, 1)
  /\ load.sched = At(Taken, SchedStages, 0)

\* The turns: who has one is next, and the other has the tile behind it.
HasMma(g) == turn["mma"][g] = 1 \/ wg[g].pc = "mma"
HasEpi(g) == turn["epi"][g] = 1 \/ wg[g].pc \in EpiPlace
TurnOK ==
  /\ Mul(1) = Mul(0) + 1 \/ Mul(0) = Mul(1) + 1
  /\ Own(1) = Own(0) + 1 \/ Own(0) = Own(1) + 1
  /\ \A g \in WG :
       /\ turn["mma"][g] <= 1 /\ turn["epi"][g] <= 1
       /\ HasMma(g) => Mul(1 - g) = Mul(g) + 1
       /\ HasEpi(g) => Own(1 - g) = Own(g) + 1
       /\ wg[g].pc = "mma" => turn["mma"][g] = 0
       /\ wg[g].pc \in EpiPlace => turn["epi"][g] = 0
       /\ wg[0].pc = "start" => ~HasMma(g) /\ ~HasEpi(g) /\ Mul(1) = 2

\* A stage in the lap in which it holds an item: freed or not, and loaded or,
\* unless it is due, under way.
StageOK(st, item, lap, freed, due) ==
  /\ st.empty = (IF freed THEN lap + 1 ELSE lap) % 2
  /\ \/ st.coming = Nothing /\ st.data = item /\ st.full = (lap + 1) % 2
     \/ ~due /\ st.coming = item /\ st.full = lap % 2

\* The ring of A/B: the newest ABStages items are in it, the older ones released.
AbOK ==
  /\ Issued <= Loaded
  /\ \A s \in 0 .. ABStages - 1 : s >= Loaded => ab[s] = EmptyStage
  /\ \A x \in Items :
       LET p == Pos(x)
       IN  /\ p < Loaded - ABStages => IsFree(x)
           /\ p \in Loaded - ABStages .. Loaded - 1 =>
                StageOK(ab[p % ABStages], x, p \div ABStages, IsFree(x), p < Issued)

\* The scheduler's ring.  The warp groups that read write n, and the reads that
\* are missing.
Readers(n) == IF shape.varlenK THEN WG ELSE {Owner(n)}
Waits(g, n) == IF g \in Readers(n) /\ SchedPos(g) <= n THEN 1 ELSE 0
Missing(n) == Waits(0, n) + Waits(1, n) + (IF Taken <= n THEN 1 ELSE 0)
TileOf(n) == IF n + 2 <= Tiles THEN n + 2 ELSE Invalid

SchedOK ==
  /\ \A s \in 0 .. SchedStages - 1 : s >= Written => slot[s] = EmptySlot(SchedArrivals(shape.varlenK))
  /\ \A n \in 0 .. Written - 1 :
       /\ n < Written - SchedStages => Missing(n) = 0
       /\ n >= Written - SchedStages =>
            slot[n % SchedStages] =
              [data |-> TileOf(n), full |-> (n \div SchedStages + 1) % 2,
               empty |-> (IF Missing(n) = 0 THEN n \div SchedStages + 1 ELSE n \div SchedStages) % 2,
               missing |-> IF Missing(n) = 0 THEN SchedArrivals(shape.varlenK) ELSE Missing(n)]

\* Subtiles of C that g has loaded and read in its epilogue.
CLoaded(g) ==
  LET w == wg[g]
  IN  CASE w.pc = "prefetch" -> w.e
        [] w.pc \in {"readC", "storeTail"} -> SmallerOf(EpiTiles, w.e + CStages)
        [] w.pc = "refill" -> w.e + CStages
        [] w.pc \in {"acquire", "write"} -> SmallerOf(EpiTiles, w.e + 1 + CStages)
        [] OTHER -> 0
CDone(g) ==
  LET w == wg[g]
  IN  CASE w.pc \in {"readC", "storeTail"} -> w.e
        [] w.pc \in {"refill", "acquire", "write"} -> w.e + 1
        [] OTHER -> 0

CBase(g) == IF wg[g].pc = "start" THEN 0 ELSE (Own(g) - 1) * EpiTiles
CItem(p) == <<p \div EpiTiles + 1, p % EpiTiles>>

EpiOK(g) ==
  LET w == wg[g]
  IN  /\ w.pc \in {"prefetch", "readC", "refill"} => CStages > 0
      /\ w.pc = "prefetch" => w.e < SmallerOf(EpiTiles, CStages)
      /\ w.pc \in {"readC", "refill", "acquire", "write"} => w.e < EpiTiles
      /\ w.pc = "refill" => w.e + CStages < EpiTiles
      /\ w.pc = "storeTail" => w.e = EpiTiles
      /\ CStages > 0 => /\ w.cRead = At(CBase(g) + CDone(g), CStages, 0)
                        /\ w.cLoad = At(CBase(g) + CLoaded(g), CStages, 1)

\* The ring of C, which the warp group in its epilogue has for itself.
COK ==
  CStages > 0 =>
    LET g == Owner(NextOwn)
        loaded == (NextOwn - 1) * EpiTiles + CLoaded(g)
        done == (NextOwn - 1) * EpiTiles + CDone(g)
    IN  /\ \A s \in 0 .. CStages - 1 : s >= loaded => cs[s] = EmptyStage
        /\ \A p \in 0 .. loaded - 1 :
             p >= loaded - CStages =>
               StageOK(cs[p % CStages], CItem(p), p \div CStages, p < done, p < done)

\* The stores of g that may not have read their buffers are those of its last
\* subtiles.
StoresOK(g) ==
  LET w == wg[g]
      n == Len(stores[g])
  IN  /\ w.pc \notin EpiPlace \ {"prefetch"} => n = 0
      /\ n <= w.e
      /\ n <= EpiStages - (IF w.pc = "write" THEN 1 ELSE 0)
      /\ \A i \in 1 .. n :
           /\ stores[g][i].dst = <<Pass(g), w.e - n + i - 1>>
           /\ stores[g][i].buf = (w.executed * EpiTiles + w.e - n + i - 1) % EpiStages
           /\ ~stores[g][i].read => dbuf[stores[g][i].buf] = stores[g][i].dst

PingpongInv ==
  /\ \A g \in WG : WgOK(g) /\ EpiOK(g) /\ StoresOK(g)
  /\ LoadOK
  /\ TurnOK
  /\ AbOK
  /\ SchedOK
  /\ COK
=============================================================================
