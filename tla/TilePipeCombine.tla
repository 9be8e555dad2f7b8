--------------------------- MODULE TilePipeCombine ---------------------------
(***************************************************************************)
(* GEMM and combine overlapped (examples/distributed/                      *)
(* tilepipe_gemm_combine.py with CombineTmaKernel of moe_comm.py): on      *)
(* every rank the publishing GEMM of GemmTilePublish runs beside a gated   *)
(* combine, which pulls the expert-output rows of its tokens from the      *)
(* ranks that compute them.  A combine CTA has one producer warp, which    *)
(* gates a token and then streams the chunks of its rows through a ring of *)
(* SMEM stages, and consumer threads, which add them up.  The hosts reset  *)
(* the flags, meet at a barrier, launch, and wait for their own GPU only.  *)
(*                                                                         *)
(* Both kernels are resident (the GEMM is capped to the SMs that the       *)
(* combine leaves); PipelineTmaAsync is abstracted to its full and empty   *)
(* conditions, and an item is one (token, chunk, choice) of a CTA.         *)
(***************************************************************************)
EXTENDS GemmTilePublish

ASSUME CombineAssumption ==
  \A p \in Shapes :
    /\ {p.ctas, p.chunks, p.stages, p.threads, p.iters} \subseteq Nat \ {0}
    /\ p.pulls \in BOOLEAN
    /\ ~p.pulls => p.iters = 1    \* with nobody to wait for, one launch
    /\ \A r \in Rank : Len(p.topk[r]) % TopK = 0

VARIABLES
  host,    \* host[r]: "reset", "barrier", "run" or "end"
  iter,    \* iter[r]: the iteration rank r runs or has run, 0 before the first
  gateIdx, \* gateIdx[r]: flag_idx, by token and choice
  block,   \* block[r]: the row block <<d, b, m>> behind each choice
  tilesOf, \* tilesOf[<<d, b, m>>]: the CTAs' work tiles that make up a row block
  gated,   \* gated[r][k]: tokens whose gate the producer warp of CTA k has passed
  issued,  \* issued[r][k]: bulk copies it has issued
  landed,  \* landed[r][k]: those that have filled their stage
  smem,    \* smem[r][k][s]: the item in a stage, -1 for anything else
  added,   \* added[r][k][t]: items consumer thread t has accumulated
  wrong    \* ranks on which a thread has accumulated anything but its item

tables == <<gateIdx, block, tilesOf>>
hostVars == <<host, iter, tables>>
ringVars == <<gated, issued, landed, smem, added, wrong>>
combineVars == <<vars, hostVars, ringVars>>

Combiner == 1 .. shape.ctas
Consumer == 1 .. shape.threads
AnyCombiner == 1 .. CHOOSE n \in {p.ctas : p \in Shapes} : \A p \in Shapes : p.ctas <= n
AnyConsumer == 1 .. CHOOSE n \in {p.threads : p \in Shapes} : \A p \in Shapes : p.threads <= n

\* token = bidx, bidx + cta_nums, ...
TokensOf(r, k) ==
  IF shape.pulls THEN Share(Len(shape.topk[r]) \div TopK, k - 1, shape.ctas) ELSE 0
ItemsPerToken == shape.chunks * TopK
ItemsOf(r, k) == TokensOf(r, k) * ItemsPerToken

TokenOf(k, i) == (k - 1) + shape.ctas * (i \div ItemsPerToken)
ChunkOf(i) == (i \div TopK) % shape.chunks

\* The position of item i in the rank's routing: its token, then its choice.
ChoiceOf(k, i) == TokenOf(k, i) * TopK + (i % TopK) + 1

\* The row block of choice j of rank r: its slot, cut into tiles by expert.
BlockOf(r, j) ==
  LET g == shape.topk[r][j]
      d == DstOf(g)
      b == LocalOf(g)
  IN  <<d, b, (Slot(shape.topk, r, j) - CuSeqlens(shape.topk, d, b)) \div TileM>>

Blocks == UNION {{<<d, b, m>> : m \in 0 .. MTilesOf(shape, d, b) - 1} : d \in Rank, b \in Expert}

\* A work tile: the CTA and its place in the CTA's work.
WorkTiles == UNION {{c} \X DOMAIN work[c] : c \in Cta}
Tile(t) == work[t[1]][t[2]]
WorkTilesOf(x) ==
  {t \in WorkTiles : <<t[1][1], Tile(t).batch, Tile(t).m>> = x /\ Tile(t).n < NTiles}

FreshRing(r) ==
  /\ gated' = [gated EXCEPT ![r] = [k \in Combiner |-> 0]]
  /\ issued' = [issued EXCEPT ![r] = [k \in Combiner |-> 0]]
  /\ landed' = [landed EXCEPT ![r] = [k \in Combiner |-> {}]]
  /\ smem' = [smem EXCEPT ![r] = [k \in Combiner |-> [s \in 0 .. shape.stages - 1 |-> -1]]]
  /\ added' = [added EXCEPT ![r] = [k \in Combiner |-> [t \in Consumer |-> 0]]]

PullTables ==
  /\ gateIdx = [r \in Rank |-> [j \in DOMAIN shape.topk[r] |-> CombineFlag(shape.topk, r, j)]]
  /\ block = [r \in Rank |-> [j \in DOMAIN shape.topk[r] |-> BlockOf(r, j)]]
  /\ tilesOf = [x \in Blocks |-> WorkTilesOf(x)]

CombineState(at) ==
  /\ Init
  /\ host = [r \in Rank |-> at]
  /\ iter = [r \in Rank |-> 0]
  /\ PullTables
  /\ gated = [r \in Rank |-> [k \in Combiner |-> 0]]
  /\ issued = [r \in Rank |-> [k \in Combiner |-> 0]]
  /\ landed = [r \in Rank |-> [k \in Combiner |-> {}]]
  /\ smem = [r \in Rank |-> [k \in Combiner |-> [s \in 0 .. shape.stages - 1 |-> -1]]]
  /\ added = [r \in Rank |-> [k \in Combiner |-> [t \in Consumer |-> 0]]]
  /\ wrong = {}

CombineInit == CombineState("reset")

-----------------------------------------------------------------------------
(* The producer warp of combine CTA k on rank r *)

\* The flags of the token that lanes 0 .. topk-1 poll.
GateOf(r, k) ==
  {gateIdx[r][ChoiceOf(k, gated[r][k] * ItemsPerToken + j)] : j \in 0 .. TopK - 1}

\* The gate of the next token, all lanes and the sync_warp behind them.
PassGate(r, k) ==
  /\ gated[r][k] < TokensOf(r, k)
  /\ issued[r][k] = gated[r][k] * ItemsPerToken
  /\ \A f \in GateOf(r, k) : flags[r][f] >= NTiles
  /\ gated' = [gated EXCEPT ![r][k] = @ + 1]
  /\ UNCHANGED <<vars, hostVars, issued, landed, smem, added, wrong>>

StageOf(i) == i % shape.stages

\* One consumer thread's arrival is enough.
StageFreeOfOne(r, k, i) == \E t \in Consumer : added[r][k][t] + shape.stages > i
\* Every consumer thread has arrived for the stage's previous item.
StageFree(r, k, i) == \A t \in Consumer : added[r][k][t] + shape.stages > i

\* producer_acquire, the bulk copy, producer_commit, advance.
Pull(r, k) ==
  LET i == issued[r][k]
  IN  /\ i < gated[r][k] * ItemsPerToken
      /\ StageFree(r, k, i)
      /\ issued' = [issued EXCEPT ![r][k] = i + 1]
      /\ smem' = [smem EXCEPT ![r][k][StageOf(i)] = -1]
      /\ UNCHANGED <<vars, hostVars, gated, landed, added, wrong>>

\* The tiles of row block x whose n-tile is in ns are stored, in the iteration
\* that rank r is in.
StoredFor(r, x, ns) ==
  /\ iter[x[1]] = iter[r]
  /\ \A t \in tilesOf[x] : Tile(t).n \in ns => TileStored(t[1], t[2])

\* The n-tiles that chunk x of a row touches.
TilesOfChunk(x) ==
  {n \in 0 .. NTiles - 1 : n * shape.chunks < (x + 1) * NTiles /\ (n + 1) * shape.chunks > x * NTiles}

\* A copy fills its stage, some time after it was issued.
PullLands(r, k) ==
  \E i \in 0 .. issued[r][k] - 1 :
    /\ i \notin landed[r][k]
    /\ landed' = [landed EXCEPT ![r][k] = @ \cup {i}]
    /\ smem' = [smem EXCEPT ![r][k][StageOf(i)] =
         IF StoredFor(r, block[r][ChoiceOf(k, i)], TilesOfChunk(ChunkOf(i))) THEN i ELSE -1]
    /\ UNCHANGED <<vars, hostVars, gated, issued, added, wrong>>

\* A consumer thread: consumer_wait, add its slice of the stage, arrive at the
\* empty barrier, advance; behind the last choice it stores its slice of the row.
Accumulate(r, k, t) ==
  LET i == added[r][k][t]
  IN  /\ i \in landed[r][k]
      /\ wrong' = IF smem[r][k][StageOf(i)] = i THEN wrong ELSE wrong \cup {r}
      /\ added' = [added EXCEPT ![r][k][t] = i + 1]
      /\ UNCHANGED <<vars, hostVars, gated, issued, landed, smem>>

-----------------------------------------------------------------------------
(* The hosts *)

\* reset(): zero the flags and synchronise; the peers may still run.
Reset(r) ==
  /\ host[r] = "reset"
  /\ flags' = [flags EXCEPT ![r] = [f \in 0 .. TotalFlags |-> 0]]
  /\ host' = [host EXCEPT ![r] = "barrier"]
  /\ UNCHANGED <<launchVars, pos, groups, stored, prev, pub, fin, iter, tables, ringVars>>

AtBarrier(q, r) == iter[q] > iter[r] \/ (iter[q] = iter[r] /\ host[q] = "barrier")

\* CTAs of rank r start afresh.
Restart(r, f, v) == [c \in Cta |-> IF c[1] = r THEN v ELSE f[c]]

\* The barrier, and overlapped(): the combine first, then the GEMM.
Launch(r) ==
  /\ host[r] = "barrier"
  /\ \A q \in Rank : AtBarrier(q, r)
  /\ host' = [host EXCEPT ![r] = "run"]
  /\ iter' = [iter EXCEPT ![r] = @ + 1]
  /\ pos' = Restart(r, pos, 1)
  /\ groups' = Restart(r, groups, 0)
  /\ stored' = Restart(r, stored, {})
  /\ prev' = Restart(r, prev, [flag |-> 0, valid |-> FALSE])
  /\ fin' = {c \in fin : c[1] # r}
  /\ FreshRing(r)
  /\ UNCHANGED <<launchVars, tables, pub, flags, wrong>>

\* torch.cuda.synchronize(): both kernels of this rank have ended.
Synchronize(r) ==
  /\ host[r] = "run"
  /\ \A c \in Cta : c[1] = r => c \in fin /\ pub[c] = Idle
  /\ \A k \in Combiner, t \in Consumer : added[r][k][t] = ItemsOf(r, k)
  /\ host' = [host EXCEPT ![r] = IF iter[r] = shape.iters THEN "end" ELSE "reset"]
  /\ UNCHANGED <<vars, iter, tables, ringVars>>

HostStep(r) == Reset(r) \/ Launch(r) \/ Synchronize(r)

-----------------------------------------------------------------------------
Running(r) == host[r] = "run"

GemmStep(c) == c \in Cta /\ Running(c[1]) /\ CtaStep(c) /\ UNCHANGED <<hostVars, ringVars>>
StoreStep(c) == c \in Cta /\ Running(c[1]) /\ SomeGroupCompletes(c) /\ UNCHANGED <<hostVars, ringVars>>
ProducerStep(r, k) == k \in Combiner /\ Running(r) /\ (PassGate(r, k) \/ Pull(r, k))
PullStep(r, k) == k \in Combiner /\ Running(r) /\ PullLands(r, k)
ConsumerStep(r, k, t) ==
  k \in Combiner /\ t \in Consumer /\ Running(r) /\ Accumulate(r, k, t)

CombineNext ==
  \/ \E c \in AnyCta : GemmStep(c) \/ StoreStep(c)
  \/ \E r \in Rank :
       \/ HostStep(r)
       \/ \E k \in AnyCombiner :
            \/ ProducerStep(r, k) \/ PullStep(r, k)
            \/ \E t \in AnyConsumer : ConsumerStep(r, k, t)

CombineSpec == CombineInit /\ [][CombineNext]_combineVars

\* Hosts return from their calls, resident warps run, copies end.
CombineFairness ==
  /\ \A c \in AnyCta : WF_combineVars(GemmStep(c)) /\ WF_combineVars(StoreStep(c))
  /\ \A r \in Rank :
       /\ WF_combineVars(HostStep(r))
       /\ \A k \in AnyCombiner :
            /\ WF_combineVars(ProducerStep(r, k)) /\ WF_combineVars(PullStep(r, k))
            /\ \A t \in AnyConsumer : WF_combineVars(ConsumerStep(r, k, t))

CombineFairSpec == CombineSpec /\ CombineFairness

\* The flags that rank r waits for; a GEMM on its own is checked on all.
Awaited(r) ==
  IF shape.pulls THEN {gateIdx[r][j] : j \in DOMAIN shape.topk[r]} ELSE 0 .. TotalFlags - 1

\* An awaited counter that has reached the number of n-tiles covers the
\* complete stores of all of them, whichever CTAs computed them, although a
\* CTA announces a tile on the group count of the next one.
AwaitedBlockIsStored ==
  \A r \in Rank : Running(r) =>
    \A x \in DOMAIN tilesOf :
      LET f == offset[x[1]][x[2]] + x[3]
      IN  f \in Awaited(r) /\ flags[r][f] >= NTiles => StoredFor(r, x, 0 .. NTiles - 1)

-----------------------------------------------------------------------------
(***************************************************************************)
(* Every consumer thread adds up its own items, each of them the row that  *)
(* its expert's rank computed in this iteration: no gate opens before all  *)
(* tiles under the token are stored, no stage is refilled while a thread   *)
(* still reads it, and the flags that a peer bumps after this rank has     *)
(* zeroed them for the next iteration do no harm.                          *)
(***************************************************************************)
CombinesFinishedRows == wrong = {} /\ AwaitedBlockIsStored

(***************************************************************************)
(* The check behind the first launch (exp_flags) and that of               *)
(* tilepipe_gemm_tune.py: once all ranks have run one iteration, every     *)
(* counter is exactly the number of n-tiles, so no overhanging CTA has     *)
(* counted on a foreign flag.                                              *)
(***************************************************************************)
FlagsExactAfterWarmUp ==
  (\A r \in Rank : iter[r] = 1 /\ host[r] \in {"reset", "end"}) =>
    \A r \in Rank, f \in 0 .. TotalFlags :
      flags[r][f] = IF f < TotalFlags THEN NTiles ELSE 0

(***************************************************************************)
(* Every iteration ends on every rank: each awaited row block becomes      *)
(* ready, the last tile of every CTA included, and neither the ring nor    *)
(* the barrier blocks.                                                     *)
(***************************************************************************)
CombineEnds == <>(\A r \in Rank : host[r] = "end")

-----------------------------------------------------------------------------
(* The inductive invariant behind the two safety properties. *)

GemmTypeOK ==
  /\ pos \in [Cta -> Nat \ {0}]
  /\ groups \in [Cta -> Nat]
  /\ stored \in [Cta -> SUBSET Nat]
  /\ prev \in [Cta -> [flag : Int, valid : BOOLEAN]]
  /\ pub \in [Cta -> [flag : Int, rank : Nat]]
  /\ fin \in SUBSET Cta
  /\ flags \in [Rank -> [0 .. TotalFlags -> Nat]]

HostTypeOK ==
  /\ host \in [Rank -> {"reset", "barrier", "run", "end"}]
  /\ iter \in [Rank -> Nat]

RingTypeOK ==
  /\ gated \in [Rank -> [Combiner -> Nat]]
  /\ issued \in [Rank -> [Combiner -> Nat]]
  /\ landed \in [Rank -> [Combiner -> SUBSET Nat]]
  /\ smem \in [Rank -> [Combiner -> [0 .. shape.stages - 1 -> Int]]]
  /\ added \in [Rank -> [Combiner -> [Consumer -> Nat]]]
  /\ wrong \in SUBSET Rank

CombineTypeOK == LaunchTables /\ PullTables /\ GemmTypeOK /\ HostTypeOK /\ RingTypeOK

\* The last tile that CTA c has begun to announce, if that is a place in its work.
Latest(c) == IF c \in fin THEN pos[c] - 1 ELSE pos[c] - 2

\* A tile has been announced to rank r: the ranks are served in order, and the
\* rank of an idle publish, W, is behind all.
AnnouncedTo(t, r) ==
  t[2] < Latest(t[1]) \/ (t[2] = Latest(t[1]) /\ r < pub[t[1]].rank)

Announced(x, r) == {t \in tilesOf[x] : AnnouncedTo(t, r)}

\* A CTA announces its tiles in order, each behind its last store group.
CtaOK(c) ==
  /\ pos[c] <= Len(work[c]) + 1
  /\ c \in fin => pos[c] = Len(work[c]) + 1
  /\ (pos[c] - 1) * EpiTiles <= groups[c]
  /\ 1 .. Latest(c) * EpiTiles \subseteq stored[c]
  /\ pos[c] = 1 => ~prev[c].valid
  /\ pos[c] > 1 => LET t == work[c][pos[c] - 1]
                   IN  prev[c] = [flag |-> FlagOf(c, t), valid |-> InRange(c, t)]
  /\ pub[c] # Idle => LET t == work[c][Latest(c)]
                      IN  /\ Latest(c) \in DOMAIN work[c] /\ InRange(c, t)
                          /\ pub[c].flag = FlagOf(c, t) /\ pub[c].rank \in Rank

GemmFresh(r) == \A c \in Cta : c[1] = r => pos[c] = 1 /\ c \notin fin /\ pub[c] = Idle
GemmEnded(r) == \A c \in Cta : c[1] = r => c \in fin /\ pub[c] = Idle

HostOK(r) ==
  /\ iter[r] <= shape.iters
  /\ host[r] \in {"reset", "barrier"} => iter[r] < shape.iters
  /\ host[r] \in {"run", "end"} => iter[r] > 0
  /\ iter[r] = 0 => GemmFresh(r) /\ \A k \in Combiner : gated[r][k] = 0
  /\ iter[r] > 0 /\ host[r] # "run" =>
       /\ GemmEnded(r)
       /\ \A k \in Combiner, t \in Consumer : added[r][k][t] = ItemsOf(r, k)

\* A rank is at most one iteration ahead, of ranks that wait in the barrier.
AheadOK(q, r) == iter[q] > iter[r] => iter[q] = iter[r] + 1 /\ host[r] = "barrier"

\* The iteration that the flags of rank r are for, and the row blocks whose flags
\* it can rely on: in the first iteration all, later those that it pulls from.
Epoch(r) == IF host[r] = "barrier" THEN iter[r] + 1 ELSE iter[r]
Flag(x) == offset[x[1]][x[2]] + x[3]
Pulled(r, x) == \E j \in DOMAIN block[r] : block[r][j] = x
Relied(r, x) == Epoch(r) <= 1 \/ Pulled(r, x)

CountOK(r, x) ==
  Relied(r, x) =>
    flags[r][Flag(x)] = IF iter[x[1]] = Epoch(r) THEN Cardinality(Announced(x, r)) ELSE 0

\* When a rank has zeroed its flags, those it relies on are not bumped any more
\* in the iteration that it has left.
SettledOK(r, x) ==
  host[r] = "barrier" /\ iter[r] > 0 /\ Pulled(r, x) =>
    /\ iter[x[1]] >= iter[r]
    /\ iter[x[1]] = iter[r] => \A t \in tilesOf[x] : AnnouncedTo(t, r)

\* The gates that a producer warp has passed are open.
GatesOK(r, k) ==
  host[r] # "barrier" =>
    \A g \in 0 .. gated[r][k] - 1, j \in 0 .. TopK - 1 :
      flags[r][gateIdx[r][ChoiceOf(k, g * ItemsPerToken + j)]] >= NTiles

\* The ring: items behind an open gate are issued in order, at most a ring ahead
\* of the slowest thread; the newest that has landed in a stage is in it.
RingOK(r, k) ==
  /\ gated[r][k] <= TokensOf(r, k)
  /\ issued[r][k] <= gated[r][k] * ItemsPerToken
  /\ \A i \in landed[r][k] : i < issued[r][k]
  /\ \A t \in Consumer :
       /\ \A i \in 0 .. added[r][k][t] - 1 : i \in landed[r][k]
       /\ issued[r][k] <= added[r][k][t] + shape.stages
  /\ \A i \in landed[r][k] : issued[r][k] <= i + shape.stages => smem[r][k][StageOf(i)] = i

CombineInv ==
  /\ \A c \in Cta : CtaOK(c)
  /\ \A r \in Rank : HostOK(r) /\ flags[r][TotalFlags] = 0
  /\ \A q, r \in Rank : AheadOK(q, r)
  /\ \A r \in Rank, x \in Blocks : CountOK(r, x) /\ SettledOK(r, x)
  /\ \A r \in Rank, k \in Combiner : GatesOK(r, k) /\ RingOK(r, k)
  /\ wrong = {}
=============================================================================
