--------------------------- MODULE TilePipeRouting ---------------------------
(***************************************************************************)
(* The host-side metadata builders of quack/tilepipe.py: from the routing  *)
(* all ranks have gathered they derive, each rank on its own, the send     *)
(* list of the dispatch kernel, the row layout of the receive buffer, and  *)
(* the flag space that the expert GEMM publishes into and the combine      *)
(* kernels wait on.  Nothing is exchanged after the gather: the protocol   *)
(* is correct only if the lists the ranks compute apart fit together.      *)
(*                                                                         *)
(* A routing maps each rank to the sequence of its (token, k) choices in   *)
(* token-major order, `all_topk[rank].reshape(-1)`; an expert is a number  *)
(* in 0..W*EPR-1.  Ranks, experts, rows, slots and flags count from 0 as   *)
(* in the code; positions in sequences count from 1.                       *)
(***************************************************************************)
EXTENDS Integers, Sequences, FiniteSets

CONSTANTS W,        \* world_size
          EPR,      \* experts per rank (epr = num_experts // world_size)
          TopK,     \* experts chosen per token
          TileM     \* rows of a GEMM tile (tile_m)

ASSUME RoutingAssumption ==
  /\ W \in Nat \ {0}
  /\ EPR \in Nat \ {0}
  /\ TopK \in Nat \ {0}
  /\ TileM \in Nat \ {0}

Rank   == 0 .. W - 1
Expert == 0 .. EPR - 1

-----------------------------------------------------------------------------
(* Counting and exclusive prefix sums, the vocabulary of the builders.      *)

Hits(topk, src, g) == {j \in DOMAIN topk[src] : topk[src][j] = g}

\* counts[src, g]: how many choices of rank src name the global expert g.
Counts(topk, src, g) == Cardinality(Hits(topk, src, g))

\* Sum of f[0] .. f[n-1].
SumBelow(f, n) ==
  LET sum[k \in Nat] == IF k = 0 THEN 0 ELSE sum[k - 1] + f[k - 1]
  IN  sum[n]

\* The elements of S in a strict order, a set of pairs: each one stands behind
\* those that come before it.
Behind(S, Less, x) == Cardinality({y \in S : <<y, x>> \in Less})
Sorted(S, Less) == [n \in 1 .. Cardinality(S) |-> CHOOSE x \in S : Behind(S, Less, x) = n - 1]

\* split_sizes: rows that rank dst receives for its local expert e.
SplitSize(topk, dst, e) ==
  SumBelow([src \in Rank |-> Counts(topk, src, dst * EPR + e)], W)

\* cu_seqlens: first receive row of local expert e on rank dst.
CuSeqlens(topk, dst, e) == SumBelow([x \in Expert |-> SplitSize(topk, dst, x)], e)

TotalRows(topk, dst) == CuSeqlens(topk, dst, EPR)

BaseIgnoresSource(topk, dst, e, src) == CuSeqlens(topk, dst, e)

\* base[dst, e, src]: first receive row for the choices that come from src.
Base(topk, dst, e, src) ==
  CuSeqlens(topk, dst, e)
    + SumBelow([s \in Rank |-> Counts(topk, s, dst * EPR + e)], src)

CeilDiv(n, d) == (n + d - 1) \div d

\* tile_offsets: exclusive cumsum of the m-tiles of each local expert.
TileOffset(topk, dst, e) ==
  SumBelow([x \in Expert |-> CeilDiv(SplitSize(topk, dst, x), TileM)], e)

\* rank_tile_base: flag-array offset of each producing rank.
RankTileBase(topk, dst) == SumBelow([d \in Rank |-> TileOffset(topk, d, EPR)], dst)

\* total_tiles: length of the flag array.
TotalTiles(topk) == SumBelow([d \in Rank |-> TileOffset(topk, d, EPR)], W)

-----------------------------------------------------------------------------
(* build_send_arrays *)

DstOf(g)    == g \div EPR
LocalOf(g)  == g % EPR

\* Receive row of choice j of rank src: rank order within the expert, and
\* token order within the rank (the stable argsort by group).
Slot(topk, src, j) ==
  LET g == topk[src][j]
  IN  Base(topk, DstOf(g), LocalOf(g), src)
        + Cardinality({i \in Hits(topk, src, g) : i < j})

\* Segment id and send-order key: expert-major, then destination rotated by
\* the source rank.
SegOf(src, g) == LocalOf(g) * W + ((DstOf(g) + W - src) % W)

SendEntry(topk, src, j) ==
  LET g == topk[src][j]
  IN  [token |-> (j - 1) \div TopK, slot |-> Slot(topk, src, j),
       dst |-> DstOf(g), expert |-> LocalOf(g), seg |-> SegOf(src, g)]

\* Stable sort of the choices by segment id.
SendOrder(topk, src) ==
  LET choices == DOMAIN topk[src]
      seg == [j \in choices |-> SegOf(src, topk[src][j])]
      before == {p \in choices \X choices :
                   \/ seg[p[1]] < seg[p[2]]
                   \/ seg[p[1]] = seg[p[2]] /\ p[1] < p[2]}
  IN  Sorted(choices, before)

SendList(topk, src) ==
  LET order == SendOrder(topk, src)
  IN  [i \in DOMAIN order |-> SendEntry(topk, src, order[i])]

-----------------------------------------------------------------------------
(* build_combine_metadata: the pull-combine's view of the expert outputs.   *)

\* Flag that covers the expert-output row of choice j of rank src.
CombineFlag(topk, src, j) ==
  LET d == DstOf(topk[src][j])
      e == LocalOf(topk[src][j])
  IN  RankTileBase(topk, d) + TileOffset(topk, d, e)
        + (Slot(topk, src, j) - CuSeqlens(topk, d, e)) \div TileM

\* tile_lo, tile_hi: the rows of the tiles of rank d, in flag order.
TileLo(topk, d, e, m) == CuSeqlens(topk, d, e) + m * TileM
TileHi(topk, d, e, m) ==
  LET hi == TileLo(topk, d, e, m) + TileM
      cu == CuSeqlens(topk, d, e + 1)
  IN  IF hi < cu THEN hi ELSE cu

-----------------------------------------------------------------------------
(* build_push_combine_arrays: rank d walks its own expert-output rows in    *)
(* buffer order, expert-major, then home rank, then token.                  *)

\* The rows of rank d: triples <<e, src, choice of src>>, and the order in which
\* the loops over experts, over homes and over their choices find them.
RowsOf(topk, d) ==
  UNION {{<<e, src, j>> : j \in Hits(topk, src, d * EPR + e)} : e \in Expert, src \in Rank}

PushOrder(topk, d) ==
  LET rows == RowsOf(topk, d)
      before == {p \in rows \X rows :
                   \/ p[1][1] < p[2][1]
                   \/ p[1][1] = p[2][1] /\ p[1][2] < p[2][2]
                   \/ p[1][1] = p[2][1] /\ p[1][2] = p[2][2] /\ p[1][3] < p[2][3]}
  IN  Sorted(rows, before)

StagingSlotOfToken(j) == ((j - 1) \div TopK) * TopK

\* staging[token * topk + k] on the home rank.
StagingSlot(j) == ((j - 1) \div TopK) * TopK + ((j - 1) % TopK)

\* Row i of the list; split and tiles are recomputed here from the list itself.
PushEntry(order, i) ==
  LET row   == i - 1
      e     == order[i][1]
      home  == order[i][2]
      split == [x \in Expert |-> Cardinality({k \in DOMAIN order : order[k][1] = x})]
      tiles == [x \in Expert |-> CeilDiv(split[x], TileM)]
  IN  [row |-> row, home |-> home, seg |-> e * W + home, slot |-> StagingSlot(order[i][3]),
       gate |-> SumBelow(tiles, e) + (row - SumBelow(split, e)) \div TileM]

PushList(topk, d) ==
  LET order == PushOrder(topk, d)
  IN  [i \in DOMAIN order |-> PushEntry(order, i)]
=============================================================================
