-------------------------- MODULE GemmTilePublish --------------------------
(***************************************************************************)
(* The other half of TilePipe: the epilogue of the grouped GEMM announces  *)
(* finished output tiles to the combine (quack/gemm_sm100.py, the block    *)
(* "DEFERRED tile-completion publish", and publish_tile_flag).             *)
(*                                                                         *)
(* A CTA stores a tile as EpiTiles asynchronous bulk groups and goes on;   *)
(* it announces the tile one work tile later, when wait_group proves the   *)
(* older groups complete.  Work is scheduled per cluster, so a cluster at  *)
(* the edge of a batch has CTAs whose tile lies outside of it.  A row      *)
(* block is ready when its counter reaches the number of n-tiles.  The     *)
(* thread that issues the stores also waits, fences and releases, so a     *)
(* released tile is ordered as soon as its groups are complete.            *)
(***************************************************************************)
EXTENDS TilePipeRouting

CONSTANTS Shapes   \* the routings and launches considered

ASSUME PublishAssumption ==
  \A p \in Shapes :
    /\ {p.nTiles, p.clM, p.clN, p.clusters, p.epiTiles} \subseteq Nat \ {0}
    /\ p.topk \in [Rank -> Seq(0 .. W * EPR - 1)]

\* Rank d's batches are its experts.
MTilesOf(p, d, b) == CeilDiv(SplitSize(p.topk, d, b), TileM)

\* Cluster tiles <<batch, m, n>> of rank d in scheduling order.
ClusterTilesOf(p, d) ==
  UNION {{b} \X (0 .. CeilDiv(MTilesOf(p, d, b), p.clM) - 1) \X (0 .. CeilDiv(p.nTiles, p.clN) - 1)
           : b \in Expert}

Lexicographic(S) ==
  {p \in S \X S : \/ p[1][1] < p[2][1]
                  \/ p[1][1] = p[2][1] /\ p[1][2] < p[2][2]
                  \/ p[1][1] = p[2][1] /\ p[1][2] = p[2][2] /\ p[1][3] < p[2][3]}

ClusterTiles(p, d) == Sorted(ClusterTilesOf(p, d), Lexicographic(ClusterTilesOf(p, d)))

\* How many of n items a worker takes that begins at its own and goes by steps.
Share(n, first, step) == Cardinality({k \in 0 .. n - 1 : k % step = first})

\* A CTA: its rank, its cluster and its place in the cluster.  Its work tiles
\* are those of its cluster, each cluster taking every clusters-th one.  A rank
\* without rows has nothing to compute.
CtasOf(p) ==
  {d \in Rank : TotalRows(p.topk, d) > 0} \X (1 .. p.clusters) \X (0 .. p.clM - 1) \X (0 .. p.clN - 1)

WorkOf(p, c) ==
  LET ts == ClusterTiles(p, c[1])
      tile(i) == ts[c[2] + (i - 1) * p.clusters]
  IN  [i \in 1 .. Share(Len(ts), c[2] - 1, p.clusters) |->
         [batch |-> tile(i)[1], m |-> tile(i)[2] * p.clM + c[3], n |-> tile(i)[3] * p.clN + c[4]]]

\* The GEMM of rank d counts on flag_pub_ptrs[r] + tile_offsets[b], where the
\* pointers start at rank d's segment of the flag array of rank r.
OffsetsOf(p) == [d \in Rank |-> [b \in Expert |-> RankTileBase(p.topk, d) + TileOffset(p.topk, d, b)]]

-----------------------------------------------------------------------------
VARIABLES
  shape,    \* the problem of this launch
  offset,   \* the flag of the first tile of each batch of each rank
  total,    \* the length of the flag array
  work,     \* work[c]: the tiles of CTA c, in order
  rows,     \* rows[d][b]: rows of batch b on rank d
  pos,      \* pos[c]: the CTA's current work tile, counted from 1
  groups,   \* groups[c]: store groups the CTA has committed
  stored,   \* stored[c]: the groups whose writes are complete
  prev,     \* prev[c]: prev_flag_idx and prev_tile_valid
  pub,      \* pub[c]: flag and ranks of the publish in progress
  fin,      \* CTAs past their tail
  flags     \* flags[r][f]: tile counters of rank r

NTiles     == shape.nTiles     \* n-tiles, ceil(N / tile_N)
EpiTiles   == shape.epiTiles   \* epi_tile_num: store groups of a tile
TotalFlags == total
Cta        == DOMAIN work
AnyCta     == UNION {CtasOf(p) : p \in Shapes}

launchVars == <<shape, offset, total, work, rows>>
vars == <<launchVars, pos, groups, stored, prev, pub, fin, flags>>

Idle == [flag |-> -1, rank |-> W]

\* What a launch finds and never changes.
LaunchTables ==
  /\ shape \in Shapes
  /\ offset = OffsetsOf(shape)
  /\ total = TotalTiles(shape.topk)
  /\ work = [c \in CtasOf(shape) |-> WorkOf(shape, c)]
  /\ rows = [d \in Rank |-> [b \in Expert |-> SplitSize(shape.topk, d, b)]]

Init ==
  /\ LaunchTables
  /\ pos = [c \in Cta |-> 1]
  /\ groups = [c \in Cta |-> 0]
  /\ stored = [c \in Cta |-> {}]
  /\ prev = [c \in Cta |-> [flag |-> 0, valid |-> FALSE]]
  /\ pub = [c \in Cta |-> Idle]
  /\ fin = {}
  /\ flags = [r \in Rank |-> [f \in 0 .. TotalFlags |-> 0]]

-----------------------------------------------------------------------------
InLoop(c) == c \notin fin /\ pub[c] = Idle /\ pos[c] <= Len(work[c])

\* The epilogue commits the next store group of the current tile.
StoreGroup(c) ==
  /\ InLoop(c)
  /\ groups[c] < pos[c] * EpiTiles
  /\ groups' = [groups EXCEPT ![c] = @ + 1]
  /\ UNCHANGED <<launchVars, pos, stored, prev, pub, fin, flags>>

\* The memory system completes a group, in any order.
GroupCompletes(c, g) ==
  /\ g <= groups[c]
  /\ g \notin stored[c]
  /\ stored' = [stored EXCEPT ![c] = @ \cup {g}]
  /\ UNCHANGED <<launchVars, pos, groups, prev, pub, fin, flags>>

SomeGroupCompletes(c) == c \in Cta /\ \E g \in 1 .. groups[c] : GroupCompletes(c, g)

\* cp_async_bulk_wait_group(n)
WaitGroup(c, n) == 1 .. groups[c] - n \subseteq stored[c]

\* Everything older than the current tile is complete.
OlderComplete(c) == WaitGroup(c, EpiTiles)

FlagOf(c, t) == offset[c[1]][t.batch] + t.m

InRangeAlways(c, t) == TRUE
\* The overhang predicate; constant TRUE in a 1x1 cluster.
InRange(c, t) ==
  IF shape.clM * shape.clN = 1 THEN TRUE ELSE t.m * TileM < rows[c[1]][t.batch] /\ t.n < NTiles

\* publish_tile_flag(prev): the ranks are served one by one.
StartPublish(c) ==
  pub' = [pub EXCEPT ![c] = IF prev[c].valid THEN [flag |-> prev[c].flag, rank |-> 0] ELSE Idle]

\* The end of the loop body: publish the previous tile, remember this one.
EndTile(c) ==
  LET t == work[c][pos[c]]
  IN  /\ InLoop(c)
      /\ groups[c] = pos[c] * EpiTiles
      /\ OlderComplete(c)
      /\ StartPublish(c)
      /\ prev' = [prev EXCEPT ![c] = [flag |-> FlagOf(c, t), valid |-> InRange(c, t)]]
      /\ pos' = [pos EXCEPT ![c] = @ + 1]
      /\ UNCHANGED <<launchVars, groups, stored, fin, flags>>

\* One release/sys add on the flag of one rank.
PublishTo(c) ==
  LET p == pub[c]
  IN  /\ p # Idle
      /\ flags' = [flags EXCEPT ![p.rank][p.flag] = @ + 1]
      /\ pub' = [pub EXCEPT ![c] = IF p.rank + 1 = W THEN Idle ELSE [p EXCEPT !.rank = @ + 1]]
      /\ UNCHANGED <<launchVars, pos, groups, stored, prev, fin>>

\* producer_tail() of the store pipeline, taken to wait for the writes.
TailComplete(c) == WaitGroup(c, 0)

TailDropped(c) == pub' = [pub EXCEPT ![c] = Idle]
TailPublish(c) == StartPublish(c)

\* Behind the loop: drain and publish the last tile.
FinishLoop(c) ==
  /\ c \notin fin
  /\ pub[c] = Idle
  /\ pos[c] > Len(work[c])
  /\ TailComplete(c)
  /\ TailPublish(c)
  /\ fin' = fin \cup {c}
  /\ UNCHANGED <<launchVars, pos, groups, stored, prev, flags>>

CtaStep(c) ==
  /\ c \in Cta
  /\ StoreGroup(c) \/ EndTile(c) \/ PublishTo(c) \/ FinishLoop(c)

Next == \E c \in AnyCta : CtaStep(c) \/ SomeGroupCompletes(c)

Spec == Init /\ [][Next]_vars

-----------------------------------------------------------------------------
\* All stores of the tile that CTA c has at its i-th place are complete.
TileStored(c, i) == (i - 1) * EpiTiles + 1 .. i * EpiTiles \subseteq stored[c]
=============================================================================
