---------------------------- MODULE TileScheduler ----------------------------
(***************************************************************************)
(* The persistent tile schedulers of quack/tile_scheduler.py: how the      *)
(* clusters of one GEMM launch share its output tiles.  A kernel is a      *)
(* record                                                                  *)
(*                                                                         *)
(*   sched   "dense", "triangular" (gemm_symmetric) or "varlen" (varlen_m) *)
(*   mode    PersistenceMode: "none", "static", "dynamic" or "clc"         *)
(*   m, n, l problem_shape_ntile_mnl in CTA tiles (varlen: m is not used)  *)
(*   cm, cn  cluster shape in CTAs                                         *)
(*   group   max_swizzle_size                                              *)
(*   raster  "m", "n" or "heuristic"                                       *)
(*   perm    batch_idx_permute as a function on the batches (dense)        *)
(*   cu, rows, total  cu_seqlens_m, rows of a CTA tile, total_m (varlen)   *)
(*   active  max_active_clusters                                           *)
(*                                                                         *)
(* The hand-over of a tile within its cluster, through sched_smem and the  *)
(* scheduler pipeline, is in PingpongGemm and GemmSm100; here the cluster  *)
(* moves as one.                                                           *)
(***************************************************************************)
EXTENDS Integers, Sequences, FiniteSets, FiniteSetsExt, TLC

CONSTANTS Kernels,     \* the kernels considered
          Window,      \* batches one step of the varlen walk looks at
          Launches     \* launches of the kernel on one semaphore

ASSUME SchedulerAssumption == {Window, Launches} \subseteq Nat \ {0}

CeilOf(a, b) == (a + b - 1) \div b

-----------------------------------------------------------------------------
(* Params: the grid of clusters and the order it is walked in. *)

ClustersM(k) == CeilOf(k.m, k.cm)
ClustersN(k) == CeilOf(k.n, k.cn)

RoundUp(a, b) == CeilOf(a, b) * b

\* get_raster_order_from_option; the varlen scheduler goes along n unless told.
AlongM(k) ==
  \/ k.raster = "m"
  \/ /\ k.raster = "heuristic"
     /\ k.sched # "varlen"
     /\ RoundUp(ClustersN(k), k.group) > RoundUp(ClustersM(k), k.group)

TriangularNumber(r) == (r * (r + 1)) \div 2

\* num_clusters_per_problem.
PerProblem(k) == IF k.sched = "triangular" THEN TriangularNumber(ClustersM(k))
                                           ELSE ClustersM(k) * ClustersN(k)

\* A walk through groups of `size` columns, `slow` long, every second one
\* backwards; width is that of the group id falls in, the last may be narrower.
GroupAt(id, size, slow) == id \div (size * slow)

InGroups(id, size, slow, width) ==
  LET g      == GroupAt(id, size, slow)
      within == id % (size * slow)
      row    == within \div width
  IN  [fast |-> g * size + (within % width),
       slow |-> IF g % 2 = 1 THEN slow - 1 - row ELSE row]

\* Don't divide by 0: the width of the tail group, 1 when there is none.
TailSize(fast, size) == IF fast % size > 0 THEN fast % size ELSE 1

Coord(k, p) == IF AlongM(k) THEN <<p.fast, p.slow>> ELSE <<p.slow, p.fast>>

DenseSwizzle(k, id) ==
  LET fast     == IF AlongM(k) THEN ClustersM(k) ELSE ClustersN(k)
      slow     == IF AlongM(k) THEN ClustersN(k) ELSE ClustersM(k)
      size     == Min({k.group, fast})
      width    == IF GroupAt(id, size, slow) < fast \div size THEN size
                                                              ELSE TailSize(fast, size)
  IN  Coord(k, InGroups(id, size, slow, width))

\* num_m clusters of rows in the batch at hand.
VarlenSwizzle(k, id, num_m) ==
  LET fast     == IF AlongM(k) THEN num_m ELSE ClustersN(k)
      slow     == IF AlongM(k) THEN ClustersN(k) ELSE num_m
      size     == IF AlongM(k) THEN k.group ELSE Min({k.group, fast})
      g        == GroupAt(id, size, slow)
      width    == IF AlongM(k) THEN Min({size, num_m - g * size})
                  ELSE IF (g + 1) * size * slow <= num_m * fast THEN size
                  ELSE TailSize(fast, size)
  IN  Coord(k, InGroups(id, size, slow, width))

\* triangular_idx_to_coord: the row is the ceiling of a square root.
TriangularRow(i) == Max({r \in 0 .. i : TriangularNumber(r) <= i})
TriangularCoord(i) == <<TriangularRow(i), i - TriangularNumber(TriangularRow(i))>>

\* Groups of rows; within one, square blocks from the left and a triangle last.
TriangularSwizzle(k, id) ==
  LET rows   == ClustersM(k)
      size   == Min({k.group, rows})
      g      == TriangularRow(id) \div size
      first  == g * size
      within == id - TriangularNumber(first)
      height == IF g < rows \div size THEN size ELSE TailSize(rows, size)
      block  == within \div (height * size)
      rest   == within % (height * size)
      cell   == IF within >= height * size * g THEN TriangularCoord(rest)
                ELSE <<rest % height, rest \div height>>
  IN  <<first + cell[1], block * size + cell[2]>>

-----------------------------------------------------------------------------
(* The varlen walk. *)

Len_m(k, b) == k.cu[b + 2] - k.cu[b + 1]

\* _get_num_m_blocks.
BlocksM(k, b) == IF b < k.l THEN CeilOf(Len_m(k, b), k.rows * k.cm) ELSE 0

\* The clusters of the first i batches from batch b on.
Before(k, b, i) == MapThenSumSet(LAMBDA j : BlocksM(k, j) * ClustersN(k), b .. b + i - 1)

\* Windows from batch b, which starts at work index start, until one reaches
\* beyond idx: <<first batch, its work index>>, or batch l when there is none.
RECURSIVE FindWindow(_, _, _, _)
FindWindow(k, b, start, idx) ==
  LET end == start + Before(k, b, Window)
  IN  IF b >= k.l THEN <<k.l, start>>
      ELSE IF end > idx THEN <<b, start>>
      ELSE FindWindow(k, b + Window, end, idx)

\* A work tile: its batch, what the walk remembers of it, its cluster's
\* coordinates, and whether it is one (is_valid).
NoWork == [ok |-> FALSE]

\* The vote of the lanes: how many batches of the window end at or before idx.
BatchInWindow(k, first, start, idx) ==
  Cardinality({j \in 1 .. Window : start + Before(k, first, j) <= idx})

VarlenWork(k, w, idx) ==
  LET found == FindWindow(k, w.batch, w.before, idx)
      first == found[1]
      i     == BatchInWindow(k, first, found[2], idx)
      start == found[2] + Before(k, first, i)
  IN  IF first >= k.l THEN NoWork
      ELSE [ok |-> TRUE, batch |-> first + i, before |-> start,
            at |-> VarlenSwizzle(k, idx - start, BlocksM(k, first + i))]

\* One cluster of the grid per tile, or a fixed number of persistent ones.
Persistent(k) == k.mode \in {"static", "dynamic"}

\* bz: the batch by the position in the grid, where the grid has a batch axis.
DenseWork(k, w, idx, bz) ==
  LET batch == IF Persistent(k) THEN idx \div PerProblem(k) ELSE bz
      id    == IF Persistent(k) THEN idx % PerProblem(k) ELSE idx
  IN  IF Persistent(k) /\ idx >= PerProblem(k) * k.l THEN NoWork
      ELSE [ok |-> TRUE, before |-> w.before,
            batch |-> IF k.sched = "dense" THEN k.perm[batch + 1] ELSE batch,
            at |-> IF k.sched = "dense" THEN DenseSwizzle(k, id)
                                        ELSE TriangularSwizzle(k, id)]

\* _delinearize_work_idx.
Work(k, w, idx, bz) == IF k.sched = "varlen" THEN VarlenWork(k, w, idx)
                                             ELSE DenseWork(k, w, idx, bz)

\* The tile of the r-th CTA of a cluster.
CtaTile(k, t, r) ==
  <<t.batch, t.at[1] * k.cm + (r % k.cm), t.at[2] * k.cn + ((r \div k.cm) % k.cn)>>

\* get_grid_shape, in clusters.
TotalClusters(k) ==
  IF k.sched = "varlen"
    THEN ((k.total + k.l * (k.rows * k.cm - 1)) \div (k.rows * k.cm)) * ClustersN(k)
    ELSE PerProblem(k) * k.l

GridClusters(k) == IF Persistent(k) THEN Min({k.active, TotalClusters(k)})
                                    ELSE TotalClusters(k)

-----------------------------------------------------------------------------
VARIABLES kernel,     \* the kernel that is launched
          launch,     \* how often it has been
          semaphore,  \* tile_count_semaphore
          pending,    \* clusters of the grid that are not on an SM yet
          worker,     \* per cluster that has work: its scheduler object
          executed    \* <<cluster, n-th work of it, tile of one CTA>>

vars == <<kernel, launch, semaphore, pending, worker, executed>>

\* _cluster_idx_to_work_idx_batch.
InGrid(c) == IF Persistent(kernel) \/ kernel.sched = "varlen"
             THEN [idx |-> c, bz |-> 0]
             ELSE [idx |-> c % PerProblem(kernel), bz |-> c \div PerProblem(kernel)]

\* Cluster c, whose scheduler object was w, goes on with work index idx; or it
\* learns that there is no such work and its warps leave their loops.
GoOn(c, w, idx, bz) ==
  LET t    == Work(kernel, w, idx, bz)
      rest == [d \in DOMAIN worker \ {c} |-> worker[d]]
      Now  == [idx |-> idx, batch |-> IF kernel.sched = "varlen" THEN t.batch ELSE 0,
               before |-> t.before, n |-> w.n + 1]
  IN  /\ worker' = IF t.ok THEN (c :> Now) @@ rest ELSE rest
      /\ executed' = IF t.ok
           THEN executed \cup {<<c, w.n, CtaTile(kernel, t, r)>> :
                                r \in 0 .. kernel.cm * kernel.cn - 1}
           ELSE executed

\* The hardware places a cluster, which starts with the work of its own place
\* in the grid (create, initial_work_tile_info).  It takes the clusters of a
\* grid in order.
Place ==
  /\ pending # {}
  /\ Cardinality(DOMAIN worker) < kernel.active
  /\ LET c == Min(pending)
     IN  /\ pending' = pending \ {c}
         /\ GoOn(c, [batch |-> 0, before |-> 0, n |-> 0], InGrid(c).idx, InGrid(c).bz)
  /\ UNCHANGED <<kernel, launch, semaphore>>

\* A cluster without persistence has the one tile.
Leave(c) ==
  /\ kernel.mode = "none"
  /\ worker' = [d \in DOMAIN worker \ {c} |-> worker[d]]
  /\ UNCHANGED <<kernel, launch, semaphore, pending, executed>>

\* The next index of a static walk.
Stride == GridClusters(kernel)

FetchStatic(c) ==
  /\ kernel.mode = "static"
  /\ GoOn(c, worker[c], worker[c].idx + Stride, 0)
  /\ UNCHANGED <<kernel, launch, semaphore, pending>>

\* atomic_inc starts again behind its limit, atomic_add (varlen) does not.  The
\* limit is taken from the full grid also where only its triangle is walked.
WholeGrid(k) == ClustersM(k) * ClustersN(k) * k.l   \* mutated form of IncLimit
IncLimit(k) == ClustersM(k) * ClustersN(k) * k.l - 1
Bump(k, old) ==
  IF k.sched # "varlen" /\ old >= IncLimit(k) THEN 0 ELSE old + 1

FetchDynamic(c) ==
  /\ kernel.mode = "dynamic"
  /\ semaphore' = Bump(kernel, semaphore)
  /\ GoOn(c, worker[c], GridClusters(kernel) + semaphore, 0)
  /\ UNCHANGED <<kernel, launch, pending>>

\* clc_response: the work of a cluster that is still pending, which will not be
\* placed any more; or the answer that there is none.
Cancel(c) ==
  /\ kernel.mode = "clc"
  /\ IF pending = {}
       THEN /\ worker' = [d \in DOMAIN worker \ {c} |-> worker[d]]
            /\ UNCHANGED <<pending, executed>>
       ELSE LET x == Min(pending)
            IN  /\ pending' = pending \ {x}
                /\ GoOn(c, worker[c], InGrid(x).idx, InGrid(x).bz)
  /\ UNCHANGED <<kernel, launch, semaphore>>

Fetch(c) == Leave(c) \/ FetchStatic(c) \/ FetchDynamic(c) \/ Cancel(c)

Finished == pending = {} /\ DOMAIN worker = {}

\* "If varlen_m ... must reset the semaphore to 0", and so must the caller of
\* the triangular scheduler; the dense one leaves it as it found it.
ResetByCaller(k) == k.sched # "dense"

\* The host launches the kernel again.
Relaunch ==
  /\ Finished
  /\ kernel.mode = "dynamic"
  /\ launch < Launches
  /\ launch' = launch + 1
  /\ semaphore' = IF ResetByCaller(kernel) THEN 0 ELSE semaphore
  /\ pending' = 0 .. GridClusters(kernel) - 1
  /\ executed' = {}
  /\ UNCHANGED <<kernel, worker>>

\* The last launch is over.
Done ==
  /\ Finished
  /\ kernel.mode = "dynamic" => launch = Launches
  /\ UNCHANGED vars

LaunchFirst(k) ==
  /\ kernel = k
  /\ launch = 1
  /\ semaphore = 0
  /\ pending = 0 .. GridClusters(k) - 1
  /\ worker = <<>>
  /\ executed = {}

Init == \E k \in Kernels : LaunchFirst(k)

Next ==
  \/ Place
  \/ \E c \in DOMAIN worker : Fetch(c)
  \/ Relaunch
  \/ Done

Spec == Init /\ [][Next]_vars

-----------------------------------------------------------------------------
\* The tiles of the problem, up to whole clusters: those beyond the matrix are
\* cut off by the predicates of loads and stores.
Problem(k) ==
  LET NumM(b) == IF k.sched = "varlen" THEN BlocksM(k, b) ELSE ClustersM(k)
  IN  {<<b, m, n>> \in UNION {{b} \X (0 .. NumM(b) * k.cm - 1)
                                    \X (0 .. ClustersN(k) * k.cn - 1) : b \in 0 .. k.l - 1} :
         k.sched = "triangular" => n \div k.cn <= m \div k.cm}

(***************************************************************************)
(* Clusters that only share a counter, a stride or the hardware's queue    *)
(* never compute a tile twice and never one that is not there, and when    *)
(* the launch is over they have computed them all -- whatever the shape,   *)
(* the swizzle, the raster order, the empty batches and the order the      *)
(* clusters came in.  A second launch on the same semaphore does the same. *)
(***************************************************************************)
EachTileOnce ==
  /\ \A x, y \in executed : x[3] = y[3] => x = y
  /\ {x[3] : x \in executed} \subseteq Problem(kernel)
  /\ Finished => {x[3] : x \in executed} = Problem(kernel)
=============================================================================
