----------------------------- MODULE RowKernels -----------------------------
(***************************************************************************)
(* The kernels that reduce rows, softmax.py, cross_entropy.py and          *)
(* rmsnorm.py on top of reduction_base.py and reduce.py, with the launch   *)
(* configurations of rmsnorm_config.py: how a row is cut into tiles of     *)
(* CTAs, vectors of threads and groups of lanes, and what each reduction   *)
(* sums.                                                                   *)
(*                                                                         *)
(* Columns are counted instead of added up: a sum is the number of columns *)
(* in it, and whether all of its terms are numbers.  What stands behind    *)
(* the end of a row adds nothing to a sum: zeros, and -inf where maxima    *)
(* and exponentials are taken.  ClusterReduce has the order in which the   *)
(* parts of a reduction are exchanged.                                     *)
(***************************************************************************)
EXTENDS Integers, Sequences, FiniteSetsExt

CONSTANTS Kernels,     \* kernels that are compiled and launched
          SmemOptin    \* SmemOptin[major]: shared memory of a CTA

(***************************************************************************)
(* A kernel: its kind, the major of the device's capability, rows m and    *)
(* columns n; the widths in bits of x, of the output's gradient and of its *)
(* widest tensor; whether a residual is read with x; for the backward of a *)
(* norm the T_hint, the heads and the SMs of the device; and the config    *)
(* of the autotuner, in a set of one or none.                              *)
(***************************************************************************)
Norms == {"rmsnorm", "layernorm", "rmsnorm_bwd"}
Kinds == Norms \cup {"softmax", "softmax_bwd", "cross_entropy", "cross_entropy_dx", "cross_entropy_bwd"}

ASSUME RowAssumption ==
  \A k \in Kernels : /\ k.kind \in Kinds /\ k.m \in Nat \ {0} /\ k.n \in Nat \ {0}
                     /\ {k.width, k.dout, k.widest} \subseteq {16, 32}
                     /\ k.major \in DOMAIN SmemOptin

VARIABLES
  kernel,
  at,        \* "compile", "reduce", "store", "done" or "refused"
  tile,      \* what its __call__ computes
  sums,      \* its reductions of one row, in their order
  stored     \* what is written for a row, and for a weight's gradient

rowVars == <<kernel, at, tile, sums, stored>>

CeilDiv(a, b) == (a + b - 1) \div b
Clamp(x, most) == IF x < 0 THEN 0 ELSE IF x > most THEN most ELSE x
K == 1024

\* math.gcd(n, vec) for a power of two.
GcdOfPower(n, vec) == Max({d \in {1, 2, 4, 8, 16} : d <= vec /\ n % d = 0})

\* for limit, value in ladder: if n <= limit: return value
Ladder(n, limits, values, otherwise) ==
  LET hit == {i \in DOMAIN limits : n <= limits[i]}
  IN  IF hit = {} THEN otherwise ELSE values[Min(hit)]

-----------------------------------------------------------------------------
(* Launch configurations (rmsnorm_config.py).                               *)

MaxCluster(major) == IF major < 9 THEN 1 ELSE IF major = 12 THEN 8 ELSE 16

ClusterLadder(k, limits) == Ladder(k.n, limits, <<1, 2, 4, 8>>, MaxCluster(k.major))

ForHopperFwd(k) ==
  [threads |-> IF k.n <= 16 * K THEN 128 ELSE 256,
   perRow  |-> Ladder(k.n, <<64, 128, 3072, 6144, 16384>>, <<8, 16, 32, 64, 128>>, 256),
   cluster |-> IF k.major < 9 THEN 1
               ELSE ClusterLadder(k,
                 CASE k.major = 12 /\ k.width >= 32 -> <<8 * K, 16 * K, 32 * K, 64 * K>>
                   [] k.width = 16 -> <<16 * K, 32 * K, 64 * K, 128 * K>>
                   [] k.width = 32 /\ k.kind = "layernorm" /\ k.major # 12 -> <<8 * K, 64 * K, 128 * K, 256 * K>>
                   [] OTHER -> <<32 * K, 64 * K, 128 * K, 256 * K>>),
   slots   |-> 1, tma |-> FALSE]

ForHopperBwd(k) ==
  [threads |-> IF k.n <= 4096 THEN 128 ELSE 256,
   perRow  |-> Ladder(k.n, <<64, 128, 256, 512, 4096>>, <<8, 16, 32, 64, 128>>, 256),
   cluster |-> IF k.major < 9 THEN 1
               ELSE ClusterLadder(k, IF k.major = 12 /\ k.width >= 32
                                       THEN <<K, 8 * K, 16 * K, 32 * K>>
                                       ELSE <<8 * K, 16 * K, 32 * K, 64 * K>>),
   slots   |-> 2, tma |-> FALSE]

\* The next power of two of CTAs among which X and dO fit.
BumpClusterForSmem(k, cluster) ==
  LET budget == SmemOptin[k.major] - 4 * K
      needed == CeilDiv(k.n * 2 * ((k.width + k.dout) \div 8), budget)
      pow2   == Min({p \in {1, 2, 4, 8, 16, 32, 64, 128} : p >= needed})
  IN  Min({Max({pow2, cluster}), MaxCluster(10)})

ForBlackwellBwd(k) ==
  LET bytes    == Max({k.width, k.dout}) \div 8
      rowBytes == k.n * bytes
      narrow   == Ladder(k.n, <<64, 128, 256, 512>>, <<8, 16, 32, 64>>, 128)
      wide     == rowBytes >= 48 * K
      cluster  == IF k.n > 512 /\ wide
                    THEN BumpClusterForSmem(k, IF 0 < k.hint /\ k.hint <= K /\ rowBytes <= 64 * K THEN 4 ELSE 8)
                    ELSE 1
      single   == k.n > 512 /\ ~wide /\ rowBytes > 16 * K
  IN  [threads |-> IF single THEN 256 ELSE 128,
       perRow  |-> IF single THEN 256 ELSE narrow,
       cluster |-> cluster,
       slots   |-> 2,
       tma     |-> k.n > 512 /\ (cluster >= 4 \/ (bytes >= 4 /\ rowBytes >= 16 * K))]

\* The search spaces of the autotuner, and what is dropped for a row.
AllFwdConfigs(major) ==
  {[threads |-> t, perRow |-> r, cluster |-> c, slots |-> 1, tma |-> FALSE] :
     t \in {128, 256}, r \in {64, 128, 256}, c \in {d \in {1, 2, 4, 8, 16} : d <= MaxCluster(major)}}
AllBwdConfigs(major) ==
  {[threads |-> t, perRow |-> r, cluster |-> c, slots |-> s, tma |-> b] :
     t \in {128, 256}, r \in {64, 128, 256}, c \in {d \in {1, 2, 4, 8, 16} : d <= MaxCluster(major)},
     s \in {2, 3}, b \in (IF major >= 9 THEN BOOLEAN ELSE {FALSE})}

TmaRowsAligned(k, cluster) ==
  \A width \in {k.width, k.dout} : (((k.n \div cluster) * width) \div 8) % 16 = 0

KeptFwdConfigs(k) ==
  {c \in AllFwdConfigs(k.major) : c.perRow <= c.threads /\ c.perRow * c.cluster <= k.n}
KeptBwdConfigs(k) ==
  {c \in AllBwdConfigs(k.major) :
     /\ c.perRow <= c.threads /\ c.perRow * c.cluster <= k.n
     /\ c.tma => k.heads = 0 /\ TmaRowsAligned(k, c.cluster)}

NormConfig(k) ==
  CASE k.config # {}           -> CHOOSE c \in k.config : TRUE
    [] k.kind # "rmsnorm_bwd"  -> ForHopperFwd(k)
    [] k.major >= 10           -> ForBlackwellBwd(k)
    [] OTHER                   -> ForHopperBwd(k)

\* get_sm_count and the heads of rmsnorm_bwd: CTAs of the persistent kernel.
SmCount(k) ==
  IF k.major >= 10 THEN k.sms * Ladder(k.n, <<256, 1024, 2048>>, <<16, 8, 4>>, 2)
  ELSE IF k.n <= 8192 THEN k.sms * Ladder(k.n, <<256, 1024, 2048, 4096>>, <<16, 8, 4, 2>>, 1)
  ELSE IF k.n <= 16384 THEN k.sms \div 2 ELSE k.sms * 2
\* Python's round: a half goes to the even neighbour.
Rounded(a, b) ==
  LET q == a \div b
      r == 2 * (a % b)
  IN  IF r > b \/ (r = b /\ q % 2 = 1) THEN q + 1 ELSE q
Grid(k) == IF k.heads = 0 THEN SmCount(k) ELSE Max({Rounded(SmCount(k), k.heads), 1})

\* Threads and CTAs of softmax.py and cross_entropy.py.
SmallerSmem(k) == k.major = 12 /\ k.width = 32
SoftmaxConfig(k) ==
  LET backward == k.kind = "softmax_bwd"
      wide     == IF backward THEN 8 * K ELSE 16 * K
      from16K  == <<16 * K, 32 * K, 64 * K, 128 * K>>
      limits   == CASE backward /\ SmallerSmem(k) -> <<8 * K, 16 * K, 32 * K, 64 * K>>
                    [] backward \/ SmallerSmem(k) \/ k.width = 16 -> from16K
                    [] k.kind = "softmax" -> <<32 * K, 64 * K, 128 * K, 256 * K>>
                    [] OTHER -> <<16 * K, 64 * K, 128 * K, 256 * K>>
  IN  [threads |-> IF k.n <= wide THEN 128 ELSE 256,
       perRow  |-> Ladder(k.n, <<64, 128, 3072, 6144, wide>>, <<8, 16, 32, 64, 128>>, 256),
       cluster |-> IF k.major < 9 THEN 1 ELSE ClusterLadder(k, limits),
       slots   |-> 1, tma |-> FALSE]

\* CrossEntropyBackward reduces nothing: blocks of at most 16K columns.
BlockOfRow(k) == Min({k.n, 16 * K})
CrossEntropyBwdConfig(k) ==
  [threads |-> 128,
   perRow  |-> Ladder(BlockOfRow(k), <<64, 128, 3072, 6144>>, <<8, 16, 32, 64>>, 128),
   cluster |-> 1, slots |-> 1, tma |-> FALSE]

LaunchConfig(k) ==
  CASE k.kind \in Norms -> NormConfig(k)
    [] k.kind = "cross_entropy_bwd" -> CrossEntropyBwdConfig(k)
    [] OTHER -> SoftmaxConfig(k)

-----------------------------------------------------------------------------
(* How a row is cut.                                                        *)

Exact(k) == k.kind \in {"softmax", "softmax_bwd"}
Vec(k) == IF Exact(k) THEN 128 \div k.widest ELSE GcdOfPower(k.n, 128 \div k.widest)

\* _cap_cluster_n, in the norms.
UncappedClusterN(k, config, cluster) == cluster
CappedClusterN(k, config, cluster) ==
  IF k.kind \in Norms THEN Min({cluster, Max({1, (k.n \div Vec(k)) \div config.perRow})}) ELSE cluster

UsesTma(k, config) == config.tma /\ k.heads = 0 /\ TmaRowsAligned(k, config.cluster)

\* _get_tiled_copy: lanes of a row take vectors of it in turns.
Geometry(k) ==
  LET config  == LaunchConfig(k)
      cluster == CappedClusterN(k, config, Min({config.cluster, MaxCluster(k.major)}))
      width   == IF k.kind = "cross_entropy_bwd" THEN BlockOfRow(k) ELSE k.n
      cols    == Vec(k) * CeilDiv(width \div Vec(k), config.perRow * cluster) * config.perRow
  IN  [rows    |-> config.threads \div config.perRow,
       cols    |-> cols,
       threads |-> config.threads,
       perRow  |-> config.perRow,
       cluster |-> cluster,
       parts   |-> IF k.kind = "cross_entropy_bwd" THEN CeilDiv(k.n, cols) ELSE cluster,
       slots   |-> config.slots,
       tma     |-> UsesTma(k, config)]

\* What __init__, _get_tiled_copy and the norm's backward refuse.
Refused(k) ==
  \/ Exact(k) /\ k.n % Vec(k) # 0
  \/ k.kind = "rmsnorm_bwd" /\ k.n > 128 * K /\ k.width = 32

\* local_tile: where a tile spans the row there is only one, of every CTA.
Parts == 0 .. tile.parts - 1
Start(p) == IF tile.cols >= kernel.n THEN 0 ELSE p * tile.cols
Held(p) == Clamp(kernel.n - Start(p), tile.cols)

-----------------------------------------------------------------------------
(* The reductions of a row.                                                 *)

Passes(kind) ==
  CASE kind \in {"softmax", "cross_entropy"}      -> <<"online">>
    [] kind = "cross_entropy_dx"                  -> <<"max", "exp">>
    [] kind = "layernorm"                         -> <<"sum", "centred">>
    [] kind = "rmsnorm"                           -> <<"square">>
    [] kind \in {"softmax_bwd", "rmsnorm_bwd"}    -> <<"dot">>
    [] kind = "cross_entropy_bwd"                 -> <<>>

\* A group of lanes whose columns are all behind the end: its own maximum is
\* -inf, and online_softmax_reduce subtracts it from -inf.
Lanes == Min({tile.perRow, 32})
EmptyGroup ==
  \E p \in Parts : \E q \in 0 .. (tile.perRow \div Lanes) - 1 :
    Start(p) + q * Lanes * Vec(kernel) >= kernel.n

Reduced(pass) ==
  [pass   |-> pass,
   cols   |-> MapThenSumSet(Held, Parts),
   number |-> ~(pass = "online" /\ EmptyGroup)]

\* The threads of column 0 write a row's mean, rstd, loss or lse, those of
\* one CTA of the cluster.
Writers == {p \in Parts : Start(p) = 0 /\ (tile.cluster = 1 \/ p = 0)}

-----------------------------------------------------------------------------
(* Rows.                                                                    *)

Tiles == CeilDiv(kernel.m, tile.rows)

\* The tiles of CTA b of the persistent RMSNormBackward.
TilesOf(b) == {t \in b .. Tiles - 1 : (t - b) % Grid(kernel) = 0}
RowsOf(t) == {r \in t * tile.rows .. (t + 1) * tile.rows - 1 : r < kernel.m}

\* dw_partial: each CTA stores a row of it, with or without a tile.
Partial(b) == UNION {RowsOf(t) : t \in TilesOf(b)}

TimesStored(r) ==
  IF kernel.kind = "rmsnorm_bwd" THEN Cardinality({b \in 0 .. Grid(kernel) - 1 : r \in Partial(b)})
  ELSE Cardinality({t \in 0 .. Tiles - 1 : r \in RowsOf(t)})

-----------------------------------------------------------------------------
(* Shared memory: the tiles of what is read through it, the reduction       *)
(* buffer and the mbarriers.                                                *)

TileWidths(k) ==
  CASE k.kind = "softmax_bwd"         -> 2 * k.width
    [] k.kind = "rmsnorm_bwd"         -> k.width + k.dout
    [] k.kind = "rmsnorm" /\ k.residual -> 2 * k.width
    [] OTHER                          -> k.width

ReductionStages(k) == IF k.kind = "rmsnorm_bwd" THEN 2 ELSE Len(Passes(k.kind))
Smem(k, t) ==
  LET stages   == ReductionStages(k)
      element  == IF k.kind \in {"softmax", "cross_entropy"} THEN 8 ELSE 4
      barriers == IF t.cluster = 1 THEN 0 ELSE IF k.kind = "rmsnorm_bwd" THEN 2 * stages ELSE stages
  IN  t.rows * t.cols * t.slots * (TileWidths(k) \div 8)
        + (t.threads \div 32) * t.cluster * stages * element
        + 8 * (barriers + (IF t.tma THEN 2 * t.slots ELSE 0))

-----------------------------------------------------------------------------
NoTile == [rows |-> 0, cols |-> 0, threads |-> 0, perRow |-> 0, cluster |-> 0, parts |-> 0, slots |-> 0, tma |-> FALSE]
NothingStored == [rows |-> <<>>, writers |-> {}]

RowIdle == /\ at = "done" /\ kernel = CHOOSE k \in Kernels : TRUE
           /\ tile = NoTile /\ sums = <<>> /\ stored = NothingStored

RowInit ==
  /\ kernel \in Kernels
  /\ at = "compile" /\ tile = NoTile /\ sums = <<>> /\ stored = NothingStored

CompileRows ==
  /\ at = "compile"
  /\ IF Refused(kernel) THEN at' = "refused" /\ UNCHANGED tile
     ELSE /\ tile' = Geometry(kernel)
          /\ at' = IF Passes(kernel.kind) = <<>> THEN "store" ELSE "reduce"
  /\ UNCHANGED <<kernel, sums, stored>>

ReduceRow ==
  LET passes == Passes(kernel.kind)
  IN  /\ at = "reduce"
      /\ sums' = Append(sums, Reduced(passes[Len(sums) + 1]))
      /\ at' = IF Len(sums) + 1 = Len(passes) THEN "store" ELSE "reduce"
      /\ UNCHANGED <<kernel, tile, stored>>

StoreRows ==
  /\ at = "store"
  /\ stored' = [rows    |-> [r \in 0 .. kernel.m - 1 |-> TimesStored(r)],
                writers |-> Writers]
  /\ at' = "done"
  /\ UNCHANGED <<kernel, tile, sums>>

RowNext == CompileRows \/ ReduceRow \/ StoreRows

-----------------------------------------------------------------------------
(***************************************************************************)
(* However a row is cut, each reduction has every column of it once; its   *)
(* statistics have one writer; each row is stored, and summed into the     *)
(* weight's gradient, once; and the kernel fits into the shared memory of  *)
(* its device.                                                             *)
(***************************************************************************)
RowsReducedOnce ==
  /\ \A i \in DOMAIN sums : sums[i].cols = kernel.n
  /\ stored # NothingStored =>
       /\ \A r \in DOMAIN stored.rows : stored.rows[r] = 1
       /\ Cardinality(stored.writers) = 1
  /\ tile # NoTile => Smem(kernel, tile) <= SmemOptin[kernel.major]

(***************************************************************************)
(* The sum of a row of finite values is a number (tests/                   *)
(* test_cross_entropy.py: "assert not torch.isnan(loss).any()").           *)
(***************************************************************************)
SumIsANumber == \A i \in DOMAIN sums : sums[i].number
=============================================================================
