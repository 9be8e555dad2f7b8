----------------------------- MODULE GemmConfig -----------------------------
(***************************************************************************)
(* What the host decides before a GEMM is launched: the configurations the *)
(* autotuner may try (quack/gemm_config.py), those that are left for a     *)
(* device and a call (prune_invalid_gemm_configs), what the kernel classes *)
(* of SM90, SM100 and SM120 make of one, and the shared and tensor memory  *)
(* the kernel then takes.  SM80 and block-scaled operands are not here.    *)
(*                                                                         *)
(* A config is a GemmConfig with its device_capacity as arch.  A job is a  *)
(* call: gather (A_idx is given), varlen "none", "m" or "k", epilogue      *)
(* "none", "gated" or "dgated", and the widths in bytes of what it touches *)
(* besides A and B (bf16), 0 for a tensor that is absent: d, c, row and    *)
(* col (vectors for the tile's columns and rows), aux (mAuxOut) and reduce *)
(* (mColVecReduce).                                                        *)
(***************************************************************************)
EXTENDS Integers, Sequences, SequencesExt, FiniteSetsExt

AlignUp(a, b) == ((a + b - 1) \div b) * b

-----------------------------------------------------------------------------
(* The candidates. *)

Config(arch, tile, cluster, pingpong, dynamic, swap, tma) ==
  [arch |-> arch, m |-> tile[1], n |-> tile[2], cm |-> cluster[1], cn |-> cluster[2],
   pingpong |-> pingpong, dynamic |-> dynamic, swap |-> swap, tma |-> tma, group |-> 8]

SwapValues(epilogue) == IF epilogue = "gated" THEN {FALSE} ELSE BOOLEAN

Sm90Tiles(epilogue, pingpong) ==
  LET ns    == {128, 160, 192, 208}
      tiles == IF pingpong THEN ({128} \X ns) \cup {<<192, 128>>}
               ELSE ({256} \X ns) \cup {<<128, 224>>, <<128, 256>>}
  IN  {t \in tiles : epilogue = "gated" => t[2] % 32 = 0}

Sm90Configs(epilogue) ==
  UNION {{Config(9, t, cluster, pingpong, FALSE, swap, FALSE) :
            t \in Sm90Tiles(epilogue, pingpong), cluster \in {<<1, 2>>, <<2, 1>>},
            swap \in SwapValues(epilogue)} : pingpong \in BOOLEAN}

Sm100Configs(epilogue) ==
  LET ns    == {64, 128, 160, 192, 224, 256}
      tiled == (({128} \X ns) \X ({1, 2} \X {1, 2}))
                 \cup (({256} \X ns) \X {<<2, 1>>, <<2, 2>>})
                 \cup {<<<<256, 512>>, <<2, 1>>>>}
  IN  {Config(10, t[1], t[2], FALSE, dynamic, swap, tma) :
         t \in tiled, dynamic \in BOOLEAN, swap \in SwapValues(epilogue), tma \in BOOLEAN}

Sm120Tiles(pingpong) ==
  {<<128, 128>>, <<128, 64>>, <<64, 128>>, <<128, 160>>}
    \cup IF pingpong THEN {} ELSE {<<128, 192>>}

Sm120Configs(epilogue) ==
  UNION {{Config(12, t, <<1, 1>>, pingpong, TRUE, swap, FALSE) :
            t \in Sm120Tiles(pingpong), swap \in SwapValues(epilogue)} :
           pingpong \in BOOLEAN}

AllConfigs(epilogue) ==
  Sm90Configs(epilogue) \cup Sm100Configs(epilogue) \cup Sm120Configs(epilogue)

DefaultConfig(arch) ==
  CASE arch = 9  -> Config(9, <<128, 192>>, <<2, 1>>, TRUE, FALSE, FALSE, FALSE)
    [] arch = 10 -> Config(10, <<256, 256>>, <<2, 1>>, FALSE, TRUE, FALSE, FALSE)
    [] arch = 12 -> Config(12, <<128, 128>>, <<1, 1>>, TRUE, TRUE, FALSE, FALSE)

\* prune_invalid_gemm_configs; the dgated one before it.
Pruned(configs, arch, job) ==
  {c \in configs :
     /\ c.arch = arch
     /\ (job.varlen = "m" \/ job.gather) => ~c.swap
     /\ (job.epilogue = "dgated" /\ (job.col > 0 \/ job.reduce > 0)) => ~c.swap
     /\ job.gather => c.cn = 1
     /\ (job.gather /\ arch = 9) => c.n # 208 /\ ~c.dynamic
     /\ c.tma => job.gather /\ arch = 10}

-----------------------------------------------------------------------------
(* The kernel a config makes: its warps, its tiles and what it refuses. *)

TwoCta(c) == c.arch = 10 /\ c.cm % 2 = 0 /\ c.m \in {128, 256}

CtaM(c) == IF TwoCta(c) THEN c.m \div 2 ELSE c.m

\* atom_layout_mnk.
Atoms(c) ==
  CASE c.arch = 12 -> IF c.pingpong THEN <<2, 2>> ELSE <<4, 2>>
    [] c.arch = 9 /\ c.pingpong -> <<1, 1>>
    [] c.arch = 9 /\ c.m = 320 -> <<1, 2>>
    [] c.arch = 9 /\ c.m = 192 -> IF c.n <= 128 THEN <<3, 1>> ELSE <<1, 2>>
    [] OTHER -> <<IF c.m < 256 THEN c.m \div 64 ELSE 2, 1>>

Times(t) == t[1] * t[2]

\* mma_warp_groups of SM90 and, four warps each, of SM120.
MmaGroups(c) ==
  (Times(Atoms(c)) * (IF c.pingpong THEN 2 ELSE 1)) \div (IF c.arch = 12 THEN 4 ELSE 1)

\* num_ab_load_warps.
LoadWarps(job) == IF job.gather THEN 4 ELSE 1

\* Warps besides the loaders of SM100: MMA, epilogue load, scheduler and the
\* four of the epilogue, and the one that prefetches indices.
Threads(c, job) ==
  IF c.arch = 10 THEN 32 * (LoadWarps(job) + 7 + (IF job.gather THEN 1 ELSE 0))
                 ELSE (MmaGroups(c) + 1) * 128

\* <<num_regs_load, num_regs_mma>> (num_regs_other, num_regs_epi).
Registers(c, job) ==
  LET heavy == (c.m * c.n) \div (Times(Atoms(c)) * 128) >= 208
  IN  CASE c.arch = 10 -> <<120, 256>>
        [] c.arch = 12 -> IF job.gather THEN <<56, 224>> ELSE <<40, 232>>
        [] MmaGroups(c) = 3 -> IF job.gather THEN <<56, 152>> ELSE <<32, 160>>
        [] job.gather -> <<56, 224>>
        [] OTHER -> IF heavy THEN <<24, 240>> ELSE <<40, 232>>

\* All registers of the CTA after each warp group set its share: on SM100 only
\* a gather reallocates, between the epilogue's warp group and the two others.
RegistersTaken(c, job) ==
  LET r == Registers(c, job)
  IN  IF c.arch # 10 THEN 128 * (r[1] + MmaGroups(c) * r[2])
      ELSE IF job.gather THEN 128 * (2 * r[1] + r[2]) ELSE 256 * Threads(c, job)

\* What __init__ raises or asserts, and is_valid_mma_tiler_and_cluster_shape.
Accepted(c, job) ==
  LET limit == CASE c.pingpong -> (CASE c.m = 64 -> 256 [] c.m = 128 -> 208
                                     [] OTHER -> 128)
                 [] c.m = 320 -> 160
                 [] OTHER -> 256
      inst_n == IF c.n <= 256 THEN c.n ELSE c.n \div 2
  IN  /\ job.gather => c.cn = 1
      /\ c.tma => job.gather
      /\ Threads(c, job) % 128 = 0
      /\ c.arch = 9 =>
           /\ c.m \in IF c.pingpong THEN {64, 128, 192} ELSE {64, 128, 192, 256, 320}
           /\ IF c.pingpong THEN c.n % 16 = 0 /\ c.n <= limit
              ELSE IF c.m \in {192, 320} THEN c.n % 32 = 0 /\ c.n <= limit
              ELSE (c.n % 16 = 0 /\ c.n <= 256) \/ (c.n % 32 = 0 /\ c.n <= 512)
           /\ MmaGroups(c) \in 1 .. 3
           /\ job.epilogue = "gated" => c.n % 32 = 0
      /\ c.arch = 10 =>
           /\ c.m \in {64, 128, 256}
           /\ inst_n \in 32 .. 256 /\ inst_n % 32 = 0
           /\ c.m = 256 => c.cm % 2 = 0
           /\ {c.cm, c.cn} \subseteq {1, 2, 4, 8, 16} /\ c.cm * c.cn <= 16
      /\ (c.arch = 12 /\ c.pingpong) => MmaGroups(c) = 2

-----------------------------------------------------------------------------
(* Its epilogue tile. *)

Divides(a, b) == b % a = 0
Gcd(a, b) == Max({d \in 1 .. a : Divides(d, a) /\ Divides(d, b)})

\* Warps along N: of the epilogue's tensor memory loads, of the MMA.
WarpsAcross(c) ==
  IF c.arch = 10 THEN IF CtaM(c) = 64 /\ TwoCta(c) THEN 2 ELSE 1 ELSE Atoms(c)[2]

\* compute_epilogue_tile_shape (cutlass).
LibraryEpiTile(c, job, across) ==
  LET rows   == Min({CtaM(c), 32 * (4 \div across)})
      widest == Max({job.c, job.d})
      perf   == CASE job.c = 0   -> 4096 \div rows
                  [] widest = 4  -> IF CtaM(c) > 64 /\ c.n <= 128 THEN 16 ELSE 32
                  [] widest = 2  -> IF c.n <= 128 THEN 32 ELSE 64
                  [] OTHER       -> 64
  IN  <<rows, Min({c.n, Max({perf, 8 * across})})>>

\* Tile starts stay aligned: the columns must divide those of the CTA.
Dividing(t, n) == IF Divides(t[2], n) THEN t ELSE <<t[1], Gcd(t[2], n)>>

\* _compute_tile_shape_or_override, with the MMA's atoms along M.
MmaEpiTile(m, n, along, d) ==
  CASE Divides(128, m) /\ along > 1 -> <<128, Gcd(32, n)>>
    [] Divides(192, m) /\ along > 1 -> <<192, Gcd(32, n)>>
    [] OTHER -> <<Gcd(64, m), Gcd(IF d = 1 THEN 64 ELSE 32, n)>>

EpiTile(c, job) ==
  IF c.arch = 10 THEN Dividing(LibraryEpiTile(c, job, WarpsAcross(c)), c.n)
                 ELSE MmaEpiTile(c.m, c.n, Atoms(c)[1], job.d)

-----------------------------------------------------------------------------
(* Its stages and its storage, in bytes.  A build is a config and a job with  *)
(* what the kernel class derives from them before it counts:                  *)
(*   cta, half  rows of A and of B in the shared memory of a CTA              *)
(*   cells      elements of the epilogue tile, and epi_n its columns          *)
(*   vectors    bytes of the vectors of the epilogue in shared memory         *)
(*   aux_tile   bytes of one stage of mAuxOut; a gated one has half of them   *)
(*   prefetch   "none", or the index prefetch of a gather on SM100, by varlen *)

TileK == 64

Build(c, job, epi) ==
  [arch |-> c.arch, pingpong |-> c.pingpong, d |-> job.d, c |-> job.c,
   cta |-> CtaM(c), half |-> IF TwoCta(c) THEN c.n \div 2 ELSE c.n,
   acc |-> IF c.n > 256 THEN 1 ELSE 2,
   cells |-> Times(epi), epi_n |-> epi[2],
   vectors |-> <<c.n * (IF c.swap THEN job.col ELSE job.row),
                 CtaM(c) * (IF c.swap THEN job.row ELSE job.col),
                 CtaM(c) * (WarpsAcross(c) - 1) * job.reduce>>,
   aux_tile |-> (Times(epi) \div (IF job.epilogue = "gated" THEN 2 ELSE 1)) * job.aux,
   prefetch |-> IF c.arch = 10 /\ job.gather THEN job.varlen ELSE "none"]

AbBytes(b) == 2 * TileK * (b.cta + b.half)

Capacity(arch) == IF arch = 12 THEN 99 * 1024 ELSE 227 * 1024

\* mbar_helpers_bytes, with the prefetched indices of two tiles of rows.
BarriersOnly(b) == 1024   \* mutated form of Reserved
Reserved(b) == 1024 + IF b.prefetch = "m" THEN 8 * b.cta ELSE 0

\* _compute_stages: as many stages of A and B as fit beside the least epilogue,
\* and to the epilogue what is left over.
Stages(b) ==
  LET least    == IF b.epi_n <= 16 THEN 4 ELSE 2
      loads    == IF b.c = 0 THEN 0 ELSE least
      epi      == b.cells * b.d + b.aux_tile
      ab       == AbBytes(b) + IF b.prefetch = "k" THEN 4 * TileK ELSE 0
      left     == Capacity(b.arch) - Reserved(b) - FoldSeq(+, 0, b.vectors)
                    - epi * least - b.cells * b.c * loads
  IN  [ab |-> left \div ab, c |-> loads,
       epi |-> least + IF epi > 0 THEN (left % ab) \div epi ELSE 0]

\* The fields of the epilogue's struct from byte `at` on: smaller ones first,
\* each aligned on its own.
EpiEnd(b, stages, at) ==
  LET vectors == SortSeq(SelectSeq(b.vectors, LAMBDA v : v > 0), <)
      packed  == FoldLeft(LAMBDA o, v : AlignUp(o, 16) + v, at, vectors)
  IN  IF b.aux_tile = 0 THEN packed ELSE AlignUp(packed, 1024) + b.aux_tile * stages.epi

\* Barriers, the scheduler's data and the prefetched row indices: of two tiles
\* of rows, or of a tile of K per stage.
HeadBytes(b, stages) ==
  LET prefetched == CASE b.prefetch = "m" -> 2 [] b.prefetch = "k" -> stages.ab
                      [] OTHER -> 0
      sched      == IF b.pingpong THEN 2 ELSE 1
      pipelines  == stages.ab + stages.c + prefetched + sched
                      + IF b.arch = 10 THEN b.acc ELSE 0
      data       == IF b.arch = 10 THEN 48 + 8 + 4 ELSE 16 * sched
  IN  AlignUp(16 * pipelines + data, 16)
        + 4 * prefetched * IF b.prefetch = "m" THEN b.cta ELSE TileK

\* SharedStorage: the head, D, C, the epilogue, A and B.
Storage(b, stages) ==
  LET tiles == AlignUp(HeadBytes(b, stages), 1024) + b.cells * (b.d * stages.epi + b.c * stages.c)
  IN  AlignUp(EpiEnd(b, stages, tiles), 1024) + AbBytes(b) * stages.ab

\* Columns of tensor memory for the accumulators of a CTA.
TmemColumns(c) == IF c.arch # 10 THEN 0 ELSE IF c.n > 256 THEN c.n ELSE 2 * c.n
=============================================================================
