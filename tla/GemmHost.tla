------------------------------ MODULE GemmHost ------------------------------
(***************************************************************************)
(* From a call to a launch: gemm_interface hands a configuration to        *)
(* quack/gemm.py, whose kernel class turns it into the arguments of a tile *)
(* scheduler (gemm_base.py).  Here a GemmConfig becomes a kernel of        *)
(* TileScheduler, which then runs.                                         *)
(*                                                                         *)
(* The shapes of a call are a record: m, n, l (batches), cu (cu_seqlens_m  *)
(* where the job is varlen "m"), perm (batch_idx_permute), dynamic         *)
(* (dynamic_scheduler) and active, the clusters that fit on the device at  *)
(* once (max_active_clusters).                                             *)
(***************************************************************************)
EXTENDS TileScheduler, GemmConfig

\* Static on SM120, whatever is asked for: no semaphore is made and there is no
\* cluster launch control.
PersistenceMode(c, call) ==
  CASE ~(c.dynamic \/ call.dynamic) -> "static"
    [] c.arch = 9                   -> "dynamic"
    [] c.arch = 10                  -> "clc"
    [] OTHER                        -> "static"

\* get_scheduler_arguments; A and B change places with swap_ab.
NTile(c, call) ==
  IF c.swap THEN <<CeilOf(call.n, CtaM(c)), CeilOf(call.m, c.n)>>
            ELSE <<CeilOf(call.m, CtaM(c)), CeilOf(call.n, c.n)>>

Scheduled(c, job, call, ntile) ==
  [sched |-> IF job.varlen = "m" THEN "varlen" ELSE "dense",
   mode |-> PersistenceMode(c, call), raster |-> "heuristic", group |-> c.group,
   m |-> ntile[1], n |-> ntile[2], l |-> call.l, cm |-> c.cm, cn |-> c.cn,
   rows |-> CtaM(c), perm |-> call.perm, cu |-> call.cu, total |-> Last(call.cu),
   active |-> call.active]

\* What the kernel class makes of the config.
Built(c, job, build) ==
  [arch |-> c.arch, accepted |-> Accepted(c, job), ab_stage |-> Stages(build).ab,
   smem |-> Storage(build, Stages(build)), tmem |-> TmemColumns(c),
   registers |-> RegistersTaken(c, job)]

KernelOf(c, job, call) ==
  Scheduled(c, job, call, NTile(c, call))
    @@ Built(c, job, Build(c, job, EpiTile(c, job)))

-----------------------------------------------------------------------------
(***************************************************************************)
(* Whatever candidate the pruning leaves for a call, the kernel class does *)
(* not refuse it, at least one stage of A and B is left, the buffers with  *)
(* all their padding fit shared memory although the stages were counted    *)
(* without it, the accumulators fit tensor memory and the warp groups'     *)
(* registers the register file.                                            *)
(***************************************************************************)
ConfigFits ==
  /\ kernel.accepted
  /\ kernel.ab_stage >= 1
  /\ kernel.smem <= Capacity(kernel.arch)
  /\ kernel.tmem <= 512
  /\ kernel.registers <= 65536
=============================================================================
