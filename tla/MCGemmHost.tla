----------------------------- MODULE MCGemmHost -----------------------------
(* The calls of the public functions of gemm_interface on each device, with   *)
(* every configuration that is left for them, and shapes, swizzles and modes  *)
(* of the schedulers.                                                         *)
EXTENDS GemmHost

Job(epilogue, widths) ==
  [gather |-> FALSE, varlen |-> "none", epilogue |-> epilogue, d |-> widths[1],
   c |-> widths[2], row |-> widths[3], col |-> 0, aux |-> widths[4],
   reduce |-> widths[5]]

\* gemm, gemm_add; gemm_act, gemm_gated; gemm_dact, gemm_dgated; gemm_rms.
Gemms == {Job("none", <<d, 0, row, 0, 0>>) : d \in {2, 4}, row \in {0, 4}}
           \cup {Job("none", <<d, c, 0, 0, 0>>) : d \in {2, 4}, c \in {2, 4}}
Acts == {Job(e, <<d, c, 4, 2, 0>>) : e \in {"none", "gated"}, d \in {0, 2}, c \in {0, 2}}
DActs == {Job("none", <<2, 2, 0, 2, 0>>)}
           \cup {[Job("dgated", <<4, 4, 0, 2, reduce>>) EXCEPT !.col = 4] : reduce \in {0, 4}}
Rms == {Job("none", <<2, 0, 2, 0, 4>>), Job("none", <<2, 0, 0, 2, 4>>)}

\* Only gemm and gemm_add take cu_seqlens_k, gemm_rms takes neither.
Varlen(jobs, varlen) ==
  {[job EXCEPT !.varlen = varlen, !.gather = g] : job \in jobs, g \in BOOLEAN}
Jobs == Gemms \cup Acts \cup DActs \cup Rms
          \cup Varlen(Gemms \cup Acts \cup DActs, "m") \cup Varlen(Gemms, "k")

\* On SM120 the epilogues of four-byte C and D leave no room for A and B.
FitsSm120(job) == job.d + job.c <= 4

Candidates(arch, job) ==
  {c \in Pruned(AllConfigs(job.epilogue) \cup {DefaultConfig(arch)}, arch, job) :
     arch = 12 => FitsSm120(job)}

Call(job) ==
  [m |-> 150, n |-> 140, l |-> IF job.varlen = "m" THEN 3 ELSE 1, cu |-> <<0, 70, 70, 150>>,
   perm |-> <<0>>, dynamic |-> FALSE, active |-> 1]

HostKernels ==
  UNION {{KernelOf(c, job, Call(job)) : c \in Candidates(arch, job)} :
           arch \in {9, 10, 12}, job \in Jobs}

-----------------------------------------------------------------------------
Dense(mode, m, n, l, cm, cn, group, raster, active, perm) ==
  [sched |-> "dense", mode |-> mode, m |-> m, n |-> n, l |-> l, cm |-> cm, cn |-> cn,
   group |-> group, raster |-> raster, active |-> active, perm |-> perm,
   cu |-> <<>>, rows |-> 0, total |-> 0, accepted |-> TRUE, ab_stage |-> 1,
   smem |-> 0, tmem |-> 0, registers |-> 0, arch |-> 9]

Triangular(mode, m, l, cm, group, active) ==
  [Dense(mode, m, m, l, cm, cm, group, "heuristic", active, <<>>) EXCEPT !.sched = "triangular"]

Ragged(mode, cu, n, cm, cn, group, raster, active, total) ==
  [Dense(mode, 0, n, Len(cu) - 1, cm, cn, group, raster, active, <<>>)
     EXCEPT !.sched = "varlen", !.cu = cu, !.rows = 2, !.total = total]

\* One cluster walks: every shape, group and raster order.
Walks ==
  {Dense("static", m, n, 1, 1, 1, group, raster, 1, <<0>>) :
     m \in 1 .. 5, n \in 1 .. 5, group \in 1 .. 3, raster \in {"m", "n"}}
  \cup {Triangular("static", m, 1, 1, group, 1) : m \in 1 .. 7, group \in 1 .. 5}
  \cup {Ragged("static", cu, n, 1, 1, group, raster, 1, Last(cu)) :
          cu \in {<<0, 0, 5, 5, 5, 5, 5, 8, 8>>, <<0, 3>>, <<0, 0, 0, 0, 4, 4>>},
          n \in 1 .. 3, group \in 1 .. 3, raster \in {"m", "heuristic"}}

\* Clusters take turns: modes, cluster shapes, batches, padding.
Turns ==
  {Dense(mode, m, 2, 2, 2, 1, 8, "heuristic", 2, <<1, 0>>) :
     mode \in {"none", "static", "dynamic", "clc"}, m \in {2, 3}}
  \cup {Triangular(mode, 3, 1, 1, 2, 2) : mode \in {"static", "dynamic", "clc"}}
  \cup {Ragged(mode, <<0, 3, 3, 6>>, 2, 1, 2, 2, "heuristic", 2, 7) :
          mode \in {"static", "dynamic", "clc"}}
  \cup {Ragged(mode, <<0, 5, 5, 5, 5, 6>>, 1, 1, 1, 2, "heuristic", 3, 6) :
          mode \in {"dynamic", "clc"}}

AllKernels == HostKernels \cup Walks \cup Turns
=============================================================================
