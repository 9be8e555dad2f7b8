--------------------------- MODULE GemmPrecompile ---------------------------
(***************************************************************************)
(* A program that runs twice: first in compile-only mode on fake tensors,  *)
(* where each custom op of quack/gemm_interface.py compiles the kernel of  *)
(* its default configuration into the persistent cache; then for real,     *)
(* with tuned=False.  A call goes from the public function to its custom   *)
(* op, whose schema splits alpha, beta and sr_seed into a scalar and a     *)
(* tensor; from there through the op's body, or through its fake, to the   *)
(* function that picks the configuration, to the host function of the      *)
(* kernel (gemm.py, gemm_act.py, gemm_dact.py, gemm_symmetric.py,          *)
(* gemm_norm_act.py, gemm_sq_reduce.py), and to its compile function,      *)
(* whose arguments are the key of the cache.                               *)
(*                                                                         *)
(* Arguments are records from parameter names to values.  A tensor is its  *)
(* dtype, its rank and whether its last dimension is contiguous; a scalar  *)
(* is "one" (1.0), "value" or "tensor".                                    *)
(***************************************************************************)
EXTENDS GemmConfig, TLC

VARIABLES request,     \* the call
          stage,       \* the pass that is next, or "done"
          kernels,     \* the keys in the cache
          outcome      \* of the second pass

precompileVars == <<request, stage, kernels, outcome>>

-----------------------------------------------------------------------------
None == [dt |-> "none", nd |-> 0, row |-> FALSE]
Given(t) == t # None
Transposed(t) == IF Given(t) THEN [t EXCEPT !.row = ~@] ELSE t
Unsqueezed(t, flat) == IF t.nd = 2 /\ ~flat THEN [t EXCEPT !.nd = 3] ELSE t
Wide(t) == t.dt = "f32"

Mode(scalar) == CASE scalar = "tensor" -> 2 [] scalar = "value" -> 1 [] OTHER -> 0

Scalar(x) == IF x = "tensor" THEN "one" ELSE x
ScalarTensor(x) == IF x = "tensor" THEN "tensor" ELSE "none"
MergeTensor(value, tensor) == IF tensor # "none" THEN tensor ELSE value

Without(kw, names) == [n \in DOMAIN kw \ names |-> kw[n]]

-----------------------------------------------------------------------------
(* The public functions: the custom op they call and its arguments.         *)

\* What the arguments of a request are called in each op.
Operands(r) == [A |-> r.A, B |-> r.B, dynamic_scheduler |-> r.dynamic]
Lengths(r) == [cu_seqlens_m |-> r.varlen = "m", A_idx |-> r.gather]
FlatRanges(r) == Lengths(r) @@ [cu_seqlens_k |-> r.varlen = "k", batch_idx_permute |-> r.perm]
Alpha(r) == [alpha |-> Scalar(r.alpha), alpha_tensor |-> ScalarTensor(r.alpha)]
AlphaBeta(r) == Alpha(r) @@ [beta |-> Scalar(r.beta), beta_tensor |-> ScalarTensor(r.beta)]

PublicGemm(r) ==
  [op |-> "gemm_out",
   kw |-> Operands(r) @@ FlatRanges(r) @@ Alpha(r) @@
            [out |-> r.out, bias |-> r.bias, rounding_mode |-> r.rounding, sr_seed |-> "one",
             sr_seed_tensor |-> ScalarTensor(r.seed), concat_layout |-> r.concat]]

PublicGemmAddInplace(r) ==
  [op |-> "gemm_add_inplace_op",
   kw |-> Operands(r) @@ FlatRanges(r) @@ AlphaBeta(r) @@ [out |-> r.out, concat_layout |-> r.concat]]

\* gemm_add, where C may be out itself.
PublicGemmAdd(r) ==
  IF r.aliasC /\ r.beta = "one" /\ r.varlen # "m" THEN PublicGemmAddInplace(r)
  ELSE [op |-> "gemm_add_out",
        kw |-> Operands(r) @@ FlatRanges(r) @@ AlphaBeta(r) @@
                 [C |-> r.C, out |-> r.out, add_to_output |-> FALSE, concat_layout |-> r.concat]]

PublicGemmAct(r) ==
  LET kw == Operands(r) @@ Lengths(r) @@
              [preact_out |-> IF r.store THEN r.out ELSE None, postact_out |-> r.aux,
               C |-> r.C, bias |-> r.bias, activation |-> r.act]
  IN  IF r.act = "gated" THEN [op |-> "gemm_gated_out", kw |-> kw @@ [concat_layout |-> r.concat]]
      ELSE [op |-> "gemm_act_out", kw |-> kw]

PublicGemmDAct(r) ==
  LET kw == Operands(r) @@ Lengths(r) @@
              [PreAct |-> r.C, dx_out |-> r.out, postact_out |-> r.aux, activation |-> r.act]
  IN  IF r.act = "gated"
        THEN [op |-> "gemm_dgated_out",
              kw |-> kw @@ [colvec_scale |-> r.col, colvec_reduce |-> r.reduce]]
        ELSE [op |-> "gemm_dact_out", kw |-> kw]

PublicGemmSymmetric(r) ==
  [op |-> "gemm_symmetric_out", kw |-> Operands(r) @@ AlphaBeta(r) @@ [out |-> r.out, C |-> r.C]]

PublicGemmRms(r) ==
  [op |-> "gemm_rms_out",
   kw |-> Operands(r) @@ [out |-> r.out, C |-> r.C, norm_weight |-> r.bias, premult_out |-> r.aux]]

PublicGemmNormAct(r) ==
  [op |-> IF r.act = "gated" THEN "gemm_norm_gated_out" ELSE "gemm_norm_act_out",
   kw |-> Operands(r) @@ [preact_out |-> IF r.store THEN r.out ELSE None, postact_out |-> r.aux,
                          C |-> r.C, rstd |-> r.col, activation |-> r.act]]

OpCall(r) ==
  CASE r.fn = "gemm"      -> PublicGemm(r)
    [] r.fn = "add"       -> PublicGemmAdd(r)
    [] r.fn = "inplace"   -> PublicGemmAddInplace(r)
    [] r.fn = "act"       -> PublicGemmAct(r)
    [] r.fn = "dact"      -> PublicGemmDAct(r)
    [] r.fn = "symmetric" -> PublicGemmSymmetric(r)
    [] r.fn = "rms"       -> PublicGemmRms(r)
    [] r.fn = "norm_act"  -> PublicGemmNormAct(r)

-----------------------------------------------------------------------------
(* The autotuned functions: parameters and defaults.                        *)

NoLengths == [cu_seqlens_m |-> FALSE, A_idx |-> FALSE, dynamic_scheduler |-> FALSE]
GemmParameters ==
  NoLengths @@ [A |-> None, B |-> None, out |-> None, C |-> None, bias |-> None,
    alpha |-> "one", beta |-> "one", cu_seqlens_k |-> FALSE, batch_idx_permute |-> FALSE,
    add_to_output |-> FALSE, rounding_mode |-> "RN", sr_seed |-> "one", concat_layout |-> {}]
ActParameters ==
  NoLengths @@ [A |-> None, B |-> None, preact_out |-> None, postact_out |-> None,
    C |-> None, bias |-> None, activation |-> "none"]
DActParameters ==
  NoLengths @@ [A |-> None, B |-> None, PreAct |-> None, dx_out |-> None, postact_out |-> None,
    activation |-> "none"]
RmsParameters ==
  [A |-> None, B |-> None, out |-> None, C |-> None, norm_weight |-> None,
   premult_out |-> None, dynamic_scheduler |-> FALSE]
NormActParameters ==
  [A |-> None, B |-> None, preact_out |-> None, postact_out |-> None, C |-> None,
   rstd |-> None, activation |-> "none", dynamic_scheduler |-> FALSE]

Parameters(op) ==
  CASE op \in {"gemm_out", "gemm_add_out", "gemm_add_inplace_op"} -> GemmParameters
    [] op = "gemm_act_out"   -> ActParameters
    [] op = "gemm_gated_out" -> ActParameters @@ [concat_layout |-> {}]
    [] op = "gemm_dact_out"  -> DActParameters
    [] op = "gemm_dgated_out" -> DActParameters @@ [colvec_scale |-> None, colvec_reduce |-> FALSE]
    [] op = "gemm_rms_out"   -> RmsParameters
    [] op \in {"gemm_norm_act_out", "gemm_norm_gated_out"} -> NormActParameters

-----------------------------------------------------------------------------
(* The op's body: what it passes on with config=None.                       *)

Passed(kw, names) == [n \in names |-> kw[n]]

AddArgs(kw) == [alpha |-> MergeTensor(kw.alpha, kw.alpha_tensor),
                beta  |-> MergeTensor(kw.beta, kw.beta_tensor)]

GemmBody(kw) ==
  Passed(kw, {"A", "B", "out", "bias", "cu_seqlens_m", "cu_seqlens_k", "A_idx",
              "batch_idx_permute", "dynamic_scheduler", "rounding_mode", "concat_layout"})
    @@ [C |-> None, alpha |-> MergeTensor(kw.alpha, kw.alpha_tensor),
        sr_seed |-> MergeTensor(kw.sr_seed, kw.sr_seed_tensor)]

GemmAddBody(kw) ==
  Passed(kw, {"A", "B", "out", "C", "cu_seqlens_m", "cu_seqlens_k", "A_idx",
              "batch_idx_permute", "add_to_output", "dynamic_scheduler", "concat_layout"})
    @@ AddArgs(kw)

GemmAddInplaceBody(kw) ==
  LET add == AddArgs(kw).beta = "one" /\ ~kw.cu_seqlens_m
  IN  Passed(kw, {"A", "B", "out", "cu_seqlens_m", "cu_seqlens_k", "A_idx",
                  "batch_idx_permute", "dynamic_scheduler", "concat_layout"})
        @@ AddArgs(kw) @@ [add_to_output |-> add, C |-> IF add THEN None ELSE kw.out]

ActBody(kw) ==
  Passed(kw, {"A", "B", "preact_out", "postact_out", "C", "bias", "activation",
              "cu_seqlens_m", "A_idx", "dynamic_scheduler"})
GatedBody(kw) == ActBody(kw) @@ Passed(kw, {"concat_layout"})
DActBody(kw) ==
  Passed(kw, {"A", "B", "PreAct", "dx_out", "postact_out", "activation",
              "cu_seqlens_m", "A_idx", "dynamic_scheduler"})
DGatedBody(kw) == DActBody(kw) @@ Passed(kw, {"colvec_scale", "colvec_reduce"})
RmsBody(kw) ==
  Passed(kw, {"A", "B", "out", "C", "norm_weight", "premult_out", "dynamic_scheduler"})
NormActBody(kw) ==
  Passed(kw, {"A", "B", "preact_out", "postact_out", "C", "rstd", "activation",
              "dynamic_scheduler"})

Body(op, kw) ==
  CASE op = "gemm_out"            -> GemmBody(kw)
    [] op = "gemm_add_out"        -> GemmAddBody(kw)
    [] op = "gemm_add_inplace_op" -> GemmAddInplaceBody(kw)
    [] op = "gemm_act_out"        -> ActBody(kw)
    [] op = "gemm_gated_out"      -> GatedBody(kw)
    [] op = "gemm_dact_out"       -> DActBody(kw)
    [] op = "gemm_dgated_out"     -> DGatedBody(kw)
    [] op = "gemm_rms_out"        -> RmsBody(kw)
    [] op \in {"gemm_norm_act_out", "gemm_norm_gated_out"} -> NormActBody(kw)

-----------------------------------------------------------------------------
(* The op's fake: what it passes on with config=None.                       *)

Unified == [alpha_tensor |-> "alpha", beta_tensor |-> "beta", sr_seed_tensor |-> "sr_seed"]

\* _derive_tensor_split_pairs: every parameter of that form, of any op.
SplitNames(kw) == DOMAIN kw \cap DOMAIN Unified

OnlyPopped(kw) == Without(kw, SplitNames(kw))   \* mutated form of Rewritten
\* _apply_schema_split_rewrite
Rewritten(kw) ==
  [n \in DOMAIN kw \ SplitNames(kw) |->
     LET tensors == {kw[s] : s \in {s \in SplitNames(kw) : Unified[s] = n}} \ {"none"}
     IN  IF tensors = {} THEN kw[n] ELSE "tensor"]

\* gemm_add_inplace has a fake of its own.
GemmAddInplaceFake(kw) ==
  LET beta == MergeTensor(kw.beta, kw.beta_tensor)
      add  == beta = "one" /\ ~kw.cu_seqlens_m
  IN  Without(kw, SplitNames(kw) \cup {"alpha", "beta"})
        @@ [alpha |-> MergeTensor(kw.alpha, kw.alpha_tensor), beta |-> beta,
            add_to_output |-> add, C |-> IF add THEN None ELSE kw.out]

\* gemm_dgated_out_fake and _gemm_rms_out_fake, too, pass all they get.
Fake(op, kw) ==
  CASE op = "gemm_out"            -> Rewritten(kw) @@ [C |-> None]
    [] op = "gemm_add_inplace_op" -> GemmAddInplaceFake(kw)
    [] OTHER                      -> Rewritten(kw)

-----------------------------------------------------------------------------
(* The autotuned functions: from their arguments to those of the host.      *)

Default8 == [arch |-> 8, m |-> 128, n |-> 128, cm |-> 1, cn |-> 1, pingpong |-> FALSE,
             dynamic |-> FALSE, swap |-> FALSE, tma |-> FALSE, group |-> 8]
ConfigOf(cap) == CASE cap = 8 -> Default8 [] cap = 11 -> DefaultConfig(10) [] OTHER -> DefaultConfig(cap)

\* nvmmh_config speaks of pure products only, where its library is there.
IsPure(t) == /\ ~t.cu_seqlens_m /\ ~t.cu_seqlens_k /\ ~t.A_idx /\ ~t.add_to_output
             /\ ~Given(t.C) /\ ~Given(t.bias)

SemaphoreAlways(dynamic, cap) == dynamic   \* mutated form of Semaphore
Semaphore(dynamic, cap) == dynamic /\ cap = 9

Sided(c, t) == IF c.swap THEN Transposed(t) ELSE t

\* What all host functions are given; absent arguments have their defaults.
HostArgs(kernel, cap, c, t, a, b, d, cc) ==
  LET dynamic == t.dynamic_scheduler \/ c.dynamic
  IN  [kernel |-> kernel, cap |-> cap, A |-> IF c.swap THEN b ELSE a, B |-> IF c.swap THEN a ELSE b,
       D |-> Sided(c, d), C |-> Sided(c, cc), aux |-> None, tile |-> <<c.m, c.n>>,
       cluster |-> <<c.cm, c.cn>>, pingpong |-> c.pingpong, dynamic |-> dynamic,
       semaphore |-> Semaphore(dynamic, cap), tma |-> c.tma, act |-> "none",
       row |-> None, col |-> None, reduce |-> None, alpha |-> "one", beta |-> "one",
       varlen |-> "none", gather |-> FALSE, perm |-> FALSE, add_to_output |-> FALSE,
       rounding |-> "RN", seed |-> "one", concat |-> {}]

\* A bias of four bytes is permuted by the kernel, under the name key.
KernelConcat(concat, bias, key) ==
  (concat \ {"bias"}) \cup IF "bias" \in concat /\ Wide(bias) THEN {key} ELSE {}
SwapNames(names) ==
  {CASE n = "A" -> "B" [] n = "B" -> "A" [] n = "mRowVecBroadcast" -> "mColVecBroadcast"
     [] OTHER -> n : n \in names}

Biases(c, bias) == IF c.swap THEN [row |-> None, col |-> bias] ELSE [row |-> bias, col |-> None]
Vector(t) == IF t.nd = 1 THEN [t EXCEPT !.nd = 2] ELSE t

GemmTuned(t, cap, heuristic) ==
  LET c == IF IsPure(t) /\ heuristic # {} THEN CHOOSE h \in heuristic : TRUE ELSE ConfigOf(cap)
      m == t.cu_seqlens_m
      names == KernelConcat(t.concat_layout, t.bias, "mRowVecBroadcast")
  IN  [alpha |-> t.alpha, beta |-> t.beta, gather |-> t.A_idx, perm |-> t.batch_idx_permute,
       varlen |-> IF m THEN "m" ELSE IF t.cu_seqlens_k THEN "k" ELSE "none",
       add_to_output |-> t.add_to_output, rounding |-> t.rounding_mode, seed |-> t.sr_seed,
       concat |-> IF c.swap THEN SwapNames(names) ELSE names]
        @@ Biases(c, Vector(t.bias))
        @@ HostArgs("gemm", cap, c, t, Unsqueezed(t.A, m \/ t.cu_seqlens_k),
                    Unsqueezed(Transposed(t.B), t.cu_seqlens_k), Unsqueezed(t.out, m), Unsqueezed(t.C, m))

\* gemm_act_tuned and gemm_gated_tuned.
ActTuned(t, cap) ==
  LET c == ConfigOf(cap)
      m == t.cu_seqlens_m
      names == IF "concat_layout" \in DOMAIN t THEN t.concat_layout ELSE {}
  IN  [act |-> t.activation, aux |-> Sided(c, Unsqueezed(t.postact_out, m)), gather |-> t.A_idx,
       varlen |-> IF m THEN "m" ELSE "none",
       concat |-> KernelConcat(names, t.bias, IF c.swap THEN "mColVecBroadcast" ELSE "mRowVecBroadcast")]
        @@ Biases(c, Vector(t.bias))
        @@ HostArgs("act", cap, c, t, Unsqueezed(t.A, m), Unsqueezed(Transposed(t.B), FALSE),
                    Unsqueezed(t.preact_out, m), Unsqueezed(t.C, m))

DActTuned(t, cap) ==
  LET c == ConfigOf(cap)
      m == t.cu_seqlens_m
  IN  [act |-> t.activation, aux |-> Sided(c, Unsqueezed(t.postact_out, m)), gather |-> t.A_idx,
       varlen |-> IF m THEN "m" ELSE "none"]
        @@ HostArgs("dact", cap, c, t, Unsqueezed(t.A, m), Unsqueezed(Transposed(t.B), FALSE),
                    Unsqueezed(t.dx_out, m), Unsqueezed(t.PreAct, m))

\* The partial sums of colvec_reduce are as ragged as the rows.
DGatedTuned(t, cap) ==
  [col |-> IF t.cu_seqlens_m THEN t.colvec_scale ELSE Vector(t.colvec_scale),
   reduce |-> IF t.colvec_reduce
                THEN [dt |-> "f32", nd |-> IF t.cu_seqlens_m THEN 2 ELSE 3, row |-> TRUE] ELSE None]
    @@ DActTuned(t, cap)

RmsTuned(t, cap) ==
  [row |-> Vector(t.norm_weight), aux |-> Unsqueezed(t.premult_out, FALSE),
   reduce |-> [dt |-> "f32", nd |-> 3, row |-> TRUE]]
    @@ HostArgs("sq_reduce", cap, ConfigOf(cap), t, Unsqueezed(t.A, FALSE),
                Unsqueezed(Transposed(t.B), FALSE), Unsqueezed(t.out, FALSE), Unsqueezed(t.C, FALSE))

\* rstd scales the rows of the caller's output.
NormActTuned(t, cap) ==
  LET c == ConfigOf(cap)
      rstd == Vector(t.rstd)
  IN  [act |-> t.activation, aux |-> Sided(c, Unsqueezed(t.postact_out, FALSE)),
       col |-> IF c.swap THEN None ELSE rstd, row |-> IF c.swap THEN rstd ELSE None]
        @@ HostArgs("norm_act", cap, c, t, Unsqueezed(t.A, FALSE), Unsqueezed(Transposed(t.B), FALSE),
                    Unsqueezed(t.preact_out, FALSE), Unsqueezed(t.C, FALSE))

\* The function behind op, called with arguments t.
Tuned(op, t, r) ==
  CASE op \in {"gemm_out", "gemm_add_out", "gemm_add_inplace_op"} -> GemmTuned(t, r.cap, r.heuristic)
    [] op \in {"gemm_act_out", "gemm_gated_out"} -> ActTuned(t, r.cap)
    [] op = "gemm_dact_out"   -> DActTuned(t, r.cap)
    [] op = "gemm_dgated_out" -> DGatedTuned(t, r.cap)
    [] op = "gemm_rms_out"    -> RmsTuned(t, r.cap)
    [] op \in {"gemm_norm_act_out", "gemm_norm_gated_out"} -> NormActTuned(t, r.cap)

-----------------------------------------------------------------------------
(* gemm_symmetric is not autotuned: one configuration for each device.      *)

SymmetricConfig(cap) ==
  LET t == CASE cap = 9 -> <<128, 256, 2, FALSE>> [] cap \in {10, 11} -> <<256, 256, 2, FALSE>>
             [] cap = 12 -> <<128, 128, 1, TRUE>> [] OTHER -> <<128, 128, 1, FALSE>>
  IN  [Default8 EXCEPT !.m = t[1], !.n = t[2], !.cm = t[3], !.pingpong = t[4]]

SymmetricHost(kw, cap, dynamic) ==
  LET d == Unsqueezed(kw.out, FALSE)
  IN  [dynamic |-> dynamic, semaphore |-> kw.dynamic_scheduler, aux |-> Transposed(d)]
        @@ AddArgs(kw)
        @@ HostArgs("symmetric", cap, SymmetricConfig(cap), kw, Unsqueezed(kw.A, FALSE),
                    Unsqueezed(Transposed(kw.B), FALSE), d, Unsqueezed(kw.C, FALSE))

SymmetricBody(kw, cap) == SymmetricHost(kw, cap, cap >= 10)
\* is_dynamic_persistent keeps its default.
SymmetricFake(kw, cap) == SymmetricHost(kw, cap, FALSE)

-----------------------------------------------------------------------------
(* The host functions: what they refuse, and what they compile for.         *)

IsGated(h) == h.act = "gated"

\* The dgated kernel writes and reads pairs of two bytes as four.
Paired(h, t) == IF h.kernel = "dact" /\ IsGated(h) THEN [t EXCEPT !.dt = "f32"] ELSE t

\* Contiguous the other way; a row of matrices keeps its batches.
IsColumn(t) == Given(t) => ~t.row
IsRow(t) == Given(t) => t.row

GemmRefuses(h) ==
  \/ h.gather /\ (h.varlen = "none" \/ h.cluster[2] # 1)
  \/ h.add_to_output /\ h.varlen = "m"
  \/ h.varlen = "m" /\ ~(IsRow(h.A) /\ IsRow(h.D))
  \/ h.varlen = "k" /\ ~(IsColumn(h.A) /\ IsColumn(h.B))
  \/ h.tma /\ h.cap \notin {10, 11}
  \/ h.rounding = "RS" /\ h.cap # 10
  \/ h.dynamic /\ h.cap <= 9 /\ ~h.semaphore

\* gemm_act, gemm_dact, gemm_norm_act_fn, gemm_sq_reduce.
EpilogueRefuses(h) ==
  \/ h.varlen = "m" /\ ~(\A t \in {h.A, h.D, h.aux} : IsRow(t))
  \/ h.varlen = "m" /\ h.kernel = "dact" /\ ~IsRow(h.C)
  \/ h.gather /\ (h.varlen # "m" \/ h.cluster[2] # 1)
  \/ h.kernel = "dact" /\ ~IsGated(h) /\ (Given(h.col) \/ Given(h.reduce))
  \/ h.kernel = "dact" /\ IsGated(h) /\ (Wide(h.D) \/ Wide(h.C))
  \/ h.dynamic /\ h.cap = 9 /\ ~h.semaphore

Refuses(h) ==
  CASE h.kernel = "gemm"      -> GemmRefuses(h)
    [] h.kernel = "symmetric" -> h.dynamic /\ h.cap <= 9 /\ ~h.semaphore
    [] OTHER                  -> EpilogueRefuses(h)

Layout(t) == [dt |-> t.dt, row |-> t.row]

\* What every compile function takes; an SM80 kernel adds to C instead.
BaseKey(h) ==
  LET c == IF h.add_to_output /\ h.cap = 8 THEN h.D ELSE h.C
  IN  [kernel |-> h.kernel, A |-> Layout(h.A), B |-> Layout(h.B), D |-> Layout(Paired(h, h.D)),
       C |-> Layout(Paired(h, c)), tile |-> h.tile, cluster |-> h.cluster,
       pingpong |-> h.pingpong, dynamic |-> h.dynamic, cap |-> h.cap]

SeedMode(h) == IF h.seed = "tensor" THEN 2 ELSE IF h.rounding = "RS" THEN 1 ELSE 0

GemmKey(h) ==
  BaseKey(h) @@
    [row |-> h.row.dt, col |-> h.col.dt, col_nd |-> h.col.nd, alpha |-> Mode(h.alpha),
     beta |-> Mode(h.beta), add |-> h.add_to_output /\ h.cap # 8, concat |-> h.concat,
     varlen |-> h.varlen, gather |-> h.gather, tma |-> h.tma, perm |-> h.perm,
     rounding |-> h.rounding, seed |-> SeedMode(h)]

ActKey(h) ==
  BaseKey(h) @@
    [aux |-> Layout(h.aux), act |-> h.act, row |-> h.row.dt, col |-> h.col.dt,
     col_nd |-> h.col.nd, varlen |-> h.varlen, gather |-> h.gather, concat |-> h.concat,
     rounding |-> h.rounding, seed |-> SeedMode(h), tma |-> h.tma]

DActKey(h) ==
  BaseKey(h) @@
    [aux |-> Layout(h.aux), implicit |-> IF IsGated(h) THEN h.D.dt ELSE "none", act |-> h.act,
     col |-> h.col.dt, col_nd |-> h.col.nd, reduce |-> h.reduce.dt, reduce_nd |-> h.reduce.nd,
     varlen |-> h.varlen, gather |-> h.gather, tma |-> h.tma]

SymmetricKey(h) ==
  BaseKey(h) @@ [aux |-> Layout(h.aux), alpha |-> Mode(h.alpha), beta |-> Mode(h.beta)]

NormActKey(h) ==
  BaseKey(h) @@
    [aux |-> Layout(h.aux), act |-> h.act, row |-> h.row.dt, col |-> h.col.dt,
     col_nd |-> h.col.nd, varlen |-> h.varlen, gather |-> h.gather,
     rounding |-> h.rounding, seed |-> SeedMode(h)]

SqReduceKey(h) ==
  BaseKey(h) @@ [reduce |-> h.reduce.dt, reduce_nd |-> h.reduce.nd, row |-> h.row.dt,
                 aux |-> Layout(h.aux)]

Key(h) ==
  CASE h.kernel = "gemm"      -> GemmKey(h)
    [] h.kernel = "act"       -> ActKey(h)
    [] h.kernel = "dact"      -> DActKey(h)
    [] h.kernel = "symmetric" -> SymmetricKey(h)
    [] h.kernel = "norm_act"  -> NormActKey(h)
    [] h.kernel = "sq_reduce" -> SqReduceKey(h)

-----------------------------------------------------------------------------
(* The arguments the compiled kernel takes: those of its compile function,  *)
(* over what a kernel without epilogue tensors and ranges takes.            *)

Plain == [aux |-> None, row |-> None, col |-> None, reduce |-> None, alpha |-> 0, beta |-> 0,
          seed |-> 0, perm |-> FALSE, varlen |-> "none", gather |-> FALSE]

Fakes(layout, nd) == IF layout.dt = "none" THEN None ELSE layout @@ [nd |-> nd]
FakeVector(dt, nd) == Fakes([dt |-> dt, row |-> TRUE], nd)

\* make_fake_gemm_tensors
FakeMain(key, varlen) ==
  [A |-> Fakes(key.A, IF varlen = "none" THEN 3 ELSE 2),
   B |-> Fakes(key.B, IF varlen = "k" THEN 2 ELSE 3),
   D |-> Fakes(key.D, IF varlen = "m" THEN 2 ELSE 3),
   C |-> Fakes(key.C, IF varlen = "m" THEN 2 ELSE 3)]

FakeScheduler(key, devices) == [semaphore |-> key.dynamic /\ key.cap \in devices]
FakeVarlen(key) == [varlen |-> key.varlen, gather |-> key.gather /\ key.varlen # "none"]
FakeBiases(key) == [row |-> FakeVector(key.row, 2), col |-> FakeVector(key.col, key.col_nd)]
FakeAux(key, varlen) == [aux |-> Fakes(key.aux, IF varlen = "m" THEN 2 ELSE 3)]

\* Half as wide, the output of a gated kernel is a matrix of its own.
FakePostAct(key) ==
  LET fake == FakeAux(key, key.varlen)
  IN  IF key.act = "gated" THEN [fake EXCEPT !.aux.row = TRUE] ELSE fake

\* Scale factors of A and B, and the trace pointer.
TrailingArguments(cap) == [trailing |-> IF cap \in {8, 9, 12} THEN 1 ELSE 3]

GemmSignature(key) ==
  [alpha |-> key.alpha, beta |-> key.beta, seed |-> key.seed, perm |-> key.perm]
    @@ FakeBiases(key) @@ FakeMain(key, key.varlen) @@ FakeScheduler(key, {8, 9}) @@ FakeVarlen(key)
ActSignature(key) ==
  [seed |-> key.seed] @@ FakePostAct(key) @@ FakeBiases(key)
    @@ FakeMain(key, key.varlen) @@ FakeScheduler(key, {9}) @@ FakeVarlen(key)
DActSignature(key) ==
  (IF key.act = "gated" THEN [col |-> FakeVector(key.col, key.col_nd),
                              reduce |-> FakeVector(key.reduce, key.reduce_nd)] ELSE <<>>)
    @@ FakeAux(key, key.varlen) @@ FakeMain(key, key.varlen) @@ FakeScheduler(key, {9}) @@ FakeVarlen(key)
SymmetricSignature(key) ==
  [alpha |-> key.alpha, beta |-> key.beta] @@ FakeAux(key, "none")
    @@ FakeMain(key, "none") @@ FakeScheduler(key, {9})
NormActSignature(key) ==
  [seed |-> key.seed] @@ FakePostAct(key) @@ FakeBiases(key)
    @@ FakeMain(key, key.varlen) @@ FakeScheduler(key, {9}) @@ FakeVarlen(key)
SqReduceSignature(key) ==
  [reduce |-> FakeVector(key.reduce, IF key.reduce_nd = 3 THEN 3 ELSE 2), row |-> FakeVector(key.row, 2)]
    @@ FakeAux(key, "none") @@ FakeMain(key, "none") @@ FakeScheduler(key, {9})

Signature(key) ==
  (CASE key.kernel = "gemm"      -> GemmSignature(key)
     [] key.kernel = "act"       -> ActSignature(key)
     [] key.kernel = "dact"      -> DActSignature(key)
     [] key.kernel = "symmetric" -> SymmetricSignature(key)
     [] key.kernel = "norm_act"  -> NormActSignature(key)
     [] key.kernel = "sq_reduce" -> SqReduceSignature(key))
    @@ TrailingArguments(key.cap) @@ Plain

-----------------------------------------------------------------------------
(* The arguments a launch passes.                                           *)

Ranges(h) == [varlen |-> h.varlen, gather |-> h.gather]
PassedVectors(h) == [row |-> h.row, col |-> h.col]

GemmLaunch(h) ==
  [alpha |-> Mode(h.alpha), beta |-> Mode(h.beta), seed |-> SeedMode(h), perm |-> h.perm]
    @@ PassedVectors(h) @@ Ranges(h)
ActLaunch(h) == [aux |-> h.aux, seed |-> SeedMode(h)] @@ PassedVectors(h) @@ Ranges(h)
DActLaunch(h) ==
  (IF IsGated(h) THEN [col |-> h.col, reduce |-> h.reduce] ELSE <<>>) @@ [aux |-> h.aux] @@ Ranges(h)
SymmetricLaunch(h) == [aux |-> h.aux, alpha |-> Mode(h.alpha), beta |-> Mode(h.beta)]
NormActLaunch(h) == [aux |-> h.aux, seed |-> SeedMode(h)] @@ PassedVectors(h) @@ Ranges(h)
SqReduceLaunch(h) == [row |-> h.row, reduce |-> h.reduce, aux |-> h.aux]

Launched(h) ==
  (CASE h.kernel = "gemm"      -> GemmLaunch(h)
     [] h.kernel = "act"       -> ActLaunch(h)
     [] h.kernel = "dact"      -> DActLaunch(h)
     [] h.kernel = "symmetric" -> SymmetricLaunch(h)
     [] h.kernel = "norm_act"  -> NormActLaunch(h)
     [] h.kernel = "sq_reduce" -> SqReduceLaunch(h))
    @@ [A |-> h.A, B |-> h.B, D |-> Paired(h, h.D),
        C |-> Paired(h, IF h.add_to_output /\ h.cap = 8 THEN h.D ELSE h.C),
        semaphore |-> h.semaphore, trailing |-> IF h.cap \in {10, 11} THEN 3 ELSE 1]
    @@ Plain

-----------------------------------------------------------------------------
(* The two passes.                                                          *)

FakeHost(r) ==
  LET c == OpCall(r)
  IN  IF r.fn = "symmetric" THEN SymmetricFake(c.kw, r.cap)
      ELSE Tuned(c.op, Fake(c.op, c.kw) @@ Parameters(c.op), r)

\* _precompile_default_config swallows a name the function does not have.
TakesNames(r) ==
  r.fn = "symmetric" \/ LET c == OpCall(r)
                        IN  DOMAIN Fake(c.op, c.kw) \subseteq DOMAIN Parameters(c.op)

RealHost(r) ==
  LET c == OpCall(r)
  IN  IF r.fn = "symmetric" THEN SymmetricBody(c.kw, r.cap)
      ELSE Tuned(c.op, Body(c.op, c.kw) @@ Parameters(c.op), r)

PrecompileInit(r) ==
  /\ request = r
  /\ stage = "fake"
  /\ kernels = {}
  /\ outcome = [result |-> "none"]

\* The host function returns after compiling.
FakePass ==
  /\ stage = "fake"
  /\ stage' = "real"
  /\ kernels' = IF TakesNames(request) /\ ~Refuses(FakeHost(request))
                  THEN {Key(FakeHost(request))} ELSE {}
  /\ UNCHANGED <<request, outcome>>

RealCall ==
  /\ stage = "real"
  /\ stage' = "done"
  /\ outcome' = LET h == RealHost(request)
               IN  IF Refuses(h) THEN [result |-> "refused"]
                   ELSE [result |-> "launched", key |-> Key(h), passed |-> Launched(h)]
  /\ UNCHANGED <<request, kernels>>

PrecompileNext == FakePass \/ RealCall

-----------------------------------------------------------------------------
(***************************************************************************)
(* The second pass compiles nothing: what it launches was compiled by the  *)
(* first, whatever was given as scalar or tensor, flat or batched, aliased *)
(* or ragged (the comment over _merge_tensor in gemm_interface.py).        *)
(***************************************************************************)
PhaseTwoHits == outcome.result = "launched" => outcome.key \in kernels

(***************************************************************************)
(* A kernel compiled for a key fits every launch that key stands for: each *)
(* argument is there or not, has the rank, dtype and contiguous dimension  *)
(* of the fake it was compiled with, and there are as many of them; and of *)
(* the calls, only those of a dynamic scheduler on SM80 are refused.       *)
(***************************************************************************)
ArgumentsFit ==
  /\ outcome.result = "launched" => outcome.passed = Signature(outcome.key)
  /\ outcome.result = "refused" => request.cap = 8 /\ request.dynamic
=============================================================================
