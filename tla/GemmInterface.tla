--------------------------- MODULE GemmInterface ---------------------------
(***************************************************************************)
(* One call of a function of quack/gemm_interface.py: its shortcuts for    *)
(* empty operands, the exchange of the operands that a configuration with  *)
(* swap_ab asks for, the layouts of concatenated halves, and the tiles of  *)
(* the kernel it launches, each with the epilogue of its class:            *)
(* gemm_default_epi.py, gemm_act.py, gemm_dact.py, gemm_symmetric.py,      *)
(* gemm_sq_reduce.py and gemm_norm_act.py.  Tiles end in any order.        *)
(*                                                                         *)
(* A kernel works on D (m, n) = A (m, k) @ B (n, k).T; with swap_ab its D  *)
(* is the transpose of the caller's.  "View" is how it sees a tensor.      *)
(* The configuration of a call: swap, tm, tn and, for the symmetric one,   *)
(* cm CTAs in a square cluster; and arch, the capability of the device.    *)
(***************************************************************************)
EXTENDS GemmReference

CONSTANT Junk          \* what torch.empty holds

VARIABLES call, todo, mem

callState == <<call, todo, mem>>

-----------------------------------------------------------------------------
(* From the arguments of the function to those of the kernel.               *)

CeilDiv(a, b) == (a + b - 1) \div b
Filled(t, x) == Tensor([b \in DOMAIN t.v |-> MapRows(t.v[b], LAMBDA y : x)], t.contig)

\* beta == 1.0 as a float, on the tensor C itself: D += alpha * A @ B.
AddToOutput(c) ==
  /\ c.fn \in {"add", "inplace"} /\ c.aliasC
  /\ c.beta = 1 /\ ~c.betaTensor /\ ~VarlenM(c)

SwapNameOfVectors(name) == IF name = "mRowVecBroadcast" THEN "mColVecBroadcast" ELSE name
SwapName(name) ==
  CASE name = "A" -> "B" [] name = "B" -> "A"
    [] name = "mRowVecBroadcast" -> "mColVecBroadcast" [] OTHER -> name

\* A bias of four bytes is permuted by the kernel, any other one before it.
HasBias(c) == c.bias # <<>>
KernelNames(c) ==
  LET own == c.concat \ {"bias"}
      all == IF "bias" \in c.concat /\ HasBias(c) /\ c.wide THEN own \cup {"mRowVecBroadcast"} ELSE own
  IN  IF c.config.swap THEN {SwapName(name) : name \in all} ELSE all

BiasArg(c) == IF "bias" \in c.concat /\ ~c.wide
              THEN [b \in DOMAIN c.bias |-> Alternate(c.bias[b])] ELSE c.bias
BiasKey(c) == IF c.config.swap THEN "mColVecBroadcast" ELSE "mRowVecBroadcast"

\* The vector the epilogue reads for batch b.
KernelBias(c, b) == IF BiasKey(c) \in KernelNames(c) THEN Alternate(BiasArg(c)[b]) ELSE BiasArg(c)[b]

View(c, name, t) ==
  LET s == IF c.config.swap THEN MT(t) ELSE t
  IN  IF name \in KernelNames(c) THEN ConcatInterleave(s) ELSE s
Unview(c, name, s) ==
  LET t == IF name \notin KernelNames(c) THEN s
           ELSE Tensor([b \in DOMAIN s.v |-> IF s.contig = "row" THEN Halves(s.v[b])
                                             ELSE HalvesOfColumns(s.v[b])], s.contig)
  IN  IF c.config.swap THEN MT(t) ELSE t

\* The operands: B.mT and, with swap_ab, each in the other's place.
KernelA(c) == LET a == IF c.config.swap THEN MT(c.B) ELSE c.A
              IN  IF "A" \in KernelNames(c) THEN ConcatInterleave(a) ELSE a
KernelB(c) == LET b == IF c.config.swap THEN c.A ELSE MT(c.B)
              IN  IF "B" \in KernelNames(c) THEN ConcatInterleave(b) ELSE b

\* Rows of A and of B along k.  A batch of varlen_m has rows of the one flat
\* batch, maybe gathered; one of varlen_k has columns of both operands.
RowsOfA(c, b) ==
  LET a == KernelA(c) IN
  IF VarlenM(c) THEN [x \in 1 .. c.m |-> a.v[1][IF c.idx = <<>> THEN x ELSE c.idx[x]]]
  ELSE IF VarlenK(c) THEN LET seg == Segment(c.cuK, b) IN
    [i \in DOMAIN a.v[1] |-> Pick(a.v[1][i], IF c.config.swap THEN seg ELSE Picked(c, seg))]
  ELSE a.v[b]
RowsOfB(c, b) ==
  LET bb == KernelB(c) IN
  IF VarlenK(c) THEN [j \in DOMAIN bb.v[1] |-> Pick(bb.v[1][j], Segment(c.cuK, b))] ELSE bb.v[b]

-----------------------------------------------------------------------------
(* The tiles.                                                               *)

KernelM(c) == IF c.config.swap THEN c.n ELSE c.m
KernelN(c) == IF c.config.swap THEN c.m ELSE c.n

RowOffset(c, b) == IF VarlenM(c) THEN c.cuM[b] ELSE 0
Extent(c, b) == IF VarlenM(c) THEN c.cuM[b + 1] - c.cuM[b] ELSE KernelM(c)
OutBatch(c, b) == IF VarlenM(c) THEN 1 ELSE b

\* The symmetric kernel visits the square clusters on and below the diagonal.
OnDiagonal(c, t) == t[2] \div c.config.cm = t[3]
IsVisited(c, t) == c.fn = "symmetric" => t[2] \div c.config.cm >= t[3]

Tiles(c) ==
  {t \in UNION {{<<b, i, j>> : i \in 0 .. CeilDiv(Extent(c, b), c.config.tm) - 1,
                               j \in 0 .. CeilDiv(KernelN(c), c.config.tn) - 1} : b \in Batches(c)} :
     IsVisited(c, t)}

Upto(a, b) == IF a < b THEN a ELSE b
TileRows(c, t) ==
  {RowOffset(c, t[1]) + x : x \in t[2] * c.config.tm + 1 .. Upto((t[2] + 1) * c.config.tm, Extent(c, t[1]))}
TileColumns(c, t) == t[3] * c.config.tn + 1 .. Upto((t[3] + 1) * c.config.tn, KernelN(c))

-----------------------------------------------------------------------------
(* The epilogues: x[i][j], a row of x for each row of the tile, is what     *)
(* epi_visit_subtile makes of the accumulator.                              *)

\* On SM80 add_to_output becomes C = D.
SourceC(c, mm) == IF c.aliasC THEN mm.out ELSE c.C
HasC(c) == (Present(c.C) \/ c.aliasC) /\ (AddToOutput(c) => c.config.arch = 8)

\* alpha * acc + beta * C, and the bias along the rows or the columns.
DefaultEpilogue(c, mm, t, rows, cols) ==
  LET a == RowsOfA(c, t[1])  bt == RowsOfB(c, t[1])
      cc == IF HasC(c) THEN View(c, "C", SourceC(c, mm)).v[OutBatch(c, t[1])] ELSE <<>>
      vec == IF HasBias(c) THEN KernelBias(c, t[1]) ELSE <<>>
      Bias(i, j) == IF vec = <<>> THEN 0 ELSE IF c.config.swap THEN vec[i] ELSE vec[j]
      Added(i, j) == IF cc = <<>> THEN 0 ELSE c.beta * cc[i][j]
  IN  [i \in rows |-> [j \in cols |-> (c.alpha * Dot(a[i], bt[j])) + Added(i, j) + Bias(i, j)]]

\* vec_multiply: rstd along the columns, norm_weight along the rows.
Scaled(c, b, x) ==
  LET Rstd(i, j) == IF c.rstd = <<>> THEN 1 ELSE IF c.config.swap THEN c.rstd[b][j] ELSE c.rstd[b][i]
      Weight(j) == IF c.weight = <<>> THEN 1 ELSE c.weight[b][j]
  IN  [i \in DOMAIN x |-> [j \in DOMAIN x[i] |-> x[i][j] * Rstd(i, j) * Weight(j)]]

\* D and PreAct of a gated activation are viewed as pairs in four bytes.
Pairs(t) == Tensor([b \in DOMAIN t.v |-> [i \in DOMAIN t.v[b] |->
              [j \in 1 .. (Len(t.v[b][i]) \div 2) |-> <<t.v[b][i][2 * j - 1], t.v[b][i][2 * j]>>]]], t.contig)
Unpairs(t) == Tensor([b \in DOMAIN t.v |-> [i \in DOMAIN t.v[b] |-> FlattenSeq(t.v[b][i])]], t.contig)

\* A tile x is stored into batch b of a tensor.
Store(s, b, x) ==
  [s EXCEPT !.v[b] = [i \in DOMAIN s.v[b] |-> [j \in DOMAIN s.v[b][i] |->
     IF i \in DOMAIN x /\ j \in DOMAIN x[i] THEN x[i][j] ELSE s.v[b][i][j]]]]
StoreMirrored(s, b, x) ==
  [s EXCEPT !.v[b] = [i \in DOMAIN s.v[b] |-> [j \in DOMAIN s.v[b][i] |->
     IF j \in DOMAIN x /\ i \in DOMAIN x[j] THEN x[j][i] ELSE s.v[b][i][j]]]]

StoreTo(c, name, tensor, b, x) ==
  IF Present(tensor) THEN Unview(c, name, Store(View(c, name, tensor), b, x)) ELSE tensor

RowSum(x, y, i) == MapThenSumSet(LAMBDA j : x[i][j] * y[i][j], DOMAIN x[i])

\* Column t[3] of the partial sums of the rows of a tile.
StorePart(c, mm, t, rows, value) ==
  IF ~c.reduce THEN mm.part
  ELSE [mm.part EXCEPT ![OutBatch(c, t[1])] = [i \in DOMAIN @ |->
          IF i \in rows THEN [@[i] EXCEPT ![t[3] + 1] = value[i]] ELSE @[i]]]

\* gemm, gemm_add, gemm_add_inplace: D = x, or D += x by a reducing store.
DefaultTile(c, mm, t, x) ==
  LET b == OutBatch(c, t[1])
      seen == View(c, "out", mm.out).v[b]
      d == IF AddToOutput(c) /\ c.config.arch # 8
           THEN [i \in DOMAIN x |-> [j \in DOMAIN x[i] |-> seen[i][j] + x[i][j]]] ELSE x
  IN  [mm EXCEPT !.out = StoreTo(c, "out", @, b, d)]

ActPost(c, x) == [i \in DOMAIN x |-> [j \in DOMAIN x[i] |-> ActOf(c.act, x[i][j])]]
\* Both halves of a gate are in one tile: columns 2j - 1 and 2j.
GatedPost(x) ==
  [i \in DOMAIN x |-> [j \in {q \div 2 : q \in {p \in DOMAIN x[i] : p % 2 = 0}} |->
                         GateOf(x[i][2 * j - 1], x[i][2 * j])]]

ActTile(c, mm, t, x, post) ==
  LET b == OutBatch(c, t[1]) IN
  [mm EXCEPT !.out = StoreTo(c, "out", @, b, x), !.aux = StoreTo(c, "aux", @, b, post)]

NormActTile(c, mm, t, x) == LET y == Scaled(c, t[1], x) IN ActTile(c, mm, t, y, ActPost(c, y))
NormGatedTile(c, mm, t, x) == LET y == Scaled(c, t[1], x) IN ActTile(c, mm, t, y, GatedPost(y))

\* C is the preactivation, not an addend.
DActTile(c, mm, t, x) ==
  LET b == OutBatch(c, t[1])  pre == View(c, "C", c.C).v[b] IN
  [mm EXCEPT
     !.out = StoreTo(c, "out", @, b, [i \in DOMAIN x |-> [j \in DOMAIN x[i] |->
               DActOf(c.act, pre[i][j], x[i][j])]]),
     !.aux = StoreTo(c, "aux", @, b, [i \in DOMAIN x |-> [j \in DOMAIN x[i] |->
               ActOf(c.act, pre[i][j])]])]

\* The sums take postact * dout before postact is scaled.
DGatedTile(c, mm, t, x) ==
  LET b == OutBatch(c, t[1])
      pre == View(c, "C", Pairs(c.C)).v[b]
      scale == [i \in DOMAIN x |-> IF c.scale = <<>> THEN 1 ELSE c.scale[b][i]]
      post == [i \in DOMAIN x |-> [j \in DOMAIN x[i] |-> GateOf(pre[i][j][1], pre[i][j][2])]]
      dxy == [i \in DOMAIN x |-> [j \in DOMAIN x[i] |->
                DGateOf(pre[i][j][1], pre[i][j][2], x[i][j] * scale[i])]]
  IN [out |-> Unpairs(StoreTo(c, "out", Pairs(mm.out), b, dxy)),
      aux |-> StoreTo(c, "aux", mm.aux, b,
                [i \in DOMAIN x |-> [j \in DOMAIN x[i] |-> post[i][j] * scale[i]]]),
      part |-> StorePart(c, mm, t, DOMAIN x, [i \in DOMAIN x |-> RowSum(post, x, i)])]

\* The mirrored store is skipped on the diagonal.
SymmetricTile(c, mm, t, x) ==
  LET d == Store(mm.out, t[1], x) IN
  [mm EXCEPT !.out = IF OnDiagonal(c, t) THEN d ELSE StoreMirrored(d, t[1], x)]

\* Sums and premult_out come before norm_weight.
SqReduceTile(c, mm, t, x) ==
  [out |-> StoreTo(c, "out", mm.out, t[1], Scaled(c, t[1], x)),
   aux |-> StoreTo(c, "aux", mm.aux, t[1], x),
   part |-> StorePart(c, mm, t, DOMAIN x, [i \in DOMAIN x |-> RowSum(x, x, i)])]

Accumulated(c, mm, t) == DefaultEpilogue(c, mm, t, TileRows(c, t), TileColumns(c, t))
\* PreAct takes the place of C.
Product(c, mm, t) == Accumulated([c EXCEPT !.C = NoTensor], mm, t)

\* The tuned functions: which kernel class a function launches, on what.
GemmTuned(c, mm, t) == DefaultTile(c, mm, t, Accumulated(c, mm, t))
GemmActTuned(c, mm, t) == ActTile(c, mm, t, Accumulated(c, mm, t), ActPost(c, Accumulated(c, mm, t)))
GemmGatedTuned(c, mm, t) == ActTile(c, mm, t, Accumulated(c, mm, t), GatedPost(Accumulated(c, mm, t)))
GemmDActTuned(c, mm, t) == DActTile(c, mm, t, Product(c, mm, t))
GemmDGatedTuned(c, mm, t) == DGatedTile(c, mm, t, Product(c, mm, t))
GemmSymmetricOut(c, mm, t) == SymmetricTile(c, mm, t, Accumulated(c, mm, t))
GemmRmsTuned(c, mm, t) == SqReduceTile(c, mm, t, Accumulated(c, mm, t))
GemmNormActTuned(c, mm, t) == NormActTile(c, mm, t, Accumulated(c, mm, t))
GemmNormGatedTuned(c, mm, t) == NormGatedTile(c, mm, t, Accumulated(c, mm, t))

AfterTile(c, mm, t) ==
  CASE c.fn \in {"gemm", "add", "inplace"} -> GemmTuned(c, mm, t)
    [] c.fn = "act" /\ ~IsGated(c) -> GemmActTuned(c, mm, t)
    [] c.fn = "act" /\ IsGated(c) -> GemmGatedTuned(c, mm, t)
    [] c.fn = "dact" /\ ~IsGated(c) -> GemmDActTuned(c, mm, t)
    [] c.fn = "dact" /\ IsGated(c) -> GemmDGatedTuned(c, mm, t)
    [] c.fn = "symmetric" -> GemmSymmetricOut(c, mm, t)
    [] c.fn = "rms" -> GemmRmsTuned(c, mm, t)
    [] c.fn = "norm_act" /\ ~IsGated(c) -> GemmNormActTuned(c, mm, t)
    [] c.fn = "norm_act" /\ IsGated(c) -> GemmNormGatedTuned(c, mm, t)

-----------------------------------------------------------------------------
(* The functions.                                                           *)

\* _empty_k_matmul_into: beta * C + bias, or zeros.  A bias of several batches
\* is broadcast along the last dimensions of out, so to its rows.
EmptyK(c, target, addC, bias) ==
  Tensor([b \in DOMAIN target.v |-> [i \in DOMAIN target.v[b] |-> [j \in DOMAIN target.v[b][i] |->
            (IF Present(addC) THEN c.beta * addC.v[b][i][j] ELSE 0)
              + (IF bias # <<>> THEN bias[IF Len(bias) = 1 THEN 1 ELSE i][j] ELSE 0)]]], target.contig)

IsEmpty(t) == \A b \in DOMAIN t.v : \A i \in DOMAIN t.v[b] : t.v[b][i] = <<>>
NoK(c) == IsEmpty(c.A)

\* torch.empty of an output's shape.
Fresh(c, columns) ==
  Tensor([b \in DOMAIN c.A.v |-> [i \in 1 .. c.m |-> [j \in 1 .. columns |-> Junk]]], "row")
Zeros(c, t) == EmptyK(c, t, NoTensor, <<>>)
Memory(out, aux, part) == [out |-> out, aux |-> aux, part |-> part]

\* What each function has when it comes to the kernel: its outputs, of which
\* it makes those it was not given.  For K = 0 it fills them itself.
GemmBegins(c) == Memory(IF NoK(c) THEN EmptyK(c, c.out, NoTensor, c.bias) ELSE c.out, NoTensor, <<>>)
GemmAddBegins(c) ==
  Memory(IF NoK(c) /\ ~AddToOutput(c) THEN EmptyK(c, c.out, IF c.aliasC THEN c.out ELSE c.C, <<>>) ELSE c.out,
         NoTensor, <<>>)
GemmAddInplaceBegins(c) ==
  Memory(IF NoK(c) /\ (c.beta # 1 \/ c.betaTensor) THEN EmptyK(c, c.out, c.out, <<>>) ELSE c.out, NoTensor, <<>>)
GemmSymmetricBegins(c) == Memory(IF NoK(c) THEN EmptyK(c, c.out, c.C, <<>>) ELSE c.out, NoTensor, <<>>)
\* gemm_act, gemm_norm_act: half as many columns after a gate.
ActBegins(c) ==
  LET aux == Fresh(c, IF IsGated(c) THEN c.n \div 2 ELSE c.n)
  IN  IF NoK(c) THEN Memory(Zeros(c, c.out), Zeros(c, aux), <<>>) ELSE Memory(c.out, aux, <<>>)
Parts(c) == IF c.reduce THEN Fresh(c, CeilDiv(c.n, c.config.tn)).v ELSE <<>>
DActBegins(c) ==
  LET aux == Fresh(c, c.n)
  IN  IF NoK(c) THEN Memory(Zeros(c, c.out), Zeros(c, aux), Parts(c)) ELSE Memory(c.out, aux, Parts(c))
RmsBegins(c) ==
  LET aux == IF c.store THEN Fresh(c, c.n) ELSE NoTensor
  IN  IF NoK(c) THEN Memory(Zeros(c, c.out), Zeros(c, aux), [b \in DOMAIN Parts(c) |-> MapRows(Parts(c)[b], LAMBDA y : 0)])
      ELSE Memory(c.out, aux, Parts(c))

BeforeTiles(c) ==
  CASE c.fn = "gemm" -> GemmBegins(c)
    [] c.fn = "add" -> GemmAddBegins(c)
    [] c.fn = "inplace" -> GemmAddInplaceBegins(c)
    [] c.fn = "symmetric" -> GemmSymmetricBegins(c)
    [] c.fn \in {"act", "norm_act"} -> ActBegins(c)
    [] c.fn = "dact" -> DActBegins(c)
    [] c.fn = "rms" -> RmsBegins(c)

LaunchesNothing(c) == NoK(c) \/ c.m = 0 \/ c.n = 0
TilesOf(c) == IF LaunchesNothing(c) THEN {} ELSE Tiles(c)

\* colvec_reduce.sum(dim=-1), rms_final_reduce: the sums of the partial ones.
Results(c, mm) ==
  [out |-> mm.out.v, aux |-> mm.aux.v,
   stat |-> [b \in DOMAIN mm.part |-> [i \in DOMAIN mm.part[b] |-> Total(mm.part[b][i])]]]

Start(c) == call' = c /\ todo' = TilesOf(c) /\ mem' = BeforeTiles(c)

RunTile ==
  \E t \in todo :
    /\ mem' = AfterTile(call, mem, t)
    /\ todo' = todo \ {t}
    /\ UNCHANGED call

(***************************************************************************)
(* A call that has ended returned what its reference computes, whatever    *)
(* the configuration and the order of the tiles: no element is left as     *)
(* torch.empty made it, none is added twice, none goes to the other half.  *)
(***************************************************************************)
CallsMatchReference ==
  todo = {} /\ call.fn # "none" => Results(call, mem) = Ref(call)
=============================================================================
