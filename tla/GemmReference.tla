--------------------------- MODULE GemmReference ---------------------------
(***************************************************************************)
(* What the functions of quack/gemm_interface.py promise: their *_ref      *)
(* twins, over integer matrices.  A tensor has batches, each a sequence of *)
(* rows, and a dimension along which its memory is contiguous.             *)
(*                                                                         *)
(* A call c of one of the functions:                                       *)
(*   fn        gemm, add, inplace, act, dact, symmetric, rms, norm_act     *)
(*   A, B, C   operands; with cuM all rows of A, C and out are one batch,  *)
(*             with cuK all columns of A and all rows of B                 *)
(*   out, m, n its output before the call, and the output's shape          *)
(*   aliasC    "C is out"                                                  *)
(*   bias, scale, weight, rstd   a vector for each batch, or <<>>          *)
(*   cuM, cuK, idx               cu_seqlens and A_idx, or <<>>             *)
(*   concat    concat_layout, a set of names; wide: bias is of four bytes  *)
(* Activations: relu_sq and, gated, reglu, which stay within the integers. *)
(***************************************************************************)
EXTENDS Integers, FiniteSetsExt, SequencesExt

Tensor(batches, contig) == [v |-> batches, contig |-> contig]
NoTensor == Tensor(<<>>, "row")
Present(t) == t.v # <<>>

T(a) == IF a = <<>> THEN <<>> ELSE [j \in DOMAIN a[1] |-> [i \in DOMAIN a |-> a[i][j]]]
Other(contig) == IF contig = "row" THEN "col" ELSE "row"
MT(t) == Tensor([b \in DOMAIN t.v |-> T(t.v[b])], Other(t.contig))

Dot(u, v) == MapThenSumSet(LAMBDA k : u[k] * v[k], DOMAIN u)
Total(u) == MapThenSumSet(LAMBDA k : u[k], DOMAIN u)

\* [first half; second half] to alternating elements, and back.
Alternate(s) == [i \in DOMAIN s |-> s[((i - 1) % 2) * (Len(s) \div 2) + ((i - 1) \div 2) + 1]]
Halves(s) == [i \in DOMAIN s |-> LET half == Len(s) \div 2
                                 IN  s[IF i <= half THEN 2 * i - 1 ELSE 2 * (i - half)]]
AlternateColumns(a) == [i \in DOMAIN a |-> Alternate(a[i])]
HalvesOfColumns(a) == [i \in DOMAIN a |-> Halves(a[i])]

\* _concat_interleave: along the dimension that is not contiguous.
ConcatInterleave(t) ==
  Tensor([b \in DOMAIN t.v |-> IF t.contig = "row" THEN Alternate(t.v[b])
                               ELSE AlternateColumns(t.v[b])], t.contig)

Relu(x) == IF x > 0 THEN x ELSE 0
ActOf(act, x) == IF act = "relu_sq" THEN Relu(x) * Relu(x) ELSE x
DActOf(act, x, dout) == IF act = "relu_sq" THEN 2 * Relu(x) * dout ELSE dout
GateOf(gate, up) == Relu(gate) * up
DGateOf(gate, up, dout) == <<IF gate > 0 THEN up * dout ELSE 0, Relu(gate) * dout>>
IsGated(c) == c.act = "reglu"

VarlenM(c) == c.cuM # <<>>
VarlenK(c) == c.cuK # <<>>
Segment(cu, b) == [x \in 1 .. cu[b + 1] - cu[b] |-> cu[b] + x]
Picked(c, positions) == [x \in DOMAIN positions |->
                           IF c.idx = <<>> THEN positions[x] ELSE c.idx[positions[x]]]
Pick(s, positions) == [x \in DOMAIN positions |-> s[positions[x]]]

Batches(c) == IF VarlenM(c) THEN 1 .. Len(c.cuM) - 1
              ELSE IF VarlenK(c) THEN 1 .. Len(c.cuK) - 1 ELSE DOMAIN c.A.v

-----------------------------------------------------------------------------
Interleaved(c, name, t) == IF name \in c.concat THEN ConcatInterleave(t) ELSE t

RefRows(c, t, b) == IF VarlenM(c) THEN Pick(t.v[1], Segment(c.cuM, b)) ELSE t.v[b]

RefA(c, b) ==
  LET a == Interleaved(c, "A", c.A) IN
  IF VarlenM(c) THEN Pick(a.v[1], Picked(c, Segment(c.cuM, b)))
  ELSE IF VarlenK(c) THEN [i \in DOMAIN a.v[1] |-> Pick(a.v[1][i], Picked(c, Segment(c.cuK, b)))]
  ELSE a.v[b]

\* The columns of B of batch b.
RefBT(c, b) ==
  LET bb == Interleaved(c, "B", c.B)
      rows == IF VarlenK(c) THEN Pick(bb.v[1], Segment(c.cuK, b)) ELSE bb.v[b]
  IN  [j \in 1 .. c.n |-> [k \in DOMAIN rows |-> rows[k][j]]]

RefBias(c, b) ==
  IF c.bias = <<>> THEN [j \in 1 .. c.n |-> 0]
  ELSE IF "bias" \in c.concat THEN Alternate(c.bias[b]) ELSE c.bias[b]

\* gemm_ref and gemm_add_ref: alpha * A @ B + beta * C + bias of batch b.
Linear(c, b) ==
  LET a == RefA(c, b)  bt == RefBT(c, b)  bias == RefBias(c, b)
      cc == IF Present(c.C) THEN RefRows(c, Interleaved(c, "C", c.C), b)
            ELSE [i \in DOMAIN a |-> [j \in 1 .. c.n |-> 0]]
  IN  [i \in DOMAIN a |-> [j \in 1 .. c.n |->
         (c.alpha * Dot(a[i], bt[j])) + (c.beta * cc[i][j]) + bias[j]]]

ConcatOut(c, a) == IF "out" \notin c.concat THEN a
                   ELSE IF c.out.contig = "row" THEN Halves(a) ELSE HalvesOfColumns(a)

\* The batches of an output; one batch holds all rows with cu_seqlens_m.
Stacked(c, f) == IF VarlenM(c) THEN <<FlattenSeq(f)>> ELSE f

MapRows(a, Op(_)) == [i \in DOMAIN a |-> [j \in DOMAIN a[i] |-> Op(a[i][j])]]
Gated(a) == [i \in DOMAIN a |-> [j \in 1 .. (Len(a[i]) \div 2) |->
                                   GateOf(a[i][2 * j - 1], a[i][2 * j])]]

GemmRef(c) ==
  [out |-> Stacked(c, [b \in Batches(c) |-> ConcatOut(c, Linear(c, b))]),
   aux |-> <<>>, stat |-> <<>>]

\* preact and postact; act(x) without an activation is x.
ActRef(c) ==
  LET pre == [b \in Batches(c) |-> Linear(c, b)] IN
  [out |-> IF c.store THEN Stacked(c, pre) ELSE <<>>,
   aux |-> Stacked(c, [b \in Batches(c) |->
             IF IsGated(c) THEN Gated(pre[b]) ELSE MapRows(pre[b], LAMBDA x : ActOf(c.act, x))]),
   stat |-> <<>>]

\* (dx, postact) and, of a gated activation with colvec_reduce, the sums of
\* postact * dout of the rows; colvec_scale scales dout and postact, not them.
DActRef(c) ==
  LET dout == [b \in Batches(c) |-> Linear([c EXCEPT !.C = NoTensor], b)]
      x == [b \in Batches(c) |-> RefRows(c, c.C, b)]
      scale == [b \in Batches(c) |-> [i \in DOMAIN dout[b] |->
                  IF c.scale = <<>> THEN 1
                  ELSE IF VarlenM(c) THEN c.scale[1][c.cuM[b] + i] ELSE c.scale[b][i]]]
      dgate == [b \in Batches(c) |-> [i \in DOMAIN dout[b] |-> [j \in DOMAIN dout[b][i] |->
                  DGateOf(x[b][i][2 * j - 1], x[b][i][2 * j], dout[b][i][j] * scale[b][i])]]]
  IN IF IsGated(c)
     THEN [out |-> Stacked(c, [b \in Batches(c) |-> [i \in DOMAIN dgate[b] |-> FlattenSeq(dgate[b][i])]]),
           aux |-> Stacked(c, [b \in Batches(c) |-> [i \in DOMAIN x[b] |->
                     [j \in DOMAIN dout[b][i] |-> Gated(x[b])[i][j] * scale[b][i]]]]),
           stat |-> IF c.reduce
                    THEN Stacked(c, [b \in Batches(c) |-> [i \in DOMAIN x[b] |-> Dot(Gated(x[b])[i], dout[b][i])]])
                    ELSE <<>>]
     ELSE [out |-> Stacked(c, [b \in Batches(c) |-> [i \in DOMAIN x[b] |-> [j \in DOMAIN x[b][i] |->
                     DActOf(c.act, x[b][i][j], dout[b][i][j])]]]),
           aux |-> Stacked(c, [b \in Batches(c) |-> MapRows(x[b], LAMBDA y : ActOf(c.act, y))]),
           stat |-> <<>>]

\* D = D_raw * norm_weight; rstd is a function of the rows' sums of squares.
RmsRef(c) ==
  LET raw == [b \in Batches(c) |-> Linear(c, b)] IN
  [out |-> [b \in Batches(c) |-> [i \in DOMAIN raw[b] |-> [j \in 1 .. c.n |->
              raw[b][i][j] * (IF c.weight = <<>> THEN 1 ELSE c.weight[b][j])]]],
   aux |-> IF c.store THEN raw ELSE <<>>,
   stat |-> [b \in Batches(c) |-> [i \in DOMAIN raw[b] |-> Dot(raw[b][i], raw[b][i])]]]

NormActRef(c) ==
  LET d == [b \in Batches(c) |-> LET raw == Linear(c, b) IN
              [i \in DOMAIN raw |-> [j \in 1 .. c.n |->
                 raw[i][j] * (IF c.rstd = <<>> THEN 1 ELSE c.rstd[b][i])]]] IN
  [out |-> IF c.store THEN d ELSE <<>>,
   aux |-> [b \in Batches(c) |-> IF IsGated(c) THEN Gated(d[b])
                                 ELSE MapRows(d[b], LAMBDA x : ActOf(c.act, x))],
   stat |-> <<>>]

Ref(c) ==
  CASE c.fn \in {"gemm", "add", "inplace", "symmetric"} -> GemmRef(c)
    [] c.fn = "act" -> ActRef(c)
    [] c.fn = "dact" -> DActRef(c)
    [] c.fn = "rms" -> RmsRef(c)
    [] c.fn = "norm_act" -> NormActRef(c)
=============================================================================
