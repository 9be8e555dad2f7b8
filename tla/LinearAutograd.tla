--------------------------- MODULE LinearAutograd ---------------------------
(***************************************************************************)
(* The autograd functions over the GEMMs: quack/linear.py (LinearFunc,     *)
(* LinearActFunc, DActLinearFunc), quack/mlp.py (MLPRecomputeFunc, MLP)    *)
(* and quack/linear_cross_entropy.py (the chunked loss), in a training     *)
(* loop of several micro-batches whose passes interleave.  Their functions *)
(* are sequences of calls of the GEMM interface, whose tiles end in any    *)
(* order.                                                                  *)
(*                                                                         *)
(* With fuse_grad_accum a backward adds its weight gradient to weight.grad *)
(* in place, takes weight.grad away and returns it.  The autograd engine   *)
(* (external) runs the nodes of the graphs of one backward() in reverse,   *)
(* adds up what they return for a weight and, when the last node that uses *)
(* the weight has returned, accumulates the sum into weight.grad.          *)
(***************************************************************************)
EXTENDS GemmInterface

CONSTANT MaxZeroes     \* bound: calls of zero_grad

(***************************************************************************)
(* A net: its kind (linear, mlp, recompute: an MLP that recomputes its     *)
(* activation, tied: two linear layers with one weight, loss: the chunked  *)
(* cross entropy), act and concat of fc1, fuse (fuse_grad_accum), w and b: *)
(* weights (out, in) and biases or <<>>, whether x needs a gradient and    *)
(* which weights (with their biases) do, x[k] and dout[k]: the input of    *)
(* micro-batch k and the gradient of its output, and of a loss:            *)
(* chunk_size, target[k], dloss, and whether dw has the dtype of w.        *)
(***************************************************************************)
VARIABLES
  net,
  at,         \* [k, node]: what the thread is in; node 0: the forward
  prog,       \* the calls it has still to make
  env,        \* its tensors
  pass,       \* pass[k]: "todo", "done" (forward), "backward" or "ended"
  next,       \* next[k]: the node its backward runs next, or 0
  ctx,        \* ctx[k][node]: what the node has saved
  result,     \* result[k]: its y and, after the backward, its dx
  grad,       \* grad[p]: the gradients of weight p and of its bias
  returned,   \* returned[p]: what the nodes of this backward() returned
  flow,       \* flow[k]: the gradient on its way to the next node
  expected,   \* expected[p]: the reference gradients since zero_grad
  zeroes,
  raised      \* a backward has raised an exception

thread == <<at, prog, env>>
training == <<net, thread, pass, next, ctx, result, grad, returned, flow, expected, zeroes, raised>>

Matrix(a) == Tensor(<<a>>, "row")
None == NoTensor
NoGrad == [w |-> None, b |-> <<>>]
NoCall == [fn |-> "none"]
Nobody == [k |-> 0, node |-> 0]
IsGatedAct(act) == act = "reglu"

NeedsX(n) == n.needs_x
NeedsW(n, p) == p \in n.needs_w
NeedsAny(n) == n.needs_x \/ n.needs_w # {}
\* What flows into the second node of a network needs a gradient.
NeedsHidden(n) == NeedsX(n) \/ NeedsW(n, 1)

-----------------------------------------------------------------------------
(* The functions of the ops bundles: matmul_fwd_fn, matmul_bwd_dx and       *)
(* matmul_bwd_dw or matmul_bwd_dw_inplace, and the steps without a GEMM.    *)

Op(do, fn, to, from, w, p, names) ==
  [do |-> do, fn |-> fn, to |-> to, from |-> from, w |-> w, p |-> p, names |-> names, i |-> 0]
Fwd(fn, to, from, w, p, names) == <<Op("fwd", fn, to, from, w, p, names)>>   \* from @ w.T + bias p
Dx(fn, to, from, w, names) == <<Op("dx", fn, to, from, w, 0, names)>>        \* from @ w
Dw(from, w, p, names) == <<Op("dw", "gemm", "dw", from, w, p, names)>>       \* from.T @ w, for weight p
Recompute(from) == <<Op("act", "none", "post", from, from, 0, {})>>

When(condition, ops) == IF condition THEN ops ELSE <<>>

ForwardNames(n) == IF n.concat THEN {"B", "bias"} ELSE {}
InputGradNames(n) == IF n.concat THEN {"B"} ELSE {}
WeightGradNames(n) == IF n.concat THEN {"out"} ELSE {}
InplaceNames(names) == IF "out" \in names THEN names \cup {"C"} ELSE names

CallOf(fn, A, B, n, names) ==
  [fn |-> fn, A |-> A, B |-> B, C |-> None, aliasC |-> FALSE,
   out |-> Tensor(<<[i \in DOMAIN A.v[1] |-> [j \in 1 .. n |-> Junk]]>>, "row"),
   m |-> Len(A.v[1]), n |-> Len(B.v[1][1]), bias |-> <<>>, wide |-> FALSE, scale |-> <<>>,
   weight |-> <<>>, rstd |-> <<>>, alpha |-> 1, beta |-> 1, betaTensor |-> FALSE, act |-> "none",
   cuM |-> <<>>, cuK |-> <<>>, idx |-> <<>>, concat |-> names, store |-> TRUE, reduce |-> FALSE,
   config |-> [swap |-> FALSE, tm |-> 2, tn |-> 2, cm |-> 1, arch |-> 9]]
InPlaceOf(c, out) == [c EXCEPT !.fn = "inplace", !.C = out, !.out = out, !.aliasC = TRUE]

FwdCall(n, op, e) ==
  LET b == IF op.p = 0 \/ n.b[op.p] = <<>> THEN <<>> ELSE <<n.b[op.p]>>
      c == CallOf(op.fn, e[op.from], MT(e[op.w]), Len(e[op.w].v[1]), op.names)
      store == op.fn = "act" => NeedsAny(n)     \* store_preact
  IN  [c EXCEPT !.bias = b, !.act = IF op.fn = "act" THEN n.act ELSE "none",
                !.store = store, !.out = IF store THEN @ ELSE None]

DxCall(n, op, e) ==
  IF op.fn = "dact"
  THEN [CallOf("dact", e[op.from], e[op.w], Len(e["pre"].v[1][1]), op.names)
          EXCEPT !.C = e["pre"], !.act = n.act]
  ELSE CallOf("gemm", e[op.from], e[op.w], Len(e[op.w].v[1][1]), op.names)

\* linear_bwd_compute_weight_grad: in place into weight.grad if there is one.
Fused(n, g, op) == n.fuse /\ Present(g[op.p].w)
DwCall(n, g, op, e) ==
  LET c == CallOf("gemm", MT(e[op.from]), e[op.w], Len(e[op.w].v[1][1]), op.names)
  IN  IF Fused(n, g, op) THEN InPlaceOf([c EXCEPT !.concat = InplaceNames(@)], g[op.p].w) ELSE c

-----------------------------------------------------------------------------
(* The chunked linear cross entropy.                                        *)

Ignore == 0
\* The kernel of cross_entropy.py: probabilities minus one-hot, with integers
\* for the probabilities; nothing for a row to ignore.
DLogits(logits, target) ==
  [v \in DOMAIN logits |-> IF target = Ignore THEN 0 ELSE logits[v] - (IF v = target THEN 3 ELSE 0)]

MatMul(a, b) == LET t == T(b) IN [i \in DOMAIN a |-> [j \in DOMAIN t |-> Dot(a[i], t[j])]]
ColumnSums(a) == [j \in DOMAIN a[1] |-> Total([i \in DOMAIN a |-> a[i][j]])]
AddMatrix(a, b) == [i \in DOMAIN a |-> [j \in DOMAIN a[i] |-> a[i][j] + b[i][j]]]
AddVector(u, v) == [j \in DOMAIN u |-> u[j] + v[j]]
Overwrite(a, first, rows) ==
  [i \in DOMAIN a |-> IF i > first /\ i <= first + Len(rows) THEN rows[i - first] ELSE a[i]]

Chunks(n, k) == CeilDiv(Len(n.x[k]), n.chunk_size)

\* torch.mm, cross_entropy_fwd_out and torch.mm of chunk i.  Its logits, and
\* then their gradient, are in the first rows of one buffer for all chunks.
ChunkStep(n, k, i, e) ==
  LET first == (i - 1) * n.chunk_size
      len == Upto(n.chunk_size, Len(n.x[k]) - first)
      xs == SubSeq(n.x[k], first + 1, first + len)
      logits == MatMul(xs, T(n.w[1].v[1]))
      buffer == Overwrite(e["buffer"].v[1], 0, [r \in 1 .. len |-> DLogits(logits[r], n.target[k][first + r])])
      dlogits == SubSeq(buffer, 1, len)
  IN  [e EXCEPT !["buffer"] = Matrix(buffer), !["dlogits"] = Matrix(dlogits), !["xs"] = Matrix(xs),
                !["dx"] = Matrix(Overwrite(@.v[1], first, MatMul(dlogits, n.w[1].v[1])))]

\* dw of all chunks but the last, which the backward adds.
ChunkOps(n, k, i) ==
  <<[Op("chunk", "none", "dx", "x", "w1", 0, {}) EXCEPT !.i = i]>>
    \o When(i # Chunks(n, k), <<Op("sum", IF i = 1 THEN "gemm" ELSE "inplace", "dw", "dlogits", "xs", 1, {})>>)

SumCall(op, e) ==
  LET c == CallOf("gemm", MT(e[op.from]), e[op.w], Len(e[op.w].v[1][1]), {})
  IN  IF op.fn = "inplace" THEN InPlaceOf(c, e["dw"]) ELSE c

\* dw = dloss * dw + dloss * (dlogits.T @ x) of the last chunk, in place if dw
\* has the dtype of the weight; dloss is a tensor.
LastCall(n, op, e) ==
  LET c == [CallOf("gemm", MT(e[op.from]), e[op.w], Len(e[op.w].v[1][1]), {})
              EXCEPT !.alpha = n.dloss, !.beta = n.dloss, !.betaTensor = TRUE]
  IN  IF ~Present(e["dw"]) THEN c
      ELSE IF n.same_dtype THEN InPlaceOf(c, e["dw"]) ELSE [c EXCEPT !.fn = "add", !.C = e["dw"]]

-----------------------------------------------------------------------------
(* The graph of a net: the calls of its forward and of its backward nodes.  *)

\* Nodes 2 and 1; without a second layer the gradient flows into node 1.
Nodes(n) == IF n.kind \in {"tied", "mlp"} THEN 2 ELSE 1
WeightsOfNode(n, node) ==
  CASE n.kind = "mlp" -> {node} [] n.kind = "recompute" -> {1, 2}
    [] n.kind \in {"linear", "tied", "loss"} -> {1}
NodeNeedsGrad(n, node) == NeedsAny(n) /\ (n.kind = "mlp" /\ node = 1 => NeedsHidden(n))

\* The forward functions of LinearFunc, LinearActFunc, DActLinearFunc and
\* MLPRecomputeFunc, which takes no biases, and the layers made of them.
LinearForward(to, from) == Fwd("gemm", to, from, "w1", 1, {})
LinearActForward(n) == Fwd("act", "h", "x", "w1", 1, ForwardNames(n))
DActLinearForward == Fwd("gemm", "y", "h", "w2", 2, {})
RecomputeForward(n) ==
  Fwd("act", "h", "x", "w1", 0, ForwardNames(n) \ {"bias"}) \o Fwd("gemm", "y", "h", "w2", 0, {})

ForwardOps(n, k) ==
  CASE n.kind = "linear" -> LinearForward("y", "x")
    [] n.kind = "tied" -> LinearForward("h", "x") \o LinearForward("y", "h")
    [] n.kind = "mlp" -> LinearActForward(n) \o DActLinearForward
    [] n.kind = "recompute" -> RecomputeForward(n)
    [] n.kind = "loss" -> FlattenSeq([i \in 1 .. Chunks(n, k) |-> ChunkOps(n, k, i)])

\* LinearFunc.backward and LinearActFunc.backward, of weight 1.
LinearBackward(n, needsInput) ==
  When(needsInput, Dx("gemm", "dx", "dout", "w1", InputGradNames(n)))
    \o When(NeedsW(n, 1), Dw("dout", "x", 1, WeightGradNames(n)))

\* DActLinearFunc.backward: gemm_dact also returns the postactivation, which
\* is recomputed without a GEMM when only the weight needs a gradient.
PostAct2(n) == IF NeedsHidden(n) THEN Dx("dact", "dpre", "dout", "w2", {}) ELSE When(NeedsW(n, 2), Recompute("pre"))
DActLinearBackward(n) == PostAct2(n) \o When(NeedsW(n, 2), Dw("dout", "post", 2, {}))

\* MLPRecomputeFunc.backward.
RecomputeBackward(n) ==
  Fwd("gemm", "pre", "x", "w1", 0, InputGradNames(n)) \o PostAct2(n)
    \o When(NeedsW(n, 2), Dw("dout", "post", 2, {}))
    \o When(NeedsX(n), Dx("gemm", "dx", "dpre", "w1", InputGradNames(n)))
    \o When(NeedsW(n, 1), Dw("dpre", "x", 1, WeightGradNames(n)))

BackwardOps(n, node) ==
  CASE n.kind = "recompute" -> RecomputeBackward(n)
    [] n.kind = "loss" -> <<Op("last", "gemm", "dw", "dlogits", "xs", 1, {})>>
    [] n.kind = "mlp" /\ node = 2 -> DActLinearBackward(n)
    [] n.kind \in {"linear", "tied"} \/ (n.kind = "mlp" /\ node = 1) ->
         LinearBackward(n, IF node = 1 THEN NeedsX(n) ELSE NeedsHidden(n))

\* linear_fwd_postprocess: which of an input, a weight and the weight whose
\* grad a fused backward uses are saved; og is that weight, or 0.
Saved(input, weight, og, needsInput, needsWeight, fuse) ==
  [input |-> IF needsWeight THEN input ELSE None,
   weight |-> IF needsInput THEN weight ELSE None,
   og |-> IF needsInput /\ fuse THEN {og} ELSE {}]

Ctx(s, x, w) == (x :> s.input) @@ (w :> s.weight)

\* The tensors that the node of a net saves, by the names its backward uses.
SavedBy(n, node, e) ==
  CASE n.kind = "recompute" ->
         [env |-> ("x" :> (IF NeedsAny(n) THEN e["x"] ELSE None)) @@ ("w1" :> (IF NeedsAny(n) THEN e["w1"] ELSE None))
                    @@ ("w2" :> (IF NeedsHidden(n) THEN e["w2"] ELSE None)),
          og |-> IF n.fuse THEN {1, 2} ELSE {}]
    [] n.kind = "loss" -> [env |-> e, og |-> {}]
    [] n.kind = "mlp" /\ node = 2 ->
         LET s == Saved(e["pre"], e["w2"], 2, NeedsHidden(n), NeedsHidden(n) \/ NeedsW(n, 2), n.fuse)
         IN  [env |-> Ctx(s, "pre", "w2"), og |-> s.og]
    [] n.kind \in {"linear", "tied"} \/ (n.kind = "mlp" /\ node = 1) ->
         LET s == Saved(IF node = 1 THEN e["x"] ELSE e["h"], e["w1"], 1,
                        IF node = 1 THEN NeedsX(n) ELSE NeedsHidden(n), NeedsW(n, 1), n.fuse)
         IN  [env |-> Ctx(s, "x", "w1"), og |-> s.og]

-----------------------------------------------------------------------------
(* What the modules promise: MLP.forward's other branch, F.linear and a     *)
(* cross entropy of all rows, and their derivatives.                        *)

Affine(x, w, b) == LET y == MatMul(x, T(w)) IN
  [i \in DOMAIN y |-> [j \in DOMAIN y[i] |-> y[i][j] + (IF b = <<>> THEN 0 ELSE b[j])]]

\* y.chunk(2), or y[..., ::2] and y[..., 1::2].
GateColumns(n, len, j) == IF n.concat THEN <<j, j + (len \div 2)>> ELSE <<2 * j - 1, 2 * j>>
RefActivation(n, row) ==
  IF ~IsGatedAct(n.act) THEN [j \in DOMAIN row |-> ActOf(n.act, row[j])]
  ELSE [j \in 1 .. (Len(row) \div 2) |-> LET c == GateColumns(n, Len(row), j) IN GateOf(row[c[1]], row[c[2]])]
RefDActivation(n, row, dpost) ==
  IF ~IsGatedAct(n.act) THEN [j \in DOMAIN row |-> DActOf(n.act, row[j], dpost[j])]
  ELSE [q \in DOMAIN row |->
          LET j == CHOOSE x \in DOMAIN dpost : q \in {GateColumns(n, Len(row), x)[h] : h \in 1 .. 2}
              c == GateColumns(n, Len(row), j)
          IN  DGateOf(row[c[1]], row[c[2]], dpost[j])[IF q = c[1] THEN 1 ELSE 2]]

\* y, dx and the gradient of weight (and bias) p by micro-batch k alone.
RefLayers(n, x, dout, w1, b1, w2, b2) ==
  LET pre == Affine(x, w1, b1)
      post == [i \in DOMAIN pre |-> RefActivation(n, pre[i])]
      dpost == MatMul(dout, w2)
      dpre == [i \in DOMAIN pre |-> RefDActivation(n, pre[i], dpost[i])]
  IN  [y |-> Affine(post, w2, b2), dx |-> MatMul(dpre, w1),
       w |-> <<MatMul(T(dpre), x), MatMul(T(dout), post)>>,
       b |-> <<ColumnSums(dpre), ColumnSums(dout)>>]

RefNet(n, k) ==
  LET x == n.x[k]  dout == n.dout[k]  w == [p \in DOMAIN n.w |-> n.w[p].v[1]] IN
  CASE n.kind = "linear" ->
         [y |-> Affine(x, w[1], n.b[1]), dx |-> MatMul(dout, w[1]),
          w |-> <<MatMul(T(dout), x)>>, b |-> <<ColumnSums(dout)>>]
    [] n.kind = "tied" ->
         LET r == RefLayers(n, x, dout, w[1], n.b[1], w[1], n.b[1]) IN
         [r EXCEPT !.w = <<AddMatrix(@[1], @[2])>>, !.b = <<AddVector(@[1], @[2])>>]
    [] n.kind \in {"mlp", "recompute"} -> RefLayers(n, x, dout, w[1], n.b[1], w[2], n.b[2])
    [] n.kind = "loss" ->
         LET logits == MatMul(x, T(w[1]))
             d == [i \in DOMAIN x |-> [v \in DOMAIN w[1] |-> n.dloss * DLogits(logits[i], n.target[k][i])[v]]]
         IN  [y |-> <<>>, dx |-> MatMul(d, w[1]), w |-> <<MatMul(T(d), x)>>, b |-> <<<<>>>>]

RefGrad(n, k, p) ==
  LET r == RefNet(n, k) IN
  IF ~NeedsW(n, p) THEN NoGrad
  ELSE [w |-> Matrix(r.w[p]), b |-> IF n.b[p] = <<>> THEN <<>> ELSE r.b[p]]

-----------------------------------------------------------------------------
(* The thread: it calls, and then it goes on with what the call returned.   *)

Running == {k \in DOMAIN pass : pass[k] = "backward"}
Free == at = Nobody /\ ~raised
Idle == Free /\ Running = {}

\* What must be there for an operation: its operands and, fused, its weight.
HasOperands(op) ==
  /\ Present(env[op.from]) /\ Present(env[op.w])
  /\ op.do = "dw" /\ net.fuse => op.p \in ctx[at.k][at.node].og

CallFor(n, g, op, e) ==
  CASE op.do = "fwd" -> FwdCall(n, op, e)
    [] op.do = "dx" -> DxCall(n, op, e)
    [] op.do = "dw" -> DwCall(n, g, op, e)
    [] op.do = "sum" -> SumCall(op, e)
    [] op.do = "last" -> LastCall(n, op, e)

Call ==
  /\ prog # <<>> /\ call = NoCall /\ ~raised
  /\ Head(prog).do \notin {"act", "chunk"}
  /\ IF HasOperands(Head(prog))
     THEN Start(CallFor(net, grad, Head(prog), env)) /\ raised' = FALSE
     ELSE raised' = TRUE /\ UNCHANGED callState
  /\ UNCHANGED <<net, thread, pass, next, ctx, result, grad, returned, flow, expected, zeroes>>

\* "So that pytorch doesn't add dweight to weight_og.grad again".
GradLeft(g, n, op) == g
TakenAway(g, n, op) == IF op.do = "dw" /\ Fused(n, g, op) THEN [g EXCEPT ![op.p].w = None] ELSE g

Return ==
  /\ prog # <<>> /\ call # NoCall /\ todo = {}
  /\ LET op == Head(prog)
         r == Results(call, mem)
         main == Tensor(r.out, "row")
         second == Tensor(r.aux, "row")
     IN /\ env' = CASE op.do = "fwd" /\ op.fn = "act" -> ("pre" :> main) @@ (op.to :> second) @@ env
                    [] op.do = "dx" /\ op.fn = "dact" -> (op.to :> main) @@ ("post" :> second) @@ env
                    [] op.do = "dw" -> ((IF op.p = 1 THEN "dw1" ELSE "dw2") :> main) @@ env
                    [] op.do # "dw" /\ op.fn \notin {"act", "dact"} -> (op.to :> main) @@ env
        /\ grad' = TakenAway(grad, net, op)
  /\ prog' = Tail(prog)
  /\ call' = NoCall /\ mem' = <<>>
  /\ UNCHANGED <<todo, net, at, pass, next, ctx, result, returned, flow, expected, zeroes, raised>>

\* A step without a call of the interface.
Compute ==
  /\ prog # <<>> /\ ~raised
  /\ LET op == Head(prog) IN
     /\ op.do \in {"act", "chunk"}
     /\ env' = IF op.do = "chunk" THEN ChunkStep(net, at.k, op.i, env)
               ELSE ("post" :> Matrix(IF IsGatedAct(net.act) THEN Gated(env[op.from].v[1])
                                      ELSE MapRows(env[op.from].v[1], LAMBDA x : ActOf(net.act, x)))) @@ env
  /\ prog' = Tail(prog)
  /\ UNCHANGED <<callState, net, at, pass, next, ctx, result, grad, returned, flow, expected, zeroes, raised>>

-----------------------------------------------------------------------------
(* The training loop and the autograd engine.                               *)

Forward(k) ==
  /\ Idle /\ pass[k] = "todo"
  /\ k > 1 => pass[k - 1] # "todo"
  /\ at' = [k |-> k, node |-> 0]
  /\ prog' = ForwardOps(net, k)
  /\ env' = ("x" :> Matrix(net.x[k])) @@ ("w1" :> net.w[1]) @@ ("w2" :> net.w[Len(net.w)])
              @@ (IF net.kind # "loss" THEN <<>>
                  ELSE ("buffer" :> Matrix([r \in 1 .. net.chunk_size |-> [v \in DOMAIN net.w[1].v[1] |-> Junk]]))
                    @@ ("dlogits" :> None) @@ ("xs" :> None) @@ ("dw" :> None) @@ ("dx" :> Matrix(net.x[k])))
  /\ UNCHANGED <<callState, net, pass, next, ctx, result, grad, returned, flow, expected, zeroes, raised>>

EndForward ==
  /\ at # Nobody /\ at.node = 0 /\ prog = <<>>
  /\ ctx' = [ctx EXCEPT ![at.k] = [node \in 1 .. Nodes(net) |-> SavedBy(net, node, env)]]
  /\ result' = [result EXCEPT ![at.k].y = IF net.kind = "loss" THEN None ELSE env["y"]]
  /\ pass' = [pass EXCEPT ![at.k] = "done"]
  /\ at' = Nobody /\ env' = <<>>
  /\ UNCHANGED <<callState, net, prog, next, grad, returned, flow, expected, zeroes, raised>>

\* backward() of the sum of the losses of some micro-batches.
Backward(S) ==
  /\ Idle /\ S # {} /\ NeedsAny(net)
  /\ \A k \in S : pass[k] = "done"
  /\ pass' = [k \in DOMAIN pass |-> IF k \in S THEN "backward" ELSE pass[k]]
  /\ next' = [k \in DOMAIN pass |-> IF k \in S THEN Nodes(net) ELSE next[k]]
  /\ flow' = [k \in DOMAIN pass |-> IF k \in S THEN Matrix(net.dout[k]) ELSE flow[k]]
  /\ UNCHANGED <<callState, net, thread, ctx, result, grad, returned, expected, zeroes, raised>>

\* The engine runs the next node of one of the graphs.
BackwardNode(k) ==
  /\ Free /\ pass[k] = "backward" /\ next[k] > 0
  /\ at' = [k |-> k, node |-> next[k]]
  /\ prog' = When(NodeNeedsGrad(net, next[k]), BackwardOps(net, next[k]))
  /\ env' = ("dout" :> flow[k]) @@ ctx[k][next[k]].env
  /\ UNCHANGED <<callState, net, pass, next, ctx, result, grad, returned, flow, expected, zeroes, raised>>

Plus(g, h) ==
  [w |-> IF ~Present(g.w) THEN h.w ELSE IF ~Present(h.w) THEN g.w
         ELSE Matrix(AddMatrix(g.w.v[1], h.w.v[1])),
   b |-> IF g.b = <<>> THEN h.b ELSE IF h.b = <<>> THEN g.b ELSE AddVector(g.b, h.b)]

Get(e, name) == IF name \in DOMAIN e THEN e[name] ELSE None

\* What a node returned for weight p and its bias; the bias gets the sums of
\* the columns of dout.  A loss scales its dx by dloss.
ReturnedFor(n, p, e) ==
  [w |-> Get(e, IF n.kind = "loss" THEN "dw" ELSE IF p = 1 THEN "dw1" ELSE "dw2"),
   b |-> IF n.kind # "recompute" /\ n.b[p] # <<>> /\ NeedsW(n, p) THEN ColumnSums(e["dout"].v[1]) ELSE <<>>]
DxOf(n, node, e) ==
  IF n.kind = "loss" THEN Matrix(MapRows(e["dx"].v[1], LAMBDA d : n.dloss * d))
  ELSE Get(e, IF n.kind = "mlp" /\ node = 2 THEN "dpre" ELSE "dx")

EndNode ==
  /\ at # Nobody /\ at.node > 0 /\ prog = <<>>
  /\ returned' = [p \in DOMAIN returned |->
                    IF p \in WeightsOfNode(net, at.node) THEN Plus(returned[p], ReturnedFor(net, p, env))
                    ELSE returned[p]]
  /\ flow' = [flow EXCEPT ![at.k] = DxOf(net, at.node, env)]
  /\ result' = IF at.node = 1 THEN [result EXCEPT ![at.k].dx = DxOf(net, 1, env)] ELSE result
  /\ next' = [next EXCEPT ![at.k] = @ - 1]
  /\ at' = Nobody /\ env' = <<>>
  /\ UNCHANGED <<callState, net, prog, pass, ctx, grad, expected, zeroes, raised>>

\* weight.grad and bias.grad get the sum once every node that uses them ran.
AccumulateGrad(p) ==
  /\ Free /\ returned[p] # NoGrad
  /\ \A k \in Running : \A node \in 1 .. next[k] : p \notin WeightsOfNode(net, node)
  /\ grad' = [grad EXCEPT ![p] = Plus(@, returned[p])]
  /\ returned' = [returned EXCEPT ![p] = NoGrad]
  /\ UNCHANGED <<callState, net, thread, pass, next, ctx, result, flow, expected, zeroes, raised>>

EndBackward ==
  /\ Free /\ Running # {} /\ \A k \in Running : next[k] = 0
  /\ \A p \in DOMAIN returned : returned[p] = NoGrad
  /\ pass' = [k \in DOMAIN pass |-> IF k \in Running THEN "ended" ELSE pass[k]]
  /\ expected' = [p \in DOMAIN expected |->
                    FoldSet(LAMBDA k, g : Plus(g, RefGrad(net, k, p)), expected[p], Running)]
  /\ UNCHANGED <<callState, net, thread, next, ctx, result, grad, returned, flow, zeroes, raised>>

\* zero_grad(set_to_none), or else zeros in place.
Zeroed(g, none) ==
  [p \in DOMAIN g |-> IF none THEN NoGrad
                      ELSE [w |-> Filled(g[p].w, 0), b |-> [j \in DOMAIN g[p].b |-> 0]]]
ZeroGrad(none) ==
  /\ Idle /\ zeroes < MaxZeroes
  /\ \E k \in DOMAIN pass : pass[k] = "ended"
  /\ grad' = Zeroed(grad, none)
  /\ expected' = Zeroed(expected, none)
  /\ zeroes' = zeroes + 1
  /\ UNCHANGED <<callState, net, thread, pass, next, ctx, result, returned, flow, raised>>

TrainingInit(n) ==
  /\ net = n
  /\ at = Nobody /\ prog = <<>> /\ env = <<>>
  /\ pass = [k \in DOMAIN n.x |-> "todo"]
  /\ next = [k \in DOMAIN n.x |-> 0]
  /\ ctx = [k \in DOMAIN n.x |-> <<>>]
  /\ result = [k \in DOMAIN n.x |-> [y |-> None, dx |-> None]]
  /\ grad = [p \in DOMAIN n.w |-> NoGrad]
  /\ returned = [p \in DOMAIN n.w |-> NoGrad]
  /\ flow = [k \in DOMAIN n.x |-> None]
  /\ expected = [p \in DOMAIN n.w |-> NoGrad]
  /\ zeroes = 0
  /\ raised = FALSE

TrainingNext ==
  \/ Call
  \/ Return
  \/ Compute
  \/ \E k \in DOMAIN pass : Forward(k) \/ BackwardNode(k)
  \/ EndForward
  \/ \E S \in SUBSET DOMAIN pass : Backward(S)
  \/ EndNode
  \/ \E p \in DOMAIN grad : AccumulateGrad(p)
  \/ EndBackward
  \/ \E none \in BOOLEAN : ZeroGrad(none)

(***************************************************************************)
(* Between two calls of backward() every weight.grad and bias.grad is the  *)
(* sum of the gradients of the micro-batches since zero_grad, in the       *)
(* layout of the weight, and the outputs and input gradients are those of  *)
(* the layers written with F.linear: whether a weight gradient was         *)
(* accumulated in place or by the engine, however forward and backward     *)
(* passes interleave, and for weights two nodes share; and no backward     *)
(* stops in the middle for want of a saved tensor.                         *)
(***************************************************************************)
TrainingMatchesReference ==
  /\ ~raised
  /\ Idle =>
          /\ grad = expected
          /\ \A k \in DOMAIN pass : pass[k] # "todo" /\ net.kind # "loss" =>
               result[k].y.v[1] = RefNet(net, k).y
          /\ \A k \in DOMAIN pass : pass[k] = "ended" /\ NeedsX(net) =>
               result[k].dx.v[1] = RefNet(net, k).dx
=============================================================================
