--------------------------- MODULE MCRowFunctions ---------------------------
(***************************************************************************)
(* Calls of RowFunctions for TLC.                                          *)
(***************************************************************************)
EXTENDS RowFunctions

Call(fn, tensors, needs, flows) ==
  [fn |-> fn, tensors |-> tensors, needs |-> needs, flows |-> flows, strided |-> {},
   prenorm |-> FALSE, otherDtype |-> FALSE, empty |-> FALSE, inplace |-> FALSE, compiling |-> FALSE]

\* Each function with each choice of tensors, strides that _ensure_contiguous
\* mends, empty batches.  The residual stream is returned where there is one.
NormCalls ==
  {[Call("rmsnorm", tensors, needs, flows) EXCEPT
      !.strided = strided, !.prenorm = flows # {"out"}, !.empty = empty, !.otherDtype = other] :
    tensors \in {{"x"}, {"x", "weight"}, {"x", "weight", "bias"}, {"x", "residual"}, {"x", "weight", "residual"}},
    needs \in {{"x"}, {"x", "weight"}, {"x", "weight", "bias", "residual"}},
    flows \in {{"out"}, {"residual_out"}, {"out", "residual_out"}},
    strided \in {{}, {"x", "residual", "dout", "dresidual_out"}},
    empty \in BOOLEAN, other \in BOOLEAN}

Legal(c) ==
  /\ c.needs \subseteq c.tensors
  /\ c.strided \subseteq c.tensors \cup Gradients
  /\ c.prenorm => "residual" \in c.tensors
  /\ c.otherDtype => ~c.prenorm

LossCalls ==
  {[Call("cross_entropy", {"x", "target"} \cup more, needs, {"loss"}) EXCEPT
      !.strided = strided, !.empty = empty, !.inplace = inplace, !.compiling = compiling] :
    more \in {{}, {"weight"}, {"lse_partial"}}, needs \in {{}, {"x"}}, strided \in {{}, {"dloss"}},
    empty \in BOOLEAN, inplace \in BOOLEAN, compiling \in BOOLEAN}

OtherCalls ==
  {[Call(f[1], {"x"}, {"x"}, {f[2]}) EXCEPT !.empty = empty] :
    f \in {<<"softmax", "out">>, <<"topk", "values">>}, empty \in BOOLEAN}

CallsMC == {c \in NormCalls : Legal(c)} \cup LossCalls \cup OtherCalls
=============================================================================
