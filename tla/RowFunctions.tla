---------------------------- MODULE RowFunctions ----------------------------
(***************************************************************************)
(* The host side of the row kernels: rmsnorm (rmsnorm.py), softmax         *)
(* (softmax.py), cross_entropy (cross_entropy.py) and topk (topk.py), what *)
(* their autograd functions allocate, launch, save for the backward and    *)
(* return, and what the compiled kernels take.                             *)
(*                                                                         *)
(* A tensor is what is in it: the kind of value and what it is made of.  A *)
(* gradient is made of the outputs whose gradients are in it.              *)
(***************************************************************************)
EXTENDS Integers, FiniteSets, TLC

CONSTANTS Calls

(***************************************************************************)
(* A call: the function; its tensors; those that need a gradient and those *)
(* whose last dimension is strided; whether the residual stream is         *)
(* returned (prenorm) and has another dtype than x; whether the batch is   *)
(* empty; whether the backward may overwrite x; torch.compile; and the     *)
(* outputs into which gradients flow.                                      *)
(***************************************************************************)
Gradients == {"dout", "dresidual_out", "dloss", "dvalues"}
ASSUME CallsAssumption ==
  \A c \in Calls :
    /\ c.fn \in {"rmsnorm", "softmax", "cross_entropy", "topk"} /\ "x" \in c.tensors
    /\ c.tensors \subseteq {"x", "weight", "bias", "residual", "lse_partial", "target"}
    /\ c.needs \subseteq c.tensors /\ c.strided \subseteq c.tensors \cup Gradients
    /\ c.flows \subseteq {"out", "residual_out", "loss", "values"}
    /\ {c.prenorm, c.otherDtype, c.empty, c.inplace, c.compiling} \subseteq BOOLEAN

VARIABLES
  fnCall,
  fnAt,      \* "called", "computed", "differentiated" or "refused"
  tensor,    \* what is in each tensor
  saved,     \* ctx.save_for_backward, by the names in the backward
  returned,  \* names of the tensors that the call returns
  gradient   \* of the inputs

fnVars == <<fnCall, fnAt, tensor, saved, returned, gradient>>

Value(is, of) == [is |-> is, of |-> of]
Absent == Value("none", {})
Garbage == Value("uninitialised", {})
Has(t) == t \in fnCall.tensors
Given(t) == IF Has(t) THEN tensor[t] ELSE Absent

-----------------------------------------------------------------------------
(* What compiled kernels take: fake_tensor has stride 1 in the last         *)
(* dimension; that of the loss's gradient has any.                          *)

\* _ensure_contiguous copies what is strided.
AsItIs(t, strided) == strided
Contiguous(t, strided) == strided \ {t}

Accepted(arguments, strided) == (arguments \cap strided) \subseteq {"dloss"}

\* The weight of cross_entropy has the width of what its kernel reduces.
ForwardRefused ==
  LET strided == IF fnCall.fn = "rmsnorm" THEN Contiguous("residual", Contiguous("x", fnCall.strided))
                                          ELSE fnCall.strided
  IN  /\ ~fnCall.empty
      /\ \/ ~Accepted(fnCall.tensors, strided)
         \/ fnCall.fn = "cross_entropy" /\ Has("weight") /\ Has("lse_partial")

\* Without rstd the kernel, without a weight the conversion of the bias's
\* gradient to its dtype fail.
BackwardRefused ==
  LET strided == IF fnCall.fn = "rmsnorm" THEN Contiguous("dout", Contiguous("dresidual_out", fnCall.strided))
                                          ELSE fnCall.strided
  IN  \/ ~fnCall.empty /\ ~Accepted(Gradients, strided)
      \/ fnCall.fn = "rmsnorm" /\ ~fnCall.empty /\ saved.rstd = Absent
      \/ fnCall.fn = "rmsnorm" /\ Has("bias") /\ ~Has("weight")

-----------------------------------------------------------------------------
(* Forward.  An empty batch launches nothing.                               *)

Computed(value) == IF fnCall.empty THEN Garbage ELSE value

Summands == fnCall.tensors \cap {"x", "residual"}
NeedGrad == fnCall.needs \cap {"x", "weight", "bias"} # {}

\* rmsnorm_fwd: without a sum to store, residual_out is x itself.
ResidualOutIsMade == Has("residual") \/ fnCall.otherDtype
ResidualOut == IF ResidualOutIsMade THEN Computed(Value("sum", Summands)) ELSE tensor.x

RmsnormForward ==
  LET rstd == IF NeedGrad THEN Computed(Value("rstd", Summands)) ELSE Absent
  IN  /\ fnCall.fn = "rmsnorm"
      /\ tensor' = [out |-> Computed(Value("norm", fnCall.tensors)), residual_out |-> ResidualOut] @@ tensor
      /\ saved' = [x      |-> IF Has("residual") THEN ResidualOut ELSE tensor.x,
                   weight |-> Given("weight"),
                   rstd   |-> rstd]
      /\ returned' = {"out"} \cup (IF fnCall.prenorm THEN {"residual_out"} ELSE {})

SoftmaxForward ==
  /\ fnCall.fn = "softmax"
  /\ tensor' = [out |-> Computed(Value("softmax", {"x"}))] @@ tensor
  /\ saved' = [y |-> tensor'.out]
  /\ returned' = {"out"}

\* With lse_partial, x is only where the target's logit is read.
CrossEntropyForward ==
  /\ fnCall.fn = "cross_entropy"
  /\ tensor' = [loss |-> Computed(Value("loss", fnCall.tensors))] @@ tensor
  /\ saved' = [x |-> tensor.x, target |-> tensor.target, weight |-> Given("weight"),
               lse |-> Computed(Value("lse", {IF Has("lse_partial") THEN "lse_partial" ELSE "x"}))]
  /\ returned' = {"loss"}

TopKForward ==
  /\ fnCall.fn = "topk"
  /\ tensor' = [values  |-> Computed(Value("values", {"x"})),
                indices |-> Computed(Value("indices", {"x"}))] @@ tensor
  /\ saved' = [indices |-> tensor'.indices]
  /\ returned' = {"values", "indices"}

ForwardCall ==
  /\ fnAt = "called"
  /\ ~ForwardRefused
  /\ RmsnormForward \/ SoftmaxForward \/ CrossEntropyForward \/ TopKForward
  /\ fnAt' = "computed"
  /\ UNCHANGED <<fnCall, gradient>>

-----------------------------------------------------------------------------
(* Backward, with the gradients of what was returned.                       *)

Flows(output) == IF output \in fnCall.flows THEN {output} ELSE {}

\* What a kernel computes from the gradients of outputs, if what it reads
\* belongs together; dx of no rows is right, partial sums are not.
Launched(consistent, outputs) == IF consistent THEN Value("gradient", outputs) ELSE Value("wrong", {})
ZerosIfEmpty == TRUE
Zeros == Value("gradient", {})

PassesResidualGradient == fnCall.prenorm /\ Has("residual")

\* The kernel normalises again what was saved and adds the gradient of the
\* residual stream; the gradients of weight and bias are partial sums.
RmsnormBackward ==
  LET consistent == saved.x.of = Summands /\ saved.rstd.of = Summands
      dx == Launched(consistent, Flows("out") \cup
                   (IF PassesResidualGradient THEN Flows("residual_out") ELSE {}))
      dw == Launched(consistent, Flows("out"))
  IN  /\ fnCall.fn = "rmsnorm"
      /\ gradient' =
           IF fnCall.empty
             THEN [t \in Summands |-> Zeros] @@
                  [t \in {"weight", "bias"} |-> IF ZerosIfEmpty THEN Zeros ELSE Garbage]
             ELSE [t \in Summands |-> dx] @@ [t \in {"weight", "bias"} |-> dw]
      /\ UNCHANGED tensor

SoftmaxBackwardCall ==
  /\ fnCall.fn = "softmax"
  /\ gradient' = [x |-> IF fnCall.empty THEN Zeros ELSE Launched(saved.y.is = "softmax", Flows("out"))]
  /\ UNCHANGED tensor

\* In place, and not traced, the gradient overwrites x.
Overwrites == fnCall.inplace /\ ~fnCall.compiling
CrossEntropyBackwardCall ==
  LET dx == IF fnCall.empty THEN Zeros
            ELSE Launched(saved.x.of = {"x"} /\ saved.lse.is = "lse", Flows("loss"))
  IN  /\ fnCall.fn = "cross_entropy"
      /\ gradient' = [x |-> dx]
      /\ tensor' = IF Overwrites THEN [tensor EXCEPT !.x = dx] ELSE tensor

\* dx begins as zeros.
TopKBackwardCall ==
  /\ fnCall.fn = "topk"
  /\ gradient' = [x |-> IF fnCall.empty THEN Zeros ELSE Launched(saved.indices.is = "indices", Flows("values"))]
  /\ UNCHANGED tensor

BackwardCall ==
  /\ fnAt = "computed"
  /\ fnCall.flows # {} /\ fnCall.needs # {}
  /\ ~BackwardRefused
  /\ RmsnormBackward \/ SoftmaxBackwardCall \/ CrossEntropyBackwardCall \/ TopKBackwardCall
  /\ fnAt' = "differentiated"
  /\ UNCHANGED <<fnCall, saved, returned>>

\* The compiled kernel, or what converts its result, raises.
RefuseCall ==
  /\ \/ fnAt = "called" /\ ForwardRefused
     \/ fnAt = "computed" /\ fnCall.flows # {} /\ fnCall.needs # {} /\ BackwardRefused
  /\ fnAt' = "refused"
  /\ UNCHANGED <<fnCall, tensor, saved, returned, gradient>>

FnStart(c, pc) ==
  /\ fnCall = c /\ fnAt = pc
  /\ tensor = [t \in c.tensors |-> Value("input", {t})]
  /\ saved = <<>> /\ returned = {} /\ gradient = <<>>
FnIdle == FnStart(CHOOSE c \in Calls : TRUE, "differentiated")
FnInit == \E c \in Calls : FnStart(c, "called")

FnNext == ForwardCall \/ BackwardCall \/ RefuseCall

-----------------------------------------------------------------------------
\* Outputs that an input goes into.
Reaches(t) ==
  CASE fnCall.fn = "rmsnorm" -> IF t \in Summands THEN {"out", "residual_out"} ELSE {"out"}
    [] fnCall.fn = "softmax" -> {"out"}
    [] fnCall.fn = "cross_entropy" -> {"loss"}
    [] fnCall.fn = "topk" -> {"values"}

(***************************************************************************)
(* No legal call is refused, forward or backward; an input that needs a    *)
(* gradient gets that of every output it went into, each once, and zeros   *)
(* for an empty batch; and no input changes unless the caller allows it.   *)
(***************************************************************************)
GradientsComplete ==
  /\ fnAt # "refused"
  /\ gradient # <<>> =>
       \A t \in fnCall.needs :
         gradient[t] = Value("gradient", IF fnCall.empty THEN {} ELSE fnCall.flows \cap Reaches(t))
  /\ \A t \in fnCall.tensors : tensor[t] = Value("input", {t}) \/ (t = "x" /\ Overwrites)
=============================================================================
