------------------------------- MODULE MCGemm -------------------------------
(***************************************************************************)
(* For TLC: the GEMM library from three sides.  A behaviour is of one: the *)
(* scheduler of a kernel (GemmHost), a call of the interface or a network  *)
(* that is trained with such calls (LinearAutograd), or a call that is     *)
(* compiled in a first pass (GemmPrecompile).                              *)
(***************************************************************************)
EXTENDS MCGemmHost, MCGemmRequests

CONSTANTS Junk, MaxZeroes

VARIABLES
  side,
  call, todo, mem,                                   \* of GemmInterface
  net, at, prog, env, pass, next, ctx, result, grad,
  returned, flow, expected, zeroes, raised           \* of LinearAutograd

linearVars == <<call, todo, mem, net, at, prog, env, pass, next, ctx, result, grad,
                returned, flow, expected, zeroes, raised>>
gemmVars == <<side, vars, linearVars, precompileVars>>

Linear == INSTANCE MCLinear

NoKernel == Dense("static", 1, 1, 1, 1, 1, 1, "m", 1, <<0>>)
NothingLaunched == LaunchFirst(NoKernel)
NothingCompiled ==
  request = Basic("gemm", 9, 2) /\ stage = "done" /\ kernels = {} /\ outcome = [result |-> "none"]

GemmInit ==
  \/ side = "scheduler" /\ Init /\ Linear!NothingInit /\ NothingCompiled
  \/ side = "linear" /\ NothingLaunched /\ (Linear!CallsInit \/ Linear!NetsInit(Linear!NetsMC)) /\ NothingCompiled
  \/ /\ side = "precompile" /\ NothingLaunched /\ Linear!NothingInit
     /\ \E r \in WarmRequests : PrecompileInit(r)

\* Nothing is left to do.
Ended ==
  /\ side = "precompile" => stage = "done"
  /\ side = "linear" => Linear!LinearEnded
  /\ side # "scheduler"
  /\ UNCHANGED gemmVars

GemmNext ==
  \/ side = "scheduler" /\ Next /\ UNCHANGED <<side, linearVars, precompileVars>>
  \/ side = "linear" /\ Linear!LinearNext /\ UNCHANGED <<side, vars, precompileVars>>
  \/ side = "precompile" /\ PrecompileNext /\ UNCHANGED <<side, vars, linearVars>>
  \/ Ended

GemmSpec == GemmInit /\ [][GemmNext]_gemmVars

\* As GemmInterface states it: calls return what their references compute.
CallsMatchReference == Linear!CallsMatchReference

\* As LinearAutograd states it: gradients are those of the reference layers.
TrainingMatchesReference == Linear!TrainingMatchesReference
=============================================================================
