-------------------------- MODULE MCClusterReduce --------------------------
(***************************************************************************)
(* Kernels of ClusterReduce for TLC.                                       *)
(***************************************************************************)
EXTENDS ClusterReduce

Forward(ctas, passes) ==
  [ctas |-> ctas, persistent |-> FALSE, rounds |-> passes, loads |-> "none", rows |-> FALSE]
Backward(ctas, tiles, loads, rows) ==
  [ctas |-> ctas, persistent |-> TRUE, rounds |-> tiles, loads |-> loads, rows |-> rows]

\* RMSNorm and LayerNorm forward, softmax; the backward kernel without work,
\* with enough tiles to use each stage and slot twice, by TMA and by cp.async.
ReduceShapes ==
  {Forward(1, 2), Forward(2, 1), Forward(2, 2), Forward(3, 1),
   Backward(1, 5, "tma", TRUE), Backward(1, 5, "async", TRUE), Backward(2, 1, "tma", FALSE),
   Backward(2, 0, "none", FALSE), Backward(2, 1, "none", FALSE), Backward(2, 4, "none", FALSE)}
=============================================================================
