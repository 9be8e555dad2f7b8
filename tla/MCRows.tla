------------------------------- MODULE MCRows -------------------------------
(***************************************************************************)
(* For TLC: the kernels that work on rows from four sides.  A behaviour is *)
(* of one: the warps of a cluster that reduce a row (ClusterReduce), the   *)
(* geometry of a kernel (RowKernels), a row of which the largest are taken *)
(* (TopK), or a call of an autograd function (RowFunctions).               *)
(***************************************************************************)
EXTENDS MCClusterReduce, MCRowKernels, TopK, MCRowFunctions

(***************************************************************************)
(* Rows of TopK: one lane to 32 of them, vectors of 4 and 8, k from 1 to   *)
(* 16; values without a sign change, with many and with few equal ones,    *)
(* and, where one lane holds a row, of both signs.                         *)
(***************************************************************************)
TopKRow(n, k, vec, a, b, p, s) ==
  [n |-> n, k |-> k, vec |-> vec, value |-> [c \in 0 .. n - 1 |-> ((a * c + b) % p) - s]]

RowsMC ==
  {TopKRow(n, k, vec, 37, 3, p, s) :
     n \in {16, 128}, k \in {1, 2, 4, 8, 16}, vec \in {4, 8}, p \in {7, 101}, s \in {0, 2000}}
  \cup {TopKRow(n, 8, 8, a, 3, 1009, s) : n \in {64, 256}, a \in {1, 255}, s \in {0, 2000}}
  \cup {TopKRow(n, k, 8, 5, 1, 19, 15) : n \in {16, 64}, k \in {2, 8}}

\* Two lanes and both signs among the largest.
MixedSigns == TopKRow(128, 8, 8, 37, 3, 101, 97)

-----------------------------------------------------------------------------
VARIABLE side

rowsVars == <<side, vars, rowVars, topkVars, fnVars>>

\* A kernel without warps that have anything to do.
NoShape == Forward(1, 1)
ReduceIdle ==
  /\ shape = NoShape
  /\ warp = [c \in {0} |-> [w \in Warps |-> [pc |-> "done", i |-> 0, stage |-> 0, consumer |-> 0, producer |-> 1]]]
  /\ joined = {} /\ buffer = <<>> /\ full = <<>> /\ empty = <<>>
  /\ flying = {} /\ ring = <<>> /\ landing = {}

RowsInit ==
  \/ side = "cluster" /\ Init /\ RowIdle /\ TopKIdle /\ FnIdle
  \/ side = "geometry" /\ ReduceIdle /\ RowInit /\ TopKIdle /\ FnIdle
  \/ side = "topk" /\ ReduceIdle /\ RowIdle /\ TopKInit /\ FnIdle
  \/ side = "function" /\ ReduceIdle /\ RowIdle /\ TopKIdle /\ FnInit

RowsNext ==
  \/ side = "cluster" /\ Next /\ UNCHANGED <<side, rowVars, topkVars, fnVars>>
  \/ side = "geometry" /\ RowNext /\ UNCHANGED <<side, vars, topkVars, fnVars>>
  \/ side = "topk" /\ TopKNext /\ UNCHANGED <<side, vars, rowVars, fnVars>>
  \/ side = "function" /\ FnNext /\ UNCHANGED <<side, vars, rowVars, topkVars>>

RowsSpec == RowsInit /\ [][RowsNext]_rowsVars /\ Fairness

\* A kernel of RowKernels alone.
GeometrySpec ==
  /\ side = "geometry" /\ ReduceIdle /\ RowInit /\ TopKIdle /\ FnIdle
  /\ [][RowsNext]_rowsVars

\* A row with values of both signs among the largest, in several lanes.
MixedSpec ==
  /\ side = "topk" /\ ReduceIdle /\ RowIdle /\ TopKStart(MixedSigns, "load") /\ FnIdle
  /\ [][RowsNext]_rowsVars
=============================================================================
