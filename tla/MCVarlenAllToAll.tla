-------------------------- MODULE MCVarlenAllToAll --------------------------
(* Instances of VarlenAllToAll for TLC. *)
EXTENDS VarlenAllToAll

\* Dispatch: the workers share segment 1; segments 1, 2 and 3 end inside one
\* window.
At(seg, gate) == [seg |-> seg, gate |-> gate]
DispatchList == <<At(0, 0), At(0, 0), At(0, 0), At(1, 0), At(1, 0), At(2, 0), At(3, 0)>>

\* Push-combine: rows in buffer order, two tiles.
PushList == <<At(0, 0), At(0, 0), At(1, 0), At(2, 1), At(2, 1), At(3, 1), At(3, 1)>>

\* Dispatch, push-combine with counters, and push-combine as the pipeline runs
\* it: gated, and nothing published.
With(impl) == {
  [rank |-> 1, list |-> DispatchList, publishes |-> TRUE, gated |-> FALSE, impl |-> impl],
  [rank |-> 0, list |-> PushList, publishes |-> TRUE, gated |-> TRUE, impl |-> impl],
  [rank |-> 0, list |-> PushList, publishes |-> FALSE, gated |-> TRUE, impl |-> impl]}

AllLaunches == With("tma") \cup With("simt")
=============================================================================
