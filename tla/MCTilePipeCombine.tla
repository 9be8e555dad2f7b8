------------------------- MODULE MCTilePipeCombine -------------------------
(***************************************************************************)
(* For TLC, two ranks with two experts each: the plans they build          *)
(* (TilePipePlans), and the publishing GEMM and the gated combine          *)
(* (TilePipeCombine).  A behaviour is of one or of the other.              *)
(***************************************************************************)
EXTENDS TilePipeCombine, TilePipePlans, TLC

Launched(a, b, nTiles, cluster, clusters, epiTiles) ==
  [topk |-> 0 :> a @@ 1 :> b, nTiles |-> nTiles, clM |-> cluster[1], clN |-> cluster[2],
   clusters |-> clusters, epiTiles |-> epiTiles,
   pulls |-> FALSE, ctas |-> 1, chunks |-> 1, stages |-> 1, threads |-> 1, iters |-> 1]

Pulling(p, ctas, chunks, stages, threads, iters) ==
  [p EXCEPT !.pulls = TRUE, !.ctas = ctas, !.chunks = chunks, !.stages = stages,
            !.threads = threads, !.iters = iters]

(***************************************************************************)
(* The GEMM alone: two clusters that share row blocks and store a tile in  *)
(* two groups; clusters that hang over the last m-tile of a batch, and     *)
(* over the n edge.  With the combine: rows in chunks, two combine CTAs in *)
(* two iterations, and two iterations in which one rank needs no row of a  *)
(* block that the other still announces to it.                             *)
(***************************************************************************)
Launches == {
  Launched(<<0, 0, 0, 1>>, <<0, 1>>, 2, <<1, 1>>, 2, 2),
  Launched(<<0, 0, 0, 1>>, <<2, 3>>, 1, <<2, 1>>, 1, 1),
  Launched(<<0, 1>>, <<0, 3>>, 1, <<1, 2>>, 1, 1),
  Pulling(Launched(<<0, 2, 1, 0>>, <<>>, 2, <<1, 1>>, 1, 1), 1, 2, 2, 2, 1),
  Pulling(Launched(<<0, 2, 1, 0>>, <<2, 3>>, 1, <<1, 1>>, 1, 1), 2, 1, 2, 1, 2),
  Pulling(Launched(<<0, 2>>, <<2, 3>>, 1, <<1, 1>>, 1, 1), 1, 1, 2, 2, 2)}

-----------------------------------------------------------------------------
(* Two tokens on each rank: all choices of rank 0 beside choices of rank 1  *)
(* that crowd an expert or a rank, or spread.  A token's experts differ.    *)

OneToken  == {<<e, f>> : e, f \in 0 .. 3} \ {<<e, e>> : e \in 0 .. 3}
TwoTokens == {a \o b : a, b \in OneToken}

Beside == {<<0, 1, 0, 1>>, <<0, 1, 2, 3>>, <<3, 0, 1, 2>>, <<2, 3, 3, 2>>, <<1, 3, 1, 0>>}
TokenPairs == {0 :> a @@ 1 :> b : a \in TwoTokens, b \in Beside}

\* What a launch finds in place of plans, and plans in place of a launch.
NoPlans ==
  /\ topk = [r \in Rank |-> <<>>] /\ planned = Rank
  /\ send = topk /\ push = topk /\ pull = topk
NoLaunch == shape = (CHOOSE p \in Shapes : ~p.pulls /\ p.clM > 1) /\ CombineState("end")

PlansOrCombineInit == (PlansInit /\ NoLaunch) \/ (CombineInit /\ NoPlans)

PlansOrCombineNext ==
  \/ PlansNext /\ UNCHANGED combineVars
  \/ CombineNext /\ UNCHANGED planVars

PlansOrCombine ==
  /\ PlansOrCombineInit
  /\ [][PlansOrCombineNext]_<<combineVars, planVars>>
  /\ CombineFairness
=============================================================================
