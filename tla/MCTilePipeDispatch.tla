------------------------- MODULE MCTilePipeDispatch -------------------------
(***************************************************************************)
(* An instance of TilePipeDispatch for TLC in both publish modes.  The     *)
(* plan is not made up: the assumption below checks that it is what the    *)
(* builders of TilePipeRouting derive from a routing.                      *)
(***************************************************************************)
EXTENDS TilePipeDispatch, TLC

Routing == INSTANCE TilePipeRouting WITH TopK <- 1

To(token, slot, dst, expert, seg) ==
  [token |-> token, slot |-> slot, dst |-> dst, expert |-> expert, seg |-> seg]

IsBuiltFrom(topk, plan, cu) ==
  \A r \in Rank :
    /\ plan[r] = Routing!SendList(topk, r)
    /\ \A e \in 0 .. EPR : cu[r][e] = Routing!CuSeqlens(topk, r, e)

-----------------------------------------------------------------------------
(* Two ranks, two experts each.  The warps of rank 0 share a segment of     *)
(* three rows for expert 1 of rank 1, rank 1 adds a fourth row to it, and   *)
(* expert 1 of rank 0 stays empty.                                          *)
SharedTopk == (0 :> <<3, 0, 3, 3>>) @@ (1 :> <<0, 3, 2>>)
SharedPlan ==
  (0 :> <<To(1, 0, 0, 0, 0), To(0, 1, 1, 1, 3), To(2, 2, 1, 1, 3), To(3, 3, 1, 1, 3)>>) @@
  (1 :> <<To(2, 0, 1, 0, 0), To(0, 1, 0, 0, 1), To(1, 4, 1, 1, 2)>>)
SharedCu == (0 :> (0 :> 0 @@ 1 :> 2 @@ 2 :> 2)) @@ (1 :> (0 :> 0 @@ 1 :> 1 @@ 2 :> 5))

\* The grids of the only iteration: three warps and two CTAs.
ThreeWarps == <<3>>
TwoCtas == (0 :> <<2>>) @@ (1 :> <<2>>)

ASSUME PlansAreBuilt == IsBuiltFrom(SharedTopk, SharedPlan, SharedCu)

-----------------------------------------------------------------------------
(* PUBLISH_SEGMENT is fixed when the kernels are compiled, so it is a       *)
(* constant of the specification, TRUE in the configuration.  An iteration  *)
(* of this instance runs with one of its two values throughout.             *)

Tokens == INSTANCE TilePipeDispatch WITH PublishSegment <- FALSE

VARIABLE mode

EitherInit == Init /\ mode \in {"segment", "token"}

In(m, step) == mode = m /\ step /\ UNCHANGED mode

SegmentCopy(r, w)   == In("segment", CopyRow(r, w))
SegmentFlush(r, w)  == In("segment", FlushSegment(r, w))
SegmentArrive(r, w) == In("segment", ArriveSegment(r, w))
TokenCopy(r, w)     == In("token", Tokens!CopyRow(r, w))
TokenArrive(r, w)   == In("token", Tokens!ArriveToken(r, w))

EitherWarpStep(r, w) ==
  \/ SegmentCopy(r, w)
  \/ SegmentFlush(r, w)
  \/ SegmentArrive(r, w)
  \/ TokenCopy(r, w)
  \/ TokenArrive(r, w)

GateWait(d, c) == GemmWait(d, c) /\ UNCHANGED mode
TileLoad(d, c) == GemmLoad(d, c) /\ UNCHANGED mode
EitherCtaStep(d, c) == GateWait(d, c) \/ TileLoad(d, c)

EitherNext ==
  \/ \E r \in Rank, w \in Warp : EitherWarpStep(r, w)
  \/ \E d \in Rank, c \in Cta : EitherCtaStep(d, c)

EitherVars == <<vars, mode>>

EitherSpec ==
  /\ EitherInit
  /\ [][EitherNext]_EitherVars
  /\ \A r \in Rank, w \in Warp : WF_EitherVars(EitherWarpStep(r, w))
  /\ \A d \in Rank, c \in Cta : WF_EitherVars(EitherCtaStep(d, c))
=============================================================================
