-------------------------- MODULE MCTilePipeRounds --------------------------
(***************************************************************************)
(* For TLC: the iterations of two ranks with one expert and two SMs each   *)
(* (TilePipeRounds), on a plan the builders make.  The program mixes       *)
(* dispatches of one and of both SMs, GEMMs that keep to the other SM and  *)
(* oversubscribed ones that could fill both.                               *)
(***************************************************************************)
EXTENDS TilePipeRounds, TLC

Routing == INSTANCE TilePipeRouting WITH TopK <- 1

To(token, slot, dst, seg) ==
  [token |-> token, slot |-> slot, dst |-> dst, expert |-> 0, seg |-> seg]

PairTopk == (0 :> <<1, 0, 1>>) @@ (1 :> <<0>>)
PairPlan == (0 :> <<To(1, 0, 0, 0), To(0, 0, 1, 1), To(2, 1, 1, 1)>>) @@
            (1 :> <<To(0, 1, 0, 1)>>)
PairCu == (0 :> (0 :> 0 @@ 1 :> 2)) @@ (1 :> (0 :> 0 @@ 1 :> 2))

ASSUME PairIsBuilt ==
  \A r \in Rank :
    /\ PairPlan[r] = Routing!SendList(PairTopk, r)
    /\ \A e \in 0 .. EPR : PairCu[r][e] = Routing!CuSeqlens(PairTopk, r, e)

-----------------------------------------------------------------------------
\* What an iteration is but for its kernels and their shares of the GPU.
Apart == [oneStream |-> FALSE, meet |-> FALSE]
Meeting(it) == [it EXCEPT !.meet = TRUE]

Gemm(kind) == Apart @@ [dispatch |-> FALSE, gemm |-> kind,
                        commSms |-> 1, oversubSms |-> 0]
Dispatch(csms) == Apart @@ [dispatch |-> TRUE, gemm |-> "none",
                            commSms |-> csms, oversubSms |-> 0]
Overlapped(csms, osub) == Apart @@ [dispatch |-> TRUE, gemm |-> "gated",
                                    commSms |-> csms, oversubSms |-> osub]
Serial == [Overlapped(NumSms, 0) EXCEPT !.oneStream = TRUE]

\* The constructor with warmup_comm_sms = 1, the validated overlapped run, and a
\* sweep: pure GEMM, pure dispatch, serial, overlapped as a hard partition and
\* oversubscribed, each group of iterations ending in a collective.
Sweep == <<Meeting(Gemm("satisfied")), Meeting(Dispatch(1)),
           Meeting(Overlapped(1, 2)),
           Meeting(Gemm("plain")),
           Dispatch(2), Meeting(Dispatch(2)),
           Meeting(Serial),
           Overlapped(1, 0), Meeting(Overlapped(1, 0)),
           Overlapped(2, 2), Overlapped(2, 2)>>

\* The grids that go with it; a GEMM of two tiles has at most two CTAs.
SweepWarps == [k \in 0 .. Len(Sweep) |->
                 IF k = 0 THEN 1 ELSE Sweep[k].commSms * CommWarps]
SweepCtas ==
  [d \in Rank |-> [k \in 0 .. Len(Sweep) |->
     IF k = 0 THEN 1
     ELSE LesserOf(MaxClusters(Sweep[k]), PairCu[d][EPR] \div TileM)]]
=============================================================================
