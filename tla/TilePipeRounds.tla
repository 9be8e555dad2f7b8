--------------------------- MODULE TilePipeRounds ---------------------------
(***************************************************************************)
(* The life of a TilePipe: the warm-up of its constructor and the          *)
(* iterations that a driver runs with it (quack/tilepipe.py, __init__ /    *)
(* reset / launch_* / run_*; examples/distributed/tilepipe.py, run_tilepipe*)
(* and time_iters).  Every rank has its own host program and its own GPU.  *)
(* The host enqueues kernels, their CTAs wait for an SM, and a CTA keeps   *)
(* its SM until it is done, also while it spins.  The kernels themselves   *)
(* are those of TilePipeDispatch; gen[r] numbers the iterations of rank r, *)
(* and a row that an earlier iteration wrote does not count as arrived in  *)
(* a later one.                                                            *)
(***************************************************************************)
EXTENDS TilePipeDispatch

CONSTANTS NumSms,      \* SMs of a GPU; a CTA of either kernel fills one
          CommWarps,   \* comm_warps: warps of a dispatch CTA
          Program      \* the iterations, in order

(***************************************************************************)
(* An iteration: the kernels it launches ("dispatch", and the GEMM as      *)
(* "gated", "plain" or, for the constructor's warm-up with the flags set   *)
(* to the split sizes, "satisfied"), how they share the GPU (the SMs of    *)
(* the dispatch, the oversubscription of the GEMM), whether they share a   *)
(* stream (run_serial), and whether the ranks meet in a collective         *)
(* afterwards.                                                             *)
(***************************************************************************)
Iteration == [dispatch : BOOLEAN, gemm : {"none", "gated", "plain", "satisfied"},
              commSms : Nat \ {0}, oversubSms : Nat,
              oneStream : BOOLEAN, meet : BOOLEAN]

LesserOf(a, b) == IF a < b THEN a ELSE b

\* min(num_sms, num_sms + oversub_sms - num_comm_sms) in run_overlapped; the
\* other launches pass no limit and may fill the GPU.
MaxClusters(it) ==
  IF it.gemm = "gated" /\ ~it.oneStream
    THEN LesserOf(NumSms, NumSms + it.oversubSms - it.commSms)
    ELSE NumSms

\* Iteration 0 stands for the time before the first.  A rank's GEMM has as many
\* CTAs as the limit allows, fewer when it has fewer tiles; one that has none
\* cannot be launched.
ASSUME RoundsAssumption ==
  /\ {NumSms, CommWarps} \subseteq Nat \ {0}
  /\ Program \in Seq(Iteration)
  /\ Launch = 0 .. Len(Program)
  /\ \A k \in DOMAIN Program :
       /\ NWarps[k] = Program[k].commSms * CommWarps
       /\ Program[k].gemm # "none" =>
            \A d \in Rank : NCtas[d][k] \in 1 .. MaxClusters(Program[k])
       /\ Program[k].oneStream => Program[k].commSms = NumSms

\* After iteration k no peer adds to the flags that a rank zeroes for the next
\* one: a collective came in between, or the GEMM has waited for every row.
CleanEnd(k) ==
  \/ k = 0
  \/ Program[k].meet \/ Program[k].gemm = "gated" \/ ~Program[k].dispatch

\* The constructor's warm-up comes first.  A driver runs the same kind of
\* iteration in a loop that ends in a collective (validate, time_iters), so
\* that a gated one never follows a dispatch that nobody waited for.
ASSUME ProgramAssumption ==
  /\ Program # <<>>
  /\ \A k \in DOMAIN Program :
       /\ Program[k].gemm = "satisfied" => k = 1
       /\ Program[k].gemm = "gated" => CleanEnd(k - 1)

VARIABLES
  host,      \* host[r]: "reset", "barrier", "launch", "wait", "meet" or "end"
  launched,  \* launched[r]: kernels enqueued in this iteration
  pending,   \* pending[r]: CTAs that are enqueued and have no SM yet
  resident,  \* resident[r]: CTAs that occupy an SM
  loaded     \* loaded[r]: kernels whose module is on the device

gpuVars == <<launched, pending, resident, loaded>>
roundVars == <<vars, host, gpuVars>>

\* The iteration that rank r runs or prepares.
Current(r) == Program[gen[r]]
Upcoming(r) == Program[gen[r] + 1]

\* The grids of the two kernels in it.
DispatchCtas(r) == {<<"dispatch", i>> : i \in 1 .. Current(r).commSms}
GemmCtas(r) == {<<"gemm", c>> : c \in 1 .. TotalCtas(r)}
CtasOf(r, kernel) == IF kernel = "dispatch" THEN DispatchCtas(r) ELSE GemmCtas(r)

\* global_warp_id = bidx * warps + warp_idx
CtaOfWarp(w) == <<"dispatch", 1 + (w - 1) \div CommWarps>>
GpuIdle(r) == pending[r] = {} /\ resident[r] = {}

-----------------------------------------------------------------------------
(* Between two iterations *)

ClearWithoutFlags(r) == UNCHANGED <<flags, flagView>>

\* flags.fill_(0)
ClearFlags(r) ==
  /\ flags' = [flags EXCEPT ![r] = [e \in Expert |-> 0]]
  /\ flagView' = [flagView EXCEPT ![r] = [e \in Expert |-> {}]]

\* seg_done.zero_()
ClearSegDone(r) ==
  /\ segDone' = [segDone EXCEPT ![r] = [s \in Seg |-> 0]]
  /\ segView' = [segView EXCEPT ![r] = [s \in Seg |-> {}]]

\* reset() up to its barrier: both memsets and the synchronize.  No kernel of
\* this rank is running, those of its peers may be.
Reset(r) ==
  /\ host[r] = "reset"
  /\ Upcoming(r).gemm # "satisfied"
  /\ ClearFlags(r)
  /\ ClearSegDone(r)
  /\ host' = [host EXCEPT ![r] = "barrier"]
  /\ UNCHANGED <<gen, nxt, wpc, curSeg, count, view, recv, gemmVars, gpuVars>>

\* flags.copy_(split_sizes)
Satisfy(r) == flags' = [flags EXCEPT ![r] = [e \in Expert |-> LenM(r, e)]]

\* What starts an iteration on rank r.  The rows of its last one are old now
\* and forgotten as arrivals; the new grids start at their first work items.
BeginIteration(r) ==
  /\ host' = [host EXCEPT ![r] = "launch"]
  /\ gen' = [gen EXCEPT ![r] = @ + 1]
  /\ nxt' = [nxt EXCEPT ![r] = [w \in Warp |-> FirstRow(w)]]
  /\ view' = [view EXCEPT ![r] = [w \in Warp |-> {}]]
  /\ curSeg' = [curSeg EXCEPT ![r] = [w \in Warp |-> -1]]
  /\ flagView' = [d \in Rank |-> [e \in Expert |->
                    {x \in flagView[d][e] : x[1] # r}]]
  /\ tile' = [tile EXCEPT ![r] = [c \in Cta |-> c - 1]]
  /\ ready' = [ready EXCEPT ![r] = [c \in Cta |-> -1]]
  /\ gview' = [gview EXCEPT ![r] = [c \in Cta |-> {}]]
  /\ launched' = [launched EXCEPT ![r] = {}]
  /\ UNCHANGED <<wpc, count, segDone, segView, recv, racy, pending, resident, loaded>>

\* The constructor sets the flags for the GEMM's warm-up; no barrier needed.
PreSatisfy(r) ==
  /\ host[r] = "reset"
  /\ Upcoming(r).gemm = "satisfied"
  /\ Satisfy(r)
  /\ BeginIteration(r)

\* dist.barrier: rank q has entered the barrier that r waits in.
AtBarrier(q, r) ==
  \/ gen[q] > gen[r]
  \/ gen[q] = gen[r] /\ host[q] = "barrier"

PassBarrier(r) ==
  /\ host[r] = "barrier"
  /\ \A q \in Rank : AtBarrier(q, r)
  /\ BeginIteration(r)
  /\ UNCHANGED flags

-----------------------------------------------------------------------------
(* Launches and SMs *)

\* The kernels of an iteration in the order the host enqueues them.
Kernels(it) == (IF it.dispatch THEN {"dispatch"} ELSE {}) \cup
               (IF it.gemm = "none" THEN {} ELSE {"gemm"})
LaunchOrderGemmFirst(it) == [gemm |-> {}, dispatch |-> Kernels(it) \cap {"gemm"}]
LaunchOrder(it) == [dispatch |-> {}, gemm |-> Kernels(it) \cap {"dispatch"}]

\* launch_dispatch, launch_gemm.  The first launch of a kernel loads its
\* module, which waits for everything that runs on the device.
LaunchKernel(r, kernel) ==
  /\ host[r] = "launch"
  /\ kernel \in Kernels(Current(r)) \ launched[r]
  /\ LaunchOrder(Current(r))[kernel] \subseteq launched[r]
  /\ kernel \in loaded[r] \/ GpuIdle(r)
  /\ launched' = [launched EXCEPT ![r] = @ \cup {kernel}]
  /\ pending' = [pending EXCEPT ![r] = @ \cup CtasOf(r, kernel)]
  /\ loaded' = [loaded EXCEPT ![r] = @ \cup {kernel}]
  /\ host' = [host EXCEPT ![r] = IF launched'[r] = Kernels(Current(r)) THEN "wait" ELSE "launch"]
  /\ UNCHANGED <<vars, resident>>

\* CTAs that may not be placed while those of the dispatch wait or, on one
\* stream, run: the comm stream has the higher priority.
Outranked(r, x) ==
  /\ x[1] = "gemm"
  /\ \/ DispatchCtas(r) \cap pending[r] # {}
     \/ Current(r).oneStream /\ DispatchCtas(r) \cap resident[r] # {}

\* A free SM takes a waiting CTA.
Place(r) ==
  \E x \in pending[r] :
    /\ Cardinality(resident[r]) < NumSms
    /\ ~Outranked(r, x)
    /\ pending' = [pending EXCEPT ![r] = @ \ {x}]
    /\ resident' = [resident EXCEPT ![r] = @ \cup {x}]
    /\ UNCHANGED <<vars, host, launched, loaded>>

CtaDone(r, x) ==
  IF x[1] = "dispatch" THEN \A w \in Warp : CtaOfWarp(w) = x => WarpDone(r, w)
                       ELSE tile[r][x[2]] >= TileBase[r][EPR]

Retire(r) ==
  \E x \in resident[r] :
    /\ CtaDone(r, x)
    /\ resident' = [resident EXCEPT ![r] = @ \ {x}]
    /\ UNCHANGED <<vars, host, launched, pending, loaded>>

\* A load warp that has no rows of this iteration to wait for: without a gate,
\* or with one that the constructor has satisfied.
LoadOldRows(r, c) ==
  /\ Current(r).gemm \in {"plain", "satisfied"}
  /\ Current(r).gemm = "satisfied" =>
       \A e \in Expert : InBatch(r, tile[r][c], e) => GateOpen(r, e)
  /\ ~ CtaDone(r, <<"gemm", c>>)
  /\ tile' = [tile EXCEPT ![r][c] = @ + TotalCtas(r)]
  /\ UNCHANGED <<gen, warpVars, recv, flags, flagView, ready, gview, racy>>

ResidentWarp(r, w) ==
  /\ CtaOfWarp(w) \in resident[r]
  /\ WarpStep(r, w)
  /\ UNCHANGED <<host, gpuVars>>

ResidentCta(r, c) ==
  /\ <<"gemm", c>> \in resident[r]
  /\ \/ Current(r).gemm = "gated" /\ CtaStep(r, c)
     \/ LoadOldRows(r, c)
  /\ UNCHANGED <<host, gpuVars>>

-----------------------------------------------------------------------------
\* torch.cuda.synchronize(): this rank's kernels have ended, nothing is known
\* about the others, unless a collective follows.
MeetsNever(it) == FALSE
Meets(it) == it.meet

\* On to the next iteration, if there is one.
Onward(r) == IF gen[r] = Len(Program) THEN "end" ELSE "reset"

Synchronize(r) ==
  /\ host[r] = "wait"
  /\ GpuIdle(r)
  /\ host' = [host EXCEPT ![r] = IF Meets(Current(r)) THEN "meet" ELSE Onward(r)]
  /\ UNCHANGED <<vars, gpuVars>>

\* The barrier and all_reduce after a validation, the all_reduce of the
\* median time at the end of time_iters: no rank leaves before all came.
Meet(r) ==
  /\ host[r] = "meet"
  /\ \A q \in Rank : gen[q] = gen[r] => host[q] \in {"meet", "reset", "barrier", "end"}
  /\ \A q \in Rank : gen[q] >= gen[r]
  /\ host' = [host EXCEPT ![r] = Onward(r)]
  /\ UNCHANGED <<vars, gpuVars>>

-----------------------------------------------------------------------------
RoundsInit ==
  /\ gen = [r \in Rank |-> 0]
  /\ nxt = [r \in Rank |-> [w \in Warp |-> FirstRow(w)]]
  /\ wpc = [r \in Rank |-> [w \in Warp |-> "copy"]]
  /\ curSeg = [r \in Rank |-> [w \in Warp |-> -1]]
  /\ count = [r \in Rank |-> [w \in Warp |-> 0]]
  /\ view = [r \in Rank |-> [w \in Warp |-> {}]]
  /\ segDone = [r \in Rank |-> [s \in Seg |-> 0]]
  /\ segView = [r \in Rank |-> [s \in Seg |-> {}]]
  /\ recv = [d \in Rank |-> [s \in Row |-> 0]]
  /\ flags = [d \in Rank |-> [e \in Expert |-> 0]]
  /\ flagView = [d \in Rank |-> [e \in Expert |-> {}]]
  /\ GemmInit
  /\ host = [r \in Rank |-> "reset"]
  /\ launched = [r \in Rank |-> {}]
  /\ pending = [r \in Rank |-> {}]
  /\ resident = [r \in Rank |-> {}]
  /\ loaded = [r \in Rank |-> {}]

HostStep(r) ==
  \/ Reset(r)
  \/ PreSatisfy(r)
  \/ PassBarrier(r)
  \/ \E kernel \in {"dispatch", "gemm"} : LaunchKernel(r, kernel)
  \/ Synchronize(r)
  \/ Meet(r)

RoundsNext ==
  \E r \in Rank : \/ HostStep(r)
                  \/ Place(r)
                  \/ Retire(r)
                  \/ \E w \in Warp : ResidentWarp(r, w)
                  \/ \E c \in Cta : ResidentCta(r, c)

RoundsSpec == RoundsInit /\ [][RoundsNext]_roundVars

\* Hosts return from CUDA calls and barriers, a free SM takes a CTA, and the
\* warps of a resident CTA are scheduled.
RoundsFairness ==
  \A r \in Rank :
    /\ WF_roundVars(HostStep(r))
    /\ WF_roundVars(Place(r))
    /\ WF_roundVars(Retire(r))
    /\ \A w \in Warp : WF_roundVars(ResidentWarp(r, w))
    /\ \A c \in Cta : WF_roundVars(ResidentCta(r, c))

RoundsFairSpec == RoundsSpec /\ RoundsFairness

-----------------------------------------------------------------------------
(***************************************************************************)
(* While a gated GEMM runs, its flags count the rows of this very          *)
(* iteration that were released into them, none of an earlier one: not     *)
(* even of a dispatch-only iteration, in which a peer may still add to     *)
(* flags that this rank has already zeroed.                                *)
(***************************************************************************)
FlagsCountThisIteration ==
  \A d \in Rank : host[d] = "wait" /\ Current(d).gemm = "gated" =>
    \A e \in Expert : flags[d][e] = Cardinality(flagView[d][e] \cap ExpertEntries(d, e))

(***************************************************************************)
(* Every iteration ends on every rank: no kernel spins on an SM that the   *)
(* kernel it waits for would need, on any rank, and no launch waits for a  *)
(* kernel that waits for it.                                               *)
(***************************************************************************)
AllRoundsEnd == <>(\A r \in Rank : host[r] = "end")

-----------------------------------------------------------------------------
(* The inductive invariant behind the safety properties. *)

RoundsTypeOK ==
  /\ TypeOK
  /\ host \in [Rank -> {"reset", "barrier", "launch", "wait", "meet", "end"}]
  /\ launched \in [Rank -> SUBSET {"dispatch", "gemm"}]
  /\ pending \in [Rank -> SUBSET ({"dispatch", "gemm"} \X (Nat \ {0}))]
  /\ resident \in [Rank -> SUBSET ({"dispatch", "gemm"} \X (Nat \ {0}))]
  /\ loaded \in [Rank -> SUBSET {"dispatch", "gemm"}]
  /\ \A r \in Rank :
       /\ gen[r] <= Len(Program)
       /\ gen[r] = 0 => host[r] \in {"reset", "barrier"}
       /\ host[r] \in {"reset", "barrier"} => gen[r] < Len(Program)
       /\ host[r] = "barrier" => Upcoming(r).gemm # "satisfied"

InKernels(r) == host[r] \in {"launch", "wait"}
Started(r) == gen[r] > 0 /\ host[r] # "barrier"
Gated(r) == Started(r) /\ Current(r).gemm = "gated"

\* A launched CTA is enqueued, resident or done; between two iterations none is.
LaunchOK(r) ==
  /\ ~InKernels(r) => GpuIdle(r)
  /\ InKernels(r) => launched[r] \subseteq Kernels(Current(r))
  /\ host[r] = "wait" => launched[r] = Kernels(Current(r))
  /\ InKernels(r) =>
       /\ \A x \in pending[r] \cup resident[r] :
            x[1] \in launched[r] /\ x \in CtasOf(r, x[1])
       /\ \A k \in launched[r] : \A x \in CtasOf(r, k) :
            x \in pending[r] \/ x \in resident[r] \/ CtaDone(r, x)
  /\ \A w \in Warp :
       ~(InKernels(r) /\ "dispatch" \in launched[r] /\ w <= TotalWarps(r)) =>
         wpc[r][w] = "copy" /\ count[r][w] = 0

\* A rank waits in the barrier with its counters zeroed; outside, its dispatch
\* is consistent.
RankOK(r) ==
  /\ host[r] = "barrier" \/ gen[r] = 0 =>
       \A s \in Seg : segDone[r][s] = 0 /\ segView[r][s] = {}
  /\ host[r] # "barrier" => ListOK(r)

\* A rank is at most one iteration ahead, of ranks that wait in the barrier or
\* that have not begun the constructor's warm-up.
AheadOK(q, r) ==
  gen[q] > gen[r] =>
    /\ gen[q] = gen[r] + 1
    /\ \/ host[r] = "barrier"
       \/ gen[r] = 0 /\ host[r] = "reset" /\ Program[1].gemm = "satisfied"

Ended(q, k) ==
  \/ gen[q] > k
  \/ gen[q] = k /\ host[q] \in {"meet", "reset", "barrier", "end"}

\* Behind a collective every rank has ended the iteration.
MeetingOK(r) ==
  gen[r] > 0 /\ host[r] \in {"reset", "barrier", "end"} /\ Current(r).meet =>
    \A q \in Rank : Ended(q, gen[r])

\* The flags of rank d were zeroed when no peer would add to them any more.
Fresh(d) ==
  IF host[d] = "barrier" THEN CleanEnd(gen[d])
  ELSE gen[d] > 0 /\ Current(d).gemm # "satisfied" /\ CleanEnd(gen[d] - 1)

\* Rank r has not begun the iteration that the flags of d are zeroed for.
Behind(r, d) == gen[r] < gen[d] \/ (gen[r] = gen[d] /\ host[d] = "barrier")

EntriesTo(r, d) == {x \in Entry : x[1] = r /\ Send(x).dst = d}

\* Until then r announces nothing more to d ...
Silent(r, d) ==
  /\ gen[r] = gen[d] /\ InKernels(r) /\ Current(r).dispatch =>
       \A x \in EntriesTo(r, d) : Announced(x)
  /\ gen[r] < gen[d] /\ host[d] = "barrier" /\ Current(d).dispatch =>
       EntriesTo(r, d) = {}

\* ... and d has seen nothing of it.
BehindOK(r, d) ==
  Fresh(d) /\ Behind(r, d) =>
    /\ Silent(r, d)
    /\ \A e \in Expert : \A x \in flagView[d][e] : x[1] # r

\* The flags agree with what the senders have announced.
FlagsOK(r, d) ==
  host[r] # "barrier" =>
    /\ PublishedFrom(r, d)
    /\ ~Behind(r, d) => ShownOK(r, d)

CountOK(d) ==
  Fresh(d) => \A e \in Expert : flags[d][e] = Cardinality(Published(d, e))

\* A gated CTA has waited for the batch of each tile it has passed.
WaitedOK(d) ==
  Gated(d) =>
    \A c \in 1 .. TotalCtas(d), e \in Expert :
      \/ ExpertEntries(d, e) \subseteq flagView[d][e]
      \/ /\ ready[d][c] # e
         /\ \A t \in 0 .. tile[d][c] - 1 :
              (\E k \in 0 .. t : t = c - 1 + k * TotalCtas(d)) => ~InBatch(d, t, e)

\* CTA c walks its own tiles.
TilesOK(d) ==
  \A c \in 1 .. TotalCtas(d) :
    \E k \in 0 .. tile[d][c] : tile[d][c] = c - 1 + k * TotalCtas(d)

\* A gated GEMM that has ended has taken every tile.
EndedOK(d) ==
  Gated(d) /\ ~InKernels(d) => GemmDone(d)

RoundsInv ==
  /\ \A r \in Rank : LaunchOK(r) /\ RankOK(r) /\ MeetingOK(r)
  /\ \A q, r \in Rank : AheadOK(q, r)
  /\ \A r, d \in Rank : BehindOK(r, d) /\ FlagsOK(r, d)
  /\ \A d \in Rank : CountOK(d) /\ WaitedOK(d) /\ TilesOK(d) /\ EndedOK(d)
  /\ RowsCopied
  /\ GateInv
  /\ NoRacyRead
=============================================================================
