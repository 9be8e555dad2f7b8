------------------------ MODULE TilePipeRoundsProofs ------------------------
(***************************************************************************)
(* Theorems about TilePipeRounds, for every number of ranks, experts, SMs  *)
(* and warps, every plan, every program of iterations that satisfies       *)
(* ProgramAssumption, and every partition of the SMs in each of them: the  *)
(* dispatch may have any number of SMs, the GEMM of a rank any grid that   *)
(* run_overlapped leaves it.                                               *)
(***************************************************************************)
EXTENDS TilePipeRounds, TilePipeDispatchProofs, WellFoundedInduction

-----------------------------------------------------------------------------
(* The grids and the program. *)

LEMMA Grids ==
  ASSUME NEW r
  PROVE  /\ \A x \in DispatchCtas(r) : x[1] = "dispatch"
         /\ \A x \in GemmCtas(r) :
              x[1] = "gemm" /\ x[2] \in 1 .. TotalCtas(r) /\ x = <<"gemm", x[2]>>
         /\ \A c \in 1 .. TotalCtas(r) : <<"gemm", c>> \in GemmCtas(r)
         /\ \A kernel \in {"dispatch", "gemm"} : \A x \in CtasOf(r, kernel) : x[1] = kernel
<1>1. /\ \A x \in DispatchCtas(r) : x[1] = "dispatch"
      /\ \A x \in GemmCtas(r) :
           x[1] = "gemm" /\ x[2] \in 1 .. TotalCtas(r) /\ x = <<"gemm", x[2]>>
      /\ \A c \in 1 .. TotalCtas(r) : <<"gemm", c>> \in GemmCtas(r)
  BY DEF DispatchCtas, GemmCtas
<1> QED BY <1>1 DEF CtasOf

\* The grids of an iteration stay as they are while it lasts.
LEMMA GridsKept ==
  ASSUME NEW r, gen'[r] = gen[r]
  PROVE  /\ Current(r)' = Current(r) /\ Kernels(Current(r))' = Kernels(Current(r))
         /\ TotalWarps(r)' = TotalWarps(r) /\ TotalCtas(r)' = TotalCtas(r)
         /\ \A kernel : CtasOf(r, kernel)' = CtasOf(r, kernel)
BY DEF Current, Kernels, TotalWarps, TotalCtas, CtasOf, DispatchCtas, GemmCtas

LEMMA ProgramFacts ==
  /\ Len(Program) \in Nat \ {0}
  /\ \A k \in 1 .. Len(Program) :
       /\ Program[k].dispatch \in BOOLEAN /\ Program[k].meet \in BOOLEAN
       /\ Program[k].gemm \in {"none", "gated", "plain", "satisfied"}
       /\ Program[k].commSms \in Nat \ {0}
       /\ Program[k].gemm = "satisfied" => k = 1
       /\ Program[k].gemm = "gated" => CleanEnd(k - 1)
<1>1. Program \in Seq(Iteration) /\ Program # <<>>
  BY RoundsAssumption, ProgramAssumption
<1>2. Len(Program) \in Nat \ {0} /\ DOMAIN Program = 1 .. Len(Program)
  BY <1>1
<1>3. \A k \in 1 .. Len(Program) : Program[k] \in Iteration
  BY <1>1
<1>4. \A k \in 1 .. Len(Program) :
        /\ Program[k].dispatch \in BOOLEAN /\ Program[k].meet \in BOOLEAN
        /\ Program[k].gemm \in {"none", "gated", "plain", "satisfied"}
        /\ Program[k].commSms \in Nat \ {0}
  BY <1>3 DEF Iteration
<1> QED BY <1>2, <1>4, ProgramAssumption

\* Every warp of the grid has its CTA in the grid.
LEMMA WarpHasCta ==
  ASSUME NEW r, gen[r] \in 1 .. Len(Program), NEW w \in Nat \ {0}, w <= TotalWarps(r)
  PROVE  CtaOfWarp(w) \in DispatchCtas(r)
<1> DEFINE sms == Current(r).commSms
           k == (w - 1) \div CommWarps
<1>1. sms \in Nat \ {0} /\ CommWarps \in Nat \ {0} /\ TotalWarps(r) = sms * CommWarps
  BY ProgramFacts, RoundsAssumption DEF Current, TotalWarps
<1>2. k \in Nat /\ CommWarps * k <= w - 1
  BY <1>1
<1>3. k < sms
  <2>1. SUFFICES ASSUME sms <= k PROVE FALSE
    BY <1>1, <1>2
  <2> HIDE DEF k, sms
  <2>2. CommWarps * sms <= CommWarps * k
    BY <1>1, <1>2, <2>1
  <2>3. sms * CommWarps = CommWarps * sms /\ sms * CommWarps \in Nat /\ CommWarps * k \in Nat
    BY <1>1, <1>2
  <2> QED BY <1>1, <1>2, <2>2, <2>3
<1>4. 1 + k \in 1 .. sms
  BY <1>1, <1>2, <1>3
<1> QED BY <1>4 DEF CtaOfWarp, DispatchCtas

LEMMA ProgramLaunches ==
  /\ 0 \in Launch
  /\ \A k \in 1 .. Len(Program) : k \in Launch
BY ProgramFacts, RoundsAssumption

-----------------------------------------------------------------------------
(* Type correctness. *)

HostTypeOK ==
  /\ host \in [Rank -> {"reset", "barrier", "launch", "wait", "meet", "end"}]
  /\ \A r \in Rank :
       /\ gen[r] <= Len(Program)
       /\ gen[r] = 0 => host[r] \in {"reset", "barrier"}
       /\ host[r] \in {"reset", "barrier"} => gen[r] < Len(Program)
       /\ host[r] = "barrier" => Upcoming(r).gemm # "satisfied"

GpuTypeOK ==
  /\ launched \in [Rank -> SUBSET {"dispatch", "gemm"}]
  /\ pending \in [Rank -> SUBSET ({"dispatch", "gemm"} \X (Nat \ {0}))]
  /\ resident \in [Rank -> SUBSET ({"dispatch", "gemm"} \X (Nat \ {0}))]
  /\ loaded \in [Rank -> SUBSET {"dispatch", "gemm"}]

LEMMA TypeParts ==
  /\ RoundsTypeOK <=> TypeOK /\ HostTypeOK /\ GpuTypeOK
  /\ RoundsTypeOK' <=> TypeOK' /\ HostTypeOK' /\ GpuTypeOK'
BY DEF RoundsTypeOK, HostTypeOK, GpuTypeOK

LEMMA RoundsTypeInit == RoundsInit => RoundsTypeOK
<1> SUFFICES ASSUME RoundsInit PROVE RoundsTypeOK
  OBVIOUS
<1>1. gen \in [Rank -> Launch]
  BY ProgramLaunches DEF RoundsInit
<1>2. \A w \in Warp : FirstRow(w) \in Nat \ {0}
  BY GridFacts DEF FirstRow
<1>3. \A c \in Cta : c - 1 \in Nat
  BY GridFacts
<1>4. TypeOK
  BY <1>1, <1>2, <1>3 DEF RoundsInit, GemmInit, TypeOK
<1>5. HostTypeOK /\ GpuTypeOK
  BY ProgramFacts DEF RoundsInit, HostTypeOK, GpuTypeOK
<1> QED BY <1>4, <1>5, TypeParts

LEMMA BeginTypes ==
  ASSUME RoundsTypeOK, NEW r \in Rank, host[r] \in {"reset", "barrier"}, BeginIteration(r),
         \A w \in Warp : count[r][w] = 0, flags' \in [Rank -> [Expert -> Nat]]
  PROVE  RoundsTypeOK'
<1>1. TypeOK /\ HostTypeOK /\ GpuTypeOK
  BY TypeParts
<1>2. gen[r] \in Nat /\ gen[r] < Len(Program) /\ Len(Program) \in Nat
  BY <1>1, GridsNow, ProgramFacts DEF HostTypeOK
<1>3. gen[r] + 1 \in Launch
  BY <1>2, ProgramLaunches
<1>4. \A w \in Warp : FirstRow(w) \in Nat \ {0}
  BY GridFacts DEF FirstRow
<1>5. \A c \in Cta : c - 1 \in Nat
  BY GridFacts
<1>6. gen' \in [Rank -> Launch] /\ nxt' \in [Rank -> [Warp -> Nat \ {0}]]
  BY <1>1, <1>3, <1>4 DEF BeginIteration, TypeOK
<1>7. wpc' = wpc /\ count' = count /\ segDone' = segDone /\ segView' = segView /\ recv' = recv
      /\ racy' = racy /\ pending' = pending /\ resident' = resident /\ loaded' = loaded
  BY DEF BeginIteration
<1>8. curSeg' \in [Rank -> [Warp -> Seg \cup {-1}]]
      /\ view' \in [Rank -> [Warp -> SUBSET Entry]]
  BY <1>1 DEF BeginIteration, TypeOK
<1>9. \A q \in Rank, w \in Warp : curSeg'[q][w] = -1 => count'[q][w] = 0
  BY <1>1 DEF BeginIteration, TypeOK
<1>10. flagView' \in [Rank -> [Expert -> SUBSET Entry]]
  BY <1>1 DEF BeginIteration, TypeOK
<1>11. tile' \in [Rank -> [Cta -> Nat]] /\ ready' \in [Rank -> [Cta -> Expert \cup {-1}]]
       /\ gview' \in [Rank -> [Cta -> SUBSET Entry]]
  BY <1>1, <1>5 DEF BeginIteration, TypeOK
<1>12. TypeOK'
  BY <1>1, <1>6, <1>7, <1>8, <1>9, <1>10, <1>11 DEF TypeOK
<1>13. GpuTypeOK'
  BY <1>1, <1>7 DEF GpuTypeOK, BeginIteration
<1>14. /\ host' = [host EXCEPT ![r] = "launch"]
       /\ \A q \in Rank : gen'[q] = IF q = r THEN gen[r] + 1 ELSE gen[q]
  BY <1>1 DEF BeginIteration, TypeOK
<1>15. HostTypeOK'
  BY <1>1, <1>2, <1>14 DEF HostTypeOK, Upcoming
<1> QED BY <1>12, <1>13, <1>15, TypeParts

\* A host step that moves no memory.
LEMMA QuietTypes ==
  ASSUME RoundsTypeOK, UNCHANGED vars, GpuTypeOK',
         host' \in [Rank -> {"reset", "barrier", "launch", "wait", "meet", "end"}],
         \A q \in Rank : host'[q] \in {"reset", "barrier"} =>
           \/ host'[q] = host[q]
           \/ gen[q] < Len(Program) /\ host'[q] = "reset",
         \A q \in Rank : gen[q] = 0 => host'[q] = host[q]
  PROVE  RoundsTypeOK'
<1>1. TypeOK /\ HostTypeOK
  BY TypeParts
<1>2. gen' = gen
  BY DEF vars
<1>3. TypeOK'
  BY <1>1 DEF vars, warpVars, gemmVars, TypeOK
<1>4. HostTypeOK'
  BY <1>1, <1>2 DEF HostTypeOK, Upcoming
<1> QED BY <1>3, <1>4, TypeParts

LEMMA RoundsTypeStep ==
  ASSUME RoundsTypeOK, RoundsInv, [RoundsNext]_roundVars
  PROVE  RoundsTypeOK'
<1>1. TypeOK /\ HostTypeOK /\ GpuTypeOK
  BY TypeParts
<1>2. ASSUME NEW r \in Rank, Reset(r) PROVE RoundsTypeOK'
  <2>1. /\ flags' \in [Rank -> [Expert -> Nat]]
        /\ flagView' \in [Rank -> [Expert -> SUBSET Entry]]
    BY <1>1, <1>2 DEF Reset, ClearFlags, TypeOK
  <2>2. segDone' \in [Rank -> [Seg -> Nat]] /\ segView' \in [Rank -> [Seg -> SUBSET Entry]]
    BY <1>1, <1>2 DEF Reset, ClearSegDone, TypeOK
  <2>3. UNCHANGED <<gen, nxt, wpc, curSeg, count, view, recv, gemmVars, gpuVars>>
    BY <1>2 DEF Reset
  <2>4. TypeOK' /\ GpuTypeOK'
    BY <1>1, <2>1, <2>2, <2>3 DEF TypeOK, GpuTypeOK, gemmVars, gpuVars
  <2>5. HostTypeOK'
    BY <1>1, <1>2, <2>3 DEF HostTypeOK, Reset, Upcoming
  <2> QED BY <2>4, <2>5, TypeParts
<1>3. ASSUME NEW r \in Rank, PreSatisfy(r) \/ PassBarrier(r) PROVE RoundsTypeOK'
  <2>1. host[r] \in {"reset", "barrier"} /\ BeginIteration(r)
    BY <1>3 DEF PreSatisfy, PassBarrier
  <2>2. \A w \in Warp : count[r][w] = 0
    BY <2>1 DEF RoundsInv, LaunchOK, InKernels
  <2>3. flags \in [Rank -> [Expert -> Nat]] /\ [e \in Expert |-> LenM(r, e)] \in [Expert -> Nat]
    BY <1>1, Sizes DEF TypeOK
  <2>4. flags' = flags \/ flags' = [flags EXCEPT ![r] = [e \in Expert |-> LenM(r, e)]]
    BY <1>3 DEF PreSatisfy, Satisfy, PassBarrier
  <2>5. flags' \in [Rank -> [Expert -> Nat]]
    BY <2>3, <2>4
  <2> QED BY <2>1, <2>2, <2>5, BeginTypes
<1>4. ASSUME NEW r \in Rank, NEW kernel \in {"dispatch", "gemm"}, LaunchKernel(r, kernel)
      PROVE  RoundsTypeOK'
  <2>1. GpuTypeOK'
    <3>1. gen[r] \in 1 .. Len(Program)
      BY <1>1, <1>4, GridsNow, ProgramFacts DEF LaunchKernel, HostTypeOK
    <3>2. Current(r).commSms \in Nat \ {0} /\ TotalCtas(r) \in Nat \ {0}
      BY <1>1, <3>1, GridsNow, ProgramFacts DEF Current
    <3>3. CtasOf(r, kernel) \subseteq {"dispatch", "gemm"} \X (Nat \ {0})
      BY <3>2 DEF CtasOf, DispatchCtas, GemmCtas
    <3> QED BY <1>1, <1>4, <3>3 DEF LaunchKernel, GpuTypeOK
  <2>2. /\ UNCHANGED vars /\ host[r] = "launch"
        /\ \E h \in {"wait", "launch"} : host' = [host EXCEPT ![r] = h]
    BY <1>4 DEF LaunchKernel
  <2>3. gen[r] # 0
    BY <1>1, <2>2 DEF HostTypeOK
  <2>4. /\ host' \in [Rank -> {"reset", "barrier", "launch", "wait", "meet", "end"}]
        /\ \A q \in Rank : host'[q] \in {"wait", "launch"} \/ host'[q] = host[q]
        /\ \A q \in Rank : q # r => host'[q] = host[q]
    BY <1>1, <2>2 DEF HostTypeOK
  <2> QED BY <2>1, <2>2, <2>3, <2>4, QuietTypes
<1>5. ASSUME NEW r \in Rank, Synchronize(r) \/ Meet(r) PROVE RoundsTypeOK'
  <2>1. /\ UNCHANGED <<vars, gpuVars>> /\ host[r] \in {"wait", "meet"}
        /\ \/ host' = [host EXCEPT ![r] = "meet"]
           \/ host' = [host EXCEPT ![r] = "end"]
           \/ gen[r] # Len(Program) /\ host' = [host EXCEPT ![r] = "reset"]
    BY <1>5 DEF Synchronize, Meet, Onward
  <2>2. GpuTypeOK'
    BY <1>1, <2>1 DEF GpuTypeOK, gpuVars
  <2>3. /\ gen[r] # 0 /\ gen[r] <= Len(Program) /\ gen[r] \in Nat /\ Len(Program) \in Nat
    BY <1>1, <2>1, ProgramFacts, GridsNow DEF HostTypeOK
  <2>4. /\ host' \in [Rank -> {"reset", "barrier", "launch", "wait", "meet", "end"}]
        /\ \A q \in Rank : q # r => host'[q] = host[q]
        /\ host'[r] \in {"reset", "barrier"} => gen[r] < Len(Program) /\ host'[r] = "reset"
    BY <1>1, <2>1, <2>3 DEF HostTypeOK
  <2> QED BY <2>1, <2>2, <2>3, <2>4, QuietTypes
<1>6. ASSUME NEW r \in Rank, Place(r) \/ Retire(r) PROVE RoundsTypeOK'
  <2>1. UNCHANGED <<vars, host>>
    BY <1>6 DEF Place, Retire
  <2>2. GpuTypeOK'
    BY <1>1, <1>6 DEF Place, Retire, GpuTypeOK
  <2> QED BY <1>1, <2>1, <2>2, QuietTypes DEF HostTypeOK
<1>7. ASSUME UNCHANGED <<host, gpuVars>>, TypeOK', gen' = gen PROVE RoundsTypeOK'
  <2>1. HostTypeOK' /\ GpuTypeOK'
    BY <1>1, <1>7 DEF HostTypeOK, GpuTypeOK, gpuVars, Upcoming
  <2> QED BY <1>7, <2>1, TypeParts
<1>8. ASSUME NEW r \in Rank, NEW w \in Warp, ResidentWarp(r, w) PROVE RoundsTypeOK'
  <2>1. WarpStep(r, w) /\ UNCHANGED <<host, gpuVars>>
    BY <1>8 DEF ResidentWarp
  <2>2. TypeOK'
    BY <1>1, <2>1, TypeStep DEF Next
  <2>3. gen' = gen
    BY <2>1 DEF WarpStep, CopyRow, FlushSegment, ArriveSegment, ArriveToken
  <2> QED BY <1>7, <2>1, <2>2, <2>3
<1>9. ASSUME NEW r \in Rank, NEW c \in Cta, ResidentCta(r, c) PROVE RoundsTypeOK'
  <2>1. (CtaStep(r, c) \/ LoadOldRows(r, c)) /\ UNCHANGED <<host, gpuVars>>
    BY <1>9 DEF ResidentCta
  <2>2. CASE CtaStep(r, c)
    <3>1. TypeOK'
      BY <1>1, <2>2, TypeStep DEF Next
    <3>2. gen' = gen
      BY <2>2 DEF CtaStep, GemmWait, GemmLoad
    <3> QED BY <1>7, <2>1, <3>1, <3>2
  <2>3. CASE LoadOldRows(r, c)
    <3>1. tile[r][c] + TotalCtas(r) \in Nat
      BY <1>1, GridsNow DEF TypeOK
    <3>2. tile' \in [Rank -> [Cta -> Nat]]
      BY <1>1, <2>3, <3>1, Update2 DEF LoadOldRows, TypeOK
    <3>3. UNCHANGED <<gen, warpVars, recv, flags, flagView, ready, gview, racy>>
      BY <2>3 DEF LoadOldRows
    <3>4. TypeOK' /\ gen' = gen
      BY <1>1, <3>2, <3>3 DEF warpVars, TypeOK
    <3> QED BY <1>7, <2>1, <3>4
  <2> QED BY <2>1, <2>2, <2>3
<1>10. CASE UNCHANGED roundVars
  <2>1. TypeOK' /\ gen' = gen /\ UNCHANGED <<host, gpuVars>>
    BY <1>1, <1>10 DEF roundVars, vars, warpVars, gemmVars, TypeOK
  <2> QED BY <1>7, <2>1
<1> QED BY <1>2, <1>3, <1>4, <1>5, <1>6, <1>8, <1>9, <1>10 DEF RoundsNext, HostStep

-----------------------------------------------------------------------------
(* The GEMM's work list. *)

Below == {p \in Nat \X Nat : p[1] < p[2]}

LEMMA BelowIsWellFounded == IsWellFoundedOn(Below, Nat)
BY NatLessThanWellFounded, Zenon DEF OpToRel, Below

\* A set with zero and the successors of its members has all numbers.
LEMMA Reaches ==
  ASSUME NEW S, 0 \in S, \A n \in Nat : n \in S => n + 1 \in S
  PROVE  Nat \subseteq S
<1>1. SUFFICES ASSUME Nat \ S # {} PROVE FALSE
  OBVIOUS
<1>2. PICK x \in Nat \ S : \A y \in Nat \ S : <<y, x>> \notin Below
  BY <1>1, WFMin, BelowIsWellFounded, Zenon
<1>3. x # 0 /\ x - 1 \in Nat /\ (x - 1) + 1 = x
  BY <1>2
<1>4. <<x - 1, x>> \in Below
  BY <1>2, <1>3 DEF Below
<1>5. QED
  BY <1>2, <1>3, <1>4

\* b holds the first tiles of the first n experts.
Bases(d, b, n) ==
  b = [e \in 0 .. n |-> IF e = 0 THEN 0 ELSE b[e - 1] + NumTiles(d, e - 1)]

LEMMA BasesExist ==
  ASSUME NEW d
  PROVE  \A n \in Nat : \E b : Bases(d, b, n)
<1> DEFINE S == {n \in Nat : \E b : Bases(d, b, n)}
<1>1. 0 \in S
  <2> DEFINE b == [e \in 0 .. 0 |-> 0]
  <2>1. Bases(d, b, 0)
    BY DEF Bases
  <2> QED BY <2>1
<1>2. ASSUME NEW n \in Nat, n \in S PROVE n + 1 \in S
  <2>1. PICK b : Bases(d, b, n)
    BY <1>2
  <2> DEFINE u == [e \in 0 .. n + 1 |-> IF e = n + 1 THEN b[n] + NumTiles(d, n) ELSE b[e]]
  <2>2. \A e \in 0 .. n : b[e] = IF e = 0 THEN 0 ELSE b[e - 1] + NumTiles(d, e - 1)
    BY <2>1, Zenon DEF Bases
  <2>3. ASSUME NEW e \in 0 .. n + 1
        PROVE  u[e] = IF e = 0 THEN 0 ELSE u[e - 1] + NumTiles(d, e - 1)
    <3>1. CASE e = 0
      BY <2>2, <3>1
    <3>2. CASE e \in 1 .. n
      <4>1. /\ e # n + 1 /\ e - 1 # n + 1 /\ e \in 0 .. n /\ e # 0
            /\ e \in 0 .. n + 1 /\ e - 1 \in 0 .. n + 1
        BY <3>2
      <4>2. u[e] = b[e] /\ u[e - 1] = b[e - 1]
        BY <4>1
      <4> QED BY <2>2, <4>1, <4>2
    <3>3. CASE e = n + 1
      <4>1. e - 1 = n /\ n \in 0 .. n + 1 /\ n # n + 1 /\ e # 0
        BY <3>3
      <4>2. u[e] = b[n] + NumTiles(d, n) /\ u[n] = b[n]
        BY <3>3, <4>1
      <4> QED BY <4>1, <4>2
    <3> QED BY <3>1, <3>2, <3>3
  <2>4. Bases(d, u, n + 1)
    BY <2>3 DEF Bases
  <2> QED BY <2>4
<1>3. Nat \subseteq S
  <2> HIDE DEF S
  <2> QED BY <1>1, <1>2, Reaches
<1> QED BY <1>3

\* The tiles of an expert follow those of the one before, as many as it fills.
LEMMA TileBaseStep ==
  ASSUME NEW d \in Rank
  PROVE  /\ TileBase[d][0] = 0
         /\ \A e \in Expert : TileBase[d][e + 1] = TileBase[d][e] + NumTiles(d, e)
<1>1. EPR \in Nat
  BY DispatchAssumption
<1>2. Bases(d, TileBase[d], EPR)
  <2>1. \E b : Bases(d, b, EPR)
    BY <1>1, BasesExist
  <2>2. TileBase[d] = CHOOSE b : Bases(d, b, EPR)
    BY Zenon DEF TileBase, Bases
  <2> QED BY <2>1, <2>2
<1>3. \A e \in 0 .. EPR :
        TileBase[d][e] = IF e = 0 THEN 0 ELSE TileBase[d][e - 1] + NumTiles(d, e - 1)
  BY <1>2, Zenon DEF Bases
<1>4. ASSUME NEW e \in Expert
      PROVE  TileBase[d][e + 1] = TileBase[d][e] + NumTiles(d, e)
  <2>1. e + 1 \in 0 .. EPR /\ e + 1 # 0 /\ (e + 1) - 1 = e
    BY <1>1 DEF Expert
  <2> QED BY <1>3, <2>1
<1>5. TileBase[d][0] = 0
  BY <1>1, <1>3
<1> QED BY <1>4, <1>5

LEMMA TileCounts ==
  ASSUME NEW d \in Rank, NEW e \in Expert
  PROVE  /\ NumTiles(d, e) \in Nat
         /\ ExpertEntries(d, e) # {} => NumTiles(d, e) > 0
<1>1. LenM(d, e) \in Nat /\ TileM \in Nat \ {0}
  BY Sizes, DispatchAssumption
<1> DEFINE n == LenM(d, e)
           q == (n + TileM - 1) \div TileM
<1>2. q \in Nat /\ n + TileM - 1 < TileM * (q + 1)
  <2> HIDE DEF n
  <2>1. n \in Nat
    BY <1>1 DEF n
  <2> QED BY <1>1, <2>1
<1>3. n > 0 => q > 0
  <2>1. ASSUME q = 0 PROVE n <= 0
    BY <1>1, <1>2, <2>1
  <2> QED BY <1>1, <1>2, <2>1
<1>4. ExpertEntries(d, e) # {} => n > 0
  <2>1. Cardinality(ExpertEntries(d, e)) = n /\ IsFiniteSet(ExpertEntries(d, e))
    BY PlanAssumption, Sizes, EntryFinite
  <2> QED BY <1>1, <2>1, FS_EmptySet
<1> QED BY <1>2, <1>3, <1>4 DEF NumTiles

LEMMA TileBaseGrows ==
  ASSUME NEW d \in Rank
  PROVE  /\ \A a \in 0 .. EPR : TileBase[d][a] \in Nat
         /\ \A a, b \in 0 .. EPR : a <= b => TileBase[d][a] <= TileBase[d][b]
<1> DEFINE B(a) == TileBase[d][a]
           S == {n \in Nat : n <= EPR =>
                   \A a \in 0 .. n : B(a) \in Nat /\ B(a) <= B(n)}
<1>1. EPR \in Nat
  BY DispatchAssumption
<1>2. 0 \in S
  BY TileBaseStep
<1>3. ASSUME NEW n \in Nat, n \in S PROVE n + 1 \in S
  <2>1. SUFFICES ASSUME n + 1 <= EPR
                 PROVE  \A a \in 0 .. n + 1 : B(a) \in Nat /\ B(a) <= B(n + 1)
    OBVIOUS
  <2>2. n \in Expert
    BY <1>1, <2>1 DEF Expert
  <2>3. B(n + 1) = B(n) + NumTiles(d, n) /\ NumTiles(d, n) \in Nat
    BY <2>2, TileBaseStep, TileCounts
  <2>4. \A a \in 0 .. n : B(a) \in Nat /\ B(a) <= B(n)
    BY <1>1, <1>3, <2>1
  <2> HIDE DEF B
  <2>5. \A a \in 0 .. n : B(a) <= B(n + 1)
    BY <2>3, <2>4
  <2> QED BY <2>3, <2>4, <2>5
<1>4. Nat \subseteq S
  <2> HIDE DEF S
  <2> QED BY <1>2, <1>3, Reaches
<1> QED BY <1>1, <1>4

\* A tile belongs to one batch, and a batch with rows has one.
LEMMA BatchFacts ==
  ASSUME NEW d \in Rank
  PROVE  /\ \A t \in Nat, e, f \in Expert : InBatch(d, t, e) /\ InBatch(d, t, f) => e = f
         /\ \A e \in Expert : ExpertEntries(d, e) # {} =>
              \E t \in Nat : InBatch(d, t, e) /\ t < TileBase[d][EPR]
<1>1. EPR \in Nat
  BY DispatchAssumption
<1>2. \A e \in Expert : e \in 0 .. EPR /\ e + 1 \in 0 .. EPR
  BY <1>1 DEF Expert
<1>3. ASSUME NEW t \in Nat, NEW e \in Expert, NEW f \in Expert,
             InBatch(d, t, e), InBatch(d, t, f)
      PROVE  ~(e + 1 <= f)
  <2>1. e + 1 <= f => TileBase[d][e + 1] <= TileBase[d][f]
    BY <1>2, TileBaseGrows
  <2>2. TileBase[d][e + 1] \in Nat /\ TileBase[d][f] \in Nat
    BY <1>2, TileBaseGrows
  <2>3. t < TileBase[d][e + 1] /\ TileBase[d][f] <= t
    BY <1>3 DEF InBatch
  <2> QED BY <2>1, <2>2, <2>3
<1>4. ASSUME NEW e \in Expert, ExpertEntries(d, e) # {}
      PROVE  \E t \in Nat : InBatch(d, t, e) /\ t < TileBase[d][EPR]
  <2>1. /\ TileBase[d][e + 1] = TileBase[d][e] + NumTiles(d, e)
        /\ NumTiles(d, e) \in Nat /\ NumTiles(d, e) > 0
    BY <1>4, TileBaseStep, TileCounts
  <2>2. TileBase[d][e] \in Nat /\ TileBase[d][e + 1] \in Nat /\ TileBase[d][EPR] \in Nat
    BY <1>1, <1>2, TileBaseGrows
  <2>3. TileBase[d][e + 1] <= TileBase[d][EPR]
    <3>1. e + 1 \in 0 .. EPR /\ EPR \in 0 .. EPR /\ e + 1 <= EPR
      BY <1>1 DEF Expert
    <3> QED BY <3>1, TileBaseGrows
  <2>4. TileBase[d][e] < TileBase[d][e + 1] /\ TileBase[d][e] < TileBase[d][EPR]
    BY <2>1, <2>2, <2>3
  <2>5. InBatch(d, TileBase[d][e], e)
    BY <2>2, <2>4 DEF InBatch
  <2> QED BY <2>2, <2>4, <2>5
<1>5. \A e, f \in Expert : e + 1 <= f \/ f + 1 <= e \/ e = f
  BY DEF Expert
<1> QED BY <1>3, <1>4, <1>5

\* Every tile is one of a CTA's.
LEMMA TileHasCta ==
  ASSUME NEW n \in Nat \ {0}, NEW t \in Nat
  PROVE  \E c \in 1 .. n : \E k \in 0 .. t : t = c - 1 + k * n
<1> DEFINE k == t \div n
           c == 1 + (t % n)
<1>1. k \in Nat /\ (t % n) \in 0 .. n - 1 /\ t = n * k + (t % n)
  OBVIOUS
<1>2. n * k = k * n
  BY <1>1
<1>3. c \in 1 .. n
  BY <1>1
<1>4. k <= t
  <2> HIDE DEF k
  <2>1. k <= n * k
    BY <1>1
  <2> QED BY <1>1, <2>1
<1>5. t = c - 1 + k * n /\ k \in 0 .. t
  <2>1. c - 1 = t % n
    BY <1>1
  <2> HIDE DEF k, c
  <2>2. k * n \in Nat
    BY <1>1
  <2> QED BY <1>1, <1>2, <1>4, <2>1, <2>2
<1> QED BY <1>3, <1>5

\* A gated GEMM that is through has seen every row it was to wait for.
LEMMA AllSeen ==
  ASSUME RoundsTypeOK, NEW d \in Rank, Gated(d), GemmDone(d), WaitedOK(d), NEW e \in Expert
  PROVE  ExpertEntries(d, e) \subseteq flagView[d][e]
<1>1. SUFFICES ASSUME ExpertEntries(d, e) # {}
               PROVE  ExpertEntries(d, e) \subseteq flagView[d][e]
  OBVIOUS
<1>2. PICK t \in Nat : InBatch(d, t, e) /\ t < TileBase[d][EPR]
  BY <1>1, BatchFacts
<1>3. TypeOK
  BY TypeParts
<1>4. PICK c \in 1 .. TotalCtas(d) : \E k \in 0 .. t : t = c - 1 + k * TotalCtas(d)
  BY <1>3, GridsNow, TileHasCta
<1>5. tile[d][c] >= TileBase[d][EPR] /\ tile[d][c] \in Nat /\ TileBase[d][EPR] \in Nat
  <2>1. EPR \in 0 .. EPR
    BY DispatchAssumption
  <2>2. c \in Cta
    BY <1>3, GridsNow
  <2> QED BY <1>3, <2>1, <2>2, TileBaseGrows DEF GemmDone, TypeOK
<1>6. t \in 0 .. tile[d][c] - 1
  BY <1>2, <1>5
<1> QED BY <1>2, <1>4, <1>6 DEF WaitedOK

-----------------------------------------------------------------------------
(* Which rank is where. *)

LEMMA Stages ==
  ASSUME RoundsTypeOK, NEW r \in Rank
  PROVE  /\ gen[r] \in Nat /\ gen[r] <= Len(Program) /\ Len(Program) \in Nat
         /\ InKernels(r) \/ host[r] \in {"meet", "reset", "barrier", "end"}
         /\ InKernels(r) => host[r] \notin {"meet", "reset", "barrier", "end"}
         /\ InKernels(r) => gen[r] > 0 /\ Started(r)
         /\ gen[r] > 0 => gen[r] \in 1 .. Len(Program)
<1>1. TypeOK /\ HostTypeOK
  BY TypeParts
<1>2. gen[r] \in Nat /\ gen[r] <= Len(Program) /\ Len(Program) \in Nat
  BY <1>1, GridsNow, ProgramFacts DEF HostTypeOK
<1>3. host[r] \in {"reset", "barrier", "launch", "wait", "meet", "end"}
      /\ (gen[r] = 0 => host[r] \in {"reset", "barrier"})
  BY <1>1 DEF HostTypeOK
<1> QED BY <1>2, <1>3 DEF InKernels, Started

\* No rank is ahead of one that runs kernels.
LEMMA RunningIsNewest ==
  ASSUME RoundsTypeOK, NEW r \in Rank, InKernels(r), \A q \in Rank : AheadOK(q, r)
  PROVE  Newest(r)
<1>1. gen[r] \in Nat /\ gen[r] > 0 /\ host[r] # "barrier"
  BY Stages DEF Started
<1>2. ASSUME NEW q \in Rank PROVE gen[q] <= gen[r]
  <2>1. gen[q] \in Nat /\ ~(gen[q] > gen[r])
    BY <1>1, Stages DEF AheadOK
  <2> QED BY <1>1, <2>1
<1> QED BY <1>2 DEF Newest

\* A gated GEMM never counts on flags that somebody may still disturb.
LEMMA GatedIsFresh ==
  ASSUME RoundsTypeOK, NEW d \in Rank, Gated(d)
  PROVE  Fresh(d)
<1>1. gen[d] > 0 /\ host[d] # "barrier" /\ Program[gen[d]].gemm = "gated"
  BY DEF Gated, Started, Current
<1>2. CleanEnd(gen[d] - 1)
  BY <1>1, Stages, ProgramFacts
<1> QED BY <1>1, <1>2 DEF Fresh, Current

\* What the memory holds, and where the hosts are.
DataOK ==
  /\ \A r \in Rank : RankOK(r)
  /\ \A q, r \in Rank : AheadOK(q, r)
  /\ \A r, d \in Rank : BehindOK(r, d) /\ FlagsOK(r, d)
  /\ \A d \in Rank : CountOK(d) /\ WaitedOK(d) /\ TilesOK(d)
  /\ RowsCopied
  /\ GateInv
  /\ NoRacyRead

HostOK == \A r \in Rank : LaunchOK(r) /\ MeetingOK(r) /\ EndedOK(r)

LEMMA InvParts ==
  /\ RoundsInv <=> DataOK /\ HostOK
  /\ RoundsInv' <=> DataOK' /\ HostOK'
BY DEF RoundsInv, DataOK, HostOK

\* A host that goes from one stage to the next without touching the memory.
LEMMA DataKept ==
  ASSUME DataOK, UNCHANGED vars,
         \A q \in Rank : /\ host'[q] = "barrier" <=> host[q] = "barrier"
                         /\ gen[q] = 0 => host'[q] = host[q]
                         /\ InKernels(q)' => InKernels(q)
  PROVE  DataOK'
<1>1. /\ gen' = gen /\ segDone' = segDone /\ segView' = segView /\ flags' = flags
      /\ flagView' = flagView /\ tile' = tile /\ ready' = ready /\ gview' = gview
      /\ racy' = racy /\ recv' = recv /\ UNCHANGED <<gen, warpVars, recv, flags, flagView>>
  BY DEF vars, warpVars, gemmVars
<1>2. /\ \A r : ListOK(r)' <=> ListOK(r)
      /\ \A r, d : /\ PublishedFrom(r, d)' <=> PublishedFrom(r, d)
                   /\ ShownOK(r, d)' <=> ShownOK(r, d)
      /\ \A d, e : Published(d, e)' = Published(d, e)
      /\ \A x : Announced(x)' <=> Announced(x)
      /\ RowsCopied' <=> RowsCopied
  BY <1>1, DispatchUnchanged
<1>3. /\ \A r \in Rank : Current(r)' = Current(r)
      /\ \A r \in Rank : Fresh(r)' <=> Fresh(r)
      /\ \A r, d \in Rank : Behind(r, d)' <=> Behind(r, d)
  BY <1>1 DEF Current, Fresh, Behind, CleanEnd
<1>4. \A r \in Rank : RankOK(r)'
  BY <1>1, <1>2 DEF DataOK, RankOK
<1>5. ASSUME NEW q \in Rank, NEW r \in Rank PROVE AheadOK(q, r)'
  BY <1>1 DEF DataOK, AheadOK
<1>6. ASSUME NEW r \in Rank, NEW d \in Rank PROVE BehindOK(r, d)' /\ FlagsOK(r, d)'
  <2>1. BehindOK(r, d) /\ FlagsOK(r, d)
    BY DEF DataOK
  <2>2. Silent(r, d) => Silent(r, d)'
    BY <1>1, <1>2, <1>3 DEF Silent, EntriesTo, Entry
  <2>3. BehindOK(r, d)'
    BY <1>1, <1>3, <2>1, <2>2 DEF BehindOK
  <2>4. FlagsOK(r, d)'
    BY <1>2, <1>3, <2>1 DEF FlagsOK
  <2> QED BY <2>3, <2>4
<1>7. ASSUME NEW d \in Rank PROVE CountOK(d)' /\ WaitedOK(d)' /\ TilesOK(d)'
  <2>1. CountOK(d)'
    BY <1>1, <1>2, <1>3 DEF DataOK, CountOK
  <2>2. Gated(d)' <=> Gated(d)
    BY <1>1, <1>3 DEF Gated, Started
  <2>3. WaitedOK(d)'
    BY <1>1, <2>2 DEF DataOK, WaitedOK, InBatch, ExpertEntries, Entry, TotalCtas
  <2>4. TilesOK(d)'
    BY <1>1 DEF DataOK, TilesOK, TotalCtas
  <2> QED BY <2>1, <2>3, <2>4
<1>8. RowsCopied' /\ GateInv' /\ NoRacyRead'
  BY <1>1, <1>2 DEF DataOK, GateInv, NoRacyRead
<1> QED BY <1>4, <1>5, <1>6, <1>7, <1>8 DEF DataOK

\* A CTA that does not step is as done as before.
LEMMA DoneKept ==
  ASSUME NEW r, gen'[r] = gen[r], nxt'[r] = nxt[r], wpc'[r] = wpc[r],
         count'[r] = count[r], tile'[r] = tile[r]
  PROVE  \A x : CtaDone(r, x)' <=> CtaDone(r, x)
BY DEF CtaDone, WarpDone, HasRow, TotalWarps

-----------------------------------------------------------------------------
(* The steps that touch no memory. *)

LEMMA SameVars ==
  ASSUME UNCHANGED vars
  PROVE  /\ gen' = gen /\ wpc' = wpc /\ count' = count /\ tile' = tile
         /\ \A r : /\ Current(r)' = Current(r) /\ TotalWarps(r)' = TotalWarps(r)
                   /\ \A kernel : CtasOf(r, kernel)' = CtasOf(r, kernel)
         /\ \A r, x : CtaDone(r, x)' <=> CtaDone(r, x)
         /\ \A d : GemmDone(d)' <=> GemmDone(d)
<1>1. gen' = gen /\ nxt' = nxt /\ wpc' = wpc /\ count' = count /\ tile' = tile
  BY DEF vars, warpVars, gemmVars
<1> QED BY <1>1, DoneKept, GridsKept DEF GemmDone

\* The launch bookkeeping of a rank whose host and GPU stay as they are.
LEMMA LaunchKept ==
  ASSUME NEW q, LaunchOK(q), host'[q] = host[q], gen'[q] = gen[q], launched'[q] = launched[q],
         pending'[q] = pending[q], resident'[q] = resident[q],
         wpc'[q] = wpc[q], count'[q] = count[q],
         \A k \in launched[q] : \A x \in CtasOf(q, k) :
           x \notin resident[q] /\ CtaDone(q, x) => CtaDone(q, x)'
  PROVE  LaunchOK(q)'
<1>1. /\ InKernels(q)' <=> InKernels(q)
      /\ GpuIdle(q)' <=> GpuIdle(q)
  BY DEF InKernels, GpuIdle
<1>2. /\ Kernels(Current(q))' = Kernels(Current(q)) /\ TotalWarps(q)' = TotalWarps(q)
      /\ \A k : CtasOf(q, k)' = CtasOf(q, k)
  BY GridsKept
<1>3. ASSUME InKernels(q), NEW k \in launched[q], NEW x \in CtasOf(q, k)
      PROVE  x \in pending[q] \/ x \in resident[q] \/ CtaDone(q, x)'
  BY <1>3 DEF LaunchOK
<1> QED BY <1>1, <1>2, <1>3 DEF LaunchOK

LEMMA EndedKept ==
  ASSUME NEW q, gen'[q] = gen[q],
         host[q] \in {"meet", "reset", "barrier", "end"} =>
           host'[q] \in {"meet", "reset", "barrier", "end"}
  PROVE  \A k : Ended(q, k) => Ended(q, k)'
BY DEF Ended

LEMMA PlaceKeepsInv ==
  ASSUME RoundsTypeOK, RoundsInv, NEW r \in Rank, Place(r) \/ Retire(r)
  PROVE  RoundsInv'
<1>1. DataOK /\ HostOK /\ GpuTypeOK
  BY InvParts, TypeParts
<1>2. UNCHANGED vars /\ host' = host /\ launched' = launched
  BY DEF Place, Retire
<1>3. /\ \A q \in Rank : InKernels(q)' <=> InKernels(q)
      /\ \A q \in Rank : Started(q)' <=> Started(q)
  BY <1>2, SameVars DEF InKernels, Started
<1>4. DataOK'
  BY <1>1, <1>2, <1>3, DataKept
<1>5. ASSUME NEW q \in Rank PROVE MeetingOK(q)' /\ EndedOK(q)'
  <2>1. MeetingOK(q)'
    BY <1>1, <1>2, SameVars DEF HostOK, MeetingOK, Ended
  <2>2. EndedOK(q)'
    BY <1>1, <1>3, <1>2, SameVars DEF HostOK, EndedOK, Gated
  <2> QED BY <2>1, <2>2
<1>6. ASSUME NEW q \in Rank, q # r PROVE LaunchOK(q)'
  <2>1. pending'[q] = pending[q] /\ resident'[q] = resident[q]
    BY <1>1, <1>6 DEF Place, Retire, GpuTypeOK
  <2> QED BY <1>1, <1>2, <2>1, SameVars, LaunchKept DEF HostOK
<1>7. LaunchOK(r)'
  <2>1. InKernels(r)
    BY <1>1 DEF HostOK, LaunchOK, GpuIdle, Place, Retire
  <2>2. /\ pending'[r] \cup resident'[r] \subseteq pending[r] \cup resident[r]
        /\ \A x \in pending[r] \cup resident[r] :
             x \in pending'[r] \/ x \in resident'[r] \/ CtaDone(r, x)
    BY <1>1 DEF Place, Retire, GpuTypeOK
  <2>3. Kernels(Current(r))' = Kernels(Current(r))
    BY <1>2, SameVars DEF Kernels
  <2>4. LaunchOK(r)
    BY <1>1 DEF HostOK
  <2>5. ASSUME NEW k \in launched[r], NEW x \in CtasOf(r, k)
        PROVE  x \in pending'[r] \/ x \in resident'[r] \/ CtaDone(r, x)'
    <3>1. x \in pending[r] \/ x \in resident[r] \/ CtaDone(r, x)
      BY <2>1, <2>4, <2>5 DEF LaunchOK
    <3> QED BY <1>2, <2>2, <3>1, SameVars
  <2> QED BY <1>2, <1>3, <2>1, <2>2, <2>3, <2>4, <2>5, SameVars DEF LaunchOK
<1>8. HostOK'
  BY <1>5, <1>6, <1>7 DEF HostOK
<1> QED BY <1>4, <1>8, InvParts

LEMMA LaunchKeepsInv ==
  ASSUME RoundsTypeOK, RoundsInv, NEW r \in Rank, NEW kernel \in {"dispatch", "gemm"},
         LaunchKernel(r, kernel)
  PROVE  RoundsInv'
<1>1. DataOK /\ HostOK /\ GpuTypeOK /\ HostTypeOK
  BY InvParts, TypeParts
<1>2. /\ UNCHANGED vars /\ host[r] = "launch" /\ resident' = resident
      /\ kernel \in Kernels(Current(r))
      /\ \A q \in Rank : q # r => /\ host'[q] = host[q] /\ launched'[q] = launched[q]
                                  /\ pending'[q] = pending[q]
      /\ launched'[r] = launched[r] \cup {kernel}
      /\ pending'[r] = pending[r] \cup CtasOf(r, kernel)
      /\ \/ host'[r] = "wait" /\ launched'[r] = Kernels(Current(r))
         \/ host'[r] = "launch"
  BY <1>1 DEF LaunchKernel, GpuTypeOK, HostTypeOK
<1>3. /\ \A q \in Rank : InKernels(q)' <=> InKernels(q)
      /\ \A q \in Rank : Started(q)' <=> Started(q)
      /\ \A q \in Rank : host'[q] = "barrier" <=> host[q] = "barrier"
      /\ \A q \in Rank : gen[q] = 0 => host'[q] = host[q]
  BY <1>1, <1>2, SameVars DEF InKernels, Started, HostTypeOK
<1>4. DataOK'
  BY <1>1, <1>2, <1>3, DataKept
<1>5. ASSUME NEW q \in Rank PROVE MeetingOK(q)' /\ EndedOK(q)'
  <2>1. \A k : \A p \in Rank : Ended(p, k) => Ended(p, k)'
    BY <1>2, SameVars, EndedKept
  <2>2. host'[q] \in {"reset", "barrier", "end"} => host'[q] = host[q]
    BY <1>2
  <2>3. MeetingOK(q)'
    BY <1>1, <2>1, <2>2, <1>2, SameVars DEF HostOK, MeetingOK
  <2>4. EndedOK(q)'
    BY <1>1, <1>3, <1>2, SameVars DEF HostOK, EndedOK, Gated
  <2> QED BY <2>3, <2>4
<1>6. ASSUME NEW q \in Rank, q # r PROVE LaunchOK(q)'
  BY <1>1, <1>2, <1>6, SameVars, LaunchKept DEF HostOK
<1>7. LaunchOK(r)'
  <2>1. InKernels(r) /\ LaunchOK(r)
    BY <1>1, <1>2 DEF HostOK, InKernels
  <2>2. Kernels(Current(r))' = Kernels(Current(r))
    BY <1>2, SameVars DEF Kernels
  <2>3. ASSUME NEW k \in launched'[r], NEW x \in CtasOf(r, k)
        PROVE  x \in pending'[r] \/ x \in resident'[r] \/ CtaDone(r, x)'
    BY <1>2, <2>1, <2>3, SameVars DEF LaunchOK
  <2>4. ASSUME NEW x \in pending'[r] \cup resident'[r]
        PROVE  x[1] \in launched'[r] /\ x \in CtasOf(r, x[1])
    BY <1>2, <2>1, <2>4, Grids DEF LaunchOK
  <2>5. launched'[r] \subseteq Kernels(Current(r))
    BY <1>2, <2>1 DEF LaunchOK
  <2>6. "dispatch" \in launched[r] => "dispatch" \in launched'[r]
    BY <1>2
  <2> QED BY <1>2, <1>3, <2>1, <2>2, <2>3, <2>4, <2>5, <2>6, SameVars DEF LaunchOK
<1>8. HostOK'
  BY <1>5, <1>6, <1>7 DEF HostOK
<1> QED BY <1>4, <1>8, InvParts

\* A host that leaves its kernels or the collective behind.
LEMMA LeaveKeepsInv ==
  ASSUME RoundsTypeOK, RoundsInv, NEW r \in Rank, UNCHANGED <<vars, gpuVars>>,
         host[r] \in {"wait", "meet"}, GpuIdle(r),
         \A w \in Warp : wpc[r][w] = "copy" /\ count[r][w] = 0,
         Gated(r) => GemmDone(r),
         NEW h \in {"meet", "end", "reset"}, host' = [host EXCEPT ![r] = h],
         h # "meet" /\ Current(r).meet => \A q \in Rank : Ended(q, gen[r])
  PROVE  RoundsInv'
<1>1. DataOK /\ HostOK /\ GpuTypeOK /\ HostTypeOK
  BY InvParts, TypeParts
<1>2. UNCHANGED vars /\ launched' = launched /\ pending' = pending /\ resident' = resident
  BY DEF gpuVars
<1>3. /\ \A q \in Rank : q # r => host'[q] = host[q]
      /\ host'[r] = h /\ gen[r] # 0
  BY <1>1 DEF HostTypeOK
<1>4. /\ \A q \in Rank : InKernels(q)' => InKernels(q)
      /\ ~InKernels(r)'
      /\ \A q \in Rank : Started(q)' <=> Started(q)
      /\ \A q \in Rank : host'[q] = "barrier" <=> host[q] = "barrier"
  BY <1>2, <1>3, SameVars DEF InKernels, Started
<1>5. DataOK'
  BY <1>1, <1>2, <1>3, <1>4, DataKept
<1>6. \A k : \A p \in Rank : Ended(p, k) => Ended(p, k)'
  BY <1>2, <1>3, SameVars, EndedKept
<1>7. ASSUME NEW q \in Rank PROVE MeetingOK(q)'
  <2>1. CASE q = r
    <3>1. host'[r] \in {"reset", "barrier", "end"} => h # "meet"
      BY <1>3
    <3> QED BY <1>6, <2>1, <3>1, <1>2, SameVars DEF MeetingOK
  <2>2. CASE q # r
    BY <1>1, <1>3, <1>6, <2>2, <1>2, SameVars DEF HostOK, MeetingOK
  <2> QED BY <2>1, <2>2
<1>8. ASSUME NEW q \in Rank PROVE EndedOK(q)'
  <2>1. Gated(q)' <=> Gated(q)
    BY <1>2, <1>4, SameVars DEF Gated
  <2>2. q # r => (InKernels(q)' <=> InKernels(q))
    BY <1>3 DEF InKernels
  <2> QED BY <1>1, <1>2, <2>1, <2>2, SameVars DEF HostOK, EndedOK
<1>9. ASSUME NEW q \in Rank PROVE LaunchOK(q)'
  <2>1. CASE q = r
    <3>1. GpuIdle(r)' /\ host'[r] # "wait"
      BY <1>2, <1>3 DEF GpuIdle
    <3> QED BY <1>2, <1>4, <2>1, <3>1, SameVars DEF LaunchOK
  <2>2. CASE q # r
    BY <1>1, <1>2, <1>3, <2>2, SameVars, LaunchKept DEF HostOK
  <2> QED BY <2>1, <2>2
<1>10. HostOK'
  BY <1>7, <1>8, <1>9 DEF HostOK
<1> QED BY <1>5, <1>10, InvParts

\* The host waits for its kernels: they are through with all their work.
LEMMA SynchronizeKeepsInv ==
  ASSUME RoundsTypeOK, RoundsInv, NEW r \in Rank, Synchronize(r)
  PROVE  RoundsInv'
<1>1. /\ host[r] = "wait" /\ GpuIdle(r) /\ UNCHANGED <<vars, gpuVars>>
      /\ \E h \in {"meet", "end", "reset"} :
           host' = [host EXCEPT ![r] = h] /\ (Current(r).meet => h = "meet")
  BY DEF Synchronize, Meets, Onward
<1>2. LaunchOK(r) /\ InKernels(r)
  BY <1>1 DEF RoundsInv, InKernels
<1>3. \A k \in Kernels(Current(r)) : \A x \in CtasOf(r, k) : CtaDone(r, x)
  BY <1>1, <1>2 DEF LaunchOK, GpuIdle
<1>4. ASSUME NEW w \in Warp PROVE wpc[r][w] = "copy" /\ count[r][w] = 0
  <2>1. CASE "dispatch" \in launched[r] /\ w <= TotalWarps(r)
    <3>1. CtaOfWarp(w) \in DispatchCtas(r)
      BY <1>2, <2>1, Stages, GridFacts, WarpHasCta
    <3>2. CtaDone(r, CtaOfWarp(w))
      BY <1>1, <1>2, <1>3, <2>1, <3>1 DEF LaunchOK, CtasOf
    <3>3. CtaOfWarp(w)[1] = "dispatch"
      BY DEF CtaOfWarp
    <3> QED BY <3>2, <3>3 DEF CtaDone, WarpDone
  <2>2. CASE ~("dispatch" \in launched[r] /\ w <= TotalWarps(r))
    BY <1>2, <2>2 DEF LaunchOK
  <2> QED BY <2>1, <2>2
<1>5. ASSUME Gated(r) PROVE GemmDone(r)
  <2>1. "gemm" \in Kernels(Current(r))
    BY <1>5 DEF Gated, Kernels
  <2>2. ASSUME NEW c \in 1 .. TotalCtas(r) PROVE tile[r][c] >= TileBase[r][EPR]
    <3>1. CtaDone(r, <<"gemm", c>>)
      BY <1>3, <2>1, Grids DEF CtasOf
    <3> QED BY <3>1 DEF CtaDone
  <2> QED BY <2>2 DEF GemmDone
<1> QED BY <1>1, <1>4, <1>5, LeaveKeepsInv

\* No rank leaves the collective before all have ended the iteration.
LEMMA MeetKeepsInv ==
  ASSUME RoundsTypeOK, RoundsInv, NEW r \in Rank, Meet(r)
  PROVE  RoundsInv'
<1>1. /\ host[r] = "meet" /\ UNCHANGED <<vars, gpuVars>>
      /\ \E h \in {"meet", "end", "reset"} : host' = [host EXCEPT ![r] = h]
      /\ \A q \in Rank : gen[q] = gen[r] => host[q] \in {"meet", "reset", "barrier", "end"}
      /\ \A q \in Rank : gen[q] >= gen[r]
  BY DEF Meet, Onward
<1>2. LaunchOK(r) /\ EndedOK(r) /\ ~InKernels(r)
  BY <1>1 DEF RoundsInv, InKernels
<1>3. \A q \in Rank : Ended(q, gen[r])
  BY <1>1, Stages DEF Ended
<1> QED BY <1>1, <1>2, <1>3, LeaveKeepsInv DEF LaunchOK, EndedOK

-----------------------------------------------------------------------------
(* A warp of the dispatch kernel. *)

\* A warp leaves the others of its rank alone.
LEMMA OtherWarps ==
  ASSUME TypeOK, NEW r \in Rank, NEW w \in Warp, WarpStep(r, w)
  PROVE  \A v \in Warp \ {w} :
           nxt'[r][v] = nxt[r][v] /\ wpc'[r][v] = wpc[r][v] /\ count'[r][v] = count[r][v]
<1>1. CASE CopyRow(r, w)
  BY <1>1 DEF CopyRow, TypeOK
<1>2. CASE FlushSegment(r, w)
  BY <1>2 DEF FlushSegment, TypeOK
<1>3. CASE ArriveSegment(r, w)
  BY <1>3 DEF ArriveSegment, Arrive, TypeOK
<1>4. CASE ArriveToken(r, w)
  BY <1>4 DEF ArriveToken, Arrive, TypeOK
<1> QED BY <1>1, <1>2, <1>3, <1>4 DEF WarpStep

\* What a rank has zeroed for the next iteration, a late warp leaves alone.
LEMMA LateWarpIsSilent ==
  ASSUME RoundsTypeOK, DataOK, NEW r \in Rank, InKernels(r), Current(r).dispatch, Newest(r),
         WarpEffect(r), NEW d \in Rank, Fresh(d), Behind(r, d)
  PROVE  \A e \in Expert : flags'[d][e] = flags[d][e] /\ flagView'[d][e] = flagView[d][e]
<1>1. gen[r] \in Nat /\ gen[d] \in Nat /\ gen[d] <= gen[r]
  BY Stages DEF Newest
<1>2. gen[r] = gen[d]
  BY <1>1 DEF Behind
<1>3. \A x \in EntriesTo(r, d) : Announced(x)
  BY <1>2 DEF DataOK, BehindOK, Silent
<1>4. \A x \in Entry : x[1] = r /\ Send(x).dst = d => Announced(x)
  BY <1>3 DEF EntriesTo
<1> QED BY <1>4 DEF WarpEffect

LEMMA WarpKeepsData ==
  ASSUME RoundsTypeOK, RoundsTypeOK', DataOK, NEW r \in Rank, InKernels(r),
         Current(r).dispatch, Newest(r), WarpEffect(r), host' = host
  PROVE  DataOK'
<1>1. TypeOK /\ TypeOK'
  BY TypeParts
<1>2. /\ RowsGrow /\ RowsCopied' /\ ListOK(r)' /\ UNCHANGED gemmVars
      /\ \A q \in Rank \ {r} : SameList(q)
      /\ \A x \in Entry : x[1] = r /\ Announced(x) => Announced(x)'
      /\ \A q, d \in Rank : /\ PublishedFrom(q, d) => PublishedFrom(q, d)'
                            /\ ShownOK(q, d) => ShownOK(q, d)'
      /\ \A d \in Rank, e \in Expert :
           /\ flagView[d][e] \subseteq flagView'[d][e]
           /\ \A x \in flagView'[d][e] \ flagView[d][e] : x[1] = r
  BY DEF WarpEffect
<1>3. /\ gen' = gen /\ tile' = tile /\ ready' = ready /\ gview' = gview /\ racy' = racy
      /\ \A q \in Rank : Current(q)' = Current(q)
      /\ \A q \in Rank : Fresh(q)' <=> Fresh(q)
      /\ \A q, d \in Rank : Behind(q, d)' <=> Behind(q, d)
      /\ \A q \in Rank : InKernels(q)' <=> InKernels(q)
      /\ \A q \in Rank : Gated(q)' <=> Gated(q)
  <2>1. gen' = gen /\ tile' = tile /\ ready' = ready /\ gview' = gview /\ racy' = racy
    BY <1>2 DEF RowsGrow, gemmVars
  <2>2. \A q \in Rank : Current(q)' = Current(q)
    BY <2>1 DEF Current
  <2> QED BY <2>1, <2>2 DEF Fresh, Behind, CleanEnd, InKernels, Gated, Started
<1>4. \A x \in Entry : Copied(x) => Copied(x)'
  BY <1>1, <1>2, CopiedKept
<1>5. ASSUME NEW q \in Rank PROVE RankOK(q)'
  <2>1. CASE q = r
    <3>1. host'[r] # "barrier" /\ gen'[r] # 0
      BY <1>3, Stages DEF Started
    <3> QED BY <1>2, <2>1, <3>1 DEF RankOK
  <2>2. CASE q # r
    <3>1. SameList(q)
      BY <1>2, <2>2
    <3>2. ListOK(q) => ListOK(q)'
      BY <1>1, <1>4, <3>1, ListKept
    <3> QED BY <3>1, <3>2 DEF DataOK, RankOK, SameList
  <2> QED BY <2>1, <2>2
<1>6. \A q, p \in Rank : AheadOK(q, p)'
  BY <1>3 DEF DataOK, AheadOK
<1>7. \A q \in Rank : \A x \in Entry : x[1] = q /\ Announced(x) => Announced(x)'
  <2>1. ASSUME NEW x \in Entry, x[1] # r, Announced(x) PROVE Announced(x)'
    <3>1. x[1] \in Rank \ {r}
      BY <2>1, EntryFacts
    <3> QED BY <1>2, <2>1, <3>1, AnnouncedSame
  <2> QED BY <1>2, <2>1
<1>8. ASSUME NEW q \in Rank, NEW d \in Rank PROVE BehindOK(q, d)' /\ FlagsOK(q, d)'
  <2>1. BehindOK(q, d) /\ FlagsOK(q, d)
    BY DEF DataOK
  <2>2. Silent(q, d) => Silent(q, d)'
    <3>1. EntriesTo(q, d)' = EntriesTo(q, d)
      BY DEF EntriesTo, Entry
    <3>2. \A x \in EntriesTo(q, d) : x \in Entry /\ x[1] = q
      BY DEF EntriesTo
    <3> QED BY <1>3, <1>7, <3>1, <3>2 DEF Silent
  <2>3. ASSUME Fresh(d), Behind(q, d), NEW e \in Expert, NEW x \in flagView'[d][e]
        PROVE  x[1] # q
    <3>1. \A y \in flagView[d][e] : y[1] # q
      BY <2>1, <2>3 DEF BehindOK
    <3>2. CASE q = r
      <4>1. flagView'[d][e] = flagView[d][e]
        BY <2>3, <3>2, LateWarpIsSilent
      <4> QED BY <3>1, <4>1
    <3>3. CASE q # r
      BY <1>2, <3>1, <3>3
    <3> QED BY <3>2, <3>3
  <2>4. BehindOK(q, d)'
    BY <1>3, <2>1, <2>2, <2>3 DEF BehindOK
  <2>5. FlagsOK(q, d)'
    BY <1>2, <1>3, <2>1 DEF FlagsOK
  <2> QED BY <2>4, <2>5
<1>9. ASSUME NEW d \in Rank PROVE CountOK(d)'
  <2>1. SUFFICES ASSUME Fresh(d), NEW e \in Expert
                 PROVE  flags'[d][e] = Cardinality(Published(d, e)')
    BY <1>3 DEF CountOK
  <2>2. flags[d][e] = Cardinality(Published(d, e))
    BY <2>1 DEF DataOK, CountOK
  <2>3. CASE Behind(r, d)
    <3>1. flags'[d][e] = flags[d][e] /\ flagView'[d][e] = flagView[d][e]
      BY <2>1, <2>3, LateWarpIsSilent
    <3>2. Published(d, e)' = Published(d, e)
      BY <3>1 DEF Published, ExpertEntries, Entry
    <3> QED BY <2>2, <3>1, <3>2
  <2>4. CASE ~Behind(r, d)
    <3>1. host[r] # "barrier"
      BY Stages DEF Started
    <3>2. PublishedFrom(r, d) /\ ShownOK(r, d)
      BY <2>4, <3>1 DEF DataOK, FlagsOK
    <3> QED BY <2>2, <3>2 DEF WarpEffect
  <2> QED BY <2>3, <2>4
<1>10. ASSUME NEW d \in Rank PROVE WaitedOK(d)' /\ TilesOK(d)'
  <2>1. WaitedOK(d)'
    <3>1. SUFFICES ASSUME Gated(d), NEW c \in 1 .. TotalCtas(d), NEW e \in Expert
                   PROVE  \/ ExpertEntries(d, e) \subseteq flagView'[d][e]
                          \/ /\ ready[d][c] # e
                             /\ \A t \in 0 .. tile[d][c] - 1 :
                                  (\E k \in 0 .. t : t = c - 1 + k * TotalCtas(d)) =>
                                     ~InBatch(d, t, e)
      BY <1>3 DEF WaitedOK, ExpertEntries, Entry, InBatch, TotalCtas
    <3> QED BY <1>2, <3>1 DEF DataOK, WaitedOK
  <2>2. TilesOK(d)'
    BY <1>3 DEF DataOK, TilesOK, TotalCtas
  <2> QED BY <2>1, <2>2
<1>11. GateInv' /\ NoRacyRead'
  BY <1>1, <1>2, <1>3, GateKept DEF DataOK, NoRacyRead
<1> QED BY <1>2, <1>5, <1>6, <1>8, <1>9, <1>10, <1>11 DEF DataOK

LEMMA ResidentWarpKeepsInv ==
  ASSUME RoundsTypeOK, RoundsTypeOK', RoundsInv, NEW r \in Rank, NEW w \in Warp,
         ResidentWarp(r, w)
  PROVE  RoundsInv'
<1>1. DataOK /\ HostOK /\ TypeOK /\ TypeOK' /\ GpuTypeOK
  BY InvParts, TypeParts
<1>2. /\ CtaOfWarp(w) \in resident[r] /\ WarpStep(r, w) /\ host' = host
      /\ launched' = launched /\ pending' = pending /\ resident' = resident
  BY DEF ResidentWarp, gpuVars
<1>3. InKernels(r) /\ "dispatch" \in launched[r] /\ Current(r).dispatch
  <2>1. CtaOfWarp(w)[1] = "dispatch"
    BY DEF CtaOfWarp
  <2>2. InKernels(r) /\ LaunchOK(r)
    BY <1>1, <1>2 DEF HostOK, LaunchOK, GpuIdle
  <2>3. "dispatch" \in launched[r] /\ "dispatch" \in Kernels(Current(r))
    BY <1>2, <2>1, <2>2 DEF LaunchOK
  <2> QED BY <2>2, <2>3 DEF Kernels
<1>4. Newest(r)
  BY <1>1, <1>3, RunningIsNewest DEF DataOK
<1>5. WarpEffect(r)
  <2>1. host[r] # "barrier"
    BY <1>3, Stages DEF Started
  <2>2. ListOK(r) /\ RowsCopied
    BY <1>1, <2>1 DEF DataOK, RankOK
  <2> QED BY <1>1, <1>2, <1>4, <2>2, WarpStepEffect
<1>6. DataOK'
  BY <1>1, <1>2, <1>3, <1>4, <1>5, WarpKeepsData
<1>7. gen' = gen /\ tile' = tile /\ \A q \in Rank \ {r} : SameList(q)
  BY <1>5 DEF WarpEffect, RowsGrow, gemmVars
<1>8. ASSUME NEW q \in Rank PROVE MeetingOK(q)' /\ EndedOK(q)'
  BY <1>1, <1>2, <1>7 DEF HostOK, MeetingOK, Ended, EndedOK, Gated, Started, Current,
       InKernels, GemmDone, TotalCtas
<1>9. ASSUME NEW q \in Rank, q # r PROVE LaunchOK(q)'
  <2>1. nxt'[q] = nxt[q] /\ wpc'[q] = wpc[q] /\ count'[q] = count[q]
    BY <1>7, <1>9 DEF SameList
  <2>2. \A x : CtaDone(q, x)' <=> CtaDone(q, x)
    BY <1>7, <2>1, DoneKept
  <2> QED BY <1>1, <1>2, <1>7, <2>1, <2>2, LaunchKept DEF HostOK
<1>10. LaunchOK(r)'
  <2>1. /\ InKernels(r)' <=> InKernels(r)
        /\ Kernels(Current(r))' = Kernels(Current(r)) /\ TotalWarps(r)' = TotalWarps(r)
        /\ \A k : CtasOf(r, k)' = CtasOf(r, k)
    BY <1>2, <1>7, GridsKept DEF InKernels
  <2>2. ASSUME NEW x, x \notin resident[r], CtaDone(r, x) PROVE CtaDone(r, x)'
    <3>1. CASE x[1] = "dispatch"
      <4>1. ASSUME NEW v \in Warp, CtaOfWarp(v) = x PROVE WarpDone(r, v)'
        <5>1. v # w /\ WarpDone(r, v)
          BY <1>2, <2>2, <3>1, <4>1 DEF CtaDone
        <5> QED BY <1>1, <1>2, <2>1, <5>1, OtherWarps DEF WarpDone, HasRow
      <4> QED BY <3>1, <4>1 DEF CtaDone, CtaOfWarp
    <3>2. CASE x[1] # "dispatch"
      BY <1>7, <2>2, <3>2 DEF CtaDone
    <3> QED BY <3>1, <3>2
  <2>3. LaunchOK(r)
    BY <1>1 DEF HostOK
  <2>4. ASSUME NEW k \in launched[r], NEW x \in CtasOf(r, k)
        PROVE  x \in pending[r] \/ x \in resident[r] \/ CtaDone(r, x)'
    BY <1>3, <2>2, <2>3, <2>4 DEF LaunchOK
  <2>5. GpuIdle(r)' <=> GpuIdle(r)
    BY <1>2 DEF GpuIdle
  <2>6. /\ host'[r] = "wait" => launched'[r] = Kernels(Current(r))'
        /\ launched'[r] \subseteq Kernels(Current(r))'
        /\ \A x \in pending'[r] \cup resident'[r] :
             x[1] \in launched'[r] /\ x \in CtasOf(r, x[1])'
    BY <1>2, <1>3, <2>1, <2>3 DEF LaunchOK
  <2>7. \A v \in Warp : ~(v <= TotalWarps(r)) => wpc'[r][v] = "copy" /\ count'[r][v] = 0
    <3>1. w <= TotalWarps(r)
      <4>1. HasRow(r, w) \/ count[r][w] > 0 \/ wpc[r][w] = "arrive"
        BY <1>2 DEF WarpStep, CopyRow, FlushSegment, ArriveSegment, ArriveToken
      <4>2. ~(w <= TotalWarps(r)) => wpc[r][w] = "copy" /\ count[r][w] = 0
        BY <2>3 DEF LaunchOK
      <4> QED BY <4>1, <4>2 DEF HasRow
    <3> QED BY <1>1, <1>2, <2>3, <3>1, OtherWarps DEF LaunchOK
  <2>8. InKernels(r)' /\ "dispatch" \in launched'[r]
    BY <1>2, <1>3, <2>1
  <2> QED BY <1>2, <2>1, <2>4, <2>6, <2>7, <2>8 DEF LaunchOK
<1>11. HostOK'
  BY <1>8, <1>9, <1>10 DEF HostOK
<1> QED BY <1>6, <1>11, InvParts

-----------------------------------------------------------------------------
(* A load warp of the GEMM. *)

\* What a CTA of rank r changes: its tile, batch and view.
CtaEffect(r) ==
  /\ UNCHANGED <<gen, warpVars, recv, flags, flagView, racy, host, gpuVars>>
  /\ \A q \in Rank \ {r} : tile'[q] = tile[q] /\ ready'[q] = ready[q]
  /\ \A c \in Cta : tile'[r][c] >= tile[r][c]

LEMMA CtaKeepsInv ==
  ASSUME RoundsTypeOK, RoundsTypeOK', RoundsInv, NEW r \in Rank, InKernels(r), CtaEffect(r),
         GateInv', WaitedOK(r)', TilesOK(r)'
  PROVE  RoundsInv'
<1>1. DataOK /\ HostOK /\ TypeOK /\ TypeOK' /\ GpuTypeOK
  BY InvParts, TypeParts
<1>2. /\ gen' = gen /\ host' = host /\ launched' = launched /\ pending' = pending
      /\ resident' = resident /\ nxt' = nxt /\ wpc' = wpc /\ count' = count
      /\ segDone' = segDone /\ segView' = segView /\ flags' = flags /\ flagView' = flagView
      /\ racy' = racy /\ UNCHANGED <<gen, warpVars, recv, flags, flagView>>
      /\ \A q \in Rank \ {r} : tile'[q] = tile[q] /\ ready'[q] = ready[q]
      /\ \A c \in Cta : tile'[r][c] >= tile[r][c]
  BY DEF CtaEffect, warpVars, gpuVars
<1>3. /\ \A q : ListOK(q)' <=> ListOK(q)
      /\ \A q, d : /\ PublishedFrom(q, d)' <=> PublishedFrom(q, d)
                   /\ ShownOK(q, d)' <=> ShownOK(q, d)
      /\ \A d, e : Published(d, e)' = Published(d, e)
      /\ \A x : Announced(x)' <=> Announced(x)
      /\ RowsCopied' <=> RowsCopied
  BY <1>2, DispatchUnchanged
<1>4. /\ \A q \in Rank : Current(q)' = Current(q)
      /\ \A q \in Rank : Fresh(q)' <=> Fresh(q)
      /\ \A q, d \in Rank : Behind(q, d)' <=> Behind(q, d)
      /\ \A q \in Rank : InKernels(q)' <=> InKernels(q)
      /\ \A q \in Rank : Gated(q)' <=> Gated(q)
      /\ \A k : \A q \in Rank : Ended(q, k)' <=> Ended(q, k)
  BY <1>2 DEF Current, Fresh, Behind, CleanEnd, InKernels, Gated, Started, Ended
<1>5. \A q \in Rank : RankOK(q)'
  BY <1>1, <1>2, <1>3 DEF DataOK, RankOK
<1>6. \A q, p \in Rank : AheadOK(q, p)'
  BY <1>1, <1>2 DEF DataOK, AheadOK
<1>7. ASSUME NEW q \in Rank, NEW d \in Rank PROVE BehindOK(q, d)' /\ FlagsOK(q, d)'
  <2>1. BehindOK(q, d) /\ FlagsOK(q, d)
    BY <1>1 DEF DataOK
  <2>2. Silent(q, d) => Silent(q, d)'
    BY <1>2, <1>3, <1>4 DEF Silent, EntriesTo, Entry
  <2>3. BehindOK(q, d)'
    BY <1>2, <1>4, <2>1, <2>2 DEF BehindOK
  <2>4. FlagsOK(q, d)'
    BY <1>2, <1>3, <1>4, <2>1 DEF FlagsOK
  <2> QED BY <2>3, <2>4
<1>8. ASSUME NEW d \in Rank PROVE CountOK(d)' /\ WaitedOK(d)' /\ TilesOK(d)'
  <2>1. CountOK(d)'
    BY <1>1, <1>2, <1>3, <1>4 DEF DataOK, CountOK
  <2>2. ASSUME d # r PROVE WaitedOK(d)' /\ TilesOK(d)'
    <3>1. tile'[d] = tile[d] /\ ready'[d] = ready[d]
      BY <1>2, <2>2
    <3>2. TotalCtas(d)' = TotalCtas(d)
      BY <1>2, GridsKept
    <3>3. WaitedOK(d)'
      BY <1>1, <1>2, <1>4, <3>1, <3>2 DEF DataOK, WaitedOK, InBatch, ExpertEntries, Entry
    <3> QED BY <1>1, <1>2, <3>1, <3>3 DEF DataOK, TilesOK, TotalCtas
  <2> QED BY <2>1, <2>2
<1>9. DataOK'
  BY <1>1, <1>2, <1>3, <1>5, <1>6, <1>7, <1>8 DEF DataOK, NoRacyRead
<1>10. ASSUME NEW q \in Rank PROVE MeetingOK(q)' /\ EndedOK(q)'
  <2>1. MeetingOK(q)'
    BY <1>1, <1>2, <1>4 DEF HostOK, MeetingOK
  <2>2. CASE q = r
    BY <1>4, <2>1, <2>2 DEF EndedOK
  <2>3. CASE q # r
    BY <1>1, <1>2, <1>4, <2>1, <2>3 DEF HostOK, EndedOK, GemmDone, TotalCtas
  <2> QED BY <2>2, <2>3
<1>11. ASSUME NEW q \in Rank PROVE LaunchOK(q)'
  <2>1. ASSUME NEW k \in launched[q], NEW x \in CtasOf(q, k), CtaDone(q, x)
        PROVE  CtaDone(q, x)'
    <3>1. CASE q # r
      BY <1>2, <2>1, <3>1, DoneKept
    <3>2. CASE k = "dispatch"
      BY <1>2, <2>1, <3>2, Grids DEF CtaDone, WarpDone, HasRow, TotalWarps, CtaOfWarp
    <3>3. CASE q = r /\ k = "gemm"
      <4>1. x[1] # "dispatch" /\ x[2] \in Cta
        BY <1>1, <2>1, <3>3, Grids, GridsNow DEF CtasOf
      <4>2. tile[r][x[2]] \in Nat /\ tile'[r][x[2]] \in Nat /\ TileBase[r][EPR] \in Nat
        <5>1. EPR \in 0 .. EPR
          BY DispatchAssumption
        <5> QED BY <1>1, <4>1, <5>1, TileBaseGrows DEF TypeOK
      <4>3. tile[r][x[2]] >= TileBase[r][EPR]
        BY <2>1, <3>3, <4>1 DEF CtaDone
      <4>4. tile'[r][x[2]] >= TileBase[r][EPR]
        BY <1>2, <4>1, <4>2, <4>3
      <4> QED BY <3>3, <4>1, <4>4 DEF CtaDone
    <3> QED BY <1>1, <3>1, <3>2, <3>3 DEF GpuTypeOK
  <2> QED BY <1>1, <1>2, <2>1, LaunchKept DEF HostOK
<1>12. HostOK'
  BY <1>10, <1>11 DEF HostOK
<1> QED BY <1>9, <1>12, InvParts

\* The next tile of a CTA is a whole grid further.
LEMMA NextTile ==
  ASSUME TypeOK, NEW r \in Rank, TilesOK(r), gen' = gen,
         NEW c \in 1 .. TotalCtas(r),
         tile' = [tile EXCEPT ![r][c] = tile[r][c] + TotalCtas(r)]
  PROVE  /\ TilesOK(r)'
         /\ \A q \in Rank \ {r} : tile'[q] = tile[q]
         /\ \A b \in Cta : tile'[r][b] >= tile[r][b]
         /\ \A b \in Cta : b # c => tile'[r][b] = tile[r][b]
         /\ tile'[r][c] = tile[r][c] + TotalCtas(r) /\ tile[r][c] \in Nat
         /\ \A t \in 0 .. tile'[r][c] - 1 :
              (\E k \in 0 .. t : t = c - 1 + k * TotalCtas(r)) =>
                 t = tile[r][c] \/ t \in 0 .. tile[r][c] - 1
<1> DEFINE n == TotalCtas(r)
<1>1. n \in Nat \ {0} /\ c \in Int /\ c \in Cta /\ n = TotalCtas(r) /\ TotalCtas(r)' = n
      /\ 1 .. n \subseteq Cta
  BY GridsNow DEF TotalCtas
<1> HIDE DEF n
<1>2. /\ \A b \in Cta : tile[r][b] \in Nat
      /\ \A b \in Cta : tile'[r][b] = IF b = c THEN tile[r][c] + n ELSE tile[r][b]
      /\ \A q \in Rank \ {r} : tile'[q] = tile[q]
  BY <1>1 DEF TypeOK
<1>3. PICK k \in 0 .. tile[r][c] : tile[r][c] = c - 1 + k * n
  BY <1>1 DEF TilesOK
<1>4. k \in Nat /\ k * n \in Nat /\ (k + 1) * n = k * n + n
  BY <1>1, <1>2, <1>3
<1>5. tile'[r][c] = c - 1 + (k + 1) * n /\ k + 1 \in 0 .. tile'[r][c]
  BY <1>1, <1>2, <1>3, <1>4
<1>6. TilesOK(r)'
  BY <1>1, <1>2, <1>5 DEF TilesOK
<1>7. ASSUME NEW t \in 0 .. tile'[r][c] - 1, NEW j \in 0 .. t, t = c - 1 + j * n
      PROVE  t = tile[r][c] \/ t \in 0 .. tile[r][c] - 1
  <2>1. j \in Nat /\ j * n \in Nat
    BY <1>1, <1>7, <1>2
  <2>2. CASE j <= k
    <3>1. j * n <= k * n
      BY <1>1, <1>4, <2>1, <2>2
    <3> QED BY <1>1, <1>2, <1>3, <1>4, <1>7, <2>1, <3>1
  <2>3. CASE k + 1 <= j
    <3>1. (k + 1) * n <= j * n
      BY <1>1, <1>4, <2>1, <2>3
    <3> QED BY <1>1, <1>2, <1>3, <1>4, <1>7, <2>1, <3>1
  <2> QED BY <1>4, <2>1, <2>2, <2>3
<1>8. \A b \in Cta : tile'[r][b] >= tile[r][b]
  BY <1>1, <1>2
<1> QED BY <1>1, <1>2, <1>6, <1>7, <1>8

LEMMA OldRowsKeepInv ==
  ASSUME RoundsTypeOK, RoundsTypeOK', RoundsInv, NEW r \in Rank, InKernels(r),
         NEW c \in 1 .. TotalCtas(r), LoadOldRows(r, c), UNCHANGED <<host, gpuVars>>
  PROVE  RoundsInv'
<1>1. DataOK /\ TypeOK
  BY InvParts, TypeParts
<1>2. /\ Current(r).gemm # "gated" /\ gen' = gen /\ recv' = recv
      /\ ready' = ready /\ gview' = gview
      /\ tile' = [tile EXCEPT ![r][c] = tile[r][c] + TotalCtas(r)]
      /\ UNCHANGED <<gen, warpVars, recv, flags, flagView, racy, host, gpuVars>>
  BY DEF LoadOldRows
<1>3. CtaEffect(r) /\ TilesOK(r)'
  BY <1>1, <1>2, NextTile DEF CtaEffect, DataOK
<1>4. WaitedOK(r)'
  BY <1>2 DEF WaitedOK, Gated, Current
<1>5. GateInv'
  BY <1>1, <1>2 DEF DataOK, GateInv
<1> QED BY <1>3, <1>4, <1>5, CtaKeepsInv

LEMMA GatedWaitKeepsInv ==
  ASSUME RoundsTypeOK, RoundsTypeOK', RoundsInv, NEW r \in Rank, InKernels(r),
         Current(r).gemm = "gated", NEW c \in 1 .. TotalCtas(r), GemmWait(r, c),
         UNCHANGED <<host, gpuVars>>
  PROVE  RoundsInv'
<1>1. DataOK /\ TypeOK
  BY InvParts, TypeParts
<1>2. Gated(r) /\ Fresh(r)
  BY Stages, GatedIsFresh DEF Gated
<1>3. c \in Cta /\ 1 .. TotalCtas(r) \subseteq Cta
  BY <1>1, GridsNow
<1>4. \A e \in Expert : flags[r][e] = Cardinality(Published(r, e))
  BY <1>1, <1>2 DEF DataOK, CountOK
<1>5. ASSUME NEW e \in Expert, NEW x \in flagView[r][e] PROVE gen[r] <= gen[x[1]]
  <2>1. x[1] \in Rank
    BY <1>1, EntryFacts DEF TypeOK
  <2>2. gen[x[1]] \in Nat /\ gen[r] \in Nat
    BY <2>1, Stages
  <2>3. ~(gen[x[1]] < gen[r])
    BY <1>1, <1>2, <2>1 DEF DataOK, BehindOK, Behind
  <2> QED BY <2>2, <2>3
<1>6. /\ GateInv' /\ UNCHANGED <<gen, warpVars, recv, flags, flagView, tile, racy>>
      /\ \E e \in Expert : /\ ready' = [ready EXCEPT ![r][c] = e]
                           /\ ExpertEntries(r, e) \subseteq flagView[r][e]
  BY <1>1, <1>4, <1>5, <1>3, WaitKeepsGate DEF DataOK
<1>7. PICK e \in Expert : /\ ready' = [ready EXCEPT ![r][c] = e]
                          /\ ExpertEntries(r, e) \subseteq flagView[r][e]
  BY <1>6
<1>8. tile' = tile /\ flagView' = flagView
  BY <1>6
<1>9. /\ \A q \in Rank \ {r} : ready'[q] = ready[q]
      /\ \A b \in Cta : ready'[r][b] = IF b = c THEN e ELSE ready[r][b]
      /\ \A b \in Cta : tile'[r][b] >= tile[r][b]
  BY <1>1, <1>7, <1>8 DEF TypeOK
<1>10. CtaEffect(r)
  BY <1>6, <1>8, <1>9 DEF CtaEffect
<1>11. TotalCtas(r)' = TotalCtas(r)
  BY <1>6 DEF TotalCtas
<1>12. WaitedOK(r)'
  BY <1>1, <1>2, <1>7, <1>8, <1>9, <1>3, <1>11
     DEF DataOK, WaitedOK, ExpertEntries, Entry, InBatch
<1>13. TilesOK(r)'
  BY <1>1, <1>8, <1>11 DEF DataOK, TilesOK
<1> QED BY <1>6, <1>10, <1>12, <1>13, CtaKeepsInv

LEMMA GatedLoadKeepsInv ==
  ASSUME RoundsTypeOK, RoundsTypeOK', RoundsInv, NEW r \in Rank, InKernels(r),
         Current(r).gemm = "gated", NEW c \in 1 .. TotalCtas(r), GemmLoad(r, c),
         UNCHANGED <<host, gpuVars>>
  PROVE  RoundsInv'
<1>1. DataOK /\ TypeOK
  BY InvParts, TypeParts
<1>2. Newest(r) /\ Gated(r)
  BY <1>1, RunningIsNewest, Stages DEF DataOK, Gated
<1>3. c \in Cta /\ 1 .. TotalCtas(r) \subseteq Cta
  BY <1>1, GridsNow
<1>4. /\ UNCHANGED <<gen, warpVars, recv, flags, flagView, ready, gview, racy>>
      /\ \E e \in Expert : /\ InBatch(r, tile[r][c], e) /\ ready[r][c] = e
                           /\ tile' = [tile EXCEPT ![r][c] = tile[r][c] + TotalCtas(r)]
  BY <1>1, <1>2, <1>3, LoadReadsFresh DEF DataOK
<1>5. PICK e \in Expert : InBatch(r, tile[r][c], e) /\ ready[r][c] = e
  BY <1>4
<1>6. tile' = [tile EXCEPT ![r][c] = tile[r][c] + TotalCtas(r)] /\ ready' = ready
      /\ flagView' = flagView /\ gview' = gview /\ gen' = gen /\ recv' = recv
  BY <1>4
<1>7. CtaEffect(r) /\ TilesOK(r)'
  BY <1>1, <1>4, <1>6, NextTile DEF CtaEffect, DataOK
<1>8. GateInv'
  BY <1>1, <1>6 DEF DataOK, GateInv
<1>9. WaitedOK(r)'
  <2>1. SUFFICES ASSUME NEW b \in 1 .. TotalCtas(r), NEW f \in Expert,
                        ~(ExpertEntries(r, f) \subseteq flagView[r][f])
                 PROVE  /\ ready[r][b] # f
                        /\ \A t \in 0 .. tile'[r][b] - 1 :
                             (\E k \in 0 .. t : t = b - 1 + k * TotalCtas(r)) => ~InBatch(r, t, f)
    BY <1>6 DEF WaitedOK, ExpertEntries, Entry, InBatch, TotalCtas
  <2>2. /\ ready[r][b] # f
        /\ \A t \in 0 .. tile[r][b] - 1 :
             (\E k \in 0 .. t : t = b - 1 + k * TotalCtas(r)) => ~InBatch(r, t, f)
    BY <1>1, <1>2, <2>1 DEF DataOK, WaitedOK
  <2>3. CASE b # c
    <3>1. tile'[r][b] = tile[r][b]
      BY <1>1, <1>6, <1>3, <2>3, NextTile DEF DataOK
    <3> QED BY <2>2, <3>1
  <2>4. CASE b = c
    <3>1. ASSUME NEW t \in 0 .. tile'[r][c] - 1, \E k \in 0 .. t : t = c - 1 + k * TotalCtas(r)
          PROVE  ~InBatch(r, t, f)
      <4>1. t = tile[r][c] \/ t \in 0 .. tile[r][c] - 1
        BY <1>1, <1>6, <3>1, NextTile DEF DataOK
      <4>2. f # e
        BY <1>5, <2>2, <2>4
      <4>3. tile[r][c] \in Nat
        BY <1>1, <1>3 DEF TypeOK
      <4>4. ~InBatch(r, tile[r][c], f)
        BY <1>5, <4>2, <4>3, BatchFacts
      <4> QED BY <2>2, <2>4, <3>1, <4>1, <4>4
    <3> QED BY <2>2, <2>4, <3>1
  <2> QED BY <2>3, <2>4
<1> QED BY <1>7, <1>8, <1>9, CtaKeepsInv

LEMMA ResidentCtaKeepsInv ==
  ASSUME RoundsTypeOK, RoundsTypeOK', RoundsInv, NEW r \in Rank, NEW c \in Cta,
         ResidentCta(r, c)
  PROVE  RoundsInv'
<1>1. InKernels(r)
  BY DEF ResidentCta, RoundsInv, LaunchOK, GpuIdle
<1>2. c \in 1 .. TotalCtas(r)
  <2>1. <<"gemm", c>> \in GemmCtas(r)
    BY <1>1 DEF ResidentCta, RoundsInv, LaunchOK, CtasOf
  <2> QED BY <2>1, Grids
<1> QED BY <1>1, <1>2, OldRowsKeepInv, GatedWaitKeepsInv, GatedLoadKeepsInv
        DEF ResidentCta, CtaStep

-----------------------------------------------------------------------------
(* Zeroing the flags. *)

\* After an iteration with a clean end no peer has anything left to announce.
LEMMA CleanEndIsSilent ==
  ASSUME RoundsTypeOK, RoundsInv, NEW d \in Rank, host[d] = "reset", CleanEnd(gen[d]),
         NEW r \in Rank
  PROVE  /\ gen[r] = gen[d] /\ InKernels(r) /\ Current(r).dispatch =>
              \A x \in EntriesTo(r, d) : Announced(x)
         /\ gen[r] < gen[d] /\ Current(d).dispatch => EntriesTo(r, d) = {}
<1>1. /\ gen[d] \in Nat /\ gen[r] \in Nat
      /\ ~InKernels(d)
  BY Stages DEF InKernels
<1>2. /\ MeetingOK(d) /\ EndedOK(d) /\ WaitedOK(d) /\ BehindOK(r, d) /\ FlagsOK(r, d)
  BY DEF RoundsInv
<1>3. CASE gen[d] = 0
  BY <1>1, <1>3, Stages
<1>4. CASE gen[d] > 0 /\ ~Current(d).dispatch
  BY <1>4 DEF Current
<1>5. CASE gen[d] > 0 /\ Current(d).meet
  <2>1. Ended(r, gen[d])
    BY <1>2, <1>5 DEF MeetingOK
  <2> QED BY <1>1, <2>1, Stages DEF Ended
<1>6. CASE gen[d] > 0 /\ Current(d).gemm = "gated"
  <2>1. Gated(d) /\ GemmDone(d) /\ Fresh(d)
    BY <1>1, <1>2, <1>6, GatedIsFresh DEF Gated, Started, EndedOK
  <2>2. \A e \in Expert : ExpertEntries(d, e) \subseteq flagView[d][e]
    BY <1>2, <2>1, AllSeen
  <2>3. \A x \in EntriesTo(r, d) :
          /\ x[1] = r /\ Send(x).expert \in Expert
          /\ x \in flagView[d][Send(x).expert] /\ x \in Published(d, Send(x).expert)
    BY <2>2, EntryFacts DEF EntriesTo, ExpertEntries, Published
  <2>4. ASSUME InKernels(r) PROVE \A x \in EntriesTo(r, d) : Announced(x)
    <3>1. host[r] # "barrier"
      BY <2>4, Stages DEF Started
    <3> QED BY <1>2, <2>3, <3>1 DEF FlagsOK, PublishedFrom
  <2>5. ASSUME gen[r] < gen[d] PROVE EntriesTo(r, d) = {}
    BY <1>2, <2>1, <2>3, <2>5 DEF BehindOK, Behind
  <2> QED BY <2>4, <2>5
<1> QED BY <1>1, <1>3, <1>4, <1>5, <1>6 DEF CleanEnd, Current

LEMMA ResetKeepsInv ==
  ASSUME RoundsTypeOK, RoundsTypeOK', RoundsInv, NEW d \in Rank, Reset(d)
  PROVE  RoundsInv'
<1>1. DataOK /\ HostOK /\ TypeOK /\ HostTypeOK /\ GpuTypeOK
  BY InvParts, TypeParts
<1>2. /\ host[d] = "reset" /\ Upcoming(d).gemm # "satisfied"
      /\ UNCHANGED <<gen, nxt, wpc, curSeg, count, view, recv, gemmVars, gpuVars>>
      /\ gen' = gen /\ nxt' = nxt /\ wpc' = wpc /\ curSeg' = curSeg /\ count' = count
      /\ view' = view /\ recv' = recv /\ tile' = tile /\ ready' = ready /\ gview' = gview
      /\ racy' = racy /\ launched' = launched /\ pending' = pending /\ resident' = resident
  BY DEF Reset, gemmVars, gpuVars
<1>3. /\ host'[d] = "barrier"
      /\ \A e \in Expert : flags'[d][e] = 0 /\ flagView'[d][e] = {}
      /\ \A s \in Seg : segDone'[d][s] = 0 /\ segView'[d][s] = {}
      /\ \A q \in Rank : q # d => /\ host'[q] = host[q]
                                  /\ flags'[q] = flags[q] /\ flagView'[q] = flagView[q]
                                  /\ segDone'[q] = segDone[q] /\ segView'[q] = segView[q]
  BY <1>1 DEF Reset, ClearFlags, ClearSegDone, TypeOK, HostTypeOK
<1>4. /\ \A q : Current(q)' = Current(q)
      /\ \A q \in Rank : q # d => /\ Fresh(q)' <=> Fresh(q)
                                  /\ \A p \in Rank : Behind(p, q)' <=> Behind(p, q)
                                  /\ SameList(q)
      /\ \A q \in Rank : InKernels(q)' <=> InKernels(q)
      /\ ~InKernels(d)
      /\ \A k : \A q \in Rank : Ended(q, k) => Ended(q, k)'
      /\ \A x : Copied(x)' <=> Copied(x)
  <2>1. \A q : Current(q)' = Current(q)
    BY <1>2 DEF Current
  <2>2. \A k : \A q \in Rank : Ended(q, k) => Ended(q, k)'
    BY <1>2, <1>3 DEF Ended
  <2>3. \A q \in Rank : q # d => /\ Fresh(q)' <=> Fresh(q)
                                 /\ \A p \in Rank : Behind(p, q)' <=> Behind(p, q)
                                 /\ SameList(q)
    BY <1>2, <1>3, <2>1 DEF Fresh, Behind, CleanEnd, SameList
  <2>4. /\ \A q \in Rank : InKernels(q)' <=> InKernels(q)
        /\ ~InKernels(d)
    BY <1>2, <1>3 DEF InKernels
  <2>5. \A x : Copied(x)' <=> Copied(x)
    BY <1>2 DEF Copied
  <2> QED BY <2>1, <2>2, <2>3, <2>4, <2>5
<1>5. ASSUME NEW q \in Rank PROVE RankOK(q)'
  <2>1. CASE q = d
    BY <1>3, <2>1 DEF RankOK
  <2>2. CASE q # d
    <3>1. SameList(q) /\ host'[q] = host[q]
      BY <1>3, <1>4, <2>2
    <3>2. ListOK(q) => ListOK(q)'
      BY <1>1, <1>4, <3>1, ListKept
    <3> QED BY <1>1, <3>1, <3>2 DEF DataOK, RankOK, SameList
  <2> QED BY <2>1, <2>2
<1>6. ASSUME NEW q \in Rank, NEW p \in Rank PROVE AheadOK(q, p)'
  <2>1. AheadOK(q, p)
    BY <1>1 DEF DataOK
  <2>2. CASE p = d
    BY <1>2, <1>3, <2>1, <2>2 DEF AheadOK
  <2>3. CASE p # d
    BY <1>2, <1>3, <2>1, <2>3 DEF AheadOK
  <2> QED BY <2>2, <2>3
<1>7. ASSUME NEW q \in Rank, q # d
      PROVE  \A x : x[1] = q => (Announced(x)' <=> Announced(x))
  BY <1>4, <1>7, AnnouncedSame
<1>8. ASSUME NEW q \in Rank, NEW f \in Rank, f # d PROVE BehindOK(q, f)' /\ FlagsOK(q, f)'
  <2>1. BehindOK(q, f) /\ FlagsOK(q, f)
    BY <1>1 DEF DataOK
  <2>2. flagView'[f] = flagView[f] /\ host'[f] = host[f]
    BY <1>3, <1>8
  <2>3. Silent(q, f) => Silent(q, f)'
    <3>1. EntriesTo(q, f)' = EntriesTo(q, f) /\ \A x \in EntriesTo(q, f) : x[1] = q
      BY DEF EntriesTo, Entry
    <3>2. InKernels(q)' => q # d
      BY <1>4
    <3> QED BY <1>2, <1>4, <1>7, <2>2, <3>1, <3>2 DEF Silent
  <2>4. BehindOK(q, f)'
    BY <1>4, <1>8, <2>1, <2>2, <2>3 DEF BehindOK
  <2>5. FlagsOK(q, f)'
    <3>1. SUFFICES ASSUME q # d, host[q] # "barrier"
                   PROVE  /\ PublishedFrom(q, f)'
                          /\ ~Behind(q, f) => ShownOK(q, f)'
      BY <1>3, <1>4, <1>8 DEF FlagsOK
    <3>2. PublishedFrom(q, f) /\ (~Behind(q, f) => ShownOK(q, f))
      BY <2>1, <3>1 DEF FlagsOK
    <3>3. \A e : Published(f, e)' = Published(f, e)
      BY <2>2 DEF Published, ExpertEntries, Entry
    <3>4. PublishedFrom(q, f)'
      BY <1>7, <3>1, <3>2, <3>3 DEF PublishedFrom
    <3>5. ShownOK(q, f) => ShownOK(q, f)'
      BY <1>2, <2>2 DEF ShownOK
    <3> QED BY <3>2, <3>4, <3>5
  <2> QED BY <2>4, <2>5
<1>9. ASSUME NEW q \in Rank PROVE BehindOK(q, d)' /\ FlagsOK(q, d)'
  <2>1. \A e \in Expert : flagView'[d][e] = {}
    BY <1>3
  <2>2. ASSUME Fresh(d)' PROVE Silent(q, d)'
    <3>1. CleanEnd(gen[d])
      BY <1>2, <1>3, <2>2 DEF Fresh, CleanEnd
    <3>2. /\ gen[q] = gen[d] /\ InKernels(q) /\ Current(q).dispatch =>
               \A x \in EntriesTo(q, d) : Announced(x)
          /\ gen[q] < gen[d] /\ Current(d).dispatch => EntriesTo(q, d) = {}
      BY <1>2, <3>1, CleanEndIsSilent
    <3>3. EntriesTo(q, d)' = EntriesTo(q, d) /\ \A x \in EntriesTo(q, d) : x[1] = q
      BY DEF EntriesTo, Entry
    <3>4. InKernels(q)' => q # d
      BY <1>4
    <3> QED BY <1>2, <1>4, <1>7, <3>2, <3>3, <3>4 DEF Silent
  <2>3. BehindOK(q, d)'
    BY <2>1, <2>2 DEF BehindOK
  <2>4. FlagsOK(q, d)'
    <3>1. PublishedFrom(q, d)'
      BY <2>1 DEF PublishedFrom, Published
    <3>2. ASSUME q # d, ~Behind(q, d)' PROVE FALSE
      <4>1. gen[q] > gen[d]
        BY <1>2, <1>3, <3>2, Stages DEF Behind
      <4>2. gen[d] = 0 /\ Program[1].gemm = "satisfied"
        BY <1>1, <1>2, <4>1 DEF DataOK, AheadOK
      <4> QED BY <1>2, <4>2 DEF Upcoming
    <3> QED BY <1>3, <3>1, <3>2 DEF FlagsOK
  <2> QED BY <2>3, <2>4
<1>10. ASSUME NEW f \in Rank PROVE CountOK(f)'
  <2>1. CASE f = d
    <3>1. \A e \in Expert : Published(d, e)' = {}
      BY <1>3 DEF Published
    <3> QED BY <1>3, <2>1, <3>1, FS_EmptySet DEF CountOK
  <2>2. CASE f # d
    <3>1. \A e : Published(f, e)' = Published(f, e)
      BY <1>3, <2>2 DEF Published, ExpertEntries, Entry
    <3>2. flags'[f] = flags[f] /\ (Fresh(f)' <=> Fresh(f))
      BY <1>3, <1>4, <2>2
    <3> QED BY <1>1, <3>1, <3>2 DEF DataOK, CountOK
  <2> QED BY <2>1, <2>2
<1>11. ASSUME NEW f \in Rank PROVE WaitedOK(f)' /\ TilesOK(f)'
  <2>1. TilesOK(f)'
    BY <1>1, <1>2 DEF DataOK, TilesOK, TotalCtas
  <2>2. CASE f = d
    BY <1>3, <2>1, <2>2 DEF WaitedOK, Gated, Started
  <2>3. CASE f # d
    <3>1. flagView'[f] = flagView[f] /\ (Gated(f)' <=> Gated(f))
      BY <1>2, <1>3, <1>4, <2>3 DEF Gated, Started
    <3>2. WaitedOK(f)'
      BY <1>1, <1>2, <3>1 DEF DataOK, WaitedOK, ExpertEntries, Entry, InBatch, TotalCtas
    <3> QED BY <2>1, <3>2
  <2> QED BY <2>2, <2>3
<1>12. RowsCopied' /\ GateInv' /\ NoRacyRead'
  <2>1. ASSUME NEW f \in Rank, NEW e \in Expert, NEW x \in flagView'[f][e] PROVE Copied(x)'
    BY <1>1, <1>3, <1>4, <2>1 DEF DataOK, RowsCopied
  <2>2. RowsCopied'
    BY <1>1, <1>2, <2>1 DEF DataOK, RowsCopied
  <2> QED BY <1>1, <1>2, <2>2 DEF DataOK, GateInv, ExpertEntries, Entry, NoRacyRead
<1>13. DataOK'
  BY <1>5, <1>6, <1>8, <1>9, <1>10, <1>11, <1>12 DEF DataOK
<1>14. ASSUME NEW q \in Rank PROVE LaunchOK(q)' /\ MeetingOK(q)' /\ EndedOK(q)'
  <2>1. /\ GpuIdle(q)' <=> GpuIdle(q)
        /\ Kernels(Current(q))' = Kernels(Current(q)) /\ TotalWarps(q)' = TotalWarps(q)
        /\ \A k : CtasOf(q, k)' = CtasOf(q, k)
        /\ \A x : CtaDone(q, x)' <=> CtaDone(q, x)
    BY <1>2, GridsKept, DoneKept DEF GpuIdle
  <2>2. host'[q] = "wait" => host[q] = "wait"
    BY <1>3
  <2>3. LaunchOK(q)'
    BY <1>1, <1>2, <1>4, <2>1, <2>2 DEF HostOK, LaunchOK
  <2>4. host'[q] \in {"reset", "barrier", "end"} => host[q] \in {"reset", "barrier", "end"}
    BY <1>2, <1>3
  <2>5. MeetingOK(q)'
    BY <1>1, <1>2, <1>4, <2>4 DEF HostOK, MeetingOK
  <2>6. Gated(q)' => Gated(q)
    BY <1>2, <1>3, <1>4 DEF Gated, Started
  <2>7. EndedOK(q)'
    BY <1>1, <1>2, <1>4, <2>6 DEF HostOK, EndedOK, GemmDone, TotalCtas
  <2> QED BY <2>3, <2>5, <2>7
<1>15. HostOK'
  BY <1>14 DEF HostOK
<1> QED BY <1>13, <1>15, InvParts

-----------------------------------------------------------------------------
(* Beginning an iteration. *)

\* The list of a rank that has copied nothing.
EmptyList(r) ==
  /\ \A w \in Warp : /\ nxt[r][w] = w /\ view[r][w] = {}
                     /\ wpc[r][w] = "copy" /\ count[r][w] = 0
  /\ \A s \in Seg : segDone[r][s] = 0 /\ segView[r][s] = {}

EmptyListsOK == TypeOK => \A r \in Rank : EmptyList(r) => ListOK(r)

LEMMA EmptyListOK == EmptyListsOK
<1> SUFFICES ASSUME TypeOK, NEW r \in Rank, EmptyList(r) PROVE ListOK(r)
  BY DEF EmptyListsOK
<1>1. ViewsOK(r) /\ OrderOK(r) /\ TokenOK(r)
  BY GridsNow, GridFacts, OwnedFacts DEF EmptyList, ViewsOK, OrderOK, TokenOK
<1>2. SegmentOK(r)
  <2>1. \A w \in Warp : Pending(r, w) = {}
    BY DEF EmptyList, Pending
  <2>2. \A s \in Seg : Counted(r, s) = {}
    BY DEF EmptyList, Counted
  <2>3. \A w \in Warp : PendingOK(r, w)
    BY <2>1, FS_EmptySet DEF EmptyList, PendingOK
  <2>4. \A s \in Seg : CountedOK(r, s)
    BY <2>2, FS_EmptySet DEF EmptyList, CountedOK
  <2> QED BY <2>3, <2>4 DEF EmptyList, SegmentOK
<1> QED BY <1>1, <1>2 DEF ListOK

\* Rank q has not left the last iteration, and waits for the others to come.
Waits(q) ==
  \/ host[q] = "barrier"
  \/ gen[q] = 0 /\ host[q] = "reset" /\ Program[1].gemm = "satisfied"

\* A rank begins when every other one waits or has just begun.
CanBegin(r) ==
  /\ Waits(r)
  /\ \A q \in Rank : gen[q] = gen[r] + 1 \/ (gen[q] = gen[r] /\ Waits(q))

LEMMA BeginsTogether ==
  ASSUME RoundsTypeOK, RoundsInv, NEW r \in Rank, PreSatisfy(r) \/ PassBarrier(r)
  PROVE  CanBegin(r)
<1>1. HostTypeOK /\ \A q \in Rank : AheadOK(q, r)
  BY TypeParts DEF RoundsInv
<1>2. CASE PassBarrier(r)
  <2>1. host[r] = "barrier" /\ \A q \in Rank : AtBarrier(q, r)
    BY <1>2 DEF PassBarrier
  <2> QED BY <1>1, <2>1 DEF CanBegin, Waits, AtBarrier, AheadOK
<1>3. CASE PreSatisfy(r)
  <2>1. host[r] = "reset" /\ Program[gen[r] + 1].gemm = "satisfied"
    BY <1>3 DEF PreSatisfy, Upcoming
  <2>2. gen[r] < Len(Program)
    BY <1>1, <2>1 DEF HostTypeOK
  <2>3. gen[r] + 1 \in 1 .. Len(Program)
    BY <2>2, Stages
  <2>4. gen[r] = 0 /\ Program[1].gemm = "satisfied"
    <3>1. gen[r] + 1 = 1
      BY <2>1, <2>3, ProgramFacts
    <3>2. gen[r] = 0
      BY <3>1, Stages
    <3> QED BY <2>1, <3>2
  <2>5. ASSUME NEW q \in Rank
        PROVE  gen[q] = gen[r] + 1 \/ (gen[q] = gen[r] /\ Waits(q))
    <3>1. CASE gen[q] > 0
      BY <1>1, <2>4, <3>1 DEF AheadOK
    <3>2. CASE gen[q] = 0
      <4>1. host[q] \in {"reset", "barrier"}
        BY <1>1, <3>2 DEF HostTypeOK
      <4> QED BY <2>4, <3>2, <4>1 DEF Waits
    <3> QED BY <3>1, <3>2, Stages
  <2> QED BY <2>1, <2>4, <2>5 DEF CanBegin, Waits
<1> QED BY <1>2, <1>3

\* Nobody holds announcements of r in flags that are zeroed for the iteration.
LEMMA NothingFrom ==
  ASSUME RoundsTypeOK, DataOK, NEW r \in Rank, CanBegin(r), NEW d \in Rank, Fresh(d)
  PROVE  \A e \in Expert : \A x \in flagView[d][e] : x[1] # r
<1>1. gen[r] \in Nat /\ gen[d] \in Nat
  BY Stages
<1>2. CASE gen[d] = gen[r] + 1
  <2>1. Behind(r, d)
    BY <1>1, <1>2 DEF Behind
  <2> QED BY <2>1 DEF DataOK, BehindOK
<1>3. CASE gen[d] = gen[r] /\ Waits(d)
  <2>1. host[d] = "barrier"
    BY <1>3 DEF Waits, Fresh
  <2>2. Behind(r, d)
    BY <1>3, <2>1 DEF Behind
  <2> QED BY <2>2 DEF DataOK, BehindOK
<1> QED BY <1>2, <1>3 DEF CanBegin

\* What BeginIteration does, rank by rank.
BeginEffect(r) ==
  /\ host'[r] = "launch" /\ gen'[r] = gen[r] + 1
  /\ EmptyList(r)'
  /\ \A c \in Cta : tile'[r][c] = c - 1 /\ ready'[r][c] = -1 /\ gview'[r][c] = {}
  /\ launched'[r] = {}
  /\ \A q \in Rank : q # r =>
       /\ SameList(q)
       /\ host'[q] = host[q] /\ launched'[q] = launched[q] /\ flags'[q] = flags[q]
       /\ tile'[q] = tile[q] /\ ready'[q] = ready[q] /\ gview'[q] = gview[q]
  /\ \A d \in Rank, e \in Expert :
       flagView'[d][e] = {x \in flagView[d][e] : x[1] # r}
  /\ wpc' = wpc /\ count' = count
  /\ recv' = recv /\ racy' = racy /\ pending' = pending /\ resident' = resident

LEMMA BeginSteps ==
  ASSUME RoundsTypeOK, RoundsInv, NEW r \in Rank, PreSatisfy(r) \/ PassBarrier(r)
  PROVE  /\ BeginEffect(r) /\ CanBegin(r) /\ GpuIdle(r)
         /\ \A w \in Warp : wpc[r][w] = "copy" /\ count[r][w] = 0
         /\ PreSatisfy(r) => Program[gen[r] + 1].gemm = "satisfied"
         /\ PassBarrier(r) => flags' = flags /\ host[r] = "barrier"
<1>1. TypeOK /\ HostTypeOK /\ GpuTypeOK /\ CanBegin(r)
  BY TypeParts, BeginsTogether
<1>2. BeginIteration(r) /\ ~InKernels(r)
  BY <1>1 DEF PreSatisfy, PassBarrier, InKernels
<1>3. GpuIdle(r) /\ \A w \in Warp : wpc[r][w] = "copy" /\ count[r][w] = 0
  BY <1>2 DEF RoundsInv, LaunchOK
<1>4. \A s \in Seg : segDone[r][s] = 0 /\ segView[r][s] = {}
  BY <1>1 DEF RoundsInv, RankOK, CanBegin, Waits
<1>5. /\ wpc' = wpc /\ count' = count /\ segDone' = segDone /\ segView' = segView
      /\ recv' = recv /\ racy' = racy /\ pending' = pending /\ resident' = resident
  BY <1>2 DEF BeginIteration
<1>6. /\ host'[r] = "launch" /\ gen'[r] = gen[r] + 1 /\ launched'[r] = {}
      /\ \A q \in Rank : q # r => /\ host'[q] = host[q] /\ gen'[q] = gen[q]
                                  /\ launched'[q] = launched[q]
  BY <1>1, <1>2 DEF BeginIteration, TypeOK, HostTypeOK, GpuTypeOK
<1>7. /\ \A w \in Warp : nxt'[r][w] = w /\ view'[r][w] = {}
      /\ \A q \in Rank : q # r => /\ nxt'[q] = nxt[q] /\ view'[q] = view[q]
                                  /\ curSeg'[q] = curSeg[q]
  BY <1>1, <1>2 DEF BeginIteration, TypeOK, FirstRow
<1>8. /\ \A c \in Cta : tile'[r][c] = c - 1 /\ ready'[r][c] = -1 /\ gview'[r][c] = {}
      /\ \A q \in Rank : q # r =>
           tile'[q] = tile[q] /\ ready'[q] = ready[q] /\ gview'[q] = gview[q]
  BY <1>1, <1>2 DEF BeginIteration, TypeOK
<1>9. \A d \in Rank, e \in Expert :
        flagView'[d][e] = {x \in flagView[d][e] : x[1] # r}
  BY <1>2 DEF BeginIteration
<1>10. /\ \A q \in Rank : q # r => flags'[q] = flags[q]
       /\ PreSatisfy(r) => Program[gen[r] + 1].gemm = "satisfied"
       /\ PassBarrier(r) => flags' = flags /\ host[r] = "barrier"
  BY <1>1 DEF PreSatisfy, Satisfy, PassBarrier, Upcoming, TypeOK
<1>11. EmptyList(r)'
  BY <1>3, <1>4, <1>5, <1>7 DEF EmptyList
<1>12. \A q \in Rank : q # r => SameList(q)
  BY <1>5, <1>6, <1>7 DEF SameList
<1>13. BeginEffect(r)
  BY <1>5, <1>6, <1>8, <1>9, <1>10, <1>11, <1>12 DEF BeginEffect
<1> QED BY <1>1, <1>3, <1>10, <1>13

LEMMA BeginKeepsHost ==
  ASSUME RoundsTypeOK, RoundsInv, NEW r \in Rank, BeginEffect(r), CanBegin(r), GpuIdle(r),
         \A w \in Warp : wpc[r][w] = "copy" /\ count[r][w] = 0
  PROVE  HostOK'
<1>1. HostOK /\ GpuTypeOK /\ gen[r] \in Nat
  BY InvParts, TypeParts, Stages
<1>2. /\ host'[r] = "launch" /\ gen'[r] = gen[r] + 1 /\ launched'[r] = {}
      /\ wpc' = wpc /\ count' = count /\ pending' = pending /\ resident' = resident
  BY DEF BeginEffect
<1>3. ASSUME NEW q \in Rank, q # r
      PROVE  /\ SameList(q) /\ host'[q] = host[q] /\ launched'[q] = launched[q]
             /\ tile'[q] = tile[q] /\ gen'[q] = gen[q] /\ nxt'[q] = nxt[q]
  BY <1>3 DEF BeginEffect, SameList
<1>4. \A q \in Rank, k \in Nat : Ended(q, k) => Ended(q, k)'
  <2>1. \A k \in Nat : Ended(r, k) => Ended(r, k)'
    BY <1>1, <1>2 DEF Ended
  <2> QED BY <1>3, <2>1 DEF Ended
<1>5. ASSUME NEW q \in Rank PROVE MeetingOK(q)' /\ EndedOK(q)' /\ LaunchOK(q)'
  <2>1. CASE q = r
    <3>1. InKernels(r)' /\ MeetingOK(r)' /\ EndedOK(r)'
      BY <1>2 DEF InKernels, MeetingOK, EndedOK
    <3>2. LaunchOK(r)'
      BY <1>2, <3>1 DEF LaunchOK, GpuIdle
    <3> QED BY <2>1, <3>1, <3>2
  <2>2. CASE q # r
    <3>1. gen[q] \in Nat
      BY Stages
    <3>2. MeetingOK(q)'
      BY <1>1, <1>3, <1>4, <2>2, <3>1 DEF HostOK, MeetingOK, Current
    <3>3. EndedOK(q)'
      BY <1>1, <1>3, <2>2 DEF HostOK, EndedOK, Gated, Started, Current, InKernels, GemmDone,
         TotalCtas
    <3>4. \A x : CtaDone(q, x)' <=> CtaDone(q, x)
      BY <1>2, <1>3, <2>2, DoneKept
    <3>5. LaunchOK(q)'
      BY <1>1, <1>2, <1>3, <2>2, <3>4, LaunchKept DEF HostOK
    <3> QED BY <3>2, <3>3, <3>5
  <2> QED BY <2>1, <2>2
<1> QED BY <1>5 DEF HostOK

LEMMA BeginKeepsData ==
  ASSUME RoundsTypeOK, RoundsTypeOK', RoundsInv, NEW r \in Rank, BeginEffect(r), CanBegin(r),
         \/ Program[gen[r] + 1].gemm = "satisfied"
         \/ flags' = flags /\ host[r] = "barrier"
  PROVE  DataOK'
<1>1. DataOK /\ TypeOK /\ TypeOK' /\ \A q \in Rank : gen[q] \in Nat
  BY InvParts, TypeParts, Stages
<1>2. /\ host'[r] = "launch" /\ gen'[r] = gen[r] + 1 /\ EmptyList(r)'
      /\ \A c \in Cta : tile'[r][c] = c - 1 /\ ready'[r][c] = -1 /\ gview'[r][c] = {}
      /\ \A d \in Rank, e \in Expert :
           flagView'[d][e] = {x \in flagView[d][e] : x[1] # r}
      /\ recv' = recv /\ racy' = racy
  BY DEF BeginEffect
<1>3. ASSUME NEW q \in Rank, q # r
      PROVE  /\ SameList(q) /\ host'[q] = host[q] /\ flags'[q] = flags[q]
             /\ tile'[q] = tile[q] /\ ready'[q] = ready[q] /\ gview'[q] = gview[q]
             /\ gen'[q] = gen[q]
             /\ Current(q)' = Current(q) /\ (Fresh(q)' <=> Fresh(q))
             /\ (Gated(q)' <=> Gated(q)) /\ (InKernels(q)' <=> InKernels(q))
  <2>1. /\ SameList(q) /\ host'[q] = host[q] /\ flags'[q] = flags[q] /\ gen'[q] = gen[q]
        /\ tile'[q] = tile[q] /\ ready'[q] = ready[q] /\ gview'[q] = gview[q]
    BY <1>3 DEF BeginEffect, SameList
  <2>2. Current(q)' = Current(q)
    BY <2>1 DEF Current
  <2> QED BY <2>1, <2>2 DEF Fresh, Gated, Started, InKernels, CleanEnd
<1>4. \A q \in Rank : gen[q] = gen[r] + 1 \/ (gen[q] = gen[r] /\ Waits(q))
  BY DEF CanBegin
<1>5. Fresh(r)' => Fresh(r) /\ flags' = flags /\ host[r] = "barrier"
  BY <1>1, <1>2 DEF Fresh, Current, CleanEnd
<1>6. ASSUME NEW d \in Rank, Fresh(d)'
      PROVE  /\ Fresh(d) /\ flags'[d] = flags[d]
             /\ \A e \in Expert : flagView'[d][e] = flagView[d][e]
  <2>1. Fresh(d) /\ flags'[d] = flags[d]
    BY <1>3, <1>5, <1>6
  <2>2. \A e \in Expert : \A x \in flagView[d][e] : x[1] # r
    BY <1>1, <2>1, NothingFrom
  <2>3. ASSUME NEW e \in Expert PROVE flagView'[d][e] = flagView[d][e]
    <3>1. flagView'[d][e] = {x \in flagView[d][e] : x[1] # r}
      BY <1>2
    <3> QED BY <2>2, <3>1
  <2> QED BY <2>1, <2>3
<1>7. ASSUME NEW q \in Rank PROVE RankOK(q)'
  <2>1. CASE q = r
    <3>1. EmptyListsOK'
      BY EmptyListOK, PTL
    <3>2. ListOK(r)' /\ host'[r] # "barrier"
      BY <1>1, <1>2, <3>1 DEF EmptyListsOK
    <3> QED BY <1>2, <2>1, <3>2 DEF RankOK, EmptyList
  <2>2. CASE q # r
    <3>1. SameList(q) /\ host'[q] = host[q]
      BY <1>3, <2>2
    <3>2. \A x \in Entry : x[1] = q /\ Copied(x) => Copied(x)'
      BY <1>2, <3>1 DEF Copied, SameList
    <3>3. ListOK(q) => ListOK(q)'
      BY <1>1, <3>1, <3>2, ListKept
    <3> QED BY <1>1, <3>1, <3>3 DEF DataOK, RankOK, SameList
  <2> QED BY <2>1, <2>2
<1>8. ASSUME NEW q \in Rank, NEW p \in Rank PROVE AheadOK(q, p)'
  <2>1. AheadOK(q, p)
    BY <1>1 DEF DataOK
  <2>2. CASE q # r /\ p # r
    BY <1>3, <2>1, <2>2 DEF AheadOK
  <2>3. CASE p = r
    <3>1. ~(gen'[q] > gen'[r])
      BY <1>1, <1>2, <1>3, <1>4
    <3> QED BY <2>3, <3>1 DEF AheadOK
  <2>4. CASE q = r /\ p # r
    <3>1. gen'[p] = gen[p] /\ host'[p] = host[p]
      BY <1>3, <2>4
    <3>2. gen'[r] > gen'[p] => gen[p] = gen[r] /\ Waits(p)
      BY <1>1, <1>2, <1>4, <3>1
    <3> QED BY <1>2, <2>4, <3>1, <3>2 DEF AheadOK, Waits
  <2> QED BY <2>2, <2>3, <2>4
<1>9. \A q \in Rank : q # r => \A x : x[1] = q => (Announced(x)' <=> Announced(x))
  BY <1>3, AnnouncedSame
<1>10. \A q, d \in Rank : EntriesTo(q, d)' = EntriesTo(q, d)
                          /\ \A x \in EntriesTo(q, d) : x[1] = q
  BY DEF EntriesTo, Entry
<1>11. ASSUME NEW q \in Rank, NEW d \in Rank PROVE BehindOK(q, d)'
  <2>1. SUFFICES ASSUME Fresh(d)', Behind(q, d)'
                 PROVE  /\ Silent(q, d)'
                        /\ \A e \in Expert : \A x \in flagView'[d][e] : x[1] # q
    BY DEF BehindOK
  <2>2. Fresh(d) /\ \A e \in Expert : flagView'[d][e] = flagView[d][e]
    BY <1>6, <2>1
  <2>3. CASE d = r
    <3>1. q # r /\ gen[q] = gen[r] /\ gen'[q] = gen[q] /\ host[r] = "barrier"
      BY <1>1, <1>2, <1>3, <1>4, <1>5, <2>1, <2>3 DEF Behind
    <3>2. Behind(q, r)
      BY <3>1 DEF Behind
    <3>3. \A e \in Expert : \A x \in flagView[d][e] : x[1] # q
      BY <1>1, <2>2, <2>3, <3>2 DEF DataOK, BehindOK
    <3>4. Silent(q, r)'
      BY <1>1, <1>2, <3>1 DEF Silent
    <3> QED BY <2>2, <2>3, <3>3, <3>4
  <2>4. CASE d # r /\ q = r
    <3>1. \A e \in Expert : \A x \in flagView'[d][e] : x[1] # q
      BY <1>2, <2>4
    <3>2. gen'[d] = gen[d] /\ host'[d] = host[d]
      BY <1>3, <2>4
    <3>3. gen[d] = gen[r] + 1 /\ host[d] = "barrier"
      BY <1>1, <1>2, <1>4, <2>1, <2>4, <3>2 DEF Behind
    <3>4. Behind(r, d)
      BY <1>1, <3>3 DEF Behind
    <3>5. Current(d).dispatch => EntriesTo(r, d) = {}
      BY <1>1, <2>2, <3>3, <3>4 DEF DataOK, BehindOK, Silent
    <3>6. Current(r)' = Current(d)
      BY <1>2, <3>3 DEF Current
    <3>7. Silent(r, d)'
      BY <1>1, <1>2, <1>10, <3>2, <3>3, <3>5, <3>6 DEF Silent
    <3> QED BY <2>4, <3>1, <3>7
  <2>5. CASE d # r /\ q # r
    <3>1. /\ gen'[d] = gen[d] /\ host'[d] = host[d] /\ gen'[q] = gen[q]
          /\ Current(q)' = Current(q) /\ Current(d)' = Current(d)
          /\ InKernels(q)' <=> InKernels(q)
      BY <1>3, <2>5
    <3>2. Behind(q, d)
      BY <2>1, <3>1 DEF Behind
    <3>3. Silent(q, d) /\ \A e \in Expert : \A x \in flagView[d][e] : x[1] # q
      BY <1>1, <2>2, <3>2 DEF DataOK, BehindOK
    <3>4. Silent(q, d)'
      BY <1>9, <1>10, <2>5, <3>1, <3>3 DEF Silent
    <3> QED BY <2>2, <3>3, <3>4
  <2> QED BY <2>3, <2>4, <2>5
<1>12. ASSUME NEW q \in Rank, NEW d \in Rank PROVE FlagsOK(q, d)'
  <2>1. \A e \in Expert : Published(d, e)' \subseteq Published(d, e)
                          /\ \A x \in Published(d, e)' : x[1] # r
    BY <1>2 DEF Published, ExpertEntries, Entry
  <2>2. CASE q = r
    <3>1. PublishedFrom(r, d)'
      BY <2>1 DEF PublishedFrom
    <3>2. ShownOK(r, d)'
      BY <1>2 DEF ShownOK, EmptyList
    <3> QED BY <2>2, <3>1, <3>2 DEF FlagsOK
  <2>3. CASE q # r
    <3>1. SUFFICES ASSUME host[q] # "barrier"
                   PROVE  PublishedFrom(q, d)' /\ (~Behind(q, d)' => ShownOK(q, d)')
      BY <1>3, <2>3 DEF FlagsOK
    <3>2. PublishedFrom(q, d) /\ (~Behind(q, d) => ShownOK(q, d)) /\ ListOK(q)
      BY <1>1, <3>1 DEF DataOK, FlagsOK, RankOK
    <3>3. PublishedFrom(q, d)'
      BY <1>9, <2>1, <2>3, <3>2 DEF PublishedFrom
    <3>4. Behind(q, d) => Behind(q, d)'
      <4>1. gen'[q] = gen[q] /\ host'[q] = host[q]
        BY <1>3, <2>3
      <4>2. CASE d = r
        BY <1>1, <1>2, <1>4, <4>1, <4>2 DEF Behind
      <4>3. CASE d # r
        BY <1>3, <4>1, <4>3 DEF Behind
      <4> QED BY <4>2, <4>3
    <3>5. ShownOK(q, d) => ShownOK(q, d)'
      <4>1. /\ view'[q] = view[q] /\ nxt'[q] = nxt[q]
            /\ \A w \in Warp : \A x \in view[q][w] : x[1] = q /\ Send(x).expert \in Expert
        BY <1>1, <1>3, <2>3, <3>2, EntryFacts DEF SameList, ListOK, ViewsOK, TypeOK
      <4> QED BY <1>2, <2>3, <4>1 DEF ShownOK
    <3> QED BY <3>2, <3>3, <3>4, <3>5
  <2> QED BY <2>2, <2>3
<1>13. ASSUME NEW d \in Rank PROVE CountOK(d)'
  <2>1. SUFFICES ASSUME Fresh(d)', NEW e \in Expert
                 PROVE  flags'[d][e] = Cardinality(Published(d, e)')
    BY DEF CountOK
  <2>2. Fresh(d) /\ flags'[d] = flags[d] /\ flagView'[d][e] = flagView[d][e]
    BY <1>6, <2>1
  <2>3. Published(d, e)' = Published(d, e)
    BY <2>2 DEF Published, ExpertEntries, Entry
  <2> QED BY <1>1, <2>2, <2>3 DEF DataOK, CountOK
<1>14. ASSUME NEW d \in Rank PROVE WaitedOK(d)' /\ TilesOK(d)'
  <2>1. CASE d = r
    <3> DEFINE n == TotalCtas(r)'
    <3>1. n \in Nat \ {0} /\ 1 .. n \subseteq Cta
      <4>1. gen'[r] \in Launch
        BY <1>1 DEF TypeOK
      <4> QED BY <4>1, GridFacts DEF TotalCtas
    <3> HIDE DEF n
    <3>2. ASSUME NEW c \in 1 .. n, NEW t \in 0 .. (c - 1) - 1, NEW k \in 0 .. t,
                 t = c - 1 + k * n
          PROVE  FALSE
      <4>1. k * n \in Nat /\ t < c - 1 /\ t \in Int /\ c \in Int
        BY <3>1, <3>2
      <4> QED BY <3>2, <4>1
    <3>3. \A e \in Expert : e # -1
      BY DEF Expert
    <3>4. WaitedOK(r)'
      BY <1>2, <3>1, <3>2, <3>3 DEF WaitedOK, n
    <3>5. ASSUME NEW c \in 1 .. n PROVE \E k \in 0 .. c - 1 : c - 1 = c - 1 + k * n
      <4>1. 0 \in 0 .. c - 1 /\ c - 1 = c - 1 + 0 * n
        BY <3>1
      <4> QED BY <4>1
    <3>6. TilesOK(r)'
      BY <1>2, <3>1, <3>5 DEF TilesOK, n
    <3> QED BY <2>1, <3>4, <3>6
  <2>2. CASE d # r
    <3>1. tile'[d] = tile[d] /\ ready'[d] = ready[d] /\ (Gated(d)' <=> Gated(d))
          /\ (Fresh(d)' <=> Fresh(d))
      BY <1>3, <2>2
    <3>2. TotalCtas(d)' = TotalCtas(d)
      BY <1>3, <2>2, GridsKept
    <3>3. Gated(d) => \A e \in Expert : flagView'[d][e] = flagView[d][e]
      BY <1>6, <3>1, GatedIsFresh
    <3>4. WaitedOK(d)'
      BY <1>1, <3>1, <3>3, <3>2 DEF DataOK, WaitedOK, ExpertEntries, Entry, InBatch
    <3> QED BY <1>1, <3>1, <3>4, <3>2 DEF DataOK, TilesOK
  <2> QED BY <2>1, <2>2
<1>15. RowsCopied'
  <2>1. ASSUME NEW d \in Rank, NEW s \in Row PROVE \E q \in Rank : recv[d][s] <= gen'[q]
    <3>1. PICK q \in Rank : recv[d][s] <= gen[q]
      BY <1>1 DEF DataOK, RowsCopied
    <3>2. recv[d][s] \in Nat /\ gen[q] \in Nat /\ (gen'[q] = gen[q] \/ gen'[q] = gen[q] + 1)
      BY <1>1, <1>2, <1>3 DEF TypeOK
    <3> QED BY <3>1, <3>2
  <2>2. ASSUME NEW d \in Rank, NEW e \in Expert, NEW x \in flagView'[d][e]
        PROVE  Copied(x)'
    <3>1. x \in flagView[d][e] /\ x[1] # r
      BY <1>2, <2>2
    <3>2. x[1] \in Rank
      BY <1>1, <3>1, EntryFacts DEF TypeOK
    <3>3. gen'[x[1]] = gen[x[1]] /\ Copied(x)
      BY <1>1, <1>3, <3>1, <3>2 DEF DataOK, RowsCopied
    <3> QED BY <1>2, <3>3 DEF Copied
  <2> QED BY <1>2, <2>1, <2>2 DEF RowsCopied
<1>16. GateInv'
  <2>1. \A e \in Expert : e # -1
    BY DEF Expert
  <2>2. ASSUME NEW d \in Rank, NEW c \in Cta
        PROVE  /\ \A e \in Expert : ready'[d][c] = e => ExpertEntries(d, e) \subseteq gview'[d][c]
               /\ \A x \in gview'[d][c] : recv'[Send(x).dst][Send(x).slot] >= gen'[d]
    <3>1. CASE d = r
      BY <1>2, <2>1, <3>1
    <3>2. CASE d # r
      BY <1>1, <1>2, <1>3, <3>2 DEF DataOK, GateInv
    <3> QED BY <3>1, <3>2
  <2> QED BY <2>2 DEF GateInv, ExpertEntries, Entry
<1>17. NoRacyRead'
  BY <1>1, <1>2 DEF DataOK, NoRacyRead
<1> QED BY <1>7, <1>8, <1>11, <1>12, <1>13, <1>14, <1>15, <1>16, <1>17 DEF DataOK

LEMMA BeginKeepsInv ==
  ASSUME RoundsTypeOK, RoundsTypeOK', RoundsInv, NEW r \in Rank,
         PreSatisfy(r) \/ PassBarrier(r)
  PROVE  RoundsInv'
<1>1. DataOK' /\ HostOK'
  BY BeginSteps, BeginKeepsHost, BeginKeepsData
<1> QED BY <1>1, InvParts

-----------------------------------------------------------------------------
(* The life of a TilePipe. *)

LEMMA RoundsInvInit == RoundsInit => RoundsInv
<1> SUFFICES ASSUME RoundsInit PROVE RoundsInv
  OBVIOUS
<1>1. /\ \A r \in Rank : /\ gen[r] = 0 /\ host[r] = "reset"
                         /\ launched[r] = {} /\ pending[r] = {} /\ resident[r] = {}
      /\ \A d \in Rank, e \in Expert : flagView[d][e] = {}
      /\ \A d \in Rank, s \in Row : recv[d][s] = 0
      /\ \A d \in Rank, c \in Cta : tile[d][c] = c - 1 /\ ready[d][c] = -1 /\ gview[d][c] = {}
      /\ \A d \in Rank : racy[d] = {}
      /\ \A r \in Rank : EmptyList(r)
  BY DEF RoundsInit, GemmInit, FirstRow, EmptyList
<1>2. TypeOK
  BY RoundsTypeInit, TypeParts
<1>3. \A d \in Rank : ~Fresh(d) /\ ~Gated(d) /\ ~InKernels(d)
  BY <1>1 DEF Fresh, Gated, Started, InKernels
<1>4. ASSUME NEW r \in Rank PROVE LaunchOK(r) /\ RankOK(r) /\ MeetingOK(r)
  <2>1. LaunchOK(r)
    BY <1>1, <1>3 DEF LaunchOK, GpuIdle, EmptyList
  <2>2. RankOK(r)
    BY <1>1, <1>2, EmptyListOK DEF EmptyListsOK, RankOK, EmptyList
  <2>3. MeetingOK(r)
    BY <1>1 DEF MeetingOK
  <2> QED BY <2>1, <2>2, <2>3
<1>5. \A q, r \in Rank : AheadOK(q, r)
  BY <1>1 DEF AheadOK
<1>6. ASSUME NEW r \in Rank, NEW d \in Rank PROVE BehindOK(r, d) /\ FlagsOK(r, d)
  <2>1. BehindOK(r, d)
    BY <1>3 DEF BehindOK
  <2>2. PublishedFrom(r, d) /\ ShownOK(r, d)
    BY <1>1 DEF PublishedFrom, Published, ShownOK, EmptyList
  <2> QED BY <2>1, <2>2 DEF FlagsOK
<1>7. ASSUME NEW d \in Rank PROVE CountOK(d) /\ WaitedOK(d) /\ TilesOK(d) /\ EndedOK(d)
  <2>1. CountOK(d) /\ WaitedOK(d) /\ EndedOK(d)
    BY <1>3 DEF CountOK, WaitedOK, EndedOK
  <2> DEFINE n == TotalCtas(d)
  <2>2. n \in Nat \ {0} /\ 1 .. n \subseteq Cta
    BY <1>2, GridsNow
  <2> HIDE DEF n
  <2>3. ASSUME NEW c \in 1 .. n PROVE \E k \in 0 .. c - 1 : c - 1 = c - 1 + k * n
    <3>1. 0 \in 0 .. c - 1 /\ c - 1 = c - 1 + 0 * n
      BY <2>2
    <3> QED BY <3>1
  <2>4. TilesOK(d)
    BY <1>1, <2>2, <2>3 DEF TilesOK, n
  <2> QED BY <2>1, <2>4
<1>8. RowsCopied
  BY <1>1 DEF RowsCopied
<1>9. GateInv /\ NoRacyRead
  <2>1. \A e \in Expert : e # -1
    BY DEF Expert
  <2> QED BY <1>1, <2>1 DEF GateInv, NoRacyRead
<1> QED BY <1>4, <1>5, <1>6, <1>7, <1>8, <1>9 DEF RoundsInv

\* A step that changes nothing.
LEMMA StutterKeepsInv ==
  ASSUME RoundsInv, UNCHANGED roundVars
  PROVE  RoundsInv'
<1>1. DataOK /\ HostOK /\ UNCHANGED vars /\ host' = host /\ launched' = launched
      /\ pending' = pending /\ resident' = resident
  BY InvParts DEF roundVars, gpuVars
<1>2. /\ \A q \in Rank : InKernels(q)' <=> InKernels(q)
      /\ \A q \in Rank : Gated(q)' <=> Gated(q)
      /\ \A k : \A q \in Rank : Ended(q, k)' <=> Ended(q, k)
      /\ \A q \in Rank : GpuIdle(q)' <=> GpuIdle(q)
      /\ \A q \in Rank : Kernels(Current(q))' = Kernels(Current(q))
  BY <1>1, SameVars DEF InKernels, Gated, Started, Ended, GpuIdle, Kernels
<1>3. DataOK'
  BY <1>1, <1>2, DataKept
<1>4. ASSUME NEW q \in Rank PROVE LaunchOK(q)' /\ MeetingOK(q)' /\ EndedOK(q)'
  <2>1. LaunchOK(q)'
    BY <1>1, <1>2, SameVars DEF HostOK, LaunchOK
  <2>2. MeetingOK(q)' /\ EndedOK(q)'
    BY <1>1, <1>2, SameVars DEF HostOK, MeetingOK, EndedOK
  <2> QED BY <2>1, <2>2
<1>5. HostOK'
  BY <1>4 DEF HostOK
<1> QED BY <1>3, <1>5, InvParts

LEMMA RoundsInvStep ==
  RoundsTypeOK /\ RoundsInv /\ [RoundsNext]_roundVars => RoundsTypeOK' /\ RoundsInv'
<1> SUFFICES ASSUME RoundsTypeOK, RoundsInv, [RoundsNext]_roundVars
             PROVE  RoundsTypeOK' /\ RoundsInv'
  OBVIOUS
<1>1. RoundsTypeOK'
  BY RoundsTypeStep
<1>2. CASE UNCHANGED roundVars
  BY <1>1, <1>2, StutterKeepsInv
<1>3. ASSUME NEW r \in Rank, HostStep(r) PROVE RoundsInv'
  BY <1>1, <1>3, ResetKeepsInv, BeginKeepsInv, LaunchKeepsInv, SynchronizeKeepsInv,
     MeetKeepsInv DEF HostStep
<1>4. ASSUME NEW r \in Rank, Place(r) \/ Retire(r) PROVE RoundsInv'
  BY <1>4, PlaceKeepsInv
<1> QED BY <1>1, <1>2, <1>3, <1>4, ResidentWarpKeepsInv, ResidentCtaKeepsInv DEF RoundsNext

\* The invariant behind the theorems that follow.
THEOREM RoundsInvariance == RoundsSpec => [](RoundsTypeOK /\ RoundsInv)
<1>1. QED
  BY RoundsTypeInit, RoundsInvInit, RoundsInvStep, PTL DEF RoundsSpec

\* Over all iterations every counter, list position and CTA stays within bounds.
THEOREM RoundsTypeCorrect == RoundsSpec => []RoundsTypeOK
<1>1. QED
  BY RoundsInvariance, PTL

\* The gate is safe over the whole life of a TilePipe: no gated GEMM of any
\* iteration loads a row before its copy of this iteration has been released to
\* it, though the buffers and flags are reused and the ranks run ahead of each
\* other.
THEOREM RoundsGateSafe == RoundsSpec => []NoRacyRead
<1>1. RoundsInv => NoRacyRead
  BY DEF RoundsInv
<1>2. QED
  BY <1>1, RoundsInvariance, PTL

\* While a gated GEMM runs, its flags count rows of this very iteration: the
\* zeroing of the flags races with no peer's late announcements.
THEOREM RoundsFlagsSafe == RoundsSpec => []FlagsCountThisIteration
<1>1. RoundsTypeOK /\ RoundsInv => FlagsCountThisIteration
  <2> SUFFICES ASSUME RoundsTypeOK, RoundsInv, NEW d \in Rank, host[d] = "wait",
                      Current(d).gemm = "gated", NEW e \in Expert
               PROVE  flags[d][e] = Cardinality(flagView[d][e] \cap ExpertEntries(d, e))
    BY DEF FlagsCountThisIteration
  <2>1. InKernels(d)
    BY DEF InKernels
  <2>2. Fresh(d)
    BY <2>1, Stages, GatedIsFresh DEF Gated
  <2> QED BY <2>2 DEF RoundsInv, CountOK, Published
<1>2. QED
  BY <1>1, RoundsInvariance, PTL
=============================================================================
