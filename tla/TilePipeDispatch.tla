-------------------------- MODULE TilePipeDispatch --------------------------
(***************************************************************************)
(* One overlapped TilePipe iteration: on every rank the warps of the       *)
(* dispatch kernel push token rows into the receive buffers of their       *)
(* peers and raise the peers' expert flags, while the load warps of the    *)
(* grouped GEMM wait on the local flags and read the rows                  *)
(* (quack/tilepipe.py, quack/tilepipe_sync.py, the gate in                 *)
(* quack/gemm_sm100.py).                                                   *)
(*                                                                         *)
(* Memory.  A row is written by plain (volatile, sys) stores and becomes   *)
(* readable on another GPU only through a release/acquire chain.  The      *)
(* state therefore holds, beside each counter, the set of row copies that  *)
(* were released into it, and beside each warp its view: the copies that   *)
(* happen before its next instruction.  A release adds the writer's view   *)
(* to the counter's, an acquire the counter's to the reader's.  A read of  *)
(* a row whose copy is not in the reader's view is a data race: it may     *)
(* return stale bytes.  A row is one location, its 256-bit vectors and the *)
(* lanes that move them are abstracted (sync_warp joins the lanes before   *)
(* every release).                                                         *)
(***************************************************************************)
EXTENDS Integers, Sequences, FiniteSets

CONSTANTS W,              \* world_size
          EPR,            \* experts per rank
          NWarps,         \* NWarps[k]: warps of the dispatch grid in iteration k
          NCtas,          \* NCtas[d][k]: persistent CTAs of rank d's GEMM in it
          TileM,          \* rows of a GEMM tile
          MaxRecv,        \* rows of a receive buffer (max_recv_tokens)
          Plan,           \* Plan[r]: send list of rank r
          Cu,             \* Cu[d][e]: cu_seqlens_m of rank d
          PublishSegment  \* PUBLISH_SEGMENT: per segment or per token

Rank   == 0 .. W - 1
Expert == 0 .. EPR - 1
Launch == DOMAIN NWarps
Warp   == UNION {1 .. NWarps[k] : k \in Launch}
Cta    == UNION {UNION {1 .. NCtas[d][k] : k \in Launch} : d \in Rank}
Row    == 0 .. MaxRecv - 1
Seg    == 0 .. EPR * W - 1

\* The (source rank, list position) pairs: one copy of one row each.
Entry == UNION {{r} \X DOMAIN Plan[r] : r \in Rank}
Send(x) == Plan[x[1]][x[2]]

\* seg_sizes (bincount of the segment ids) of rank r.
SegEntries(r, s) == {x \in Entry : x[1] = r /\ Send(x).seg = s}
SegSize(r, s) == Cardinality(SegEntries(r, s))

\* The copies destined to expert e of rank d; len_m, the GEMM's batch length.
ExpertEntries(d, e) == {x \in Entry : Send(x).dst = d /\ Send(x).expert = e}
LenM(d, e) == Cu[d][e + 1] - Cu[d][e]

\* What _flush_segment decodes from a segment id.
SegExpert(s) == s \div W
SegDst(r, s) == ((s % W) + r) % W

SendRecord == [token : Nat, slot : Row, dst : Rank, expert : Expert, seg : Seg]

\* What the kernels rely on from the metadata builders (TilePipePlans).
ASSUME DispatchAssumption ==
  /\ {W, EPR, TileM, MaxRecv} \subseteq Nat \ {0}
  /\ 1 \in Launch /\ Launch \subseteq Nat
  /\ NWarps \in [Launch -> Nat \ {0}]
  /\ NCtas \in [Rank -> [Launch -> Nat \ {0}]]
  /\ PublishSegment \in BOOLEAN
  /\ Plan \in [Rank -> Seq(SendRecord)]
  /\ Cu \in [Rank -> [0 .. EPR -> 0 .. MaxRecv]]

ASSUME PlanAssumption ==
  /\ \A x \in Entry : /\ Send(x).expert = SegExpert(Send(x).seg)
                      /\ Send(x).dst = SegDst(x[1], Send(x).seg)
  /\ \A x, y \in Entry :
       x[1] = y[1] /\ Send(x).dst = Send(y).dst /\ Send(x).expert = Send(y).expert
         => Send(x).seg = Send(y).seg
  /\ \A d \in Rank, e \in Expert :
       /\ {Send(x).slot : x \in ExpertEntries(d, e)} = Cu[d][e] .. Cu[d][e + 1] - 1
       /\ Cardinality(ExpertEntries(d, e)) = LenM(d, e)

-----------------------------------------------------------------------------
(* The GEMM's work list: the m-tiles of the experts, expert-major.  CTA c   *)
(* takes every n-th tile of the n CTAs (the static persistent scheduler).   *)

NumTiles(d, e) == (LenM(d, e) + TileM - 1) \div TileM

\* Exclusive cumsum of the tile counts: the first tile of each expert.
TileBase[d \in Rank] ==
  LET base[e \in 0 .. EPR] ==
        IF e = 0 THEN 0 ELSE base[e - 1] + NumTiles(d, e - 1)
  IN  base

InBatch(d, t, e) == TileBase[d][e] <= t /\ t < TileBase[d][e + 1]

TileRows(d, e, t) ==
  LET lo == Cu[d][e] + (t - TileBase[d][e]) * TileM
  IN  {s \in Cu[d][e] .. Cu[d][e + 1] - 1 : lo <= s /\ s < lo + TileM}

-----------------------------------------------------------------------------
VARIABLES
  gen,       \* gen[r]: iteration whose tokens rank r dispatches
  nxt,       \* nxt[r][w]: i, the warp's next list position
  wpc,       \* wpc[r][w]: "copy", or "arrive" when it owes a remote release
  curSeg,    \* cur_seg of the warp, -1 before its first row
  count,     \* rows of cur_seg copied and not yet counted
  view,      \* view[r][w]: copies that happen before the warp's next step
  segDone,   \* segDone[r][s]: seg_done, the local completion counters
  segView,   \* copies released into seg_done[s]
  recv,      \* recv[d][s]: iteration that wrote the row last, 0 if none
  flags,     \* flags[d][e]: rows announced for expert e
  flagView,  \* copies released into flags[e]
  tile,      \* tile[d][c]: the CTA's current linear work tile
  ready,     \* ready[d][c]: ready_batch_idx, -1 before the first wait
  gview,     \* gview[d][c]: view of the CTA's load warp
  racy       \* racy[d]: rows some CTA read without a happens-before edge

warpVars == <<nxt, wpc, curSeg, count, view, segDone, segView>>
gemmVars == <<tile, ready, gview, racy>>
vars == <<gen, warpVars, recv, flags, flagView, gemmVars>>

-----------------------------------------------------------------------------
(* The dispatch kernel, rank r, warp w. *)

\* range(global_warp_id, total_sends, total_warps), counted from 1.  A warp
\* beyond the grid that was launched has no row.
FirstRowZeroBased(w) == w - 1
FirstRow(w) == w
TotalWarps(r) == NWarps[gen[r]]
HasRowDropsLast(r, w) == w <= TotalWarps(r) /\ nxt[r][w] < Len(Plan[r])
HasRow(r, w) == w <= TotalWarps(r) /\ nxt[r][w] <= Len(Plan[r])

\* Copy row i into its destination's receive buffer.  In segment mode a row
\* of another segment is only copied once the current one is flushed.
CopyRow(r, w) ==
  LET i == nxt[r][w]
      p == Plan[r][i]
  IN  /\ wpc[r][w] = "copy"
      /\ HasRow(r, w)
      /\ PublishSegment => count[r][w] = 0 \/ p.seg = curSeg[r][w]
      /\ recv' = [recv EXCEPT ![p.dst][p.slot] = gen[r]]
      /\ view' = [view EXCEPT ![r][w] = @ \cup {<<r, i>>}]
      /\ IF PublishSegment
           THEN /\ curSeg' = [curSeg EXCEPT ![r][w] = p.seg]
                /\ count' = [count EXCEPT ![r][w] = @ + 1]
                /\ nxt' = [nxt EXCEPT ![r][w] = @ + TotalWarps(r)]
                /\ UNCHANGED wpc
           ELSE /\ wpc' = [wpc EXCEPT ![r][w] = "arrive"]
                /\ UNCHANGED <<curSeg, count, nxt>>
      /\ UNCHANGED <<gen, segDone, segView, flags, flagView, gemmVars>>

CountRowsRelaxed(r, s, w) ==
  /\ segDone' = [segDone EXCEPT ![r][s] = @ + count[r][w]]
  /\ UNCHANGED <<segView, view>>

\* The segment counter's atomic_add(count, acq_rel): the warp releases its
\* rows into it and acquires those of the warps that were there before.
CountRows(r, s, w) ==
  /\ segDone' = [segDone EXCEPT ![r][s] = @ + count[r][w]]
  /\ segView' = [segView EXCEPT ![r][s] = @ \cup view[r][w]]
  /\ view' = [view EXCEPT ![r][w] = @ \cup segView[r][s]]

CompletesAtOnce(r, s, w) == TRUE

\* old + count == seg_size
Completes(r, s, w) == segDone[r][s] + count[r][w] = SegSize(r, s)

\* _flush_segment: at a segment boundary or the end of the list.  The warp
\* that completes the segment owes the destination its release.
FlushSegment(r, w) ==
  LET s == curSeg[r][w]
  IN  /\ PublishSegment
      /\ wpc[r][w] = "copy"
      /\ count[r][w] > 0
      /\ HasRow(r, w) => Plan[r][nxt[r][w]].seg # s
      /\ CountRows(r, s, w)
      /\ count' = [count EXCEPT ![r][w] = 0]
      /\ wpc' = [wpc EXCEPT ![r][w] =
                   IF Completes(r, s, w) THEN "arrive" ELSE "copy"]
      /\ UNCHANGED <<gen, nxt, curSeg, recv, flags, flagView, gemmVars>>

\* ExpertArrivalSemaphore.arrive: a release/sys add on the peer's flag.
Arrive(r, w, d, e, n) ==
  /\ flags' = [flags EXCEPT ![d][e] = @ + n]
  /\ flagView' = [flagView EXCEPT ![d][e] = @ \cup view[r][w]]
  /\ wpc' = [wpc EXCEPT ![r][w] = "copy"]

ArriveSegment(r, w) ==
  LET s == curSeg[r][w]
  IN  /\ PublishSegment
      /\ wpc[r][w] = "arrive"
      /\ Arrive(r, w, SegDst(r, s), SegExpert(s), SegSize(r, s))
      /\ UNCHANGED <<gen, nxt, curSeg, count, view, segDone, segView, recv, gemmVars>>

ArriveToken(r, w) ==
  LET p == Plan[r][nxt[r][w]]
  IN  /\ ~PublishSegment
      /\ wpc[r][w] = "arrive"
      /\ Arrive(r, w, p.dst, p.expert, 1)
      /\ nxt' = [nxt EXCEPT ![r][w] = @ + TotalWarps(r)]
      /\ UNCHANGED <<gen, curSeg, count, view, segDone, segView, recv, gemmVars>>

WarpStep(r, w) ==
  \/ CopyRow(r, w)
  \/ FlushSegment(r, w)
  \/ ArriveSegment(r, w)
  \/ ArriveToken(r, w)

-----------------------------------------------------------------------------
(* The AB-load warp of GEMM CTA c on rank d. *)

TotalCtas(d) == NCtas[d][gen[d]]

\* The poll's exit condition: arrived >= target, the length of the batch.
GateOpenAtFirst(d, e) == LenM(d, e) > 0 => flags[d][e] > 0
GateOpen(d, e) == flags[d][e] >= LenM(d, e)

\* wait_warp: the batch is new to this CTA; acquire-poll its flag until every
\* row of the batch is announced.
GemmWait(d, c) ==
  \E e \in Expert :
    /\ InBatch(d, tile[d][c], e)
    /\ ready[d][c] # e
    /\ GateOpen(d, e)
    /\ ready' = [ready EXCEPT ![d][c] = e]
    /\ gview' = [gview EXCEPT ![d][c] = @ \cup flagView[d][e]]
    /\ UNCHANGED <<gen, warpVars, recv, flags, flagView, tile, racy>>

\* The row's copy of this iteration is ordered before the read, and no later
\* iteration has overwritten it.
ReadsFresh(d, c, s) ==
  /\ recv[d][s] = gen[d]
  /\ \E x \in gview[d][c] : Send(x).dst = d /\ Send(x).slot = s

\* TMA loads of the work tile, then on to the CTA's next tile.
GemmLoad(d, c) ==
  \E e \in Expert :
    /\ InBatch(d, tile[d][c], e)
    /\ ready[d][c] = e
    /\ racy' = [racy EXCEPT ![d] =
                  @ \cup {s \in TileRows(d, e, tile[d][c]) : ~ReadsFresh(d, c, s)}]
    /\ tile' = [tile EXCEPT ![d][c] = @ + TotalCtas(d)]
    /\ UNCHANGED <<gen, warpVars, recv, flags, flagView, ready, gview>>

CtaStep(d, c) == c <= TotalCtas(d) /\ (GemmWait(d, c) \/ GemmLoad(d, c))

-----------------------------------------------------------------------------
WarpsInit ==
  /\ nxt = [r \in Rank |-> [w \in Warp |-> FirstRow(w)]]
  /\ wpc = [r \in Rank |-> [w \in Warp |-> "copy"]]
  /\ curSeg = [r \in Rank |-> [w \in Warp |-> -1]]
  /\ count = [r \in Rank |-> [w \in Warp |-> 0]]
  /\ view = [r \in Rank |-> [w \in Warp |-> {}]]
  /\ segDone = [r \in Rank |-> [s \in Seg |-> 0]]
  /\ segView = [r \in Rank |-> [s \in Seg |-> {}]]

GemmInit ==
  /\ tile = [d \in Rank |-> [c \in Cta |-> c - 1]]
  /\ ready = [d \in Rank |-> [c \in Cta |-> -1]]
  /\ gview = [d \in Rank |-> [c \in Cta |-> {}]]
  /\ racy = [d \in Rank |-> {}]

Init ==
  /\ gen = [r \in Rank |-> 1]
  /\ WarpsInit
  /\ recv = [d \in Rank |-> [s \in Row |-> 0]]
  /\ flags = [d \in Rank |-> [e \in Expert |-> 0]]
  /\ flagView = [d \in Rank |-> [e \in Expert |-> {}]]
  /\ GemmInit

Next ==
  \/ \E r \in Rank, w \in Warp : WarpStep(r, w)
  \/ \E d \in Rank, c \in Cta : CtaStep(d, c)

Spec == Init /\ [][Next]_vars

(***************************************************************************)
(* Every launched warp and CTA keeps running: warps of a resident CTA are  *)
(* scheduled by the hardware, and TilePipe's launch discipline makes the   *)
(* dispatch CTAs resident before the GEMM starts (run_overlapped).         *)
(***************************************************************************)
Fairness ==
  /\ \A r \in Rank, w \in Warp : WF_vars(WarpStep(r, w))
  /\ \A d \in Rank, c \in Cta : WF_vars(CtaStep(d, c))

FairSpec == Spec /\ Fairness

-----------------------------------------------------------------------------
TypeOK ==
  /\ gen \in [Rank -> Launch]
  /\ nxt \in [Rank -> [Warp -> Nat \ {0}]]
  /\ wpc \in [Rank -> [Warp -> {"copy", "arrive"}]]
  /\ curSeg \in [Rank -> [Warp -> Seg \cup {-1}]]
  /\ count \in [Rank -> [Warp -> Nat]]
  /\ \A r \in Rank, w \in Warp : curSeg[r][w] = -1 => count[r][w] = 0
  /\ view \in [Rank -> [Warp -> SUBSET Entry]]
  /\ segDone \in [Rank -> [Seg -> Nat]]
  /\ segView \in [Rank -> [Seg -> SUBSET Entry]]
  /\ recv \in [Rank -> [Row -> Nat]]
  /\ flags \in [Rank -> [Expert -> Nat]]
  /\ flagView \in [Rank -> [Expert -> SUBSET Entry]]
  /\ tile \in [Rank -> [Cta -> Nat]]
  /\ ready \in [Rank -> [Cta -> Expert \cup {-1}]]
  /\ gview \in [Rank -> [Cta -> SUBSET Entry]]
  /\ racy \in [Rank -> SUBSET Row]

WarpDone(r, w) == wpc[r][w] = "copy" /\ count[r][w] = 0 /\ ~HasRow(r, w)
GemmDone(d) == \A c \in 1 .. TotalCtas(d) : tile[d][c] >= TileBase[d][EPR]

(***************************************************************************)
(* The promise of the gate: the GEMM never reads a row that is not there.  *)
(* Every read is ordered after the copy of that row, whichever warp of     *)
(* whichever rank made it and whichever warp announced it.                 *)
(***************************************************************************)
NoRacyRead == \A d \in Rank : racy[d] = {}

(***************************************************************************)
(* A flag announces only rows that are there: a counter never exceeds the  *)
(* rows released into it, and so never its target.                         *)
(***************************************************************************)
FlagsCountReleasedRows ==
  \A d \in Rank, e \in Expert :
    flags[d][e] = Cardinality(flagView[d][e] \cap ExpertEntries(d, e))

(***************************************************************************)
(* The run ends: each GEMM gets through all its tiles, on all ranks, and   *)
(* the protocol check of TilePipe.__init__ holds: the flags are exactly    *)
(* the split sizes -- no segment was lost between the warps that share it  *)
(* and none was announced twice.                                           *)
(***************************************************************************)
AllTilesComputed ==
  <>[](\A d \in Rank : GemmDone(d) /\ \A e \in Expert : flags[d][e] = LenM(d, e))

(***************************************************************************)
(* The iteration implements the arrival semaphore's promise: rows become   *)
(* readable once, and a CTA works on a batch only when it is complete.     *)
(***************************************************************************)
Batches == Rank \X Expert
BatchRows == [b \in Batches |-> ExpertEntries(b[1], b[2])]
ArrivedRows == [b \in Batches |-> flagView[b[1]][b[2]] \cap ExpertEntries(b[1], b[2])]
HeldBatch == [x \in Rank \X Cta |-> IF ready[x[1]][x[2]] = -1 THEN {}
                                    ELSE {<<x[1], ready[x[1]][x[2]]>>}]

Arrival == INSTANCE ExpertArrival WITH
  Batch <- Batches, Members <- BatchRows, Reader <- Rank \X Cta,
  arrived <- ArrivedRows, held <- HeldBatch

ImplementsArrival == Arrival!Spec

-----------------------------------------------------------------------------
(* The inductive invariant behind the properties above, rank by rank: the    *)
(* iterations (TilePipeRounds) rest on the same parts.                       *)

\* List positions of warp w in a grid of n warps.
Owned(n, w, i) == w <= n /\ \E k \in 0 .. i : i = w + k * n

\* Position i of warp w is behind the warp, its copy done.
Passed(r, w, i) ==
  \/ i < nxt[r][w]
  \/ i = nxt[r][w] /\ ~PublishSegment /\ wpc[r][w] = "arrive"

\* The row has been copied in the iteration that its sender is in.
Copied(x) == recv[Send(x).dst][Send(x).slot] >= gen[x[1]]

\* A dispatch warp only ever sees rows of its own rank's list, copied ones.
ViewsOK(r) ==
  /\ \A w \in Warp : \A x \in view[r][w] : x[1] = r /\ Copied(x)
  /\ \A s \in Seg : \A x \in segView[r][s] : x[1] = r /\ Copied(x)

\* A warp copies its positions in order, and nobody sees one before that.
OrderOK(r) ==
  /\ \A w \in Warp : w <= TotalWarps(r) => Owned(TotalWarps(r), w, nxt[r][w])
  /\ \A v, w \in Warp : \A x \in view[r][v] :
       Owned(TotalWarps(r), w, x[2]) => Passed(r, w, x[2])
  /\ \A s \in Seg, w \in Warp : \A x \in segView[r][s] :
       Owned(TotalWarps(r), w, x[2]) => Passed(r, w, x[2])

\* Rows the warp has copied but not yet counted.
Pending(r, w) == {x \in view[r][w] : x \notin segView[r][Send(x).seg]}
Counted(r, s) == segView[r][s] \cap SegEntries(r, s)
Published(d, e) == flagView[d][e] \cap ExpertEntries(d, e)

\* Each copied row waits in one warp, whose count is the number of such rows.
PendingOK(r, w) ==
  /\ count[r][w] = Cardinality(Pending(r, w))
  /\ \A x \in Pending(r, w) : Send(x).seg = curSeg[r][w]
  /\ \A v \in Warp \ {w} : Pending(r, w) \cap view[r][v] = {}

\* Each row is counted once.
CountedOK(r, s) ==
  /\ segDone[r][s] = Cardinality(Counted(r, s))
  /\ \A x \in segView[r][s] : x \in segView[r][Send(x).seg]

\* The warp that owes a release sees the whole segment, and is alone with it.
ArriveOK(r, w) ==
  LET s == curSeg[r][w]
  IN  /\ s \in Seg
      /\ count[r][w] = 0
      /\ SegEntries(r, s) # {}
      /\ SegEntries(r, s) \subseteq view[r][w] \cap segView[r][s]
      /\ \A v \in Warp \ {w} : wpc[r][v] = "arrive" => curSeg[r][v] # s

\* Segment mode: a full segment is owed by one warp.
SegmentOK(r) ==
  PublishSegment =>
    /\ \A w \in Warp : PendingOK(r, w)
    /\ \A s \in Seg : CountedOK(r, s)
    /\ \A w \in Warp : wpc[r][w] = "arrive" => ArriveOK(r, w)

\* Token mode: a warp sees only its own rows, and the one that it owes.
TokenOK(r) ==
  ~PublishSegment =>
    \A w \in Warp :
      /\ \A x \in view[r][w] : Owned(TotalWarps(r), w, x[2])
      /\ wpc[r][w] = "arrive" => HasRow(r, w) /\ <<r, nxt[r][w]>> \in view[r][w]

\* The dispatch of rank r is consistent with its send list.
ListOK(r) == ViewsOK(r) /\ OrderOK(r) /\ SegmentOK(r) /\ TokenOK(r)

\* The sender is through with the row: its segment is complete and no warp
\* owes it any more, or the row lies behind its warp.
Announced(x) ==
  IF PublishSegment
    THEN /\ SegEntries(x[1], Send(x).seg) \subseteq segView[x[1]][Send(x).seg]
         /\ \A w \in Warp :
              ~(wpc[x[1]][w] = "arrive" /\ curSeg[x[1]][w] = Send(x).seg)
    ELSE \A w \in Warp : Owned(TotalWarps(x[1]), w, x[2]) => x[2] < nxt[x[1]][w]

\* Rank d sees in its flags only those rows of r that r is through with.
PublishedFrom(r, d) ==
  \A e \in Expert : \A x \in Published(d, e) : x[1] = r => Announced(x)

\* Token mode: a warp announces each row before it copies the next.
ShownOK(r, d) ==
  ~PublishSegment =>
    \A w \in Warp : \A x \in view[r][w] :
      Send(x).dst = d /\ x[2] # nxt[r][w] => x \in flagView[d][Send(x).expert]

\* What is in a flag has been copied, and nothing is copied ahead of time.
RowsCopied ==
  /\ \A d \in Rank, s \in Row : \E r \in Rank : recv[d][s] <= gen[r]
  /\ \A d \in Rank, e \in Expert : \A x \in flagView[d][e] : Copied(x)

\* A batch the CTA has waited for is completely in its view, copied.
GateInv ==
  \A d \in Rank, c \in Cta :
    /\ \A e \in Expert : ready[d][c] = e => ExpertEntries(d, e) \subseteq gview[d][c]
    /\ \A x \in gview[d][c] : recv[Send(x).dst][Send(x).slot] >= gen[d]

\* The state the theorems are proved from.
IInv ==
  /\ \A r \in Rank : gen[r] = 1
  /\ \A r \in Rank : ListOK(r)
  /\ \A r, d \in Rank : PublishedFrom(r, d) /\ ShownOK(r, d)
  /\ RowsCopied
  /\ FlagsCountReleasedRows
  /\ GateInv
  /\ NoRacyRead
=============================================================================
