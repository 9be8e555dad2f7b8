--------------------------- MODULE VarlenAllToAll ---------------------------
(***************************************************************************)
(* The varlen all-to-all on one source rank (examples/distributed/         *)
(* moe_comm.py) with its two backends, which take the same arguments.      *)
(* Each worker owns a contiguous block of the list.  In the SIMT backend   *)
(* it is one warp that copies the rows and announces finished segments.    *)
(* In the bulk-copy backend (VarlenAllToAllKernel) it is a producer thread *)
(* that streams the rows into a ring of SMEM stages, and a consumer thread *)
(* that pushes the staged rows and announces finished segments.            *)
(*                                                                         *)
(* The bulk copies are asynchronous.  A load (G2S) fills its stage some    *)
(* time after it was issued; a push (S2G) reads its stage some time after  *)
(* it was issued and is complete at the destination later still, in any    *)
(* order with its neighbours.  The consumer learns of either only by   *)
(* cp.async.bulk.wait_group, which speaks of all pushes but the last n.    *)
(* PipelineTmaAsync is abstracted to its full and empty conditions.        *)
(***************************************************************************)
EXTENDS Integers, Sequences, FiniteSets

CONSTANTS W,           \* world_size
          EPR,         \* experts per rank
          NWorkers,    \* workers of the grid (num_ctas * WORKERS)
          Stages,      \* SMEM stages of one worker (NUM_STAGES // WORKERS)
          Window,      \* WRITE_WINDOW
          GateTarget,  \* gate_target
          Launches     \* the argument lists the kernel may be launched with

Rank   == 0 .. W - 1
Expert == 0 .. EPR - 1
Seg    == 0 .. EPR * W - 1
Worker == 1 .. NWorkers

ASSUME AllToAllAssumption ==
  /\ {W, EPR, NWorkers, Stages, Window, GateTarget} \subseteq Nat \ {0}
  /\ \A l \in Launches :
       /\ l.rank \in Rank
       /\ l.list \in Seq([seg : Seg, gate : Nat])
       /\ l.publishes \in BOOLEAN /\ l.gated \in BOOLEAN
       /\ l.impl \in {"simt", "tma"}

\* "each worker needs >=2 stages": a stage is released one row late.
ASSUME StagesAssumption == Stages >= 2

VARIABLES launch   \* the arguments of this launch

R         == launch.rank        \* local_rank
List      == launch.list        \* the rows to push: segment and gate index
Publishes == launch.publishes   \* flag_peer_ptrs is given
Gated     == launch.gated       \* gate_flags are given (push-combine)
Simt      == launch.impl = "simt"

RowIdx == DOMAIN List
Gate   == {List[x].gate : x \in RowIdx}

\* Rows and gate indices of any launch.
AnyRow  == UNION {DOMAIN l.list : l \in Launches}
AnyGate == UNION {{l.list[x].gate : x \in DOMAIN l.list} : l \in Launches}

SegRows(s) == {x \in RowIdx : List[x].seg = s}
SegSize(s) == Cardinality(SegRows(s))

\* The counter a finished segment is announced on.
Flag == Rank \X Expert
FlagOf(s) == IF Gated THEN <<s % W, 0>> ELSE <<((s % W) + R) % W, s \div W>>
FlagRows(f) == {x \in RowIdx : FlagOf(List[x].seg) = f}

-----------------------------------------------------------------------------
(* The block of a worker: rows First(w) .. Last(w) of the list. *)

PerWorker == (Len(List) + NWorkers - 1) \div NWorkers
First(w) == (w - 1) * PerWorker + 1
Last(w) == IF w * PerWorker <= Len(List) THEN w * PerWorker ELSE Len(List)
Block(w) == First(w) .. Last(w)
StageOf(w, x) == (x - First(w)) % Stages

VARIABLES
  loadRow,   \* loadRow[w]: the next row the producer issues
  lastGate,  \* last_gate of the producer, -1 before its first poll
  stage,     \* stage[w][k]: the row in a stage, 0 empty, -1 being overwritten
  landed,    \* rows whose load has filled its stage
  released,  \* released[w]: the next row whose stage the consumer releases
  row,       \* row[w]: the row the consumer is at
  cpc,       \* "wait", "recycle", "window" of the loop body, "tail", "end"
  curSeg, count, pendSeg, pendCount, pendRow,  \* locals of the consumer
  owes,      \* owes[w]: segment the worker has to announce, -1 if none
  got,       \* got[x]: what the push of row x read, 0 before
  done,      \* rows whose push is complete at the destination
  view,      \* view[w]: rows ordered before the consumer's next release
  segDone, segView,    \* seg_done, and the rows released into it
  flags, flagView,     \* the peers' flags, and the rows released into them
  tiles      \* tiles[g]: the local GEMM's tile counters

producerVars == <<loadRow, lastGate>>
segVars == <<curSeg, count, pendSeg, pendCount, pendRow>>
syncVars == <<owes, view, segDone, segView, flags, flagView>>
vars == <<launch, producerVars, stage, landed, released, row, cpc, segVars, got, done,
          syncVars, tiles>>

Init ==
  /\ launch \in Launches
  /\ loadRow = [w \in Worker |-> First(w)]
  /\ lastGate = [w \in Worker |-> -1]
  /\ stage = [w \in Worker |-> [k \in 0 .. Stages - 1 |-> 0]]
  /\ landed = {}
  /\ released = [w \in Worker |-> First(w)]
  /\ row = [w \in Worker |-> First(w)]
  /\ cpc = [w \in Worker |-> "wait"]
  /\ curSeg = [w \in Worker |-> -1]
  /\ count = [w \in Worker |-> 0]
  /\ pendSeg = [w \in Worker |-> -1]
  /\ pendCount = [w \in Worker |-> 0]
  /\ pendRow = [w \in Worker |-> 0]
  /\ owes = [w \in Worker |-> -1]
  /\ got = [x \in RowIdx |-> 0]
  /\ done = {}
  /\ view = [w \in Worker |-> {}]
  /\ segDone = [s \in Seg |-> 0]
  /\ segView = [s \in Seg |-> {}]
  /\ flags = [f \in Flag |-> 0]
  /\ flagView = [f \in Flag |-> {}]
  /\ tiles = [g \in Gate |-> 0]

-----------------------------------------------------------------------------
(* The producer thread and the memory system behind it. *)

\* poll: once per change of the gate index.
ProducerGate(w) ==
  LET g == List[loadRow[w]].gate
  IN  /\ Gated
      /\ loadRow[w] \in Block(w)
      /\ g # lastGate[w]
      /\ tiles[g] >= GateTarget
      /\ lastGate' = [lastGate EXCEPT ![w] = g]
      /\ UNCHANGED <<launch, loadRow, stage, landed, released, row, cpc, segVars, got,
                     done, syncVars, tiles>>

StageFreeEarly(w, x) == x <= released[w] + Stages

\* The stage's previous row, Stages rows before x, has been released.
StageFree(w, x) == x < released[w] + Stages

\* producer_acquire, the load, producer_commit, advance.
ProducerLoad(w) ==
  LET x == loadRow[w]
  IN  /\ x \in Block(w)
      /\ Gated => List[x].gate = lastGate[w]
      /\ StageFree(w, x)
      /\ stage' = [stage EXCEPT ![w][StageOf(w, x)] = -1]
      /\ loadRow' = [loadRow EXCEPT ![w] = x + 1]
      /\ UNCHANGED <<launch, lastGate, landed, released, row, cpc, segVars, got, done,
                     syncVars, tiles>>

LoadLands(w, x) ==
  /\ x \in Block(w)
  /\ x < loadRow[w]
  /\ x \notin landed
  /\ landed' = landed \cup {x}
  /\ stage' = [stage EXCEPT ![w][StageOf(w, x)] = x]
  /\ UNCHANGED <<launch, producerVars, released, row, cpc, segVars, got, done, syncVars, tiles>>

Issued(w, x) ==
  \/ x < row[w]
  \/ x = row[w] /\ cpc[w] \in {"recycle", "window"}

\* The push of row x reads its stage ...
PushReads(w, x) ==
  /\ x \in Block(w)
  /\ Issued(w, x)
  /\ got[x] = 0
  /\ got' = [got EXCEPT ![x] = stage[w][StageOf(w, x)]]
  /\ UNCHANGED <<launch, producerVars, stage, landed, released, row, cpc, segVars, done,
                 syncVars, tiles>>

\* ... and completes.
PushCompletes(x) ==
  /\ x \in RowIdx
  /\ got[x] # 0
  /\ x \notin done
  /\ done' = done \cup {x}
  /\ UNCHANGED <<launch, producerVars, stage, landed, released, row, cpc, segVars, got,
                 syncVars, tiles>>

\* The local GEMM finishes a tile (publish_tile_flag).
TilePublished(g) ==
  /\ Gated
  /\ g \in Gate
  /\ tiles[g] < GateTarget
  /\ tiles' = [tiles EXCEPT ![g] = @ + 1]
  /\ UNCHANGED <<launch, producerVars, stage, landed, released, row, cpc, segVars, got,
                 done, syncVars>>

-----------------------------------------------------------------------------
(* The consumer thread. *)

\* wait_group(n), n pushes after row x: the rows up to x - n are complete.
UpTo(w, x) == {y \in Block(w) : y <= x}
WaitedFor(w, rows) == rows \subseteq done

\* _publish_segment behind fence.proxy.async: the rows that the wait has
\* covered are ordered before the acq_rel add; the worker that completes the
\* segment owes the destination its release.
Publish(w, s, n, rows) ==
  /\ segDone' = [segDone EXCEPT ![s] = @ + n]
  /\ segView' = [segView EXCEPT ![s] = @ \cup view[w] \cup rows]
  /\ view' = [view EXCEPT ![w] = @ \cup rows \cup segView[s]]
  /\ owes' = [owes EXCEPT ![w] = IF segDone[s] + n = SegSize(s) THEN s ELSE -1]

Arrive(w) ==
  LET f == FlagOf(owes[w])
  IN  /\ owes[w] # -1
      /\ flags' = [flags EXCEPT ![f] = @ + SegSize(owes[w])]
      /\ flagView' = [flagView EXCEPT ![f] = @ \cup view[w]]
      /\ owes' = [owes EXCEPT ![w] = -1]
      /\ UNCHANGED <<launch, producerVars, stage, landed, released, row, cpc, segVars, got,
                     done, view, segDone, segView, tiles>>

\* consumer_wait: row x is staged, the previous publish is over.
Staged(w) == owes[w] = -1 /\ cpc[w] = "wait" /\ row[w] \in Block(w) /\ row[w] \in landed

\* A segment boundary with rows of the old segment behind it.
Boundary(w) == Publishes /\ List[row[w]].seg # curSeg[w] /\ count[w] > 0

NeverDrains(w) == FALSE
\* The segment before is not published yet.
MustDrain(w) == pendSeg[w] # -1

\* Two boundaries inside one window: wait for everything, publish the first.
HardDrain(w) ==
  /\ Staged(w) /\ Boundary(w) /\ MustDrain(w)
  /\ WaitedFor(w, UpTo(w, row[w] - 1))
  /\ Publish(w, pendSeg[w], pendCount[w], UpTo(w, row[w] - 1))
  /\ pendSeg' = [pendSeg EXCEPT ![w] = -1]
  /\ UNCHANGED <<launch, producerVars, stage, landed, released, row, cpc, curSeg, count,
                 pendCount, pendRow, got, done, flags, flagView, tiles>>

\* Note the boundary and issue the push of the row.
PushRow(w) ==
  /\ Staged(w)
  /\ IF Boundary(w)
       THEN /\ ~MustDrain(w)
            /\ pendSeg' = [pendSeg EXCEPT ![w] = curSeg[w]]
            /\ pendCount' = [pendCount EXCEPT ![w] = count[w]]
            /\ pendRow' = [pendRow EXCEPT ![w] = row[w] - 1]
       ELSE UNCHANGED <<pendSeg, pendCount, pendRow>>
  /\ IF Publishes /\ List[row[w]].seg # curSeg[w]
       THEN /\ curSeg' = [curSeg EXCEPT ![w] = List[row[w]].seg]
            /\ count' = [count EXCEPT ![w] = 0]
       ELSE UNCHANGED <<curSeg, count>>
  /\ cpc' = [cpc EXCEPT ![w] = "recycle"]
  /\ UNCHANGED <<launch, producerVars, stage, landed, released, row, got, done, syncVars, tiles>>

\* wait_group(1, read=True): all pushes but the last have read their stage.
ReadsBehind(w) == UpTo(w, row[w] - 1)

\* if i >= 1: the row before is released, the last row of a block never.
Releases(w) == row[w] > First(w)

Recycle(w) ==
  /\ cpc[w] = "recycle"
  /\ \A x \in ReadsBehind(w) : got[x] # 0
  /\ released' = [released EXCEPT ![w] = IF Releases(w) THEN @ + 1 ELSE @]
  /\ cpc' = [cpc EXCEPT ![w] = "window"]
  /\ UNCHANGED <<launch, producerVars, stage, landed, row, segVars, got, done, syncVars, tiles>>

WatermarkPassedEarly(w) == pendRow[w] <= row[w] - Window + 1
\* pend_row <= i - WWIN
WatermarkPassed(w) == pendRow[w] <= row[w] - Window

\* wait_group(WWIN), the publish behind the watermark, count, advance.
AdvanceWindow(w) ==
  LET rows == UpTo(w, row[w] - Window)
  IN  /\ cpc[w] = "window"
      /\ WaitedFor(w, rows)
      /\ IF Publishes /\ pendSeg[w] # -1 /\ WatermarkPassed(w)
           THEN /\ Publish(w, pendSeg[w], pendCount[w], rows)
                /\ pendSeg' = [pendSeg EXCEPT ![w] = -1]
           ELSE UNCHANGED <<pendSeg, view, segDone, segView, owes>>
      /\ count' = [count EXCEPT ![w] = IF Publishes THEN @ + 1 ELSE @]
      /\ row' = [row EXCEPT ![w] = @ + 1]
      /\ cpc' = [cpc EXCEPT ![w] = "wait"]
      /\ UNCHANGED <<launch, producerVars, stage, landed, released, curSeg, pendCount,
                     pendRow, got, done, flags, flagView, tiles>>

\* Behind the loop: drain, publish the pending segment and then the last one.
DrainTail(w) ==
  /\ owes[w] = -1
  /\ cpc[w] = "wait" /\ row[w] \notin Block(w)
  /\ WaitedFor(w, Block(w))
  /\ IF pendSeg[w] # -1
       THEN Publish(w, pendSeg[w], pendCount[w], Block(w))
       ELSE UNCHANGED <<owes, view, segDone, segView>>
  /\ cpc' = [cpc EXCEPT ![w] = "tail"]
  /\ UNCHANGED <<launch, producerVars, stage, landed, released, row, segVars, got, done,
                 flags, flagView, tiles>>

FinishTail(w) ==
  /\ owes[w] = -1
  /\ cpc[w] = "tail"
  /\ IF count[w] > 0
       THEN Publish(w, curSeg[w], count[w], Block(w))
       ELSE UNCHANGED <<owes, view, segDone, segView>>
  /\ cpc' = [cpc EXCEPT ![w] = "end"]
  /\ UNCHANGED <<launch, producerVars, stage, landed, released, row, segVars, got, done,
                 flags, flagView, tiles>>

-----------------------------------------------------------------------------
(* The SIMT backend: a warp polls, reads and stores by itself.  The stores  *)
(* of its lanes complete on their own; sync_warp is what the publishing     *)
(* lane knows of them.                                                      *)

\* The warp is at row[w], its last publish is over.
AtRow(w) == owes[w] = -1 /\ cpc[w] = "wait" /\ row[w] \in Block(w)

\* Lane 0 polls when the gate index changes, sync_warp hands it on.
SimtGate(w) ==
  LET g == List[row[w]].gate
  IN  /\ AtRow(w)
      /\ Gated
      /\ g # lastGate[w]
      /\ tiles[g] >= GateTarget
      /\ lastGate' = [lastGate EXCEPT ![w] = g]
      /\ UNCHANGED <<launch, loadRow, stage, landed, released, row, cpc, segVars, got,
                     done, syncVars, tiles>>

GateKnown(w) == Gated => List[row[w]].gate = lastGate[w]

\* sync_warp: the stores that all lanes have made so far.
SyncWarp(w) == UpTo(w, row[w] - 1)

\* _flush_segment_warp at a segment boundary.
SimtFlush(w) ==
  /\ AtRow(w) /\ GateKnown(w)
  /\ Boundary(w)
  /\ WaitedFor(w, SyncWarp(w))
  /\ Publish(w, curSeg[w], count[w], SyncWarp(w))
  /\ curSeg' = [curSeg EXCEPT ![w] = List[row[w]].seg]
  /\ count' = [count EXCEPT ![w] = 0]
  /\ UNCHANGED <<launch, producerVars, stage, landed, released, row, cpc, pendSeg,
                 pendCount, pendRow, got, done, flags, flagView, tiles>>

\* The row is read and its stores are issued.
SimtPush(w) ==
  LET x == row[w]
  IN  /\ AtRow(w) /\ GateKnown(w)
      /\ ~Boundary(w)
      /\ got' = [got EXCEPT ![x] = x]
      /\ row' = [row EXCEPT ![w] = x + 1]
      /\ IF Publishes
           THEN /\ curSeg' = [curSeg EXCEPT ![w] = List[x].seg]
                /\ count' = [count EXCEPT ![w] = @ + 1]
           ELSE UNCHANGED <<curSeg, count>>
      /\ UNCHANGED <<launch, producerVars, stage, landed, released, cpc, pendSeg,
                     pendCount, pendRow, done, syncVars, tiles>>

\* Behind the loop: the last segment.
SimtTail(w) ==
  /\ owes[w] = -1
  /\ cpc[w] = "wait" /\ row[w] \notin Block(w)
  /\ IF count[w] > 0
       THEN /\ WaitedFor(w, SyncWarp(w))
            /\ Publish(w, curSeg[w], count[w], SyncWarp(w))
       ELSE UNCHANGED <<owes, view, segDone, segView>>
  /\ cpc' = [cpc EXCEPT ![w] = "end"]
  /\ UNCHANGED <<launch, producerVars, stage, landed, released, row, segVars, got, done,
                 flags, flagView, tiles>>

SimtWarp(w) == SimtGate(w) \/ SimtFlush(w) \/ SimtPush(w) \/ SimtTail(w) \/ Arrive(w)

-----------------------------------------------------------------------------
Producer(w) == ProducerGate(w) \/ ProducerLoad(w)
Consumer(w) ==
  \/ Arrive(w) \/ HardDrain(w) \/ PushRow(w) \/ Recycle(w) \/ AdvanceWindow(w)
  \/ DrainTail(w) \/ FinishTail(w)

\* The threads of a worker are scheduled independently.
ProducerStep(w) == ~Simt /\ Producer(w)
ConsumerStep(w) == IF Simt THEN SimtWarp(w) ELSE Consumer(w)
WorkerStep(w) == ProducerStep(w) \/ ConsumerStep(w)

MemoryStep(x) ==
  \/ ~Simt /\ \E w \in Worker : LoadLands(w, x) \/ PushReads(w, x)
  \/ PushCompletes(x)

Next ==
  \/ \E w \in Worker : WorkerStep(w)
  \/ \E x \in AnyRow : MemoryStep(x)
  \/ \E g \in AnyGate : TilePublished(g)

Spec == Init /\ [][Next]_vars

\* Resident threads keep running, copies end, the local GEMM gets through.
Fairness ==
  /\ \A w \in Worker : WF_vars(ProducerStep(w)) /\ WF_vars(ConsumerStep(w))
  /\ \A x \in AnyRow : WF_vars(MemoryStep(x))
  /\ \A g \in AnyGate : WF_vars(TilePublished(g))

FairSpec == Spec /\ Fairness

-----------------------------------------------------------------------------
(***************************************************************************)
(* A stage is recycled on the SMEM read of its push alone: every push      *)
(* still reads the row it was issued for, never a later row of the ring    *)
(* or a stage that is being overwritten; and in the push-combine the row   *)
(* exists by then, although a worker polls once per change of the gate.    *)
(***************************************************************************)
PushesOwnRow ==
  \A x \in RowIdx :
    /\ got[x] \in {0, x}
    /\ got[x] = x /\ Gated => tiles[List[x].gate] >= GateTarget

(***************************************************************************)
(* The publish ordering of the kernel's comment: a flag never beats the    *)
(* data.  A flag counts only rows that are ordered before its releases,    *)
(* and those are complete at their destination, whichever worker pushed    *)
(* them.  (A drain for one segment may cover rows of the next, so the      *)
(* order may know of rows that are not counted yet.)                       *)
(***************************************************************************)
FlagNeverBeatsData ==
  \A f \in Flag :
    /\ flags[f] <= Cardinality(flagView[f] \cap FlagRows(f))
    /\ flagView[f] \subseteq done

(***************************************************************************)
(* Producer and consumer never wait for each other: all rows are pushed    *)
(* and all workers end, and the kernel's standalone check holds: the       *)
(* counters are exactly the rows sent, through deferred, drained and tail  *)
(* publishes alike.                                                        *)
(***************************************************************************)
AllRowsPushed ==
  <>[](/\ done = RowIdx /\ \A w \in Worker : cpc[w] = "end" /\ owes[w] = -1
       /\ \A f \in Flag : flags[f] = IF Publishes THEN Cardinality(FlagRows(f)) ELSE 0)
=============================================================================
