# A verification project for QuACK and TilePipe

QuACK is a library of CuTe-DSL GPU kernels; TilePipe adds an expert-parallel MoE
pipeline to it in which ranks push token rows straight into each other's GEMM
inputs. What is hard to test here are the protocols (counters that announce data
written by other warps, rings of asynchronously filled stages, parity bits as the
only clock, a file cache and a process pool under crashes) and the choices a host
makes far from where they bite (configurations, cache keys, what a backward saves).
This directory models them in TLA+, checks the models with TLC and proves the
safety of the central protocols with TLAPS.

`PROJECT.json` lists components, runs, mutants, hazards, findings, theorems and,
for every definition, the source lines it stands for.

## Inventory

| Component (source, under `src/`) | State | Operations | What is hard | What makes it correct |
|---|---|---|---|---|
| Metadata builders (`quack/tilepipe.py` 247-463) | send and push lists, cu_seqlens, tile offsets, gate and flag indices | one pure function per array | each rank computes its arrays alone and relies on those of the others | rows fill buffers exactly, push reverses dispatch, one flag space |
| Dispatch kernel and gated GEMM (`tilepipe.py` 71-193, `tilepipe_sync.py`, gate in `gemm_sm100.py` 1093-1106) | `seg_done`, expert flags, receive buffer, warp-local counts | copy row, flush segment, arrive, wait, load | many warps share a segment, one announces for all; release/acquire chains over two GPUs | no read races with the copy of its row; flags reach exactly their target; the run ends |
| TilePipe's life (`tilepipe.py` 596-876, `examples/distributed/tilepipe.py`) | flags kept between iterations, streams, SMs, one host program per rank | warm up, reset, barrier, launch, place, synchronize | a rank may be ahead; a spinning GEMM may hold the SMs the dispatch needs | iterations do not mix; nobody starves whom it waits for |
| Varlen all-to-all (`examples/distributed/moe_comm.py`) | SMEM ring, write window, pending segment | load, push, recycle, deferred publish, drain, tail | two asynchronous engines, `wait_group` speaks of all but the last n | a flag never beats its data; no stage is reused while read |
| Tile publish and gated combine (`gemm_sm100.py` 1622-1793, `moe_comm.py` CombineTmaKernel, `tilepipe_gemm_combine.py`) | tile counters on every rank, one pending tile per CTA, SMEM ring | store groups, deferred publish, gate, pull, add | overhanging clusters; a rank zeroes flags that peers still bump | only finished rows of this iteration are combined |
| Pingpong GEMM (`gemm_sm90.py`, `gemm_base.py`, `pipeline.py`) | A/B, C, D and scheduler rings, named barriers, private pipeline states | load, mma, epilogue, skip the other's tile | two warp groups share rings and move their states by whole tiles | nobody reads or overwrites the other's buffer; the CTA ends |
| SM100 GEMM (`gemm_sm100.py`, `copy_utils.py`) | rings of A/B, indices, C, accumulators, work tiles; tensor memory | schedule, prefetch indices, load, gather, relay, multiply, read out, free | six kinds of warps in one or two CTAs, a different set per variant | each stage is read while it holds its tile; no arrival at an exited CTA; the warps end |
| Tile schedulers (`tile_scheduler.py`) | work index, semaphore, cached batch prefix | place, fetch, delinearize | swizzles, prefix votes over ragged batches, a semaphore that resets by wrapping | each tile exactly once, also in the next launch |
| Configurations (`gemm_config.py`, `gemm_sm90/100/120.py`, `gemm_base.py`, `epi_ops.py`) | none | enumerate, prune, derive stages and storage | sizes are counted in one place and laid out in another | what is left fits the device |
| GEMM interface and epilogues (`gemm_interface.py`, `gemm_act.py`, `gemm_dact.py`, `gemm_symmetric.py`, `gemm_sq_reduce.py`, `gemm_norm_act.py`, `gemm_default_epi.py`) | output memory | one function per operation | swap_ab, concatenated halves, empty operands, in-place accumulation | the result of the reference function |
| Autograd layers (`linear.py`, `mlp.py`, `linear_cross_entropy.py`) | saved tensors, `weight.grad` | forward, backward, engine steps | fused accumulation, shared buffers, several passes | the gradients of the plain layers |
| Compile-only pass (`gemm_interface.py` fakes, `gemm_tvm_ffi_utils.py`, `cache/compile_only.py`) | the set of compiled keys | run on fakes, run for real | fakes repeat by hand what a call does | what is launched was compiled, for arguments that fit |
| Kernel cache (`cache/jit.py`) | object file, flock, in-memory cache | lookup, load, compile and export, fallback | N processes on a cold key; partial files, timeouts, crashes | one compile; no read of a half-written file; every call ends |
| Precompile pool (`autotuner.py`, `_compile_worker.py`) | events, failures, pipes, worker processes | spawn, send, read replies, wait, warm, shut down | crashes at any point, bounded pipes, a parent that dies | every wait ends, nothing is timed cold, no worker is left behind |
| Row reductions (`reduce.py`, `reduction_base.py`, kernels of `rmsnorm.py`, `softmax.py`, `cross_entropy.py`, `rmsnorm_config.py`) | reduction buffers, mbarriers, load slots | cut, load, reduce, exchange, store, exit | peers write into each other's buffers; ladders of configurations; ends of rows | each column and row once; the right operands; no peer is missed |
| Top-k (`topk.py`, `sort/`) | values with their columns in the low bits | encode, sort, merge, split, decode, scatter | ties, signs, lanes | the k largest and where they are |
| Row functions (autograd parts of the same files) | saved tensors, gradients | forward, backward | what is saved depends on what needs a gradient | every gradient that is asked for is complete |
| Not modelled (see below) | | | | |

How they interact. `jit_cache` compiles every kernel; the autotuner calls it in
worker processes through pipes; the compile-only pass fills it from fakes. The
builders turn the gathered routing into the arrays that the dispatch kernel, the
gated GEMM, the tile publish and the all-to-all read. Dispatch and GEMM meet in the
expert flags, GEMM and combine in the tile counters; both are words in symmetric
memory that peers write. The GEMM's warps meet in shared-memory barriers, hosts
only in barriers and collectives. Autograd layers are sequences of interface calls,
an interface call is a configuration and a kernel, a kernel walks the tiles of a
scheduler.

## Modules

Parameters are constants. A module whose run covers several situations takes the
set of them as a constant (`Shapes`, `Kernels`, `Environments`, `Circumstances`,
`Rows`, `Calls`) and Init picks a member that never changes; a run is then one
state graph over all of them.

**TilePipeRouting, TilePipePlans.** One operator per builder: counts and prefix
sums, `SendList`, `CombineFlag`, `PushList`. `TilePipePlans` lets the ranks build
their plans (`BuildPlans`) from one gathered routing and relates the arrays of
*different* ranks.

**ExpertArrival, TilePipeDispatch.** `ExpertArrival` is what the arrival semaphore
promises: rows arrive at a batch once, a reader takes a batch when it is complete.
`TilePipeDispatch` is the code: `CopyRow`, `FlushSegment` (the acq_rel add),
`ArriveSegment`/`ArriveToken` (the release on the peer's flag), `GemmWait` (the
acquire poll, skipped when `ready_batch_idx` is unchanged), `GemmLoad`. Memory
order is explicit: each counter carries the set of row copies released into it and
each warp its view; a read of a row that is not in the reader's view is recorded in
`racy`. `ImplementsArrival` is the refinement (`arrived` is what is visible through
a flag, `held` the batch of `ready_batch_idx`).

**TilePipeRounds** extends it with the constructor (flags pre-satisfied for the warm-up
GEMM, validation), the kinds of iterations of the example's loop, and the GPU: kernels
on streams, `Place` and `Retire` as the block scheduler (external), a CTA that keeps its
SM while it spins. An iteration says how the SMs are shared: `commSms` CTAs dispatch,
and the GEMM of `run_overlapped` has at most `MaxClusters` CTAs, those left over and the
oversubscription; the other launches have no limit. `gen` numbers iterations, so stale
rows count as missing. A host that leaves `synchronize` meets the others if the
iteration ends in a collective and goes `Onward` otherwise.

**VarlenAllToAll.** The SIMT and the bulk-copy kernel. In the latter producer and
consumer of each worker and two asynchronous engines: a push reads its stage at
some later time and completes at another; the consumer waits, pushes, recycles
behind `wait_group(1, read)`, keeps a window and a pending segment, drains, and
publishes the tail.

**GemmTilePublish, TilePipeCombine.** A CTA stores a tile as groups that complete
in any order; the pending tile is published when the groups of the next one have
been waited for. `TilePipeCombine` runs this GEMM beside the gated combine, whose
producer gates a token and streams chunks through a ring, with the hosts' reset,
barrier and launches.

**PingpongGemm, GemmSm100.** Stages carry the item they hold, a barrier is its
phase bit, and a wait passes unless that phase is current, so being a lap off is
expressible. In the first, two warp groups own a copy of all states and move them
with `AdvanceIters` over the other's tiles. In the second every role is an actor
(`SchedStep`, `LoadStep`, `IndexStep`, `CLoadStep`, `MmaStep`, `EpiStep`), a cp.async
gather lands later (`LandGather`), and the second CTA's MMA warp relays its half.

**TileScheduler, GemmConfig, GemmHost.** `GemmConfig` has the candidates, the
pruning, what each kernel class accepts, and its stages, storage, registers and
tensor-memory columns. `GemmHost` turns a configuration and a call into a scheduler
(`Scheduled`), `TileScheduler` runs its clusters: `FetchStatic`, `FetchDynamic` (the
semaphore, kept between launches), `Cancel` (CLC).

**GemmReference, GemmInterface, LinearAutograd.** Matrices of small integers.
`GemmReference` has the `*_ref` functions, `GemmInterface` the code tile by tile: the
arguments of the kernel under swap_ab and concat_layout, each epilogue, the
shortcuts for empty operands. `LinearAutograd` turns each autograd function into a
sequence of such calls; the engine (external) runs the graphs of one `backward()` in
reverse and accumulates into `weight.grad`.

**GemmPrecompile.** A call as records of arguments, from the public function through
its custom op or its fake to the key it compiles for, the fakes it compiles with
and the arguments it launches with.

**JitCache, PrecompilePool.** One key, several processes, one action per step of the
wrapper that another process can observe; the file is absent, partial or whole. The
pool: main thread, a reader per worker, workers with watchdogs, bounded pipes.
`MCTuning` extends both, so names that would collide carry the prefix Jit.

**ClusterReduce, RowKernels, TopK, RowFunctions.** `ClusterReduce` has the warps of a
cluster, their reduction buffers and mbarriers with pending counts, bytes and
parity, st.async that lands later, and the load ring of the persistent backward.
`RowKernels` has the geometry: a sum is the number of columns in it and whether it is
a number. `TopK` sorts integers whose low bits carry
their column: each lane sorts its chunks and merges them into `winners` one at a time
(`SelectLocal`), and the lanes merge in butterfly rounds. `RowFunctions` says of each tensor and gradient what is in it.

**MC modules** give the constants their values; `MCTilePipeCombine`, `MCTuning`, `MCGemm`
and `MCRows` put several modules into one state graph, where a variable chosen in
Init says whose behaviour it is and the others stay idle. Plans that are written out
are compared with what `TilePipeRouting` builds from a routing by an assumption.

## Runs

| Run | What it shows |
|---|---|
| `dispatch` | One overlapped iteration in both publish modes; three warps share segments, one is flushed in parts, an expert is empty, tiles are ragged. Safety, refinement, termination. |
| `rounds` | A TilePipe from its constructor through a warm-up on fewer SMs, validation, pure GEMM, dispatch-only, serial, hard-partitioned and oversubscribed iterations on two ranks with two SMs each. |
| `all_to_all` | Two workers of each backend in the three ways they are launched. Three segments end within one write window, one is shared. |
| `combine` | Over 720 routings of two ranks the arrays built apart agree; the publishing GEMM alone, with shared row blocks and clusters that hang over both edges; GEMM and combine overlapped in one and two iterations. |
| `tuning` | Three processes racing on a key, without and with faults; the pool with crashes at any point, a raising and a hanging config, a dying parent. |
| `pingpong` | Zero to four tiles of zero to five k tiles over three A/B stages, two C and D buffers for three subtiles. |
| `sm100` | Seven kernel variants of one and two CTAs. |
| `gemm` | The GEMM library: configurations and schedulers; calls and training loops against their references; the compile-only pass. |
| `rows` | Cluster reductions, kernel geometries, top-k rows, autograd functions. |
| `pool_stray_print`, `rows_nan`, `topk_signs` | Violated: see Findings. |

All runs but `gemm` use `CHECK_DEADLOCK FALSE` because the programs end. That they end
*well* is the liveness property of the run: `AllTilesComputed`, `AllRoundsEnd`,
`AllRowsPushed`, `CombineEnds`, `EveryCallEnds`, `WaitsEnd`, `NoOrphans`,
`AllTilesStored`, `CtasEnd`, `KernelsEnd`. In `gemm` an ended behaviour repeats its
last step.

### Bounds and why they suffice

- Two ranks: with two the direction of the segment rotation does not show, but what
  depends on it is proved for any number. The dispatch run has three warps, because what
  it explores is warps of one segment. Tiles of several rows make ragged and empty tiles;
  two tokens on a row block make shared ones.
- Two SMs and a GEMM of two tiles, hence of one or two CTAs: the least in which a GEMM can
  fill a GPU, and in which a hard partition leaves each side one SM. Dispatches have one
  or two CTAs, oversubscribed GEMMs as many as the GPU has SMs.
- Two stages, a window of two and two workers are the least the all-to-all allows.
- Three A/B stages with up to five k tiles cover no, one and two crossings in one
  `advance_iters`; three subtiles over two buffers shift the parity from tile to tile;
  four tiles wrap two scheduler slots twice. `sm100` uses two of everything.
- Schedulers: grids of up to five by five tiles with every swizzle and raster order;
  `Window` = 3 batches per vote (31 lanes in the code); three launches, because a
  semaphore that wraps at the wrong index goes unnoticed until the third.
- Matrices of a few rows and columns over residues of seven, `Junk` = 1000 as the
  content of uninitialised memory, `MaxZeroes` one call of `zero_grad`.
- Row kernels: widths at the steps of the ladders and between them, five rows, so that
  the last tile is partial; vectors as the widest tensor allows, that is of eight for
  16-bit softmax, cross entropy and norms with a 16-bit weight, of four for the others. Clusters of up to three CTAs with two warps.
- Top-k: rows of up to 256 columns, one to 32 lanes, k up to 16.
- `maxCalls`, `maxCrashes`, the pipe lengths and the number of configs bound what the
  code does not bound.

### Fairness

Weak fairness of each warp, CTA, thread, process, host and transfer engine, never of
a choice between their alternatives. A resident warp is scheduled; that it becomes
resident is modelled in `rounds`, and assumed in `dispatch` and `combine`. A compile
ends only for processes outside `stuck` (configs outside `hang`). No fairness is
assumed of crashes, timeouts or the death of the parent.

## What is proved

Each proof module extends the module it is about and proves its theorems for every
value of the constants that satisfies the named assumptions.

| Module | Theorem | Statement |
|---|---|---|
| `TilePipePlansProofs` | `PlansBuilt` | `PlansSpec => []PlansInv` |
| | `Layout` | `PlansSpec => []RecvLayoutExact` |
| | `CombineReverses` | `PlansSpec => []CombineReversesDispatch` |
| | `PlansFitDispatch` | `PlanAssumption` of `TilePipeDispatch`, of the builders' lists |
| `TilePipeDispatchProofs` | `TypeCorrect` | `Spec => []TypeOK` |
| | `Invariance` | `Spec => []IInv`, the inductive invariant |
| | `GateSafe` | `Spec => []NoRacyRead` |
| | `FlagsSafe` | `Spec => []FlagsCountReleasedRows` |
| | `Implementation` | `Spec => ImplementsArrival` |
| `TilePipeRoundsProofs` | `RoundsInvariance` | `RoundsSpec => [](RoundsTypeOK /\ RoundsInv)` |
| | `RoundsTypeCorrect` | `RoundsSpec => []RoundsTypeOK` |
| | `RoundsGateSafe` | `RoundsSpec => []NoRacyRead` |
| | `RoundsFlagsSafe` | `RoundsSpec => []FlagsCountThisIteration` |
| `TilePipeCombineProofs` | `CombineInvariance` | `CombineSpec => [](CombineTypeOK /\ CombineInv)` |
| | `CombineTypeCorrect` | `CombineSpec => []CombineTypeOK` |
| | `CombineReadsFinishedRows` | `CombineSpec => []CombinesFinishedRows` |
| | `CombineFlagsExact` | `CombineSpec => []FlagsExactAfterWarmUp` |
| `VarlenAllToAllProofs` | `MemoryInvariance`, `CountingInvariance` | `Spec => []MemoryInv`, `Spec => []CountingInv` |
| | `PushesAreOwn` | `Spec => []PushesOwnRow` |
| | `FlagsNeverBeatData` | `Spec => []FlagNeverBeatsData` |
| `TuningProofs` | `PoolInvariance` | `Spec => []PoolInv` |
| | `NeverBenchedCold` | `Spec => []NoColdBench` |
| | `JitInvariance` | `JitSpec => [](JitTypeOK /\ LockInv /\ ColdInv)` |
| | `NobodyReadsAnExport` | `JitSpec => []NoReadDuringExport` |
| | `OneOfManyCompiles` | `JitSpec => []OneCompile` |
| `PingpongGemmProofs` | `PingpongInvariance` | `Spec => [](TypeOK /\ PingpongInv)` |
| | `PingpongTypeCorrect` | `Spec => []TypeOK` |
| | `PingpongOwnTile` | `Spec => []MmaReadsOwnTile` |
| | `PingpongEpilogueSafe` | `Spec => []EpilogueBuffersSafe` |
| `ClusterReduceProofs` | `ExchangeIsOrdered` | `Spec => []ExchangeInv` |
| | `ReceiversArePresent` | `Spec => []PeersAreThere` |
| | `RingIsOrdered` | `Spec => [](ExchangeInv /\ LoadInv)` |
| | `RowsAreRead` | `Spec => []ReadsWholeRow` |

### Dispatch and gate

For any number of ranks, experts, warps, CTAs and tile rows and any plan that
satisfies `PlanAssumption`. That is what the builders promise: a segment id decodes to
the expert and destination of each of its rows, and the rows sent to an expert fill
its span without sharing a slot. `PlansFitDispatch` proves it of them.

`NoRacyRead` is not inductive: why does a warp that sees the full count hold *every*
row of the segment in view? Three facts close the gap.

1. *A row waits in one place.* In segment mode a copied row is either pending in
   exactly one warp, whose `count` is the number of such rows, or released into
   `segView` of its segment, whose `seg_done` is the number of those
   (`PendingOK`, `CountedOK`). So `old + count = seg_size` means, by cardinality,
   that `segView` together with the warp's own rows is the whole segment; and the
   acquire half of the add has put it in the warp's view.
2. *One announcer.* A warp that owes the release sees the full segment and is the
   only one for it (`ArriveOK`). A flag has only rows that their sender is through
   with (`PublishedFrom`, `Announced`), so none of the segment that is still owed; the
   flag therefore grows by exactly the rows it newly holds (`FlagsCountReleasedRows`).
   In token mode each row is announced by its warp before the next copy (`TokenOK`,
   `ShownOK`).
3. *A full flag is a full view.* `arrived >= target` with the previous fact
   gives that all rows of the batch are in the flag's view, and the acquire moves
   them to the reader (`GateInv`). `ViewsOK` and `RowsCopied` say that a row in anyone's
   view was copied, `OrderOK` that positions are copied once, in order, each by its
   own warp.

The parts speak of one rank (`ListOK`) or of a sender and a receiver, so that the
iterations can rest on them while other ranks are elsewhere. Each action has a lemma
that it keeps the invariant; the copy, flush and arrive actions are split further into
an effect lemma (what they do to views and counts) and one step per conjunct. `InvStep`
collects them, and the temporal theorems follow by PTL. `Implementation` maps every step
to `Announce`, `Take` or a stutter.

### Iterations

For any number of ranks, experts, SMs and warps, any plan and any program of iterations
that satisfies `RoundsAssumption` and `ProgramAssumption`. The first ties the grids to
the program and to nothing else: iteration by iteration any number of dispatch CTAs (so
`num_comm_sms` and `warmup_comm_sms` may differ, 754-774), any oversubscription
including none, and on each rank a GEMM of one CTA (none cannot be launched) up to its
limit (848-869), so the grids may differ between ranks too. `run_serial` dispatches from
all SMs. The second: the warm-up whose flags are pre-satisfied is the constructor's and
comes first (`tilepipe.py` 755-767), and a gated iteration follows one that had a
collective behind it, was gated itself, or dispatched nothing (`CleanEnd`). The
example's loops are of this form: each call of `time_iters` repeats one kind of
iteration and ends in an `all_reduce` (`examples/distributed/tilepipe.py` 155-175).
Within a loop of dispatch-only iterations nothing keeps a rank from zeroing its flags
while a peer still adds to them; the assumption says that nobody gates on those.

`FlagsCountThisIteration` needs to know, when rank d zeroes its flags, that no peer
will still add to them for the *previous* iteration, though hosts meet only in the
barrier of the next one. `AheadOK` says that a rank is at most one iteration ahead, and
then only of ranks that wait in the barrier (or have yet to begin the warm-up, which has
none). `BehindOK` is the core: if d's flags are to be counted on (`Fresh`), a rank r that has not
begun the iteration they are zeroed for has announced all it had for d (`Silent`), and d
has seen nothing of it. Why is it silent? Either all ended the iteration in a
collective (`MeetingOK`); or there was no dispatch; or d's GEMM was gated and has ended,
so it has taken every tile (`EndedOK`), each behind a full flag (`WaitedOK`, `TilesOK`:
a CTA walks its tiles in strides of the grid, and each batch with a row has a tile), and
a full flag holds all rows of *every* sender. From then on flags count what is
published into them (`CountOK`, `FlagsOK`), and the argument of the previous section
applies: rows copied in this iteration carry its number (`Copied`), which makes
`NoRacyRead` a statement about this iteration. `LaunchOK` ties both to the GPU: a CTA is
enqueued, resident or done, and when a host has synchronized none is left.

`RoundsInv` is a conjunction over ranks and pairs of ranks, and each action has a lemma
for the parts it touches. The proof found an overlap in an earlier form of the model: an
iteration that is the last one and ends in a collective must still enter it.

### Metadata builders

For any number of ranks and experts, any top-k, tile size and routing in which the ranks
have equally many tokens. The state is little (`PlansInv`: what is planned is what the
builders make of the routing); the proof is about arithmetic. Prefix sums are monotone and
cut what they sum up to into the shares of their terms (`SumMonotone`, `SumLocates`), by
induction (`Reaches`); members of a finite set in a strict order are numbered without a gap
(`Ranking`), so sorting lists each once (`SortedLists`); and a map that ascends without a
gap *is* the numbering (`CountedByMap`). A slot is its expert's span, plus the ranks before,
plus the place among the rank's own choices (`SlotParts`). So slots ascend with expert,
rank and token (`SlotsAscend`), differ and leave none out (`SlotsDiffer`, `SlotsFill`):
this is `RecvLayoutExact`. The push list walks its rows in the same order, hence its row
i is slot i (`PushOrders`), the split sizes it recomputes are those of the receiver
(`ListSplits`), and its gates are the flags of the home ranks (`PushEntries`, `GateFacts`,
`GatesAscend`, `Offsets`), which is `CombineReversesDispatch`.

### Tile publish and combine

For any number of ranks, experts, clusters of any shape, store groups, combine CTAs,
chunks, stages, consumer threads and iterations and any routing, under
`PublishAssumption` and `CombineAssumption`. The latter admits a GEMM without a combine
for one launch only: where nobody waits for the tiles, nothing keeps late announcements
out of the next iteration.

First, which tiles there are. A worker's strides cover every item once (`Shares`), so
the CTAs of the clusters, with the overhang cut off by `InRange`, compute each n-tile of
each row block exactly once (`BlockTiles`: `tilesOf[x]` has `NTiles` members), and offsets
give each block a flag of its own (`FlagFacts`). An awaited flag is that of the block its
row lies in, and every row of a token's gate is pulled from it.

A CTA announces a tile one tile late, on a count of groups: `CtaOK` says that all groups of
the tiles up to `Latest` are complete, because those of the next tile, exactly `EpiTiles`,
are all that `wait_group` leaves open. So a flag that equals the number of announced
tiles (`CountOK`) and has reached `NTiles` covers all of them, by cardinality
(`StoredWhenAwaited`).

`CountOK` cannot hold of every flag. A rank whose combine and GEMM have ended zeroes its
flags while a peer's GEMM still announces tiles into them, and those bumps stay. `Epoch`
is the iteration a rank's flags are for, and `Relied` names the flags for which the count
is right: all in the first iteration, later those of the blocks that the rank pulls from
(`Pulled`). Why are these safe? The rank has ended its combine, so it passed the gates of
all its tokens (`RingOK`, `GatesOK`), each flag behind them was full, and a full flag means
that all tiles of the block have been announced to this rank. `SettledOK` keeps that
until the barrier, where `AheadOK` takes over: nobody is more than one iteration ahead, and
then only of ranks that wait.

`RingOK` is the ring: items are issued in order and at most `stages` ahead of the slowest
thread, so the newest item that has landed in a stage is in it. The distance of two items that share a stage is
at least `stages` (`x % stages`). `FlagsExactAfterWarmUp` follows from `CountOK` with
`HostOK`: when all ranks are behind the first iteration, every CTA has announced its last tile.

### All-to-all

For any list, segments, flags, number of workers, ring and window, both backends and
the three launches, under `AllToAllAssumption`. `PushesOwnRow` needs to know where a row
can be: `RingInv` says that a row of a worker is, in this order, not loaded, loaded but
not pushed, pushed but not read, read, and that the row one ring later is loaded only
when `released` says this one was read; `PlaceInv` ties `released` to the place of the
consumer behind its `wait_group`. That needs the distance of two rows that share a stage
(`x % Stages`), the only arithmetic of the proof. In the push-combine `GateInv` keeps what
the producer polled.

`FlagNeverBeatsData` counts. `CountInv` says which rows of a worker are counted on
`segDone` and which it still keeps (its open segment and the pending one that waits for
a drain); `SegInv` that `segDone` is the number of rows counted by all, all in the
segment's view, and that only the worker that completed a segment owes its release;
`FlagInv` that a flag is the number of rows of its announced segments. The bound of the
property is an inequality because the drain for one segment may cover rows of the next,
which are then in the order of the release before they are counted. `DoneInv` carries
completeness through every view: a pending segment is counted only behind the
`wait_group` of the drain.

### Pingpong GEMM

For any number of A/B, C and D stages and subtiles, two or more scheduler slots (the code
gives 2 in pingpong mode, `gemm_sm90.py` 341), with and without varlen_k, and any tiles of
any lengths, those without a k tile included. Nothing in the kernel counts: a pipeline
state is an index and a bit, and each warp group skips the other's tiles by advancing its
state over k tiles it never saw.

The invariant numbers what goes through a ring. k tile i of tile t is item
`Before(t) + i`, where `Before` is the size of the set of all earlier items; a pipeline
state is *at* a place (`At`: the place modulo the stages, the lap's parity). `WgOK` and
`LoadOK` say that every state is at the place that the tiles and k tiles passed so far
give, which is what `advance_iters` has to get right (`AdvanceAt`). `TurnOK` is the order of the two warp
groups: whoever holds the turn of the mainloop, or is in it, multiplies the next tile, the
other one the tile behind it, likewise for the epilogues; so k tiles are issued in the order
in which they are loaded, although two warp groups issue them.

`AbOK` speaks of all items: one that is a full ring older than the newest load is released,
and the stage of each of the newest `ABStages` holds it, in its lap, released or not
(`StageOK`). A parity bit can only mistake a lap for the second next one, and that is what
these two parts exclude: a wait on item p passes for this lap, because the load of the
next lap is behind the release of p. An item is free when its tile is behind the owner
or the wgmma after it has been waited for (`IsFree`), so the handover of the mainloop
before the last wgmma is complete needs no further argument: the stage stays
taken until `drain`. `SchedOK` counts the reads that a slot still misses, of both warp groups
(with varlen_k) or of the owner of the tile alone, and of the load warp; one slot would not
do: without varlen_k a warp group skips the write for the other's tile, which would put it a lap
ahead, where its wait passes on the untouched bit (TLC finds this, hence the assumption).

`COK` is the ring of C, which the epilogues use in turns; its places are numbered without a
sum, since every tile has `EpiTiles` subtiles. `StoresOK` says of the bulk stores in flight that
they are those of the last subtiles of the tile in its epilogue, each in the buffer of its
number, and that a warp group holds none outside its epilogue: each waits for its own groups
only, so the buffers can be handed over only when `StoreTail` has waited for all.

### Precompile pool

For any configs, workers, pipe lengths, crashes, hanging and raising compiles, deaths of
the parent and prints on the reply channel: a foreign message costs the pool its progress
(the first finding), never this safety property. The invariant is about order: a worker
answers in the order of its tasks, its reader attributes by counting, and nothing in a
message says which config it is about. `WorkInv` and `ReplyInv` say that the whole
replies in a worker's pipe, with the one its reader holds and the task it is at, are
those of the next configs its reader expects; a torn or foreign message ends what is
known, as it ends the reader. `SettleInv` says that whatever a reader gave up is a
failure. Hence `events \subseteq failures \cup built`, and main, which tests
`is_failed` after the wait, times nothing that was neither built nor compiled by itself.

### Kernel cache

For any processes and environments. `LockInv` says that a lock is held exactly in the
places where the code holds it, exclusively or by readers alone. `ColdInv` says, as long
as nothing fails, how far the only compile has come from the state of the file; a
second one is impossible because whoever gets the lock later re-checks a whole file.

### Cluster reductions

For any number of CTAs, warps, load slots and tiles and every shape that
`ReduceAssumption` allows: forward kernels with one or two passes, the backward with any
work and with loads by TMA, by `cp.async` or not modelled. No counter says which round a barrier is in: a phase bit tells
neighbouring rounds apart, so a warp must never be two rounds ahead. `ExchangeInv` counts:
`Got` and `Freed` are the warps whose value, or whose arrival that frees the stage, of a
round has come. Of each stage one round is `Open`, those before it are complete and none
behind it has begun (`PutInv`, `ReadInv`), which is what makes the bit (`FullInv`,
`EmptyInv`) sufficient: the wait that passes is the one for the round the warp is at. The
only hole is the first lap, whose empty stages nobody waits for, and the tail, where
`DoneInv` lets a warp end only behind all arrivals of the last rounds; from this follows
`PeersAreThere`. In a single CTA the two stages are kept apart by the block barrier alone
(`LockStep`).

`LoadInv` does the same for the operand ring of the backward kernel, filled by the warp
itself (`cp.async`) or by one for all (TMA, with a full barrier and consumer releases per
slot): `AheadInv` bounds how far loads run ahead of the warps they are for, `LeftInv` says
which of them have left a slot, `DataInv` and `OperandInv` what it holds from its landing
to its next load. `ScratchInv` says that the memory is reused at the end only when all
warps of the CTA are there.

### Only model-checked

- Liveness (`AllTilesComputed`, `AllRoundsEnd`, `AllRowsPushed`, `CombineEnds`,
  `EveryCallEnds`, `WaitsEnd`, `NoOrphans`, `AllTilesStored`, `CtasEnd`, `KernelsEnd`): liveness
  under fairness is beyond the prover.
- What is computed from data: `TopKExact`, `CallsMatchReference`, `TrainingMatchesReference`,
  `RowsReducedOnce`, `ConfigFits`, `ArgumentsFit`, `PhaseTwoHits`, `GradientsComplete`. The
  functions are folds over sequences, which the prover sees no inside of, or tables whose
  cases are the instances that TLC enumerates. `TileScheduler` declares a RECURSIVE operator, which closes it and
  the modules above it to the prover; no other module does.
- `StagesReadOwnTile`, `NoArrivalAfterExit` of `GemmSm100`: the numbering of `PingpongGemm` would
  carry over to its A/B ring; its accumulator stages and the epilogue warps need their own.
  Not attempted.

## Findings

Three runs show code that disagrees with what the repository says of it:

1. *Prints on the reply channel* (`pool_stray_print`). A worker's stdout is the pipe of
   its length-prefixed replies and `jit_cache` prints to stdout.
2. *A part of a row behind its end* (`rows_nan`). `online_softmax_reduce` subtracts the
   maximum of its warp; where all columns of a warp or CTA lie behind the row's end it
   is -inf and the sum NaN. With bf16 on SM90 and SM100 this is so for the multiples of
   eight in 65544-73472, 81928-87808, 98312-102144, 114696-116480, 131080-155392 (a
   vocabulary of 151936), 163848-186112, 196616-216832, 229384-247552 and 262152-278272,
   and from 294920 on, in softmax and in cross_entropy without its gradient; on SM12x for
   the first four ranges.
3. *The sign of another winner* (`topk_signs`). `topk.py:166` reads `topk_vals[i]` where
   the loop is over this lane's winners; with winners of both signs and several lanes
   the indices are wrong.

Others met while modelling, which the inputs of the passing runs leave out:

- `linear.py:34`: with fused accumulation and an input that needs no gradient the weight
  is not saved and the backward fails.
- `gemm_interface.py:1933`: the fake of `gemm_symmetric` omits `is_dynamic_persistent`, so
  on SM100 and later its kernel is compiled again; line 1920 says it "cannot drift".
  With `dynamic_scheduler=True` a pointer goes to a kernel compiled without a semaphore.
- `mlp.py:303`: `recompute=True` drops the biases in inference. The gated linear function
  with concat_layout returns its bias gradient interleaved.
- Empty k: `gemm_dact` zeroes the postactivation; `gemm_act`, `gemm_norm_act` and `gemm_rms`
  ignore bias or C; `_empty_k_matmul_into` adds a batched bias along the rows.
- The autotuner's fallback benchmarks on the caller's tensors, so an in-place
  accumulation tuned on the fly accumulates more than once. Candidates are tagged
  8, 9, 10 and 12 only: capability 11 is left with none. SM80's gated candidates
  include swap_ab without exchanging the names of the concatenated halves, and
  its dynamic scheduler is refused (`gemm.py:237`).
- Some SM100 tiles with a gather over varlen_k, bias and C overflow shared memory by
  1 KB; on SM120 epilogues with four-byte C and D get no A/B stage.
- `rmsnorm.py:1392`: whether a backward is needed ignores the residual; with `prenorm` and no
  residual the gradient of the returned stream is lost; a bias without a weight fails.
  `cross_entropy` takes a fake of the weight from the width of `lse_partial`. The
  backwards of softmax and top-k refuse an expanded gradient.
- fp32 RMSNorm with a residual at N 28680-32768 (57352-65536 in clusters of two, and so
  on), and its backward on SM12x at N
  12296-24568 (bf16), 6152-12280 (fp32), do not fit into shared memory; TMA is used
  although only the tile's row, not the tensor's, is a multiple of 16 bytes.

## Assumptions about code outside the repository

- `producer_tail` of the CUTLASS store pipeline is taken to wait for the writes of
  the stores in `GemmTilePublish` (a wait for the SMEM reads alone would let the
  last tile's flag lead its data) and for their reads in `PingpongGemm`, which
  needs no more.
- Barriers have the parity semantics of `mbarrier.try_wait`; a phase is taken by its
  low bit, as the instruction does. In `VarlenAllToAll` and `TilePipeCombine` a ring is
  abstracted to its full and empty conditions.
- `TilePipeRounds`: a free SM goes to the pending CTA of the stream of highest priority;
  a first launch of a module waits for what runs. `TileScheduler`: CLC hands out
  pending clusters in order.
- The autograd engine runs nodes in reverse order and adds up what they return;
  library tile shapes and shared-memory capacities are those of CUTLASS.
- `dist.barrier`, `flock` and pipes behave as documented; a crash releases the
  `flock` and closes the pipes.

## Not modelled

- Payload: rows, tiles and subtiles are names. Vector copies, lanes and swizzled
  layouts are one location each; warps of one warp group are one actor.
- Floating point: `GemmInterface` computes over integers with relu_sq and reglu,
  `RowKernels` counts columns, `TopK` has finite values without a negative zero (an
  infinite one loses its column: its index bits make it a NaN). Rounding, block
  scaling and the other activations are absent.
- `GemmSm100`: PDL, multicast, register reallocation; an MMA is atomic. `PingpongGemm`: the
  cooperative mode, multicast, gather, `fp8_slow_accum`. SM80 and SM120 main loops.
- `GemmConfig`: SM80, block-scaled operands, nvMatmulHeuristics. `GemmPrecompile`: shapes that
  disagree, `gemm_symmetric` on SM100 and later and with a dynamic scheduler, gated
  activations on SM80, traces, tile flags. `RowKernels`: alignment padding in shared
  memory. `TopK`: networks of 32 and 64 and the optional softmax.
- The pool's pipes are bounded so that the share of one surviving worker just fits.
  With more configs than the pipes hold, the parent blocks in its sends before any
  reader runs; the source states the assumption (`autotuner.py` 437-440). The timing
  itself and its disk cache are left out.
- The ungated combine and the dense dispatch of `moe_comm.py` repeat the protocols of
  the modelled kernels without their gates; the example drivers' reference checks and
  expert placement; layouts, copies, tracing, rotary and Hadamard kernels, the
  dynamic-loader shims and the test plugin are sequential, generated or pure I/O.

## Plan

Modelled and checked: everything in the inventory. Left, in this order:

1. Proofs: the rings of `GemmSm100`, numbered like those of `PingpongGemm`.
2. `GemmTilePublish` shown to implement an arrival promise like `ExpertArrival`.
3. The context managers of compile-only mode, the autotuner's disk cache.
