------------------------ MODULE VarlenAllToAllProofs ------------------------
(***************************************************************************)
(* Theorems about VarlenAllToAll, for both backends and every number of    *)
(* ranks, experts, workers and stages, every write window, and every list  *)
(* of rows: no order of its segments is assumed.                           *)
(***************************************************************************)
EXTENDS VarlenAllToAll, FiniteSetTheorems, TLAPS

-----------------------------------------------------------------------------
(* Blocks and stages. *)

\* Numbers less than a ring's length apart have different places in it.
LEMMA RingPlaces ==
  ASSUME NEW n \in Nat \ {0}, NEW a \in Nat, NEW b \in Nat, a < b, b < a + n
  PROVE  a % n # b % n
<1>1. PICK q \in Int : a = n * q + (a % n)
  <2>1. a = n * (a \div n) + (a % n) /\ a \div n \in Int
    OBVIOUS
  <2>2. QED BY <2>1
<1>2. PICK t \in Int : b = n * t + (b % n)
  <2>1. b = n * (b \div n) + (b % n) /\ b \div n \in Int
    OBVIOUS
  <2>2. QED BY <2>1
<1>3. a % n \in Int /\ b % n \in Int
  OBVIOUS
<1>4. SUFFICES ASSUME a % n = b % n PROVE FALSE
  OBVIOUS
<1>5. n * t - n * q > 0 /\ n * t - n * q < n
  BY <1>1, <1>2, <1>3, <1>4
<1>6. n * t - n * q = n * (t - q)
  OBVIOUS
<1>7. t - q >= 1 => n * (t - q) >= n
  OBVIOUS
<1>8. t - q <= 0 => n * (t - q) <= 0
  OBVIOUS
<1>9. QED
  BY <1>5, <1>6, <1>7, <1>8

\* A worker's block lies in the list, and no row is in two blocks.
LEMMA Blocks ==
  ASSUME launch \in Launches
  PROVE  /\ Len(List) \in Nat /\ RowIdx = 1 .. Len(List)
         /\ \A x \in RowIdx : /\ List[x].seg \in Seg
                            /\ List[x].gate \in Nat /\ List[x].gate \in Gate
         /\ \A w \in Worker : /\ First(w) \in Nat \ {0} /\ Last(w) \in Int
                              /\ Block(w) \subseteq RowIdx
         /\ \A v, w \in Worker : v # w => Block(v) \cap Block(w) = {}
<1>1. List \in Seq([seg : Seg, gate : Nat])
  BY AllToAllAssumption DEF List
<1>2. Len(List) \in Nat /\ RowIdx = 1 .. Len(List)
  BY <1>1 DEF RowIdx
<1>3. ASSUME NEW x \in RowIdx
      PROVE  List[x].seg \in Seg /\ List[x].gate \in Nat /\ List[x].gate \in Gate
  <2> DEFINE T == [seg : Seg, gate : Nat]
  <2>1. List[x] \in T
    <3> HIDE DEF T
    <3>1. \A q \in Seq(T) : \A i \in 1 .. Len(q) : q[i] \in T
      OBVIOUS
    <3>2. List \in Seq(T) /\ x \in 1 .. Len(List)
      BY <1>1, <1>2 DEF T
    <3>3. QED
      BY <3>1, <3>2
  <2>2. QED
    BY <2>1 DEF Gate
<1>4. NWorkers \in Nat \ {0}
  BY AllToAllAssumption
<1>5. PerWorker \in Nat
  BY <1>2, <1>4 DEF PerWorker
<1>6. \A w \in Worker : (w - 1) * PerWorker \in Nat /\ w * PerWorker \in Nat
  BY <1>4, <1>5 DEF Worker
<1>7. \A w \in Worker : First(w) \in Nat \ {0} /\ Last(w) \in Int /\ Block(w) \subseteq RowIdx
  BY <1>2, <1>6 DEF First, Last, Block
<1>8. ASSUME NEW v \in Worker, NEW w \in Worker, v < w
      PROVE  Block(v) \cap Block(w) = {}
  <2>1. v * PerWorker <= (w - 1) * PerWorker
    BY <1>4, <1>5, <1>8 DEF Worker
  <2>2. Last(v) <= v * PerWorker
    BY <1>2, <1>6 DEF Last
  <2>3. Last(v) < First(w)
    BY <1>6, <1>7, <2>1, <2>2 DEF First
  <2>4. QED
    BY <1>7, <2>3 DEF Block
<1>9. \A v, w \in Worker : v # w => v < w \/ w < v
  BY <1>4 DEF Worker
<1>10. QED
  BY <1>2, <1>3, <1>7, <1>8, <1>9

\* Rows of a block that are less than the ring's length apart are in different
\* stages.
LEMMA BlockStages ==
  ASSUME launch \in Launches, NEW w \in Worker
  PROVE  /\ \A x \in Block(w) : StageOf(w, x) \in 0 .. Stages - 1
         /\ \A x, y \in Block(w) : x < y /\ y < x + Stages => StageOf(w, x) # StageOf(w, y)
<1>1. First(w) \in Nat \ {0} /\ Last(w) \in Int /\ Stages \in Nat \ {0}
  BY Blocks, AllToAllAssumption
<1>2. \A x \in Block(w) : x - First(w) \in Nat
  BY <1>1 DEF Block
<1>3. \A x \in Block(w) : StageOf(w, x) \in 0 .. Stages - 1
  BY <1>1, <1>2 DEF StageOf
<1>4. ASSUME NEW x \in Block(w), NEW y \in Block(w), x < y, y < x + Stages
      PROVE  StageOf(w, x) # StageOf(w, y)
  <2>1. x - First(w) < y - First(w) /\ y - First(w) < (x - First(w)) + Stages
    BY <1>1, <1>4 DEF Block
  <2>2. QED
    BY <1>1, <1>2, <2>1, RingPlaces DEF StageOf
<1>5. QED
  BY <1>3, <1>4

\* Sets of rows are finite.
LEMMA RowSets ==
  ASSUME launch \in Launches
  PROVE  /\ \A S \in SUBSET RowIdx : IsFiniteSet(S) /\ Cardinality(S) \in Nat
         /\ \A s \in Seg : SegRows(s) \subseteq RowIdx /\ SegSize(s) \in Nat
<1>1. IsFiniteSet(RowIdx)
  <2>1. Len(List) \in Nat /\ RowIdx = 1 .. Len(List)
    BY Blocks
  <2>2. IsFiniteSet(1 .. Len(List))
    BY <2>1, FS_Interval
  <2>3. QED
    BY <2>1, <2>2
<1>2. \A S \in SUBSET RowIdx : IsFiniteSet(S) /\ Cardinality(S) \in Nat
  BY <1>1, FS_Subset, FS_CardinalityType
<1>3. QED
  BY <1>2 DEF SegRows, SegSize

\* What a launch is given does not change.
LEMMA Given ==
  ASSUME launch' = launch
  PROVE  /\ List' = List /\ RowIdx' = RowIdx /\ Gate' = Gate
         /\ Publishes' = Publishes /\ Gated' = Gated /\ Simt' = Simt /\ R' = R
         /\ \A w \in Worker : /\ First(w)' = First(w) /\ Last(w)' = Last(w)
                              /\ Block(w)' = Block(w)
         /\ \A s \in Seg : /\ SegRows(s)' = SegRows(s) /\ SegSize(s)' = SegSize(s)
                           /\ FlagOf(s)' = FlagOf(s)
         /\ \A f \in Flag : FlagRows(f)' = FlagRows(f)
         /\ \A w \in Worker, x \in Int : StageOf(w, x)' = StageOf(w, x)
BY DEF List, RowIdx, Gate, Publishes, Gated, Simt, R, First, Last, Block, PerWorker, SegRows,
       SegSize, FlagOf, FlagRows, StageOf

-----------------------------------------------------------------------------
(* The inductive invariant. *)

Gates == Nat \cup {-1}
SegOrNone == Seg \cup {-1}
CPlace == {"wait", "recycle", "window", "tail", "end"}

\* Types of the threads' locals, of what they share, and of the memory.
ThreadTypes ==
  /\ loadRow \in [Worker -> Nat] /\ released \in [Worker -> Nat] /\ row \in [Worker -> Nat]
  /\ count \in [Worker -> Nat] /\ pendCount \in [Worker -> Nat] /\ pendRow \in [Worker -> Nat]
  /\ curSeg \in [Worker -> SegOrNone] /\ pendSeg \in [Worker -> SegOrNone]
  /\ cpc \in [Worker -> CPlace]
  /\ lastGate \in [Worker -> Gates]

SharedTypes ==
  /\ owes \in [Worker -> SegOrNone]
  /\ view \in [Worker -> SUBSET RowIdx]
  /\ segDone \in [Seg -> Nat] /\ segView \in [Seg -> SUBSET RowIdx]
  /\ flags \in [Flag -> Nat] /\ flagView \in [Flag -> SUBSET RowIdx]

MemoryTypes ==
  /\ stage \in [Worker -> [0 .. Stages - 1 -> Int]]
  /\ got \in [RowIdx -> Int]
  /\ tiles \in [Gate -> Nat]

TypeInv == launch \in Launches /\ ThreadTypes /\ SharedTypes /\ MemoryTypes

\* The threads of worker w are in their block, each behind the one before it.
PlaceInv(w) ==
  /\ First(w) <= row[w] /\ First(w) <= loadRow[w]
  /\ row[w] = First(w) \/ row[w] - 1 \in Block(w)
  /\ cpc[w] \in {"recycle", "window"} => row[w] \in Block(w) /\ owes[w] = -1
  /\ cpc[w] \in {"tail", "end"} => row[w] \notin Block(w)
  /\ Simt => cpc[w] \in {"wait", "end"} /\ pendSeg[w] = -1
  /\ count[w] > 0 \/ (Publishes /\ cpc[w] \in {"recycle", "window"}) => curSeg[w] \in Seg
  /\ released[w] = IF Simt \/ row[w] = First(w) THEN First(w)
                   ELSE IF cpc[w] = "window" THEN row[w] ELSE row[w] - 1

\* A row is loaded, then pushed, then read; until the row one ring later is
\* loaded it stays in its stage.
RingRow(w, x) ==
  /\ x \in landed => x < loadRow[w]
  /\ ~Simt /\ Issued(w, x) => x \in landed
  /\ ~Simt /\ got[x] # 0 => Issued(w, x)
  /\ x < released[w] => got[x] # 0
  /\ x \in landed /\ loadRow[w] <= x + Stages => stage[w][StageOf(w, x)] = x
  /\ got[x] \in {0, x}

RingInv(w) ==
  /\ loadRow[w] <= released[w] + Stages
  /\ \A x \in Block(w) : RingRow(w, x)

\* Whatever a worker has passed was finished when it polled, and stays finished.
GateInv(w) ==
  Gated =>
    /\ lastGate[w] \in Gate => tiles[lastGate[w]] >= GateTarget
    /\ \A x \in Block(w) :
         x < (IF Simt THEN row[w] ELSE loadRow[w]) => tiles[List[x].gate] >= GateTarget
    /\ \A x \in Block(w) : Simt /\ got[x] # 0 => x < row[w]

\* The rows that worker w counts at the moment, and those it has counted and
\* not yet published.
CountInv(w) ==
  /\ count[w] <= row[w] - First(w)
  /\ \A x \in Block(w) : x < row[w] /\ x >= row[w] - count[w] => List[x].seg = curSeg[w]
  /\ cpc[w] \in {"recycle", "window"} => List[row[w]].seg = curSeg[w]
  /\ pendSeg[w] # -1 /\ cpc[w] \notin {"tail", "end"} =>
       /\ pendCount[w] >= 1
       /\ pendRow[w] = row[w] - count[w] - 1
       /\ pendRow[w] - pendCount[w] + 1 >= First(w)
       /\ \A x \in Block(w) : x <= pendRow[w] /\ x > pendRow[w] - pendCount[w] => List[x].seg = pendSeg[w]

\* Rows of its block before this one are counted by worker w in seg_done.
NextUncounted(w) ==
  IF cpc[w] = "end" THEN row[w]
  ELSE IF cpc[w] # "tail" /\ pendSeg[w] # -1 THEN pendRow[w] - pendCount[w] + 1
  ELSE row[w] - count[w]

Counted(s) == {x \in SegRows(s) : \E w \in Worker : x \in Block(w) /\ x < NextUncounted(w)}

\* seg_done counts exactly the rows published, all of them in its view; a worker
\* that owes the flag of a segment is the only one and has all its rows in view.
SegInv ==
  /\ \A s \in Seg : segDone[s] = Cardinality(Counted(s)) /\ Counted(s) \subseteq segView[s]
  /\ \A w \in Worker, s \in Seg : owes[w] = s =>
       /\ SegRows(s) # {} /\ Counted(s) = SegRows(s) /\ SegRows(s) \subseteq view[w]
       /\ \A v \in Worker : owes[v] = s => v = w

\* Rows of flag f in segments that are announced.
Announced(f) ==
  {x \in FlagRows(f) : /\ Counted(List[x].seg) = SegRows(List[x].seg)
                       /\ \A w \in Worker : owes[w] # List[x].seg}

\* A flag is the rows announced on it, all of them in the view of its releases.
FlagInv == \A f \in Flag : flags[f] = Cardinality(Announced(f)) /\ Announced(f) \subseteq flagView[f]

\* Whatever is ordered before a release is complete.
DoneInv ==
  /\ \A w \in Worker : view[w] \subseteq done
  /\ \A w \in Worker : cpc[w] = "tail" => Block(w) \subseteq done
  /\ \A s \in Seg : segView[s] \subseteq done
  /\ \A f \in Flag : flagView[f] \subseteq done

\* A launch without flags counts and announces nothing.
SilentInv ==
  /\ \A w \in Worker : count[w] = 0 /\ pendSeg[w] = -1 /\ owes[w] = -1
  /\ \A f \in Flag : flags[f] = 0

-----------------------------------------------------------------------------
(* Types. *)

\* The kernel starts with well-typed state.
LEMMA InitType == Init => TypeInv
<1> SUFFICES ASSUME Init PROVE TypeInv
  OBVIOUS
<1>1. \A w \in Worker : First(w) \in Nat
  BY Blocks DEF Init
<1>2. ThreadTypes
  BY <1>1 DEF Init, ThreadTypes, SegOrNone, CPlace, Gates
<1>3. SharedTypes
  BY DEF Init, SharedTypes, SegOrNone
<1>4. MemoryTypes
  BY DEF Init, MemoryTypes
<1>5. QED
  BY <1>2, <1>3, <1>4 DEF Init, TypeInv

\* A publish (_publish_segment) keeps the shared state well typed.
LEMMA PublishTypes ==
  ASSUME SharedTypes, NEW w \in Worker, NEW s \in Seg, NEW n \in Nat, NEW rows \in SUBSET RowIdx,
         Publish(w, s, n, rows)
  PROVE  /\ segDone' \in [Seg -> Nat] /\ segView' \in [Seg -> SUBSET RowIdx]
         /\ view' \in [Worker -> SUBSET RowIdx] /\ owes' \in [Worker -> SegOrNone]
BY DEF SharedTypes, Publish, SegOrNone

\* What a wait covers are rows of the list.
LEMMA UpToRows ==
  ASSUME launch \in Launches, NEW w \in Worker
  PROVE  Block(w) \in SUBSET RowIdx /\ \A x : UpTo(w, x) \in SUBSET RowIdx
BY Blocks DEF UpTo

\* Every step of a thread, of a copy or of the local GEMM keeps the types.
LEMMA TypeStep ==
  ASSUME TypeInv, \A w \in Worker : PlaceInv(w), [Next]_vars
  PROVE  TypeInv'
<1> USE DEF TypeInv
<1>0. launch' = launch => RowIdx' = RowIdx /\ Gate' = Gate
  BY Given
<1>1. launch \in Launches
  OBVIOUS
<1>2. CASE UNCHANGED vars
  BY <1>2, <1>0 DEF ThreadTypes, SharedTypes, MemoryTypes, vars, producerVars, segVars, syncVars
<1>3. ASSUME NEW w \in Worker, Arrive(w) PROVE TypeInv'
  <2>1. owes[w] \in Seg
    BY <1>3 DEF Arrive, SharedTypes, SegOrNone
  <2>2. SegSize(owes[w]) \in Nat
    BY <2>1, <1>1, RowSets
  <2>3. launch' = launch
    BY <1>3 DEF Arrive
  <2>4. ThreadTypes'
    BY <1>3, <2>1, <2>2 DEF Arrive, ThreadTypes, SegOrNone, CPlace, Gates, producerVars, segVars
  <2>5. SharedTypes'
    <3>1. RowIdx' = RowIdx
      BY <1>0, <2>3
    <3>2. flags' \in [Flag -> Nat]
      <4>1. \A f \in Flag : flags[f] + SegSize(owes[w]) \in Nat
        BY <2>2 DEF SharedTypes
      <4>2. flags' = [flags EXCEPT ![FlagOf(owes[w])] = flags[FlagOf(owes[w])] + SegSize(owes[w])]
        BY <1>3 DEF Arrive
      <4>3. flags \in [Flag -> Nat]
        BY DEF SharedTypes
      <4>4. QED
        BY <4>1, <4>2, <4>3
    <3>3. flagView' \in [Flag -> SUBSET RowIdx]
      BY <1>3 DEF Arrive, SharedTypes
    <3>4. owes' \in [Worker -> SegOrNone] /\ view' = view /\ segDone' = segDone /\ segView' = segView
      BY <1>3 DEF Arrive, SharedTypes, SegOrNone
    <3>5. QED
      BY <3>1, <3>2, <3>3, <3>4 DEF SharedTypes
  <2>6. MemoryTypes'
    BY <1>3, <2>1, <2>2, <1>0, <2>3 DEF Arrive, MemoryTypes
  <2>7. QED
    BY <2>3, <2>4, <2>5, <2>6
<1>4. ASSUME NEW w \in Worker, HardDrain(w) PROVE TypeInv'
  <2>1. pendSeg[w] \in Seg /\ pendCount[w] \in Nat
    BY <1>4 DEF HardDrain, MustDrain, ThreadTypes, SegOrNone
  <2>2. /\ segDone' \in [Seg -> Nat] /\ segView' \in [Seg -> SUBSET RowIdx]
        /\ view' \in [Worker -> SUBSET RowIdx] /\ owes' \in [Worker -> SegOrNone]
    BY <1>4, <2>1, <1>1, UpToRows, PublishTypes DEF HardDrain
  <2>3. launch' = launch
    BY <1>4 DEF HardDrain
  <2>4. ThreadTypes'
    BY <1>4, <2>1, <2>2 DEF HardDrain, ThreadTypes, SegOrNone, CPlace, Gates, producerVars, segVars
  <2>5. SharedTypes'
    BY <1>4, <2>1, <2>2, <1>0, <2>3 DEF HardDrain, SharedTypes, SegOrNone, syncVars
  <2>6. MemoryTypes'
    BY <1>4, <2>1, <2>2, <1>0, <2>3 DEF HardDrain, MemoryTypes
  <2>7. QED
    BY <2>3, <2>4, <2>5, <2>6
<1>5. ASSUME NEW w \in Worker, PushRow(w) PROVE TypeInv'
  <2>1. row[w] - 1 \in Nat /\ List[row[w]].seg \in Seg
    BY <1>1, <1>5, Blocks DEF PushRow, Staged, ThreadTypes
  <2>2. launch' = launch
    BY <1>5 DEF PushRow
  <2>3. ThreadTypes'
    BY <1>5, <2>1 DEF PushRow, ThreadTypes, SegOrNone, CPlace, Gates, producerVars, segVars
  <2>4. SharedTypes'
    BY <1>5, <2>1, <1>0, <2>2 DEF PushRow, SharedTypes, SegOrNone, syncVars
  <2>5. MemoryTypes'
    BY <1>5, <2>1, <1>0, <2>2 DEF PushRow, MemoryTypes
  <2>6. QED
    BY <2>2, <2>3, <2>4, <2>5
<1>6. ASSUME NEW w \in Worker, Recycle(w) PROVE TypeInv'
  <2>1. launch' = launch
    BY <1>6 DEF Recycle
  <2>2. ThreadTypes'
    BY <1>6 DEF Recycle, ThreadTypes, SegOrNone, CPlace, Gates, producerVars, segVars
  <2>3. SharedTypes'
    BY <1>6, <1>0, <2>1 DEF Recycle, SharedTypes, SegOrNone, syncVars
  <2>4. MemoryTypes'
    BY <1>6, <1>0, <2>1 DEF Recycle, MemoryTypes
  <2>5. QED
    BY <2>1, <2>2, <2>3, <2>4
<1>7. ASSUME NEW w \in Worker, AdvanceWindow(w) PROVE TypeInv'
  <2>1. pendSeg[w] # -1 => pendSeg[w] \in Seg /\ pendCount[w] \in Nat
    BY DEF ThreadTypes, SegOrNone
  <2>2. /\ segDone' \in [Seg -> Nat] /\ segView' \in [Seg -> SUBSET RowIdx]
        /\ view' \in [Worker -> SUBSET RowIdx] /\ owes' \in [Worker -> SegOrNone]
    BY <1>7, <2>1, <1>1, UpToRows, PublishTypes DEF AdvanceWindow, SharedTypes
  <2>3. launch' = launch
    BY <1>7 DEF AdvanceWindow
  <2>4. ThreadTypes'
    BY <1>7, <2>1, <2>2 DEF AdvanceWindow, ThreadTypes, SegOrNone, CPlace, Gates, producerVars, segVars
  <2>5. SharedTypes'
    BY <1>7, <2>1, <2>2, <1>0, <2>3 DEF AdvanceWindow, SharedTypes, SegOrNone, syncVars
  <2>6. MemoryTypes'
    BY <1>7, <2>1, <2>2, <1>0, <2>3 DEF AdvanceWindow, MemoryTypes
  <2>7. QED
    BY <2>3, <2>4, <2>5, <2>6
<1>8. ASSUME NEW w \in Worker, DrainTail(w) PROVE TypeInv'
  <2>1. pendSeg[w] # -1 => pendSeg[w] \in Seg /\ pendCount[w] \in Nat
    BY DEF ThreadTypes, SegOrNone
  <2>2. /\ segDone' \in [Seg -> Nat] /\ segView' \in [Seg -> SUBSET RowIdx]
        /\ view' \in [Worker -> SUBSET RowIdx] /\ owes' \in [Worker -> SegOrNone]
    BY <1>8, <2>1, <1>1, UpToRows, PublishTypes DEF DrainTail, SharedTypes
  <2>3. launch' = launch
    BY <1>8 DEF DrainTail
  <2>4. ThreadTypes'
    BY <1>8, <2>1, <2>2 DEF DrainTail, ThreadTypes, SegOrNone, CPlace, Gates, producerVars, segVars
  <2>5. SharedTypes'
    BY <1>8, <2>1, <2>2, <1>0, <2>3 DEF DrainTail, SharedTypes, SegOrNone, syncVars
  <2>6. MemoryTypes'
    BY <1>8, <2>1, <2>2, <1>0, <2>3 DEF DrainTail, MemoryTypes
  <2>7. QED
    BY <2>3, <2>4, <2>5, <2>6
<1>9. ASSUME NEW w \in Worker, FinishTail(w) PROVE TypeInv'
  <2>1. count[w] > 0 => curSeg[w] \in Seg /\ count[w] \in Nat
    BY DEF ThreadTypes, PlaceInv
  <2>2. /\ segDone' \in [Seg -> Nat] /\ segView' \in [Seg -> SUBSET RowIdx]
        /\ view' \in [Worker -> SUBSET RowIdx] /\ owes' \in [Worker -> SegOrNone]
    BY <1>9, <2>1, <1>1, UpToRows, PublishTypes DEF FinishTail, SharedTypes
  <2>3. launch' = launch
    BY <1>9 DEF FinishTail
  <2>4. ThreadTypes'
    BY <1>9, <2>1, <2>2 DEF FinishTail, ThreadTypes, SegOrNone, CPlace, Gates, producerVars, segVars
  <2>5. SharedTypes'
    BY <1>9, <2>1, <2>2, <1>0, <2>3 DEF FinishTail, SharedTypes, SegOrNone, syncVars
  <2>6. MemoryTypes'
    BY <1>9, <2>1, <2>2, <1>0, <2>3 DEF FinishTail, MemoryTypes
  <2>7. QED
    BY <2>3, <2>4, <2>5, <2>6
<1>10. ASSUME NEW w \in Worker, SimtGate(w) PROVE TypeInv'
  <2>1. List[row[w]].gate \in Nat
    BY <1>1, <1>10, Blocks DEF SimtGate, AtRow
  <2>2. launch' = launch
    BY <1>10 DEF SimtGate
  <2>3. ThreadTypes'
    BY <1>10, <2>1 DEF SimtGate, ThreadTypes, SegOrNone, CPlace, Gates, producerVars, segVars
  <2>4. SharedTypes'
    BY <1>10, <2>1, <1>0, <2>2 DEF SimtGate, SharedTypes, SegOrNone, syncVars
  <2>5. MemoryTypes'
    BY <1>10, <2>1, <1>0, <2>2 DEF SimtGate, MemoryTypes
  <2>6. QED
    BY <2>2, <2>3, <2>4, <2>5
<1>11. ASSUME NEW w \in Worker, SimtFlush(w) PROVE TypeInv'
  <2>1. count[w] \in Nat /\ curSeg[w] \in Seg /\ List[row[w]].seg \in Seg
    BY <1>11, <1>1, Blocks DEF SimtFlush, AtRow, Boundary, PlaceInv, ThreadTypes
  <2>2. /\ segDone' \in [Seg -> Nat] /\ segView' \in [Seg -> SUBSET RowIdx]
        /\ view' \in [Worker -> SUBSET RowIdx] /\ owes' \in [Worker -> SegOrNone]
    BY <1>11, <2>1, <1>1, UpToRows, PublishTypes DEF SimtFlush, SyncWarp
  <2>3. launch' = launch
    BY <1>11 DEF SimtFlush
  <2>4. ThreadTypes'
    BY <1>11, <2>1, <2>2 DEF SimtFlush, ThreadTypes, SegOrNone, CPlace, Gates, producerVars, segVars
  <2>5. SharedTypes'
    BY <1>11, <2>1, <2>2, <1>0, <2>3 DEF SimtFlush, SharedTypes, SegOrNone, syncVars
  <2>6. MemoryTypes'
    BY <1>11, <2>1, <2>2, <1>0, <2>3 DEF SimtFlush, MemoryTypes
  <2>7. QED
    BY <2>3, <2>4, <2>5, <2>6
<1>12. ASSUME NEW w \in Worker, SimtPush(w) PROVE TypeInv'
  <2>1. row[w] \in RowIdx /\ row[w] \in Int /\ List[row[w]].seg \in Seg
    BY <1>1, <1>12, Blocks DEF SimtPush, AtRow, ThreadTypes
  <2>2. launch' = launch
    BY <1>12 DEF SimtPush
  <2>3. ThreadTypes'
    BY <1>12, <2>1 DEF SimtPush, ThreadTypes, SegOrNone, CPlace, Gates, producerVars, segVars
  <2>4. SharedTypes'
    BY <1>12, <2>1, <1>0, <2>2 DEF SimtPush, SharedTypes, SegOrNone, syncVars
  <2>5. MemoryTypes'
    BY <1>12, <2>1, <1>0, <2>2 DEF SimtPush, MemoryTypes
  <2>6. QED
    BY <2>2, <2>3, <2>4, <2>5
<1>13. ASSUME NEW w \in Worker, SimtTail(w) PROVE TypeInv'
  <2>1. count[w] > 0 => curSeg[w] \in Seg /\ count[w] \in Nat
    BY DEF ThreadTypes, PlaceInv
  <2>2. /\ segDone' \in [Seg -> Nat] /\ segView' \in [Seg -> SUBSET RowIdx]
        /\ view' \in [Worker -> SUBSET RowIdx] /\ owes' \in [Worker -> SegOrNone]
    BY <1>13, <2>1, <1>1, UpToRows, PublishTypes DEF SimtTail, SyncWarp, SharedTypes
  <2>3. launch' = launch
    BY <1>13 DEF SimtTail
  <2>4. ThreadTypes'
    BY <1>13, <2>1, <2>2 DEF SimtTail, ThreadTypes, SegOrNone, CPlace, Gates, producerVars, segVars
  <2>5. SharedTypes'
    BY <1>13, <2>1, <2>2, <1>0, <2>3 DEF SimtTail, SharedTypes, SegOrNone, syncVars
  <2>6. MemoryTypes'
    BY <1>13, <2>1, <2>2, <1>0, <2>3 DEF SimtTail, MemoryTypes
  <2>7. QED
    BY <2>3, <2>4, <2>5, <2>6
<1>14. ASSUME NEW w \in Worker, ProducerGate(w) PROVE TypeInv'
  <2>1. List[loadRow[w]].gate \in Nat
    BY <1>1, <1>14, Blocks DEF ProducerGate
  <2>2. launch' = launch
    BY <1>14 DEF ProducerGate
  <2>3. ThreadTypes'
    BY <1>14, <2>1 DEF ProducerGate, ThreadTypes, SegOrNone, CPlace, Gates, producerVars, segVars
  <2>4. SharedTypes'
    BY <1>14, <2>1, <1>0, <2>2 DEF ProducerGate, SharedTypes, SegOrNone, syncVars
  <2>5. MemoryTypes'
    BY <1>14, <2>1, <1>0, <2>2 DEF ProducerGate, MemoryTypes
  <2>6. QED
    BY <2>2, <2>3, <2>4, <2>5
<1>15. ASSUME NEW w \in Worker, ProducerLoad(w) PROVE TypeInv'
  <2>1. launch' = launch
    BY <1>15 DEF ProducerLoad
  <2>2. ThreadTypes'
    BY <1>15 DEF ProducerLoad, ThreadTypes, SegOrNone, CPlace, Gates, producerVars, segVars
  <2>3. SharedTypes'
    BY <1>15, <1>0, <2>1 DEF ProducerLoad, SharedTypes, SegOrNone, syncVars
  <2>4. MemoryTypes'
    <3>1. Gate' = Gate /\ RowIdx' = RowIdx
      BY <1>0, <2>1
    <3>2. StageOf(w, loadRow[w]) \in 0 .. Stages - 1
      BY <1>1, <1>15, BlockStages DEF ProducerLoad
    <3>3. stage' \in [Worker -> [0 .. Stages - 1 -> Int]] /\ tiles' = tiles /\ got' = got
      BY <1>15, <3>2 DEF ProducerLoad, MemoryTypes, syncVars
    <3>4. QED
      BY <3>1, <3>3 DEF MemoryTypes
  <2>5. QED
    BY <2>1, <2>2, <2>3, <2>4
<1>16. ASSUME NEW w \in Worker, NEW x, LoadLands(w, x) PROVE TypeInv'
  <2>1. x \in Int
    BY <1>1, <1>16, Blocks DEF LoadLands
  <2>2. launch' = launch
    BY <1>16 DEF LoadLands
  <2>3. ThreadTypes'
    BY <1>16, <2>1 DEF LoadLands, ThreadTypes, SegOrNone, CPlace, Gates, producerVars, segVars
  <2>4. SharedTypes'
    BY <1>16, <2>1, <1>0, <2>2 DEF LoadLands, SharedTypes, SegOrNone, syncVars
  <2>5. MemoryTypes'
    BY <1>16, <2>1, <1>0, <2>2 DEF LoadLands, MemoryTypes
  <2>6. QED
    BY <2>2, <2>3, <2>4, <2>5
<1>17. ASSUME NEW w \in Worker, NEW x, PushReads(w, x) PROVE TypeInv'
  <2>1. stage[w][StageOf(w, x)] \in Int
    BY <1>1, <1>17, BlockStages DEF PushReads, MemoryTypes
  <2>2. launch' = launch
    BY <1>17 DEF PushReads
  <2>3. ThreadTypes'
    BY <1>17, <2>1 DEF PushReads, ThreadTypes, SegOrNone, CPlace, Gates, producerVars, segVars
  <2>4. SharedTypes'
    BY <1>17, <2>1, <1>0, <2>2 DEF PushReads, SharedTypes, SegOrNone, syncVars
  <2>5. MemoryTypes'
    BY <1>17, <2>1, <1>0, <2>2 DEF PushReads, MemoryTypes
  <2>6. QED
    BY <2>2, <2>3, <2>4, <2>5
<1>18. ASSUME NEW x, PushCompletes(x) PROVE TypeInv'
  <2>1. launch' = launch
    BY <1>18 DEF PushCompletes
  <2>2. ThreadTypes'
    BY <1>18 DEF PushCompletes, ThreadTypes, SegOrNone, CPlace, Gates, producerVars, segVars
  <2>3. SharedTypes'
    BY <1>18, <1>0, <2>1 DEF PushCompletes, SharedTypes, SegOrNone, syncVars
  <2>4. MemoryTypes'
    BY <1>18, <1>0, <2>1 DEF PushCompletes, MemoryTypes
  <2>5. QED
    BY <2>1, <2>2, <2>3, <2>4
<1>19. ASSUME NEW g, TilePublished(g) PROVE TypeInv'
  <2>1. launch' = launch
    BY <1>19 DEF TilePublished
  <2>2. ThreadTypes'
    BY <1>19 DEF TilePublished, ThreadTypes, SegOrNone, CPlace, Gates, producerVars, segVars
  <2>3. SharedTypes'
    BY <1>19, <1>0, <2>1 DEF TilePublished, SharedTypes, SegOrNone, syncVars
  <2>4. MemoryTypes'
    <3>1. Gate' = Gate /\ RowIdx' = RowIdx
      BY <1>0, <2>1
    <3>2. tiles' \in [Gate -> Nat] /\ stage' = stage /\ got' = got
      BY <1>19 DEF TilePublished, MemoryTypes
    <3>3. QED
      BY <3>1, <3>2 DEF MemoryTypes
  <2>5. QED
    BY <2>1, <2>2, <2>3, <2>4
<1>20. QED
  BY <1>2, <1>3, <1>4, <1>5, <1>6, <1>7, <1>8, <1>9, <1>10, <1>11, <1>12, <1>13, <1>14, <1>15, <1>16, <1>17, <1>18, <1>19
     DEF Next, WorkerStep, ProducerStep, Producer, ConsumerStep, Consumer, SimtWarp, MemoryStep

\* No step changes the arguments of the launch.
LEMMA LaunchFixed == [Next]_vars => launch' = launch
BY DEF Next, WorkerStep, ProducerStep, Producer, ConsumerStep, Consumer, SimtWarp, MemoryStep, vars,
       Arrive, HardDrain, PushRow, Recycle, AdvanceWindow, DrainTail, FinishTail, SimtGate,
       SimtFlush, SimtPush, SimtTail, ProducerGate, ProducerLoad, LoadLands, PushReads, PushCompletes, TilePublished

-----------------------------------------------------------------------------
(* Where the threads of a worker are. *)

\* Every step keeps the threads of a worker in its block and the released stages
\* one row behind the consumer.
LEMMA PlaceStep ==
  ASSUME TypeInv, \A w \in Worker : PlaceInv(w), [Next]_vars, NEW v \in Worker
  PROVE  PlaceInv(v)'
<1> USE DEF TypeInv, ThreadTypes, PlaceInv, Block, SegOrNone
<1>1. /\ First(v)' = First(v) /\ Last(v)' = Last(v) /\ First(v) \in Nat \ {0} /\ Last(v) \in Int
      /\ Simt' = Simt /\ Publishes' = Publishes /\ List' = List
  BY LaunchFixed, Given, Blocks
<1>2. CASE UNCHANGED vars
  BY <1>1, <1>2 DEF vars, producerVars, segVars, syncVars
<1>3. ASSUME NEW w \in Worker, Arrive(w) PROVE PlaceInv(v)'
  BY <1>1, <1>3 DEF Arrive, producerVars, segVars, syncVars
<1>4. ASSUME NEW w \in Worker, ~Simt, HardDrain(w) PROVE PlaceInv(v)'
  BY <1>1, <1>4 DEF HardDrain, Staged, Boundary, MustDrain, Publish, producerVars, segVars, syncVars
<1>5. ASSUME NEW w \in Worker, ~Simt, PushRow(w) PROVE PlaceInv(v)'
  <2>1. List[row[w]].seg \in Seg
    BY <1>5, Blocks DEF PushRow, Staged
  <2>2. /\ row' = row /\ released' = released /\ owes' = owes /\ loadRow' = loadRow
        /\ cpc' = [cpc EXCEPT ![w] = "recycle"] /\ cpc[w] = "wait" /\ owes[w] = -1
        /\ row[w] \in Block(w)
    BY <1>5 DEF PushRow, Staged, producerVars, syncVars
  <2>3. count[v] > 0 \/ (Publishes /\ cpc'[v] \in {"recycle", "window"}) => curSeg'[v] \in Seg
    BY <1>5, <2>1, <2>2 DEF PushRow, CPlace
  <2>4. count'[v] > 0 => count[v] > 0
    BY <1>5 DEF PushRow
  <2>5. QED
    BY <1>1, <1>5, <2>2, <2>3, <2>4 DEF CPlace
<1>6. ASSUME NEW w \in Worker, ~Simt, Recycle(w) PROVE PlaceInv(v)'
  BY <1>1, <1>6 DEF Recycle, ReadsBehind, Releases, UpTo, producerVars, segVars, syncVars
<1>7. ASSUME NEW w \in Worker, ~Simt, AdvanceWindow(w) PROVE PlaceInv(v)'
  <2>1. /\ row' = [row EXCEPT ![w] = @ + 1] /\ cpc' = [cpc EXCEPT ![w] = "wait"]
        /\ count' = [count EXCEPT ![w] = IF Publishes THEN @ + 1 ELSE @]
        /\ released' = released /\ loadRow' = loadRow /\ curSeg' = curSeg
        /\ cpc[w] = "window"
    BY <1>7 DEF AdvanceWindow, producerVars
  <2>2. v # w => owes'[v] = owes[v]
    BY <1>7 DEF AdvanceWindow, Publish, SharedTypes
  <2>3. QED
    BY <1>1, <1>7, <2>1, <2>2 DEF CPlace
<1>8. ASSUME NEW w \in Worker, ~Simt, DrainTail(w) PROVE PlaceInv(v)'
  <2>1. /\ row' = row /\ released' = released /\ loadRow' = loadRow /\ count' = count
        /\ curSeg' = curSeg /\ cpc' = [cpc EXCEPT ![w] = "tail"]
        /\ cpc[w] \in {"wait", "tail"} /\ row[w] \notin Block(w)
    BY <1>8 DEF DrainTail, producerVars, segVars
  <2>2. v # w => owes'[v] = owes[v]
    BY <1>8 DEF DrainTail, Publish, SharedTypes
  <2>3. QED
    BY <1>1, <1>8, <2>1, <2>2 DEF CPlace
<1>9. ASSUME NEW w \in Worker, ~Simt, FinishTail(w) PROVE PlaceInv(v)'
  <2>1. /\ row' = row /\ released' = released /\ loadRow' = loadRow /\ count' = count
        /\ curSeg' = curSeg /\ cpc' = [cpc EXCEPT ![w] = "end"]
        /\ cpc[w] \in {"wait", "tail"} /\ row[w] \notin Block(w)
    BY <1>9 DEF FinishTail, producerVars, segVars
  <2>2. v # w => owes'[v] = owes[v]
    BY <1>9 DEF FinishTail, Publish, SharedTypes
  <2>3. QED
    BY <1>1, <1>9, <2>1, <2>2 DEF CPlace
<1>10. ASSUME NEW w \in Worker, Simt, SimtGate(w) PROVE PlaceInv(v)'
  BY <1>1, <1>10 DEF SimtGate, AtRow, producerVars, segVars, syncVars
<1>11. ASSUME NEW w \in Worker, Simt, SimtFlush(w) PROVE PlaceInv(v)'
  BY <1>1, <1>11 DEF SimtFlush, AtRow, GateKnown, Boundary, Publish, producerVars, segVars, syncVars
<1>12. ASSUME NEW w \in Worker, Simt, SimtPush(w) PROVE PlaceInv(v)'
  <2>1. List[row[w]].seg \in Seg
    BY <1>12, Blocks DEF SimtPush, AtRow
  <2>2. /\ row' = [row EXCEPT ![w] = @ + 1] /\ cpc' = cpc /\ pendSeg' = pendSeg /\ owes' = owes
        /\ released' = released /\ loadRow' = loadRow /\ cpc[w] = "wait" /\ row[w] \in Block(w)
    BY <1>12 DEF SimtPush, AtRow, producerVars, syncVars
  <2>3. count'[v] > 0 \/ (Publishes /\ cpc[v] \in {"recycle", "window"}) => curSeg'[v] \in Seg
    BY <1>12, <2>1 DEF SimtPush
  <2>4. QED
    BY <1>1, <1>12, <2>2, <2>3 DEF CPlace
<1>13. ASSUME NEW w \in Worker, Simt, SimtTail(w) PROVE PlaceInv(v)'
  BY <1>1, <1>13 DEF SimtTail, Publish, producerVars, segVars, syncVars
<1>14. ASSUME NEW w \in Worker, ~Simt, ProducerGate(w) PROVE PlaceInv(v)'
  BY <1>1, <1>14 DEF ProducerGate, producerVars, segVars, syncVars
<1>15. ASSUME NEW w \in Worker, ~Simt, ProducerLoad(w) PROVE PlaceInv(v)'
  BY <1>1, <1>15 DEF ProducerLoad, StageFree, producerVars, segVars, syncVars
<1>16. ASSUME NEW w \in Worker, NEW x, ~Simt, LoadLands(w, x) PROVE PlaceInv(v)'
  BY <1>1, <1>16 DEF LoadLands, producerVars, segVars, syncVars
<1>17. ASSUME NEW w \in Worker, NEW x, ~Simt, PushReads(w, x) PROVE PlaceInv(v)'
  BY <1>1, <1>17 DEF PushReads, producerVars, segVars, syncVars
<1>18. ASSUME NEW x, PushCompletes(x) PROVE PlaceInv(v)'
  BY <1>1, <1>18 DEF PushCompletes, producerVars, segVars, syncVars
<1>19. ASSUME NEW g, TilePublished(g) PROVE PlaceInv(v)'
  BY <1>1, <1>19 DEF TilePublished, producerVars, segVars, syncVars
<1>20. QED
  BY <1>2, <1>3, <1>4, <1>5, <1>6, <1>7, <1>8, <1>9, <1>10, <1>11, <1>12, <1>13, <1>14, <1>15, <1>16, <1>17, <1>18, <1>19
     DEF Next, WorkerStep, ProducerStep, Producer, ConsumerStep, Consumer, SimtWarp, MemoryStep

-----------------------------------------------------------------------------
(* The ring of stages. *)

\* What a step leaves of the ring of worker v.
RingSame(v) ==
  /\ launch' = launch
  /\ loadRow'[v] = loadRow[v] /\ released'[v] = released[v] /\ stage'[v] = stage[v]
  /\ \A x \in Block(v) : /\ x \in landed' <=> x \in landed
                         /\ got'[x] = got[x]
                         /\ Issued(v, x)' <=> Issued(v, x)

\* A step that leaves a worker's ring alone keeps its invariant.
LEMMA RingKept ==
  ASSUME launch \in Launches, NEW v \in Worker, RingInv(v), RingSame(v)
  PROVE  RingInv(v)'
<1>1. Block(v)' = Block(v) /\ Simt' = Simt /\ \A x \in Block(v) : StageOf(v, x)' = StageOf(v, x) /\ x \in Int
  BY Given, Blocks DEF RingSame, Block
<1>2. ASSUME NEW x \in Block(v)
      PROVE  RingRow(v, x)'
  BY <1>1 DEF RingInv, RingRow, RingSame
<1>3. QED
  BY <1>1, <1>2 DEF RingInv, RingSame


\* A step that moves no row and no thread to another row.
LEMMA RingQuiet ==
  ASSUME TypeInv, NEW v \in Worker, RingInv(v), launch' = launch, loadRow' = loadRow,
         released' = released, stage' = stage, landed' = landed, got' = got, row' = row, cpc' = cpc
  PROVE  RingInv(v)'
<1>1. RingSame(v)
  BY DEF RingSame, Issued
<1>2. QED
  BY <1>1, RingKept DEF TypeInv

\* Every step keeps the ring: a stage is refilled only when the push of its row
\* has read it (released one row late), and a load lands before its row is pushed.
LEMMA RingStep ==
  ASSUME TypeInv, \A w \in Worker : PlaceInv(w), NEW v \in Worker, RingInv(v), [Next]_vars
  PROVE  RingInv(v)'
<1> USE DEF TypeInv
<1>1. /\ launch' = launch /\ Block(v)' = Block(v) /\ Simt' = Simt
      /\ \A x \in Block(v) : StageOf(v, x)' = StageOf(v, x) /\ x \in Int
      /\ \A w \in Worker : w # v => Block(v) \cap Block(w) = {}
  BY LaunchFixed, Given, Blocks DEF Block
<1>a. /\ loadRow[v] \in Nat /\ released[v] \in Nat /\ row[v] \in Nat /\ cpc[v] \in CPlace
      /\ loadRow \in [Worker -> Nat] /\ released \in [Worker -> Nat] /\ row \in [Worker -> Nat]
      /\ cpc \in [Worker -> CPlace]
      /\ stage \in [Worker -> [0 .. Stages - 1 -> Int]] /\ got \in [RowIdx -> Int]
      /\ Stages \in Nat \ {0} /\ RowIdx' = RowIdx
  BY <1>1, Given, AllToAllAssumption DEF ThreadTypes, MemoryTypes
<1>2. CASE UNCHANGED vars
  BY <1>1, <1>2, RingQuiet DEF vars, producerVars
<1>b. ~Simt => /\ cpc[v] = "window" \/ row[v] = First(v) \/ released[v] = row[v] - 1
               /\ row[v] = First(v) => released[v] = First(v)
               /\ \A x \in Block(v) : x < released[v] => Issued(v, x)
  BY <1>1, <1>a DEF PlaceInv, Issued
<1>c. First(v) \in Nat /\ First(v) <= row[v] /\ \A x \in Block(v) : First(v) <= x
  BY Blocks DEF PlaceInv, Block
<1>3. ASSUME NEW w \in Worker, Arrive(w) PROVE RingInv(v)'
  <2>1. /\ loadRow' = loadRow /\ released' = released /\ stage' = stage /\ landed' = landed
        /\ got' = got /\ row' = row /\ cpc' = cpc
    BY <1>3 DEF Arrive, producerVars, syncVars
  <2>2. QED
    BY <1>1, <2>1, RingQuiet
<1>4. ASSUME NEW w \in Worker, ~Simt, HardDrain(w) PROVE RingInv(v)'
  <2>1. /\ loadRow' = loadRow /\ released' = released /\ stage' = stage /\ landed' = landed
        /\ got' = got /\ row' = row /\ cpc' = cpc
    BY <1>4 DEF HardDrain, producerVars, syncVars
  <2>2. QED
    BY <1>1, <2>1, RingQuiet
<1>5. ASSUME NEW w \in Worker, ~Simt, PushRow(w) PROVE RingInv(v)'
  <2>1. /\ loadRow' = loadRow /\ released' = released /\ stage' = stage /\ landed' = landed
        /\ got' = got /\ row' = row /\ cpc' = [cpc EXCEPT ![w] = "recycle"]
        /\ cpc[w] = "wait" /\ row[w] \in landed
    BY <1>5 DEF PushRow, Staged, producerVars
  <2>2. CASE v # w
    <3>1. RingSame(v)
      BY <1>1, <1>a, <2>1, <2>2 DEF RingSame, Issued
    <3>2. QED
      BY <3>1, RingKept
  <2>3. CASE v = w
    <3>1. (loadRow[v] <= released[v] + Stages)'
      BY <1>1, <2>1 DEF RingInv
    <3>2. ASSUME NEW x \in Block(v) PROVE RingRow(v, x)'
      BY <1>1, <1>a, <2>1, <2>3, <3>2 DEF RingInv, RingRow, Issued
    <3>3. QED
      BY <1>1, <3>1, <3>2 DEF RingInv
  <2>4. QED
    BY <2>2, <2>3
<1>6. ASSUME NEW w \in Worker, ~Simt, Recycle(w) PROVE RingInv(v)'
  <2>1. /\ loadRow' = loadRow /\ stage' = stage /\ landed' = landed /\ got' = got /\ row' = row
        /\ cpc' = [cpc EXCEPT ![w] = "window"] /\ cpc[w] = "recycle"
        /\ released' = [released EXCEPT ![w] = IF row[w] > First(w) THEN @ + 1 ELSE @]
        /\ \A y \in Block(w) : y <= row[w] - 1 => got[y] # 0
    BY <1>6 DEF Recycle, Releases, ReadsBehind, UpTo, producerVars
  <2>2. CASE v # w
    <3>1. RingSame(v)
      BY <1>1, <1>a, <2>1, <2>2 DEF RingSame, Issued
    <3>2. QED
      BY <3>1, RingKept
  <2>3. CASE v = w
    <3>1. (loadRow[v] <= released[v] + Stages)'
      BY <1>a, <2>1, <2>3 DEF RingInv
    <3>2. ASSUME NEW x \in Block(v) PROVE RingRow(v, x)'
      <4>1. got[x] # 0 \/ ~(x < released'[v])
        BY <1>1, <1>6, <1>a, <1>b, <1>c, <2>1, <2>3, <3>2
      <4>2. QED
        BY <1>1, <1>a, <2>1, <2>3, <3>2, <4>1 DEF RingInv, RingRow, Issued
    <3>3. QED
      BY <1>1, <3>1, <3>2 DEF RingInv
  <2>4. QED
    BY <2>2, <2>3
<1>7. ASSUME NEW w \in Worker, ~Simt, AdvanceWindow(w) PROVE RingInv(v)'
  <2>1. /\ loadRow' = loadRow /\ released' = released /\ stage' = stage /\ landed' = landed
        /\ got' = got /\ row' = [row EXCEPT ![w] = @ + 1] /\ cpc' = [cpc EXCEPT ![w] = "wait"]
        /\ cpc[w] = "window"
    BY <1>7 DEF AdvanceWindow, producerVars
  <2>2. \A x \in Block(v) : Issued(v, x)' <=> Issued(v, x)
    <3>1. v # w => row'[v] = row[v] /\ cpc'[v] = cpc[v]
      BY <1>a, <2>1
    <3>2. v = w => row'[v] = row[v] + 1 /\ cpc'[v] = "wait" /\ cpc[v] = "window"
      BY <1>a, <2>1
    <3>3. QED
      BY <1>1, <1>a, <3>1, <3>2 DEF Issued
  <2>a. RingSame(v)
    BY <1>1, <2>1, <2>2 DEF RingSame
  <2>3. QED
    BY <2>a, RingKept
<1>8. ASSUME NEW w \in Worker, ~Simt, DrainTail(w) PROVE RingInv(v)'
  <2>1. /\ loadRow' = loadRow /\ released' = released /\ stage' = stage /\ landed' = landed
        /\ got' = got /\ row' = row /\ cpc' = [cpc EXCEPT ![w] = "tail"] /\ cpc[w] = "wait"
    BY <1>8 DEF DrainTail, producerVars
  <2>2. RingSame(v)
    BY <1>1, <1>a, <2>1 DEF RingSame, Issued, ThreadTypes
  <2>3. QED
    BY <2>2, RingKept
<1>9. ASSUME NEW w \in Worker, ~Simt, FinishTail(w) PROVE RingInv(v)'
  <2>1. /\ loadRow' = loadRow /\ released' = released /\ stage' = stage /\ landed' = landed
        /\ got' = got /\ row' = row /\ cpc' = [cpc EXCEPT ![w] = "end"] /\ cpc[w] = "tail"
    BY <1>9 DEF FinishTail, producerVars
  <2>2. RingSame(v)
    BY <1>1, <1>a, <2>1 DEF RingSame, Issued, ThreadTypes
  <2>3. QED
    BY <2>2, RingKept
<1>10. ASSUME NEW w \in Worker, Simt, SimtGate(w) PROVE RingInv(v)'
  <2>1. /\ loadRow' = loadRow /\ released' = released /\ stage' = stage /\ landed' = landed
        /\ got' = got /\ row' = row /\ cpc' = cpc
    BY <1>10 DEF SimtGate, producerVars, syncVars
  <2>2. QED
    BY <1>1, <2>1, RingQuiet
<1>11. ASSUME NEW w \in Worker, Simt, SimtFlush(w) PROVE RingInv(v)'
  <2>1. /\ loadRow' = loadRow /\ released' = released /\ stage' = stage /\ landed' = landed
        /\ got' = got /\ row' = row /\ cpc' = cpc
    BY <1>11 DEF SimtFlush, producerVars, syncVars
  <2>2. QED
    BY <1>1, <2>1, RingQuiet
<1>12. ASSUME NEW w \in Worker, Simt, SimtPush(w) PROVE RingInv(v)'
  <2>1. /\ loadRow' = loadRow /\ released' = released /\ landed' = landed /\ stage' = stage
        /\ cpc' = cpc /\ row[w] \in Block(w)
        /\ row' = [row EXCEPT ![w] = row[w] + 1] /\ got' = [got EXCEPT ![row[w]] = row[w]]
    BY <1>12 DEF SimtPush, AtRow, producerVars
  <2>2. CASE v # w
    <3>1. RingSame(v)
      BY <1>1, <1>a, <2>1, <2>2 DEF RingSame, Issued
    <3>2. QED
      BY <3>1, RingKept
  <2>3. CASE v = w
    <3>1. (loadRow[v] <= released[v] + Stages)'
      BY <1>1, <2>1 DEF RingInv
    <3>2. ASSUME NEW x \in Block(v) PROVE RingRow(v, x)'
      <4>1. row[v] \in RowIdx /\ row[v] \in Nat \ {0} /\ x \in RowIdx
        BY <2>1, <2>3, <3>2, Blocks
      <4>2. got'[x] = IF x = row[v] THEN x ELSE got[x]
        BY <1>a, <2>1, <2>3, <4>1
      <4>3. QED
        BY <1>1, <1>a, <1>12, <2>1, <2>3, <3>2, <4>1, <4>2 DEF RingInv, RingRow, Issued
    <3>3. QED
      BY <1>1, <3>1, <3>2 DEF RingInv
  <2>4. QED
    BY <2>2, <2>3
<1>13. ASSUME NEW w \in Worker, Simt, SimtTail(w) PROVE RingInv(v)'
  <2>1. /\ loadRow' = loadRow /\ released' = released /\ stage' = stage /\ landed' = landed
        /\ got' = got /\ row' = row /\ cpc' = [cpc EXCEPT ![w] = "end"] /\ cpc[w] = "wait"
    BY <1>13 DEF SimtTail, producerVars
  <2>2. RingSame(v)
    BY <1>1, <1>a, <2>1 DEF RingSame, Issued, ThreadTypes
  <2>3. QED
    BY <2>2, RingKept
<1>14. ASSUME NEW w \in Worker, ~Simt, ProducerGate(w) PROVE RingInv(v)'
  <2>1. /\ loadRow' = loadRow /\ released' = released /\ stage' = stage /\ landed' = landed
        /\ got' = got /\ row' = row /\ cpc' = cpc
    BY <1>14 DEF ProducerGate, producerVars, syncVars
  <2>2. QED
    BY <1>1, <2>1, RingQuiet
<1>15. ASSUME NEW w \in Worker, ~Simt, ProducerLoad(w) PROVE RingInv(v)'
  <2>1. /\ released' = released /\ landed' = landed /\ got' = got /\ row' = row /\ cpc' = cpc
        /\ loadRow[w] \in Block(w) /\ loadRow[w] < released[w] + Stages
        /\ loadRow' = [loadRow EXCEPT ![w] = loadRow[w] + 1]
        /\ stage' = [stage EXCEPT ![w][StageOf(w, loadRow[w])] = -1]
    BY <1>15 DEF ProducerLoad, StageFree, syncVars
  <2>2. CASE v # w
    <3>1. RingSame(v)
      BY <1>1, <1>a, <2>1, <2>2 DEF RingSame, Issued
    <3>2. QED
      BY <3>1, RingKept
  <2>3. CASE v = w
    <3>1. (loadRow[v] <= released[v] + Stages)'
      BY <1>a, <2>1, <2>3 DEF RingInv
    <3>2. ASSUME NEW x \in Block(v) PROVE RingRow(v, x)'
      <4>1. x < loadRow[v] /\ loadRow[v] < x + Stages => StageOf(v, x) # StageOf(v, loadRow[v])
        BY <2>1, <2>3, <3>2, BlockStages
      <4>2. x \in landed /\ loadRow'[v] <= x + Stages => stage'[v][StageOf(v, x)] = x
        <5>1. /\ StageOf(v, x) \in 0 .. Stages - 1 /\ StageOf(v, loadRow[v]) \in 0 .. Stages - 1
              /\ stage[v] \in [0 .. Stages - 1 -> Int]
          BY <1>a, <2>1, <2>3, <3>2, BlockStages
        <5>2. stage'[v][StageOf(v, x)] = IF StageOf(v, x) = StageOf(v, loadRow[v]) THEN -1 ELSE stage[v][StageOf(v, x)]
          BY <1>a, <2>1, <2>3, <5>1
        <5>3. x \in landed /\ loadRow'[v] <= x + Stages => x < loadRow[v] /\ loadRow[v] < x + Stages
          BY <1>1, <1>a, <2>1, <2>3, <3>2 DEF RingInv, RingRow
        <5>4. QED
          BY <1>1, <1>a, <3>2, <4>1, <5>2, <5>3 DEF RingInv, RingRow
      <4>3. QED
        BY <1>1, <1>a, <2>1, <2>3, <3>2, <4>2 DEF RingInv, RingRow, Issued
    <3>3. QED
      BY <1>1, <3>1, <3>2 DEF RingInv
  <2>4. QED
    BY <2>2, <2>3
<1>16. ASSUME NEW w \in Worker, NEW x, ~Simt, LoadLands(w, x) PROVE RingInv(v)'
  <2>1. /\ loadRow' = loadRow /\ released' = released /\ got' = got /\ row' = row /\ cpc' = cpc
        /\ x \in Block(w) /\ x < loadRow[w] /\ x \notin landed /\ landed' = landed \cup {x}
        /\ stage' = [stage EXCEPT ![w][StageOf(w, x)] = x]
    BY <1>16 DEF LoadLands, producerVars
  <2>2. CASE v # w
    <3>1. RingSame(v)
      BY <1>1, <1>a, <2>1, <2>2 DEF RingSame, Issued
    <3>2. QED
      BY <3>1, RingKept
  <2>3. CASE v = w
    <3>1. (loadRow[v] <= released[v] + Stages)'
      BY <1>1, <2>1 DEF RingInv
    <3>2. ASSUME NEW y \in Block(v) PROVE RingRow(v, y)'
      <4>1. x >= released[v]
        BY <1>1, <1>a, <1>16, <2>1, <2>3, <1>b DEF RingInv, RingRow
      <4>2. y # x /\ y < loadRow[v] /\ loadRow[v] <= y + Stages => StageOf(v, x) # StageOf(v, y)
        <5>1. loadRow[v] <= x + Stages
          BY <1>1, <1>a, <2>1, <2>3, <4>1 DEF RingInv
        <5>2. x \in Block(v) /\ x \in Int /\ y \in Int /\ x < loadRow[v] /\ loadRow[v] \in Nat
          BY <1>1, <1>a, <2>1, <2>3, <3>2
        <5>3. y < x /\ loadRow[v] <= y + Stages => x < y + Stages
          BY <1>a, <5>2
        <5>4. x < y /\ y < loadRow[v] => y < x + Stages
          BY <1>a, <5>1, <5>2
        <5>5. QED
          BY <3>2, <5>2, <5>3, <5>4, BlockStages
      <4>3. StageOf(v, x) \in 0 .. Stages - 1
        BY <2>1, <2>3, BlockStages
      <4>4. y \in landed' /\ loadRow[v] <= y + Stages => stage'[v][StageOf(v, y)] = y
        BY <1>1, <1>a, <2>1, <2>3, <3>2, <4>2, <4>3 DEF RingInv, RingRow
      <4>5. QED
        BY <1>1, <1>a, <2>1, <2>3, <3>2, <4>4 DEF RingInv, RingRow, Issued
    <3>3. QED
      BY <1>1, <3>1, <3>2 DEF RingInv
  <2>4. QED
    BY <2>2, <2>3
<1>17. ASSUME NEW w \in Worker, NEW x, ~Simt, PushReads(w, x) PROVE RingInv(v)'
  <2>1. /\ loadRow' = loadRow /\ released' = released /\ landed' = landed /\ stage' = stage
        /\ row' = row /\ cpc' = cpc /\ x \in Block(w) /\ Issued(w, x) /\ got[x] = 0
        /\ got' = [got EXCEPT ![x] = stage[w][StageOf(w, x)]]
    BY <1>17 DEF PushReads, producerVars
  <2>2. CASE v # w
    <3>1. RingSame(v)
      BY <1>1, <1>a, <2>1, <2>2 DEF RingSame, Issued
    <3>2. QED
      BY <3>1, RingKept
  <2>3. CASE v = w
    <3>1. (loadRow[v] <= released[v] + Stages)'
      BY <1>1, <2>1 DEF RingInv
    <3>2. ASSUME NEW y \in Block(v) PROVE RingRow(v, y)'
      <4>1. x \in landed /\ x >= released[v] /\ x \in RowIdx
        BY <1>1, <1>a, <1>17, <2>1, <2>3, Blocks DEF RingInv, RingRow
      <4>2. stage[v][StageOf(v, x)] = x
        BY <1>1, <1>a, <2>1, <2>3, <4>1 DEF RingInv, RingRow
      <4>3. got'[y] = IF y = x THEN x ELSE got[y]
        BY <1>a, <2>1, <2>3, <4>1, <4>2, <3>2, Blocks
      <4>4. x \in Nat \ {0}
        BY <4>1, Blocks
      <4>5. QED
        BY <1>1, <1>a, <2>1, <2>3, <3>2, <4>1, <4>3, <4>4 DEF RingInv, RingRow, Issued
    <3>3. QED
      BY <1>1, <3>1, <3>2 DEF RingInv
  <2>4. QED
    BY <2>2, <2>3
<1>18. ASSUME NEW x, PushCompletes(x) PROVE RingInv(v)'
  <2>1. /\ loadRow' = loadRow /\ released' = released /\ stage' = stage /\ landed' = landed
        /\ got' = got /\ row' = row /\ cpc' = cpc
    BY <1>18 DEF PushCompletes, producerVars, syncVars
  <2>2. QED
    BY <1>1, <2>1, RingQuiet
<1>19. ASSUME NEW g, TilePublished(g) PROVE RingInv(v)'
  <2>1. /\ loadRow' = loadRow /\ released' = released /\ stage' = stage /\ landed' = landed
        /\ got' = got /\ row' = row /\ cpc' = cpc
    BY <1>19 DEF TilePublished, producerVars, syncVars
  <2>2. QED
    BY <1>1, <2>1, RingQuiet
<1>20. QED
  BY <1>2, <1>3, <1>4, <1>5, <1>6, <1>7, <1>8, <1>9, <1>10, <1>11, <1>12, <1>13, <1>14, <1>15, <1>16, <1>17, <1>18, <1>19
     DEF Next, WorkerStep, ProducerStep, Producer, ConsumerStep, Consumer, SimtWarp, MemoryStep

-----------------------------------------------------------------------------
(* The gate polls. *)

\* A step that polls no gate and moves no thread past one.
LEMMA GateQuiet ==
  ASSUME TypeInv, NEW v \in Worker, GateInv(v), launch' = launch, lastGate' = lastGate,
         tiles' = tiles, IF Simt THEN row' = row /\ got' = got ELSE loadRow' = loadRow
  PROVE  GateInv(v)'
<1>1. /\ Gated' = Gated /\ Gate' = Gate /\ Block(v)' = Block(v) /\ Simt' = Simt /\ List' = List
  BY Given
<1>2. QED
  BY <1>1 DEF GateInv

\* Every step keeps what a worker knows of the gates it has passed.
LEMMA GateStep ==
  ASSUME TypeInv, NEW v \in Worker, GateInv(v), [Next]_vars
  PROVE  GateInv(v)'
<1>1. /\ launch' = launch /\ Gated' = Gated /\ Gate' = Gate /\ Block(v)' = Block(v)
      /\ Simt' = Simt /\ List' = List
  BY LaunchFixed, Given
<1>a. /\ launch \in Launches /\ loadRow \in [Worker -> Nat] /\ row \in [Worker -> Nat]
      /\ lastGate \in [Worker -> Gates] /\ tiles \in [Gate -> Nat] /\ got \in [RowIdx -> Int]
  BY DEF TypeInv, ThreadTypes, MemoryTypes
<1>b. /\ \A x \in RowIdx : List[x].gate \in Gate /\ x \in Nat
      /\ \A w \in Worker : Block(w) \subseteq RowIdx
      /\ \A w \in Worker : w # v => Block(v) \cap Block(w) = {}
      /\ Gate \subseteq Nat
  BY <1>a, Blocks DEF Gate
<1>2. CASE UNCHANGED vars
  BY <1>1, <1>2, GateQuiet DEF vars, producerVars
<1>3. ASSUME NEW w \in Worker, Arrive(w) PROVE GateInv(v)'
  <2>1. lastGate' = lastGate /\ tiles' = tiles /\ row' = row /\ got' = got /\ loadRow' = loadRow
    BY <1>3 DEF Arrive, producerVars
  <2>2. QED
    BY <1>1, <1>3, <2>1, GateQuiet
<1>4. ASSUME NEW w \in Worker, ~Simt, HardDrain(w) PROVE GateInv(v)'
  <2>1. lastGate' = lastGate /\ tiles' = tiles /\ loadRow' = loadRow
    BY <1>4 DEF HardDrain, producerVars
  <2>2. QED
    BY <1>1, <1>4, <2>1, GateQuiet
<1>5. ASSUME NEW w \in Worker, ~Simt, PushRow(w) PROVE GateInv(v)'
  <2>1. lastGate' = lastGate /\ tiles' = tiles /\ loadRow' = loadRow
    BY <1>5 DEF PushRow, producerVars
  <2>2. QED
    BY <1>1, <1>5, <2>1, GateQuiet
<1>6. ASSUME NEW w \in Worker, ~Simt, Recycle(w) PROVE GateInv(v)'
  <2>1. lastGate' = lastGate /\ tiles' = tiles /\ loadRow' = loadRow
    BY <1>6 DEF Recycle, producerVars
  <2>2. QED
    BY <1>1, <1>6, <2>1, GateQuiet
<1>7. ASSUME NEW w \in Worker, ~Simt, AdvanceWindow(w) PROVE GateInv(v)'
  <2>1. lastGate' = lastGate /\ tiles' = tiles /\ loadRow' = loadRow
    BY <1>7 DEF AdvanceWindow, producerVars
  <2>2. QED
    BY <1>1, <1>7, <2>1, GateQuiet
<1>8. ASSUME NEW w \in Worker, ~Simt, DrainTail(w) PROVE GateInv(v)'
  <2>1. lastGate' = lastGate /\ tiles' = tiles /\ loadRow' = loadRow
    BY <1>8 DEF DrainTail, producerVars
  <2>2. QED
    BY <1>1, <1>8, <2>1, GateQuiet
<1>9. ASSUME NEW w \in Worker, ~Simt, FinishTail(w) PROVE GateInv(v)'
  <2>1. lastGate' = lastGate /\ tiles' = tiles /\ loadRow' = loadRow
    BY <1>9 DEF FinishTail, producerVars
  <2>2. QED
    BY <1>1, <1>9, <2>1, GateQuiet
<1>10. ASSUME NEW w \in Worker, Simt, SimtGate(w) PROVE GateInv(v)'
  <2>1. /\ loadRow' = loadRow /\ tiles' = tiles /\ row' = row /\ got' = got
        /\ lastGate' = [lastGate EXCEPT ![w] = List[row[w]].gate]
        /\ tiles[List[row[w]].gate] >= GateTarget
    BY <1>10 DEF SimtGate, AtRow, syncVars
  <2>2. lastGate'[v] = lastGate[v] \/ tiles[lastGate'[v]] >= GateTarget
    BY <1>a, <2>1
  <2>3. QED
    BY <1>1, <2>1, <2>2 DEF GateInv
<1>11. ASSUME NEW w \in Worker, Simt, SimtFlush(w) PROVE GateInv(v)'
  <2>1. lastGate' = lastGate /\ tiles' = tiles /\ row' = row /\ got' = got
    BY <1>11 DEF SimtFlush, producerVars
  <2>2. QED
    BY <1>1, <1>11, <2>1, GateQuiet
<1>12. ASSUME NEW w \in Worker, Simt, SimtPush(w) PROVE GateInv(v)'
  <2>1. /\ row' = [row EXCEPT ![w] = row[w] + 1] /\ row[w] \in Block(w)
        /\ lastGate' = lastGate /\ tiles' = tiles /\ got' = [got EXCEPT ![row[w]] = row[w]]
        /\ Gated => List[row[w]].gate = lastGate[w]
    BY <1>12 DEF SimtPush, AtRow, GateKnown, syncVars, producerVars
  <2>2. row[w] \in RowIdx
    BY <1>b, <2>1
  <2>3. ASSUME Gated, NEW x \in Block(v), x < row'[v] PROVE tiles[List[x].gate] >= GateTarget
    <3>1. CASE x < row[v]
      BY <1>12, <2>3, <3>1 DEF GateInv
    <3>2. CASE ~(x < row[v])
      <4>1. v = w /\ x = row[w]
        BY <1>a, <1>b, <2>1, <2>3, <3>2
      <4>2. List[x].gate = lastGate[v] /\ lastGate[v] \in Gate
        BY <1>b, <2>1, <2>2, <2>3, <4>1
      <4>3. QED
        BY <2>3, <4>2 DEF GateInv
    <3>3. QED
      BY <3>1, <3>2
  <2>4. ASSUME Gated, Simt, NEW x \in Block(v), got'[x] # 0 PROVE x < row'[v]
    <3>1. CASE v = w
      <4>1. x = row[w] \/ got[x] # 0
        BY <1>a, <1>b, <2>1, <2>4
      <4>2. x = row[w] \/ x < row[w]
        BY <2>4, <3>1, <4>1 DEF GateInv
      <4>3. QED
        BY <1>a, <1>b, <2>1, <3>1, <4>2
    <3>2. CASE v # w
      <4>1. x # row[w]
        BY <1>b, <2>1, <3>2
      <4>2. got[x] # 0 /\ row'[v] = row[v]
        BY <1>a, <1>b, <2>1, <2>4, <3>2, <4>1
      <4>3. QED
        BY <2>4, <4>2 DEF GateInv
    <3>3. QED
      BY <3>1, <3>2
  <2>5. QED
    BY <1>1, <1>12, <2>1, <2>3, <2>4 DEF GateInv
<1>13. ASSUME NEW w \in Worker, Simt, SimtTail(w) PROVE GateInv(v)'
  <2>1. lastGate' = lastGate /\ tiles' = tiles /\ row' = row /\ got' = got
    BY <1>13 DEF SimtTail, producerVars
  <2>2. QED
    BY <1>1, <1>13, <2>1, GateQuiet
<1>14. ASSUME NEW w \in Worker, ~Simt, ProducerGate(w) PROVE GateInv(v)'
  <2>1. /\ loadRow' = loadRow /\ tiles' = tiles /\ row' = row /\ got' = got
        /\ lastGate' = [lastGate EXCEPT ![w] = List[loadRow[w]].gate]
        /\ tiles[List[loadRow[w]].gate] >= GateTarget
    BY <1>14 DEF ProducerGate, syncVars
  <2>2. lastGate'[v] = lastGate[v] \/ tiles[lastGate'[v]] >= GateTarget
    BY <1>a, <2>1
  <2>3. QED
    BY <1>1, <2>1, <2>2 DEF GateInv
<1>15. ASSUME NEW w \in Worker, ~Simt, ProducerLoad(w) PROVE GateInv(v)'
  <2>1. /\ loadRow' = [loadRow EXCEPT ![w] = loadRow[w] + 1] /\ loadRow[w] \in Block(w)
        /\ lastGate' = lastGate /\ tiles' = tiles /\ got' = got
        /\ Gated => List[loadRow[w]].gate = lastGate[w]
    BY <1>15 DEF ProducerLoad, StageFree, syncVars
  <2>2. loadRow[w] \in RowIdx
    BY <1>b, <2>1
  <2>3. ASSUME Gated, NEW x \in Block(v), x < loadRow'[v] PROVE tiles[List[x].gate] >= GateTarget
    <3>1. CASE x < loadRow[v]
      BY <1>15, <2>3, <3>1 DEF GateInv
    <3>2. CASE ~(x < loadRow[v])
      <4>1. v = w /\ x = loadRow[w]
        BY <1>a, <1>b, <2>1, <2>3, <3>2
      <4>2. List[x].gate = lastGate[v] /\ lastGate[v] \in Gate
        BY <1>b, <2>1, <2>2, <2>3, <4>1
      <4>3. QED
        BY <2>3, <4>2 DEF GateInv
    <3>3. QED
      BY <3>1, <3>2
  <2>4. ASSUME Gated, Simt, NEW x \in Block(v), got'[x] # 0 PROVE x < row'[v]
    BY <1>15, <2>4
  <2>5. QED
    BY <1>1, <1>15, <2>1, <2>3, <2>4 DEF GateInv
<1>16. ASSUME NEW w \in Worker, NEW x, ~Simt, LoadLands(w, x) PROVE GateInv(v)'
  <2>1. lastGate' = lastGate /\ tiles' = tiles /\ loadRow' = loadRow
    BY <1>16 DEF LoadLands, producerVars
  <2>2. QED
    BY <1>1, <1>16, <2>1, GateQuiet
<1>17. ASSUME NEW w \in Worker, NEW x, ~Simt, PushReads(w, x) PROVE GateInv(v)'
  <2>1. lastGate' = lastGate /\ tiles' = tiles /\ loadRow' = loadRow
    BY <1>17 DEF PushReads, producerVars
  <2>2. QED
    BY <1>1, <1>17, <2>1, GateQuiet
<1>18. ASSUME NEW x, PushCompletes(x) PROVE GateInv(v)'
  <2>1. lastGate' = lastGate /\ tiles' = tiles /\ row' = row /\ got' = got /\ loadRow' = loadRow
    BY <1>18 DEF PushCompletes, producerVars
  <2>2. QED
    BY <1>1, <1>18, <2>1, GateQuiet
<1>19. ASSUME NEW g, TilePublished(g) PROVE GateInv(v)'
  <2>1. /\ lastGate' = lastGate /\ row' = row /\ got' = got /\ loadRow' = loadRow
        /\ g \in Gate /\ tiles' = [tiles EXCEPT ![g] = @ + 1]
    BY <1>19 DEF TilePublished, producerVars
  <2>2. \A h \in Gate : tiles[h] >= GateTarget => tiles'[h] >= GateTarget
    BY <1>a, <2>1, AllToAllAssumption
  <2>3. \A x \in Block(v) : List[x].gate \in Gate
    BY <1>b
  <2>4. QED
    BY <1>1, <2>1, <2>2, <2>3 DEF GateInv
<1>20. QED
  BY <1>2, <1>3, <1>4, <1>5, <1>6, <1>7, <1>8, <1>9, <1>10, <1>11, <1>12, <1>13, <1>14, <1>15, <1>16, <1>17, <1>18, <1>19
     DEF Next, WorkerStep, ProducerStep, Producer, ConsumerStep, Consumer, SimtWarp, MemoryStep

-----------------------------------------------------------------------------
(* Theorems. *)

\* The invariant of threads, stages and polls.
MemoryInv == TypeInv /\ \A w \in Worker : PlaceInv(w) /\ RingInv(w) /\ GateInv(w)

\* The kernel starts with empty rings and no gate passed.
LEMMA InitMemory == Init => MemoryInv
<1> SUFFICES ASSUME Init PROVE MemoryInv
  OBVIOUS
<1>1. TypeInv
  BY InitType
<1>2. ASSUME NEW w \in Worker PROVE PlaceInv(w) /\ RingInv(w) /\ GateInv(w)
  <2>1. /\ launch \in Launches /\ loadRow[w] = First(w) /\ released[w] = First(w)
        /\ row[w] = First(w) /\ cpc[w] = "wait" /\ count[w] = 0 /\ pendSeg[w] = -1
        /\ lastGate[w] = -1 /\ landed = {} /\ got = [x \in RowIdx |-> 0]
    BY DEF Init
  <2>2. /\ First(w) \in Nat /\ Stages \in Nat \ {0} /\ Block(w) \subseteq RowIdx
        /\ \A x \in Block(w) : x \in Int /\ First(w) <= x
    BY <2>1, Blocks, AllToAllAssumption DEF Block
  <2>3. PlaceInv(w)
    BY <2>1, <2>2 DEF PlaceInv
  <2>4. RingInv(w)
    BY <2>1, <2>2 DEF RingInv, RingRow, Issued
  <2>5. -1 \notin Gate
    BY <2>1, Blocks DEF Gate
  <2>6. GateInv(w)
    BY <2>1, <2>2, <2>5 DEF GateInv
  <2>7. QED
    BY <2>3, <2>4, <2>6
<1>3. QED
  BY <1>1, <1>2 DEF MemoryInv

\* The memory invariant is inductive.
LEMMA MemoryStepInv ==
  ASSUME MemoryInv, [Next]_vars
  PROVE  MemoryInv'
BY TypeStep, PlaceStep, RingStep, GateStep DEF MemoryInv

\* The blocks of the workers cover the list.
LEMMA EveryRowHasAWorker ==
  ASSUME launch \in Launches, NEW x \in RowIdx
  PROVE  \E w \in Worker : x \in Block(w)
<1>1. /\ Len(List) \in Nat /\ RowIdx = 1 .. Len(List) /\ NWorkers \in Nat \ {0}
      /\ x \in 1 .. Len(List)
  BY Blocks, AllToAllAssumption
<1>2. PICK t \in Nat : PerWorker = t /\ Len(List) <= NWorkers * t
  <2>1. Len(List) + NWorkers - 1 \in Nat
    BY <1>1
  <2>2. /\ Len(List) + NWorkers - 1 = NWorkers * PerWorker + ((Len(List) + NWorkers - 1) % NWorkers)
        /\ PerWorker \in Nat
    BY <1>1, <2>1 DEF PerWorker
  <2>3. (Len(List) + NWorkers - 1) % NWorkers \in 0 .. NWorkers - 1
    BY <1>1, <2>1
  <2>4. QED
    BY <1>1, <2>2, <2>3
<1>3. t \in Nat \ {0}
  BY <1>1, <1>2
<1>4. PICK q \in Nat : t * q <= x - 1 /\ x - 1 < t * q + t
  <2>1. /\ x - 1 = t * ((x - 1) \div t) + ((x - 1) % t) /\ (x - 1) % t \in 0 .. t - 1
        /\ (x - 1) \div t \in Nat
    BY <1>1, <1>3
  <2> DEFINE d == (x - 1) \div t
             r == (x - 1) % t
  <2>2. x - 1 = t * d + r /\ r \in Nat /\ r < t /\ d \in Nat
    BY <2>1, <1>3
  <2> HIDE DEF d, r
  <2>3. t * d \in Nat
    BY <2>2, <1>3
  <2>4. t * d <= x - 1 /\ x - 1 < t * d + t
    BY <2>2, <2>3, <1>3
  <2>5. QED
    BY <2>2, <2>4
<1>5. q < NWorkers
  <2>1. q >= NWorkers => t * q >= t * NWorkers
    BY <1>1, <1>3
  <2>2. t * NWorkers = NWorkers * t
    BY <1>1
  <2>3. QED
    BY <1>1, <1>2, <1>3, <1>4, <2>1, <2>2
<1>6. q + 1 \in Worker
  BY <1>1, <1>5 DEF Worker
<1>7. x \in Block(q + 1)
  <2>1. (q + 1) * t = t * q + t /\ ((q + 1) - 1) * t = t * q
    BY <1>3
  <2>2. First(q + 1) = t * q + 1 /\ Last(q + 1) = IF t * q + t <= Len(List) THEN t * q + t ELSE Len(List)
    BY <1>2, <2>1 DEF First, Last
  <2>3. QED
    BY <1>1, <1>3, <1>4, <2>2 DEF Block
<1>8. QED
  BY <1>6, <1>7

\* Every reachable state of either backend has the invariant of its threads,
\* stages and polls.
THEOREM MemoryInvariance == Spec => []MemoryInv
<1>1. MemoryInv /\ [Next]_vars => MemoryInv'
  BY MemoryStepInv
<1>2. QED
  BY InitMemory, <1>1, PTL DEF Spec

\* A push reads the row it was issued for, never a later row of the ring or a
\* half-written stage, and in the push-combine no row that the local GEMM has
\* not finished (the SMEM-read wait of the consumer, the producer's polls).
THEOREM PushesAreOwn == Spec => []PushesOwnRow
<1>1. ASSUME MemoryInv PROVE PushesOwnRow
  <2> SUFFICES ASSUME NEW x \in RowIdx
               PROVE  /\ got[x] \in {0, x}
                      /\ got[x] = x /\ Gated => tiles[List[x].gate] >= GateTarget
    BY DEF PushesOwnRow
  <2>1. launch \in Launches /\ x # 0
    BY <1>1, Blocks DEF MemoryInv, TypeInv
  <2>2. PICK w \in Worker : x \in Block(w)
    BY <2>1, EveryRowHasAWorker
  <2>3. RingRow(w, x) /\ GateInv(w)
    BY <1>1, <2>2 DEF MemoryInv, RingInv
  <2>4. Gated /\ got[x] # 0 => x < (IF Simt THEN row[w] ELSE loadRow[w])
    BY <2>2, <2>3 DEF RingRow, GateInv
  <2>5. QED
    BY <2>1, <2>2, <2>3, <2>4 DEF RingRow, GateInv
<1>2. QED
  BY MemoryInvariance, <1>1, PTL

-----------------------------------------------------------------------------
(* The segment counts of a worker. *)

\* A step that leaves the counters of worker v alone.
CountSame(v) ==
  /\ launch' = launch
  /\ row'[v] = row[v] /\ cpc'[v] = cpc[v] /\ curSeg'[v] = curSeg[v] /\ count'[v] = count[v]
  /\ pendSeg'[v] = pendSeg[v] /\ pendCount'[v] = pendCount[v] /\ pendRow'[v] = pendRow[v]

\* A step that leaves a worker's counters alone keeps what it has not counted.
LEMMA CountKept ==
  ASSUME NEW v \in Worker, CountSame(v)
  PROVE  NextUncounted(v)' = NextUncounted(v) /\ (CountInv(v) => CountInv(v)')
<1>1. First(v)' = First(v) /\ Block(v)' = Block(v) /\ List' = List
  BY Given DEF CountSame
<1>2. QED
  BY <1>1 DEF CountSame, CountInv, NextUncounted

\* Every step keeps the current and the pending segment adjacent in the list,
\* with the counts of the rows behind the consumer.
LEMMA CountStep ==
  ASSUME TypeInv, \A w \in Worker : PlaceInv(w), Publishes, NEW v \in Worker, CountInv(v),
         [Next]_vars
  PROVE  CountInv(v)'
<1>1. /\ launch' = launch /\ Block(v)' = Block(v) /\ First(v)' = First(v) /\ List' = List
      /\ Simt' = Simt
  BY LaunchFixed, Given
<1>a. /\ row \in [Worker -> Nat] /\ cpc \in [Worker -> CPlace] /\ curSeg \in [Worker -> SegOrNone]
      /\ count \in [Worker -> Nat] /\ pendSeg \in [Worker -> SegOrNone]
      /\ pendCount \in [Worker -> Nat] /\ pendRow \in [Worker -> Nat]
      /\ \A x \in Block(v) : x \in Nat /\ First(v) <= x
      /\ First(v) \in Nat /\ First(v) <= row[v]
  BY Blocks DEF TypeInv, ThreadTypes, PlaceInv, Block
<1>2. CASE UNCHANGED vars
  BY <1>2, CountKept DEF vars, segVars, CountSame
<1>3. ASSUME NEW w \in Worker, Arrive(w) PROVE CountInv(v)'
  <2>1. row' = row /\ cpc' = cpc /\ UNCHANGED segVars
    BY <1>3 DEF Arrive
  <2>2. CountSame(v)
    BY <1>1, <2>1 DEF CountSame, segVars
  <2>3. QED
    BY <2>2, CountKept
<1>4. ASSUME NEW w \in Worker, ~Simt, HardDrain(w) PROVE CountInv(v)'
  <2>1. /\ row' = row /\ cpc' = cpc /\ curSeg' = curSeg /\ count' = count /\ pendCount' = pendCount
        /\ pendRow' = pendRow /\ pendSeg' = [pendSeg EXCEPT ![w] = -1]
    BY <1>4 DEF HardDrain
  <2>2. CASE v # w
    <3>1. CountSame(v)
      BY <1>1, <1>a, <2>1, <2>2 DEF CountSame
    <3>2. QED
      BY <3>1, CountKept
  <2>3. CASE v = w
    BY <1>1, <1>a, <2>1, <2>3 DEF CountInv, SegOrNone
  <2>4. QED
    BY <2>2, <2>3
<1>5. ASSUME NEW w \in Worker, ~Simt, PushRow(w) PROVE CountInv(v)'
  <2>1. /\ row' = row /\ cpc[w] = "wait" /\ cpc' = [cpc EXCEPT ![w] = "recycle"]
        /\ row[w] \in Block(w)
    BY <1>5 DEF PushRow, Staged
  <2>2. CASE v # w
    <3>1. CountSame(v)
      BY <1>1, <1>a, <1>5, <2>1, <2>2 DEF CountSame, PushRow
    <3>2. QED
      BY <3>1, CountKept
  <2>3. CASE v = w
    <3>1. CASE Boundary(w)
      <4>1. /\ count[v] > 0 /\ pendSeg'[v] = curSeg[v] /\ pendCount'[v] = count[v]
            /\ pendRow'[v] = row[v] - 1 /\ curSeg'[v] = List[row[v]].seg /\ count'[v] = 0
        BY <1>a, <1>5, <2>1, <2>3, <3>1 DEF PushRow, Boundary
      <4>2. QED
        BY <1>1, <1>a, <2>1, <2>3, <4>1 DEF CountInv
    <3>2. CASE ~Boundary(w)
      <4>1. /\ pendSeg'[v] = pendSeg[v] /\ pendCount'[v] = pendCount[v] /\ pendRow'[v] = pendRow[v]
            /\ curSeg'[v] = List[row[v]].seg /\ count'[v] = count[v]
            /\ curSeg'[v] = curSeg[v] \/ count[v] = 0
        BY <1>a, <1>5, <2>1, <2>3, <3>2 DEF PushRow, Boundary
      <4>2. QED
        BY <1>1, <1>a, <2>1, <2>3, <4>1 DEF CountInv
    <3>3. QED
      BY <3>1, <3>2
  <2>4. QED
    BY <2>2, <2>3
<1>6. ASSUME NEW w \in Worker, ~Simt, Recycle(w) PROVE CountInv(v)'
  <2>1. /\ row' = row /\ cpc[w] = "recycle" /\ cpc' = [cpc EXCEPT ![w] = "window"] /\ curSeg' = curSeg
        /\ count' = count /\ pendCount' = pendCount /\ pendRow' = pendRow /\ pendSeg' = pendSeg
    BY <1>6 DEF Recycle, segVars
  <2>2. CASE v # w
    <3>1. CountSame(v)
      BY <1>1, <1>a, <2>1, <2>2 DEF CountSame
    <3>2. QED
      BY <3>1, CountKept
  <2>3. CASE v = w
    BY <1>1, <1>a, <2>1, <2>3 DEF CountInv, SegOrNone
  <2>4. QED
    BY <2>2, <2>3
<1>7. ASSUME NEW w \in Worker, ~Simt, AdvanceWindow(w) PROVE CountInv(v)'
  <2>1. /\ row' = [row EXCEPT ![w] = @ + 1] /\ cpc[w] = "window" /\ cpc' = [cpc EXCEPT ![w] = "wait"]
        /\ count' = [count EXCEPT ![w] = @ + 1] /\ curSeg' = curSeg /\ pendCount' = pendCount
        /\ pendRow' = pendRow /\ pendSeg' \in {pendSeg, [pendSeg EXCEPT ![w] = -1]}
    BY <1>7 DEF AdvanceWindow
  <2>2. CASE v # w
    <3>1. CountSame(v)
      BY <1>1, <1>a, <2>1, <2>2 DEF CountSame
    <3>2. QED
      BY <3>1, CountKept
  <2>3. CASE v = w
    BY <1>1, <1>a, <2>1, <2>3 DEF CountInv, SegOrNone
  <2>4. QED
    BY <2>2, <2>3
<1>8. ASSUME NEW w \in Worker, ~Simt, DrainTail(w) PROVE CountInv(v)'
  <2>1. /\ row' = row /\ cpc[w] = "wait" /\ cpc' = [cpc EXCEPT ![w] = "tail"] /\ curSeg' = curSeg
        /\ count' = count /\ pendCount' = pendCount /\ pendRow' = pendRow /\ pendSeg' = pendSeg
    BY <1>8 DEF DrainTail, segVars
  <2>2. CASE v # w
    <3>1. CountSame(v)
      BY <1>1, <1>a, <2>1, <2>2 DEF CountSame
    <3>2. QED
      BY <3>1, CountKept
  <2>3. CASE v = w
    BY <1>1, <1>a, <2>1, <2>3 DEF CountInv, SegOrNone
  <2>4. QED
    BY <2>2, <2>3
<1>9. ASSUME NEW w \in Worker, ~Simt, FinishTail(w) PROVE CountInv(v)'
  <2>1. /\ row' = row /\ cpc[w] = "tail" /\ cpc' = [cpc EXCEPT ![w] = "end"] /\ curSeg' = curSeg
        /\ count' = count /\ pendCount' = pendCount /\ pendRow' = pendRow /\ pendSeg' = pendSeg
    BY <1>9 DEF FinishTail, segVars
  <2>2. CASE v # w
    <3>1. CountSame(v)
      BY <1>1, <1>a, <2>1, <2>2 DEF CountSame
    <3>2. QED
      BY <3>1, CountKept
  <2>3. CASE v = w
    BY <1>1, <1>a, <2>1, <2>3 DEF CountInv, SegOrNone
  <2>4. QED
    BY <2>2, <2>3
<1>10. ASSUME NEW w \in Worker, Simt, SimtGate(w) PROVE CountInv(v)'
  <2>1. row' = row /\ cpc' = cpc /\ UNCHANGED segVars
    BY <1>10 DEF SimtGate, AtRow
  <2>2. CountSame(v)
    BY <1>1, <2>1 DEF CountSame, segVars
  <2>3. QED
    BY <2>2, CountKept
<1>11. ASSUME NEW w \in Worker, Simt, SimtFlush(w) PROVE CountInv(v)'
  <2>1. /\ row' = row /\ cpc' = cpc /\ count' = [count EXCEPT ![w] = 0] /\ cpc[w] = "wait"
        /\ curSeg' = [curSeg EXCEPT ![w] = List[row[w]].seg] /\ pendSeg' = pendSeg
        /\ pendCount' = pendCount /\ pendRow' = pendRow
    BY <1>11 DEF SimtFlush, AtRow
  <2>2. CASE v # w
    <3>1. CountSame(v)
      BY <1>1, <1>a, <2>1, <2>2 DEF CountSame
    <3>2. QED
      BY <3>1, CountKept
  <2>3. CASE v = w
    BY <1>1, <1>a, <2>1, <2>3, <1>11 DEF CountInv, SegOrNone, PlaceInv
  <2>4. QED
    BY <2>2, <2>3
<1>12. ASSUME NEW w \in Worker, Simt, SimtPush(w) PROVE CountInv(v)'
  <2>1. /\ row' = [row EXCEPT ![w] = row[w] + 1] /\ cpc' = cpc /\ cpc[w] = "wait"
        /\ count' = [count EXCEPT ![w] = @ + 1] /\ curSeg' = [curSeg EXCEPT ![w] = List[row[w]].seg]
        /\ pendSeg' = pendSeg /\ pendCount' = pendCount /\ pendRow' = pendRow
        /\ List[row[w]].seg = curSeg[w] \/ ~(count[w] > 0)
    BY <1>12 DEF SimtPush, AtRow, Boundary
  <2>2. CASE v # w
    <3>1. CountSame(v)
      BY <1>1, <1>a, <2>1, <2>2 DEF CountSame
    <3>2. QED
      BY <3>1, CountKept
  <2>3. CASE v = w
    BY <1>1, <1>a, <2>1, <2>3, <1>12 DEF CountInv, SegOrNone, PlaceInv
  <2>4. QED
    BY <2>2, <2>3
<1>13. ASSUME NEW w \in Worker, Simt, SimtTail(w) PROVE CountInv(v)'
  <2>1. /\ row' = row /\ cpc[w] = "wait" /\ cpc' = [cpc EXCEPT ![w] = "end"] /\ curSeg' = curSeg
        /\ count' = count /\ pendCount' = pendCount /\ pendRow' = pendRow /\ pendSeg' = pendSeg
    BY <1>13 DEF SimtTail, segVars
  <2>2. CASE v # w
    <3>1. CountSame(v)
      BY <1>1, <1>a, <2>1, <2>2 DEF CountSame
    <3>2. QED
      BY <3>1, CountKept
  <2>3. CASE v = w
    BY <1>1, <1>a, <2>1, <2>3, <1>13 DEF CountInv, SegOrNone, PlaceInv
  <2>4. QED
    BY <2>2, <2>3
<1>14. ASSUME NEW w \in Worker, ~Simt, ProducerGate(w) PROVE CountInv(v)'
  <2>1. row' = row /\ cpc' = cpc /\ UNCHANGED segVars
    BY <1>14 DEF ProducerGate
  <2>2. CountSame(v)
    BY <1>1, <2>1 DEF CountSame, segVars
  <2>3. QED
    BY <2>2, CountKept
<1>15. ASSUME NEW w \in Worker, ~Simt, ProducerLoad(w) PROVE CountInv(v)'
  <2>1. row' = row /\ cpc' = cpc /\ UNCHANGED segVars
    BY <1>15 DEF ProducerLoad
  <2>2. CountSame(v)
    BY <1>1, <2>1 DEF CountSame, segVars
  <2>3. QED
    BY <2>2, CountKept
<1>16. ASSUME NEW w \in Worker, NEW x, ~Simt, LoadLands(w, x) PROVE CountInv(v)'
  <2>1. row' = row /\ cpc' = cpc /\ UNCHANGED segVars
    BY <1>16 DEF LoadLands
  <2>2. CountSame(v)
    BY <1>1, <2>1 DEF CountSame, segVars
  <2>3. QED
    BY <2>2, CountKept
<1>17. ASSUME NEW w \in Worker, NEW x, ~Simt, PushReads(w, x) PROVE CountInv(v)'
  <2>1. row' = row /\ cpc' = cpc /\ UNCHANGED segVars
    BY <1>17 DEF PushReads
  <2>2. CountSame(v)
    BY <1>1, <2>1 DEF CountSame, segVars
  <2>3. QED
    BY <2>2, CountKept
<1>18. ASSUME NEW x, PushCompletes(x) PROVE CountInv(v)'
  <2>1. row' = row /\ cpc' = cpc /\ UNCHANGED segVars
    BY <1>18 DEF PushCompletes
  <2>2. CountSame(v)
    BY <1>1, <2>1 DEF CountSame, segVars
  <2>3. QED
    BY <2>2, CountKept
<1>19. ASSUME NEW g, TilePublished(g) PROVE CountInv(v)'
  <2>1. row' = row /\ cpc' = cpc /\ UNCHANGED segVars
    BY <1>19 DEF TilePublished
  <2>2. CountSame(v)
    BY <1>1, <2>1 DEF CountSame, segVars
  <2>3. QED
    BY <2>2, CountKept
<1>20. QED
  BY <1>2, <1>3, <1>4, <1>5, <1>6, <1>7, <1>8, <1>9, <1>10, <1>11, <1>12, <1>13, <1>14, <1>15, <1>16, <1>17, <1>18, <1>19
     DEF Next, WorkerStep, ProducerStep, Producer, ConsumerStep, Consumer, SimtWarp, MemoryStep

-----------------------------------------------------------------------------
(* What is counted, and what is announced. *)

\* The first uncounted row of a worker is a number.
LEMMA UncountedTypes ==
  ASSUME TypeInv, NEW w \in Worker
  PROVE  NextUncounted(w) \in Int
BY DEF TypeInv, ThreadTypes, NextUncounted

\* The counted and the announced rows are finite sets of rows.
LEMMA CountedSets ==
  ASSUME launch \in Launches
  PROVE  /\ \A s \in Seg : /\ IsFiniteSet(SegRows(s)) /\ SegSize(s) = Cardinality(SegRows(s))
                           /\ Counted(s) \subseteq SegRows(s) /\ IsFiniteSet(Counted(s))
                           /\ Cardinality(Counted(s)) \in Nat /\ SegSize(s) \in Nat
         /\ \A f \in Flag : /\ Announced(f) \subseteq FlagRows(f) /\ FlagRows(f) \subseteq RowIdx
                            /\ IsFiniteSet(Announced(f)) /\ Cardinality(Announced(f)) \in Nat
<1>1. \A s \in Seg : Counted(s) \subseteq SegRows(s) /\ SegRows(s) \subseteq RowIdx
  BY DEF Counted, SegRows
<1>2. \A f \in Flag : Announced(f) \subseteq FlagRows(f) /\ FlagRows(f) \subseteq RowIdx
  BY DEF Announced, FlagRows
<1>3. \A S \in SUBSET RowIdx : IsFiniteSet(S) /\ Cardinality(S) \in Nat
  BY RowSets
<1>4. QED
  BY <1>1, <1>2, <1>3 DEF SegSize

\* A step that counts no row and announces no segment.
LEMMA SegQuiet ==
  ASSUME TypeInv, SegInv, FlagInv, launch' = launch,
         \A v \in Worker : NextUncounted(v)' = NextUncounted(v), UNCHANGED syncVars
  PROVE  SegInv' /\ FlagInv'
<1>1. /\ RowIdx' = RowIdx /\ List' = List /\ \A w \in Worker : Block(w)' = Block(w)
      /\ \A s \in Seg : SegRows(s)' = SegRows(s) /\ SegSize(s)' = SegSize(s)
      /\ \A f \in Flag : FlagRows(f)' = FlagRows(f)
      /\ \A f \in Flag : \A x \in FlagRows(f) : List[x].seg \in Seg
  BY Given, Blocks DEF TypeInv, FlagRows
<1>2. \A s \in Seg : Counted(s)' = Counted(s)
  BY <1>1 DEF Counted
<1>3. \A f \in Flag : Announced(f)' = Announced(f)
  BY <1>1, <1>2 DEF Announced, syncVars
<1>4. /\ owes' = owes /\ view' = view /\ segDone' = segDone /\ segView' = segView
      /\ flags' = flags /\ flagView' = flagView
  BY DEF syncVars
<1>5. \A w \in Worker : owes[w] # -1 => owes[w] \in Seg
  BY DEF TypeInv, SharedTypes, SegOrNone
<1>6. SegInv'
  BY <1>1, <1>2, <1>4, <1>5 DEF SegInv
<1>7. FlagInv'
  BY <1>3, <1>4 DEF FlagInv
<1>8. QED
  BY <1>6, <1>7

\* A publish moves n rows of a segment, all behind its wait, to the counted
\* ones; only the one that completes a segment makes its worker owe the flag.
LEMMA PublishCounts ==
  ASSUME TypeInv, SegInv, FlagInv, launch' = launch, NEW w \in Worker, NEW s \in Seg,
         NEW n \in Nat \ {0}, NEW rows \in SUBSET RowIdx,
         Publish(w, s, n, rows), owes[w] = -1, flags' = flags, flagView' = flagView,
         NextUncounted(w)' = NextUncounted(w) + n,
         \A v \in Worker : v # w => NextUncounted(v)' = NextUncounted(v),
         \A y \in NextUncounted(w) .. NextUncounted(w) + n - 1 :
           y \in Block(w) /\ y \in rows /\ List[y].seg = s
  PROVE  SegInv' /\ FlagInv'
<1> DEFINE new == NextUncounted(w) .. NextUncounted(w) + n - 1
<1>1. /\ launch \in Launches /\ \A v \in Worker : NextUncounted(v) \in Int
      /\ \A v \in Worker : Block(v) \subseteq RowIdx /\ (v # w => Block(v) \cap Block(w) = {})
      /\ \A x \in RowIdx : x \in Int /\ List[x].seg \in Seg
  BY UncountedTypes, Blocks DEF TypeInv
<1>2. /\ RowIdx' = RowIdx /\ List' = List /\ \A v \in Worker : Block(v)' = Block(v)
      /\ \A t \in Seg : SegRows(t)' = SegRows(t) /\ SegSize(t)' = SegSize(t)
      /\ \A f \in Flag : FlagRows(f)' = FlagRows(f)
  BY Given
<1>3. new # {} /\ IsFiniteSet(new) /\ Cardinality(new) = n /\ new \subseteq SegRows(s)
  <2>1. NextUncounted(w) \in new
    BY <1>1
  <2>2. IsFiniteSet(new) /\ Cardinality(new) = n
    BY <1>1, FS_Interval
  <2>3. new \subseteq SegRows(s)
    BY <1>1 DEF SegRows
  <2>4. QED
    BY <2>1, <2>2, <2>3
<1>4. new \cap Counted(s) = {}
  BY <1>1 DEF Counted
<1>5. Counted(s)' = Counted(s) \cup new
  <2>1. ASSUME NEW x \in Counted(s)' PROVE x \in Counted(s) \cup new
    <3>1. PICK v \in Worker : x \in Block(v) /\ x < NextUncounted(v)'
      BY <1>2, <2>1 DEF Counted
    <3>2. x \in SegRows(s) /\ x \in Int
      BY <1>1, <1>2, <2>1, <3>1 DEF Counted
    <3>3. QED
      BY <1>1, <3>1, <3>2 DEF Counted
  <2>2. ASSUME NEW x \in Counted(s) PROVE x \in Counted(s)'
    <3>1. PICK v \in Worker : x \in Block(v) /\ x < NextUncounted(v)
      BY <2>2 DEF Counted
    <3>2. x \in SegRows(s) /\ x \in Int /\ NextUncounted(v) \in Int
      BY <1>1, <2>2, <3>1 DEF Counted
    <3>3. x < NextUncounted(v)'
      BY <1>1, <3>1, <3>2
    <3>4. QED
      BY <1>2, <3>1, <3>2, <3>3 DEF Counted
  <2>3. ASSUME NEW x \in new PROVE x \in Counted(s)'
    <3>1. x \in SegRows(s) /\ x \in Block(w) /\ x < NextUncounted(w)'
      BY <1>1, <1>3, <2>3
    <3>2. QED
      BY <1>2, <3>1 DEF Counted
  <2>4. QED
    BY <2>1, <2>2, <2>3
<1>6. ASSUME NEW t \in Seg, t # s PROVE Counted(t)' = Counted(t)
  <2>1. \A x \in SegRows(t) : x \notin new /\ x \in Int
    BY <1>1, <1>3, <1>6 DEF SegRows
  <2>2. \A x \in SegRows(t) : \A v \in Worker : x \in Block(v) =>
          (x < NextUncounted(v)' <=> x < NextUncounted(v))
    BY <1>1, <2>1
  <2>3. QED
    BY <1>2, <2>2 DEF Counted
<1>7. Cardinality(Counted(s)') = segDone[s] + n /\ segDone[s] \in Nat
  <2>1. IsFiniteSet(Counted(s)) /\ Cardinality(Counted(s)) \in Nat /\ segDone[s] = Cardinality(Counted(s))
    BY <1>1, CountedSets DEF SegInv
  <2>2. Cardinality(Counted(s) \cap new) = 0
    BY <1>4, FS_EmptySet
  <2>3. Cardinality(Counted(s) \cup new) = Cardinality(Counted(s)) + n - 0
    <3> HIDE DEF new
    <3>1. Cardinality(Counted(s) \cup new)
            = Cardinality(Counted(s)) + Cardinality(new) - Cardinality(Counted(s) \cap new)
      BY <1>3, <2>1, FS_Union
    <3>2. QED
      BY <1>3, <2>2, <3>1
  <2>4. QED
    BY <1>5, <2>1, <2>3
<1>8. Counted(s) # SegRows(s) /\ \A v \in Worker : owes[v] # s
  <2>1. Counted(s) # SegRows(s)
    BY <1>3, <1>4
  <2>2. s # -1
    BY AllToAllAssumption DEF Seg
  <2>3. QED
    BY <2>1, <2>2 DEF SegInv
<1>9. Counted(s)' = SegRows(s) <=> segDone[s] + n = SegSize(s)
  <2>1. Counted(s)' \subseteq SegRows(s) /\ IsFiniteSet(SegRows(s)) /\ SegSize(s) = Cardinality(SegRows(s))
    BY <1>1, <1>3, <1>5, CountedSets
  <2>2. QED
    BY <1>7, <2>1, FS_Subset
<1>10. /\ segDone' = [segDone EXCEPT ![s] = @ + n]
       /\ segView' = [segView EXCEPT ![s] = @ \cup view[w] \cup rows]
       /\ view' = [view EXCEPT ![w] = @ \cup rows \cup segView[s]]
       /\ owes' = [owes EXCEPT ![w] = IF segDone[s] + n = SegSize(s) THEN s ELSE -1]
       /\ segDone \in [Seg -> Nat] /\ segView \in [Seg -> SUBSET RowIdx]
       /\ view \in [Worker -> SUBSET RowIdx] /\ owes \in [Worker -> SegOrNone]
  BY DEF Publish, TypeInv, SharedTypes
<1>11. ASSUME NEW t \in Seg
       PROVE  segDone'[t] = Cardinality(Counted(t)') /\ Counted(t)' \subseteq segView'[t]
  <2>1. CASE t = s
    <3>1. Counted(s) \subseteq segView[s] /\ new \subseteq rows
      BY DEF SegInv
    <3>2. QED
      BY <1>5, <1>7, <1>10, <2>1, <3>1
  <2>2. CASE t # s
    <3>1. Counted(t)' = Counted(t) /\ segDone'[t] = segDone[t] /\ segView'[t] = segView[t]
      BY <1>6, <1>10, <2>2
    <3>2. QED
      BY <3>1 DEF SegInv
  <2>3. QED
    BY <2>1, <2>2
<1>12. ASSUME NEW v \in Worker, NEW t \in Seg, owes'[v] = t
       PROVE  /\ SegRows(t) # {} /\ Counted(t)' = SegRows(t) /\ SegRows(t) \subseteq view'[v]
              /\ \A u \in Worker : owes'[u] = t => u = v
  <2>a. t # -1
    BY AllToAllAssumption DEF Seg
  <2>1. CASE v = w
    <3>1. t = s /\ segDone[s] + n = SegSize(s)
      BY <1>10, <1>12, <2>a, <2>1
    <3>2. Counted(s)' = SegRows(s)
      BY <1>9, <3>1
    <3>3. SegRows(s) \subseteq view'[w]
      <4>1. Counted(s) \subseteq segView[s] /\ new \subseteq rows
        BY DEF SegInv
      <4>2. QED
        BY <1>5, <1>10, <3>2, <4>1
    <3>4. \A u \in Worker : u # w => owes'[u] # s
      BY <1>8, <1>10
    <3>5. QED
      BY <1>3, <2>1, <3>1, <3>2, <3>3, <3>4
  <2>2. CASE v # w
    <3>1. owes[v] = t /\ t # s /\ view'[v] = view[v]
      BY <1>8, <1>10, <1>12, <2>2
    <3>2. Counted(t)' = Counted(t)
      BY <1>6, <3>1
    <3>3. \A u \in Worker : owes'[u] = t => owes[u] = t
      BY <1>10, <2>a, <3>1
    <3>4. /\ SegRows(t) # {} /\ Counted(t) = SegRows(t) /\ SegRows(t) \subseteq view[v]
          /\ \A u \in Worker : owes[u] = t => u = v
      BY <3>1 DEF SegInv
    <3>5. QED
      BY <3>1, <3>2, <3>3, <3>4
  <2>3. QED
    BY <2>1, <2>2
<1>13. SegInv'
  <2>1. \A t \in Seg : SegRows(t)' = SegRows(t)
    BY <1>2
  <2>2. QED
    BY <2>1, <1>11, <1>12 DEF SegInv
<1>14. ASSUME NEW f \in Flag PROVE Announced(f)' = Announced(f)
  <2>1. ASSUME NEW x \in FlagRows(f), List[x].seg # s
        PROVE  /\ Counted(List[x].seg)' = Counted(List[x].seg) /\ List[x].seg \in Seg
               /\ \A v \in Worker : owes'[v] = List[x].seg <=> owes[v] = List[x].seg
    <3>1. List[x].seg \in Seg /\ List[x].seg # -1
      BY <1>1, AllToAllAssumption DEF FlagRows, Seg
    <3>2. \A v \in Worker : owes'[v] = List[x].seg <=> owes[v] = List[x].seg
      BY <1>10, <2>1, <3>1
    <3>3. QED
      BY <1>2, <1>6, <2>1, <3>1, <3>2
  <2>2. Counted(s)' = SegRows(s) => owes'[w] = s
    BY <1>9, <1>10
  <2>3. \A x \in FlagRows(f) :
          /\ Counted(List[x].seg)' = SegRows(List[x].seg)
          /\ \A v \in Worker : owes'[v] # List[x].seg
          <=> /\ Counted(List[x].seg) = SegRows(List[x].seg)
              /\ \A v \in Worker : owes[v] # List[x].seg
    <3>1. ASSUME NEW x \in FlagRows(f), List[x].seg = s
          PROVE  ~(Counted(List[x].seg)' = SegRows(List[x].seg) /\ \A v \in Worker : owes'[v] # List[x].seg)
      BY <1>2, <2>2, <3>1
    <3>2. \A x \in FlagRows(f) : List[x].seg = s => Counted(List[x].seg) # SegRows(List[x].seg)
      BY <1>8
    <3>3. QED
      BY <1>2, <2>1, <3>1, <3>2
  <2>4. /\ FlagRows(f)' = FlagRows(f) /\ List' = List
        /\ \A x \in FlagRows(f) : SegRows(List[x].seg)' = SegRows(List[x].seg)
    BY <1>1, <1>2 DEF FlagRows
  <2>5. QED
    BY <2>3, <2>4 DEF Announced
<1>15. FlagInv'
  BY <1>14 DEF FlagInv
<1>16. QED
  BY <1>13, <1>15

\* A release announces the rows of a segment that all are ordered before it.
LEMMA ArriveCounts ==
  ASSUME TypeInv, SegInv, FlagInv, NEW w \in Worker, Arrive(w)
  PROVE  SegInv' /\ FlagInv'
<1> DEFINE s == owes[w]
<1>1. /\ launch \in Launches /\ s \in Seg /\ s # -1
      /\ \A x \in RowIdx : List[x].seg \in Seg
      /\ owes \in [Worker -> SegOrNone] /\ flags \in [Flag -> Nat] /\ flagView \in [Flag -> SUBSET RowIdx]
  BY Blocks DEF TypeInv, SharedTypes, SegOrNone, Arrive
<1>2. /\ launch' = launch /\ owes' = [owes EXCEPT ![w] = -1] /\ view' = view
      /\ segDone' = segDone /\ segView' = segView
      /\ flags' = [flags EXCEPT ![FlagOf(s)] = @ + SegSize(s)]
      /\ flagView' = [flagView EXCEPT ![FlagOf(s)] = @ \cup view[w]]
      /\ UNCHANGED segVars /\ row' = row /\ cpc' = cpc
  BY DEF Arrive
<1>3. \A v \in Worker : NextUncounted(v)' = NextUncounted(v)
  BY <1>2 DEF NextUncounted, segVars
<1>4. /\ RowIdx' = RowIdx /\ List' = List /\ \A v \in Worker : Block(v)' = Block(v)
      /\ \A t \in Seg : SegRows(t)' = SegRows(t) /\ SegSize(t)' = SegSize(t) /\ FlagOf(t)' = FlagOf(t)
      /\ \A f \in Flag : FlagRows(f)' = FlagRows(f)
  BY <1>2, Given
<1>5. \A t \in Seg : Counted(t)' = Counted(t)
  BY <1>3, <1>4 DEF Counted
<1>6. /\ SegRows(s) # {} /\ Counted(s) = SegRows(s) /\ SegRows(s) \subseteq view[w]
      /\ \A v \in Worker : owes[v] = s => v = w
  BY <1>1 DEF SegInv
<1>7. SegInv'
  <2>1. \A v \in Worker, t \in Seg : owes'[v] = t => owes[v] = t
    BY <1>1, <1>2, AllToAllAssumption DEF Seg
  <2>3. \A t \in Seg : segDone'[t] = Cardinality(Counted(t)') /\ Counted(t)' \subseteq segView'[t]
    BY <1>2, <1>5 DEF SegInv
  <2>4. ASSUME NEW v \in Worker, NEW t \in Seg, owes'[v] = t
        PROVE  /\ SegRows(t)' # {} /\ Counted(t)' = SegRows(t)' /\ SegRows(t)' \subseteq view'[v]
               /\ \A u \in Worker : owes'[u] = t => u = v
    <3>1. owes[v] = t
      BY <2>1, <2>4
    <3>2. SegRows(t)' = SegRows(t) /\ Counted(t)' = Counted(t)
      BY <1>4, <1>5
    <3>3. /\ SegRows(t) # {} /\ Counted(t) = SegRows(t) /\ SegRows(t) \subseteq view[v]
          /\ \A u \in Worker : owes[u] = t => u = v
      BY <3>1 DEF SegInv
    <3>4. QED
      BY <1>2, <2>1, <3>2, <3>3
  <2>5. QED
    BY <2>3, <2>4 DEF SegInv
<1>8. ASSUME NEW f \in Flag
      PROVE  flags'[f] = Cardinality(Announced(f)') /\ Announced(f)' \subseteq flagView'[f]
  <2>1. ASSUME NEW x \in FlagRows(f)
        PROVE  /\ List[x].seg \in Seg /\ x \in RowIdx /\ FlagOf(List[x].seg) = f
               /\ x \in Announced(f)' <=>
                    /\ Counted(List[x].seg) = SegRows(List[x].seg)
                    /\ \A v \in Worker : owes'[v] # List[x].seg
    <3>1. List[x].seg \in Seg /\ x \in RowIdx /\ FlagOf(List[x].seg) = f
      BY <1>1 DEF FlagRows
    <3>2. /\ Counted(List[x].seg)' = Counted(List[x].seg) /\ SegRows(List[x].seg)' = SegRows(List[x].seg)
          /\ FlagRows(f)' = FlagRows(f) /\ List' = List
      BY <1>4, <1>5, <3>1
    <3>3. QED
      BY <3>1, <3>2 DEF Announced
  <2>2. Announced(f)' \subseteq FlagRows(f)
    BY <1>4 DEF Announced
  <2>3. \A x \in FlagRows(f) : List[x].seg # s => (x \in Announced(f)' <=> x \in Announced(f))
    <3>1. \A t \in Seg : t # s => \A v \in Worker : owes'[v] = t <=> owes[v] = t
      BY <1>1, <1>2, AllToAllAssumption DEF Seg
    <3>2. QED
      BY <2>1, <3>1 DEF Announced
  <2>4. \A x \in FlagRows(f) : List[x].seg = s => x \in Announced(f)' /\ x \notin Announced(f)
    <3>1. \A v \in Worker : owes'[v] # s
      BY <1>1, <1>2, <1>6
    <3>2. QED
      BY <1>6, <2>1, <3>1 DEF Announced
  <2>5. CASE f # FlagOf(s)
    <3>1. Announced(f)' = Announced(f)
      BY <2>1, <2>2, <2>3, <2>5 DEF Announced
    <3>2. flags'[f] = flags[f] /\ flagView'[f] = flagView[f]
      BY <1>1, <1>2, <2>5
    <3>3. QED
      BY <3>1, <3>2 DEF FlagInv
  <2>6. CASE f = FlagOf(s)
    <3>1. SegRows(s) \subseteq FlagRows(f)
      BY <2>6 DEF SegRows, FlagRows
    <3>2. Announced(f)' = Announced(f) \cup SegRows(s) /\ Announced(f) \cap SegRows(s) = {}
      <4>1. \A x \in FlagRows(f) : x \in SegRows(s) <=> List[x].seg = s
        BY <2>1 DEF SegRows
      <4>2. Announced(f) \subseteq FlagRows(f)
        BY DEF Announced
      <4>3. QED
        BY <2>2, <2>3, <2>4, <3>1, <4>1, <4>2
    <3>3. Cardinality(Announced(f)') = Cardinality(Announced(f)) + SegSize(s)
      <4>1. IsFiniteSet(Announced(f)) /\ Cardinality(Announced(f)) \in Nat
        BY <1>1, CountedSets
      <4>2. IsFiniteSet(SegRows(s)) /\ SegSize(s) = Cardinality(SegRows(s)) /\ SegSize(s) \in Nat
        BY <1>1, CountedSets
      <4>3. Cardinality(Announced(f) \cap SegRows(s)) = 0
        BY <3>2, FS_EmptySet
      <4>4. Cardinality(Announced(f) \cup SegRows(s))
              = Cardinality(Announced(f)) + Cardinality(SegRows(s)) - Cardinality(Announced(f) \cap SegRows(s))
        BY <4>1, <4>2, FS_Union
      <4>5. QED
        BY <3>2, <4>1, <4>2, <4>3, <4>4
    <3>4. flags'[f] = flags[f] + SegSize(s) /\ flagView'[f] = flagView[f] \cup view[w]
      BY <1>1, <1>2, <2>6
    <3>5. QED
      BY <1>6, <3>2, <3>3, <3>4 DEF FlagInv
  <2>7. QED
    BY <2>5, <2>6
<1>9. QED
  BY <1>7, <1>8 DEF FlagInv

\* The rows that wait for their publish: those of the pending segment, and
\* behind them those of the current one.
LEMMA PendRows ==
  ASSUME TypeInv, NEW w \in Worker, PlaceInv(w), CountInv(w), pendSeg[w] # -1,
         cpc[w] \notin {"tail", "end"}
  PROVE  /\ pendSeg[w] \in Seg /\ pendCount[w] \in Nat \ {0}
         /\ NextUncounted(w) \in Int /\ row[w] - count[w] = NextUncounted(w) + pendCount[w]
         /\ \A y \in NextUncounted(w) .. NextUncounted(w) + pendCount[w] - 1 :
              y \in Block(w) /\ y <= pendRow[w] /\ y < row[w] /\ List[y].seg = pendSeg[w]
<1>1. /\ row[w] \in Nat /\ count[w] \in Nat /\ pendCount[w] \in Nat /\ pendRow[w] \in Nat
      /\ pendSeg[w] \in Seg /\ First(w) \in Nat /\ Last(w) \in Int
  BY Blocks DEF TypeInv, ThreadTypes, SegOrNone
<1>2. /\ pendCount[w] >= 1 /\ pendRow[w] = row[w] - count[w] - 1
      /\ NextUncounted(w) = pendRow[w] - pendCount[w] + 1 /\ NextUncounted(w) >= First(w)
      /\ \A x \in Block(w) : x <= pendRow[w] /\ x > pendRow[w] - pendCount[w] => List[x].seg = pendSeg[w]
  BY DEF CountInv, NextUncounted
<1>3. \A y \in NextUncounted(w) .. NextUncounted(w) + pendCount[w] - 1 :
        y \in Block(w) /\ y <= pendRow[w] /\ y < row[w]
  BY <1>1, <1>2 DEF PlaceInv, Block
<1>4. QED
  BY <1>1, <1>2, <1>3

\* The rows of the current segment, once no segment is pending before it.
LEMMA CurRows ==
  ASSUME TypeInv, NEW w \in Worker, PlaceInv(w), CountInv(w), count[w] > 0, cpc[w] # "end",
         cpc[w] = "tail" \/ pendSeg[w] = -1
  PROVE  /\ curSeg[w] \in Seg /\ count[w] \in Nat \ {0}
         /\ NextUncounted(w) \in Int /\ NextUncounted(w) = row[w] - count[w]
         /\ \A y \in NextUncounted(w) .. NextUncounted(w) + count[w] - 1 :
              y \in Block(w) /\ y <= row[w] - 1 /\ List[y].seg = curSeg[w]
<1>1. /\ row[w] \in Nat /\ count[w] \in Nat \ {0} /\ curSeg[w] \in Seg
      /\ First(w) \in Nat /\ Last(w) \in Int
  BY Blocks DEF TypeInv, ThreadTypes, PlaceInv
<1>2. NextUncounted(w) = row[w] - count[w] /\ count[w] <= row[w] - First(w)
  BY DEF CountInv, NextUncounted
<1>3. \A y \in NextUncounted(w) .. NextUncounted(w) + count[w] - 1 :
        y \in Block(w) /\ y <= row[w] - 1 /\ y < row[w] /\ y >= row[w] - count[w]
  BY <1>1, <1>2 DEF PlaceInv, Block
<1>4. QED
  BY <1>1, <1>2, <1>3 DEF CountInv

\* Every step keeps seg_done at the rows counted, and each flag at the rows of
\* the segments announced on it.
LEMMA SegStep ==
  ASSUME TypeInv, \A w \in Worker : PlaceInv(w) /\ CountInv(w), Publishes, SegInv, FlagInv,
         [Next]_vars
  PROVE  SegInv' /\ FlagInv'
<1>1. launch' = launch /\ launch \in Launches /\ \A w \in Worker : \A x : UpTo(w, x) \in SUBSET RowIdx
  BY LaunchFixed, UpToRows DEF TypeInv
<1>a. /\ row \in [Worker -> Nat] /\ cpc \in [Worker -> CPlace] /\ curSeg \in [Worker -> SegOrNone]
      /\ count \in [Worker -> Nat] /\ pendSeg \in [Worker -> SegOrNone]
      /\ pendCount \in [Worker -> Nat] /\ pendRow \in [Worker -> Nat]
      /\ \A w \in Worker : Block(w) \in SUBSET RowIdx
  BY UpToRows DEF TypeInv, ThreadTypes
<1>2. CASE UNCHANGED vars
  <2>1. \A v \in Worker : NextUncounted(v)' = NextUncounted(v)
    BY <1>2 DEF vars, segVars, NextUncounted
  <2>2. QED
    BY <1>1, <1>2, <2>1, SegQuiet DEF vars
<1>3. ASSUME NEW w \in Worker, Arrive(w) PROVE SegInv' /\ FlagInv'
  BY <1>3, ArriveCounts
<1>4. ASSUME NEW w \in Worker, ~Simt, HardDrain(w) PROVE SegInv' /\ FlagInv'
  <2>1. /\ row' = row /\ cpc' = cpc /\ curSeg' = curSeg /\ count' = count /\ pendCount' = pendCount
        /\ pendRow' = pendRow /\ pendSeg' = [pendSeg EXCEPT ![w] = -1]
        /\ flags' = flags /\ flagView' = flagView
    BY <1>4 DEF HardDrain
  <2>2. owes[w] = -1 /\ pendSeg[w] # -1 /\ cpc[w] = "wait"
    BY <1>4 DEF HardDrain, Staged, Boundary, MustDrain
  <2>3. \A v \in Worker : v # w => NextUncounted(v)' = NextUncounted(v)
    BY <1>a, <2>1 DEF NextUncounted
  <2>11. Publish(w, pendSeg[w], pendCount[w], UpTo(w, row[w] - 1))
    BY <1>1, <1>4 DEF HardDrain
  <2>12. /\ pendSeg[w] \in Seg /\ pendCount[w] \in Nat \ {0}
      /\ NextUncounted(w) \in Int /\ row[w] - count[w] = NextUncounted(w) + pendCount[w]
      /\ \A y \in NextUncounted(w) .. NextUncounted(w) + pendCount[w] - 1 :
           y \in Block(w) /\ y <= pendRow[w] /\ y < row[w] /\ List[y].seg = pendSeg[w]
    BY <1>a, <2>1, <2>2, PendRows
  <2>14. NextUncounted(w)' = NextUncounted(w) + pendCount[w]
    BY <1>a, <2>1, <2>12 DEF NextUncounted
  <2>15. \A y \in NextUncounted(w) .. NextUncounted(w) + pendCount[w] - 1 :
         y \in Block(w) /\ y \in UpTo(w, row[w] - 1) /\ List[y].seg = pendSeg[w]
    BY <1>a, <2>12 DEF UpTo
  <2>16. UpTo(w, row[w] - 1) \in SUBSET RowIdx
    BY <1>1, <1>a
  <2>20. QED
    BY <1>1, <2>1, <2>2, <2>3, <2>11, <2>12, <2>14, <2>15, <2>16, PublishCounts
<1>5. ASSUME NEW w \in Worker, ~Simt, PushRow(w) PROVE SegInv' /\ FlagInv'
  <2>1. /\ UNCHANGED syncVars /\ row' = row /\ cpc[w] = "wait" /\ cpc' = [cpc EXCEPT ![w] = "recycle"]
    BY <1>5 DEF PushRow, Staged
  <2>2. ASSUME NEW v \in Worker PROVE NextUncounted(v)' = NextUncounted(v)
    <3>1. CASE v # w
      BY <1>a, <1>5, <2>1, <3>1 DEF NextUncounted, PushRow
    <3>2. CASE v = w /\ Boundary(w)
      <4>1. /\ count[v] > 0 /\ pendSeg[v] = -1 /\ pendSeg'[v] = curSeg[v] /\ pendCount'[v] = count[v]
            /\ pendRow'[v] = row[v] - 1 /\ curSeg[v] # -1
        <5>1. curSeg[w] # -1
          BY <3>2, AllToAllAssumption DEF PlaceInv, Boundary, Seg
        <5>2. QED
          BY <1>a, <1>5, <3>2, <5>1 DEF PushRow, Boundary, MustDrain
      <4>2. QED
        BY <1>a, <2>1, <3>2, <4>1 DEF NextUncounted
    <3>3. CASE v = w /\ ~Boundary(w)
      <4>1. /\ pendSeg'[v] = pendSeg[v] /\ pendCount'[v] = pendCount[v] /\ pendRow'[v] = pendRow[v]
            /\ count'[v] = count[v]
        BY <1>a, <1>5, <2>1, <3>3 DEF PushRow, Boundary
      <4>2. QED
        BY <1>a, <2>1, <3>3, <4>1 DEF NextUncounted
    <3>4. QED
      BY <3>1, <3>2, <3>3
  <2>3. QED
    BY <1>1, <2>1, <2>2, SegQuiet
<1>6. ASSUME NEW w \in Worker, ~Simt, Recycle(w) PROVE SegInv' /\ FlagInv'
  <2>1. /\ row' = row /\ cpc[w] = "recycle" /\ cpc' = [cpc EXCEPT ![w] = "window"] /\ curSeg' = curSeg
        /\ count' = count /\ pendCount' = pendCount /\ pendRow' = pendRow /\ pendSeg' = pendSeg
        /\ UNCHANGED syncVars
    BY <1>6 DEF Recycle, segVars
  <2>2. \A v \in Worker : NextUncounted(v)' = NextUncounted(v)
    BY <1>a, <1>6, <2>1 DEF NextUncounted, PlaceInv
  <2>3. QED
    BY <1>1, <2>1, <2>2, SegQuiet
<1>7. ASSUME NEW w \in Worker, ~Simt, AdvanceWindow(w) PROVE SegInv' /\ FlagInv'
  <2>1. /\ row' = [row EXCEPT ![w] = @ + 1] /\ cpc[w] = "window" /\ cpc' = [cpc EXCEPT ![w] = "wait"]
        /\ count' = [count EXCEPT ![w] = @ + 1] /\ curSeg' = curSeg /\ pendCount' = pendCount
        /\ pendRow' = pendRow /\ (Publishes /\ pendSeg[w] # -1 /\ WatermarkPassed(w) => pendSeg' = [pendSeg EXCEPT ![w] = -1])
        /\ (~(Publishes /\ pendSeg[w] # -1 /\ WatermarkPassed(w)) => pendSeg' = pendSeg)
        /\ flags' = flags /\ flagView' = flagView
    BY <1>7 DEF AdvanceWindow
  <2>2. owes[w] = -1
    BY <2>1 DEF PlaceInv
  <2>3. \A v \in Worker : v # w => NextUncounted(v)' = NextUncounted(v)
    BY <1>a, <2>1 DEF NextUncounted
  <2>4. CASE Publishes /\ pendSeg[w] # -1 /\ WatermarkPassed(w)
    <3>1. Publish(w, pendSeg[w], pendCount[w], UpTo(w, row[w] - Window))
      BY <1>1, <1>7, <2>4 DEF AdvanceWindow
    <3>2. /\ pendSeg[w] \in Seg /\ pendCount[w] \in Nat \ {0}
        /\ NextUncounted(w) \in Int /\ row[w] - count[w] = NextUncounted(w) + pendCount[w]
        /\ \A y \in NextUncounted(w) .. NextUncounted(w) + pendCount[w] - 1 :
             y \in Block(w) /\ y <= pendRow[w] /\ y < row[w] /\ List[y].seg = pendSeg[w]
      BY <1>a, <2>1, <2>2, <2>4, PendRows
    <3>4. NextUncounted(w)' = NextUncounted(w) + pendCount[w]
      BY <1>a, <2>1, <2>4, <3>2 DEF NextUncounted
    <3>5. \A y \in NextUncounted(w) .. NextUncounted(w) + pendCount[w] - 1 :
           y \in Block(w) /\ y \in UpTo(w, row[w] - Window) /\ List[y].seg = pendSeg[w]
      <4>1. pendRow[w] <= row[w] - Window /\ row[w] \in Int /\ Window \in Int /\ pendRow[w] \in Int
        BY <1>a, <2>4, AllToAllAssumption DEF WatermarkPassed
      <4>2. SUFFICES ASSUME NEW y \in NextUncounted(w) .. NextUncounted(w) + pendCount[w] - 1
                     PROVE  y \in Block(w) /\ y <= row[w] - Window /\ List[y].seg = pendSeg[w]
        BY DEF UpTo
      <4>3. y \in Block(w) /\ y <= pendRow[w] /\ List[y].seg = pendSeg[w]
        BY <3>2
      <4>4. y \in Int
        BY <3>2
      <4>5. QED
        BY <4>1, <4>3, <4>4
    <3>6. UpTo(w, row[w] - Window) \in SUBSET RowIdx
      BY <1>1, <1>a
    <3>7. QED
      BY <1>1, <2>1, <2>2, <2>3, <3>1, <3>2, <3>4, <3>5, <3>6, PublishCounts
  <2>5. CASE ~(Publishes /\ pendSeg[w] # -1 /\ WatermarkPassed(w))
    <3>1. UNCHANGED syncVars
      BY <1>7, <2>1, <2>5 DEF AdvanceWindow, syncVars
    <3>2. NextUncounted(w)' = NextUncounted(w)
      BY <1>a, <1>7, <2>1, <2>5 DEF NextUncounted
    <3>3. QED
      BY <1>1, <2>3, <3>1, <3>2, SegQuiet
  <2>6. QED
    BY <2>4, <2>5
<1>8. ASSUME NEW w \in Worker, ~Simt, DrainTail(w) PROVE SegInv' /\ FlagInv'
  <2>1. /\ row' = row /\ cpc[w] = "wait" /\ cpc' = [cpc EXCEPT ![w] = "tail"] /\ curSeg' = curSeg
        /\ count' = count /\ pendCount' = pendCount /\ pendRow' = pendRow /\ pendSeg' = pendSeg
        /\ flags' = flags /\ flagView' = flagView
    BY <1>8 DEF DrainTail, segVars
  <2>2. owes[w] = -1
    BY <1>8 DEF DrainTail
  <2>3. \A v \in Worker : v # w => NextUncounted(v)' = NextUncounted(v)
    BY <1>a, <2>1 DEF NextUncounted
  <2>4. CASE pendSeg[w] # -1
    <3>1. Publish(w, pendSeg[w], pendCount[w], Block(w))
      BY <1>1, <1>8, <2>4 DEF DrainTail
    <3>2. /\ pendSeg[w] \in Seg /\ pendCount[w] \in Nat \ {0}
        /\ NextUncounted(w) \in Int /\ row[w] - count[w] = NextUncounted(w) + pendCount[w]
        /\ \A y \in NextUncounted(w) .. NextUncounted(w) + pendCount[w] - 1 :
             y \in Block(w) /\ y <= pendRow[w] /\ y < row[w] /\ List[y].seg = pendSeg[w]
      BY <1>a, <2>1, <2>2, <2>4, PendRows
    <3>4. NextUncounted(w)' = NextUncounted(w) + pendCount[w]
      BY <1>a, <2>1, <2>4, <3>2 DEF NextUncounted
    <3>5. \A y \in NextUncounted(w) .. NextUncounted(w) + pendCount[w] - 1 :
           y \in Block(w) /\ y \in Block(w) /\ List[y].seg = pendSeg[w]
      BY <1>a, <3>2, <2>4
    <3>6. Block(w) \in SUBSET RowIdx
      BY <1>1, <1>a
    <3>7. QED
      BY <1>1, <2>1, <2>2, <2>3, <3>1, <3>2, <3>4, <3>5, <3>6, PublishCounts
  <2>5. CASE ~(pendSeg[w] # -1)
    <3>1. UNCHANGED syncVars
      BY <1>8, <2>1, <2>5 DEF DrainTail, syncVars
    <3>2. NextUncounted(w)' = NextUncounted(w)
      BY <1>a, <1>8, <2>1, <2>5 DEF NextUncounted
    <3>3. QED
      BY <1>1, <2>3, <3>1, <3>2, SegQuiet
  <2>6. QED
    BY <2>4, <2>5
<1>9. ASSUME NEW w \in Worker, ~Simt, FinishTail(w) PROVE SegInv' /\ FlagInv'
  <2>1. /\ row' = row /\ cpc[w] = "tail" /\ cpc' = [cpc EXCEPT ![w] = "end"] /\ curSeg' = curSeg
        /\ count' = count /\ pendCount' = pendCount /\ pendRow' = pendRow /\ pendSeg' = pendSeg
        /\ flags' = flags /\ flagView' = flagView
    BY <1>9 DEF FinishTail, segVars
  <2>2. owes[w] = -1
    BY <1>9 DEF FinishTail
  <2>3. \A v \in Worker : v # w => NextUncounted(v)' = NextUncounted(v)
    BY <1>a, <2>1 DEF NextUncounted
  <2>4. CASE count[w] > 0
    <3>1. Publish(w, curSeg[w], count[w], Block(w))
      BY <1>1, <1>9, <2>4 DEF FinishTail
    <3>2. cpc[w] = "tail" \/ pendSeg[w] = -1
      BY <2>1
    <3>3. /\ curSeg[w] \in Seg /\ count[w] \in Nat \ {0}
        /\ NextUncounted(w) \in Int /\ NextUncounted(w) = row[w] - count[w]
        /\ \A y \in NextUncounted(w) .. NextUncounted(w) + count[w] - 1 :
             y \in Block(w) /\ y <= row[w] - 1 /\ List[y].seg = curSeg[w]
      BY <1>a, <2>1, <2>2, <2>4, <3>2, CurRows
    <3>4. NextUncounted(w)' = NextUncounted(w) + count[w]
      BY <1>a, <2>1, <2>4, <3>3, <3>2 DEF NextUncounted
    <3>5. \A y \in NextUncounted(w) .. NextUncounted(w) + count[w] - 1 :
           y \in Block(w) /\ y \in Block(w) /\ List[y].seg = curSeg[w]
      BY <1>a, <3>3, <2>4
    <3>6. Block(w) \in SUBSET RowIdx
      BY <1>1, <1>a
    <3>7. QED
      BY <1>1, <2>1, <2>2, <2>3, <3>1, <3>3, <3>4, <3>5, <3>6, PublishCounts
  <2>5. CASE ~(count[w] > 0)
    <3>1. UNCHANGED syncVars
      BY <1>9, <2>1, <2>5 DEF FinishTail, syncVars
    <3>2. NextUncounted(w)' = NextUncounted(w)
      BY <1>a, <1>9, <2>1, <2>5 DEF NextUncounted
    <3>3. QED
      BY <1>1, <2>3, <3>1, <3>2, SegQuiet
  <2>6. QED
    BY <2>4, <2>5
<1>10. ASSUME NEW w \in Worker, Simt, SimtGate(w) PROVE SegInv' /\ FlagInv'
  <2>1. row' = row /\ cpc' = cpc /\ UNCHANGED segVars /\ UNCHANGED syncVars
    BY <1>10 DEF SimtGate, AtRow
  <2>2. \A v \in Worker : NextUncounted(v)' = NextUncounted(v)
    BY <2>1 DEF NextUncounted, segVars
  <2>3. QED
    BY <1>1, <2>1, <2>2, SegQuiet
<1>11. ASSUME NEW w \in Worker, Simt, SimtFlush(w) PROVE SegInv' /\ FlagInv'
  <2>1. /\ row' = row /\ cpc' = cpc /\ count' = [count EXCEPT ![w] = 0] /\ cpc[w] = "wait"
        /\ curSeg' = [curSeg EXCEPT ![w] = List[row[w]].seg] /\ pendSeg' = pendSeg
        /\ pendCount' = pendCount /\ pendRow' = pendRow
        /\ flags' = flags /\ flagView' = flagView
    BY <1>11 DEF SimtFlush, AtRow
  <2>2. owes[w] = -1 /\ count[w] > 0
    BY <1>11 DEF SimtFlush, AtRow, Boundary
  <2>3. \A v \in Worker : v # w => NextUncounted(v)' = NextUncounted(v)
    BY <1>a, <2>1 DEF NextUncounted
  <2>11. Publish(w, curSeg[w], count[w], UpTo(w, row[w] - 1))
    BY <1>1, <1>11 DEF SimtFlush, SyncWarp
  <2>12. cpc[w] = "tail" \/ pendSeg[w] = -1
    BY <1>11 DEF PlaceInv
  <2>13. /\ curSeg[w] \in Seg /\ count[w] \in Nat \ {0}
      /\ NextUncounted(w) \in Int /\ NextUncounted(w) = row[w] - count[w]
      /\ \A y \in NextUncounted(w) .. NextUncounted(w) + count[w] - 1 :
           y \in Block(w) /\ y <= row[w] - 1 /\ List[y].seg = curSeg[w]
    BY <1>a, <2>1, <2>2, <2>12, CurRows
  <2>14. NextUncounted(w)' = NextUncounted(w) + count[w]
    BY <1>a, <2>1, <2>13, <2>12 DEF NextUncounted
  <2>15. \A y \in NextUncounted(w) .. NextUncounted(w) + count[w] - 1 :
         y \in Block(w) /\ y \in UpTo(w, row[w] - 1) /\ List[y].seg = curSeg[w]
    BY <1>a, <2>13 DEF UpTo
  <2>16. UpTo(w, row[w] - 1) \in SUBSET RowIdx
    BY <1>1, <1>a
  <2>20. QED
    BY <1>1, <2>1, <2>2, <2>3, <2>11, <2>13, <2>14, <2>15, <2>16, PublishCounts
<1>12. ASSUME NEW w \in Worker, Simt, SimtPush(w) PROVE SegInv' /\ FlagInv'
  <2>1. /\ row' = [row EXCEPT ![w] = row[w] + 1] /\ cpc' = cpc /\ cpc[w] = "wait"
        /\ count' = [count EXCEPT ![w] = @ + 1] /\ curSeg' = [curSeg EXCEPT ![w] = List[row[w]].seg]
        /\ pendSeg' = pendSeg /\ pendCount' = pendCount /\ pendRow' = pendRow
        /\ List[row[w]].seg = curSeg[w] \/ ~(count[w] > 0)
        /\ UNCHANGED syncVars
    BY <1>12 DEF SimtPush, AtRow, Boundary
  <2>2. \A v \in Worker : NextUncounted(v)' = NextUncounted(v)
    BY <1>a, <1>12, <2>1 DEF NextUncounted, PlaceInv
  <2>3. QED
    BY <1>1, <2>1, <2>2, SegQuiet
<1>13. ASSUME NEW w \in Worker, Simt, SimtTail(w) PROVE SegInv' /\ FlagInv'
  <2>1. /\ row' = row /\ cpc[w] = "wait" /\ cpc' = [cpc EXCEPT ![w] = "end"] /\ curSeg' = curSeg
        /\ count' = count /\ pendCount' = pendCount /\ pendRow' = pendRow /\ pendSeg' = pendSeg
        /\ flags' = flags /\ flagView' = flagView
    BY <1>13 DEF SimtTail, segVars
  <2>2. owes[w] = -1
    BY <1>13 DEF SimtTail
  <2>3. \A v \in Worker : v # w => NextUncounted(v)' = NextUncounted(v)
    BY <1>a, <2>1 DEF NextUncounted
  <2>4. CASE count[w] > 0
    <3>1. Publish(w, curSeg[w], count[w], UpTo(w, row[w] - 1))
      BY <1>1, <1>13, <2>4 DEF SimtTail, SyncWarp
    <3>2. cpc[w] = "tail" \/ pendSeg[w] = -1
      BY <1>13 DEF PlaceInv
    <3>3. /\ curSeg[w] \in Seg /\ count[w] \in Nat \ {0}
        /\ NextUncounted(w) \in Int /\ NextUncounted(w) = row[w] - count[w]
        /\ \A y \in NextUncounted(w) .. NextUncounted(w) + count[w] - 1 :
             y \in Block(w) /\ y <= row[w] - 1 /\ List[y].seg = curSeg[w]
      BY <1>a, <2>1, <2>2, <2>4, <3>2, CurRows
    <3>4. NextUncounted(w)' = NextUncounted(w) + count[w]
      BY <1>a, <2>1, <2>4, <3>3, <3>2 DEF NextUncounted
    <3>5. \A y \in NextUncounted(w) .. NextUncounted(w) + count[w] - 1 :
           y \in Block(w) /\ y \in UpTo(w, row[w] - 1) /\ List[y].seg = curSeg[w]
      BY <1>a, <3>3, <2>4 DEF UpTo
    <3>6. UpTo(w, row[w] - 1) \in SUBSET RowIdx
      BY <1>1, <1>a
    <3>7. QED
      BY <1>1, <2>1, <2>2, <2>3, <3>1, <3>3, <3>4, <3>5, <3>6, PublishCounts
  <2>5. CASE ~(count[w] > 0)
    <3>1. UNCHANGED syncVars
      BY <1>13, <2>1, <2>5 DEF SimtTail, syncVars
    <3>2. NextUncounted(w)' = NextUncounted(w)
      BY <1>a, <1>13, <2>1, <2>5 DEF NextUncounted, PlaceInv
    <3>3. QED
      BY <1>1, <2>3, <3>1, <3>2, SegQuiet
  <2>6. QED
    BY <2>4, <2>5
<1>14. ASSUME NEW w \in Worker, ~Simt, ProducerGate(w) PROVE SegInv' /\ FlagInv'
  <2>1. row' = row /\ cpc' = cpc /\ UNCHANGED segVars /\ UNCHANGED syncVars
    BY <1>14 DEF ProducerGate
  <2>2. \A v \in Worker : NextUncounted(v)' = NextUncounted(v)
    BY <2>1 DEF NextUncounted, segVars
  <2>3. QED
    BY <1>1, <2>1, <2>2, SegQuiet
<1>15. ASSUME NEW w \in Worker, ~Simt, ProducerLoad(w) PROVE SegInv' /\ FlagInv'
  <2>1. row' = row /\ cpc' = cpc /\ UNCHANGED segVars /\ UNCHANGED syncVars
    BY <1>15 DEF ProducerLoad
  <2>2. \A v \in Worker : NextUncounted(v)' = NextUncounted(v)
    BY <2>1 DEF NextUncounted, segVars
  <2>3. QED
    BY <1>1, <2>1, <2>2, SegQuiet
<1>16. ASSUME NEW w \in Worker, NEW x, ~Simt, LoadLands(w, x) PROVE SegInv' /\ FlagInv'
  <2>1. row' = row /\ cpc' = cpc /\ UNCHANGED segVars /\ UNCHANGED syncVars
    BY <1>16 DEF LoadLands
  <2>2. \A v \in Worker : NextUncounted(v)' = NextUncounted(v)
    BY <2>1 DEF NextUncounted, segVars
  <2>3. QED
    BY <1>1, <2>1, <2>2, SegQuiet
<1>17. ASSUME NEW w \in Worker, NEW x, ~Simt, PushReads(w, x) PROVE SegInv' /\ FlagInv'
  <2>1. row' = row /\ cpc' = cpc /\ UNCHANGED segVars /\ UNCHANGED syncVars
    BY <1>17 DEF PushReads
  <2>2. \A v \in Worker : NextUncounted(v)' = NextUncounted(v)
    BY <2>1 DEF NextUncounted, segVars
  <2>3. QED
    BY <1>1, <2>1, <2>2, SegQuiet
<1>18. ASSUME NEW x, PushCompletes(x) PROVE SegInv' /\ FlagInv'
  <2>1. row' = row /\ cpc' = cpc /\ UNCHANGED segVars /\ UNCHANGED syncVars
    BY <1>18 DEF PushCompletes
  <2>2. \A v \in Worker : NextUncounted(v)' = NextUncounted(v)
    BY <2>1 DEF NextUncounted, segVars
  <2>3. QED
    BY <1>1, <2>1, <2>2, SegQuiet
<1>19. ASSUME NEW g, TilePublished(g) PROVE SegInv' /\ FlagInv'
  <2>1. row' = row /\ cpc' = cpc /\ UNCHANGED segVars /\ UNCHANGED syncVars
    BY <1>19 DEF TilePublished
  <2>2. \A v \in Worker : NextUncounted(v)' = NextUncounted(v)
    BY <2>1 DEF NextUncounted, segVars
  <2>3. QED
    BY <1>1, <2>1, <2>2, SegQuiet
<1>20. QED
  BY <1>2, <1>3, <1>4, <1>5, <1>6, <1>7, <1>8, <1>9, <1>10, <1>11, <1>12, <1>13, <1>14, <1>15, <1>16, <1>17, <1>18, <1>19
     DEF Next, WorkerStep, ProducerStep, Producer, ConsumerStep, Consumer, SimtWarp, MemoryStep

-----------------------------------------------------------------------------
(* What is complete at its destination. *)

\* A step that publishes nothing keeps what is ordered complete.
LEMMA DoneQuiet ==
  ASSUME DoneInv, launch' = launch, done \subseteq done',
         view' = view, segView' = segView, flagView' = flagView,
         \A v \in Worker : cpc'[v] = "tail" => cpc[v] = "tail"
  PROVE  DoneInv'
<1>1. \A w \in Worker : Block(w)' = Block(w)
  BY Given
<1>2. QED
  BY <1>1 DEF DoneInv

\* A publish behind a wait for the rows it orders.
LEMMA DonePublish ==
  ASSUME TypeInv, DoneInv, launch' = launch, done' = done, flagView' = flagView,
         NEW w \in Worker, NEW s \in Seg, NEW n, NEW rows, rows \subseteq done,
         Publish(w, s, n, rows),
         \A v \in Worker : cpc'[v] = "tail" => Block(v) \subseteq done
  PROVE  DoneInv'
<1>1. \A v \in Worker : Block(v)' = Block(v)
  BY Given
<1>2. /\ segView' = [segView EXCEPT ![s] = @ \cup view[w] \cup rows]
      /\ view' = [view EXCEPT ![w] = @ \cup rows \cup segView[s]]
      /\ segView \in [Seg -> SUBSET RowIdx] /\ view \in [Worker -> SUBSET RowIdx]
  BY DEF Publish, TypeInv, SharedTypes
<1>3. \A v \in Worker : view'[v] \subseteq done
  BY <1>2 DEF DoneInv
<1>4. \A t \in Seg : segView'[t] \subseteq done
  BY <1>2 DEF DoneInv
<1>5. QED
  BY <1>1, <1>3, <1>4 DEF DoneInv

\* Every publish comes behind a wait for the rows it orders, so every row that is
\* ordered before a release is complete.
LEMMA DoneStep ==
  ASSUME TypeInv, \A w \in Worker : PlaceInv(w), DoneInv, [Next]_vars
  PROVE  DoneInv'
<1>1. launch' = launch /\ cpc \in [Worker -> CPlace]
  BY LaunchFixed DEF TypeInv, ThreadTypes
<1>b. /\ pendSeg \in [Worker -> SegOrNone]
      /\ \A w \in Worker : count[w] > 0 => curSeg[w] \in Seg
  BY DEF TypeInv, ThreadTypes, PlaceInv
<1>2. CASE UNCHANGED vars
  BY <1>1, <1>2, DoneQuiet DEF vars, syncVars
<1>3. ASSUME NEW w \in Worker, Arrive(w) PROVE DoneInv'
  <2>1. /\ flagView' = [flagView EXCEPT ![FlagOf(owes[w])] = @ \cup view[w]]
        /\ flagView \in [Flag -> SUBSET RowIdx] /\ view' = view /\ segView' = segView
        /\ done' = done /\ cpc' = cpc
    BY <1>3 DEF Arrive, TypeInv, SharedTypes
  <2>2. \A f \in Flag : flagView'[f] \subseteq done
    BY <2>1 DEF DoneInv
  <2>3. \A v \in Worker : Block(v)' = Block(v)
    BY <1>1, Given
  <2>4. QED
    BY <2>1, <2>2, <2>3 DEF DoneInv
<1>4. ASSUME NEW w \in Worker, ~Simt, HardDrain(w) PROVE DoneInv'
  <2>1. /\ done' = done /\ flagView' = flagView /\ cpc' = cpc
    BY <1>4 DEF HardDrain
  <2>2. UpTo(w, row[w] - 1) \subseteq done
    BY <1>4 DEF HardDrain, WaitedFor, MustDrain
  <2>3. \A v \in Worker : cpc'[v] = "tail" => Block(v) \subseteq done
    BY <1>1, <2>1, <2>2 DEF DoneInv
  <2>4. Publish(w, pendSeg[w], pendCount[w], UpTo(w, row[w] - 1)) /\ pendSeg[w] \in Seg
    BY <1>b, <1>4 DEF HardDrain, MustDrain, SegOrNone
  <2>5. QED
    BY <1>1, <2>1, <2>2, <2>3, <2>4, DonePublish
<1>5. ASSUME NEW w \in Worker, ~Simt, PushRow(w) PROVE DoneInv'
  <2>1. /\ done \subseteq done' /\ view' = view /\ segView' = segView /\ flagView' = flagView
        /\ \A v \in Worker : cpc'[v] = "tail" => cpc[v] = "tail"
    BY <1>1, <1>5 DEF PushRow, syncVars
  <2>2. QED
    BY <1>1, <2>1, DoneQuiet
<1>6. ASSUME NEW w \in Worker, ~Simt, Recycle(w) PROVE DoneInv'
  <2>1. /\ done \subseteq done' /\ view' = view /\ segView' = segView /\ flagView' = flagView
        /\ \A v \in Worker : cpc'[v] = "tail" => cpc[v] = "tail"
    BY <1>1, <1>6 DEF Recycle, syncVars
  <2>2. QED
    BY <1>1, <2>1, DoneQuiet
<1>7. ASSUME NEW w \in Worker, ~Simt, AdvanceWindow(w) PROVE DoneInv'
  <2>1. /\ done' = done /\ flagView' = flagView /\ cpc' = [cpc EXCEPT ![w] = "wait"]
    BY <1>7 DEF AdvanceWindow
  <2>2. UpTo(w, row[w] - Window) \subseteq done
    BY <1>7 DEF AdvanceWindow, WaitedFor
  <2>3. \A v \in Worker : cpc'[v] = "tail" => Block(v) \subseteq done
    BY <1>1, <2>1, <2>2 DEF DoneInv
  <2>4. CASE Publishes /\ pendSeg[w] # -1 /\ WatermarkPassed(w)
    <3>1. Publish(w, pendSeg[w], pendCount[w], UpTo(w, row[w] - Window)) /\ pendSeg[w] \in Seg
      BY <1>b, <1>7, <2>4 DEF AdvanceWindow, SegOrNone
    <3>2. QED
      BY <1>1, <2>1, <2>2, <2>3, <2>4, <3>1, DonePublish
  <2>5. CASE ~(Publishes /\ pendSeg[w] # -1 /\ WatermarkPassed(w))
    <3>1. view' = view /\ segView' = segView
      BY <1>7, <2>5 DEF AdvanceWindow
    <3>2. QED
      BY <1>1, Given, <2>1, <2>3, <3>1 DEF DoneInv
  <2>6. QED
    BY <2>4, <2>5
<1>8. ASSUME NEW w \in Worker, ~Simt, DrainTail(w) PROVE DoneInv'
  <2>1. /\ done' = done /\ flagView' = flagView /\ cpc' = [cpc EXCEPT ![w] = "tail"]
    BY <1>8 DEF DrainTail
  <2>2. Block(w) \subseteq done
    BY <1>8 DEF DrainTail, WaitedFor
  <2>3. \A v \in Worker : cpc'[v] = "tail" => Block(v) \subseteq done
    BY <1>1, <2>1, <2>2 DEF DoneInv
  <2>4. CASE pendSeg[w] # -1
    <3>1. Publish(w, pendSeg[w], pendCount[w], Block(w)) /\ pendSeg[w] \in Seg
      BY <1>b, <1>8, <2>4 DEF DrainTail, SegOrNone
    <3>2. QED
      BY <1>1, <2>1, <2>2, <2>3, <2>4, <3>1, DonePublish
  <2>5. CASE ~(pendSeg[w] # -1)
    <3>1. view' = view /\ segView' = segView
      BY <1>8, <2>5 DEF DrainTail
    <3>2. QED
      BY <1>1, Given, <2>1, <2>3, <3>1 DEF DoneInv
  <2>6. QED
    BY <2>4, <2>5
<1>9. ASSUME NEW w \in Worker, ~Simt, FinishTail(w) PROVE DoneInv'
  <2>1. /\ done' = done /\ flagView' = flagView /\ cpc' = [cpc EXCEPT ![w] = "end"]
    BY <1>9 DEF FinishTail
  <2>2. Block(w) \subseteq done
    BY <1>9 DEF FinishTail, DoneInv
  <2>3. \A v \in Worker : cpc'[v] = "tail" => Block(v) \subseteq done
    BY <1>1, <2>1, <2>2 DEF DoneInv
  <2>4. CASE count[w] > 0
    <3>1. Publish(w, curSeg[w], count[w], Block(w)) /\ curSeg[w] \in Seg
      BY <1>b, <1>9, <2>4 DEF FinishTail, SegOrNone
    <3>2. QED
      BY <1>1, <2>1, <2>2, <2>3, <2>4, <3>1, DonePublish
  <2>5. CASE ~(count[w] > 0)
    <3>1. view' = view /\ segView' = segView
      BY <1>9, <2>5 DEF FinishTail
    <3>2. QED
      BY <1>1, Given, <2>1, <2>3, <3>1 DEF DoneInv
  <2>6. QED
    BY <2>4, <2>5
<1>10. ASSUME NEW w \in Worker, Simt, SimtGate(w) PROVE DoneInv'
  <2>1. /\ done \subseteq done' /\ view' = view /\ segView' = segView /\ flagView' = flagView
        /\ \A v \in Worker : cpc'[v] = "tail" => cpc[v] = "tail"
    BY <1>1, <1>10 DEF SimtGate, syncVars
  <2>2. QED
    BY <1>1, <2>1, DoneQuiet
<1>11. ASSUME NEW w \in Worker, Simt, SimtFlush(w) PROVE DoneInv'
  <2>1. /\ done' = done /\ flagView' = flagView /\ cpc' = cpc
    BY <1>11 DEF SimtFlush
  <2>2. UpTo(w, row[w] - 1) \subseteq done
    BY <1>11 DEF SimtFlush, WaitedFor, SyncWarp
  <2>3. \A v \in Worker : cpc'[v] = "tail" => Block(v) \subseteq done
    BY <1>1, <2>1, <2>2 DEF DoneInv
  <2>4. Publish(w, curSeg[w], count[w], UpTo(w, row[w] - 1)) /\ curSeg[w] \in Seg
    BY <1>b, <1>11 DEF SimtFlush, Boundary, SegOrNone, SyncWarp
  <2>5. QED
    BY <1>1, <2>1, <2>2, <2>3, <2>4, DonePublish
<1>12. ASSUME NEW w \in Worker, Simt, SimtPush(w) PROVE DoneInv'
  <2>1. /\ done \subseteq done' /\ view' = view /\ segView' = segView /\ flagView' = flagView
        /\ \A v \in Worker : cpc'[v] = "tail" => cpc[v] = "tail"
    BY <1>1, <1>12 DEF SimtPush, syncVars
  <2>2. QED
    BY <1>1, <2>1, DoneQuiet
<1>13. ASSUME NEW w \in Worker, Simt, SimtTail(w) PROVE DoneInv'
  <2>1. /\ done' = done /\ flagView' = flagView /\ cpc' = [cpc EXCEPT ![w] = "end"]
    BY <1>13 DEF SimtTail
  <2>2. count[w] > 0 => UpTo(w, row[w] - 1) \subseteq done
    BY <1>13 DEF SimtTail, WaitedFor, SyncWarp
  <2>3. \A v \in Worker : cpc'[v] = "tail" => Block(v) \subseteq done
    BY <1>1, <2>1, <2>2 DEF DoneInv
  <2>4. CASE count[w] > 0
    <3>1. Publish(w, curSeg[w], count[w], UpTo(w, row[w] - 1)) /\ curSeg[w] \in Seg
      BY <1>b, <1>13, <2>4 DEF SimtTail, SegOrNone, SyncWarp
    <3>2. QED
      BY <1>1, <2>1, <2>2, <2>3, <2>4, <3>1, DonePublish
  <2>5. CASE ~(count[w] > 0)
    <3>1. view' = view /\ segView' = segView
      BY <1>13, <2>5 DEF SimtTail
    <3>2. QED
      BY <1>1, Given, <2>1, <2>3, <3>1 DEF DoneInv
  <2>6. QED
    BY <2>4, <2>5
<1>14. ASSUME NEW w \in Worker, ~Simt, ProducerGate(w) PROVE DoneInv'
  <2>1. /\ done \subseteq done' /\ view' = view /\ segView' = segView /\ flagView' = flagView
        /\ \A v \in Worker : cpc'[v] = "tail" => cpc[v] = "tail"
    BY <1>1, <1>14 DEF ProducerGate, syncVars
  <2>2. QED
    BY <1>1, <2>1, DoneQuiet
<1>15. ASSUME NEW w \in Worker, ~Simt, ProducerLoad(w) PROVE DoneInv'
  <2>1. /\ done \subseteq done' /\ view' = view /\ segView' = segView /\ flagView' = flagView
        /\ \A v \in Worker : cpc'[v] = "tail" => cpc[v] = "tail"
    BY <1>1, <1>15 DEF ProducerLoad, syncVars
  <2>2. QED
    BY <1>1, <2>1, DoneQuiet
<1>16. ASSUME NEW w \in Worker, NEW x, ~Simt, LoadLands(w, x) PROVE DoneInv'
  <2>1. /\ done \subseteq done' /\ view' = view /\ segView' = segView /\ flagView' = flagView
        /\ \A v \in Worker : cpc'[v] = "tail" => cpc[v] = "tail"
    BY <1>1, <1>16 DEF LoadLands, syncVars
  <2>2. QED
    BY <1>1, <2>1, DoneQuiet
<1>17. ASSUME NEW w \in Worker, NEW x, ~Simt, PushReads(w, x) PROVE DoneInv'
  <2>1. /\ done \subseteq done' /\ view' = view /\ segView' = segView /\ flagView' = flagView
        /\ \A v \in Worker : cpc'[v] = "tail" => cpc[v] = "tail"
    BY <1>1, <1>17 DEF PushReads, syncVars
  <2>2. QED
    BY <1>1, <2>1, DoneQuiet
<1>18. ASSUME NEW x, PushCompletes(x) PROVE DoneInv'
  <2>1. /\ done \subseteq done' /\ view' = view /\ segView' = segView /\ flagView' = flagView
        /\ \A v \in Worker : cpc'[v] = "tail" => cpc[v] = "tail"
    BY <1>1, <1>18 DEF PushCompletes, syncVars
  <2>2. QED
    BY <1>1, <2>1, DoneQuiet
<1>19. ASSUME NEW g, TilePublished(g) PROVE DoneInv'
  <2>1. /\ done \subseteq done' /\ view' = view /\ segView' = segView /\ flagView' = flagView
        /\ \A v \in Worker : cpc'[v] = "tail" => cpc[v] = "tail"
    BY <1>1, <1>19 DEF TilePublished, syncVars
  <2>2. QED
    BY <1>1, <2>1, DoneQuiet
<1>20. QED
  BY <1>2, <1>3, <1>4, <1>5, <1>6, <1>7, <1>8, <1>9, <1>10, <1>11, <1>12, <1>13, <1>14, <1>15, <1>16, <1>17, <1>18, <1>19
     DEF Next, WorkerStep, ProducerStep, Producer, ConsumerStep, Consumer, SimtWarp, MemoryStep

\* Without flags nothing is counted and nothing announced.
LEMMA SilentStep ==
  ASSUME TypeInv, ~Publishes, SilentInv, [Next]_vars
  PROVE  SilentInv'
<1>1. /\ count \in [Worker -> Nat] /\ pendSeg \in [Worker -> SegOrNone]
      /\ owes \in [Worker -> SegOrNone] /\ flags \in [Flag -> Nat]
  BY DEF TypeInv, ThreadTypes, SharedTypes
<1>2. CASE UNCHANGED vars
  BY <1>2 DEF vars, segVars, syncVars, SilentInv
<1>3. ASSUME NEW w \in Worker, Arrive(w) PROVE SilentInv'
  BY <1>3 DEF Arrive, SilentInv
<1>4. ASSUME NEW w \in Worker, ~Simt, HardDrain(w) PROVE SilentInv'
  BY <1>4 DEF HardDrain, Boundary
<1>5. ASSUME NEW w \in Worker, ~Simt, PushRow(w) PROVE SilentInv'
  <2>1. /\ count' = count /\ pendSeg' = pendSeg /\ owes' = owes /\ flags' = flags
    BY <1>1, <1>5 DEF PushRow, Boundary, SilentInv, segVars, syncVars
  <2>2. QED
    BY <2>1 DEF SilentInv
<1>6. ASSUME NEW w \in Worker, ~Simt, Recycle(w) PROVE SilentInv'
  <2>1. /\ count' = count /\ pendSeg' = pendSeg /\ owes' = owes /\ flags' = flags
    BY <1>1, <1>6 DEF Recycle, SilentInv, segVars, syncVars
  <2>2. QED
    BY <2>1 DEF SilentInv
<1>7. ASSUME NEW w \in Worker, ~Simt, AdvanceWindow(w) PROVE SilentInv'
  <2>1. /\ count' = count /\ pendSeg' = pendSeg /\ owes' = owes /\ flags' = flags
    BY <1>1, <1>7 DEF AdvanceWindow, SilentInv, segVars, syncVars
  <2>2. QED
    BY <2>1 DEF SilentInv
<1>8. ASSUME NEW w \in Worker, ~Simt, DrainTail(w) PROVE SilentInv'
  <2>1. /\ count' = count /\ pendSeg' = pendSeg /\ owes' = owes /\ flags' = flags
    BY <1>1, <1>8 DEF DrainTail, SilentInv, segVars, syncVars
  <2>2. QED
    BY <2>1 DEF SilentInv
<1>9. ASSUME NEW w \in Worker, ~Simt, FinishTail(w) PROVE SilentInv'
  <2>1. /\ count' = count /\ pendSeg' = pendSeg /\ owes' = owes /\ flags' = flags
    BY <1>1, <1>9 DEF FinishTail, SilentInv, segVars, syncVars
  <2>2. QED
    BY <2>1 DEF SilentInv
<1>10. ASSUME NEW w \in Worker, Simt, SimtGate(w) PROVE SilentInv'
  <2>1. /\ count' = count /\ pendSeg' = pendSeg /\ owes' = owes /\ flags' = flags
    BY <1>1, <1>10 DEF SimtGate, SilentInv, segVars, syncVars
  <2>2. QED
    BY <2>1 DEF SilentInv
<1>11. ASSUME NEW w \in Worker, Simt, SimtFlush(w) PROVE SilentInv'
  BY <1>11 DEF SimtFlush, Boundary
<1>12. ASSUME NEW w \in Worker, Simt, SimtPush(w) PROVE SilentInv'
  <2>1. /\ count' = count /\ pendSeg' = pendSeg /\ owes' = owes /\ flags' = flags
    BY <1>1, <1>12 DEF SimtPush, SilentInv, segVars, syncVars
  <2>2. QED
    BY <2>1 DEF SilentInv
<1>13. ASSUME NEW w \in Worker, Simt, SimtTail(w) PROVE SilentInv'
  <2>1. /\ count' = count /\ pendSeg' = pendSeg /\ owes' = owes /\ flags' = flags
    BY <1>1, <1>13 DEF SimtTail, SilentInv, segVars, syncVars
  <2>2. QED
    BY <2>1 DEF SilentInv
<1>14. ASSUME NEW w \in Worker, ~Simt, ProducerGate(w) PROVE SilentInv'
  <2>1. /\ count' = count /\ pendSeg' = pendSeg /\ owes' = owes /\ flags' = flags
    BY <1>1, <1>14 DEF ProducerGate, SilentInv, segVars, syncVars
  <2>2. QED
    BY <2>1 DEF SilentInv
<1>15. ASSUME NEW w \in Worker, ~Simt, ProducerLoad(w) PROVE SilentInv'
  <2>1. /\ count' = count /\ pendSeg' = pendSeg /\ owes' = owes /\ flags' = flags
    BY <1>1, <1>15 DEF ProducerLoad, SilentInv, segVars, syncVars
  <2>2. QED
    BY <2>1 DEF SilentInv
<1>16. ASSUME NEW w \in Worker, NEW x, ~Simt, LoadLands(w, x) PROVE SilentInv'
  <2>1. /\ count' = count /\ pendSeg' = pendSeg /\ owes' = owes /\ flags' = flags
    BY <1>1, <1>16 DEF LoadLands, SilentInv, segVars, syncVars
  <2>2. QED
    BY <2>1 DEF SilentInv
<1>17. ASSUME NEW w \in Worker, NEW x, ~Simt, PushReads(w, x) PROVE SilentInv'
  <2>1. /\ count' = count /\ pendSeg' = pendSeg /\ owes' = owes /\ flags' = flags
    BY <1>1, <1>17 DEF PushReads, SilentInv, segVars, syncVars
  <2>2. QED
    BY <2>1 DEF SilentInv
<1>18. ASSUME NEW x, PushCompletes(x) PROVE SilentInv'
  <2>1. /\ count' = count /\ pendSeg' = pendSeg /\ owes' = owes /\ flags' = flags
    BY <1>1, <1>18 DEF PushCompletes, SilentInv, segVars, syncVars
  <2>2. QED
    BY <2>1 DEF SilentInv
<1>19. ASSUME NEW g, TilePublished(g) PROVE SilentInv'
  <2>1. /\ count' = count /\ pendSeg' = pendSeg /\ owes' = owes /\ flags' = flags
    BY <1>1, <1>19 DEF TilePublished, SilentInv, segVars, syncVars
  <2>2. QED
    BY <2>1 DEF SilentInv
<1>20. QED
  BY <1>2, <1>3, <1>4, <1>5, <1>6, <1>7, <1>8, <1>9, <1>10, <1>11, <1>12, <1>13, <1>14, <1>15, <1>16, <1>17, <1>18, <1>19
     DEF Next, WorkerStep, ProducerStep, Producer, ConsumerStep, Consumer, SimtWarp, MemoryStep

-----------------------------------------------------------------------------
(* The publish ordering. *)

\* The invariant of counts, flags and completions.
CountingInv ==
  /\ MemoryInv /\ DoneInv
  /\ IF Publishes THEN (\A w \in Worker : CountInv(w)) /\ SegInv /\ FlagInv ELSE SilentInv

\* The kernel starts with nothing counted.
LEMMA InitCounting == Init => CountingInv
<1> SUFFICES ASSUME Init PROVE CountingInv
  OBVIOUS
<1>1. MemoryInv /\ TypeInv /\ launch \in Launches
  BY InitMemory DEF MemoryInv, TypeInv
<1>2. DoneInv
  BY DEF Init, DoneInv
<1>3. SilentInv
  BY DEF Init, SilentInv
<1>4. \A w \in Worker : First(w) \in Nat /\ \A x \in Block(w) : x \in Int /\ First(w) <= x
  BY <1>1, Blocks DEF Block
<1>5. \A w \in Worker : CountInv(w) /\ NextUncounted(w) = First(w)
  BY <1>4 DEF Init, CountInv, NextUncounted
<1>6. \A s \in Seg : Counted(s) = {}
  BY <1>4, <1>5 DEF Counted
<1>7. \A f \in Flag : Announced(f) = {}
  <2>1. ASSUME NEW f \in Flag, NEW x \in FlagRows(f) PROVE Counted(List[x].seg) # SegRows(List[x].seg)
    <3>1. List[x].seg \in Seg /\ x \in SegRows(List[x].seg)
      BY <1>1, Blocks DEF FlagRows, SegRows
    <3>2. QED
      BY <1>6, <3>1
  <2>2. QED
    BY <2>1 DEF Announced
<1>8. SegInv
  <2>1. \A s \in Seg : s # -1
    BY AllToAllAssumption DEF Seg
  <2>2. QED
    BY <1>6, <2>1, FS_EmptySet DEF Init, SegInv
<1>9. FlagInv
  BY <1>7, FS_EmptySet DEF Init, FlagInv
<1>10. QED
  BY <1>1, <1>2, <1>3, <1>5, <1>8, <1>9 DEF CountingInv

\* The counting invariant is inductive.
LEMMA CountingStep ==
  ASSUME CountingInv, [Next]_vars
  PROVE  CountingInv'
<1>1. MemoryInv' /\ DoneInv'
  BY MemoryStepInv, DoneStep DEF CountingInv, MemoryInv
<1>2. TypeInv /\ \A w \in Worker : PlaceInv(w)
  BY DEF CountingInv, MemoryInv
<1>3. Publishes' = Publishes
  BY LaunchFixed, Given
<1>4. CASE Publishes
  BY <1>1, <1>2, <1>3, <1>4, CountStep, SegStep DEF CountingInv
<1>5. CASE ~Publishes
  BY <1>1, <1>2, <1>3, <1>5, SilentStep DEF CountingInv
<1>6. QED
  BY <1>4, <1>5

\* Every reachable state of either backend has the invariant of its counts.
THEOREM CountingInvariance == Spec => []CountingInv
<1>1. CountingInv /\ [Next]_vars => CountingInv'
  BY CountingStep
<1>2. QED
  BY InitCounting, <1>1, PTL DEF Spec

\* A flag never beats the data: every row that a flag counts is complete at
\* its destination, however many workers pushed its segment, and the release
\* that counts it is ordered behind it (the wait, seg_done and flag chain).
THEOREM FlagsNeverBeatData == Spec => []FlagNeverBeatsData
<1>1. ASSUME CountingInv PROVE FlagNeverBeatsData
  <2> SUFFICES ASSUME NEW f \in Flag
               PROVE  /\ flags[f] <= Cardinality(flagView[f] \cap FlagRows(f))
                      /\ flagView[f] \subseteq done
    BY DEF FlagNeverBeatsData
  <2>1. launch \in Launches /\ flagView[f] \subseteq done
    BY <1>1 DEF CountingInv, MemoryInv, TypeInv, DoneInv
  <2>2. IsFiniteSet(flagView[f] \cap FlagRows(f)) /\ Cardinality(flagView[f] \cap FlagRows(f)) \in Nat
    <3>1. flagView[f] \cap FlagRows(f) \in SUBSET RowIdx
      BY DEF FlagRows
    <3>2. QED
      BY <2>1, <3>1, RowSets
  <2>3. CASE Publishes
    <3>1. flags[f] = Cardinality(Announced(f)) /\ Announced(f) \subseteq flagView[f]
      BY <1>1, <2>3 DEF CountingInv, FlagInv
    <3>2. Announced(f) \subseteq flagView[f] \cap FlagRows(f)
      BY <3>1 DEF Announced
    <3>3. QED
      BY <2>1, <2>2, <3>1, <3>2, FS_Subset
  <2>4. CASE ~Publishes
    BY <1>1, <2>1, <2>2, <2>4 DEF CountingInv, SilentInv
  <2>5. QED
    BY <2>3, <2>4
<1>2. QED
  BY CountingInvariance, <1>1, PTL
=============================================================================
