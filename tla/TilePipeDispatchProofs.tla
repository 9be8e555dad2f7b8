----------------------- MODULE TilePipeDispatchProofs -----------------------
(***************************************************************************)
(* Theorems about TilePipeDispatch, for every number of ranks and experts, *)
(* every grid of warps and, rank by rank, of CTAs, every plan that         *)
(* satisfies PlanAssumption and both publish modes.                        *)
(***************************************************************************)
EXTENDS TilePipeDispatch, FiniteSetTheorems, TLAPS

-----------------------------------------------------------------------------
(* The plan. *)

\* A list position of a rank is an entry, and an entry is such a pair.
LEMMA EntryFacts ==
  /\ \A x \in Entry :
       /\ x[1] \in Rank /\ x[2] \in 1 .. Len(Plan[x[1]]) /\ x = <<x[1], x[2]>>
       /\ Send(x).dst \in Rank /\ Send(x).expert \in Expert
       /\ Send(x).slot \in Row /\ Send(x).seg \in Seg
  /\ \A r \in Rank : \A i \in 1 .. Len(Plan[r]) :
       <<r, i>> \in Entry /\ Send(<<r, i>>) = Plan[r][i]
<1>1. \A r \in Rank : Plan[r] \in Seq(SendRecord)
  BY DispatchAssumption
<1>2. \A r \in Rank : DOMAIN Plan[r] = 1 .. Len(Plan[r])
  BY <1>1
<1>3. ASSUME NEW x \in Entry
      PROVE  x[1] \in Rank /\ x[2] \in 1 .. Len(Plan[x[1]]) /\ x = <<x[1], x[2]>>
  BY <1>2 DEF Entry
<1>4. ASSUME NEW x \in Entry
      PROVE  Send(x) \in SendRecord
  BY <1>1, <1>3 DEF Send
<1>5. ASSUME NEW r \in Rank, NEW i \in 1 .. Len(Plan[r])
      PROVE  <<r, i>> \in Entry /\ Send(<<r, i>>) = Plan[r][i]
  BY <1>2 DEF Entry, Send
<1>6. QED
  BY <1>3, <1>4, <1>5 DEF SendRecord

LEMMA EntryFinite ==
  /\ IsFiniteSet(Entry)
  /\ \A S \in SUBSET Entry : IsFiniteSet(S) /\ Cardinality(S) \in Nat
<1> DEFINE f == [r \in Rank |-> {r} \X DOMAIN Plan[r]]
           T == {{r} \X DOMAIN Plan[r] : r \in Rank}
<1>1. IsFiniteSet(Rank)
  BY FS_Interval, DispatchAssumption DEF Rank
<1>2. f \in Surjection(Rank, T)
  BY DEF Surjection
<1>3. IsFiniteSet(T)
  <2> HIDE DEF f, T
  <2> QED BY <1>1, <1>2, FS_Surjection
<1>4. \A S \in T : IsFiniteSet(S)
  <2>1. SUFFICES ASSUME NEW r \in Rank PROVE IsFiniteSet({r} \X DOMAIN Plan[r])
    OBVIOUS
  <2>2. DOMAIN Plan[r] = 1 .. Len(Plan[r]) /\ Len(Plan[r]) \in Nat
    BY DispatchAssumption
  <2>3. IsFiniteSet(DOMAIN Plan[r])
    BY <2>2, FS_Interval
  <2>4. IsFiniteSet({r})
    BY FS_Singleton
  <2>5. QED
    BY <2>3, <2>4, FS_Product
<1>5. IsFiniteSet(UNION T)
  <2> HIDE DEF T
  <2> QED BY <1>3, <1>4, FS_UNION
<1>6. IsFiniteSet(Entry)
  BY <1>5 DEF Entry
<1>7. QED
  BY <1>6, FS_Subset, FS_CardinalityType

\* Sizes of segments and batches are sizes of finite sets of entries.
LEMMA Sizes ==
  /\ \A r \in Rank, s \in Seg : SegEntries(r, s) \subseteq Entry /\ SegSize(r, s) \in Nat
  /\ \A d \in Rank, e \in Expert :
       ExpertEntries(d, e) \subseteq Entry /\ LenM(d, e) \in Nat
BY EntryFinite, PlanAssumption DEF SegEntries, SegSize, ExpertEntries

\* All rows of a segment go to the expert that its id names, and a rank sends
\* no other segment there.
LEMMA SegmentBatch ==
  ASSUME NEW r \in Rank, NEW s \in Seg, SegEntries(r, s) # {}
  PROVE  /\ SegDst(r, s) \in Rank /\ SegExpert(s) \in Expert
         /\ SegEntries(r, s) \subseteq ExpertEntries(SegDst(r, s), SegExpert(s))
         /\ \A x \in ExpertEntries(SegDst(r, s), SegExpert(s)) :
              x[1] = r => x \in SegEntries(r, s)
<1>1. PICK y \in SegEntries(r, s) : TRUE
  OBVIOUS
<1>2. y \in Entry /\ Send(y).dst = SegDst(r, s) /\ Send(y).expert = SegExpert(s)
  BY <1>1, PlanAssumption DEF SegEntries
<1>3. SegDst(r, s) \in Rank /\ SegExpert(s) \in Expert
  BY <1>2, EntryFacts
<1>4. SegEntries(r, s) \subseteq ExpertEntries(SegDst(r, s), SegExpert(s))
  BY PlanAssumption DEF SegEntries, ExpertEntries
<1>5. ASSUME NEW x \in ExpertEntries(SegDst(r, s), SegExpert(s)), x[1] = r
      PROVE  x \in SegEntries(r, s)
  BY <1>1, <1>2, <1>5, PlanAssumption DEF SegEntries, ExpertEntries
<1>6. QED
  BY <1>3, <1>4, <1>5

-----------------------------------------------------------------------------
(* Type correctness. *)

\* The grids of every iteration: no warp or CTA is numbered from zero.
LEMMA GridFacts ==
  /\ Launch \subseteq Nat /\ Warp \subseteq Nat \ {0} /\ Cta \subseteq Nat \ {0}
  /\ \A k \in Launch : NWarps[k] \in Nat \ {0} /\ 1 .. NWarps[k] \subseteq Warp
  /\ \A d \in Rank, k \in Launch :
       NCtas[d][k] \in Nat \ {0} /\ 1 .. NCtas[d][k] \subseteq Cta
<1>1. /\ Launch \subseteq Nat
      /\ \A k \in Launch : NWarps[k] \in Nat \ {0}
      /\ \A d \in Rank, k \in Launch : NCtas[d][k] \in Nat \ {0}
  BY DispatchAssumption
<1>2. Warp \subseteq Nat \ {0} /\ \A k \in Launch : 1 .. NWarps[k] \subseteq Warp
  BY <1>1 DEF Warp
<1>3. /\ Cta \subseteq Nat \ {0}
      /\ \A d \in Rank, k \in Launch : 1 .. NCtas[d][k] \subseteq Cta
  <2> DEFINE grids(d) == UNION {1 .. NCtas[d][k] : k \in Launch}
  <2>1. ASSUME NEW d \in Rank
        PROVE  /\ grids(d) \subseteq Nat \ {0}
               /\ \A k \in Launch : 1 .. NCtas[d][k] \subseteq grids(d)
    BY <1>1
  <2>2. Cta = UNION {grids(d) : d \in Rank}
    BY DEF Cta
  <2> HIDE DEF grids
  <2> QED BY <2>1, <2>2
<1>4. QED
  BY <1>1, <1>2, <1>3

\* The grids of the iteration that a rank is in.
LEMMA GridsNow ==
  ASSUME TypeOK, NEW r \in Rank
  PROVE  /\ gen[r] \in Nat
         /\ TotalWarps(r) \in Nat \ {0} /\ 1 .. TotalWarps(r) \subseteq Warp
         /\ TotalCtas(r) \in Nat \ {0} /\ 1 .. TotalCtas(r) \subseteq Cta
<1>1. gen[r] \in Launch
  BY DEF TypeOK
<1>2. QED
  BY <1>1, GridFacts DEF TotalWarps, TotalCtas

LEMMA TypeInit == Init => TypeOK
<1> SUFFICES ASSUME Init PROVE TypeOK
  OBVIOUS
<1> USE DEF Init, WarpsInit, GemmInit, FirstRow
<1>1. nxt \in [Rank -> [Warp -> Nat \ {0}]] /\ tile \in [Rank -> [Cta -> Nat]]
  <2>1. \A w \in Warp : w \in Nat \ {0}
    BY GridFacts
  <2>2. \A c \in Cta : c - 1 \in Nat
    BY GridFacts
  <2> QED BY <2>1, <2>2
<1>2. gen \in [Rank -> Launch]
  BY DispatchAssumption
<1>3. QED
  BY <1>1, <1>2 DEF TypeOK

\* Updating one cell keeps a table of its type.
LEMMA Update2 ==
  ASSUME NEW A, NEW B, NEW S, NEW f \in [A -> [B -> S]], NEW a, NEW b,
         a \in A /\ b \in B, NEW v \in S
  PROVE  /\ [f EXCEPT ![a][b] = v] \in [A -> [B -> S]]
         /\ \A p \in A, q \in B : [f EXCEPT ![a][b] = v][p][q] =
              IF p = a /\ q = b THEN v ELSE f[p][q]
OBVIOUS

LEMMA TypeCopyRow ==
  ASSUME TypeOK, NEW r \in Rank, NEW w \in Warp, CopyRow(r, w)
  PROVE  TypeOK'
<1> DEFINE i == nxt[r][w]
           p == Plan[r][i]
<1>1. i \in 1 .. Len(Plan[r])
  <2>1. Len(Plan[r]) \in Nat
    BY DispatchAssumption
  <2>2. i \in Nat \ {0} /\ i <= Len(Plan[r])
    BY DEF CopyRow, HasRow, TypeOK
  <2> QED BY <2>1, <2>2
<1>2. <<r, i>> \in Entry /\ p.dst \in Rank /\ p.slot \in Row /\ p.seg \in Seg
  BY <1>1, EntryFacts
<1>3. recv' \in [Rank -> [Row -> Nat]]
  <2>1. gen[r] \in Nat /\ recv \in [Rank -> [Row -> Nat]]
    BY GridsNow DEF TypeOK
  <2>2. recv' = [recv EXCEPT ![p.dst][p.slot] = gen[r]]
    BY DEF CopyRow
  <2> QED BY <1>2, <2>1, <2>2
<1>4. view' \in [Rank -> [Warp -> SUBSET Entry]]
  <2>1. view[r][w] \in SUBSET Entry
    BY DEF TypeOK
  <2>2. view[r][w] \cup {<<r, i>>} \in SUBSET Entry
    <3> HIDE DEF i
    <3> QED BY <1>2, <2>1
  <2>3. view' = [view EXCEPT ![r][w] = view[r][w] \cup {<<r, i>>}]
    BY DEF CopyRow
  <2>4. view \in [Rank -> [Warp -> SUBSET Entry]]
    BY DEF TypeOK
  <2> QED BY <2>2, <2>3, <2>4
<1>5. /\ curSeg' \in [Rank -> [Warp -> Seg \cup {-1}]]
      /\ count' \in [Rank -> [Warp -> Nat]]
      /\ \A q \in Rank, v \in Warp : curSeg'[q][v] = -1 => count'[q][v] = 0
  <2>1. CASE PublishSegment
    <3>1. /\ curSeg' = [curSeg EXCEPT ![r][w] = p.seg]
          /\ count' = [count EXCEPT ![r][w] = count[r][w] + 1]
      BY <2>1 DEF CopyRow
    <3>2. curSeg \in [Rank -> [Warp -> Seg \cup {-1}]] /\ count \in [Rank -> [Warp -> Nat]]
      BY DEF TypeOK
    <3>3. p.seg \in Seg \cup {-1} /\ count[r][w] + 1 \in Nat /\ p.seg # -1
      BY <1>2, <3>2 DEF Seg
    <3> QED BY <3>1, <3>2, <3>3 DEF TypeOK
  <2>2. CASE ~PublishSegment
    BY <2>2 DEF CopyRow, TypeOK
  <2> QED BY <2>1, <2>2
<1>6. nxt' \in [Rank -> [Warp -> Nat \ {0}]] /\ wpc' \in [Rank -> [Warp -> {"copy", "arrive"}]]
  <2>1. nxt[r][w] + TotalWarps(r) \in Nat \ {0}
    BY GridsNow DEF TypeOK
  <2>2. /\ nxt \in [Rank -> [Warp -> Nat \ {0}]]
        /\ wpc \in [Rank -> [Warp -> {"copy", "arrive"}]]
    BY DEF TypeOK
  <2>3. \/ nxt' = [nxt EXCEPT ![r][w] = nxt[r][w] + TotalWarps(r)] /\ wpc' = wpc
        \/ nxt' = nxt /\ wpc' = [wpc EXCEPT ![r][w] = "arrive"]
    BY DEF CopyRow
  <2>4. [nxt EXCEPT ![r][w] = nxt[r][w] + TotalWarps(r)] \in [Rank -> [Warp -> Nat \ {0}]]
    BY <2>1, <2>2
  <2>5. [wpc EXCEPT ![r][w] = "arrive"] \in [Rank -> [Warp -> {"copy", "arrive"}]]
    BY <2>2
  <2> QED BY <2>2, <2>3, <2>4, <2>5
<1>7. UNCHANGED <<gen, segDone, segView, flags, flagView, tile, ready, gview, racy>>
  BY DEF CopyRow, gemmVars
<1> QED BY <1>3, <1>4, <1>5, <1>6, <1>7 DEF TypeOK

LEMMA TypeFlushSegment ==
  ASSUME TypeOK, NEW r \in Rank, NEW w \in Warp, FlushSegment(r, w)
  PROVE  TypeOK' /\ curSeg[r][w] \in Seg
<1> DEFINE s == curSeg[r][w]
<1>1. s \in Seg
  BY DEF FlushSegment, TypeOK
<1>2. segDone' \in [Rank -> [Seg -> Nat]]
  <2>1. segDone[r][s] + count[r][w] \in Nat
    BY <1>1 DEF TypeOK
  <2>2. segDone' = [segDone EXCEPT ![r][s] = segDone[r][s] + count[r][w]]
    BY DEF FlushSegment, CountRows
  <2>3. segDone \in [Rank -> [Seg -> Nat]]
    BY DEF TypeOK
  <2> QED BY <1>1, <2>1, <2>2, <2>3
<1>3. segView' \in [Rank -> [Seg -> SUBSET Entry]]
  <2>1. segView[r][s] \cup view[r][w] \in SUBSET Entry
    BY <1>1 DEF TypeOK
  <2>2. segView' = [segView EXCEPT ![r][s] = segView[r][s] \cup view[r][w]]
    BY DEF FlushSegment, CountRows
  <2>3. segView \in [Rank -> [Seg -> SUBSET Entry]]
    BY DEF TypeOK
  <2> QED BY <1>1, <2>1, <2>2, <2>3
<1>4. view' \in [Rank -> [Warp -> SUBSET Entry]]
  <2>1. view[r][w] \cup segView[r][s] \in SUBSET Entry
    BY <1>1 DEF TypeOK
  <2>2. view' = [view EXCEPT ![r][w] = view[r][w] \cup segView[r][s]]
    BY DEF FlushSegment, CountRows
  <2>3. view \in [Rank -> [Warp -> SUBSET Entry]]
    BY DEF TypeOK
  <2> QED BY <2>1, <2>2, <2>3
<1>5. count' \in [Rank -> [Warp -> Nat]] /\ wpc' \in [Rank -> [Warp -> {"copy", "arrive"}]]
  BY Update2 DEF FlushSegment, TypeOK
<1>6. \A q \in Rank, v \in Warp : curSeg'[q][v] = -1 => count'[q][v] = 0
  BY DEF FlushSegment, TypeOK
<1> QED BY <1>1, <1>2, <1>3, <1>4, <1>5, <1>6 DEF FlushSegment, gemmVars, TypeOK

LEMMA TypeArrive ==
  ASSUME TypeOK, NEW r \in Rank, NEW w \in Warp, NEW d, NEW e, NEW n \in Nat,
         Arrive(r, w, d, e, n)
  PROVE  /\ flags' \in [Rank -> [Expert -> Nat]]
         /\ flagView' \in [Rank -> [Expert -> SUBSET Entry]]
         /\ wpc' \in [Rank -> [Warp -> {"copy", "arrive"}]]
<1>1. view[r][w] \in SUBSET Entry
  BY DEF TypeOK
<1>2. flags' \in [Rank -> [Expert -> Nat]]
  <2>1. flags \in [Rank -> [Expert -> Nat]]
    BY DEF TypeOK
  <2>2. flags' = [flags EXCEPT ![d][e] = flags[d][e] + n]
    BY DEF Arrive
  <2>3. d \in Rank /\ e \in Expert => flags[d][e] + n \in Nat
    BY <2>1
  <2> QED BY <2>1, <2>2, <2>3
<1>3. flagView' \in [Rank -> [Expert -> SUBSET Entry]]
  <2>1. flagView \in [Rank -> [Expert -> SUBSET Entry]]
    BY DEF TypeOK
  <2>2. flagView' = [flagView EXCEPT ![d][e] = flagView[d][e] \cup view[r][w]]
    BY DEF Arrive
  <2>3. d \in Rank /\ e \in Expert => flagView[d][e] \cup view[r][w] \in SUBSET Entry
    BY <1>1, <2>1
  <2> QED BY <2>1, <2>2, <2>3
<1>4. wpc' \in [Rank -> [Warp -> {"copy", "arrive"}]]
  BY Update2 DEF Arrive, TypeOK
<1> QED BY <1>2, <1>3, <1>4

LEMMA TypeStep == TypeOK /\ [Next]_vars => TypeOK'
<1> SUFFICES ASSUME TypeOK, [Next]_vars PROVE TypeOK'
  OBVIOUS
<1>1. ASSUME NEW r \in Rank, NEW w \in Warp, ArriveSegment(r, w)
      PROVE  TypeOK'
  <2>1. SegSize(r, curSeg[r][w]) \in Nat
    BY EntryFinite DEF SegSize, SegEntries
  <2> QED BY <1>1, <2>1, TypeArrive DEF ArriveSegment, gemmVars, TypeOK
<1>2. ASSUME NEW r \in Rank, NEW w \in Warp, ArriveToken(r, w)
      PROVE  TypeOK'
  <2>1. nxt[r][w] + TotalWarps(r) \in Nat \ {0}
    BY GridsNow DEF TypeOK
  <2>2. nxt' \in [Rank -> [Warp -> Nat \ {0}]]
    BY <1>2, <2>1, Update2 DEF ArriveToken, TypeOK
  <2> QED BY <1>2, <2>2, TypeArrive DEF ArriveToken, gemmVars, TypeOK
<1>3. ASSUME NEW d \in Rank, NEW c \in Cta, GemmWait(d, c)
      PROVE  TypeOK'
  <2>1. PICK e \in Expert : GemmWait(d, c)!(e)
    BY <1>3 DEF GemmWait
  <2>2. gview[d][c] \cup flagView[d][e] \in SUBSET Entry
    BY DEF TypeOK
  <2>3. ready' \in [Rank -> [Cta -> Expert \cup {-1}]]
    BY <2>1, Update2 DEF TypeOK
  <2>4. gview' \in [Rank -> [Cta -> SUBSET Entry]]
    BY <2>1, <2>2, Update2 DEF TypeOK
  <2> QED BY <2>1, <2>3, <2>4 DEF warpVars, TypeOK
<1>4. ASSUME NEW d \in Rank, NEW c \in Cta, GemmLoad(d, c)
      PROVE  TypeOK'
  <2>1. PICK e \in Expert : GemmLoad(d, c)!(e)
    BY <1>4 DEF GemmLoad
  <2>2. TileRows(d, e, tile[d][c]) \subseteq Row
    <3>1. \A k \in 0 .. EPR : Cu[d][k] \in 0 .. MaxRecv
      BY DispatchAssumption
    <3>2. e \in 0 .. EPR /\ e + 1 \in 0 .. EPR /\ MaxRecv \in Nat
      BY DispatchAssumption DEF Expert
    <3>3. TileRows(d, e, tile[d][c]) \subseteq Cu[d][e] .. Cu[d][e + 1] - 1
      BY DEF TileRows
    <3>4. Cu[d][e] \in 0 .. MaxRecv /\ Cu[d][e + 1] \in 0 .. MaxRecv
      BY <3>1, <3>2
    <3> QED BY <3>2, <3>3, <3>4 DEF Row
  <2>3. tile[d][c] + TotalCtas(d) \in Nat
    BY GridsNow DEF TypeOK
  <2>4. tile' \in [Rank -> [Cta -> Nat]]
    BY <2>1, <2>3, Update2 DEF TypeOK
  <2>5. racy' \in [Rank -> SUBSET Row]
    BY <2>1, <2>2 DEF TypeOK
  <2> QED BY <2>1, <2>4, <2>5 DEF warpVars, TypeOK
<1>5. CASE UNCHANGED vars
  BY <1>5 DEF vars, warpVars, gemmVars, TypeOK
<1>6. QED
  BY <1>1, <1>2, <1>3, <1>4, <1>5, TypeCopyRow, TypeFlushSegment
    DEF Next, WarpStep, CtaStep

\* Every variable keeps its type: the kernels index their counters, lists and
\* buffers within bounds for every plan the builders produce.
THEOREM TypeCorrect == Spec => []TypeOK
<1>1. QED
  BY TypeInit, TypeStep, PTL DEF Spec

-----------------------------------------------------------------------------
(* Which list positions a warp walks. *)

\* The positions of a warp are TotalWarps(r) apart, and no two warps share one.
LEMMA OwnedFacts ==
  ASSUME NEW n \in Nat \ {0}
  PROVE  /\ \A w \in 1 .. n : Owned(n, w, w)
         /\ \A w \in Warp, i \in Nat : Owned(n, w, i) => Owned(n, w, i + n)
         /\ \A v, w \in Warp, i \in Nat : Owned(n, v, i) /\ Owned(n, w, i) => v = w
<1>1. Warp \subseteq Nat \ {0}
  BY DispatchAssumption DEF Warp
<1>2. ASSUME NEW w \in 1 .. n PROVE Owned(n, w, w)
  <2>1. 0 \in 0 .. w /\ w = w + 0 * n
    OBVIOUS
  <2> QED BY <2>1 DEF Owned
<1>3. ASSUME NEW w \in Warp, NEW i \in Nat, Owned(n, w, i)
      PROVE  Owned(n, w, i + n)
  <2>1. PICK k \in 0 .. i : i = w + k * n
    BY <1>3 DEF Owned
  <2>2. k \in Nat /\ k + 1 \in 0 .. i + n
    OBVIOUS
  <2>3. (k + 1) * n = k * n + n
    BY <2>2
  <2>4. k * n \in Nat
    BY <2>2
  <2>5. i + n = w + (k + 1) * n
    BY <1>1, <2>1, <2>3, <2>4
  <2> QED BY <1>3, <2>2, <2>5 DEF Owned
<1>4. ASSUME NEW v \in Warp, NEW w \in Warp, NEW i \in Nat,
             Owned(n, v, i), Owned(n, w, i), v < w
      PROVE  FALSE
  <2>1. PICK k \in 0 .. i : i = v + k * n
    BY <1>4 DEF Owned
  <2>2. PICK l \in 0 .. i : i = w + l * n
    BY <1>4 DEF Owned
  <2>3. k \in Nat /\ l \in Nat /\ v \in 1 .. n /\ w \in 1 .. n
    BY <1>1, <1>4 DEF Owned
  <2>4. k * n \in Nat /\ l * n \in Nat
    BY <2>3
  <2>5. CASE k <= l
    <3>1. PICK m \in Nat : l = k + m
      BY <2>3, <2>5
    <3>2. l * n = k * n + m * n /\ m * n \in Nat
      BY <2>3, <3>1
    <3> QED BY <1>4, <2>1, <2>2, <2>3, <2>4, <3>2
  <2>6. CASE k > l
    <3>1. PICK m \in Nat : k = l + 1 + m
      <4>1. k - l - 1 \in Nat /\ k = l + 1 + (k - l - 1)
        BY <2>3, <2>6
      <4> QED BY <4>1
    <3>2. k * n = l * n + n + m * n /\ m * n \in Nat
      BY <2>3, <3>1
    <3> QED BY <2>1, <2>2, <2>3, <2>4, <3>2
  <2> QED BY <2>3, <2>5, <2>6
<1>5. ASSUME NEW v \in Warp, NEW w \in Warp, NEW i \in Nat,
             Owned(n, v, i), Owned(n, w, i)
      PROVE  v = w
  <2>1. v \in Nat /\ w \in Nat
    BY <1>1
  <2> QED BY <1>4, <1>5, <2>1
<1>6. QED
  BY <1>2, <1>3, <1>5

-----------------------------------------------------------------------------
(* What each action does to the tables, cell by cell. *)

LEMMA CopyEffect ==
  ASSUME TypeOK, NEW r \in Rank, NEW w \in Warp, CopyRow(r, w),
         NEW z, z = <<r, nxt[r][w]>>
  PROVE  /\ z \in Entry /\ wpc[r][w] = "copy"
         /\ \A q \in Rank, v \in Warp :
              IF q = r /\ v = w THEN view'[q][v] = view[q][v] \cup {z}
                                ELSE view'[q][v] = view[q][v]
         /\ \A d \in Rank, s \in Row :
              recv'[d][s] = IF d = Send(z).dst /\ s = Send(z).slot THEN gen[r] ELSE recv[d][s]
         /\ PublishSegment =>
              /\ count[r][w] = 0 \/ Send(z).seg = curSeg[r][w]
              /\ wpc' = wpc
              /\ \A q \in Rank, v \in Warp :
                   IF q = r /\ v = w
                     THEN /\ curSeg'[q][v] = Send(z).seg
                          /\ count'[q][v] = count[q][v] + 1
                          /\ nxt'[q][v] = nxt[q][v] + TotalWarps(r)
                     ELSE /\ curSeg'[q][v] = curSeg[q][v]
                          /\ count'[q][v] = count[q][v]
                          /\ nxt'[q][v] = nxt[q][v]
         /\ ~PublishSegment =>
              /\ nxt' = nxt /\ HasRow(r, w)
              /\ \A q \in Rank, v \in Warp :
                   wpc'[q][v] = IF q = r /\ v = w THEN "arrive" ELSE wpc[q][v]
         /\ UNCHANGED <<gen, segDone, segView, flags, flagView, tile, ready, gview, racy>>
<1> DEFINE i == nxt[r][w]
           p == Plan[r][i]
<1>1. i \in 1 .. Len(Plan[r])
  <2>1. Len(Plan[r]) \in Nat
    BY DispatchAssumption
  <2>2. i \in Nat \ {0} /\ i <= Len(Plan[r])
    BY DEF CopyRow, HasRow, TypeOK
  <2> QED BY <2>1, <2>2
<1>2. z \in Entry /\ Send(z) = p
  BY <1>1, EntryFacts
<1>3. \A q \in Rank, v \in Warp :
        IF q = r /\ v = w THEN view'[q][v] = view[q][v] \cup {z}
                                ELSE view'[q][v] = view[q][v]
  <2>1. view' = [view EXCEPT ![r][w] = view[r][w] \cup {z}]
    BY DEF CopyRow
  <2>2. view \in [Rank -> [Warp -> SUBSET Entry]]
    BY DEF TypeOK
  <2> QED BY <2>1, <2>2
<1>4. \A d \in Rank, s \in Row :
        recv'[d][s] = IF d = Send(z).dst /\ s = Send(z).slot THEN gen[r] ELSE recv[d][s]
  <2>1. recv' = [recv EXCEPT ![p.dst][p.slot] = gen[r]]
    BY DEF CopyRow
  <2>2. recv \in [Rank -> [Row -> Nat]]
    BY DEF TypeOK
  <2> QED BY <1>2, <2>1, <2>2
<1>5. ASSUME PublishSegment
      PROVE  /\ count[r][w] = 0 \/ Send(z).seg = curSeg[r][w]
             /\ wpc' = wpc
             /\ \A q \in Rank, v \in Warp :
                  IF q = r /\ v = w
                    THEN /\ curSeg'[q][v] = Send(z).seg
                         /\ count'[q][v] = count[q][v] + 1
                         /\ nxt'[q][v] = nxt[q][v] + TotalWarps(r)
                    ELSE /\ curSeg'[q][v] = curSeg[q][v]
                         /\ count'[q][v] = count[q][v]
                         /\ nxt'[q][v] = nxt[q][v]
  <2>1. /\ curSeg' = [curSeg EXCEPT ![r][w] = p.seg]
        /\ count' = [count EXCEPT ![r][w] = count[r][w] + 1]
        /\ nxt' = [nxt EXCEPT ![r][w] = nxt[r][w] + TotalWarps(r)]
        /\ wpc' = wpc
        /\ count[r][w] = 0 \/ p.seg = curSeg[r][w]
    BY <1>5 DEF CopyRow
  <2>2. /\ curSeg \in [Rank -> [Warp -> Seg \cup {-1}]]
        /\ count \in [Rank -> [Warp -> Nat]]
        /\ nxt \in [Rank -> [Warp -> Nat \ {0}]]
    BY DEF TypeOK
  <2>3. \A q \in Rank, v \in Warp :
          curSeg'[q][v] = IF q = r /\ v = w THEN Send(z).seg ELSE curSeg[q][v]
    BY <1>2, <2>1, <2>2
  <2>4. \A q \in Rank, v \in Warp :
          count'[q][v] = IF q = r /\ v = w THEN count[q][v] + 1 ELSE count[q][v]
    BY <2>1, <2>2
  <2>5. \A q \in Rank, v \in Warp :
          nxt'[q][v] = IF q = r /\ v = w THEN nxt[q][v] + TotalWarps(r) ELSE nxt[q][v]
    BY <2>1, <2>2
  <2> HIDE DEF i, p
  <2> QED BY <1>2, <2>1, <2>3, <2>4, <2>5
<1>6. ASSUME ~PublishSegment
      PROVE  /\ nxt' = nxt /\ HasRow(r, w)
             /\ \A q \in Rank, v \in Warp :
                  wpc'[q][v] = IF q = r /\ v = w THEN "arrive" ELSE wpc[q][v]
  <2>1. nxt' = nxt /\ HasRow(r, w) /\ wpc' = [wpc EXCEPT ![r][w] = "arrive"]
    BY <1>6 DEF CopyRow
  <2>2. wpc \in [Rank -> [Warp -> {"copy", "arrive"}]]
    BY DEF TypeOK
  <2> QED BY <2>1, <2>2
<1>7. /\ wpc[r][w] = "copy"
      /\ UNCHANGED <<gen, segDone, segView, flags, flagView, tile, ready, gview, racy>>
  BY DEF CopyRow, gemmVars
<1> HIDE DEF i, p
<1> QED BY <1>2, <1>3, <1>4, <1>5, <1>6, <1>7

LEMMA FlushEffect ==
  ASSUME TypeOK, NEW r \in Rank, NEW w \in Warp, FlushSegment(r, w),
         NEW s, s = curSeg[r][w]
  PROVE  /\ PublishSegment /\ s \in Seg /\ wpc[r][w] = "copy" /\ count[r][w] > 0
         /\ \A q \in Rank, v \in Warp :
              /\ IF q = r /\ v = w THEN view'[q][v] = view[q][v] \cup segView[r][s]
                                ELSE view'[q][v] = view[q][v]
              /\ count'[q][v] = IF q = r /\ v = w THEN 0 ELSE count[q][v]
              /\ wpc'[q][v] =
                   IF q = r /\ v = w
                     THEN IF segDone[r][s] + count[r][w] = SegSize(r, s)
                            THEN "arrive" ELSE "copy"
                     ELSE wpc[q][v]
         /\ \A q \in Rank, t \in Seg :
              /\ IF q = r /\ t = s THEN segView'[q][t] = segView[q][t] \cup view[r][w]
                                ELSE segView'[q][t] = segView[q][t]
              /\ segDone'[q][t] =
                   IF q = r /\ t = s THEN segDone[q][t] + count[r][w] ELSE segDone[q][t]
         /\ UNCHANGED <<gen, nxt, curSeg, recv, flags, flagView, tile, ready, gview, racy>>
<1>1. /\ PublishSegment /\ s \in Seg /\ wpc[r][w] = "copy" /\ count[r][w] > 0
      /\ UNCHANGED <<gen, nxt, curSeg, recv, flags, flagView, tile, ready, gview, racy>>
  BY TypeFlushSegment DEF FlushSegment, gemmVars
<1>2. /\ view \in [Rank -> [Warp -> SUBSET Entry]]
      /\ count \in [Rank -> [Warp -> Nat]]
      /\ wpc \in [Rank -> [Warp -> {"copy", "arrive"}]]
      /\ segView \in [Rank -> [Seg -> SUBSET Entry]]
      /\ segDone \in [Rank -> [Seg -> Nat]]
  BY DEF TypeOK
<1>3. \A q \in Rank, v \in Warp :
        IF q = r /\ v = w THEN view'[q][v] = view[q][v] \cup segView[r][s]
                          ELSE view'[q][v] = view[q][v]
  <2>1. view' = [view EXCEPT ![r][w] = view[r][w] \cup segView[r][s]]
    BY DEF FlushSegment, CountRows
  <2> QED BY <1>2, <2>1
<1>4. \A q \in Rank, v \in Warp :
        count'[q][v] = IF q = r /\ v = w THEN 0 ELSE count[q][v]
  <2>1. count' = [count EXCEPT ![r][w] = 0]
    BY DEF FlushSegment
  <2> QED BY <1>2, <2>1
<1>5. \A q \in Rank, v \in Warp : wpc'[q][v] =
        IF q = r /\ v = w
          THEN IF segDone[r][s] + count[r][w] = SegSize(r, s) THEN "arrive" ELSE "copy"
          ELSE wpc[q][v]
  <2>1. wpc' = [wpc EXCEPT ![r][w] =
                  IF segDone[r][s] + count[r][w] = SegSize(r, s) THEN "arrive" ELSE "copy"]
    BY DEF FlushSegment, Completes
  <2> QED BY <1>2, <2>1
<1>6. \A q \in Rank, t \in Seg :
        IF q = r /\ t = s THEN segView'[q][t] = segView[q][t] \cup view[r][w]
                          ELSE segView'[q][t] = segView[q][t]
  <2>1. segView' = [segView EXCEPT ![r][s] = segView[r][s] \cup view[r][w]]
    BY DEF FlushSegment, CountRows
  <2> QED BY <1>1, <1>2, <2>1
<1>7. \A q \in Rank, t \in Seg : segDone'[q][t] =
        IF q = r /\ t = s THEN segDone[q][t] + count[r][w] ELSE segDone[q][t]
  <2>1. segDone' = [segDone EXCEPT ![r][s] = segDone[r][s] + count[r][w]]
    BY DEF FlushSegment, CountRows
  <2> QED BY <1>1, <1>2, <2>1
<1> QED BY <1>1, <1>3, <1>4, <1>5, <1>6, <1>7

LEMMA ArriveEffect ==
  ASSUME TypeOK, NEW r \in Rank, NEW w \in Warp, NEW d \in Rank, NEW e \in Expert,
         NEW n \in Nat, Arrive(r, w, d, e, n)
  PROVE  /\ \A q \in Rank, v \in Warp :
              wpc'[q][v] = IF q = r /\ v = w THEN "copy" ELSE wpc[q][v]
         /\ \A f \in Rank, g \in Expert :
              /\ flags'[f][g] = IF f = d /\ g = e THEN flags[f][g] + n ELSE flags[f][g]
              /\ IF f = d /\ g = e THEN flagView'[f][g] = flagView[f][g] \cup view[r][w]
                                ELSE flagView'[f][g] = flagView[f][g]
<1>1. /\ flags \in [Rank -> [Expert -> Nat]]
      /\ flagView \in [Rank -> [Expert -> SUBSET Entry]]
      /\ wpc \in [Rank -> [Warp -> {"copy", "arrive"}]]
  BY DEF TypeOK
<1>2. /\ flags' = [flags EXCEPT ![d][e] = flags[d][e] + n]
      /\ flagView' = [flagView EXCEPT ![d][e] = flagView[d][e] \cup view[r][w]]
      /\ wpc' = [wpc EXCEPT ![r][w] = "copy"]
  BY DEF Arrive
<1>3. \A q \in Rank, v \in Warp :
        wpc'[q][v] = IF q = r /\ v = w THEN "copy" ELSE wpc[q][v]
  BY <1>1, <1>2
<1>4. \A f \in Rank, g \in Expert :
        flags'[f][g] = IF f = d /\ g = e THEN flags[f][g] + n ELSE flags[f][g]
  BY <1>1, <1>2
<1>5. \A f \in Rank, g \in Expert :
        IF f = d /\ g = e THEN flagView'[f][g] = flagView[f][g] \cup view[r][w]
                          ELSE flagView'[f][g] = flagView[f][g]
  BY <1>1, <1>2
<1> QED BY <1>3, <1>4, <1>5

-----------------------------------------------------------------------------
(* One rank at a time: the list of rank r, whatever iteration it is in. *)

\* No rank is in a later iteration than r.
Newest(r) == \A q \in Rank : gen[q] <= gen[r]

\* A copy is never undone by an older one.
LEMMA CopyRecv ==
  ASSUME TypeOK, RowsCopied, NEW r \in Rank, NEW w \in Warp, CopyRow(r, w), Newest(r),
         NEW z, z = <<r, nxt[r][w]>>
  PROVE  /\ gen' = gen /\ flagView' = flagView
         /\ \A d \in Rank, s \in Row : recv[d][s] <= recv'[d][s]
         /\ Copied(z)'
         /\ \A d \in Rank, s \in Row : \E q \in Rank : recv'[d][s] <= gen[q]
<1>1. /\ z \in Entry /\ z[1] = r /\ Send(z).dst \in Rank /\ Send(z).slot \in Row
      /\ gen' = gen /\ flagView' = flagView
      /\ \A d \in Rank, s \in Row :
           recv'[d][s] = IF d = Send(z).dst /\ s = Send(z).slot THEN gen[r] ELSE recv[d][s]
  <2>1. z \in Entry /\ gen' = gen /\ flagView' = flagView
    BY CopyEffect
  <2>2. \A d \in Rank, s \in Row :
          recv'[d][s] = IF d = Send(z).dst /\ s = Send(z).slot THEN gen[r] ELSE recv[d][s]
    BY CopyEffect
  <2> QED BY <2>1, <2>2, EntryFacts
<1>2. gen \in [Rank -> Nat] /\ recv \in [Rank -> [Row -> Nat]]
  BY GridFacts DEF TypeOK
<1>3. ASSUME NEW d \in Rank, NEW s \in Row
      PROVE  recv[d][s] <= recv'[d][s]
  <2>1. PICK q \in Rank : recv[d][s] <= gen[q]
    BY DEF RowsCopied
  <2>2. recv[d][s] \in Nat /\ gen[q] \in Nat /\ gen[r] \in Nat /\ gen[q] <= gen[r]
    BY <1>2 DEF Newest
  <2>3. recv'[d][s] = gen[r] \/ recv'[d][s] = recv[d][s]
    BY <1>1
  <2> QED BY <2>1, <2>2, <2>3
<1>4. Copied(z)'
  <2>1. recv'[Send(z).dst][Send(z).slot] = gen[r] /\ gen'[z[1]] = gen[r] /\ gen[r] \in Nat
    BY <1>1, <1>2
  <2>2. recv'[Send(z).dst][Send(z).slot] >= gen'[z[1]]
    BY <2>1
  <2> QED BY <2>2 DEF Copied
<1>5. ASSUME NEW d \in Rank, NEW s \in Row
      PROVE  \E q \in Rank : recv'[d][s] <= gen[q]
  <2>1. CASE recv'[d][s] = gen[r]
    <3>1. recv'[d][s] <= gen[r]
      BY <1>2, <2>1
    <3> QED BY <3>1
  <2>2. CASE recv'[d][s] = recv[d][s]
    BY <2>2 DEF RowsCopied
  <2> QED BY <1>1, <2>1, <2>2
<1> QED BY <1>1, <1>3, <1>4, <1>5

\* Rows only get newer while no rank begins an iteration.
RowsGrow ==
  /\ gen' = gen
  /\ \A d \in Rank, s \in Row : recv[d][s] <= recv'[d][s]

LEMMA CopiedKept ==
  ASSUME TypeOK, TypeOK', RowsGrow, NEW x \in Entry, Copied(x)
  PROVE  Copied(x)'
<1>1. /\ Send(x).dst \in Rank /\ Send(x).slot \in Row /\ x[1] \in Rank
  BY EntryFacts
<1>2. /\ recv[Send(x).dst][Send(x).slot] \in Nat /\ recv'[Send(x).dst][Send(x).slot] \in Nat
      /\ gen[x[1]] \in Nat /\ gen'[x[1]] = gen[x[1]]
      /\ recv[Send(x).dst][Send(x).slot] <= recv'[Send(x).dst][Send(x).slot]
  <2>1. gen[x[1]] \in Nat
    BY <1>1, GridsNow
  <2> QED BY <1>1, <2>1 DEF TypeOK, RowsGrow
<1>3. recv[Send(x).dst][Send(x).slot] >= gen[x[1]]
  BY DEF Copied
<1>4. recv'[Send(x).dst][Send(x).slot] >= gen'[x[1]]
  BY <1>2, <1>3
<1> QED BY <1>4 DEF Copied

\* What a step does not change of rank q's dispatch.
SameList(q) ==
  /\ gen'[q] = gen[q] /\ nxt'[q] = nxt[q] /\ wpc'[q] = wpc[q]
  /\ curSeg'[q] = curSeg[q] /\ count'[q] = count[q] /\ view'[q] = view[q]
  /\ segDone'[q] = segDone[q] /\ segView'[q] = segView[q]

LEMMA ListKept ==
  ASSUME TypeOK, NEW q \in Rank, SameList(q), ListOK(q),
         \A x \in Entry : x[1] = q /\ Copied(x) => Copied(x)'
  PROVE  ListOK(q)'
<1>1. /\ \A w \in Warp : view[q][w] \subseteq Entry
      /\ \A s \in Seg : segView[q][s] \subseteq Entry
  BY DEF TypeOK
<1>2. ViewsOK(q)'
  BY <1>1 DEF ViewsOK, ListOK, SameList
<1>3. \A w, i : Passed(q, w, i)' <=> Passed(q, w, i)
  BY DEF Passed, SameList
<1>4. OrderOK(q)'
  BY <1>3 DEF OrderOK, ListOK, SameList, TotalWarps
<1>5. SegmentOK(q)'
  <2>1. \A w \in Warp : PendingOK(q, w)' <=> PendingOK(q, w)
    BY DEF PendingOK, Pending, SameList
  <2>2. \A s \in Seg : CountedOK(q, s)' <=> CountedOK(q, s)
    BY DEF CountedOK, Counted, SameList
  <2>3. \A w \in Warp : ArriveOK(q, w)' <=> ArriveOK(q, w)
    BY DEF ArriveOK, SameList
  <2> QED BY <2>1, <2>2, <2>3 DEF SegmentOK, ListOK, SameList
<1>6. TokenOK(q)'
  BY DEF TokenOK, ListOK, SameList, HasRow, TotalWarps
<1> QED BY <1>2, <1>4, <1>5, <1>6 DEF ListOK

LEMMA AnnouncedSame ==
  ASSUME NEW q, SameList(q), NEW x, x[1] = q
  PROVE  Announced(x)' <=> Announced(x)
BY DEF Announced, SameList, TotalWarps

\* A warp without uncounted rows has no pending ones, and conversely.
LEMMA PendingCount ==
  ASSUME TypeOK, NEW r \in Rank, NEW w \in Warp, PendingOK(r, w)
  PROVE  /\ Pending(r, w) \in SUBSET Entry /\ IsFiniteSet(Pending(r, w))
         /\ count[r][w] = 0 <=> Pending(r, w) = {}
<1>1. Pending(r, w) \in SUBSET Entry
  BY DEF Pending, TypeOK
<1>2. IsFiniteSet(Pending(r, w))
  BY <1>1, EntryFinite
<1>3. count[r][w] = Cardinality(Pending(r, w))
  BY DEF PendingOK
<1>4. QED
  BY <1>1, <1>2, <1>3, FS_EmptySet

\* The next row of a warp has been seen by nobody.
LEMMA NextUnseen ==
  ASSUME TypeOK, NEW r \in Rank, OrderOK(r), NEW w \in Warp, wpc[r][w] = "copy",
         w <= TotalWarps(r), NEW z, z = <<r, nxt[r][w]>>
  PROVE  /\ \A v \in Warp : z \notin view[r][v]
         /\ \A s \in Seg : z \notin segView[r][s]
<1>1. nxt[r][w] \in Nat /\ z[1] = r /\ z[2] = nxt[r][w]
  BY DEF TypeOK
<1>2. Owned(TotalWarps(r), w, z[2]) /\ ~Passed(r, w, z[2])
  BY <1>1 DEF OrderOK, Passed
<1>3. QED
  BY <1>2 DEF OrderOK

LEMMA SegmentParts ==
  ASSUME NEW r \in Rank, ListOK(r), PublishSegment
  PROVE  /\ \A w \in Warp : PendingOK(r, w)
         /\ \A s \in Seg : CountedOK(r, s)
         /\ \A w \in Warp : wpc[r][w] = "arrive" => ArriveOK(r, w)
BY DEF ListOK, SegmentOK

LEMMA CopyKeepsSegment ==
  ASSUME TypeOK, NEW r \in Rank, ListOK(r), NEW w \in Warp, CopyRow(r, w), PublishSegment
  PROVE  SegmentOK(r)'
<1>1. PICK z : z = <<r, nxt[r][w]>>
  OBVIOUS
<1>2. z \in Entry /\ Send(z).seg \in Seg /\ wpc[r][w] = "copy" /\ w <= TotalWarps(r)
  BY <1>1, CopyEffect, EntryFacts DEF CopyRow, HasRow
<1>3. /\ \A v \in Warp : z \notin view[r][v]
      /\ \A s \in Seg : z \notin segView[r][s]
  BY <1>1, <1>2, NextUnseen DEF ListOK
<1>4. /\ \A v \in Warp : IF v = w THEN view'[r][v] = view[r][v] \cup {z}
                                  ELSE view'[r][v] = view[r][v]
      /\ count[r][w] = 0 \/ Send(z).seg = curSeg[r][w]
      /\ wpc' = wpc /\ segDone' = segDone /\ segView' = segView
      /\ \A v \in Warp :
           IF v = w THEN curSeg'[r][v] = Send(z).seg /\ count'[r][v] = count[r][v] + 1
                    ELSE curSeg'[r][v] = curSeg[r][v] /\ count'[r][v] = count[r][v]
  <2>1. \A v \in Warp : IF v = w THEN view'[r][v] = view[r][v] \cup {z}
                                 ELSE view'[r][v] = view[r][v]
    BY <1>1, CopyEffect
  <2>2. /\ count[r][w] = 0 \/ Send(z).seg = curSeg[r][w]
        /\ wpc' = wpc
    BY <1>1, CopyEffect
  <2>3. \A v \in Warp :
           IF v = w THEN curSeg'[r][v] = Send(z).seg /\ count'[r][v] = count[r][v] + 1
                    ELSE curSeg'[r][v] = curSeg[r][v] /\ count'[r][v] = count[r][v]
    BY <1>1, CopyEffect
  <2>4. UNCHANGED <<segDone, segView>>
    BY <1>1, CopyEffect
  <2> QED BY <2>1, <2>2, <2>3, <2>4
<1>5. /\ \A v \in Warp : PendingOK(r, v)
      /\ \A s \in Seg : CountedOK(r, s)
      /\ \A v \in Warp : wpc[r][v] = "arrive" => ArriveOK(r, v)
  BY SegmentParts
<1>6. ASSUME NEW v \in Warp
      PROVE  IF v = w THEN Pending(r, v)' = Pending(r, v) \cup {z}
                      ELSE Pending(r, v)' = Pending(r, v)
  <2>1. z \notin segView[r][Send(z).seg]
    BY <1>2, <1>3
  <2> QED BY <2>1, <1>4 DEF Pending
<1>7. ASSUME NEW v \in Warp
      PROVE  PendingOK(r, v)'
  <2>1. PendingOK(r, v) /\ IsFiniteSet(Pending(r, v))
    BY <1>5, PendingCount
  <2>2. z \notin Pending(r, v) /\ z \notin view[r][v]
    BY <1>3 DEF Pending
  <2>3. count'[r][v] = Cardinality(Pending(r, v)')
    BY <1>4, <1>6, <2>1, <2>2, FS_AddElement DEF PendingOK
  <2>4. \A x \in Pending(r, v)' : Send(x).seg = curSeg'[r][v]
    <3>1. CASE v = w
      <4>1. count[r][w] = 0 => Pending(r, w) = {}
        BY <1>5, PendingCount
      <4> QED BY <1>4, <1>6, <2>1, <3>1, <4>1 DEF PendingOK
    <3>2. CASE v # w
      BY <1>4, <1>6, <2>1, <3>2 DEF PendingOK
    <3> QED BY <3>1, <3>2
  <2>5. ASSUME NEW u \in Warp \ {v}
        PROVE  Pending(r, v)' \cap view'[r][u] = {}
    <3>1. Pending(r, v) \cap view[r][u] = {} /\ z \notin view[r][u]
      BY <1>3, <2>1 DEF PendingOK
    <3>2. CASE v = w
      <4>1. Pending(r, v)' = Pending(r, v) \cup {z} /\ view'[r][u] = view[r][u]
        BY <1>4, <1>6, <3>2
      <4> QED BY <3>1, <4>1
    <3>3. CASE u = w
      <4>1. Pending(r, v)' = Pending(r, v) /\ view'[r][u] = view[r][u] \cup {z}
        BY <1>4, <1>6, <3>3
      <4> QED BY <2>2, <3>1, <4>1
    <3>4. CASE v # w /\ u # w
      <4>1. Pending(r, v)' = Pending(r, v) /\ view'[r][u] = view[r][u]
        BY <1>4, <1>6, <3>4
      <4> QED BY <3>1, <4>1
    <3> QED BY <3>2, <3>3, <3>4
  <2> QED BY <2>3, <2>4, <2>5 DEF PendingOK
<1>8. ASSUME NEW v \in Warp, wpc'[r][v] = "arrive"
      PROVE  ArriveOK(r, v)'
  <2>1. \A u \in Warp : wpc'[r][u] = "arrive" =>
          /\ curSeg'[r][u] = curSeg[r][u] /\ count'[r][u] = count[r][u]
          /\ view'[r][u] = view[r][u] /\ wpc[r][u] = "arrive"
    BY <1>2, <1>4
  <2>2. ArriveOK(r, v)
    BY <1>5, <1>8, <2>1
  <2> QED BY <1>4, <1>8, <2>1, <2>2 DEF ArriveOK
<1>9. \A s \in Seg : CountedOK(r, s)'
  BY <1>4, <1>5 DEF CountedOK, Counted
<1> QED BY <1>7, <1>8, <1>9 DEF SegmentOK

LEMMA CopyKeepsList ==
  ASSUME TypeOK, TypeOK', RowsCopied, NEW r \in Rank, ListOK(r), Newest(r),
         NEW w \in Warp, CopyRow(r, w)
  PROVE  /\ RowsGrow /\ ListOK(r)' /\ flags' = flags /\ flagView' = flagView
         /\ \A x \in Entry : x[1] = r /\ Announced(x) => Announced(x)'
         /\ \A d \in Rank : ShownOK(r, d) => ShownOK(r, d)'
<1>1. PICK z : z = <<r, nxt[r][w]>>
  OBVIOUS
<1>2. /\ z \in Entry /\ z[1] = r /\ z[2] = nxt[r][w]
      /\ nxt[r][w] \in Nat /\ nxt[r][w] + TotalWarps(r) \in Nat /\ TotalWarps(r) \in Nat \ {0}
      /\ wpc[r][w] = "copy" /\ w <= TotalWarps(r)
  <2>1. nxt[r][w] \in Nat /\ nxt[r][w] + TotalWarps(r) \in Nat /\ TotalWarps(r) \in Nat \ {0}
    BY GridsNow DEF TypeOK
  <2>2. z \in Entry /\ wpc[r][w] = "copy" /\ w <= TotalWarps(r)
    BY <1>1, CopyEffect DEF CopyRow, HasRow
  <2> QED BY <1>1, <2>1, <2>2
<1>3. ASSUME NEW v \in Warp, NEW x \in view'[r][v]
      PROVE  x \in view[r][v] \/ (v = w /\ x = z)
  <2>1. IF v = w THEN view'[r][v] = view[r][v] \cup {z} ELSE view'[r][v] = view[r][v]
    BY <1>1, CopyEffect
  <2> QED BY <1>3, <2>1
<1>4. /\ gen' = gen /\ segView' = segView /\ flags' = flags /\ flagView' = flagView
      /\ \A q \in Rank : TotalWarps(q)' = TotalWarps(q)
  BY <1>1, CopyEffect DEF TotalWarps
<1>5. PublishSegment =>
        /\ wpc' = wpc
        /\ \A v \in Warp :
             nxt'[r][v] = IF v = w THEN nxt[r][v] + TotalWarps(r) ELSE nxt[r][v]
  BY <1>1, CopyEffect
<1>6. ~PublishSegment =>
        /\ nxt' = nxt /\ HasRow(r, w)
        /\ \A v \in Warp : wpc'[r][v] = IF v = w THEN "arrive" ELSE wpc[r][v]
  BY <1>1, CopyEffect
<1>7. RowsGrow /\ Copied(z)'
  BY <1>1, CopyRecv DEF RowsGrow
<1>8. ViewsOK(r) /\ OrderOK(r) /\ SegmentOK(r) /\ TokenOK(r)
  BY DEF ListOK
<1>9. \A x \in Entry : Copied(x) => Copied(x)'
  BY <1>7, CopiedKept
<1>10. /\ \A v \in Warp : view[r][v] \subseteq Entry
       /\ \A s \in Seg : segView[r][s] \subseteq Entry
       /\ \A v \in Warp : nxt[r][v] \in Nat /\ nxt'[r][v] \in Nat
  BY DEF TypeOK
<1>11. ViewsOK(r)'
  <2>1. \A v \in Warp : \A x \in view'[r][v] : x[1] = r /\ Copied(x)'
    BY <1>2, <1>3, <1>7, <1>8, <1>9, <1>10 DEF ViewsOK
  <2>2. \A s \in Seg : \A x \in segView'[r][s] : x[1] = r /\ Copied(x)'
    BY <1>4, <1>8, <1>9, <1>10 DEF ViewsOK
  <2> QED BY <2>1, <2>2 DEF ViewsOK
<1>12. OrderOK(r)'
  <2>1. \A v \in Warp : v <= TotalWarps(r) => Owned(TotalWarps(r), v, nxt'[r][v])
    BY <1>2, <1>5, <1>6, <1>8, OwnedFacts DEF OrderOK
  <2>2. \A x \in Entry : x[2] \in Nat
    BY EntryFacts, DispatchAssumption
  <2>3. ASSUME NEW v \in Warp, NEW i \in Nat, Passed(r, v, i)
        PROVE  Passed(r, v, i)'
    <3>1. CASE PublishSegment
      <4>1. i < nxt[r][v] /\ nxt[r][v] <= nxt'[r][v]
        BY <1>2, <1>5, <1>10, <2>3, <3>1 DEF Passed
      <4>2. i < nxt'[r][v]
        BY <1>10, <4>1
      <4> QED BY <4>2 DEF Passed
    <3>2. CASE ~PublishSegment
      BY <1>6, <2>3, <3>2 DEF Passed
    <3> QED BY <3>1, <3>2
  <2>4. ASSUME NEW v \in Warp, Owned(TotalWarps(r), v, z[2])
        PROVE  Passed(r, v, z[2])'
    <3>1. v = w
      BY <1>2, <1>8, <2>4, OwnedFacts DEF OrderOK
    <3>2. CASE PublishSegment
      <4>1. nxt'[r][w] = nxt[r][w] + TotalWarps(r)
        BY <1>5, <3>2
      <4> QED BY <1>2, <3>1, <4>1 DEF Passed
    <3>3. CASE ~PublishSegment
      BY <1>2, <1>6, <3>1, <3>3 DEF Passed
    <3> QED BY <3>2, <3>3
  <2>5. ASSUME NEW u \in Warp, NEW v \in Warp, NEW x \in view'[r][u],
               Owned(TotalWarps(r), v, x[2])
        PROVE  Passed(r, v, x[2])'
    <3>1. CASE x \in view[r][u]
      BY <1>8, <1>10, <2>2, <2>3, <2>5, <3>1 DEF OrderOK
    <3>2. CASE x = z
      BY <2>4, <2>5, <3>2
    <3> QED BY <1>3, <2>5, <3>1, <3>2
  <2>6. ASSUME NEW s \in Seg, NEW v \in Warp, NEW x \in segView'[r][s],
               Owned(TotalWarps(r), v, x[2])
        PROVE  Passed(r, v, x[2])'
    BY <1>4, <1>8, <1>10, <2>2, <2>3, <2>6 DEF OrderOK
  <2> QED BY <1>4, <2>1, <2>5, <2>6 DEF OrderOK
<1>13. SegmentOK(r)'
  <2>1. CASE PublishSegment
    BY <2>1, CopyKeepsSegment
  <2>2. CASE ~PublishSegment
    BY <2>2 DEF SegmentOK
  <2> QED BY <2>1, <2>2
<1>14. TokenOK(r)'
  <2>1. SUFFICES ASSUME ~PublishSegment, NEW v \in Warp
                 PROVE  /\ \A x \in view'[r][v] : Owned(TotalWarps(r), v, x[2])
                        /\ wpc'[r][v] = "arrive" =>
                             HasRow(r, v)' /\ <<r, nxt'[r][v]>> \in view'[r][v]
    BY <1>4 DEF TokenOK
  <2>2. /\ \A x \in view[r][v] : Owned(TotalWarps(r), v, x[2])
        /\ wpc[r][v] = "arrive" => HasRow(r, v) /\ <<r, nxt[r][v]>> \in view[r][v]
    BY <1>8, <2>1 DEF TokenOK
  <2>3. nxt' = nxt /\ (HasRow(r, v)' <=> HasRow(r, v))
    BY <1>4, <1>6, <2>1 DEF HasRow
  <2>4. Owned(TotalWarps(r), w, z[2])
    BY <1>2, <1>8 DEF OrderOK
  <2>5. \A x \in view'[r][v] : Owned(TotalWarps(r), v, x[2])
    BY <1>3, <2>2, <2>4
  <2>6. ASSUME wpc'[r][v] = "arrive"
        PROVE  HasRow(r, v)' /\ <<r, nxt'[r][v]>> \in view'[r][v]
    <3>1. IF v = w THEN view'[r][v] = view[r][v] \cup {z} ELSE view'[r][v] = view[r][v]
      BY <1>1, CopyEffect
    <3>2. CASE v = w
      BY <1>1, <1>6, <2>1, <2>3, <3>1, <3>2
    <3>3. CASE v # w
      BY <1>6, <2>1, <2>2, <2>3, <2>6, <3>1, <3>3
    <3> QED BY <3>2, <3>3
  <2> QED BY <2>5, <2>6
<1>15. ASSUME NEW x \in Entry, x[1] = r, Announced(x)
       PROVE  Announced(x)'
  <2>1. CASE PublishSegment
    <3>1. \A v \in Warp : wpc[r][v] = "arrive" => curSeg'[r][v] = curSeg[r][v]
      BY <1>1, <1>2, <2>1, CopyEffect
    <3> QED BY <1>4, <1>5, <1>15, <2>1, <3>1 DEF Announced
  <2>2. CASE ~PublishSegment
    BY <1>4, <1>6, <1>15, <2>2 DEF Announced
  <2> QED BY <2>1, <2>2
<1>16. ASSUME NEW d \in Rank, ShownOK(r, d)
       PROVE  ShownOK(r, d)'
  <2>1. SUFFICES ASSUME ~PublishSegment, NEW v \in Warp, NEW x \in view'[r][v],
                        Send(x).dst = d, x[2] # nxt'[r][v]
                 PROVE  x \in flagView'[d][Send(x).expert]
    BY DEF ShownOK
  <2>2. x \in view[r][v]
    BY <1>2, <1>3, <1>6, <2>1
  <2> QED BY <1>4, <1>6, <1>16, <2>1, <2>2 DEF ShownOK
<1> QED BY <1>4, <1>7, <1>11, <1>12, <1>13, <1>14, <1>15, <1>16 DEF ListOK

LEMMA FlushKeepsSegment ==
  ASSUME TypeOK, NEW r \in Rank, ListOK(r), NEW w \in Warp, FlushSegment(r, w)
  PROVE  /\ SegmentOK(r)'
         /\ \A t \in Seg : segView[r][t] \subseteq segView'[r][t]
         /\ ~(SegEntries(r, curSeg[r][w]) \subseteq segView[r][curSeg[r][w]])
<1>1. PICK s : s = curSeg[r][w]
  OBVIOUS
<1>2. PublishSegment /\ s \in Seg /\ wpc[r][w] = "copy" /\ count[r][w] > 0
  BY <1>1, FlushEffect
<1>3. \A v \in Warp :
        /\ IF v = w THEN view'[r][v] = view[r][v] \cup segView[r][s]
                    ELSE view'[r][v] = view[r][v]
        /\ count'[r][v] = IF v = w THEN 0 ELSE count[r][v]
        /\ wpc'[r][v] = IF v = w
                          THEN IF segDone[r][s] + count[r][w] = SegSize(r, s)
                                 THEN "arrive" ELSE "copy"
                          ELSE wpc[r][v]
  BY <1>1, FlushEffect
<1>4. \A t \in Seg :
        /\ IF t = s THEN segView'[r][t] = segView[r][t] \cup view[r][w]
                    ELSE segView'[r][t] = segView[r][t]
        /\ segDone'[r][t] = IF t = s THEN segDone[r][t] + count[r][w] ELSE segDone[r][t]
  BY <1>1, FlushEffect
<1>5. curSeg' = curSeg
  BY <1>1, FlushEffect
<1>6. /\ \A v \in Warp : PendingOK(r, v)
      /\ \A t \in Seg : CountedOK(r, t)
      /\ \A v \in Warp : wpc[r][v] = "arrive" => ArriveOK(r, v)
  BY <1>2, SegmentParts
<1>7. /\ \A v \in Warp : view[r][v] \subseteq Entry
      /\ \A t \in Seg : segView[r][t] \subseteq Entry
      /\ \A v \in Warp : \A x \in view[r][v] : x[1] = r
      /\ \A t \in Seg : segDone[r][t] \in Nat
      /\ \A v \in Warp : count[r][v] \in Nat
  BY DEF TypeOK, ListOK, ViewsOK
<1>8. /\ view'[r][w] = view[r][w] \cup segView[r][s]
      /\ segView'[r][s] = view[r][w] \cup segView[r][s]
  BY <1>2, <1>3, <1>4
<1>9. \A x \in Entry : Send(x).seg \in Seg
  BY EntryFacts
<1>10. \A t \in Seg : segView[r][t] \subseteq segView'[r][t]
  <2>1. SUFFICES ASSUME NEW t \in Seg
                 PROVE  segView[r][t] \subseteq segView'[r][t]
    OBVIOUS
  <2>2. CASE t = s
    BY <1>8, <2>2
  <2>3. CASE t # s
    BY <1>4, <2>3
  <2> QED BY <2>2, <2>3
\* The flushed warp's rows are pending in its segment or already counted.
<1>11. \A x \in view[r][w] :
         \/ x \in Pending(r, w) /\ Send(x).seg = s
         \/ x \notin Pending(r, w) /\ x \in segView[r][Send(x).seg]
  BY <1>1, <1>6 DEF PendingOK, Pending
<1>12. \A x \in segView[r][s] : x \in segView[r][Send(x).seg]
  BY <1>2, <1>6 DEF CountedOK
<1>13. \A x \in segView'[r][s] : x \in segView'[r][Send(x).seg]
  <2>1. SUFFICES ASSUME NEW x \in view[r][w] \cup segView[r][s]
                 PROVE  x \in segView'[r][Send(x).seg]
    BY <1>8
  <2>2. Send(x).seg \in Seg
    BY <1>2, <1>7, <1>9
  <2>3. CASE x \in view[r][w] /\ Send(x).seg = s
    BY <1>8, <2>3
  <2>4. CASE x \in segView[r][Send(x).seg]
    BY <1>10, <2>2, <2>4
  <2> QED BY <1>11, <1>12, <2>3, <2>4
<1>14. Pending(r, w)' = {}
  BY <1>8, <1>13 DEF Pending
<1>15. ASSUME NEW v \in Warp, v # w
       PROVE  Pending(r, v)' = Pending(r, v) /\ view'[r][v] = view[r][v]
  <2>1. view'[r][v] = view[r][v]
    BY <1>3, <1>15
  <2>2. ASSUME NEW x \in view[r][v]
        PROVE  x \in segView'[r][Send(x).seg] <=> x \in segView[r][Send(x).seg]
    <3>1. Send(x).seg \in Seg
      BY <1>7, <1>9
    <3>2. CASE Send(x).seg = s /\ x \notin segView[r][s]
      <4>1. x \in Pending(r, v)
        BY <2>2, <3>2 DEF Pending
      <4>2. x \notin view[r][w]
        BY <1>6, <1>15, <4>1 DEF PendingOK
      <4> QED BY <1>8, <3>2, <4>2
    <3>3. CASE Send(x).seg = s /\ x \in segView[r][s]
      BY <1>8, <3>3
    <3>4. CASE Send(x).seg # s
      BY <1>4, <3>1, <3>4
    <3> QED BY <3>2, <3>3, <3>4
  <2> QED BY <2>1, <2>2 DEF Pending
<1>16. ASSUME NEW v \in Warp
       PROVE  PendingOK(r, v)'
  <2>1. CASE v = w
    BY <1>2, <1>3, <1>14, <2>1, FS_EmptySet DEF PendingOK
  <2>2. CASE v # w
    <3>1. PendingOK(r, v) /\ Pending(r, v)' = Pending(r, v) /\ count'[r][v] = count[r][v]
      BY <1>3, <1>6, <1>15, <2>2
    <3>2. ASSUME NEW u \in Warp \ {v}
          PROVE  Pending(r, v)' \cap view'[r][u] = {}
      <4>1. Pending(r, v) \cap view[r][u] = {}
        BY <3>1 DEF PendingOK
      <4>2. CASE u = w
        <5>1. Pending(r, v) \cap segView[r][s] = {}
          BY <1>12 DEF Pending
        <5> QED BY <1>8, <3>1, <4>1, <4>2, <5>1
      <4>3. CASE u # w
        BY <1>15, <3>1, <4>1, <4>3
      <4> QED BY <4>2, <4>3
    <3> QED BY <1>5, <3>1, <3>2 DEF PendingOK
  <2> QED BY <2>1, <2>2
\* The counter of the segment grows by the rows that were pending.
<1>17. /\ Counted(r, s)' = Counted(r, s) \cup Pending(r, w)
       /\ Counted(r, s) \cap Pending(r, w) = {}
       /\ Pending(r, w) \subseteq SegEntries(r, s)
  <2>1. Pending(r, w) \subseteq SegEntries(r, s)
    BY <1>7, <1>11 DEF Pending, SegEntries
  <2>2. Counted(r, s) \cap Pending(r, w) = {}
    BY <1>11 DEF Counted, Pending
  <2>3. \A x \in view[r][w] \cap SegEntries(r, s) : x \in Counted(r, s) \cup Pending(r, w)
    BY <1>11 DEF Counted, SegEntries
  <2>4. Pending(r, w) \subseteq view[r][w]
    BY DEF Pending
  <2> QED BY <1>8, <2>1, <2>2, <2>3, <2>4 DEF Counted
<1>18. segDone'[r][s] = Cardinality(Counted(r, s)')
  <2>1. IsFiniteSet(Counted(r, s)) /\ IsFiniteSet(Pending(r, w))
    BY EntryFinite, Sizes, <1>2, <1>17 DEF Counted
  <2>2. Cardinality(Counted(r, s) \cup Pending(r, w))
          = Cardinality(Counted(r, s)) + Cardinality(Pending(r, w))
            - Cardinality(Counted(r, s) \cap Pending(r, w))
    BY <2>1, FS_Union
  <2>3. segDone[r][s] = Cardinality(Counted(r, s)) /\ count[r][w] = Cardinality(Pending(r, w))
    BY <1>2, <1>6 DEF CountedOK, PendingOK
  <2>4. segDone'[r][s] = segDone[r][s] + count[r][w]
    BY <1>2, <1>4
  <2>5. Cardinality(Counted(r, s) \cap Pending(r, w)) = 0
    BY <1>17, FS_EmptySet
  <2>6. segDone[r][s] \in Nat /\ count[r][w] \in Nat
    BY <1>2, <1>7
  <2>7. Counted(r, s)' = Counted(r, s) \cup Pending(r, w)
    BY <1>17
  <2>8. Cardinality(Counted(r, s) \cup Pending(r, w)) = segDone[r][s] + count[r][w]
    BY <2>2, <2>3, <2>5, <2>6
  <2> QED BY <2>4, <2>7, <2>8
<1>19. ASSUME NEW t \in Seg
       PROVE  CountedOK(r, t)'
  <2>1. CASE t = s
    BY <1>13, <1>18, <2>1 DEF CountedOK
  <2>2. CASE t # s
    <3>1. segView'[r][t] = segView[r][t] /\ segDone'[r][t] = segDone[r][t]
      BY <1>4, <2>2
    <3>2. \A x \in segView[r][t] : x \in segView[r][Send(x).seg] /\ Send(x).seg \in Seg
      BY <1>6, <1>7, <1>9 DEF CountedOK
    <3> QED BY <1>6, <1>10, <3>1, <3>2 DEF CountedOK, Counted
  <2> QED BY <2>1, <2>2
\* Nobody can have completed the segment before: a row of it was pending.
<1>20. PICK y \in Pending(r, w) : y \in SegEntries(r, s) /\ y \notin segView[r][s]
  <2>1. Pending(r, w) # {}
    BY <1>2, <1>6, PendingCount
  <2>2. ASSUME NEW y \in Pending(r, w)
        PROVE  y \in SegEntries(r, s) /\ y \notin segView[r][s]
    BY <1>11, <1>17 DEF Pending
  <2> QED BY <2>1, <2>2
<1>21. ASSUME NEW v \in Warp, v # w, wpc[r][v] = "arrive"
       PROVE  curSeg[r][v] # s
  <2>1. ArriveOK(r, v)
    BY <1>6, <1>21
  <2> QED BY <1>20, <2>1 DEF ArriveOK
<1>22. ASSUME NEW v \in Warp, wpc'[r][v] = "arrive"
       PROVE  ArriveOK(r, v)'
  <2>1. CASE v = w
    <3>1. segDone'[r][s] = SegSize(r, s)
      BY <1>2, <1>3, <1>4, <1>22, <2>1
    <3>2. Counted(r, s)' = SegEntries(r, s)
      <4>1. Counted(r, s)' \subseteq SegEntries(r, s) /\ IsFiniteSet(SegEntries(r, s))
        BY <1>2, <1>17, EntryFinite, Sizes DEF Counted
      <4> QED BY <1>18, <3>1, <4>1, FS_Subset DEF SegSize
    <3>3. SegEntries(r, s) \subseteq view'[r][w] \cap segView'[r][s]
      BY <1>8, <3>2 DEF Counted
    <3>4. \A u \in Warp \ {w} : wpc'[r][u] = "arrive" => curSeg[r][u] # s
      BY <1>3, <1>21
    <3>5. count'[r][w] = 0
      BY <1>3
    <3> QED BY <1>1, <1>2, <1>5, <1>20, <2>1, <3>3, <3>4, <3>5 DEF ArriveOK
  <2>2. CASE v # w
    <3>1. /\ wpc[r][v] = "arrive" /\ view'[r][v] = view[r][v] /\ count'[r][v] = count[r][v]
      BY <1>3, <1>22, <2>2
    <3>2. ArriveOK(r, v)
      BY <1>6, <3>1
    <3>3. \A u \in Warp \ {v} : wpc'[r][u] = "arrive" => curSeg[r][u] # curSeg[r][v]
      <4>1. SUFFICES ASSUME NEW u \in Warp \ {v}, wpc'[r][u] = "arrive"
                     PROVE  curSeg[r][u] # curSeg[r][v]
        OBVIOUS
      <4>2. CASE u = w
        BY <1>1, <1>21, <2>2, <3>1, <4>2
      <4>3. CASE u # w
        <5>1. wpc[r][u] = "arrive"
          BY <1>3, <4>1, <4>3
        <5> QED BY <3>2, <5>1 DEF ArriveOK
      <4> QED BY <4>2, <4>3
    <3>4. segView[r][curSeg[r][v]] \subseteq segView'[r][curSeg[r][v]]
      BY <1>10, <3>2 DEF ArriveOK
    <3> QED BY <1>5, <3>1, <3>2, <3>3, <3>4 DEF ArriveOK
  <2> QED BY <2>1, <2>2
<1>23. SegmentOK(r)'
  BY <1>16, <1>19, <1>22 DEF SegmentOK
<1>24. ~(SegEntries(r, curSeg[r][w]) \subseteq segView[r][curSeg[r][w]])
  BY <1>1, <1>20
<1> QED BY <1>10, <1>23, <1>24

LEMMA FlushKeepsList ==
  ASSUME TypeOK, TypeOK', NEW r \in Rank, ListOK(r), NEW w \in Warp, FlushSegment(r, w)
  PROVE  /\ RowsGrow /\ ListOK(r)' /\ flags' = flags /\ flagView' = flagView
         /\ \A x \in Entry : x[1] = r /\ Announced(x) => Announced(x)'
         /\ \A d \in Rank : ShownOK(r, d) => ShownOK(r, d)'
<1>1. PICK s : s = curSeg[r][w]
  OBVIOUS
<1>2. PublishSegment /\ s \in Seg
  BY <1>1, FlushEffect
<1>3. \A v \in Warp :
        /\ IF v = w THEN view'[r][v] = view[r][v] \cup segView[r][s]
                    ELSE view'[r][v] = view[r][v]
        /\ wpc'[r][v] = "arrive" => wpc[r][v] = "arrive" \/ v = w
  BY <1>1, FlushEffect
<1>4. \A t \in Seg : IF t = s THEN segView'[r][t] = segView[r][t] \cup view[r][w]
                              ELSE segView'[r][t] = segView[r][t]
  BY <1>1, FlushEffect
<1>5. /\ gen' = gen /\ nxt' = nxt /\ recv' = recv /\ flags' = flags /\ flagView' = flagView
      /\ curSeg' = curSeg
  BY <1>1, FlushEffect
<1>6. \A v \in Warp : \A x \in view'[r][v] : x \in view[r][v] \/ x \in segView[r][s]
  BY <1>3
<1>7. \A t \in Seg : \A x \in segView'[r][t] : x \in segView[r][t] \/ x \in view[r][w]
  BY <1>4
<1>8. ViewsOK(r) /\ OrderOK(r)
  BY DEF ListOK
<1>9. RowsGrow
  <2>1. \A d \in Rank, t \in Row : recv[d][t] \in Nat
    BY DEF TypeOK
  <2>2. \A d \in Rank, t \in Row : recv[d][t] <= recv'[d][t]
    BY <1>5, <2>1
  <2> QED BY <1>5, <2>2 DEF RowsGrow
<1>10. ViewsOK(r)'
  <2>1. \A x : Copied(x)' <=> Copied(x)
    BY <1>5 DEF Copied
  <2>2. \A v \in Warp : \A x \in view'[r][v] : x[1] = r /\ Copied(x)
    BY <1>2, <1>6, <1>8 DEF ViewsOK
  <2>3. \A t \in Seg : \A x \in segView'[r][t] : x[1] = r /\ Copied(x)
    BY <1>7, <1>8 DEF ViewsOK
  <2> QED BY <2>1, <2>2, <2>3 DEF ViewsOK
<1>11. OrderOK(r)'
  <2>1. \A v \in Warp : \A i : Passed(r, v, i)' <=> Passed(r, v, i)
    BY <1>2, <1>5 DEF Passed
  <2>2. \A u, v \in Warp : \A x \in view'[r][u] :
          Owned(TotalWarps(r), v, x[2]) => Passed(r, v, x[2])
    BY <1>2, <1>6, <1>8 DEF OrderOK
  <2>3. \A t \in Seg, v \in Warp : \A x \in segView'[r][t] :
          Owned(TotalWarps(r), v, x[2]) => Passed(r, v, x[2])
    BY <1>7, <1>8 DEF OrderOK
  <2> QED BY <1>5, <1>8, <2>1, <2>2, <2>3 DEF OrderOK, TotalWarps
<1>12. SegmentOK(r)' /\ TokenOK(r)'
  BY <1>2, FlushKeepsSegment DEF TokenOK
<1>13. ASSUME NEW x \in Entry, x[1] = r, Announced(x)
       PROVE  Announced(x)'
  <2>1. PICK t : t = Send(x).seg
    OBVIOUS
  <2>2. /\ t \in Seg /\ SegEntries(r, t) \subseteq segView[r][t]
        /\ \A v \in Warp : ~(wpc[r][v] = "arrive" /\ curSeg[r][v] = t)
    BY <1>2, <1>13, <2>1, EntryFacts DEF Announced
  <2>3. t # s /\ segView[r][t] \subseteq segView'[r][t]
    BY <1>1, <2>2, FlushKeepsSegment
  <2>4. \A v \in Warp : ~(wpc'[r][v] = "arrive" /\ curSeg'[r][v] = t)
    BY <1>1, <1>3, <1>5, <2>2, <2>3
  <2> QED BY <1>2, <1>13, <2>1, <2>2, <2>3, <2>4 DEF Announced
<1>14. \A d \in Rank : ShownOK(r, d)'
  BY <1>2 DEF ShownOK
<1> QED BY <1>5, <1>9, <1>10, <1>11, <1>12, <1>13, <1>14 DEF ListOK

\* Raising flag e of rank d announces the rows S of the batch that the warp
\* sees, the others that it sees are in the flag already.
Raises(r, w, d, e, S) ==
  /\ d \in Rank /\ e \in Expert
  /\ S # {} /\ S \subseteq view[r][w] /\ S \subseteq ExpertEntries(d, e)
  /\ \A x \in S : ~Announced(x)
  /\ \A x \in view[r][w] \cap ExpertEntries(d, e) : Announced(x)'
  /\ ShownOK(r, d) => view[r][w] \cap ExpertEntries(d, e) \subseteq S \cup flagView[d][e]
  /\ \A f \in Rank, g \in Expert : flags'[f][g] =
       IF f = d /\ g = e THEN flags[f][g] + Cardinality(S) ELSE flags[f][g]
  /\ \A f \in Rank, g \in Expert :
       IF f = d /\ g = e THEN flagView'[f][g] = flagView[f][g] \cup view[r][w]
                         ELSE flagView'[f][g] = flagView[f][g]

LEMMA ArriveSegmentKeepsList ==
  ASSUME TypeOK, TypeOK', NEW r \in Rank, ListOK(r), NEW w \in Warp, ArriveSegment(r, w)
  PROVE  /\ RowsGrow /\ ListOK(r)'
         /\ \A x \in Entry : x[1] = r /\ Announced(x) => Announced(x)'
         /\ \A d \in Rank : ShownOK(r, d) => ShownOK(r, d)'
         /\ \E d, e, S : Raises(r, w, d, e, S)
<1>1. PICK s : s = curSeg[r][w]
  OBVIOUS
<1>2. PICK d, e, S : d = SegDst(r, s) /\ e = SegExpert(s) /\ S = SegEntries(r, s)
  OBVIOUS
<1>3. /\ PublishSegment /\ wpc[r][w] = "arrive"
      /\ Arrive(r, w, d, e, SegSize(r, s))
      /\ gen' = gen /\ nxt' = nxt /\ curSeg' = curSeg /\ count' = count /\ view' = view
      /\ segDone' = segDone /\ segView' = segView /\ recv' = recv
  BY <1>1, <1>2 DEF ArriveSegment
<1>4. /\ \A v \in Warp : PendingOK(r, v)
      /\ \A t \in Seg : CountedOK(r, t)
      /\ \A v \in Warp : wpc[r][v] = "arrive" => ArriveOK(r, v)
      /\ ViewsOK(r) /\ OrderOK(r)
  BY <1>3, SegmentParts DEF ListOK
<1>5. /\ s \in Seg /\ S # {} /\ S \subseteq view[r][w] /\ S \subseteq segView[r][s]
      /\ \A v \in Warp \ {w} : wpc[r][v] = "arrive" => curSeg[r][v] # s
  BY <1>1, <1>2, <1>3, <1>4 DEF ArriveOK
<1>6. /\ d \in Rank /\ e \in Expert /\ S \subseteq ExpertEntries(d, e)
      /\ \A x \in ExpertEntries(d, e) : x[1] = r => x \in S
  BY <1>2, <1>5, SegmentBatch
<1>7. SegSize(r, s) \in Nat /\ SegSize(r, s) = Cardinality(S)
  BY <1>2, <1>5, Sizes DEF SegSize
<1>8. /\ \A v \in Warp : wpc'[r][v] = IF v = w THEN "copy" ELSE wpc[r][v]
      /\ \A f \in Rank, g \in Expert :
           /\ flags'[f][g] =
                IF f = d /\ g = e THEN flags[f][g] + Cardinality(S) ELSE flags[f][g]
           /\ IF f = d /\ g = e THEN flagView'[f][g] = flagView[f][g] \cup view[r][w]
                                ELSE flagView'[f][g] = flagView[f][g]
  BY <1>3, <1>6, <1>7, ArriveEffect
<1>9. view[r][w] \cap ExpertEntries(d, e) = S
  BY <1>4, <1>5, <1>6 DEF ViewsOK
<1>10. \A x \in S : x[1] = r /\ Send(x).seg = s
  BY <1>2 DEF SegEntries
<1>11. RowsGrow
  <2>1. \A f \in Rank, t \in Row : recv[f][t] \in Nat
    BY DEF TypeOK
  <2>2. \A f \in Rank, t \in Row : recv[f][t] <= recv'[f][t]
    BY <1>3, <2>1
  <2> QED BY <1>3, <2>2 DEF RowsGrow
<1>12. ListOK(r)'
  <2>1. ViewsOK(r)'
    BY <1>3, <1>4 DEF ViewsOK, Copied
  <2>2. OrderOK(r)'
    <3>1. \A v, i : Passed(r, v, i)' <=> Passed(r, v, i)
      BY <1>3 DEF Passed
    <3> QED BY <1>3, <1>4, <3>1 DEF OrderOK, TotalWarps
  <2>3. ASSUME NEW v \in Warp PROVE PendingOK(r, v)'
    <3>1. Pending(r, v)' = Pending(r, v)
      BY <1>3 DEF Pending
    <3> QED BY <1>3, <1>4, <3>1 DEF PendingOK
  <2>4. ASSUME NEW t \in Seg PROVE CountedOK(r, t)'
    BY <1>3, <1>4 DEF CountedOK, Counted
  <2>5. ASSUME NEW v \in Warp, wpc'[r][v] = "arrive" PROVE ArriveOK(r, v)'
    <3>1. wpc[r][v] = "arrive" /\ ArriveOK(r, v)
      BY <1>4, <1>8, <2>5
    <3>2. \A u \in Warp \ {v} : wpc'[r][u] = "arrive" => curSeg[r][u] # curSeg[r][v]
      BY <1>8, <3>1 DEF ArriveOK
    <3> QED BY <1>3, <3>1, <3>2 DEF ArriveOK
  <2>6. SegmentOK(r)' /\ TokenOK(r)'
    BY <1>3, <2>3, <2>4, <2>5 DEF SegmentOK, TokenOK
  <2> QED BY <2>1, <2>2, <2>6 DEF ListOK
<1>13. ASSUME NEW x \in Entry, x[1] = r, Announced(x)
       PROVE  Announced(x)'
  <2>1. \A v \in Warp : wpc'[r][v] = "arrive" => wpc[r][v] = "arrive"
    BY <1>8
  <2> QED BY <1>3, <1>13, <2>1 DEF Announced
<1>14. \A f \in Rank : ShownOK(r, f)'
  BY <1>3 DEF ShownOK
<1>15. \A x \in S : ~Announced(x) /\ Announced(x)'
  <2>1. SUFFICES ASSUME NEW x \in S PROVE ~Announced(x) /\ Announced(x)'
    OBVIOUS
  <2>2. x[1] = r /\ Send(x).seg = s
    BY <1>10
  <2>3. ~Announced(x)
    BY <1>1, <1>3, <2>2 DEF Announced
  <2>4. \A v \in Warp : ~(wpc'[r][v] = "arrive" /\ curSeg'[r][v] = s)
    BY <1>3, <1>5, <1>8
  <2>5. SegEntries(r, s) \subseteq segView'[r][s]
    BY <1>2, <1>3, <1>5
  <2>6. Announced(x)'
    BY <1>3, <2>2, <2>4, <2>5 DEF Announced
  <2> QED BY <2>3, <2>6
<1>16. Raises(r, w, d, e, S)
  BY <1>5, <1>6, <1>8, <1>9, <1>15 DEF Raises
<1> QED BY <1>11, <1>12, <1>13, <1>14, <1>16

LEMMA ArriveTokenKeepsList ==
  ASSUME TypeOK, TypeOK', NEW r \in Rank, ListOK(r), NEW w \in Warp, ArriveToken(r, w)
  PROVE  /\ RowsGrow /\ ListOK(r)'
         /\ \A x \in Entry : x[1] = r /\ Announced(x) => Announced(x)'
         /\ \A d \in Rank : ShownOK(r, d) => ShownOK(r, d)'
         /\ \E d, e, S : Raises(r, w, d, e, S)
<1>1. PICK z : z = <<r, nxt[r][w]>>
  OBVIOUS
<1>2. PICK d, e, S : d = Send(z).dst /\ e = Send(z).expert /\ S = {z}
  OBVIOUS
<1>3. ~PublishSegment /\ wpc[r][w] = "arrive"
  BY DEF ArriveToken
<1>4. HasRow(r, w) /\ z \in view[r][w] /\ ViewsOK(r) /\ OrderOK(r) /\ TokenOK(r)
  BY <1>1, <1>3 DEF ListOK, TokenOK
<1>5. /\ nxt[r][w] \in 1 .. Len(Plan[r]) /\ nxt[r][w] \in Nat
      /\ nxt[r][w] + TotalWarps(r) \in Nat /\ nxt[r][w] < nxt[r][w] + TotalWarps(r)
  <2>1. nxt[r][w] \in Nat \ {0} /\ Len(Plan[r]) \in Nat
    BY DispatchAssumption DEF TypeOK
  <2>2. TotalWarps(r) \in Nat \ {0}
    BY GridsNow
  <2> QED BY <1>4, <2>1, <2>2 DEF HasRow
<1>6. /\ z \in Entry /\ z[1] = r /\ z[2] = nxt[r][w] /\ Send(z) = Plan[r][nxt[r][w]]
      /\ d \in Rank /\ e \in Expert /\ z \in ExpertEntries(d, e)
  BY <1>1, <1>2, <1>5, EntryFacts DEF ExpertEntries
<1>7. /\ Arrive(r, w, d, e, 1)
      /\ nxt' = [nxt EXCEPT ![r][w] = nxt[r][w] + TotalWarps(r)]
      /\ gen' = gen /\ curSeg' = curSeg /\ count' = count /\ view' = view
      /\ segDone' = segDone /\ segView' = segView /\ recv' = recv
      /\ \A q \in Rank : TotalWarps(q)' = TotalWarps(q)
  BY <1>2, <1>6 DEF ArriveToken, TotalWarps
<1>8. \A v \in Warp : nxt'[r][v] = IF v = w THEN nxt[r][w] + TotalWarps(r) ELSE nxt[r][v]
  BY <1>7 DEF TypeOK
<1>9. /\ \A v \in Warp : wpc'[r][v] = IF v = w THEN "copy" ELSE wpc[r][v]
      /\ \A f \in Rank, g \in Expert :
           /\ flags'[f][g] = IF f = d /\ g = e THEN flags[f][g] + 1 ELSE flags[f][g]
           /\ IF f = d /\ g = e THEN flagView'[f][g] = flagView[f][g] \cup view[r][w]
                                ELSE flagView'[f][g] = flagView[f][g]
  BY <1>6, <1>7, ArriveEffect
<1>10. Cardinality(S) = 1 /\ S # {}
  BY <1>2, FS_Singleton
<1>11. /\ \A v \in Warp : \A x \in view[r][v] : x \in Entry /\ x[1] = r /\ x[2] \in Nat
       /\ \A x \in Entry : x[2] \in Nat
       /\ \A t \in Seg : segView[r][t] \subseteq Entry
       /\ \A v \in Warp : nxt[r][v] \in Nat /\ nxt'[r][v] \in Nat /\ nxt[r][v] <= nxt'[r][v]
  <2>1. \A v \in Warp : \A x \in view[r][v] : x \in Entry /\ x[1] = r
    BY <1>4 DEF ViewsOK, TypeOK
  <2>2. \A x \in Entry : x[2] \in Nat
    BY EntryFacts, DispatchAssumption
  <2>3. \A v \in Warp : nxt[r][v] \in Nat
    BY DEF TypeOK
  <2>4. \A v \in Warp : nxt'[r][v] \in Nat /\ nxt[r][v] <= nxt'[r][v]
    BY <1>5, <1>8, <2>3
  <2>5. \A t \in Seg : segView[r][t] \subseteq Entry
    BY DEF TypeOK
  <2> QED BY <2>1, <2>2, <2>3, <2>4, <2>5
\* What the warp sees, it has copied; the row that it owes is the last one.
<1>12. \A x \in view[r][w] :
         Owned(TotalWarps(r), w, x[2]) /\ x[2] <= nxt[r][w] /\ x[2] < nxt'[r][w]
  <2>1. SUFFICES ASSUME NEW x \in view[r][w]
                 PROVE  /\ Owned(TotalWarps(r), w, x[2])
                        /\ x[2] <= nxt[r][w] /\ x[2] < nxt'[r][w]
    OBVIOUS
  <2>2. Owned(TotalWarps(r), w, x[2])
    BY <1>3, <1>4 DEF TokenOK
  <2>3. Passed(r, w, x[2])
    BY <1>4, <2>2 DEF OrderOK
  <2>4. x[2] <= nxt[r][w]
    BY <1>11, <2>3 DEF Passed
  <2>5. x[2] < nxt'[r][w]
    BY <1>5, <1>8, <1>11, <2>4
  <2> QED BY <2>2, <2>4, <2>5
<1>13. \A x \in view[r][w] : Announced(x)'
  <2>1. SUFFICES ASSUME NEW x \in view[r][w], NEW v \in Warp, Owned(TotalWarps(r), v, x[2])
                 PROVE  x[2] < nxt'[r][v]
    BY <1>3, <1>7, <1>11 DEF Announced
  <2>2. v = w
    BY <1>11, <1>12, <2>1, OwnedFacts, GridsNow
  <2> QED BY <1>12, <2>2
<1>14. ~Announced(z)
  <2>1. Owned(TotalWarps(r), w, z[2]) /\ ~(z[2] < nxt[r][w])
    BY <1>4, <1>5, <1>6 DEF OrderOK, HasRow
  <2> QED BY <1>3, <1>6, <2>1 DEF Announced
<1>15. ASSUME NEW x \in view[r][w] \cap ExpertEntries(d, e), x # z, ShownOK(r, d)
       PROVE  x \in flagView[d][e]
  <2>1. Send(x).dst = d /\ Send(x).expert = e /\ x = <<r, x[2]>>
    BY <1>11, <1>15, EntryFacts DEF ExpertEntries
  <2>2. x[2] # nxt[r][w]
    BY <1>1, <1>15, <2>1
  <2> QED BY <1>3, <1>15, <2>1, <2>2 DEF ShownOK
<1>16. Raises(r, w, d, e, S)
  <2>1. S \subseteq view[r][w] /\ S \subseteq ExpertEntries(d, e)
    BY <1>2, <1>4, <1>6
  <2>2. \A x \in S : ~Announced(x)
    BY <1>2, <1>14
  <2>3. ShownOK(r, d) => view[r][w] \cap ExpertEntries(d, e) \subseteq S \cup flagView[d][e]
    BY <1>2, <1>15
  <2>4. \A f \in Rank, g \in Expert : flags'[f][g] =
          IF f = d /\ g = e THEN flags[f][g] + Cardinality(S) ELSE flags[f][g]
    BY <1>9, <1>10
  <2> QED BY <1>6, <1>9, <1>10, <1>13, <2>1, <2>2, <2>3, <2>4 DEF Raises
<1>17. RowsGrow
  <2>1. \A f \in Rank, t \in Row : recv[f][t] \in Nat
    BY DEF TypeOK
  <2>2. \A f \in Rank, t \in Row : recv[f][t] <= recv'[f][t]
    BY <1>7, <2>1
  <2> QED BY <1>7, <2>2 DEF RowsGrow
<1>18. ListOK(r)'
  <2>1. ViewsOK(r)'
    BY <1>4, <1>7 DEF ViewsOK, Copied
  <2>2. ASSUME NEW v \in Warp, NEW i \in Nat, Passed(r, v, i)
        PROVE  Passed(r, v, i)'
    <3>1. CASE v = w
      <4>1. i <= nxt[r][w] /\ nxt'[r][v] = nxt[r][w] + TotalWarps(r)
        BY <1>5, <1>8, <2>2, <3>1 DEF Passed
      <4>2. i < nxt'[r][v]
        BY <1>5, <4>1
      <4> QED BY <4>2 DEF Passed
    <3>2. CASE v # w
      BY <1>8, <1>9, <2>2, <3>2 DEF Passed
    <3> QED BY <3>1, <3>2
  <2>3. OrderOK(r)'
    <3>1. \A v \in Warp : v <= TotalWarps(r) => Owned(TotalWarps(r), v, nxt'[r][v])
      <4>1. TotalWarps(r) \in Nat \ {0}
        BY GridsNow
      <4> QED BY <1>4, <1>5, <1>8, <4>1, OwnedFacts DEF OrderOK
    <3>2. \A u, v \in Warp : \A x \in view[r][u] :
            Owned(TotalWarps(r), v, x[2]) => Passed(r, v, x[2])'
      BY <1>4, <1>11, <2>2 DEF OrderOK
    <3>3. \A t \in Seg, v \in Warp : \A x \in segView[r][t] :
            Owned(TotalWarps(r), v, x[2]) => Passed(r, v, x[2])'
      BY <1>4, <1>11, <2>2 DEF OrderOK
    <3> QED BY <1>7, <3>1, <3>2, <3>3 DEF OrderOK
  <2>4. SegmentOK(r)'
    BY <1>3 DEF SegmentOK
  <2>5. TokenOK(r)'
    <3>1. SUFFICES ASSUME NEW v \in Warp
                   PROVE  /\ \A x \in view[r][v] : Owned(TotalWarps(r), v, x[2])
                          /\ wpc'[r][v] = "arrive" =>
                               HasRow(r, v)' /\ <<r, nxt'[r][v]>> \in view[r][v]
      BY <1>7 DEF TokenOK
    <3>2. /\ \A x \in view[r][v] : Owned(TotalWarps(r), v, x[2])
          /\ wpc[r][v] = "arrive" => HasRow(r, v) /\ <<r, nxt[r][v]>> \in view[r][v]
      BY <1>3, <1>4 DEF TokenOK
    <3>3. wpc'[r][v] = "arrive" => wpc[r][v] = "arrive" /\ nxt'[r][v] = nxt[r][v]
      BY <1>8, <1>9
    <3> QED BY <1>7, <3>2, <3>3 DEF HasRow
  <2> QED BY <2>1, <2>3, <2>4, <2>5 DEF ListOK
<1>19. ASSUME NEW x \in Entry, x[1] = r, Announced(x)
       PROVE  Announced(x)'
  <2>1. SUFFICES ASSUME NEW v \in Warp, Owned(TotalWarps(r), v, x[2])
                 PROVE  x[2] < nxt'[r][v]
    BY <1>3, <1>7, <1>19 DEF Announced
  <2>2. x[2] < nxt[r][v] /\ x[2] \in Nat
    BY <1>3, <1>11, <1>19, <2>1 DEF Announced
  <2> QED BY <1>11, <2>2
<1>20. ASSUME NEW f \in Rank, ShownOK(r, f)
       PROVE  ShownOK(r, f)'
  <2>1. SUFFICES ASSUME NEW v \in Warp, NEW x \in view[r][v], Send(x).dst = f,
                        x[2] # nxt'[r][v]
                 PROVE  x \in flagView'[f][Send(x).expert]
    BY <1>7 DEF ShownOK
  <2>2. Send(x).expert \in Expert
    BY <1>11, <2>1, EntryFacts
  <2>3. CASE x[2] # nxt[r][v]
    <3>1. x \in flagView[f][Send(x).expert]
      BY <1>3, <1>20, <2>1, <2>3 DEF ShownOK
    <3> QED BY <1>9, <2>2, <3>1
  <2>4. CASE x[2] = nxt[r][v]
    <3>1. v = w
      BY <1>8, <2>1, <2>4
    <3>2. x = z
      BY <1>1, <1>11, <2>1, <2>4, <3>1, EntryFacts
    <3>3. flagView'[d][e] = flagView[d][e] \cup view[r][w]
      BY <1>6, <1>9
    <3> QED BY <1>2, <1>4, <2>1, <3>2, <3>3
  <2> QED BY <2>3, <2>4
<1> QED BY <1>16, <1>17, <1>18, <1>19, <1>20

\* One step of a warp, seen from its own list ...
LEMMA WarpKeepsList ==
  ASSUME TypeOK, TypeOK', RowsCopied, NEW r \in Rank, ListOK(r), Newest(r),
         NEW w \in Warp, WarpStep(r, w)
  PROVE  /\ RowsGrow /\ ListOK(r)'
         /\ \A x \in Entry : x[1] = r /\ Announced(x) => Announced(x)'
         /\ \A d \in Rank : ShownOK(r, d) => ShownOK(r, d)'
         /\ (flags' = flags /\ flagView' = flagView) \/ \E d, e, S : Raises(r, w, d, e, S)
<1>1. CASE CopyRow(r, w)
  BY <1>1, CopyKeepsList
<1>2. CASE FlushSegment(r, w)
  BY <1>2, FlushKeepsList
<1>3. CASE ArriveSegment(r, w)
  BY <1>3, ArriveSegmentKeepsList
<1>4. CASE ArriveToken(r, w)
  BY <1>4, ArriveTokenKeepsList
<1> QED BY <1>1, <1>2, <1>3, <1>4 DEF WarpStep

\* ... from the lists of the other ranks and from the GEMMs ...
LEMMA OthersKept ==
  ASSUME TypeOK, NEW r \in Rank, NEW w \in Warp, WarpStep(r, w)
  PROVE  UNCHANGED gemmVars /\ \A q \in Rank \ {r} : SameList(q)
<1>1. CASE CopyRow(r, w)
  <2>1. UNCHANGED <<gen, segDone, segView, gemmVars>>
    BY <1>1 DEF CopyRow
  <2>2. \A q \in Rank \ {r} : view'[q] = view[q]
    BY <1>1 DEF CopyRow, TypeOK
  <2>3. \A q \in Rank \ {r} : wpc'[q] = wpc[q] /\ curSeg'[q] = curSeg[q]
    BY <1>1 DEF CopyRow, TypeOK
  <2>4. \A q \in Rank \ {r} : count'[q] = count[q] /\ nxt'[q] = nxt[q]
    BY <1>1 DEF CopyRow, TypeOK
  <2> QED BY <2>1, <2>2, <2>3, <2>4 DEF SameList
<1>2. CASE FlushSegment(r, w)
  <2>1. UNCHANGED <<gen, nxt, curSeg, gemmVars>>
    BY <1>2 DEF FlushSegment
  <2>2. \A q \in Rank \ {r} : view'[q] = view[q] /\ segView'[q] = segView[q]
    BY <1>2 DEF FlushSegment, CountRows, TypeOK
  <2>3. \A q \in Rank \ {r} : wpc'[q] = wpc[q] /\ count'[q] = count[q]
    BY <1>2 DEF FlushSegment, TypeOK
  <2>4. \A q \in Rank \ {r} : segDone'[q] = segDone[q]
    BY <1>2 DEF FlushSegment, CountRows, TypeOK
  <2> QED BY <2>1, <2>2, <2>3, <2>4 DEF SameList
<1>3. CASE ArriveSegment(r, w)
  <2>1. UNCHANGED <<gen, nxt, curSeg, count, view, segDone, segView, gemmVars>>
    BY <1>3 DEF ArriveSegment
  <2>2. \A q \in Rank \ {r} : wpc'[q] = wpc[q]
    BY <1>3 DEF ArriveSegment, Arrive, TypeOK
  <2> QED BY <2>1, <2>2 DEF SameList
<1>4. CASE ArriveToken(r, w)
  <2>1. UNCHANGED <<gen, curSeg, count, view, segDone, segView, gemmVars>>
    BY <1>4 DEF ArriveToken
  <2>2. \A q \in Rank \ {r} : wpc'[q] = wpc[q] /\ nxt'[q] = nxt[q]
    BY <1>4 DEF ArriveToken, Arrive, TypeOK
  <2> QED BY <2>1, <2>2 DEF SameList
<1> QED BY <1>1, <1>2, <1>3, <1>4 DEF WarpStep

\* ... and from the flags: what is new in one has just been announced.
LEMMA RaiseEffect ==
  ASSUME TypeOK, NEW r \in Rank, ListOK(r), NEW w, w \in Warp,
         NEW d, NEW e, NEW S, Raises(r, w, d, e, S)
  PROVE  /\ d \in Rank /\ e \in Expert /\ S # {} /\ S \subseteq ExpertEntries(d, e)
         /\ \A x \in S : x[1] = r /\ Send(x).dst = d /\ x \in Entry /\ ~Announced(x)
         /\ \A f \in Rank, g \in Expert :
              /\ flagView[f][g] \subseteq flagView'[f][g]
              /\ \A x \in flagView'[f][g] \ flagView[f][g] :
                   /\ x[1] = r /\ Copied(x) /\ x \in Entry
                   /\ x \in ExpertEntries(f, g) => Announced(x)'
         /\ PublishedFrom(r, d) => S \cap flagView[d][e] = {}
         /\ PublishedFrom(r, d) /\ ShownOK(r, d) =>
              Published(d, e)' = Published(d, e) \cup S
         /\ \A f \in Rank, g \in Expert :
              ~(f = d /\ g = e) => /\ flagView'[f][g] = flagView[f][g]
                                   /\ flags'[f][g] = flags[f][g]
         /\ flags'[d][e] = flags[d][e] + Cardinality(S)
<1>1. /\ d \in Rank /\ e \in Expert /\ S # {} /\ S \subseteq ExpertEntries(d, e)
      /\ S \subseteq view[r][w] /\ \A x \in S : ~Announced(x)
      /\ \A x \in view[r][w] \cap ExpertEntries(d, e) : Announced(x)'
      /\ ShownOK(r, d) => view[r][w] \cap ExpertEntries(d, e) \subseteq S \cup flagView[d][e]
      /\ flagView'[d][e] = flagView[d][e] \cup view[r][w]
  BY DEF Raises
<1>2. \A x \in view[r][w] : x \in Entry /\ x[1] = r /\ Copied(x)
  BY DEF ListOK, ViewsOK, TypeOK
<1>3. \A x \in S : x[1] = r /\ Send(x).dst = d /\ x \in Entry /\ ~Announced(x)
  BY <1>1, <1>2 DEF ExpertEntries
<1>4. /\ flags'[d][e] = flags[d][e] + Cardinality(S)
      /\ \A f \in Rank, g \in Expert :
           ~(f = d /\ g = e) => /\ flagView'[f][g] = flagView[f][g]
                                /\ flags'[f][g] = flags[f][g]
  BY <1>1 DEF Raises
<1>5. ASSUME NEW f \in Rank, NEW g \in Expert
      PROVE  /\ flagView[f][g] \subseteq flagView'[f][g]
             /\ \A x \in flagView'[f][g] \ flagView[f][g] :
                  /\ x[1] = r /\ Copied(x) /\ x \in Entry
                  /\ x \in ExpertEntries(f, g) => Announced(x)'
  <2>1. CASE f = d /\ g = e
    BY <1>1, <1>2, <2>1
  <2>2. CASE ~(f = d /\ g = e)
    BY <1>4, <2>2
  <2> QED BY <2>1, <2>2
<1>6. PublishedFrom(r, d) => S \cap flagView[d][e] = {}
  BY <1>1, <1>3 DEF PublishedFrom, Published
<1>7. ASSUME ShownOK(r, d)
      PROVE  Published(d, e)' = Published(d, e) \cup S
  <2>1. Published(d, e)' = flagView'[d][e] \cap ExpertEntries(d, e)
    BY DEF Published, ExpertEntries, Entry
  <2> QED BY <1>1, <1>7, <2>1 DEF Published
<1> QED BY <1>1, <1>3, <1>4, <1>5, <1>6, <1>7

\* A step of a warp keeps what the flags say, as far as it held before.
WarpEffect(r) ==
  /\ RowsGrow /\ RowsCopied' /\ ListOK(r)'
  /\ UNCHANGED gemmVars /\ \A q \in Rank \ {r} : SameList(q)
  /\ \A x \in Entry : x[1] = r /\ Announced(x) => Announced(x)'
  /\ \A q, d \in Rank : /\ PublishedFrom(q, d) => PublishedFrom(q, d)'
                        /\ ShownOK(q, d) => ShownOK(q, d)'
  /\ \A d \in Rank, e \in Expert :
       /\ flagView[d][e] \subseteq flagView'[d][e]
       /\ \A x \in flagView'[d][e] \ flagView[d][e] : x[1] = r
       /\ PublishedFrom(r, d) /\ ShownOK(r, d)
          /\ flags[d][e] = Cardinality(Published(d, e))
            => flags'[d][e] = Cardinality(Published(d, e)')
  /\ \A d \in Rank :
       (\A x \in Entry : x[1] = r /\ Send(x).dst = d => Announced(x)) =>
         \A e \in Expert : flags'[d][e] = flags[d][e] /\ flagView'[d][e] = flagView[d][e]

LEMMA WarpStepEffect ==
  ASSUME TypeOK, TypeOK', RowsCopied, NEW r \in Rank, ListOK(r), Newest(r),
         NEW w \in Warp, WarpStep(r, w)
  PROVE  WarpEffect(r)
<1>1. /\ RowsGrow /\ ListOK(r)'
      /\ \A x \in Entry : x[1] = r /\ Announced(x) => Announced(x)'
      /\ \A d \in Rank : ShownOK(r, d) => ShownOK(r, d)'
      /\ (flags' = flags /\ flagView' = flagView) \/ \E d, e, S : Raises(r, w, d, e, S)
  BY WarpKeepsList
<1>2. UNCHANGED gemmVars /\ \A q \in Rank \ {r} : SameList(q)
  BY OthersKept
<1>3. /\ \A d \in Rank, e \in Expert : flagView[d][e] \subseteq Entry
      /\ \A d \in Rank, e \in Expert : flags[d][e] \in Nat
      /\ \A q \in Rank, v \in Warp : view[q][v] \subseteq Entry
  BY DEF TypeOK
<1>4. ASSUME NEW d \in Rank, NEW e \in Expert
      PROVE  /\ flagView[d][e] \subseteq flagView'[d][e]
             /\ \A x \in flagView'[d][e] \ flagView[d][e] :
                  /\ x[1] = r /\ Copied(x) /\ x \in Entry
                  /\ x \in ExpertEntries(d, e) => Announced(x)'
  <2>1. CASE flagView' = flagView
    BY <2>1
  <2>2. ASSUME NEW f, NEW g, NEW S, Raises(r, w, f, g, S)
        PROVE  /\ flagView[d][e] \subseteq flagView'[d][e]
               /\ \A x \in flagView'[d][e] \ flagView[d][e] :
                    /\ x[1] = r /\ Copied(x) /\ x \in Entry
                    /\ x \in ExpertEntries(d, e) => Announced(x)'
    BY <2>2, RaiseEffect
  <2> QED BY <1>1, <2>1, <2>2
<1>5. RowsCopied'
  <2>1. \A x \in Entry : Copied(x) => Copied(x)'
    BY <1>1, CopiedKept
  <2>2. ASSUME NEW d \in Rank, NEW e \in Expert, NEW x \in flagView'[d][e]
        PROVE  Copied(x)'
    <3>1. CASE x \in flagView[d][e]
      BY <1>3, <2>1, <3>1 DEF RowsCopied
    <3>2. CASE x \notin flagView[d][e]
      BY <1>4, <2>1, <2>2, <3>2
    <3> QED BY <3>1, <3>2
  <2>3. gen' = gen
    BY <1>1 DEF RowsGrow
  <2>4. \A d \in Rank, s \in Row : \E q \in Rank : recv'[d][s] <= gen[q]
    <3>1. CASE CopyRow(r, w)
      BY <3>1, CopyRecv
    <3>2. CASE recv' = recv
      BY <3>2 DEF RowsCopied
    <3> QED BY <3>1, <3>2 DEF WarpStep, FlushSegment, ArriveSegment, ArriveToken
  <2> QED BY <2>2, <2>3, <2>4 DEF RowsCopied
<1>6. ASSUME NEW q \in Rank, NEW d \in Rank, PublishedFrom(q, d)
      PROVE  PublishedFrom(q, d)'
  <2>1. SUFFICES ASSUME NEW e \in Expert, NEW x \in flagView'[d][e],
                        x \in ExpertEntries(d, e), x[1] = q
                 PROVE  Announced(x)'
    <3>1. \A e \in Expert : Published(d, e)' = flagView'[d][e] \cap ExpertEntries(d, e)
      BY DEF Published, ExpertEntries, Entry
    <3> QED BY <3>1 DEF PublishedFrom
  <2>2. CASE x \notin flagView[d][e]
    BY <1>4, <2>1, <2>2
  <2>3. CASE x \in flagView[d][e]
    <3>1. Announced(x) /\ x \in Entry
      BY <1>3, <1>6, <2>1, <2>3 DEF PublishedFrom, Published
    <3>2. CASE q = r
      BY <1>1, <2>1, <3>1, <3>2
    <3>3. CASE q # r
      BY <1>2, <2>1, <3>1, <3>3, AnnouncedSame
    <3> QED BY <3>2, <3>3
  <2> QED BY <2>2, <2>3
<1>7. ASSUME NEW q \in Rank, NEW d \in Rank, ShownOK(q, d)
      PROVE  ShownOK(q, d)'
  <2>1. CASE q = r
    BY <1>1, <1>7, <2>1
  <2>2. CASE q # r
    <3>1. SameList(q)
      BY <1>2, <2>2
    <3>2. view'[q] = view[q] /\ nxt'[q] = nxt[q]
      BY <3>1 DEF SameList
    <3>3. \A v \in Warp : \A x \in view[q][v] : Send(x).expert \in Expert
      BY <1>3, EntryFacts
    <3> QED BY <1>4, <1>7, <3>2, <3>3 DEF ShownOK
  <2> QED BY <2>1, <2>2
<1>8. ASSUME NEW d \in Rank, NEW e \in Expert, PublishedFrom(r, d), ShownOK(r, d),
             flags[d][e] = Cardinality(Published(d, e))
      PROVE  flags'[d][e] = Cardinality(Published(d, e)')
  <2>1. CASE flags' = flags /\ flagView' = flagView
    BY <1>8, <2>1 DEF Published
  <2>2. ASSUME NEW f, NEW g, NEW S, Raises(r, w, f, g, S)
        PROVE  flags'[d][e] = Cardinality(Published(d, e)')
    <3>1. CASE ~(d = f /\ e = g)
      <4>1. flagView'[d][e] = flagView[d][e] /\ flags'[d][e] = flags[d][e]
        BY <2>2, <3>1, RaiseEffect
      <4> QED BY <1>8, <4>1 DEF Published
    <3>2. CASE d = f /\ e = g
      <4>1. /\ S \subseteq ExpertEntries(d, e) /\ S \cap flagView[d][e] = {}
            /\ Published(d, e)' = Published(d, e) \cup S
            /\ flags'[d][e] = flags[d][e] + Cardinality(S)
        BY <1>8, <2>2, <3>2, RaiseEffect
      <4>2. /\ Published(d, e) \cap S = {}
            /\ IsFiniteSet(Published(d, e)) /\ IsFiniteSet(S)
            /\ Cardinality(Published(d, e)) \in Nat /\ Cardinality(S) \in Nat
        BY <4>1, EntryFinite, Sizes DEF Published
      <4>3. Cardinality(Published(d, e) \cap S) = 0
        BY <4>2, FS_EmptySet
      <4>4. Cardinality(Published(d, e) \cup S)
              = Cardinality(Published(d, e)) + Cardinality(S)
                - Cardinality(Published(d, e) \cap S)
        BY <4>2, FS_Union
      <4>5. Cardinality(Published(d, e) \cup S) = flags'[d][e]
        BY <1>8, <4>1, <4>2, <4>3, <4>4
      <4> QED BY <4>1, <4>5
    <3> QED BY <3>1, <3>2
  <2> QED BY <1>1, <2>1, <2>2
<1>9. ASSUME NEW d \in Rank, NEW e \in Expert,
             \A x \in Entry : x[1] = r /\ Send(x).dst = d => Announced(x)
      PROVE  flags'[d][e] = flags[d][e] /\ flagView'[d][e] = flagView[d][e]
  <2>1. ASSUME NEW f, NEW g, NEW S, Raises(r, w, f, g, S)
        PROVE  flags'[d][e] = flags[d][e] /\ flagView'[d][e] = flagView[d][e]
    <3>1. PICK x \in S : x[1] = r /\ Send(x).dst = f /\ x \in Entry /\ ~Announced(x)
      BY <2>1, RaiseEffect
    <3>2. f # d
      BY <1>9, <3>1
    <3> QED BY <2>1, <3>2, RaiseEffect
  <2> QED BY <1>1, <2>1
<1> QED BY <1>1, <1>2, <1>4, <1>5, <1>6, <1>7, <1>8, <1>9 DEF WarpEffect

-----------------------------------------------------------------------------
(* The gate. *)

\* An open gate: the flag has reached the batch length, so all rows are announced.
LEMMA GateComplete ==
  ASSUME TypeOK, NEW d \in Rank, NEW e \in Expert,
         flags[d][e] = Cardinality(Published(d, e)), GateOpen(d, e)
  PROVE  ExpertEntries(d, e) \subseteq flagView[d][e]
<1> DEFINE P == Published(d, e)
<1>1. P \subseteq ExpertEntries(d, e) /\ IsFiniteSet(ExpertEntries(d, e))
  BY EntryFinite, Sizes DEF Published
<1>2. /\ Cardinality(P) = flags[d][e]
      /\ Cardinality(ExpertEntries(d, e)) = LenM(d, e)
      /\ LenM(d, e) <= flags[d][e]
      /\ LenM(d, e) \in Nat /\ flags[d][e] \in Nat
  BY PlanAssumption, Sizes DEF GateOpen, TypeOK
<1> HIDE DEF P
<1>3. Cardinality(P) <= Cardinality(ExpertEntries(d, e))
  BY <1>1, FS_Subset
<1>4. Cardinality(P) = Cardinality(ExpertEntries(d, e))
  BY <1>2, <1>3
<1>5. P = ExpertEntries(d, e)
  BY <1>1, <1>4, FS_Subset
<1> QED BY <1>5 DEF P, Published

\* The steps of the GEMM leave the dispatch side of the invariant alone.
LEMMA DispatchUnchanged ==
  ASSUME UNCHANGED <<gen, warpVars, recv, flags, flagView>>
  PROVE  /\ \A r : ListOK(r)' <=> ListOK(r)
         /\ \A r, d : /\ PublishedFrom(r, d)' <=> PublishedFrom(r, d)
                      /\ ShownOK(r, d)' <=> ShownOK(r, d)
         /\ \A d, e : Published(d, e)' = Published(d, e)
         /\ \A x : Announced(x)' <=> Announced(x)
         /\ RowsCopied' <=> RowsCopied
<1>1. /\ gen' = gen /\ nxt' = nxt /\ wpc' = wpc /\ curSeg' = curSeg /\ count' = count
      /\ view' = view /\ segDone' = segDone /\ segView' = segView /\ recv' = recv
      /\ flags' = flags /\ flagView' = flagView
  BY DEF warpVars
<1>2. \A x : Copied(x)' <=> Copied(x)
  BY <1>1 DEF Copied
<1>3. \A r, w, i : Passed(r, w, i)' <=> Passed(r, w, i)
  BY <1>1 DEF Passed
<1>4. \A r : OrderOK(r)' <=> OrderOK(r)
  BY <1>1, <1>3 DEF OrderOK, TotalWarps
<1>5. \A r : TokenOK(r)' <=> TokenOK(r)
  BY <1>1 DEF TokenOK, HasRow, TotalWarps
<1>6. \A r : SegmentOK(r)' <=> SegmentOK(r)
  <2>1. \A r, w : PendingOK(r, w)' <=> PendingOK(r, w)
    BY <1>1 DEF PendingOK, Pending
  <2>2. \A r, s : CountedOK(r, s)' <=> CountedOK(r, s)
    BY <1>1 DEF CountedOK, Counted
  <2>3. \A r, w : ArriveOK(r, w)' <=> ArriveOK(r, w)
    BY <1>1 DEF ArriveOK
  <2> QED BY <1>1, <2>1, <2>2, <2>3 DEF SegmentOK
<1>7. \A r : ViewsOK(r)' <=> ViewsOK(r)
  BY <1>1, <1>2 DEF ViewsOK
<1>8. \A d, e : Published(d, e)' = Published(d, e)
  BY <1>1 DEF Published
<1>9. \A x : Announced(x)' <=> Announced(x)
  BY <1>1 DEF Announced, TotalWarps
<1>10. \A r, d : PublishedFrom(r, d)' <=> PublishedFrom(r, d)
  BY <1>8, <1>9 DEF PublishedFrom
<1>11. \A r, d : ShownOK(r, d)' <=> ShownOK(r, d)
  BY <1>1 DEF ShownOK
<1>12. RowsCopied' <=> RowsCopied
  BY <1>1, <1>2 DEF RowsCopied
<1> QED BY <1>4, <1>5, <1>6, <1>7, <1>8, <1>9, <1>10, <1>11, <1>12 DEF ListOK

\* Rows only get newer, so what a CTA holds stays readable.
LEMMA GateKept ==
  ASSUME TypeOK, TypeOK', GateInv, RowsGrow, ready' = ready, gview' = gview
  PROVE  GateInv'
<1>1. ASSUME NEW d \in Rank, NEW c \in Cta, NEW x \in gview[d][c]
      PROVE  recv'[Send(x).dst][Send(x).slot] >= gen[d]
  <2>1. x \in Entry
    BY <1>1 DEF TypeOK
  <2>2. Send(x).dst \in Rank /\ Send(x).slot \in Row
    BY <2>1, EntryFacts
  <2>3. /\ recv[Send(x).dst][Send(x).slot] \in Nat
        /\ recv'[Send(x).dst][Send(x).slot] \in Nat /\ gen[d] \in Nat
        /\ recv[Send(x).dst][Send(x).slot] <= recv'[Send(x).dst][Send(x).slot]
    <3>1. gen[d] \in Nat
      BY GridsNow
    <3> QED BY <2>2, <3>1 DEF TypeOK, RowsGrow
  <2>4. recv[Send(x).dst][Send(x).slot] >= gen[d]
    BY <1>1 DEF GateInv
  <2> QED BY <2>3, <2>4
<1> QED BY <1>1 DEF GateInv, RowsGrow

\* Waiting: the flag covers the batch, and its rows are of this iteration.
LEMMA WaitKeepsGate ==
  ASSUME TypeOK, GateInv, RowsCopied, NEW d \in Rank, NEW c \in Cta, GemmWait(d, c),
         \A e \in Expert : flags[d][e] = Cardinality(Published(d, e)),
         \A e \in Expert : \A x \in flagView[d][e] : gen[d] <= gen[x[1]]
  PROVE  /\ GateInv' /\ UNCHANGED <<gen, warpVars, recv, flags, flagView, tile, racy>>
         /\ \E e \in Expert :
              /\ ready' = [ready EXCEPT ![d][c] = e]
              /\ ExpertEntries(d, e) \subseteq flagView[d][e]
<1>1. PICK e \in Expert :
        /\ GateOpen(d, e)
        /\ ready' = [ready EXCEPT ![d][c] = e]
        /\ gview' = [gview EXCEPT ![d][c] = gview[d][c] \cup flagView[d][e]]
        /\ UNCHANGED <<gen, warpVars, recv, flags, flagView, tile, racy>>
  BY DEF GemmWait
<1>2. \A f \in Rank, b \in Cta :
        /\ ready'[f][b] = IF f = d /\ b = c THEN e ELSE ready[f][b]
        /\ IF f = d /\ b = c THEN gview'[f][b] = gview[f][b] \cup flagView[d][e]
                             ELSE gview'[f][b] = gview[f][b]
  BY <1>1 DEF TypeOK
<1>3. gen' = gen /\ recv' = recv
  BY <1>1
<1>4. ExpertEntries(d, e) \subseteq flagView[d][e]
  BY <1>1, GateComplete
<1>5. ASSUME NEW f \in Rank, NEW b \in Cta, NEW g \in Expert, ready'[f][b] = g
      PROVE  ExpertEntries(f, g) \subseteq gview'[f][b]
  <2>1. CASE f = d /\ b = c
    BY <1>2, <1>4, <1>5, <2>1
  <2>2. CASE ~(f = d /\ b = c)
    BY <1>2, <1>5, <2>2 DEF GateInv
  <2> QED BY <2>1, <2>2
<1>6. ASSUME NEW x \in flagView[d][e]
      PROVE  recv[Send(x).dst][Send(x).slot] >= gen[d]
  <2>1. x \in Entry
    BY <1>6 DEF TypeOK
  <2>2. Send(x).dst \in Rank /\ Send(x).slot \in Row /\ x[1] \in Rank
    BY <2>1, EntryFacts
  <2>3. recv[Send(x).dst][Send(x).slot] \in Nat /\ gen[d] \in Nat /\ gen[x[1]] \in Nat
    BY <2>2, GridsNow DEF TypeOK
  <2>4. recv[Send(x).dst][Send(x).slot] >= gen[x[1]] /\ gen[d] <= gen[x[1]]
    BY <1>6 DEF RowsCopied, Copied
  <2> QED BY <2>3, <2>4
<1>7. ASSUME NEW f \in Rank, NEW b \in Cta, NEW x \in gview'[f][b]
      PROVE  recv[Send(x).dst][Send(x).slot] >= gen[f]
  <2>1. CASE f = d /\ b = c
    BY <1>2, <1>6, <1>7, <2>1 DEF GateInv
  <2>2. CASE ~(f = d /\ b = c)
    BY <1>2, <1>7, <2>2 DEF GateInv
  <2> QED BY <2>1, <2>2
<1>8. GateInv'
  BY <1>3, <1>5, <1>7 DEF GateInv
<1> QED BY <1>1, <1>4, <1>8

\* Loading: every row of the tile belongs to the batch, so its copy is in the
\* view, and no rank is in a later iteration that could have overwritten it.
LEMMA LoadReadsFresh ==
  ASSUME TypeOK, GateInv, RowsCopied, NEW d \in Rank, Newest(d), NEW c \in Cta,
         GemmLoad(d, c)
  PROVE  /\ UNCHANGED <<gen, warpVars, recv, flags, flagView, ready, gview, racy>>
         /\ \E e \in Expert : /\ InBatch(d, tile[d][c], e) /\ ready[d][c] = e
                              /\ tile' = [tile EXCEPT ![d][c] = tile[d][c] + TotalCtas(d)]
<1>1. PICK e \in Expert :
        /\ InBatch(d, tile[d][c], e) /\ ready[d][c] = e
        /\ racy' = [racy EXCEPT ![d] =
             racy[d] \cup {s \in TileRows(d, e, tile[d][c]) : ~ReadsFresh(d, c, s)}]
        /\ tile' = [tile EXCEPT ![d][c] = tile[d][c] + TotalCtas(d)]
        /\ UNCHANGED <<gen, warpVars, recv, flags, flagView, ready, gview>>
  BY DEF GemmLoad
<1>2. ASSUME NEW s \in TileRows(d, e, tile[d][c])
      PROVE  ReadsFresh(d, c, s)
  <2>1. s \in {Send(x).slot : x \in ExpertEntries(d, e)}
    BY PlanAssumption DEF TileRows
  <2>2. PICK x \in ExpertEntries(d, e) : Send(x).slot = s
    BY <2>1
  <2>3. x \in gview[d][c] /\ Send(x).dst = d /\ s \in Row
    BY <1>1, <2>2, EntryFacts DEF GateInv, ExpertEntries
  <2>4. PICK q \in Rank : recv[d][s] <= gen[q]
    BY <2>3 DEF RowsCopied
  <2>5. recv[d][s] \in Nat /\ gen[d] \in Nat /\ gen[q] \in Nat /\ gen[q] <= gen[d]
    BY <2>3, GridsNow DEF TypeOK, Newest
  <2>6. recv[d][s] >= gen[d]
    BY <2>2, <2>3 DEF GateInv
  <2>7. recv[d][s] = gen[d]
    BY <2>4, <2>5, <2>6
  <2> QED BY <2>2, <2>3, <2>7 DEF ReadsFresh
<1>3. racy' = racy
  <2>1. racy \in [Rank -> SUBSET Row]
    BY DEF TypeOK
  <2>2. {s \in TileRows(d, e, tile[d][c]) : ~ReadsFresh(d, c, s)} = {}
    BY <1>2
  <2>3. racy' = [racy EXCEPT ![d] = racy[d]]
    BY <1>1, <2>2
  <2> QED BY <2>1, <2>3
<1> QED BY <1>1, <1>3

-----------------------------------------------------------------------------
(* One iteration. *)

LEMMA InvInit == Init => IInv
<1> SUFFICES ASSUME Init PROVE IInv
  OBVIOUS
<1> USE DEF Init, WarpsInit, GemmInit, FirstRow
<1>1. \A r, d \in Rank : PublishedFrom(r, d) /\ ShownOK(r, d)
  BY DEF PublishedFrom, Published, ShownOK
<1>2. \A r \in Rank : ViewsOK(r) /\ TokenOK(r)
  BY DEF ViewsOK, TokenOK
<1>3. ASSUME NEW r \in Rank PROVE SegmentOK(r)
  <2>1. \A w \in Warp : Pending(r, w) = {}
    BY DEF Pending
  <2>2. \A s \in Seg : Counted(r, s) = {}
    BY DEF Counted
  <2>3. \A w \in Warp : PendingOK(r, w)
    BY <2>1, FS_EmptySet DEF PendingOK
  <2>4. \A s \in Seg : CountedOK(r, s)
    BY <2>2, FS_EmptySet DEF CountedOK
  <2> QED BY <2>3, <2>4 DEF SegmentOK
<1>4. RowsCopied
  BY DEF RowsCopied
<1>5. FlagsCountReleasedRows
  BY FS_EmptySet DEF FlagsCountReleasedRows
<1>6. GateInv /\ NoRacyRead
  BY DEF GateInv, NoRacyRead, Expert
<1>7. ASSUME NEW r \in Rank PROVE OrderOK(r)
  <2>1. TotalWarps(r) \in Nat \ {0}
    BY GridFacts, DispatchAssumption DEF TotalWarps
  <2>2. \A w \in Warp : w <= TotalWarps(r) => Owned(TotalWarps(r), w, nxt[r][w])
    <3>1. \A w \in Warp : w <= TotalWarps(r) => w \in 1 .. TotalWarps(r)
      BY <2>1, GridFacts
    <3> HIDE DEF Init, WarpsInit, GemmInit
    <3>2. \A w \in 1 .. TotalWarps(r) : Owned(TotalWarps(r), w, w)
      BY <2>1, OwnedFacts
    <3>3. \A w \in Warp : nxt[r][w] = w
      BY DEF Init, WarpsInit
    <3> QED BY <3>1, <3>2, <3>3
  <2> QED BY <2>2 DEF OrderOK
<1> QED BY <1>1, <1>2, <1>3, <1>4, <1>5, <1>6, <1>7 DEF IInv, ListOK

\* The flags count exactly the announced rows.
LEMMA CountIsPublished ==
  FlagsCountReleasedRows <=>
    \A d \in Rank, e \in Expert : flags[d][e] = Cardinality(Published(d, e))
BY DEF FlagsCountReleasedRows, Published

LEMMA OneIteration == ASSUME TypeOK, IInv PROVE \A r \in Rank : Newest(r)
BY DEF IInv, Newest

LEMMA WarpKeepsInv ==
  ASSUME TypeOK, TypeOK', IInv, NEW r \in Rank, NEW w \in Warp, WarpStep(r, w)
  PROVE  IInv'
<1>1. WarpEffect(r)
  BY OneIteration, WarpStepEffect DEF IInv
<1>2. /\ \A q \in Rank : gen[q] = 1 /\ ListOK(q)
      /\ \A q, d \in Rank : PublishedFrom(q, d) /\ ShownOK(q, d)
      /\ FlagsCountReleasedRows /\ GateInv /\ NoRacyRead
  BY DEF IInv
<1>3. /\ RowsGrow /\ RowsCopied' /\ ListOK(r)' /\ \A q \in Rank \ {r} : SameList(q)
      /\ \A q, d \in Rank : PublishedFrom(q, d)' /\ ShownOK(q, d)'
  BY <1>1, <1>2 DEF WarpEffect
<1>4. \A x \in Entry : Copied(x) => Copied(x)'
  BY <1>3, CopiedKept
<1>5. ASSUME NEW q \in Rank PROVE ListOK(q)'
  <2>1. CASE q = r
    BY <1>3, <2>1
  <2>2. CASE q # r
    BY <1>2, <1>3, <1>4, <2>2, ListKept
  <2> QED BY <2>1, <2>2
<1>6. FlagsCountReleasedRows'
  <2>1. \A d \in Rank, e \in Expert : flags'[d][e] = Cardinality(Published(d, e)')
    BY <1>1, <1>2, CountIsPublished DEF WarpEffect
  <2> QED BY <2>1 DEF FlagsCountReleasedRows, Published
<1>7. GateInv' /\ NoRacyRead'
  <2>1. ready' = ready /\ gview' = gview /\ racy' = racy
    BY <1>1 DEF WarpEffect, gemmVars
  <2> QED BY <1>2, <1>3, <2>1, GateKept DEF NoRacyRead
<1>8. \A q \in Rank : gen'[q] = 1
  BY <1>2, <1>3 DEF RowsGrow
<1> QED BY <1>3, <1>5, <1>6, <1>7, <1>8 DEF IInv

\* What a step of the GEMM, or none, leaves of the invariant to show.
LEMMA QuietKeepsInv ==
  ASSUME IInv, UNCHANGED <<gen, warpVars, recv, flags, flagView>>, GateInv', racy' = racy
  PROVE  IInv'
<1>1. /\ \A r \in Rank : ListOK(r)'
      /\ \A r, d \in Rank : PublishedFrom(r, d)' /\ ShownOK(r, d)'
      /\ RowsCopied'
  BY DispatchUnchanged DEF IInv
<1>2. FlagsCountReleasedRows' /\ NoRacyRead' /\ \A r \in Rank : gen'[r] = 1
  BY DEF IInv, FlagsCountReleasedRows, NoRacyRead
<1> QED BY <1>1, <1>2 DEF IInv

LEMMA GemmWaitKeepsInv ==
  ASSUME TypeOK, IInv, NEW d \in Rank, NEW c \in Cta, GemmWait(d, c)
  PROVE  IInv'
<1>1. \A e \in Expert : flags[d][e] = Cardinality(Published(d, e))
  BY CountIsPublished DEF IInv
<1>2. \A e \in Expert : \A x \in flagView[d][e] : gen[d] <= gen[x[1]]
  BY EntryFacts DEF IInv, TypeOK
<1>3. GateInv' /\ UNCHANGED <<gen, warpVars, recv, flags, flagView, tile, racy>>
  BY <1>1, <1>2, WaitKeepsGate DEF IInv
<1> QED BY <1>3, QuietKeepsInv

LEMMA GemmLoadKeepsInv ==
  ASSUME TypeOK, TypeOK', IInv, NEW d \in Rank, NEW c \in Cta, GemmLoad(d, c)
  PROVE  IInv'
<1>1. UNCHANGED <<gen, warpVars, recv, flags, flagView, ready, gview, racy>>
  BY OneIteration, LoadReadsFresh DEF IInv
<1>2. GateInv'
  BY <1>1 DEF IInv, GateInv
<1> QED BY <1>1, <1>2, QuietKeepsInv

LEMMA InvStep == TypeOK /\ IInv /\ [Next]_vars => IInv'
<1> SUFFICES ASSUME TypeOK, IInv, [Next]_vars PROVE IInv'
  OBVIOUS
<1>1. TypeOK'
  BY TypeStep
<1>2. CASE UNCHANGED vars
  <2>1. /\ UNCHANGED <<gen, warpVars, recv, flags, flagView>>
        /\ gen' = gen /\ recv' = recv /\ ready' = ready /\ gview' = gview /\ racy' = racy
    BY <1>2 DEF vars, gemmVars
  <2>2. GateInv'
    BY <2>1 DEF IInv, GateInv
  <2> QED BY <2>1, <2>2, QuietKeepsInv
<1>3. QED
  BY <1>1, <1>2, WarpKeepsInv, GemmWaitKeepsInv, GemmLoadKeepsInv DEF Next, CtaStep

\* The invariant behind the two theorems that follow.
THEOREM Invariance == Spec => []IInv
<1>1. QED
  BY TypeCorrect, InvInit, InvStep, PTL DEF Spec

\* The gate is safe: whatever the routing, the number of warps and CTAs and the
\* publish mode, no GEMM tile is loaded before each of its rows was copied in
\* this iteration and released to the CTA that loads it.
THEOREM GateSafe == Spec => []NoRacyRead
<1>1. IInv => NoRacyRead
  BY DEF IInv
<1>2. QED
  BY <1>1, Invariance, PTL

\* A flag never runs ahead of the rows released into it, so it never announces
\* a row that another GPU could not read yet.
THEOREM FlagsSafe == Spec => []FlagsCountReleasedRows
<1>1. IInv => FlagsCountReleasedRows
  BY DEF IInv
<1>2. QED
  BY <1>1, Invariance, PTL

-----------------------------------------------------------------------------
(* The iteration implements ExpertArrival. *)

LEMMA ArrivalInit == Init => Arrival!Init
<1> SUFFICES ASSUME Init PROVE Arrival!Init
  OBVIOUS
<1>1. \A b \in Batches : flagView[b[1]][b[2]] = {}
  BY DEF Init, Batches
<1>2. ArrivedRows = [b \in Batches |-> {}]
  BY <1>1 DEF ArrivedRows
<1>3. \A x \in Rank \X Cta : ready[x[1]][x[2]] = -1
  BY DEF Init, GemmInit
<1>4. HeldBatch = [x \in Rank \X Cta |-> {}]
  BY <1>3 DEF HeldBatch
<1> QED BY <1>2, <1>4 DEF Arrival!Init

\* Raising a flag announces the rows that the raise makes visible.
LEMMA ArriveAnnounces ==
  ASSUME NEW d \in Rank, NEW e \in Expert, NEW S, S # {},
         S \subseteq ExpertEntries(d, e) \ flagView[d][e],
         ready' = ready,
         \A f \in Rank, g \in Expert :
           IF f = d /\ g = e THEN Published(f, g)' = Published(f, g) \cup S
                             ELSE Published(f, g)' = Published(f, g)
  PROVE  Arrival!Next
<1> DEFINE b == <<d, e>>
<1>1. b \in Batches /\ b[1] = d /\ b[2] = e
  BY DEF Batches
<1>2. ArrivedRows[b] = Published(d, e) /\ BatchRows[b] = ExpertEntries(d, e)
  BY <1>1 DEF ArrivedRows, BatchRows, Published
<1>3. S \in SUBSET (BatchRows[b] \ ArrivedRows[b])
  BY <1>2 DEF Published
<1>4. HeldBatch' = HeldBatch
  BY DEF HeldBatch
<1>5. ArrivedRows' = [ArrivedRows EXCEPT ![b] = ArrivedRows[b] \cup S]
  <2>1. ArrivedRows = [a \in Batches |-> Published(a[1], a[2])]
    BY DEF ArrivedRows, Published
  <2>2. ArrivedRows' = [a \in Batches |-> Published(a[1], a[2])']
    BY DEF ArrivedRows, Published
  <2>3. ASSUME NEW a \in Batches
        PROVE  Published(a[1], a[2])' =
                 IF a = b THEN ArrivedRows[b] \cup S ELSE ArrivedRows[a]
    <3>1. a[1] \in Rank /\ a[2] \in Expert /\ a = <<a[1], a[2]>>
      BY DEF Batches
    <3>2. CASE a = b
      BY <1>1, <1>2, <3>2
    <3>3. CASE a # b
      <4>1. ~(a[1] = d /\ a[2] = e)
        BY <3>1, <3>3
      <4>2. ArrivedRows[a] = Published(a[1], a[2])
        BY <2>1
      <4>3. Published(a[1], a[2])' = Published(a[1], a[2])
        BY <3>1, <4>1
      <4> QED BY <3>3, <4>2, <4>3
    <3> QED BY <3>2, <3>3
  <2> HIDE DEF b
  <2> QED BY <2>1, <2>2, <2>3
<1> HIDE DEF b
<1>6. Arrival!Announce(b)
  BY <1>3, <1>4, <1>5 DEF Arrival!Announce
<1> QED BY <1>1, <1>6 DEF Arrival!Next

LEMMA ArrivalStep ==
  TypeOK /\ IInv /\ [Next]_vars => [Arrival!Next]_<<ArrivedRows, HeldBatch>>
<1> SUFFICES ASSUME TypeOK, IInv, [Next]_vars
             PROVE  [Arrival!Next]_<<ArrivedRows, HeldBatch>>
  OBVIOUS
<1>1. TypeOK'
  BY TypeStep
<1>2. ASSUME flagView' = flagView, ready' = ready
      PROVE  UNCHANGED <<ArrivedRows, HeldBatch>>
  BY <1>2 DEF ArrivedRows, HeldBatch
<1>3. ASSUME NEW r \in Rank, NEW w \in Warp, WarpStep(r, w)
      PROVE  [Arrival!Next]_<<ArrivedRows, HeldBatch>>
  <2>1. ListOK(r) /\ Newest(r) /\ RowsCopied
    BY OneIteration DEF IInv
  <2>2. ready' = ready
    BY <1>3, OthersKept DEF gemmVars
  <2>3. CASE flagView' = flagView
    BY <1>2, <2>2, <2>3
  <2>4. ASSUME NEW d, NEW e, NEW S, Raises(r, w, d, e, S)
        PROVE  Arrival!Next
    <3>1. /\ d \in Rank /\ e \in Expert /\ S # {}
          /\ S \subseteq ExpertEntries(d, e) \ flagView[d][e]
          /\ Published(d, e)' = Published(d, e) \cup S
          /\ \A f \in Rank, g \in Expert :
               ~(f = d /\ g = e) => flagView'[f][g] = flagView[f][g]
      BY <2>1, <2>4, RaiseEffect DEF IInv
    <3>2. \A f \in Rank, g \in Expert :
            IF f = d /\ g = e THEN Published(f, g)' = Published(f, g) \cup S
                              ELSE Published(f, g)' = Published(f, g)
      BY <3>1 DEF Published
    <3> QED BY <2>2, <3>1, <3>2, ArriveAnnounces
  <2>5. (flags' = flags /\ flagView' = flagView) \/ \E d, e, S : Raises(r, w, d, e, S)
    BY <1>3, <2>1, <1>1, WarpKeepsList
  <2> QED BY <2>3, <2>4, <2>5
<1>4. ASSUME NEW d \in Rank, NEW c \in Cta, GemmWait(d, c)
      PROVE  Arrival!Next
  <2>1. PICK e \in Expert :
          /\ GateOpen(d, e)
          /\ ready' = [ready EXCEPT ![d][c] = e]
          /\ flagView' = flagView
    BY <1>4 DEF GemmWait
  <2> DEFINE b == <<d, e>>
             x == <<d, c>>
  <2>2. b \in Batches /\ b[1] = d /\ b[2] = e /\ x \in Rank \X Cta /\ x[1] = d /\ x[2] = c
    BY DEF Batches
  <2>3. ArrivedRows' = ArrivedRows
    BY <2>1 DEF ArrivedRows
  <2>4. ArrivedRows[b] = BatchRows[b]
    <3>1. flags[d][e] = Cardinality(Published(d, e))
      BY CountIsPublished DEF IInv
    <3>2. ExpertEntries(d, e) \subseteq flagView[d][e]
      BY <2>1, <3>1, GateComplete
    <3> QED BY <2>2, <3>2 DEF ArrivedRows, BatchRows
  <2>5. HeldBatch' = [HeldBatch EXCEPT ![x] = {b}]
    <3>1. ready \in [Rank -> [Cta -> Expert \cup {-1}]] /\ e # -1
      BY DEF TypeOK, Expert
    <3>2. \A y \in Rank \X Cta :
            ready'[y[1]][y[2]] = IF y = x THEN e ELSE ready[y[1]][y[2]]
      BY <2>1, <2>2, <3>1
    <3>3. HeldBatch' = [y \in Rank \X Cta |->
                          IF ready'[y[1]][y[2]] = -1 THEN {} ELSE {<<y[1], ready'[y[1]][y[2]]>>}]
      BY DEF HeldBatch
    <3>4. ASSUME NEW y \in Rank \X Cta
          PROVE  HeldBatch'[y] = IF y = x THEN {b} ELSE HeldBatch[y]
      BY <2>2, <3>1, <3>2, <3>3 DEF HeldBatch
    <3>5. HeldBatch = [y \in Rank \X Cta |-> HeldBatch[y]]
      BY DEF HeldBatch
    <3> HIDE DEF b, x
    <3>6. DOMAIN HeldBatch = Rank \X Cta /\ DOMAIN HeldBatch' = Rank \X Cta
      BY <3>3 DEF HeldBatch
    <3>7. HeldBatch' = [y \in Rank \X Cta |-> HeldBatch'[y]]
      BY <3>3
    <3> QED BY <3>4, <3>5, <3>6, <3>7
  <2> HIDE DEF b, x
  <2>6. Arrival!Take(x, b)
    BY <2>3, <2>4, <2>5 DEF Arrival!Take
  <2> QED BY <2>2, <2>6 DEF Arrival!Next
<1>5. ASSUME NEW d \in Rank, NEW c \in Cta, GemmLoad(d, c)
      PROVE  UNCHANGED <<ArrivedRows, HeldBatch>>
  <2>1. flagView' = flagView /\ ready' = ready
    BY <1>5 DEF GemmLoad
  <2> QED BY <1>2, <2>1
<1>6. CASE UNCHANGED vars
  <2>1. flagView' = flagView /\ ready' = ready
    BY <1>6 DEF vars, gemmVars
  <2> QED BY <1>2, <2>1
<1>7. QED
  BY <1>3, <1>4, <1>5, <1>6 DEF Next, CtaStep

\* The dispatch and gate code implements the abstract arrival semaphore: rows
\* arrive once and a CTA only ever holds a complete batch.
THEOREM Implementation == Spec => ImplementsArrival
<1>1. QED
  BY TypeCorrect, Invariance, ArrivalInit, ArrivalStep, PTL
  DEF Spec, ImplementsArrival, Arrival!Spec
=============================================================================
