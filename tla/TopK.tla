-------------------------------- MODULE TopK --------------------------------
(***************************************************************************)
(* The top-k kernels of topk.py with the sorting networks of sort/: each   *)
(* column's index goes into the low bits of its value, the lanes of a row  *)
(* sort what they hold and merge it in butterflies, the k winners are      *)
(* split among the lanes, which take the indices out again; the backward   *)
(* scatters gradients to them.                                             *)
(*                                                                         *)
(* A value is an integer and so is its encoding, of a finite float without *)
(* a negative zero; the backward's softmax is left out.                    *)
(***************************************************************************)
EXTENDS Integers, SequencesExt

CONSTANTS Rows   \* rows of one warp: [n, k, vec, value], value[column]

IsPowerOf2(x) == \E e \in 0 .. 12 : x = 2^e

\* TopK.__init__, _topk_fwd and bitonic_topk; networks of up to 16 are here.
ASSUME TopKAssumption ==
  \A r \in Rows : /\ IsPowerOf2(r.n) /\ IsPowerOf2(r.k) /\ IsPowerOf2(r.vec)
                  /\ r.k <= r.n /\ r.vec <= r.n /\ r.k <= 16
                  /\ DOMAIN r.value = 0 .. r.n - 1

VARIABLES
  row,      \* the row
  phase,    \* "load", "select", "merge", "split", "decode", "stored" or "done"
  round,    \* chunk that a lane sorts, then round of the butterfly
  held,     \* held[lane]: its encoded columns
  winners,  \* winners[lane]: topk_vals
  split,    \* split[lane]: topk_vals_split
  output,   \* values and indices in memory, by position
  dx        \* the gradient of the row

topkVars == <<row, phase, round, held, winners, split, output, dx>>

Larger(a, b) == IF a >= b THEN a ELSE b
Smaller(a, b) == IF a >= b THEN b ELSE a
Least(S) == CHOOSE x \in S : \A y \in S : x <= y

ThreadsPerRow == Larger(Least({row.n \div row.k, 32, row.n \div 64}), 1)
RowLanes == 0 .. ThreadsPerRow - 1
Log2(x) == CHOOSE e \in 0 .. 12 : 2^e = x

-----------------------------------------------------------------------------
(* Values and indices.                                                      *)

\* The low log2(n) bits hold the index, inverted in a value that is not
\* negative, so that of equal ones the earlier column is the larger.
EncodedUninverted(value, column) ==
  IF value >= 0 THEN value * row.n + column ELSE value * row.n - column
Encoded(value, column) ==
  IF value >= 0 THEN value * row.n + (row.n - 1 - column) ELSE value * row.n - column

Bits(x) == IF x >= 0 THEN x % row.n ELSE (-x) % row.n
Cleaned(x) == IF x >= 0 THEN x \div row.n ELSE -((-x) \div row.n)
Index(x, positive) == IF positive THEN row.n - 1 - Bits(x) ELSE Bits(x)

-----------------------------------------------------------------------------
(* Sorting, in descending order.                                            *)

Networks ==
  [size \in {1, 2, 4, 8, 16} |->
     CASE size = 1 -> << >>
       [] size = 2 -> << {<<0, 1>>} >>
       [] size = 4 -> << {<<0, 2>>, <<1, 3>>}, {<<0, 1>>, <<2, 3>>}, {<<1, 2>>} >>
       [] size = 8 -> <<
            {<<0, 2>>, <<1, 3>>, <<4, 6>>, <<5, 7>>}, {<<0, 4>>, <<1, 5>>, <<2, 6>>, <<3, 7>>},
            {<<0, 1>>, <<2, 3>>, <<4, 5>>, <<6, 7>>}, {<<2, 4>>, <<3, 5>>},
            {<<1, 4>>, <<3, 6>>}, {<<1, 2>>, <<3, 4>>, <<5, 6>>} >>
       [] size = 16 -> <<
            {<<0, 13>>, <<1, 12>>, <<2, 15>>, <<3, 14>>, <<4, 8>>, <<5, 6>>, <<7, 11>>, <<9, 10>>},
            {<<0, 5>>, <<1, 7>>, <<2, 9>>, <<3, 4>>, <<6, 13>>, <<8, 14>>, <<10, 15>>, <<11, 12>>},
            {<<0, 1>>, <<2, 3>>, <<4, 5>>, <<6, 8>>, <<7, 9>>, <<10, 11>>, <<12, 13>>, <<14, 15>>},
            {<<0, 2>>, <<1, 3>>, <<4, 10>>, <<5, 11>>, <<6, 7>>, <<8, 9>>, <<12, 14>>, <<13, 15>>},
            {<<1, 2>>, <<3, 12>>, <<4, 6>>, <<5, 7>>, <<8, 10>>, <<9, 11>>, <<13, 14>>},
            {<<1, 4>>, <<2, 6>>, <<5, 8>>, <<7, 10>>, <<9, 13>>, <<11, 14>>},
            {<<2, 4>>, <<3, 6>>, <<9, 12>>, <<11, 13>>}, {<<3, 5>>, <<6, 8>>, <<7, 9>>, <<10, 12>>},
            {<<3, 4>>, <<5, 6>>, <<7, 8>>, <<9, 10>>, <<11, 12>>}, {<<6, 7>>, <<8, 9>>} >>]

\* compare_and_swap on the pairs of a level, of which no two share a place:
\* the earlier place of a pair gets the larger element.
CompareAndSwap(arr, level) ==
  [i \in DOMAIN arr |->
     IF \E j \in DOMAIN arr : <<i, j>> \in level
     THEN Larger(arr[i], arr[CHOOSE j \in DOMAIN arr : <<i, j>> \in level])
     ELSE IF \E j \in DOMAIN arr : <<j, i>> \in level
          THEN Smaller(arr[CHOOSE j \in DOMAIN arr : <<j, i>> \in level], arr[i])
          ELSE arr[i]]

OptimalSort(arr) == FoldLeft(CompareAndSwap, arr, Networks[row.k])

\* One level of bitonic_merge on blocks of a length, and all of them.
MergeLevel(arr, length) ==
  LET step == length \div 2
  IN  [i \in DOMAIN arr |-> IF i % length < step THEN Larger(arr[i], arr[i + step])
                                                 ELSE Smaller(arr[i - step], arr[i])]
BitonicMerge(arr) ==
  FoldLeft(MergeLevel, arr, [level \in 1 .. Log2(row.k) |-> row.k \div 2^(level - 1)])

\* The larger of one sequence and of the other one from its end.
TopkMerge(arr, other) ==
  BitonicMerge([i \in DOMAIN arr |-> Larger(arr[i], other[row.k - 1 - i])])

\* What a lane holds, k columns at a time.
Chunk(arr, c) == OptimalSort([i \in 0 .. row.k - 1 |-> arr[c * row.k + i]])
Chunks == row.n \div (ThreadsPerRow * row.k)

-----------------------------------------------------------------------------
(* The kernel.                                                              *)

\* The i-th element that a lane loads: vectors go to the lanes in turns.
ColumnOf(lane, i) == ((i \div row.vec) * ThreadsPerRow + lane) * row.vec + (i % row.vec)

LoadRow ==
  /\ phase = "load"
  /\ held' = [lane \in RowLanes |->
                [i \in 0 .. (row.n \div ThreadsPerRow) - 1 |->
                   Encoded(row.value[ColumnOf(lane, i)], ColumnOf(lane, i))]]
  /\ phase' = "select"
  /\ UNCHANGED <<row, round, winners, split, output, dx>>

\* A lane keeps the winners of its chunks so far.
SelectLocal ==
  /\ phase = "select"
  /\ winners' = [lane \in RowLanes |->
                   IF round = 0 THEN Chunk(held[lane], 0)
                                ELSE TopkMerge(winners[lane], Chunk(held[lane], round))]
  /\ round' = (round + 1) % Chunks
  /\ phase' = IF round + 1 < Chunks THEN "select" ELSE IF ThreadsPerRow = 1 THEN "split" ELSE "merge"
  /\ UNCHANGED <<row, held, split, output, dx>>

\* shuffle_sync_bfly: with the lane that differs in one bit.
Partner(lane) == IF (lane \div 2^round) % 2 = 0 THEN lane + 2^round ELSE lane - 2^round
MergeLanes ==
  /\ phase = "merge"
  /\ winners' = [lane \in RowLanes |-> TopkMerge(winners[lane], winners[Partner(lane)])]
  /\ round' = round + 1
  /\ phase' = IF 2^(round + 1) = ThreadsPerRow THEN "split" ELSE "merge"
  /\ UNCHANGED <<row, held, split, output, dx>>

\* Vectors of the winners go from lane 0 to the lanes in turns.
VecsizeOut == Least({row.k, row.vec, 4})
VectorsPerLane == (row.k + VecsizeOut * ThreadsPerRow - 1) \div (VecsizeOut * ThreadsPerRow)
VectorOf(lane, j) == j * ThreadsPerRow + lane
IsStored(lane, j) == VectorOf(lane, j) < row.k \div VecsizeOut

SplitWinners ==
  /\ phase = "split"
  /\ split' = [lane \in RowLanes |->
                 [e \in 0 .. VecsizeOut * VectorsPerLane - 1 |->
                    IF IsStored(lane, e \div VecsizeOut)
                      THEN winners[0][VectorOf(lane, e \div VecsizeOut) * VecsizeOut + (e % VecsizeOut)] ELSE 0]]
  /\ phase' = "decode"
  /\ UNCHANGED <<row, round, held, winners, output, dx>>

\* The sign is that of topk_vals[i], which is not split.
DecodeAndStore ==
  LET positions == {<<lane, e>> \in RowLanes \X DOMAIN split[0] : IsStored(lane, e \div VecsizeOut)}
      At(p) == VectorOf(p[1], p[2] \div VecsizeOut) * VecsizeOut + (p[2] % VecsizeOut)
      Stored(p) == LET x == split[p[1]][p[2]]
                   IN  [value |-> Cleaned(x), index |-> Index(x, winners[p[1]][p[2]] >= 0)]
  IN  /\ phase = "decode"
      /\ output' = [i \in 0 .. row.k - 1 |-> {Stored(p) : p \in {q \in positions : At(q) = i}}]
      /\ phase' = "stored"
      /\ UNCHANGED <<row, round, held, winners, split, dx>>

\* TopKBackward: position i's gradient, called i + 1, goes to its index.
ScatterGradients ==
  /\ phase = "stored"
  /\ dx' = [c \in 0 .. row.n - 1 |->
              {i + 1 : i \in {j \in DOMAIN output : \E o \in output[j] : o.index = c}}]
  /\ phase' = "done"
  /\ UNCHANGED <<row, round, held, winners, split, output>>

NoRow == [n |-> 1, k |-> 1, vec |-> 1, value |-> <<>>]
TopKStart(r, p) ==
  row = r /\ phase = p /\ round = 0 /\ held = <<>> /\ winners = <<>> /\ split = <<>> /\ output = <<>> /\ dx = <<>>
TopKIdle == TopKStart(NoRow, "done")
TopKInit == \E r \in Rows : TopKStart(r, "load")

TopKNext ==
  LoadRow \/ SelectLocal \/ MergeLanes \/ SplitWinners \/ DecodeAndStore \/ ScatterGradients

-----------------------------------------------------------------------------
\* Column c comes before d: it is larger, or equal and earlier.
Before(c, d) == row.value[c] > row.value[d] \/ (row.value[c] = row.value[d] /\ c < d)

(***************************************************************************)
(* The i-th output is the i-th largest element of the row with its column, *)
(* of equal ones the earlier first; one lane writes it; and its gradient   *)
(* goes to that column alone.                                              *)
(***************************************************************************)
TopKExact ==
  /\ \A i \in DOMAIN output :
       \E c \in DOMAIN row.value :
         /\ output[i] = {[value |-> row.value[c], index |-> c]}
         /\ Cardinality({d \in DOMAIN row.value : Before(d, c)}) = i
         /\ dx # <<>> => dx[c] = {i + 1}
  /\ dx # <<>> => \A c \in DOMAIN dx : dx[c] = {} \/ \E i \in DOMAIN output : dx[c] = {i + 1}
=============================================================================
