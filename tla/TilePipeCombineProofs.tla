------------------------ MODULE TilePipeCombineProofs ------------------------
(***************************************************************************)
(* Theorems about TilePipeCombine, and the publishing GEMM it extends, for *)
(* any number of ranks, experts, CTAs, clusters, store groups, stages,     *)
(* consumer threads and iterations, and every routing.                     *)
(***************************************************************************)
EXTENDS TilePipeCombine, TilePipePlansProofs

-----------------------------------------------------------------------------
(* Strides.                                                                 *)

\* A worker's items: the one it begins at and every step-th behind it.
LEMMA Shares ==
  ASSUME NEW n \in Nat, NEW m \in Nat \ {0}, NEW a \in 0 .. m - 1
  PROVE  /\ Share(n, a, m) \in Nat
         /\ \A g \in Nat : g < Share(n, a, m) <=> a + m * g < n
<1> DEFINE S == {k \in 0 .. n - 1 : k % m = a}
           N == (n - a + (m - 1)) \div m
           u == n - a + (m - 1)
<1>1. u \in Nat /\ N \in Nat /\ u % m \in 0 .. m - 1 /\ u = m * N + (u % m)
  <2>1. u \in Nat
    OBVIOUS
  <2> HIDE DEF u
  <2>2. u \div m \in Nat /\ u % m \in 0 .. m - 1 /\ u = m * (u \div m) + (u % m)
    BY <2>1, DivMod
  <2> QED BY <2>1, <2>2 DEF u
<1>2. \A g \in Nat : g < N <=> a + m * g < n
  <2> SUFFICES ASSUME NEW g \in Nat PROVE g < N <=> a + m * g < n
    OBVIOUS
  <2> DEFINE v == u % m
  <2>1. v \in 0 .. m - 1 /\ u = m * N + v /\ u = n - a + (m - 1) /\ N \in Nat
    BY <1>1
  <2> HIDE DEF N, v, u
  <2>2. m * (g + 1) = m * g + m /\ m * g \in Nat /\ m * N \in Nat
    BY <2>1
  <2>3. ASSUME g < N PROVE a + m * g < n
    <3>1. m * (g + 1) <= m * N
      BY <2>1, <2>3
    <3> QED BY <3>1, <2>1, <2>2
  <2>4. ASSUME N <= g PROVE n <= a + m * g
    <3>1. m * N <= m * g
      BY <2>1, <2>4
    <3> QED BY <3>1, <2>1, <2>2
  <2> QED BY <2>1, <2>2, <2>3, <2>4
<1> DEFINE f == [k \in S |-> k \div m]
<1> HIDE DEF N
<1>3. f \in [S -> 0 .. N - 1] /\ \A k \in S : k = m * f[k] + a
  <2> SUFFICES ASSUME NEW k \in S PROVE k \div m \in 0 .. N - 1 /\ k = m * (k \div m) + a
    OBVIOUS
  <2>1. k \in Nat /\ k < n /\ k % m = a
    OBVIOUS
  <2>2. k \div m \in Nat /\ k = m * (k \div m) + (k % m)
    BY <2>1, DivMod
  <2> DEFINE q == k \div m
  <2> HIDE DEF q
  <2>3. q \in Nat /\ k = m * q + a
    BY <2>1, <2>2 DEF q
  <2>4. q < N
    BY <2>1, <2>3, <1>2
  <2> QED BY <2>3, <2>4, <1>1 DEF q
<1>4. \A x, y \in S : f[x] = f[y] => x = y
  <2> SUFFICES ASSUME NEW x \in S, NEW y \in S, f[x] = f[y] PROVE x = y
    OBVIOUS
  <2> HIDE DEF f, S
  <2>1. x = m * f[x] + a /\ y = m * f[y] + a
    BY <1>3
  <2> QED BY <2>1
<1>5. \A g \in 0 .. N - 1 : \E x \in S : f[x] = g
  <2> SUFFICES ASSUME NEW g \in 0 .. N - 1 PROVE \E x \in S : f[x] = g
    OBVIOUS
  <2>1. g \in Nat /\ a + m * g < n
    BY <1>1, <1>2
  <2>2. (m * g + a) % m = a /\ (m * g + a) \div m = g
    BY <2>1, DivUnique
  <2>3. m * g + a \in S
    BY <2>1, <2>2
  <2> QED BY <2>2, <2>3
<1>6. Cardinality(S) = N
  <2> HIDE DEF f, S
  <2>1. IsFiniteSet(0 .. N - 1) /\ Cardinality(0 .. N - 1) = N
    BY <1>1, FromZero
  <2> QED BY <1>3, <1>4, <1>5, <2>1, Paired
<1>7. Share(n, a, m) = N
  BY <1>6 DEF Share
<1> QED BY <1>1, <1>2, <1>7

\* Division of numbers into rows of m.
LEMMA Lanes ==
  ASSUME NEW m \in Nat \ {0}, NEW a \in Nat, NEW b \in Nat
  PROVE  /\ CeilDiv(a, m) \in Nat
         /\ a \div m \in Nat /\ a % m \in 0 .. m - 1 /\ a = (a \div m) * m + (a % m)
         /\ a < b => a \div m < CeilDiv(b, m)
         /\ a * m < b <=> a < CeilDiv(b, m)
         /\ m = 1 => CeilDiv(b, m) = b
<1> DEFINE q == a \div m
           s == a % m
           u == b + m - 1
           h == u \div m
           v == u % m
<1>1. q \in Nat /\ s \in 0 .. m - 1 /\ a = m * q + s
  BY DivMod
<1>2. h \in Nat /\ v \in 0 .. m - 1 /\ u = m * h + v
  <2>1. u \in Nat
    OBVIOUS
  <2> QED BY <2>1, DivMod
<1>3. u = b + m - 1
  OBVIOUS
<1>4. CeilDiv(b, m) = h
  BY DEF CeilDiv
<1>5. CeilDiv(a, m) \in Nat
  <2>1. a + m - 1 \in Nat
    OBVIOUS
  <2>2. (a + m - 1) \div m \in Nat
    BY <2>1, DivMod
  <2> QED BY <2>2 DEF CeilDiv
<1> HIDE DEF q, s, u, h, v
<1>6. m * q = q * m /\ a * m = m * a /\ m * q \in Nat /\ m * h \in Nat /\ m * a \in Nat
  BY <1>1, <1>2
<1>7. ASSUME a < b PROVE q < h
  <2>1. SUFFICES ASSUME h <= q PROVE FALSE
    BY <1>1, <1>2
  <2>2. m * h <= m * q
    BY <1>1, <1>2, <2>1
  <2> QED BY <1>1, <1>2, <1>3, <1>6, <1>7, <2>2
<1>8. a * m < b <=> a < h
  <2>1. ASSUME a < h PROVE a * m < b
    <3>1. m * (a + 1) <= m * h /\ m * (a + 1) = m * a + m
      BY <2>1, <1>2
    <3> QED BY <3>1, <1>2, <1>3, <1>6
  <2>2. ASSUME h <= a PROVE b <= a * m
    <3>1. m * h <= m * a
      BY <2>2, <1>2
    <3> QED BY <3>1, <1>2, <1>3, <1>6
  <2>3. a < h \/ h <= a
    BY <1>2
  <2> QED BY <2>1, <2>2, <2>3, <1>6
<1>9. m = 1 => h = b
  <2> SUFFICES ASSUME m = 1 PROVE h = b
    OBVIOUS
  <2>1. m * h = h
    BY <1>2
  <2> QED BY <2>1, <1>2, <1>3
<1> QED
  BY <1>1, <1>4, <1>5, <1>6, <1>7, <1>8, <1>9 DEF q, s

-----------------------------------------------------------------------------
(* The work of the CTAs.                                                    *)

LEMMA ShapeFacts ==
  ASSUME NEW p \in Shapes
  PROVE  /\ p.nTiles \in Nat \ {0} /\ p.clM \in Nat \ {0} /\ p.clN \in Nat \ {0}
         /\ p.clusters \in Nat \ {0} /\ p.epiTiles \in Nat \ {0}
         /\ p.ctas \in Nat \ {0} /\ p.chunks \in Nat \ {0} /\ p.stages \in Nat \ {0}
         /\ p.threads \in Nat \ {0} /\ p.iters \in Nat \ {0}
         /\ p.pulls \in BOOLEAN /\ (~p.pulls => p.iters = 1)
         /\ Routed(p.topk)
         /\ \A r \in Rank : /\ Len(p.topk[r]) \in Nat /\ DOMAIN p.topk[r] = 1 .. Len(p.topk[r])
                            /\ Len(p.topk[r]) % TopK = 0
         /\ \A d \in Rank, b \in Expert : SplitSize(p.topk, d, b) \in Nat /\ MTilesOf(p, d, b) \in Nat
<1>1. Routed(p.topk)
  BY PublishAssumption DEF Routed, Global
<1>2. \A d \in Rank, b \in Expert : SplitSize(p.topk, d, b) \in Nat /\ MTilesOf(p, d, b) \in Nat
  <2> SUFFICES ASSUME NEW d \in Rank, NEW b \in Expert
               PROVE  SplitSize(p.topk, d, b) \in Nat /\ MTilesOf(p, d, b) \in Nat
    OBVIOUS
  <2>1. SplitSize(p.topk, d, b) \in Nat
    BY <1>1, Spans
  <2>2. TileM \in Nat \ {0}
    BY RoutingAssumption
  <2> QED BY <2>1, <2>2, Lanes DEF MTilesOf
<1>3. \A r \in Rank : Len(p.topk[r]) \in Nat /\ DOMAIN p.topk[r] = 1 .. Len(p.topk[r])
  <2> SUFFICES ASSUME NEW r \in Rank
               PROVE  Len(p.topk[r]) \in Nat /\ DOMAIN p.topk[r] = 1 .. Len(p.topk[r])
    OBVIOUS
  <2>1. p.topk[r] \in Seq(Global)
    BY <1>1 DEF Routed
  <2> QED BY <2>1
<1>4. {p.nTiles, p.clM, p.clN, p.clusters, p.epiTiles} \subseteq Nat \ {0}
  BY PublishAssumption
<1>5. /\ {p.ctas, p.chunks, p.stages, p.threads, p.iters} \subseteq Nat \ {0}
      /\ p.pulls \in BOOLEAN /\ (~p.pulls => p.iters = 1)
      /\ \A r \in Rank : Len(p.topk[r]) % TopK = 0
  BY CombineAssumption
<1> QED BY <1>1, <1>2, <1>3, <1>4, <1>5

LEMMA TriplesFinite ==
  ASSUME NEW b, NEW A, IsFiniteSet(A), NEW C, IsFiniteSet(C)
  PROVE  IsFiniteSet({b} \X A \X C)
<1> DEFINE f == [y \in A \X C |-> <<b, y[1], y[2]>>]
           T == {b} \X A \X C
<1>1. f \in Surjection(A \X C, T)
  <2>1. f \in [A \X C -> T]
    OBVIOUS
  <2>2. \A z \in T : \E y \in A \X C : f[y] = z
    <3> SUFFICES ASSUME NEW z \in T PROVE \E y \in A \X C : f[y] = z
      OBVIOUS
    <3>1. z = <<b, z[2], z[3]>> /\ <<z[2], z[3]>> \in A \X C
      OBVIOUS
    <3>2. f[<<z[2], z[3]>>] = z
      BY <3>1
    <3> QED BY <3>1, <3>2
  <2> QED BY <2>1, <2>2 DEF Surjection
<1>2. IsFiniteSet(A \X C)
  BY FS_Product
<1> HIDE DEF f, T
<1>3. IsFiniteSet(T)
  BY <1>1, <1>2, FS_Surjection
<1> QED BY <1>3 DEF T

LEMMA ClusterTileFacts ==
  ASSUME NEW p \in Shapes, NEW d \in Rank, NEW z
  PROVE  z \in ClusterTilesOf(p, d) <=>
           /\ z = <<z[1], z[2], z[3]>> /\ z[1] \in Expert
           /\ z[2] \in 0 .. CeilDiv(MTilesOf(p, d, z[1]), p.clM) - 1
           /\ z[3] \in 0 .. CeilDiv(p.nTiles, p.clN) - 1
<1> DEFINE M(b) == 0 .. CeilDiv(MTilesOf(p, d, b), p.clM) - 1
           N == 0 .. CeilDiv(p.nTiles, p.clN) - 1
<1>1. z \in ClusterTilesOf(p, d) <=> \E b \in Expert : z \in {b} \X M(b) \X N
  BY DEF ClusterTilesOf
<1> HIDE DEF M, N
<1>2. \A b : z \in {b} \X M(b) \X N <=> z = <<z[1], z[2], z[3]>> /\ z[1] = b /\ z[2] \in M(b) /\ z[3] \in N
  OBVIOUS
<1>3. z \in ClusterTilesOf(p, d) <=> z = <<z[1], z[2], z[3]>> /\ z[1] \in Expert /\ z[2] \in M(z[1]) /\ z[3] \in N
  BY <1>1, <1>2
<1> QED BY <1>3 DEF M, N

\* The scheduler goes over each cluster tile once.
LEMMA ClusterLists ==
  ASSUME NEW p \in Shapes, NEW d \in Rank
  PROVE  LET S == ClusterTilesOf(p, d)
             s == ClusterTiles(p, d)
         IN  /\ Len(s) \in Nat /\ DOMAIN s = 1 .. Len(s)
             /\ \A n \in DOMAIN s : s[n] \in S
             /\ \A x \in S : \E n \in DOMAIN s : s[n] = x
             /\ \A i, k \in DOMAIN s : s[i] = s[k] => i = k
<1> DEFINE S == ClusterTilesOf(p, d)
           s == ClusterTiles(p, d)
<1>1. p.clM \in Nat \ {0} /\ p.clN \in Nat \ {0} /\ p.nTiles \in Nat
      /\ \A b \in Expert : MTilesOf(p, d, b) \in Nat
  BY ShapeFacts
<1> DEFINE N == CeilDiv(p.nTiles, p.clN)
           M(b) == CeilDiv(MTilesOf(p, d, b), p.clM)
<1>2. N \in Nat /\ \A b \in Expert : M(b) \in Nat
  BY <1>1, Lanes
<1>3. IsFiniteSet(S)
  <2> DEFINE T == {{b} \X (0 .. M(b) - 1) \X (0 .. N - 1) : b \in Expert}
             f == [b \in Expert |-> {b} \X (0 .. M(b) - 1) \X (0 .. N - 1)]
  <2>1. IsFiniteSet(Expert)
    BY FromZero, RoutingAssumption DEF Expert
  <2>2. f \in Surjection(Expert, T)
    BY DEF Surjection
  <2>3. IsFiniteSet(T)
    <3> HIDE DEF f, T
    <3> QED BY <2>1, <2>2, FS_Surjection
  <2>4. \A B \in T : IsFiniteSet(B)
    <3> SUFFICES ASSUME NEW b \in Expert PROVE IsFiniteSet({b} \X (0 .. M(b) - 1) \X (0 .. N - 1))
      OBVIOUS
    <3> HIDE DEF M, N
    <3>1. IsFiniteSet(0 .. M(b) - 1) /\ IsFiniteSet(0 .. N - 1)
      BY <1>2, FromZero
    <3> QED BY <3>1, TriplesFinite
  <2>5. IsFiniteSet(UNION T)
    <3> HIDE DEF T
    <3> QED BY <2>3, <2>4, FS_UNION
  <2>6. S = UNION T
    BY DEF ClusterTilesOf
  <2> QED BY <2>5, <2>6
<1>4. \A x \in S : x = <<x[1], x[2], x[3]>> /\ x[1] \in Nat /\ x[2] \in Nat /\ x[3] \in Nat
  <2> SUFFICES ASSUME NEW x \in S PROVE x = <<x[1], x[2], x[3]>> /\ x[1] \in Nat /\ x[2] \in Nat /\ x[3] \in Nat
    OBVIOUS
  <2>1. x = <<x[1], x[2], x[3]>> /\ x[1] \in Expert /\ x[2] \in 0 .. M(x[1]) - 1 /\ x[3] \in 0 .. N - 1
    BY ClusterTileFacts
  <2> HIDE DEF M, N, S
  <2> QED BY <2>1, <1>2, RoutingAssumption DEF Expert
<1> HIDE DEF S
<1>5. Strict(S, Lexicographic(S))
  <2>1. \A x, y \in S : <<x, y>> \in Lexicographic(S) <=>
          \/ x[1] < y[1]
          \/ x[1] = y[1] /\ x[2] < y[2]
          \/ x[1] = y[1] /\ x[2] = y[2] /\ x[3] < y[3]
    BY DEF Lexicographic
  <2>2. \A x \in S : <<x, x>> \notin Lexicographic(S)
    BY <2>1, <1>4
  <2>3. ASSUME NEW x \in S, NEW y \in S, NEW z \in S,
               <<x, y>> \in Lexicographic(S), <<y, z>> \in Lexicographic(S)
        PROVE  <<x, z>> \in Lexicographic(S)
    BY <2>1, <2>3, <1>4
  <2>4. ASSUME NEW x \in S, NEW y \in S, x # y
        PROVE  <<x, y>> \in Lexicographic(S) \/ <<y, x>> \in Lexicographic(S)
    <3>1. x[1] # y[1] \/ x[2] # y[2] \/ x[3] # y[3]
      BY <2>4, <1>4
    <3>2. x[1] \in Nat /\ x[2] \in Nat /\ x[3] \in Nat /\ y[1] \in Nat /\ y[2] \in Nat /\ y[3] \in Nat
      BY <1>4
    <3> QED BY <3>1, <3>2, <2>1
  <2> QED BY <2>2, <2>3, <2>4 DEF Strict
<1>6. s = Sorted(S, Lexicographic(S))
  BY DEF ClusterTiles, S
<1> HIDE DEF s
<1>7. /\ Cardinality(S) \in Nat /\ Len(s) = Cardinality(S) /\ DOMAIN s = 1 .. Cardinality(S)
      /\ \A n \in DOMAIN s : s[n] \in S
      /\ \A x \in S : \E n \in DOMAIN s : s[n] = x
      /\ \A i, k \in DOMAIN s : s[i] = s[k] => i = k
  BY <1>3, <1>5, <1>6, SortedLists
<1> QED BY <1>7 DEF S, s

LEMMA CtaFacts ==
  ASSUME LaunchTables, NEW c
  PROVE  /\ shape \in Shapes /\ DOMAIN work = CtasOf(shape)
         /\ c \in Cta <=> /\ c = <<c[1], c[2], c[3], c[4]>>
                          /\ c[1] \in Rank /\ TotalRows(shape.topk, c[1]) > 0
                          /\ c[2] \in 1 .. shape.clusters
                          /\ c[3] \in 0 .. shape.clM - 1 /\ c[4] \in 0 .. shape.clN - 1
<1>1. shape \in Shapes /\ DOMAIN work = CtasOf(shape)
  BY DEF LaunchTables
<1>2. c \in CtasOf(shape) <=> /\ c = <<c[1], c[2], c[3], c[4]>>
                              /\ c[1] \in Rank /\ TotalRows(shape.topk, c[1]) > 0
                              /\ c[2] \in 1 .. shape.clusters
                              /\ c[3] \in 0 .. shape.clM - 1 /\ c[4] \in 0 .. shape.clN - 1
  BY DEF CtasOf
<1> QED BY <1>1, <1>2 DEF Cta

ClusterPlace(c, i) == c[2] + (i - 1) * shape.clusters
ClusterTile(c, i) == ClusterTiles(shape, c[1])[ClusterPlace(c, i)]

\* A CTA's i-th tile is its place in the cluster's i-th tile.
LEMMA WorkFacts ==
  ASSUME LaunchTables, NEW c \in Cta
  PROVE  /\ Len(work[c]) \in Nat /\ DOMAIN work[c] = 1 .. Len(work[c])
         /\ \A i \in Nat \ {0} :
              i \in DOMAIN work[c] <=> ClusterPlace(c, i) \in DOMAIN ClusterTiles(shape, c[1])
         /\ \A i \in DOMAIN work[c] :
              work[c][i] = [batch |-> ClusterTile(c, i)[1],
                            m |-> ClusterTile(c, i)[2] * shape.clM + c[3],
                            n |-> ClusterTile(c, i)[3] * shape.clN + c[4]]
<1>1. shape \in Shapes /\ c[1] \in Rank /\ c[2] \in 1 .. shape.clusters /\ c \in CtasOf(shape)
  BY CtaFacts DEF Cta
<1>2. shape.clusters \in Nat \ {0}
  BY <1>1, ShapeFacts
<1> DEFINE ts == ClusterTiles(shape, c[1])
           n == Share(Len(ts), c[2] - 1, shape.clusters)
           F(i) == [batch |-> ClusterTile(c, i)[1],
                    m |-> ClusterTile(c, i)[2] * shape.clM + c[3],
                    n |-> ClusterTile(c, i)[3] * shape.clN + c[4]]
<1>3. Len(ts) \in Nat /\ DOMAIN ts = 1 .. Len(ts)
  BY <1>1, ClusterLists
<1>4. work[c] = [i \in 1 .. n |-> F(i)]
  <2>1. work[c] = WorkOf(shape, c)
    BY <1>1 DEF LaunchTables
  <2> QED BY <2>1 DEF WorkOf, ClusterTile, ClusterPlace
<1> HIDE DEF ts, F
<1>5. n \in Nat /\ \A g \in Nat : g < n <=> (c[2] - 1) + shape.clusters * g < Len(ts)
  <2>1. c[2] - 1 \in 0 .. shape.clusters - 1
    BY <1>1, <1>2
  <2> QED BY <2>1, <1>2, <1>3, Shares
<1> HIDE DEF n
<1>6. Len(work[c]) = n /\ DOMAIN work[c] = 1 .. n
  <2>1. work[c] \in Seq({F(i) : i \in 1 .. n}) /\ DOMAIN work[c] = 1 .. n
    BY <1>4, <1>5
  <2> QED BY <2>1, <1>5
<1>7. ASSUME NEW i \in Nat \ {0} PROVE i \in DOMAIN work[c] <=> ClusterPlace(c, i) \in DOMAIN ts
  <2>1. i - 1 \in Nat /\ (i - 1 < n <=> (c[2] - 1) + shape.clusters * (i - 1) < Len(ts))
    BY <1>5
  <2>2. (i - 1) * shape.clusters = shape.clusters * (i - 1) /\ shape.clusters * (i - 1) \in Nat
    BY <1>2
  <2>3. ClusterPlace(c, i) = c[2] + shape.clusters * (i - 1)
    BY <2>2 DEF ClusterPlace
  <2> DEFINE v == shape.clusters * (i - 1)
  <2> HIDE DEF v
  <2>4. c[2] + v \in 1 .. Len(ts) <=> (c[2] - 1) + v < Len(ts)
    BY <1>1, <1>3, <2>2 DEF v
  <2> QED BY <1>3, <1>5, <1>6, <2>1, <2>3, <2>4 DEF v
<1>8. \A i \in DOMAIN work[c] : work[c][i] = F(i)
  BY <1>4, <1>6
<1> QED BY <1>5, <1>6, <1>7, <1>8 DEF ts, F

-----------------------------------------------------------------------------
(* The tiles of a row block and its flag.                                   *)

LEMMA TileFacts ==
  ASSUME LaunchTables, NEW c \in Cta, NEW i \in DOMAIN work[c]
  PROVE  LET t == work[c][i]
         IN  /\ i \in Nat \ {0} /\ t.batch \in Expert /\ t.m \in Nat /\ t.n \in Nat
             /\ InRange(c, t) <=> t.m < MTilesOf(shape, c[1], t.batch) /\ t.n < NTiles
<1> DEFINE t == work[c][i]
           z == ClusterTile(c, i)
           M == MTilesOf(shape, c[1], t.batch)
<1>1. /\ shape \in Shapes /\ c[1] \in Rank
      /\ c[3] \in 0 .. shape.clM - 1 /\ c[4] \in 0 .. shape.clN - 1
  BY CtaFacts
<1>2. /\ shape.clM \in Nat \ {0} /\ shape.clN \in Nat \ {0} /\ NTiles \in Nat \ {0}
      /\ TileM \in Nat \ {0} /\ \A b \in Expert : MTilesOf(shape, c[1], b) \in Nat
  BY <1>1, ShapeFacts, RoutingAssumption DEF NTiles
<1>3. i \in Nat \ {0} /\ ClusterPlace(c, i) \in DOMAIN ClusterTiles(shape, c[1])
  BY WorkFacts
<1>4. z \in ClusterTilesOf(shape, c[1])
  BY <1>1, <1>3, ClusterLists DEF ClusterTile
<1>5. /\ z[1] \in Expert
      /\ z[2] \in 0 .. CeilDiv(MTilesOf(shape, c[1], z[1]), shape.clM) - 1
      /\ z[3] \in 0 .. CeilDiv(NTiles, shape.clN) - 1
  BY <1>1, <1>4, ClusterTileFacts DEF NTiles
<1>6. t.batch = z[1] /\ t.m = z[2] * shape.clM + c[3] /\ t.n = z[3] * shape.clN + c[4]
  <2>1. t = [batch |-> z[1], m |-> z[2] * shape.clM + c[3], n |-> z[3] * shape.clN + c[4]]
    BY WorkFacts
  <2> HIDE DEF t, z
  <2> QED BY <2>1
<1> HIDE DEF t, z, M
<1>7. /\ CeilDiv(MTilesOf(shape, c[1], z[1]), shape.clM) \in Nat
      /\ CeilDiv(NTiles, shape.clN) \in Nat
  BY <1>2, <1>5, Lanes
<1>8. z[2] \in Nat /\ z[3] \in Nat
  BY <1>5, <1>7
<1>9. t.batch \in Expert /\ t.m \in Nat /\ t.n \in Nat
  BY <1>1, <1>2, <1>5, <1>6, <1>8
<1>10. InRange(c, t) <=> t.m < M /\ t.n < NTiles
  <2>1. CASE shape.clM * shape.clN = 1
    <3>1. shape.clM = 1 /\ shape.clN = 1
      BY <1>2, <2>1
    <3>2. CeilDiv(MTilesOf(shape, c[1], z[1]), shape.clM) = M /\ CeilDiv(NTiles, shape.clN) = NTiles
      BY <1>2, <1>5, <1>6, <3>1, Lanes DEF M
    <3>3. t.m = z[2] /\ t.n = z[3]
      BY <1>1, <1>6, <1>8, <3>1
    <3> QED BY <1>5, <1>7, <1>8, <2>1, <3>2, <3>3 DEF InRange
  <2>2. CASE shape.clM * shape.clN # 1
    <3>1. rows[c[1]][t.batch] = SplitSize(shape.topk, c[1], t.batch)
      BY <1>1, <1>9 DEF LaunchTables
    <3>2. t.m * TileM < SplitSize(shape.topk, c[1], t.batch) <=> t.m < M
      BY <1>1, <1>2, <1>9, ShapeFacts, Lanes DEF M, MTilesOf
    <3> QED BY <2>2, <3>1, <3>2 DEF InRange
  <2> QED BY <2>1, <2>2
<1> QED BY <1>3, <1>9, <1>10 DEF t, M

LEMMA BlockFacts ==
  ASSUME NEW x
  PROVE  x \in Blocks <=> /\ x = <<x[1], x[2], x[3]>> /\ x[1] \in Rank /\ x[2] \in Expert
                          /\ x[3] \in 0 .. MTilesOf(shape, x[1], x[2]) - 1
<1> DEFINE M(d, b) == 0 .. MTilesOf(shape, d, b) - 1
<1> DEFINE S(d, b) == {<<d, b, m>> : m \in M(d, b)}
<1>0. x \in Blocks <=> \E d \in Rank, b \in Expert : x \in S(d, b)
  <2>1. Blocks = UNION {S(d, b) : d \in Rank, b \in Expert}
    BY DEF Blocks
  <2> HIDE DEF S
  <2> QED BY <2>1
<1>1. x \in Blocks <=> \E d \in Rank, b \in Expert : \E m \in M(d, b) : x = <<d, b, m>>
  <2> HIDE DEF M
  <2> QED BY <1>0
<1> HIDE DEF M
<1>2. x \in Blocks <=> x = <<x[1], x[2], x[3]>> /\ x[1] \in Rank /\ x[2] \in Expert /\ x[3] \in M(x[1], x[2])
  BY <1>1
<1> QED BY <1>2 DEF M

LEMMA WorkTileFacts ==
  ASSUME LaunchTables, NEW t
  PROVE  t \in WorkTiles <=> t = <<t[1], t[2]>> /\ t[1] \in Cta /\ t[2] \in DOMAIN work[t[1]]
BY DEF WorkTiles

\* Two work tiles at the same place of the output are one.
LEMMA TilesDiffer ==
  ASSUME LaunchTables, NEW t \in WorkTiles, NEW u \in WorkTiles, t[1][1] = u[1][1],
         Tile(t).batch = Tile(u).batch, Tile(t).m = Tile(u).m, Tile(t).n = Tile(u).n
  PROVE  t = u
<1> DEFINE a == t[1]  b == u[1]  i == t[2]  k == u[2]
           y == ClusterTile(a, i)  z == ClusterTile(b, k)
           mm == shape.clM  nn == shape.clN  s == shape.clusters
<1>1. t = <<a, i>> /\ u = <<b, k>> /\ a \in Cta /\ b \in Cta /\ i \in DOMAIN work[a] /\ k \in DOMAIN work[b]
      /\ Tile(t) = work[a][i] /\ Tile(u) = work[b][k]
  BY WorkTileFacts DEF Tile
<1> HIDE DEF a, b, i, k
<1>2. shape \in Shapes
  BY DEF LaunchTables
<1>3. /\ a = <<a[1], a[2], a[3], a[4]>> /\ b = <<b[1], b[2], b[3], b[4]>> /\ a[1] \in Rank /\ b[1] = a[1]
      /\ a[2] \in 1 .. s /\ b[2] \in 1 .. s /\ a[3] \in 0 .. mm - 1 /\ b[3] \in 0 .. mm - 1
      /\ a[4] \in 0 .. nn - 1 /\ b[4] \in 0 .. nn - 1
  <2>1. a[1] = b[1]
    BY DEF a, b
  <2> QED BY <1>1, <2>1, CtaFacts
<1>4. mm \in Nat \ {0} /\ nn \in Nat \ {0} /\ s \in Nat \ {0}
  BY <1>2, ShapeFacts
<1>5. /\ i \in Nat \ {0} /\ k \in Nat \ {0}
      /\ ClusterPlace(a, i) \in DOMAIN ClusterTiles(shape, a[1])
      /\ ClusterPlace(b, k) \in DOMAIN ClusterTiles(shape, a[1])
  <2>1. i \in Nat \ {0} /\ k \in Nat \ {0}
    BY <1>1, TileFacts
  <2> QED BY <1>1, <1>3, <2>1, WorkFacts
<1>6. y \in ClusterTilesOf(shape, a[1]) /\ z \in ClusterTilesOf(shape, a[1])
  BY <1>2, <1>3, <1>5, ClusterLists DEF ClusterTile
<1>7. /\ y[1] = z[1] /\ y[2] * mm + a[3] = z[2] * mm + b[3] /\ y[3] * nn + a[4] = z[3] * nn + b[4]
  <2>1. work[a][i] = [batch |-> y[1], m |-> y[2] * mm + a[3], n |-> y[3] * nn + a[4]]
    BY <1>1, WorkFacts
  <2>2. work[b][k] = [batch |-> z[1], m |-> z[2] * mm + b[3], n |-> z[3] * nn + b[4]]
    BY <1>1, WorkFacts
  <2> HIDE DEF y, z
  <2> QED BY <2>1, <2>2, <1>1
<1>8. y = <<y[1], y[2], y[3]>> /\ z = <<z[1], z[2], z[3]>> /\ y[2] \in Nat /\ y[3] \in Nat /\ z[2] \in Nat /\ z[3] \in Nat
  <2>1. /\ y = <<y[1], y[2], y[3]>> /\ z = <<z[1], z[2], z[3]>> /\ y[1] \in Expert
        /\ y[2] \in 0 .. CeilDiv(MTilesOf(shape, a[1], y[1]), mm) - 1 /\ y[3] \in 0 .. CeilDiv(shape.nTiles, nn) - 1
        /\ z[2] \in 0 .. CeilDiv(MTilesOf(shape, a[1], z[1]), mm) - 1 /\ z[3] \in 0 .. CeilDiv(shape.nTiles, nn) - 1
    BY <1>2, <1>3, <1>6, ClusterTileFacts
  <2>2. /\ CeilDiv(MTilesOf(shape, a[1], y[1]), mm) \in Nat /\ CeilDiv(shape.nTiles, nn) \in Nat
        /\ z[1] = y[1]
    BY <1>2, <1>3, <1>4, <1>7, <2>1, ShapeFacts, Lanes
  <2> HIDE DEF y, z
  <2> QED BY <2>1, <2>2
<1> HIDE DEF y, z, mm, nn, s
<1>9. y[2] = z[2] /\ a[3] = b[3]
  <2>1. (mm * y[2] + a[3]) \div mm = y[2] /\ (mm * y[2] + a[3]) % mm = a[3]
    BY <1>3, <1>4, <1>8, DivUnique
  <2>2. (mm * z[2] + b[3]) \div mm = z[2] /\ (mm * z[2] + b[3]) % mm = b[3]
    BY <1>3, <1>4, <1>8, DivUnique
  <2>3. mm * y[2] = y[2] * mm /\ mm * z[2] = z[2] * mm
    BY <1>4, <1>8
  <2> QED BY <2>1, <2>2, <2>3, <1>7
<1>10. y[3] = z[3] /\ a[4] = b[4]
  <2>1. (nn * y[3] + a[4]) \div nn = y[3] /\ (nn * y[3] + a[4]) % nn = a[4]
    BY <1>3, <1>4, <1>8, DivUnique
  <2>2. (nn * z[3] + b[4]) \div nn = z[3] /\ (nn * z[3] + b[4]) % nn = b[4]
    BY <1>3, <1>4, <1>8, DivUnique
  <2>3. nn * y[3] = y[3] * nn /\ nn * z[3] = z[3] * nn
    BY <1>4, <1>8
  <2> QED BY <2>1, <2>2, <2>3, <1>7
<1>11. y = z
  BY <1>7, <1>8, <1>9, <1>10
<1>12. ClusterPlace(a, i) = ClusterPlace(b, k)
  BY <1>2, <1>3, <1>5, <1>11, ClusterLists DEF y, z, ClusterTile
<1>13. a[2] = b[2] /\ i = k
  <2>1. /\ i - 1 \in Nat /\ k - 1 \in Nat /\ a[2] - 1 \in 0 .. s - 1 /\ b[2] - 1 \in 0 .. s - 1
        /\ s * (i - 1) = (i - 1) * s /\ s * (k - 1) = (k - 1) * s /\ s * (i - 1) \in Nat /\ s * (k - 1) \in Nat
    BY <1>3, <1>4, <1>5
  <2>2. ClusterPlace(a, i) = a[2] + s * (i - 1) /\ ClusterPlace(b, k) = b[2] + s * (k - 1)
    BY <2>1 DEF ClusterPlace, s
  <2>3. /\ (s * (i - 1) + (a[2] - 1)) \div s = i - 1 /\ (s * (i - 1) + (a[2] - 1)) % s = a[2] - 1
    BY <1>4, <2>1, DivUnique
  <2>4. /\ (s * (k - 1) + (b[2] - 1)) \div s = k - 1 /\ (s * (k - 1) + (b[2] - 1)) % s = b[2] - 1
    BY <1>4, <2>1, DivUnique
  <2>5. s * (i - 1) + (a[2] - 1) = s * (k - 1) + (b[2] - 1)
    <3> DEFINE v == s * (i - 1)  w == s * (k - 1)
    <3>1. a[2] + v = b[2] + w /\ v \in Nat /\ w \in Nat
      BY <1>12, <2>1, <2>2
    <3> HIDE DEF v, w
    <3>2. v + (a[2] - 1) = w + (b[2] - 1)
      BY <3>1, <1>3
    <3> QED BY <3>2 DEF v, w
  <2>6. i - 1 = k - 1 /\ a[2] - 1 = b[2] - 1
    BY <2>3, <2>4, <2>5
  <2> QED BY <2>6, <1>3, <1>5
<1>14. a = b
  BY <1>3, <1>9, <1>10, <1>13
<1> QED BY <1>1, <1>13, <1>14

\* Each place of the output is some CTA's work tile.
LEMMA TilesCover ==
  ASSUME LaunchTables, NEW x \in Blocks, NEW n \in 0 .. NTiles - 1
  PROVE  \E t \in WorkTilesOf(x) : Tile(t).n = n
<1> DEFINE d == x[1]  b == x[2]  mm == shape.clM  nn == shape.clN  s == shape.clusters
           m == x[3]
<1>1. x = <<d, b, m>> /\ d \in Rank /\ b \in Expert /\ m \in 0 .. MTilesOf(shape, d, b) - 1 /\ shape \in Shapes
  BY BlockFacts DEF LaunchTables
<1> HIDE DEF d, b, m
<1>2. mm \in Nat \ {0} /\ nn \in Nat \ {0} /\ s \in Nat \ {0} /\ MTilesOf(shape, d, b) \in Nat /\ NTiles \in Nat
      /\ NTiles = shape.nTiles /\ m \in Nat /\ n \in Nat /\ TileM \in Nat \ {0}
      /\ SplitSize(shape.topk, d, b) \in Nat /\ Routed(shape.topk)
  <2>1. /\ mm \in Nat \ {0} /\ nn \in Nat \ {0} /\ s \in Nat \ {0} /\ shape.nTiles \in Nat
        /\ Routed(shape.topk)
    BY <1>1, ShapeFacts
  <2>2. MTilesOf(shape, d, b) \in Nat /\ SplitSize(shape.topk, d, b) \in Nat
    BY <1>1, ShapeFacts
  <2> HIDE DEF mm, nn, s
  <2>3. m \in Nat /\ m < MTilesOf(shape, d, b) /\ n \in Nat /\ n < NTiles /\ NTiles = shape.nTiles
    BY <1>1, <2>1, <2>2 DEF NTiles
  <2> QED BY <2>1, <2>2, <2>3, RoutingAssumption
<1>a. m < MTilesOf(shape, d, b) /\ n < NTiles
  BY <1>1, <1>2
<1> HIDE DEF mm, nn, s
<1>3. /\ m \div mm \in Nat /\ m % mm \in 0 .. mm - 1 /\ m = (m \div mm) * mm + (m % mm)
      /\ m \div mm < CeilDiv(MTilesOf(shape, d, b), mm) /\ CeilDiv(MTilesOf(shape, d, b), mm) \in Nat
  BY <1>2, <1>a, Lanes
<1>4. /\ n \div nn \in Nat /\ n % nn \in 0 .. nn - 1 /\ n = (n \div nn) * nn + (n % nn)
      /\ n \div nn < CeilDiv(NTiles, nn) /\ CeilDiv(NTiles, nn) \in Nat
  BY <1>2, <1>a, Lanes
<1> DEFINE z == <<b, m \div mm, n \div nn>>
           ts == ClusterTiles(shape, d)
<1>5. z \in ClusterTilesOf(shape, d)
  <2> DEFINE p == m \div mm  q == n \div nn  P == CeilDiv(MTilesOf(shape, d, b), mm)  Q == CeilDiv(NTiles, nn)
  <2>1. p \in 0 .. P - 1 /\ q \in 0 .. Q - 1
    <3> HIDE DEF p, q, P, Q, mm, nn
    <3> QED BY <1>3, <1>4 DEF p, q, P, Q
  <2>2. z[1] = b /\ z[2] = p /\ z[3] = q
    OBVIOUS
  <2> HIDE DEF p, q, z
  <2>3. z = <<z[1], z[2], z[3]>>
    BY DEF z
  <2> QED BY <1>1, <1>2, <2>1, <2>2, <2>3, ClusterTileFacts DEF P, Q, mm, nn
<1>6. PICK k \in DOMAIN ts : ts[k] = z
  BY <1>1, <1>5, ClusterLists
<1>7. DOMAIN ts = 1 .. Len(ts) /\ Len(ts) \in Nat
  BY <1>1, ClusterLists
<1>8. k \in Nat \ {0}
  BY <1>6, <1>7
<1> DEFINE i == ((k - 1) \div s) + 1
           c == <<d, ((k - 1) % s) + 1, m % mm, n % nn>>
<1>9. /\ (k - 1) \div s \in Nat /\ (k - 1) % s \in 0 .. s - 1
      /\ k - 1 = s * ((k - 1) \div s) + ((k - 1) % s)
  <2>1. k - 1 \in Nat
    BY <1>8
  <2> QED BY <1>2, <2>1, DivMod
<1>10. c \in Cta
  <2>1. SplitSize(shape.topk, d, b) > 0
    <3>1. 0 * TileM < SplitSize(shape.topk, d, b) <=> 0 < CeilDiv(SplitSize(shape.topk, d, b), TileM)
      BY <1>2, Lanes
    <3>2. 0 < MTilesOf(shape, d, b)
      BY <1>1, <1>2
    <3> QED BY <3>1, <3>2, <1>2 DEF MTilesOf
  <2>2. TotalRows(shape.topk, d) > 0
    <3> DEFINE cu(e) == CuSeqlens(shape.topk, d, e)
    <3>1. /\ cu(b) \in Nat /\ cu(EPR) \in Nat /\ cu(b + 1) \in Nat
          /\ cu(b + 1) = cu(b) + SplitSize(shape.topk, d, b) /\ cu(b + 1) <= cu(EPR)
      <4>1. b \in 0 .. EPR /\ EPR \in 0 .. EPR /\ b + 1 \in 0 .. EPR /\ b < EPR
        BY <1>1, RoutingAssumption DEF Expert
      <4> QED BY <1>1, <1>2, <4>1, Spans
    <3> HIDE DEF cu
    <3>2. cu(EPR) > 0
      BY <3>1, <2>1, <1>2
    <3> QED BY <3>2 DEF cu, TotalRows
  <2>3. c[1] = d /\ c[2] = ((k - 1) % s) + 1 /\ c[3] = m % mm /\ c[4] = n % nn /\ c = <<c[1], c[2], c[3], c[4]>>
    OBVIOUS
  <2> HIDE DEF c
  <2>4. c[2] \in 1 .. s
    <3> DEFINE w == (k - 1) % s
    <3> HIDE DEF w
    <3>1. w \in 0 .. s - 1 /\ c[2] = w + 1
      BY <1>9, <2>3 DEF w
    <3> QED BY <3>1, <1>2
  <2> QED BY <1>1, <1>3, <1>4, <2>2, <2>3, <2>4, CtaFacts DEF mm, nn, s
<1>11. c[1] = d /\ c[3] = m % mm /\ c[4] = n % nn
  OBVIOUS
<1>12. i \in Nat \ {0} /\ ClusterPlace(c, i) = k
  <2> DEFINE v == (k - 1) \div s  w == (k - 1) % s
  <2>1. c[2] = w + 1 /\ i = v + 1
    OBVIOUS
  <2> HIDE DEF v, w, c, i
  <2>2. v \in Nat /\ w \in 0 .. s - 1 /\ k - 1 = s * v + w
    BY <1>9 DEF v, w
  <2>3. i \in Nat \ {0} /\ i - 1 = v
    BY <2>1, <2>2
  <2>4. ClusterPlace(c, i) = (w + 1) + v * s
    BY <2>1, <2>3 DEF ClusterPlace, s
  <2>5. v * s = s * v /\ s * v \in Nat
    BY <1>2, <2>2
  <2> HIDE DEF s
  <2> DEFINE q == s * v
  <2> HIDE DEF q
  <2>6. k - 1 = q + w /\ ClusterPlace(c, i) = (w + 1) + q /\ q \in Nat
    BY <2>2, <2>4, <2>5 DEF q
  <2> QED BY <2>3, <2>6, <2>2, <1>8
<1> HIDE DEF c, i, ts, z
<1>13. i \in DOMAIN work[c] /\ ClusterTile(c, i) = z
  BY <1>6, <1>10, <1>11, <1>12, WorkFacts DEF ts, ClusterTile
<1>14. work[c][i] = [batch |-> b, m |-> m, n |-> n]
  <2>1. z[1] = b /\ z[2] = m \div mm /\ z[3] = n \div nn
    BY DEF z
  <2>2. work[c][i] = [batch |-> z[1], m |-> z[2] * mm + c[3], n |-> z[3] * nn + c[4]]
    BY <1>10, <1>13, WorkFacts DEF mm, nn
  <2> HIDE DEF mm, nn
  <2> QED BY <1>3, <1>4, <1>11, <2>1, <2>2
<1> DEFINE t == <<c, i>>
<1>15. t \in WorkTiles /\ Tile(t) = work[c][i]
  <2>1. t[1] = c /\ t[2] = i /\ t = <<t[1], t[2]>>
    OBVIOUS
  <2> HIDE DEF t
  <2> QED BY <1>10, <1>13, <2>1, WorkTileFacts DEF Tile
<1>16. t[1][1] = d
  BY <1>11
<1> HIDE DEF t
<1>17. Tile(t).batch = b /\ Tile(t).m = m /\ Tile(t).n = n
  BY <1>14, <1>15
<1>18. t \in WorkTilesOf(x)
  BY <1>1, <1>2, <1>15, <1>16, <1>17 DEF WorkTilesOf
<1> QED BY <1>17, <1>18

\* A row block has a tile for each n-tile, and what announces it counts on its flag.
LEMMA BlockTiles ==
  ASSUME LaunchTables, PullTables, NEW x \in Blocks
  PROVE  /\ x[1] \in Rank /\ DOMAIN tilesOf = Blocks
         /\ \A t \in tilesOf[x] :
              /\ t = <<t[1], t[2]>> /\ t[1] \in Cta /\ t[2] \in DOMAIN work[t[1]] /\ t[2] \in Nat \ {0}
              /\ t[1][1] = x[1] /\ FlagOf(t[1], Tile(t)) = Flag(x)
              /\ Tile(t).n \in 0 .. NTiles - 1 /\ InRange(t[1], Tile(t))
         /\ IsFiniteSet(tilesOf[x]) /\ Cardinality(tilesOf[x]) = NTiles
<1> DEFINE S == WorkTilesOf(x)
<1>1. DOMAIN tilesOf = Blocks /\ tilesOf[x] = S
  BY DEF PullTables
<1>2. x = <<x[1], x[2], x[3]>> /\ x[1] \in Rank
  BY BlockFacts
<1>3. NTiles \in Nat
  BY ShapeFacts DEF LaunchTables, NTiles
<1>4. ASSUME NEW t \in S
      PROVE  /\ t = <<t[1], t[2]>> /\ t[1] \in Cta /\ t[2] \in DOMAIN work[t[1]] /\ t[2] \in Nat \ {0}
             /\ t[1][1] = x[1] /\ Tile(t).batch = x[2] /\ Tile(t).m = x[3]
             /\ FlagOf(t[1], Tile(t)) = Flag(x)
             /\ Tile(t).n \in 0 .. NTiles - 1 /\ t \in WorkTiles /\ InRange(t[1], Tile(t))
  <2>1. t \in WorkTiles /\ <<t[1][1], Tile(t).batch, Tile(t).m>> = x /\ Tile(t).n < NTiles
    BY DEF WorkTilesOf
  <2>2. t = <<t[1], t[2]>> /\ t[1] \in Cta /\ t[2] \in DOMAIN work[t[1]]
    BY <2>1, WorkTileFacts
  <2>3. t[2] \in Nat \ {0} /\ Tile(t).n \in Nat
    BY <2>2, TileFacts DEF Tile
  <2>4. t[1][1] = x[1] /\ Tile(t).batch = x[2] /\ Tile(t).m = x[3]
    BY <2>1
  <2>5. FlagOf(t[1], Tile(t)) = Flag(x)
    BY <2>4 DEF FlagOf, Flag
  <2>6. InRange(t[1], Tile(t))
    <3>1. x[3] \in 0 .. MTilesOf(shape, x[1], x[2]) - 1 /\ MTilesOf(shape, x[1], x[2]) \in Nat
      BY BlockFacts, ShapeFacts DEF LaunchTables
    <3>2. InRange(t[1], Tile(t)) <=>
            Tile(t).m < MTilesOf(shape, t[1][1], Tile(t).batch) /\ Tile(t).n < NTiles
      BY <2>2, TileFacts DEF Tile
    <3> QED BY <3>1, <3>2, <2>1, <2>4
  <2> QED BY <2>1, <2>2, <2>3, <2>4, <2>5, <2>6, <1>3
<1> DEFINE f == [t \in S |-> Tile(t).n]
<1>5. f \in [S -> 0 .. NTiles - 1]
  <2> HIDE DEF S
  <2> QED BY <1>4
<1>6. \A t, u \in S : f[t] = f[u] => t = u
  <2> SUFFICES ASSUME NEW t \in S, NEW u \in S, Tile(t).n = Tile(u).n PROVE t = u
    OBVIOUS
  <2> HIDE DEF S
  <2> QED BY <1>4, TilesDiffer
<1>7. \A n \in 0 .. NTiles - 1 : \E t \in S : f[t] = n
  <2> SUFFICES ASSUME NEW n \in 0 .. NTiles - 1 PROVE \E t \in S : f[t] = n
    OBVIOUS
  <2>1. PICK t \in S : Tile(t).n = n
    BY TilesCover
  <2> HIDE DEF S
  <2> QED BY <2>1
<1>8. IsFiniteSet(S) /\ Cardinality(S) = NTiles
  <2> HIDE DEF f, S
  <2>1. IsFiniteSet(0 .. NTiles - 1) /\ Cardinality(0 .. NTiles - 1) = NTiles
    BY <1>3, FromZero
  <2> QED BY <1>5, <1>6, <1>7, <2>1, Paired
<1> HIDE DEF S
<1> QED BY <1>1, <1>2, <1>4, <1>8

\* What a CTA announces is a tile of a row block.
LEMMA InBlock ==
  ASSUME LaunchTables, PullTables, NEW c \in Cta, NEW i \in DOMAIN work[c], InRange(c, work[c][i])
  PROVE  \E x \in Blocks : x[1] = c[1] /\ <<c, i>> \in tilesOf[x] /\ Flag(x) = FlagOf(c, work[c][i])
<1> DEFINE t == <<c, i>>
           b == work[c][i].batch  m == work[c][i].m
           x == <<c[1], b, m>>
<1>1. /\ b \in Expert /\ m \in Nat /\ m < MTilesOf(shape, c[1], b)
      /\ work[c][i].n < NTiles
  BY TileFacts
<1>2. c[1] \in Rank /\ shape \in Shapes
  BY CtaFacts
<1>3. MTilesOf(shape, c[1], b) \in Nat
  BY <1>1, <1>2, ShapeFacts
<1>4. x[1] = c[1] /\ x[2] = b /\ x[3] = m
  OBVIOUS
<1>5. x \in Blocks
  <2> HIDE DEF b, m
  <2> QED BY <1>1, <1>2, <1>3, <1>4, BlockFacts
<1>6. t \in WorkTiles /\ Tile(t) = work[c][i] /\ t[1] = c /\ t[2] = i
  BY WorkTileFacts DEF Tile
<1>7. t \in WorkTilesOf(x)
  <2> HIDE DEF t
  <2> QED BY <1>1, <1>6 DEF WorkTilesOf
<1>8. tilesOf[x] = WorkTilesOf(x)
  <2> HIDE DEF x
  <2> QED BY <1>5 DEF PullTables
<1>9. Flag(x) = FlagOf(c, work[c][i])
  BY <1>4 DEF Flag, FlagOf
<1> QED BY <1>4, <1>5, <1>7, <1>8, <1>9

\* The ranks' offsets cut the flag array into batches and row blocks.
LEMMA FlagFacts ==
  ASSUME LaunchTables
  PROVE  /\ TotalFlags \in Nat
         /\ \A x \in Blocks :
              /\ Flag(x) = RankTileBase(shape.topk, x[1]) + TileOffset(shape.topk, x[1], x[2]) + x[3]
              /\ Flag(x) \in 0 .. TotalFlags - 1
         /\ \A x, y \in Blocks : Flag(x) = Flag(y) => x = y
         /\ \A f \in 0 .. TotalFlags - 1 : \E x \in Blocks : Flag(x) = f
<1> DEFINE t == shape.topk
           base(d) == RankTileBase(t, d)
           off(d, e) == TileOffset(t, d, e)
           M(d, e) == MTilesOf(shape, d, e)
<1>1. shape \in Shapes /\ TotalFlags = TotalTiles(t) /\ Routed(t) /\ TotalTiles(t) \in Nat
  <2>1. shape \in Shapes /\ TotalFlags = TotalTiles(t)
    BY DEF LaunchTables, TotalFlags
  <2>2. Routed(t)
    BY <2>1, ShapeFacts
  <2>3. 0 \in Rank
    BY RoutingAssumption DEF Rank
  <2>4. TotalTiles(t) \in Nat
    BY <2>2, <2>3, Offsets
  <2> QED BY <2>1, <2>2, <2>4
<1>2. \A d \in Rank : /\ base(d) \in Nat /\ base(d) + off(d, EPR) <= TotalFlags
                      /\ \A u \in Rank : d < u => base(d) + off(d, EPR) <= base(u)
                      /\ \A e \in 0 .. EPR : off(d, e) \in Nat
                      /\ \A e \in Expert, x \in 0 .. EPR : e < x => off(d, e) + M(d, e) <= off(d, x)
                      /\ \A e \in Expert : M(d, e) \in Nat
  <2> SUFFICES ASSUME NEW d \in Rank
               PROVE  /\ base(d) \in Nat /\ base(d) + off(d, EPR) <= TotalFlags
                      /\ \A u \in Rank : d < u => base(d) + off(d, EPR) <= base(u)
                      /\ \A e \in 0 .. EPR : off(d, e) \in Nat
                      /\ \A e \in Expert, x \in 0 .. EPR : e < x => off(d, e) + M(d, e) <= off(d, x)
                      /\ \A e \in Expert : M(d, e) \in Nat
    OBVIOUS
  <2>1. \A e \in Expert : M(d, e) = CeilDiv(SplitSize(t, d, e), TileM)
    BY DEF MTilesOf
  <2>2. \A e \in Expert : M(d, e) \in Nat
    BY <1>1, ShapeFacts
  <2> QED BY <1>1, <2>1, <2>2, Offsets
<1>3. W \in Nat /\ EPR \in Nat \ {0} /\ Rank = 0 .. W - 1 /\ Expert = 0 .. EPR - 1
  BY RoutingAssumption DEF Rank, Expert
<1> HIDE DEF base, off, M
<1>4. ASSUME NEW x \in Blocks
      PROVE  /\ x = <<x[1], x[2], x[3]>> /\ x[1] \in Rank /\ x[2] \in Expert
             /\ x[3] \in 0 .. M(x[1], x[2]) - 1
             /\ Flag(x) = base(x[1]) + off(x[1], x[2]) + x[3]
  <2>1. /\ x = <<x[1], x[2], x[3]>> /\ x[1] \in Rank /\ x[2] \in Expert
        /\ x[3] \in 0 .. M(x[1], x[2]) - 1
    BY BlockFacts DEF M
  <2>2. offset[x[1]][x[2]] = base(x[1]) + off(x[1], x[2])
    BY <2>1 DEF LaunchTables, OffsetsOf, base, off
  <2> QED BY <2>1, <2>2 DEF Flag
<1>5. ASSUME NEW x \in Blocks
      PROVE  /\ base(x[1]) + off(x[1], x[2]) <= Flag(x) /\ Flag(x) < base(x[1]) + off(x[1], x[2]) + M(x[1], x[2])
             /\ base(x[1]) <= Flag(x) /\ Flag(x) < base(x[1]) + off(x[1], EPR) /\ Flag(x) \in 0 .. TotalFlags - 1
  <2> DEFINE d == x[1]  e == x[2]  m == x[3]
  <2>1. d \in Rank /\ e \in Expert /\ m \in 0 .. M(d, e) - 1 /\ Flag(x) = base(d) + off(d, e) + m
    BY <1>4
  <2> HIDE DEF d, e, m
  <2>2. e \in 0 .. EPR /\ EPR \in 0 .. EPR /\ e < EPR
    BY <2>1, <1>3
  <2>3. /\ base(d) \in Nat /\ off(d, e) \in Nat /\ off(d, EPR) \in Nat /\ M(d, e) \in Nat
        /\ off(d, e) + M(d, e) <= off(d, EPR) /\ base(d) + off(d, EPR) <= TotalFlags
    BY <2>1, <2>2, <1>2
  <2>4. /\ base(d) + off(d, e) <= Flag(x) /\ Flag(x) < base(d) + off(d, e) + M(d, e)
        /\ base(d) <= Flag(x) /\ Flag(x) < base(d) + off(d, EPR) /\ Flag(x) \in 0 .. TotalFlags - 1
    BY <1>1, <2>1, <2>3
  <2> QED BY <2>4 DEF d, e
<1>6. ASSUME NEW x \in Blocks, NEW y \in Blocks, Flag(x) = Flag(y) PROVE x = y
  <2> DEFINE d == x[1]  e == x[2]  h == y[1]  g == y[2]
  <2>1. d \in Rank /\ e \in Expert /\ h \in Rank /\ g \in Expert /\ Flag(x) \in Nat
    BY <1>1, <1>4, <1>5
  <2>2. /\ base(d) <= Flag(x) /\ Flag(x) < base(d) + off(d, EPR)
        /\ base(h) <= Flag(x) /\ Flag(x) < base(h) + off(h, EPR)
    BY <1>5, <1>6
  <2>3. /\ base(d) + off(d, e) <= Flag(x) /\ Flag(x) < base(d) + off(d, e) + M(d, e)
        /\ base(h) + off(h, g) <= Flag(x) /\ Flag(x) < base(h) + off(h, g) + M(h, g)
    BY <1>5, <1>6
  <2>4. Flag(x) = base(d) + off(d, e) + x[3] /\ Flag(x) = base(h) + off(h, g) + y[3]
        /\ x = <<d, e, x[3]>> /\ y = <<h, g, y[3]>> /\ x[3] \in Int /\ y[3] \in Int
    BY <1>4, <1>6
  <2> HIDE DEF d, e, h, g
  <2>5. EPR \in 0 .. EPR /\ e \in 0 .. EPR /\ g \in 0 .. EPR /\ d \in Nat /\ h \in Nat /\ e \in Nat /\ g \in Nat
    BY <2>1, <1>3
  <2>6. base(d) \in Nat /\ base(h) \in Nat /\ off(d, EPR) \in Nat /\ off(h, EPR) \in Nat
    BY <2>1, <2>5, <1>2
  <2>7. d = h
    <3>1. ASSUME d < h PROVE FALSE
      <4>1. base(d) + off(d, EPR) <= base(h)
        BY <3>1, <2>1, <1>2
      <4> QED BY <4>1, <2>1, <2>2, <2>6
    <3>2. ASSUME h < d PROVE FALSE
      <4>1. base(h) + off(h, EPR) <= base(d)
        BY <3>2, <2>1, <1>2
      <4> QED BY <4>1, <2>1, <2>2, <2>6
    <3> QED BY <3>1, <3>2, <2>5
  <2>8. off(d, e) \in Nat /\ off(d, g) \in Nat /\ M(d, e) \in Nat /\ M(d, g) \in Nat
    BY <2>1, <2>5, <1>2
  <2>9. e = g
    <3>1. ASSUME e < g PROVE FALSE
      <4>1. off(d, e) + M(d, e) <= off(d, g)
        BY <3>1, <2>1, <2>5, <1>2
      <4> QED BY <4>1, <2>1, <2>3, <2>6, <2>7, <2>8
    <3>2. ASSUME g < e PROVE FALSE
      <4>1. off(d, g) + M(d, g) <= off(d, e)
        BY <3>2, <2>1, <2>5, <1>2
      <4> QED BY <4>1, <2>1, <2>3, <2>6, <2>7, <2>8
    <3> QED BY <3>1, <3>2, <2>5
  <2>10. x[3] = y[3]
    BY <2>4, <2>6, <2>7, <2>8, <2>9
  <2> QED BY <2>4, <2>7, <2>9, <2>10
<1>7. ASSUME NEW f \in 0 .. TotalFlags - 1 PROVE \E x \in Blocks : Flag(x) = f
  <2> DEFINE tiles == [u \in Rank |-> TileOffset(t, u, EPR)]
  <2>1. EPR \in 0 .. EPR /\ W \in 0 .. W
    BY <1>3
  <2>2. \A k \in 0 .. W - 1 : tiles[k] = off(k, EPR) /\ tiles[k] \in Nat
    BY <2>1, <1>2, <1>3 DEF off
  <2>3. \A k : SumBelow(tiles, k) = base(k)
    BY DEF base, RankTileBase
  <2>4. SumBelow(tiles, W) = TotalFlags
    BY <1>1 DEF TotalTiles
  <2> HIDE DEF tiles
  <2>5. f \in Nat /\ f < TotalFlags
    BY <1>1
  <2>6. PICK d \in 0 .. W - 1 : base(d) <= f /\ f < base(d) + off(d, EPR)
    BY <1>3, <2>2, <2>3, <2>4, <2>5, SumLocates
  <2> DEFINE mt == [u \in Expert |-> CeilDiv(SplitSize(t, d, u), TileM)]
  <2>7. d \in Rank /\ base(d) \in Nat /\ off(d, EPR) \in Nat
    BY <1>2, <1>3, <2>1
  <2>8. \A k \in 0 .. EPR - 1 : mt[k] = M(d, k) /\ mt[k] \in Nat
    <3>1. \A k \in Expert : mt[k] = M(d, k)
      BY DEF M, MTilesOf
    <3> HIDE DEF mt
    <3> QED BY <3>1, <1>2, <1>3, <2>7
  <2>9. \A k : SumBelow(mt, k) = off(d, k)
    BY DEF off, TileOffset
  <2> HIDE DEF mt
  <2>10. f - base(d) \in Nat /\ f - base(d) < off(d, EPR)
    BY <2>5, <2>6, <2>7
  <2>11. PICK e \in 0 .. EPR - 1 : off(d, e) <= f - base(d) /\ f - base(d) < off(d, e) + M(d, e)
    BY <1>3, <2>8, <2>9, <2>10, SumLocates
  <2> DEFINE m == f - base(d) - off(d, e)
             x == <<d, e, m>>
  <2>12. e \in Expert /\ e \in 0 .. EPR /\ off(d, e) \in Nat /\ M(d, e) \in Nat
    BY <1>2, <1>3, <2>7
  <2>13. m \in 0 .. M(d, e) - 1 /\ base(d) + off(d, e) + m = f
    BY <2>5, <2>7, <2>11, <2>12
  <2>14. x[1] = d /\ x[2] = e /\ x[3] = m
    OBVIOUS
  <2> HIDE DEF m
  <2>15. x \in Blocks
    BY <2>7, <2>12, <2>13, <2>14, BlockFacts DEF M
  <2> HIDE DEF x
  <2>16. Flag(x) = f
    BY <1>4, <2>13, <2>14, <2>15
  <2> QED BY <2>15, <2>16
<1> QED BY <1>1, <1>4, <1>5, <1>6, <1>7 DEF base, off

-----------------------------------------------------------------------------
(* What a combine pulls and waits for.                                      *)

\* A choice's row lies in a row block, on whose flag its gate waits.
LEMMA Gates ==
  ASSUME LaunchTables, PullTables, NEW r \in Rank
  PROVE  /\ DOMAIN block[r] = DOMAIN shape.topk[r]
         /\ \A j \in DOMAIN shape.topk[r] : block[r][j] \in Blocks /\ gateIdx[r][j] = Flag(block[r][j])
<1> DEFINE t == shape.topk
<1>1. shape \in Shapes /\ Routed(t)
  BY ShapeFacts DEF LaunchTables
<1>2. DOMAIN block[r] = DOMAIN t[r]
  BY DEF PullTables
<1>3. ASSUME NEW j \in DOMAIN t[r] PROVE block[r][j] \in Blocks /\ gateIdx[r][j] = Flag(block[r][j])
  <2> DEFINE x == <<r, j>>
             g == t[r][j]
             d == DstOf(g)
             e == LocalOf(g)
             s == Slot(t, r, j)
             m == (s - CuSeqlens(t, d, e)) \div TileM
             y == <<d, e, m>>
  <2>1. x \in Chosen(t) /\ ExpertOf(t, x) = g /\ SlotAt(t, x) = s
    <3>1. x[1] = r /\ x[2] = j /\ x = <<x[1], x[2]>>
      OBVIOUS
    <3> HIDE DEF x
    <3> QED BY <1>1, <3>1, ChosenFacts DEF ExpertOf, SlotAt
  <2>2. g \in Global
    <3> HIDE DEF g, x
    <3> QED BY <1>1, <2>1, ChosenFacts
  <2>3. d \in Rank /\ e \in Expert
    BY <2>2, ExpertEncodes
  <2>4. s \in CuSeqlens(t, d, e) .. CuSeqlens(t, d, e + 1) - 1
    BY <1>1, <2>1, SlotInSpan
  <2>5. block[r][j] = y /\ gateIdx[r][j] = RankTileBase(t, d) + TileOffset(t, d, e) + m
    BY DEF PullTables, BlockOf, CombineFlag
  <2>6. y[1] = d /\ y[2] = e /\ y[3] = m
    OBVIOUS
  <2> HIDE DEF s, d, e, g, x
  <2> DEFINE cu == CuSeqlens(t, d, e)  cv == CuSeqlens(t, d, e + 1)  v == s - cu
  <2>7. /\ cu \in Nat /\ SplitSize(t, d, e) \in Nat /\ cv = cu + SplitSize(t, d, e)
        /\ MTilesOf(shape, d, e) \in Nat /\ TileM \in Nat \ {0}
    <3>1. e \in 0 .. EPR
      BY <2>3, RoutingAssumption DEF Expert
    <3> QED BY <1>1, <2>3, <3>1, Spans, ShapeFacts, RoutingAssumption
  <2>8. v \in Nat /\ v < SplitSize(t, d, e)
    <3>1. s \in cu .. cv - 1
      BY <2>4
    <3> HIDE DEF cu, cv
    <3> QED BY <3>1, <2>7
  <2> HIDE DEF v
  <2>9. v \div TileM \in Nat /\ v \div TileM < MTilesOf(shape, d, e)
    BY <2>7, <2>8, Lanes DEF MTilesOf
  <2>10. m = v \div TileM
    BY DEF v
  <2> HIDE DEF m
  <2>11. m \in 0 .. MTilesOf(shape, d, e) - 1
    BY <2>7, <2>9, <2>10
  <2> HIDE DEF y
  <2>12. y \in Blocks
    <3>1. y = <<y[1], y[2], y[3]>>
      BY <2>6 DEF y
    <3> QED BY <2>3, <2>6, <2>11, <3>1, BlockFacts
  <2>13. Flag(y) = RankTileBase(t, d) + TileOffset(t, d, e) + m
    BY <2>6, <2>12, FlagFacts
  <2> QED BY <2>5, <2>12, <2>13
<1> QED BY <1>2, <1>3

LEMMA ItemChoice ==
  ASSUME LaunchTables, NEW k \in Combiner, NEW g \in Nat, NEW a \in 0 .. TopK - 1
  PROVE  ChoiceOf(k, g * ItemsPerToken + a) = ((k - 1) + shape.ctas * g) * TopK + a + 1
<1> DEFINE n == ItemsPerToken  c == shape.chunks  i == g * n + a
<1>1. c \in Nat \ {0} /\ n = c * TopK /\ TopK \in Nat \ {0} /\ shape.ctas \in Nat
  BY ShapeFacts, RoutingAssumption DEF LaunchTables, ItemsPerToken
<1> HIDE DEF n, c
<1>2. n \in Nat \ {0} /\ TopK <= n
  BY <1>1
<1>3. a \in 0 .. n - 1
  BY <1>1, <1>2
<1>4. i \div n = g
  <2>1. g * n = n * g
    BY <1>2
  <2>2. (n * g + a) \div n = g
    BY <1>2, <1>3, DivUnique
  <2> QED BY <2>1, <2>2
<1>5. i % TopK = a
  <2>1. g * n = TopK * (g * c) /\ g * c \in Nat
    <3>1. g * (c * TopK) = (g * c) * TopK /\ g * c \in Nat
      BY <1>1
    <3> DEFINE v == g * c
    <3> HIDE DEF v
    <3>2. v * TopK = TopK * v
      BY <1>1, <3>1 DEF v
    <3> QED BY <1>1, <3>1, <3>2 DEF v
  <2>2. (TopK * (g * c) + a) % TopK = a
    BY <1>1, <2>1, DivUnique
  <2> QED BY <2>1, <2>2
<1> HIDE DEF i
<1>6. ChoiceOf(k, i) = ((k - 1) + shape.ctas * g) * TopK + a + 1
  <2>1. TokenOf(k, i) = (k - 1) + shape.ctas * g
    BY <1>4 DEF TokenOf, n
  <2> QED BY <1>5, <2>1 DEF ChoiceOf
<1> QED BY <1>6 DEF i, n

\* An item's choice is among those that its token's gate waits for.
LEMMA ItemParts ==
  ASSUME LaunchTables, NEW k \in Combiner, NEW G \in Nat, NEW i \in Nat, i < G * ItemsPerToken
  PROVE  \E g \in 0 .. G - 1, a \in 0 .. TopK - 1 : ChoiceOf(k, i) = ChoiceOf(k, g * ItemsPerToken + a)
<1> DEFINE n == ItemsPerToken  g == i \div n  a == i % TopK
<1>1. n \in Nat \ {0} /\ TopK \in Nat \ {0} /\ shape.ctas \in Nat
  <2>1. shape.chunks \in Nat \ {0} /\ TopK \in Nat \ {0} /\ shape.ctas \in Nat
    BY ShapeFacts, RoutingAssumption DEF LaunchTables
  <2> QED BY <2>1 DEF ItemsPerToken
<1>2. g \in Nat /\ i % n \in 0 .. n - 1 /\ i = n * g + (i % n)
  <2> HIDE DEF n
  <2> QED BY <1>1, DivMod
<1>3. a \in 0 .. TopK - 1
  BY <1>1, DivMod
<1>4. g < G
  <2> DEFINE s == i % n
  <2> HIDE DEF s, g, n
  <2>1. s \in Nat /\ i = n * g + s /\ i < G * n
    BY <1>1, <1>2 DEF s, n
  <2>2. SUFFICES ASSUME G <= g PROVE FALSE
    BY <1>2
  <2>3. n * G <= n * g /\ G * n = n * G /\ n * g \in Nat /\ n * G \in Nat
    BY <1>1, <1>2, <2>2
  <2> QED BY <2>1, <2>3
<1>5. ChoiceOf(k, i) = ((k - 1) + shape.ctas * g) * TopK + a + 1
  BY DEF ChoiceOf, TokenOf
<1>6. ChoiceOf(k, g * ItemsPerToken + a) = ((k - 1) + shape.ctas * g) * TopK + a + 1
  <2> HIDE DEF g, a
  <2> QED BY <1>2, <1>3, ItemChoice
<1> HIDE DEF g, a
<1> QED BY <1>2, <1>3, <1>4, <1>5, <1>6

\* The choices of a CTA's tokens are the rank's, and each one is some CTA's.
LEMMA Choices ==
  ASSUME LaunchTables, NEW r \in Rank
  PROVE  /\ ItemsPerToken \in Nat \ {0}
         /\ \A k \in Combiner : TokensOf(r, k) \in Nat
         /\ ~shape.pulls => \A k \in Combiner : TokensOf(r, k) = 0
         /\ \A k \in Combiner : \A g \in 0 .. TokensOf(r, k) - 1, a \in 0 .. TopK - 1 :
              ChoiceOf(k, g * ItemsPerToken + a) \in DOMAIN shape.topk[r]
         /\ shape.pulls => \A j \in DOMAIN shape.topk[r] :
              \E k \in Combiner : \E g \in 0 .. TokensOf(r, k) - 1, a \in 0 .. TopK - 1 :
                ChoiceOf(k, g * ItemsPerToken + a) = j
<1> DEFINE c == shape.ctas  L == Len(shape.topk[r])  n == L \div TopK  T(k) == TokensOf(r, k)
<1>1. /\ shape \in Shapes /\ c \in Nat \ {0} /\ shape.chunks \in Nat \ {0} /\ TopK \in Nat \ {0}
      /\ L \in Nat /\ DOMAIN shape.topk[r] = 1 .. L /\ L % TopK = 0 /\ shape.pulls \in BOOLEAN
  BY ShapeFacts, RoutingAssumption DEF LaunchTables
<1>2. ItemsPerToken \in Nat \ {0}
  BY <1>1 DEF ItemsPerToken
<1> HIDE DEF L
<1>3. n \in Nat /\ L = TopK * n
  <2>1. n \in Nat /\ L = TopK * n + (L % TopK)
    BY <1>1, DivMod
  <2> HIDE DEF n
  <2> QED BY <1>1, <2>1
<1> HIDE DEF n
<1>4. ASSUME NEW k \in Combiner
      PROVE  /\ k - 1 \in 0 .. c - 1 /\ T(k) \in Nat /\ (~shape.pulls => T(k) = 0)
             /\ shape.pulls => \A g \in Nat : g < T(k) <=> (k - 1) + c * g < n
  <2>1. k - 1 \in 0 .. c - 1
    BY <1>1 DEF Combiner
  <2>2. T(k) = IF shape.pulls THEN Share(n, k - 1, c) ELSE 0
    BY DEF TokensOf, n, L
  <2> HIDE DEF T, c
  <2> DEFINE b == k - 1
             S == Share(n, b, c)
  <2>3. T(k) = IF shape.pulls THEN S ELSE 0
    BY <2>2
  <2> HIDE DEF b
  <2>4. S \in Nat /\ \A g \in Nat : g < S <=> b + c * g < n
    BY <1>1, <1>3, <2>1, Shares DEF b
  <2> HIDE DEF S
  <2>5. T(k) \in Nat /\ (~shape.pulls => T(k) = 0) /\ (shape.pulls => T(k) = S)
    BY <1>1, <2>3, <2>4
  <2> QED BY <2>1, <2>4, <2>5 DEF b
<1> HIDE DEF T, c
<1>5. ASSUME NEW k \in Combiner, NEW g \in 0 .. T(k) - 1, NEW a \in 0 .. TopK - 1
      PROVE  ChoiceOf(k, g * ItemsPerToken + a) \in DOMAIN shape.topk[r]
  <2>1. g \in Nat /\ g < T(k) /\ shape.pulls
    BY <1>1, <1>4, <1>5
  <2> DEFINE v == (k - 1) + c * g
  <2>2. ChoiceOf(k, g * ItemsPerToken + a) = v * TopK + a + 1
    BY <2>1, ItemChoice DEF c
  <2>3. v < n
    BY <1>4, <2>1
  <2>4. v \in Nat
    <3>1. c * g \in Nat /\ k - 1 \in Nat
      BY <1>1, <1>4, <2>1
    <3> QED BY <3>1
  <2> HIDE DEF v
  <2>5. TopK * (v + 1) <= TopK * n /\ TopK * (v + 1) = TopK * v + TopK /\ v * TopK = TopK * v /\ TopK * v \in Nat
    BY <1>1, <1>3, <2>3, <2>4
  <2>6. v * TopK + a + 1 \in 1 .. L
    BY <1>1, <1>3, <2>5
  <2> QED BY <1>1, <2>2, <2>6
<1>6. ASSUME shape.pulls, NEW j \in DOMAIN shape.topk[r]
      PROVE  \E k \in Combiner : \E g \in 0 .. T(k) - 1, a \in 0 .. TopK - 1 :
               ChoiceOf(k, g * ItemsPerToken + a) = j
  <2> DEFINE u == j - 1  v == u \div TopK  a == u % TopK  k == (v % c) + 1  g == v \div c
  <2>1. u \in Nat /\ u < L /\ j = u + 1
    BY <1>1, <1>6
  <2> HIDE DEF u
  <2>2. v \in Nat /\ a \in 0 .. TopK - 1 /\ u = TopK * v + a
    BY <1>1, <2>1, DivMod
  <2> HIDE DEF v, a
  <2>3. v < n
    <3>1. SUFFICES ASSUME n <= v PROVE FALSE
      BY <1>3, <2>2
    <3>2. TopK * n <= TopK * v /\ TopK * v \in Nat
      BY <1>1, <1>3, <2>2, <3>1
    <3> QED BY <1>3, <2>1, <2>2, <3>2
  <2>4. g \in Nat /\ v % c \in 0 .. c - 1 /\ v = c * g + (v % c)
    BY <1>1, <2>2, DivMod
  <2> DEFINE w == v % c
  <2> HIDE DEF g, w
  <2>5. w \in 0 .. c - 1 /\ v = c * g + w /\ k = w + 1 /\ c * g \in Nat
    BY <1>1, <2>4 DEF w
  <2> HIDE DEF k
  <2>6. k \in Combiner /\ v = (k - 1) + c * g
    <3> DEFINE z == c * g
    <3> HIDE DEF z
    <3>1. v = z + w /\ z \in Nat
      BY <2>5 DEF z
    <3>2. v = (k - 1) + z
      BY <3>1, <2>5
    <3> QED BY <1>1, <2>5, <3>2 DEF z, Combiner, c
  <2>7. g \in 0 .. T(k) - 1
    <3>1. g < T(k)
      BY <1>4, <1>6, <2>3, <2>4, <2>6
    <3> QED BY <1>4, <2>4, <2>6, <3>1
  <2>8. ChoiceOf(k, g * ItemsPerToken + a) = v * TopK + a + 1
    BY <2>2, <2>4, <2>6, ItemChoice DEF c
  <2>9. v * TopK = TopK * v /\ TopK * v \in Nat
    BY <1>1, <2>2
  <2>10. v * TopK + a + 1 = j
    BY <1>1, <2>1, <2>2, <2>9
  <2> QED BY <2>2, <2>6, <2>7, <2>8, <2>10
<1> QED BY <1>2, <1>4, <1>5, <1>6 DEF T

\* Items that share a stage are a ring apart.
LEMMA Apart ==
  ASSUME NEW m \in Nat \ {0}, NEW i \in Nat, NEW k \in Nat, i % m = k % m, i < k
  PROVE  i + m <= k
<1> DEFINE p == i \div m  q == k \div m  s == i % m
<1>1. p \in Nat /\ q \in Nat /\ s \in 0 .. m - 1 /\ i = m * p + s /\ k = m * q + s
  BY DivMod
<1> HIDE DEF p, q, s
<1>2. m * p \in Nat /\ m * q \in Nat
  BY <1>1
<1>3. p < q
  <2>1. SUFFICES ASSUME q <= p PROVE FALSE
    BY <1>1
  <2>2. m * q <= m * p
    BY <1>1, <2>1
  <2> QED BY <1>1, <1>2, <2>2
<1>4. m * (p + 1) <= m * q /\ m * (p + 1) = m * p + m
  BY <1>1, <1>3
<1> QED BY <1>1, <1>2, <1>4

-----------------------------------------------------------------------------
(* Type correctness.                                                        *)

Constant == UNCHANGED <<launchVars, tables>>

\* No step touches the tables.
LEMMA StepConstant == CombineNext => Constant
<1> SUFFICES ASSUME CombineNext PROVE Constant
  OBVIOUS
<1>1. ASSUME NEW c \in AnyCta, GemmStep(c) PROVE Constant
  <2>1. UNCHANGED hostVars /\ (StoreGroup(c) \/ EndTile(c) \/ PublishTo(c) \/ FinishLoop(c))
    BY <1>1 DEF GemmStep, CtaStep
  <2>2. UNCHANGED launchVars
    BY <2>1 DEF StoreGroup, EndTile, PublishTo, FinishLoop
  <2> QED BY <2>1, <2>2 DEF Constant, hostVars
<1>2. ASSUME NEW c \in AnyCta, StoreStep(c) PROVE Constant
  BY <1>2 DEF StoreStep, SomeGroupCompletes, GroupCompletes, Constant, hostVars
<1>3. ASSUME NEW r \in Rank, HostStep(r) PROVE Constant
  <2>1. CASE Reset(r)
    BY <2>1 DEF Reset, Constant
  <2>2. CASE Launch(r)
    BY <2>2 DEF Launch, Constant
  <2>3. CASE Synchronize(r)
    BY <2>3 DEF Synchronize, Constant, vars
  <2> QED BY <1>3, <2>1, <2>2, <2>3 DEF HostStep
<1>4. ASSUME NEW r \in Rank, NEW k \in AnyCombiner, ProducerStep(r, k) PROVE Constant
  <2>1. CASE PassGate(r, k)
    BY <2>1 DEF PassGate, Constant, vars, hostVars
  <2>2. CASE Pull(r, k)
    BY <2>2 DEF Pull, Constant, vars, hostVars
  <2> QED BY <1>4, <2>1, <2>2 DEF ProducerStep
<1>5. ASSUME NEW r \in Rank, NEW k \in AnyCombiner, PullStep(r, k) PROVE Constant
  BY <1>5 DEF PullStep, PullLands, Constant, vars, hostVars
<1>6. ASSUME NEW r \in Rank, NEW k \in AnyCombiner, NEW t \in AnyConsumer, ConsumerStep(r, k, t) PROVE Constant
  BY <1>6 DEF ConsumerStep, Accumulate, Constant, vars, hostVars
<1> QED BY <1>1, <1>2, <1>3, <1>4, <1>5, <1>6 DEF CombineNext

Tables == LaunchTables /\ PullTables

LEMMA TablesStay == Tables /\ Constant => Tables'
<1> SUFFICES ASSUME Tables, Constant PROVE Tables'
  OBVIOUS
<1>1. shape' = shape /\ offset' = offset /\ total' = total /\ work' = work /\ rows' = rows
      /\ gateIdx' = gateIdx /\ block' = block /\ tilesOf' = tilesOf
  BY DEF Constant, launchVars, tables
<1>2. LaunchTables'
  BY <1>1 DEF Tables, LaunchTables
<1>3. (\A r \in Rank : \A j : BlockOf(r, j)' = BlockOf(r, j)) /\ Blocks' = Blocks /\ \A x : WorkTilesOf(x)' = WorkTilesOf(x)
  BY <1>1 DEF BlockOf, Blocks, WorkTilesOf, WorkTiles, Tile, NTiles, Cta
<1>4. PullTables'
  BY <1>1, <1>3 DEF Tables, PullTables
<1> QED BY <1>2, <1>4 DEF Tables

LEMMA StaySame ==
  Constant => /\ shape' = shape /\ Cta' = Cta /\ Combiner' = Combiner /\ Consumer' = Consumer
              /\ EpiTiles' = EpiTiles /\ NTiles' = NTiles /\ TotalFlags' = TotalFlags
              /\ work' = work /\ offset' = offset /\ block' = block /\ tilesOf' = tilesOf /\ gateIdx' = gateIdx
              /\ rows' = rows /\ Blocks' = Blocks
BY DEF Constant, launchVars, tables, Cta, Combiner, Consumer, EpiTiles, NTiles, TotalFlags, Blocks, MTilesOf

LEMMA GemmTypeStays == GemmTypeOK /\ Constant /\ UNCHANGED vars => GemmTypeOK'
<1> SUFFICES ASSUME GemmTypeOK, Constant, UNCHANGED vars PROVE GemmTypeOK'
  OBVIOUS
<1>1. /\ Cta' = Cta /\ TotalFlags' = TotalFlags /\ pos' = pos /\ groups' = groups /\ stored' = stored
      /\ prev' = prev /\ pub' = pub /\ fin' = fin /\ flags' = flags
  BY StaySame DEF vars
<1> QED BY <1>1 DEF GemmTypeOK

LEMMA HostTypeStays == HostTypeOK /\ UNCHANGED hostVars => HostTypeOK'
BY DEF HostTypeOK, hostVars

LEMMA RingTypeStays == RingTypeOK /\ Constant /\ UNCHANGED ringVars => RingTypeOK'
<1> SUFFICES ASSUME RingTypeOK, Constant, UNCHANGED ringVars PROVE RingTypeOK'
  OBVIOUS
<1>1. /\ Combiner' = Combiner /\ Consumer' = Consumer /\ shape' = shape /\ gated' = gated /\ issued' = issued
      /\ landed' = landed /\ smem' = smem /\ added' = added /\ wrong' = wrong
  BY StaySame DEF ringVars
<1> QED BY <1>1 DEF RingTypeOK

LEMMA Replaced ==
  ASSUME NEW D, NEW S, NEW g \in [D -> S], NEW f, NEW v \in S
  PROVE  [g EXCEPT ![f] = v] \in [D -> S]
OBVIOUS

LEMMA Bumped ==
  ASSUME NEW D, NEW g \in [D -> Nat], NEW f
  PROVE  [g EXCEPT ![f] = @ + 1] \in [D -> Nat]
<1>1. CASE f \in D
  BY <1>1
<1>2. CASE f \notin D
  <2>1. [g EXCEPT ![f] = @ + 1] = [y \in D |-> g[y]]
    BY <1>2
  <2> QED BY <2>1
<1> QED BY <1>1, <1>2

LEMMA FlagType ==
  ASSUME LaunchTables, NEW c \in Cta, NEW i \in DOMAIN work[c]
  PROVE  FlagOf(c, work[c][i]) \in Nat /\ InRange(c, work[c][i]) \in BOOLEAN
<1> DEFINE t == work[c][i]
<1>1. t.batch \in Expert /\ t.m \in Nat
  BY TileFacts
<1>2. c[1] \in Rank /\ shape \in Shapes
  BY CtaFacts
<1>3. /\ RankTileBase(shape.topk, c[1]) \in Nat /\ TileOffset(shape.topk, c[1], t.batch) \in Nat
      /\ offset[c[1]][t.batch] = RankTileBase(shape.topk, c[1]) + TileOffset(shape.topk, c[1], t.batch)
  <2> HIDE DEF t
  <2>1. Routed(shape.topk) /\ t.batch \in 0 .. EPR
    <3>1. Routed(shape.topk)
      BY <1>2, ShapeFacts
    <3>2. t.batch \in 0 .. EPR
      BY <1>1, RoutingAssumption DEF Expert
    <3> QED BY <3>1, <3>2
  <2>2. offset[c[1]][t.batch] = RankTileBase(shape.topk, c[1]) + TileOffset(shape.topk, c[1], t.batch)
    BY <1>1, <1>2 DEF LaunchTables, OffsetsOf
  <2> QED BY <1>2, <2>1, <2>2, Offsets
<1>4. FlagOf(c, t) \in Nat
  BY <1>1, <1>3 DEF FlagOf
<1>5. InRange(c, t) \in BOOLEAN
  BY DEF InRange
<1> QED BY <1>4, <1>5

LEMMA GemmTypeStep ==
  ASSUME LaunchTables, GemmTypeOK, Constant, NEW c \in Cta,
         StoreGroup(c) \/ EndTile(c) \/ PublishTo(c) \/ FinishLoop(c) \/ SomeGroupCompletes(c)
  PROVE  GemmTypeOK'
<1> USE DEF GemmTypeOK
<1>1. Cta' = Cta /\ TotalFlags' = TotalFlags
  BY StaySame
<1>a. W \in Nat \ {0}
  BY RoutingAssumption
<1>2. CASE StoreGroup(c)
  BY <1>1, <1>2 DEF StoreGroup
<1>3. CASE EndTile(c)
  <2>1. pos[c] \in DOMAIN work[c]
    BY <1>3, WorkFacts DEF EndTile, InLoop
  <2> DEFINE fl == FlagOf(c, work[c][pos[c]])  vl == InRange(c, work[c][pos[c]])
  <2>2. fl \in Nat /\ vl \in BOOLEAN
    BY <2>1, FlagType
  <2>3. /\ prev' = [prev EXCEPT ![c] = [flag |-> fl, valid |-> vl]] /\ pos' = [pos EXCEPT ![c] = @ + 1]
        /\ pub' = [pub EXCEPT ![c] = IF prev[c].valid THEN [flag |-> prev[c].flag, rank |-> 0] ELSE Idle]
        /\ UNCHANGED <<groups, stored, fin, flags>>
    BY <1>3 DEF EndTile, StartPublish
  <2> HIDE DEF fl, vl
  <2>4. prev' \in [Cta -> [flag : Int, valid : BOOLEAN]] /\ pos' \in [Cta -> Nat \ {0}]
    BY <2>2, <2>3
  <2>5. pub' \in [Cta -> [flag : Int, rank : Nat]]
    BY <2>3, <1>a DEF Idle
  <2> QED BY <2>3, <2>4, <2>5, <1>1
<1>4. CASE PublishTo(c)
  <2>1. /\ flags' = [flags EXCEPT ![pub[c].rank][pub[c].flag] = @ + 1]
        /\ pub' = [pub EXCEPT ![c] = IF pub[c].rank + 1 = W THEN Idle ELSE [pub[c] EXCEPT !.rank = @ + 1]]
        /\ UNCHANGED <<pos, groups, stored, prev, fin>>
    BY <1>4 DEF PublishTo
  <2>2. flags' \in [Rank -> [0 .. TotalFlags -> Nat]]
    <3> DEFINE q == pub[c].rank  f == pub[c].flag  row == [flags[q] EXCEPT ![f] = @ + 1]
    <3>1. flags' = [flags EXCEPT ![q] = row]
      BY <2>1
    <3>2. q \in Rank => row \in [0 .. TotalFlags -> Nat]
      <4> HIDE DEF q, f
      <4>1. q \in Rank => flags[q] \in [0 .. TotalFlags -> Nat]
        OBVIOUS
      <4> QED BY <4>1, Bumped
    <3> HIDE DEF q, row
    <3> QED BY <3>1, <3>2
  <2>3. pub' \in [Cta -> [flag : Int, rank : Nat]]
    BY <2>1, <1>a DEF Idle
  <2> QED BY <2>1, <2>2, <2>3, <1>1
<1>5. CASE FinishLoop(c)
  <2>1. /\ pub' = [pub EXCEPT ![c] = IF prev[c].valid THEN [flag |-> prev[c].flag, rank |-> 0] ELSE Idle]
        /\ fin' = fin \cup {c} /\ UNCHANGED <<pos, groups, stored, prev, flags>>
    BY <1>5 DEF FinishLoop, TailPublish, StartPublish
  <2>2. pub' \in [Cta -> [flag : Int, rank : Nat]]
    BY <2>1, <1>a DEF Idle
  <2> QED BY <2>1, <2>2, <1>1
<1>6. CASE SomeGroupCompletes(c)
  <2>1. PICK g \in 1 .. groups[c] : GroupCompletes(c, g)
    BY <1>6 DEF SomeGroupCompletes
  <2>2. g \in Nat /\ stored' = [stored EXCEPT ![c] = @ \cup {g}]
        /\ UNCHANGED <<pos, groups, prev, pub, fin, flags>>
    BY <2>1 DEF GroupCompletes
  <2> QED BY <2>2, <1>1
<1> QED BY <1>2, <1>3, <1>4, <1>5, <1>6

LEMMA RingTypeStep ==
  ASSUME RingTypeOK, Constant, shape.stages \in Nat \ {0}, NEW r \in Rank, NEW k \in Combiner,
         PassGate(r, k) \/ Pull(r, k) \/ PullLands(r, k) \/ (\E t \in Consumer : Accumulate(r, k, t))
  PROVE  RingTypeOK'
<1> USE DEF RingTypeOK
<1>1. Combiner' = Combiner /\ Consumer' = Consumer /\ shape' = shape
  BY StaySame
<1>2. CASE PassGate(r, k)
  BY <1>1, <1>2 DEF PassGate
<1>3. CASE Pull(r, k)
  <2>1. /\ issued' = [issued EXCEPT ![r][k] = issued[r][k] + 1]
        /\ smem' = [smem EXCEPT ![r][k][StageOf(issued[r][k])] = -1]
        /\ UNCHANGED <<gated, landed, added, wrong>>
    BY <1>3 DEF Pull
  <2>2. issued' \in [Rank -> [Combiner -> Nat]]
    BY <2>1
  <2>3. smem' \in [Rank -> [Combiner -> [0 .. shape.stages - 1 -> Int]]]
    <3> DEFINE s == StageOf(issued[r][k])  v == -1
    <3>1. smem' = [smem EXCEPT ![r][k][s] = v] /\ v \in Int
      BY <2>1
    <3> HIDE DEF s, v
    <3> DEFINE row == [smem[r][k] EXCEPT ![s] = v]
    <3>2. row \in [0 .. shape.stages - 1 -> Int]
      <4>1. smem[r][k] \in [0 .. shape.stages - 1 -> Int]
        OBVIOUS
      <4> QED BY <3>1, <4>1, Replaced
    <3>3. smem' = [smem EXCEPT ![r] = [smem[r] EXCEPT ![k] = row]]
      BY <3>1
    <3> HIDE DEF row
    <3> QED BY <3>2, <3>3
  <2> QED BY <2>1, <2>2, <2>3, <1>1
<1>4. CASE PullLands(r, k)
  <2>1. PICK i \in 0 .. issued[r][k] - 1 :
          /\ landed' = [landed EXCEPT ![r][k] = @ \cup {i}]
          /\ smem' = [smem EXCEPT ![r][k][StageOf(i)] =
               IF StoredFor(r, block[r][ChoiceOf(k, i)], TilesOfChunk(ChunkOf(i))) THEN i ELSE -1]
          /\ UNCHANGED <<gated, issued, added, wrong>>
    BY <1>4 DEF PullLands
  <2>2. landed' \in [Rank -> [Combiner -> SUBSET Nat]]
    BY <2>1
  <2>3. smem' \in [Rank -> [Combiner -> [0 .. shape.stages - 1 -> Int]]]
    <3> DEFINE s == StageOf(i)  v == IF StoredFor(r, block[r][ChoiceOf(k, i)], TilesOfChunk(ChunkOf(i))) THEN i ELSE -1
    <3>1. smem' = [smem EXCEPT ![r][k][s] = v] /\ v \in Int
      BY <2>1
    <3> HIDE DEF s, v
    <3> DEFINE row == [smem[r][k] EXCEPT ![s] = v]
    <3>2. row \in [0 .. shape.stages - 1 -> Int]
      <4>1. smem[r][k] \in [0 .. shape.stages - 1 -> Int]
        OBVIOUS
      <4> QED BY <3>1, <4>1, Replaced
    <3>3. smem' = [smem EXCEPT ![r] = [smem[r] EXCEPT ![k] = row]]
      BY <3>1
    <3> HIDE DEF row
    <3> QED BY <3>2, <3>3
  <2> QED BY <2>1, <2>2, <2>3, <1>1
<1>5. ASSUME NEW t \in Consumer, Accumulate(r, k, t) PROVE RingTypeOK'
  <2>1. /\ wrong' = IF smem[r][k][StageOf(added[r][k][t])] = added[r][k][t] THEN wrong ELSE wrong \cup {r}
        /\ added' = [added EXCEPT ![r][k][t] = added[r][k][t] + 1]
        /\ UNCHANGED <<gated, issued, landed, smem>>
    BY <1>5 DEF Accumulate
  <2> QED BY <2>1, <1>1
<1> QED BY <1>2, <1>3, <1>4, <1>5

LEMMA HostTypeStep ==
  ASSUME LaunchTables, GemmTypeOK, HostTypeOK, RingTypeOK, Constant, NEW r \in Rank, HostStep(r)
  PROVE  GemmTypeOK' /\ HostTypeOK' /\ RingTypeOK'
<1>1. /\ Combiner' = Combiner /\ Consumer' = Consumer /\ shape' = shape /\ Cta' = Cta /\ TotalFlags' = TotalFlags
      /\ shape.stages \in Nat \ {0}
  BY StaySame, ShapeFacts DEF LaunchTables
<1>2. CASE Reset(r)
  <2>1. /\ flags' = [flags EXCEPT ![r] = [f \in 0 .. TotalFlags |-> 0]] /\ host' = [host EXCEPT ![r] = "barrier"]
        /\ UNCHANGED <<pos, groups, stored, prev, pub, fin, iter>> /\ UNCHANGED ringVars
    BY <1>2 DEF Reset
  <2>2. RingTypeOK'
    BY <2>1, RingTypeStays
  <2>3. HostTypeOK'
    BY <2>1 DEF HostTypeOK
  <2>4. GemmTypeOK'
    BY <2>1, <1>1 DEF GemmTypeOK
  <2> QED BY <2>2, <2>3, <2>4
<1>3. CASE Launch(r)
  <2>1. /\ host' = [host EXCEPT ![r] = "run"] /\ iter' = [iter EXCEPT ![r] = @ + 1]
        /\ pos' = Restart(r, pos, 1) /\ groups' = Restart(r, groups, 0) /\ stored' = Restart(r, stored, {})
        /\ prev' = Restart(r, prev, [flag |-> 0, valid |-> FALSE]) /\ fin' = {c \in fin : c[1] # r}
        /\ FreshRing(r) /\ UNCHANGED <<pub, flags, wrong>>
    BY <1>3 DEF Launch
  <2>2. HostTypeOK'
    BY <2>1 DEF HostTypeOK
  <2>3. GemmTypeOK'
    <3>1. pos' \in [Cta -> Nat \ {0}] /\ groups' \in [Cta -> Nat]
      BY <2>1 DEF GemmTypeOK, Restart
    <3>2. stored' \in [Cta -> SUBSET Nat]
      BY <2>1 DEF GemmTypeOK, Restart
    <3>3. prev' \in [Cta -> [flag : Int, valid : BOOLEAN]]
      BY <2>1 DEF GemmTypeOK, Restart
    <3>4. fin' \in SUBSET Cta
      BY <2>1 DEF GemmTypeOK
    <3> QED BY <3>1, <3>2, <3>3, <3>4, <2>1, <1>1 DEF GemmTypeOK
  <2>4. RingTypeOK'
    BY <2>1, <1>1 DEF RingTypeOK, FreshRing
  <2> QED BY <2>2, <2>3, <2>4
<1>4. CASE Synchronize(r)
  <2>1. host' = [host EXCEPT ![r] = IF iter[r] = shape.iters THEN "end" ELSE "reset"]
        /\ UNCHANGED iter /\ UNCHANGED vars /\ UNCHANGED ringVars
    BY <1>4 DEF Synchronize
  <2> QED BY <2>1, GemmTypeStays, RingTypeStays DEF HostTypeOK
<1> QED BY <1>2, <1>3, <1>4 DEF HostStep

LEMMA TypeInitially == CombineInit => CombineTypeOK
<1> SUFFICES ASSUME CombineInit PROVE CombineTypeOK
  OBVIOUS
<1>1. LaunchTables /\ PullTables
  BY DEF CombineInit, CombineState, Init
<1>2. shape \in Shapes
  BY <1>1 DEF LaunchTables
<1>3. GemmTypeOK
  BY <1>2, RoutingAssumption DEF CombineInit, CombineState, Init, GemmTypeOK, Idle
<1>4. HostTypeOK
  BY DEF CombineInit, CombineState, HostTypeOK
<1>5. RingTypeOK
  BY DEF CombineInit, CombineState, RingTypeOK
<1> QED BY <1>1, <1>3, <1>4, <1>5 DEF CombineTypeOK

LEMMA TypeStep == CombineTypeOK /\ [CombineNext]_combineVars => CombineTypeOK'
<1> SUFFICES ASSUME CombineTypeOK, [CombineNext]_combineVars PROVE CombineTypeOK'
  OBVIOUS
<1>0. Constant
  BY StepConstant DEF combineVars, vars, hostVars, Constant
<1>1. LaunchTables /\ PullTables /\ GemmTypeOK /\ HostTypeOK /\ RingTypeOK
  BY DEF CombineTypeOK
<1>2. LaunchTables' /\ PullTables'
  BY <1>0, <1>1, TablesStay DEF Tables
<1>3. shape.stages \in Nat \ {0}
  BY <1>1, ShapeFacts DEF LaunchTables
<1>4. GemmTypeOK' /\ HostTypeOK' /\ RingTypeOK'
  <2>1. CASE UNCHANGED combineVars
    <3>1. UNCHANGED vars /\ UNCHANGED hostVars /\ UNCHANGED ringVars
      BY <2>1 DEF combineVars
    <3> QED BY <3>1, <1>0, <1>1, GemmTypeStays, HostTypeStays, RingTypeStays
  <2>2. ASSUME NEW c \in AnyCta, GemmStep(c) \/ StoreStep(c) PROVE GemmTypeOK' /\ HostTypeOK' /\ RingTypeOK'
    <3>1. /\ c \in Cta /\ UNCHANGED hostVars /\ UNCHANGED ringVars
          /\ StoreGroup(c) \/ EndTile(c) \/ PublishTo(c) \/ FinishLoop(c) \/ SomeGroupCompletes(c)
      BY <2>2 DEF GemmStep, StoreStep, CtaStep
    <3> QED BY <3>1, <1>0, <1>1, GemmTypeStep, HostTypeStays, RingTypeStays
  <2>3. ASSUME NEW r \in Rank, HostStep(r) PROVE GemmTypeOK' /\ HostTypeOK' /\ RingTypeOK'
    BY <2>3, <1>0, <1>1, HostTypeStep
  <2>4. ASSUME NEW r \in Rank, NEW k \in AnyCombiner,
               ProducerStep(r, k) \/ PullStep(r, k) \/ \E t \in AnyConsumer : ConsumerStep(r, k, t)
        PROVE  GemmTypeOK' /\ HostTypeOK' /\ RingTypeOK'
    <3>1. /\ k \in Combiner
          /\ PassGate(r, k) \/ Pull(r, k) \/ PullLands(r, k) \/ (\E t \in Consumer : Accumulate(r, k, t))
      BY <2>4 DEF ProducerStep, PullStep, ConsumerStep
    <3>2. UNCHANGED vars /\ UNCHANGED hostVars
      BY <3>1 DEF PassGate, Pull, PullLands, Accumulate
    <3> QED BY <3>1, <3>2, <1>0, <1>1, <1>3, GemmTypeStays, HostTypeStays, RingTypeStep
  <2> QED BY <2>1, <2>2, <2>3, <2>4 DEF CombineNext
<1> QED BY <1>1, <1>2, <1>4 DEF CombineTypeOK

-----------------------------------------------------------------------------
(* The CTAs of the GEMM.                                                    *)

LEMMA OperatorsStay ==
  Constant => /\ \A r, k : TokensOf(r, k)' = TokensOf(r, k) /\ ItemsOf(r, k)' = ItemsOf(r, k)
              /\ ItemsPerToken' = ItemsPerToken
              /\ \A k, i : ChoiceOf(k, i)' = ChoiceOf(k, i)
              /\ \A i : StageOf(i)' = StageOf(i)
              /\ \A x : Flag(x)' = Flag(x)
              /\ \A c, t : FlagOf(c, t)' = FlagOf(c, t) /\ InRange(c, t)' = InRange(c, t)
              /\ \A r, x : Pulled(r, x)' = Pulled(r, x)
              /\ \A t : Tile(t)' = Tile(t)
<1> SUFFICES ASSUME Constant
             PROVE  /\ \A r, k : TokensOf(r, k)' = TokensOf(r, k) /\ ItemsOf(r, k)' = ItemsOf(r, k)
                    /\ ItemsPerToken' = ItemsPerToken
                    /\ \A k, i : ChoiceOf(k, i)' = ChoiceOf(k, i)
                    /\ \A i : StageOf(i)' = StageOf(i)
                    /\ \A x : Flag(x)' = Flag(x)
                    /\ \A c, t : FlagOf(c, t)' = FlagOf(c, t) /\ InRange(c, t)' = InRange(c, t)
                    /\ \A r, x : Pulled(r, x)' = Pulled(r, x)
                    /\ \A t : Tile(t)' = Tile(t)
  OBVIOUS
<1>1. shape' = shape /\ offset' = offset /\ work' = work /\ rows' = rows /\ block' = block
  BY StaySame
<1>2. \A r, k : TokensOf(r, k)' = TokensOf(r, k) /\ ItemsOf(r, k)' = ItemsOf(r, k)
  BY <1>1 DEF TokensOf, ItemsOf, ItemsPerToken
<1>3. ItemsPerToken' = ItemsPerToken
  BY <1>1 DEF ItemsPerToken
<1>4. \A k, i : ChoiceOf(k, i)' = ChoiceOf(k, i)
  BY <1>1 DEF ChoiceOf, TokenOf, ItemsPerToken
<1>5. \A i : StageOf(i)' = StageOf(i)
  BY <1>1 DEF StageOf
<1>6. \A x : Flag(x)' = Flag(x)
  BY <1>1 DEF Flag
<1>7. \A c, t : FlagOf(c, t)' = FlagOf(c, t) /\ InRange(c, t)' = InRange(c, t)
  BY <1>1 DEF FlagOf, InRange, NTiles
<1>8. \A r, x : Pulled(r, x)' = Pulled(r, x)
  BY <1>1 DEF Pulled
<1>9. \A t : Tile(t)' = Tile(t)
  BY <1>1 DEF Tile
<1> QED BY <1>2, <1>3, <1>4, <1>5, <1>6, <1>7, <1>8, <1>9

LEMMA CtaTypes ==
  ASSUME LaunchTables, GemmTypeOK, NEW c \in Cta
  PROVE  /\ pos[c] \in Nat \ {0} /\ groups[c] \in Nat /\ stored[c] \in SUBSET Nat
         /\ prev[c] \in [flag : Int, valid : BOOLEAN] /\ pub[c] \in [flag : Int, rank : Nat]
         /\ EpiTiles \in Nat \ {0} /\ W \in Nat \ {0} /\ Len(work[c]) \in Nat
         /\ DOMAIN work[c] = 1 .. Len(work[c]) /\ c[1] \in Rank
         /\ Idle = [flag |-> -1, rank |-> W]
<1>1. EpiTiles \in Nat \ {0}
  BY ShapeFacts DEF LaunchTables, EpiTiles
<1>2. c[1] \in Rank
  BY CtaFacts
<1>3. /\ pos[c] \in Nat \ {0} /\ groups[c] \in Nat /\ stored[c] \in SUBSET Nat
      /\ prev[c] \in [flag : Int, valid : BOOLEAN] /\ pub[c] \in [flag : Int, rank : Nat]
  BY DEF GemmTypeOK
<1> QED BY <1>1, <1>2, <1>3, WorkFacts, RoutingAssumption DEF Idle

\* The other CTAs do not move with c.
Only(c) ==
  /\ \A e \in Cta : e # c =>
       /\ pos'[e] = pos[e] /\ groups'[e] = groups[e] /\ stored'[e] = stored[e]
       /\ prev'[e] = prev[e] /\ pub'[e] = pub[e]
       /\ e \in fin' <=> e \in fin
  /\ UNCHANGED hostVars /\ UNCHANGED ringVars

LEMMA CtaStays ==
  ASSUME Constant, NEW e \in Cta, CtaOK(e),
         pos'[e] = pos[e], groups'[e] = groups[e], stored'[e] = stored[e],
         prev'[e] = prev[e], pub'[e] = pub[e], e \in fin' <=> e \in fin
  PROVE  CtaOK(e)' /\ Latest(e)' = Latest(e)
<1>1. Latest(e)' = Latest(e)
  BY DEF Latest
<1>2. EpiTiles' = EpiTiles /\ work' = work
  BY StaySame
<1>3. \A c, t : FlagOf(c, t)' = FlagOf(c, t) /\ InRange(c, t)' = InRange(c, t)
  BY OperatorsStay
<1> QED BY <1>1, <1>2, <1>3 DEF CtaOK

LEMMA HostsStay ==
  ASSUME Constant, HostTypeOK, \A r \in Rank : HostOK(r), NEW c \in Cta, Running(c[1]), Only(c)
  PROVE  \A r \in Rank : HostOK(r)'
<1> SUFFICES ASSUME NEW r \in Rank PROVE HostOK(r)'
  OBVIOUS
<1>1. /\ host' = host /\ iter' = iter /\ gated' = gated /\ added' = added /\ shape' = shape
      /\ Cta' = Cta /\ Combiner' = Combiner /\ Consumer' = Consumer
      /\ \A k : ItemsOf(r, k)' = ItemsOf(r, k)
  BY StaySame, OperatorsStay DEF Only, hostVars, ringVars
<1>2. HostOK(r)
  OBVIOUS
<1>3. CASE c[1] = r
  <2>1. host[r] = "run" /\ iter[r] > 0 /\ iter[r] \in Nat
    BY <1>2, <1>3 DEF HostOK, Running, HostTypeOK
  <2>2. iter[r] # 0
    BY <2>1
  <2> QED BY <1>1, <1>2, <2>1, <2>2 DEF HostOK
<1>4. CASE c[1] # r
  <2>1. \A e \in Cta : e[1] = r => pos'[e] = pos[e] /\ pub'[e] = pub[e] /\ (e \in fin' <=> e \in fin)
    BY <1>4 DEF Only
  <2>2. Idle' = Idle
    BY DEF Idle
  <2>3. (GemmFresh(r) => GemmFresh(r)') /\ (GemmEnded(r) => GemmEnded(r)')
    BY <1>1, <2>1, <2>2 DEF GemmFresh, GemmEnded
  <2> QED BY <1>1, <1>2, <2>3 DEF HostOK
<1> QED BY <1>3, <1>4

\* A step of c announces nothing, other than a tile outside of the output.
Quiet(c) ==
  /\ Only(c) /\ CtaOK(c)' /\ UNCHANGED flags
  /\ \A t : t[1] \in Cta /\ t[2] \in DOMAIN work[t[1]] /\ InRange(t[1], Tile(t)) =>
       \A r \in Rank : AnnouncedTo(t, r)' <=> AnnouncedTo(t, r)

LEMMA OnlyAnnounces ==
  ASSUME NEW c, Only(c), UNCHANGED flags, CtaOK(c)',
         \A t : t[1] = c /\ t[2] \in DOMAIN work[c] /\ InRange(c, work[c][t[2]]) =>
           \A r \in Rank : AnnouncedTo(t, r)' <=> AnnouncedTo(t, r)
  PROVE  Quiet(c)
<1>1. ASSUME NEW t, t[1] \in Cta, t[2] \in DOMAIN work[t[1]], InRange(t[1], Tile(t)), NEW r \in Rank
      PROVE  AnnouncedTo(t, r)' <=> AnnouncedTo(t, r)
  <2>1. CASE t[1] = c
    BY <1>1, <2>1 DEF Tile
  <2>2. CASE t[1] # c
    <3>1. pos'[t[1]] = pos[t[1]] /\ pub'[t[1]] = pub[t[1]] /\ (t[1] \in fin' <=> t[1] \in fin)
      BY <1>1, <2>2 DEF Only
    <3> QED BY <3>1 DEF AnnouncedTo, Latest
  <2> QED BY <2>1, <2>2
<1> QED BY <1>1 DEF Quiet

LEMMA StoreQuiet ==
  ASSUME LaunchTables, GemmTypeOK, Constant, UNCHANGED hostVars, UNCHANGED ringVars,
         NEW c \in Cta, CtaOK(c), StoreGroup(c) \/ SomeGroupCompletes(c)
  PROVE  Quiet(c)
<1>1. /\ pos' = pos /\ prev' = prev /\ pub' = pub /\ fin' = fin /\ flags' = flags
      /\ \A e \in Cta : e # c => groups'[e] = groups[e] /\ stored'[e] = stored[e]
      /\ groups[c] <= groups'[c] /\ stored[c] \subseteq stored'[c] /\ groups'[c] \in Nat
  <2>1. CASE StoreGroup(c)
    <3>1. /\ pos' = pos /\ prev' = prev /\ pub' = pub /\ fin' = fin /\ flags' = flags /\ stored' = stored
          /\ groups' = [groups EXCEPT ![c] = @ + 1]
      BY <2>1 DEF StoreGroup
    <3> QED BY <3>1 DEF GemmTypeOK
  <2>2. CASE SomeGroupCompletes(c)
    <3>1. PICK g \in 1 .. groups[c] : GroupCompletes(c, g)
      BY <2>2 DEF SomeGroupCompletes
    <3>2. /\ pos' = pos /\ prev' = prev /\ pub' = pub /\ fin' = fin /\ flags' = flags /\ groups' = groups
          /\ stored' = [stored EXCEPT ![c] = @ \cup {g}]
      BY <3>1 DEF GroupCompletes
    <3> QED BY <3>2 DEF GemmTypeOK
  <2> QED BY <2>1, <2>2
<1>2. Only(c)
  BY <1>1 DEF Only
<1>3. Latest(c)' = Latest(c)
  BY <1>1 DEF Latest
<1>4. CtaOK(c)'
  <2>1. EpiTiles' = EpiTiles /\ work' = work /\ \A t : FlagOf(c, t)' = FlagOf(c, t) /\ InRange(c, t)' = InRange(c, t)
    BY StaySame, OperatorsStay
  <2> DEFINE v == (pos[c] - 1) * EpiTiles
  <2>2. v <= groups[c] /\ v \in Nat /\ groups[c] \in Nat
    <3>1. pos[c] \in Nat \ {0} /\ EpiTiles \in Nat \ {0} /\ groups[c] \in Nat
      BY CtaTypes
    <3>2. v <= groups[c]
      BY DEF CtaOK
    <3> QED BY <3>1, <3>2
  <2>3. v <= groups'[c]
    <3> HIDE DEF v
    <3> QED BY <1>1, <2>2
  <2>4. ((pos[c] - 1) * EpiTiles <= groups[c])'
    BY <1>1, <2>1, <2>3
  <2>5. 1 .. Latest(c) * EpiTiles \subseteq stored'[c]
    BY <1>1 DEF CtaOK
  <2>6. (1 .. Latest(c) * EpiTiles \subseteq stored[c])'
    BY <1>3, <2>1, <2>5
  <2>7. Idle' = Idle
    BY DEF Idle
  <2> HIDE DEF v
  <2> QED BY <1>1, <1>3, <2>1, <2>4, <2>6, <2>7 DEF CtaOK
<1>5. \A t : t[1] = c /\ t[2] \in DOMAIN work[c] /\ InRange(c, work[c][t[2]]) =>
        \A r \in Rank : AnnouncedTo(t, r)' <=> AnnouncedTo(t, r)
  <2> SUFFICES ASSUME NEW t, t[1] = c, NEW r PROVE AnnouncedTo(t, r)' <=> AnnouncedTo(t, r)
    OBVIOUS
  <2> QED BY <1>1, <1>3 DEF AnnouncedTo
<1> QED BY <1>1, <1>2, <1>4, <1>5, OnlyAnnounces

\* The end of a tile and the tail: what they begin to announce lies behind them.
LEMMA StartsPublish ==
  ASSUME LaunchTables, GemmTypeOK, NEW c \in Cta, CtaOK(c), pub[c] = Idle, c \notin fin,
         NEW q, q = IF prev[c].valid THEN [flag |-> prev[c].flag, rank |-> 0] ELSE Idle
  PROVE  /\ q # Idle => LET t == work[c][pos[c] - 1]
                        IN  /\ pos[c] - 1 \in DOMAIN work[c] /\ InRange(c, t)
                            /\ q.flag = FlagOf(c, t) /\ q.rank = 0
         /\ \A t : t[1] = c /\ t[2] \in DOMAIN work[c] /\ InRange(c, work[c][t[2]]) =>
              \A r \in Rank : \/ t[2] < pos[c] - 1
                              \/ t[2] = pos[c] - 1 /\ r < q.rank
                              <=> AnnouncedTo(t, r)
<1>1. /\ pos[c] \in Nat \ {0} /\ W \in Nat \ {0} /\ Len(work[c]) \in Nat /\ pos[c] <= Len(work[c]) + 1
      /\ DOMAIN work[c] = 1 .. Len(work[c]) /\ Idle = [flag |-> -1, rank |-> W]
      /\ prev[c] \in [flag : Int, valid : BOOLEAN]
  BY CtaTypes DEF CtaOK
<1>2. pos[c] > 1 => /\ prev[c].flag = FlagOf(c, work[c][pos[c] - 1])
                    /\ prev[c].valid <=> InRange(c, work[c][pos[c] - 1])
  <2> SUFFICES ASSUME pos[c] > 1
               PROVE  /\ prev[c].flag = FlagOf(c, work[c][pos[c] - 1])
                      /\ prev[c].valid <=> InRange(c, work[c][pos[c] - 1])
    OBVIOUS
  <2> DEFINE fl == FlagOf(c, work[c][pos[c] - 1])  vl == InRange(c, work[c][pos[c] - 1])
  <2>1. prev[c] = [flag |-> fl, valid |-> vl]
    BY DEF CtaOK
  <2> HIDE DEF fl, vl
  <2>2. prev[c].flag = fl /\ prev[c].valid = vl
    BY <2>1
  <2> QED BY <2>2 DEF fl, vl
<1>3. pos[c] = 1 => ~prev[c].valid
  BY DEF CtaOK
<1>4. ASSUME q # Idle
      PROVE  LET t == work[c][pos[c] - 1]
             IN  /\ pos[c] - 1 \in DOMAIN work[c] /\ InRange(c, t)
                 /\ q.flag = FlagOf(c, t) /\ q.rank = 0
  <2>1. prev[c].valid /\ q = [flag |-> prev[c].flag, rank |-> 0]
    BY <1>4
  <2>2. pos[c] > 1
    BY <1>1, <1>3, <2>1
  <2>3. q.flag = prev[c].flag /\ q.rank = 0
    BY <2>1
  <2>4. pos[c] - 1 \in DOMAIN work[c]
    BY <1>1, <2>2
  <2> QED BY <1>2, <2>1, <2>2, <2>3, <2>4
<1>5. ASSUME NEW t, t[1] = c, t[2] \in DOMAIN work[c], InRange(c, work[c][t[2]]), NEW r \in Rank
      PROVE  \/ t[2] < pos[c] - 1
             \/ t[2] = pos[c] - 1 /\ r < q.rank
             <=> AnnouncedTo(t, r)
  <2>1. t[2] \in Nat \ {0} /\ r \in Nat /\ r < W /\ pub[c].rank = W
    BY <1>1, <1>5, RoutingAssumption DEF Rank
  <2>2. AnnouncedTo(t, r) <=> t[2] < pos[c] - 2 \/ t[2] = pos[c] - 2
    BY <1>5, <2>1 DEF AnnouncedTo, Latest
  <2>3. AnnouncedTo(t, r) <=> t[2] < pos[c] - 1
    <3> DEFINE n == t[2]  p == pos[c]
    <3>1. n \in Nat /\ p \in Nat
      BY <1>1, <2>1
    <3> HIDE DEF n, p
    <3>2. n < p - 2 \/ n = p - 2 <=> n < p - 1
      BY <3>1
    <3>3. t[2] < pos[c] - 2 \/ t[2] = pos[c] - 2 <=> t[2] < pos[c] - 1
      BY <3>2 DEF n, p
    <3> QED BY <2>2, <3>3
  <2>4. ASSUME t[2] = pos[c] - 1 PROVE ~(r < q.rank)
    <3>1. pos[c] > 1
      BY <1>1, <2>1, <2>4
    <3>2. prev[c].valid
      BY <1>2, <1>5, <2>4, <3>1
    <3>3. q.rank = 0
      BY <3>2
    <3> QED BY <2>1, <3>3
  <2> QED BY <2>3, <2>4
<1> QED BY <1>4, <1>5

LEMMA EndQuiet ==
  ASSUME LaunchTables, GemmTypeOK, Constant, UNCHANGED hostVars, UNCHANGED ringVars,
         NEW c \in Cta, CtaOK(c), EndTile(c)
  PROVE  Quiet(c)
<1> DEFINE fl == FlagOf(c, work[c][pos[c]])
           vl == InRange(c, work[c][pos[c]])
           q == IF prev[c].valid THEN [flag |-> prev[c].flag, rank |-> 0] ELSE Idle
<1>1. /\ c \notin fin /\ pub[c] = Idle /\ pos[c] <= Len(work[c]) /\ groups[c] = pos[c] * EpiTiles
      /\ 1 .. groups[c] - EpiTiles \subseteq stored[c]
      /\ pub' = [pub EXCEPT ![c] = q] /\ prev' = [prev EXCEPT ![c] = [flag |-> fl, valid |-> vl]]
      /\ pos' = [pos EXCEPT ![c] = @ + 1] /\ groups' = groups /\ stored' = stored /\ fin' = fin /\ flags' = flags
  BY DEF EndTile, InLoop, StartPublish, OlderComplete, WaitGroup
<1>2. /\ pos[c] \in Nat \ {0} /\ EpiTiles \in Nat \ {0} /\ Len(work[c]) \in Nat
      /\ DOMAIN work[c] = 1 .. Len(work[c]) /\ W \in Nat \ {0}
  BY CtaTypes
<1>3. /\ pos'[c] = pos[c] + 1 /\ pub'[c] = q /\ prev'[c] = [flag |-> fl, valid |-> vl]
      /\ \A e \in Cta : e # c => pos'[e] = pos[e] /\ pub'[e] = pub[e] /\ prev'[e] = prev[e]
  <2> HIDE DEF q, fl, vl
  <2> QED BY <1>1 DEF GemmTypeOK
<1>q. q = IF prev[c].valid THEN [flag |-> prev[c].flag, rank |-> 0] ELSE Idle
  OBVIOUS
<1> HIDE DEF q, fl, vl
<1>4. /\ q # Idle => LET t == work[c][pos[c] - 1]
                     IN  /\ pos[c] - 1 \in DOMAIN work[c] /\ InRange(c, t)
                         /\ q.flag = FlagOf(c, t) /\ q.rank = 0
      /\ \A t : t[1] = c /\ t[2] \in DOMAIN work[c] /\ InRange(c, work[c][t[2]]) =>
           \A r \in Rank : \/ t[2] < pos[c] - 1
                           \/ t[2] = pos[c] - 1 /\ r < q.rank
                           <=> AnnouncedTo(t, r)
  BY <1>1, <1>q, StartsPublish
<1>5. Only(c)
  BY <1>1, <1>3 DEF Only
<1>6. Latest(c)' = pos[c] - 1 /\ Idle' = Idle
  <2>1. Latest(c)' = (pos[c] + 1) - 2
    BY <1>1, <1>3 DEF Latest
  <2> QED BY <1>2, <2>1 DEF Idle
<1>7. CtaOK(c)'
  <2>1. EpiTiles' = EpiTiles /\ work' = work /\ \A t : FlagOf(c, t)' = FlagOf(c, t) /\ InRange(c, t)' = InRange(c, t)
    BY StaySame, OperatorsStay
  <2>2. ((pos[c] - 1) * EpiTiles <= groups[c])'
    <3>1. pos'[c] - 1 = pos[c]
      BY <1>2, <1>3
    <3>2. pos[c] * EpiTiles \in Nat
      BY <1>2
    <3>3. (pos'[c] - 1) * EpiTiles' <= groups'[c]
      BY <1>1, <2>1, <3>1, <3>2
    <3> QED BY <3>3
  <2>3. (1 .. Latest(c) * EpiTiles \subseteq stored[c])'
    <3>1. (pos[c] - 1) * EpiTiles = groups[c] - EpiTiles
      BY <1>1, <1>2
    <3> QED BY <1>1, <1>6, <2>1, <3>1
  <2>4. (pos[c] <= Len(work[c]) + 1)' /\ (c \in fin => pos[c] = Len(work[c]) + 1)'
    BY <1>1, <1>2, <1>3, <2>1
  <2>5. (pos[c] = 1 => ~prev[c].valid)'
    BY <1>2, <1>3
  <2>6. (pos[c] > 1 => LET t == work[c][pos[c] - 1]
                       IN  prev[c] = [flag |-> FlagOf(c, t), valid |-> InRange(c, t)])'
    <3>1. pos'[c] - 1 = pos[c]
      BY <1>2, <1>3
    <3>2. offset' = offset /\ rows' = rows /\ shape' = shape
      BY StaySame
    <3>3. prev'[c] = [flag |-> FlagOf(c, work[c][pos[c]]), valid |-> InRange(c, work[c][pos[c]])]
      BY <1>3 DEF fl, vl
    <3> QED BY <2>1, <3>1, <3>2, <3>3 DEF FlagOf, InRange, NTiles
  <2>7. (pub[c] # Idle => LET t == work[c][Latest(c)]
                          IN  /\ Latest(c) \in DOMAIN work[c] /\ InRange(c, t)
                              /\ pub[c].flag = FlagOf(c, t) /\ pub[c].rank \in Rank)'
    <3>1. 0 \in Rank
      BY <1>2 DEF Rank
    <3> QED BY <1>3, <1>4, <1>6, <2>1, <3>1
  <2> QED BY <2>2, <2>3, <2>4, <2>5, <2>6, <2>7 DEF CtaOK
<1>8. \A t : t[1] = c /\ t[2] \in DOMAIN work[c] /\ InRange(c, work[c][t[2]]) =>
        \A r \in Rank : AnnouncedTo(t, r)' <=> AnnouncedTo(t, r)
  <2> SUFFICES ASSUME NEW t, t[1] = c, t[2] \in DOMAIN work[c], InRange(c, work[c][t[2]]), NEW r \in Rank
               PROVE  AnnouncedTo(t, r)' <=> AnnouncedTo(t, r)
    OBVIOUS
  <2>1. AnnouncedTo(t, r)' <=> t[2] < pos[c] - 1 \/ (t[2] = pos[c] - 1 /\ r < q.rank)
    BY <1>3, <1>6 DEF AnnouncedTo
  <2> QED BY <1>4, <2>1
<1> QED BY <1>1, <1>5, <1>7, <1>8, OnlyAnnounces

LEMMA FinishQuiet ==
  ASSUME LaunchTables, GemmTypeOK, Constant, UNCHANGED hostVars, UNCHANGED ringVars,
         NEW c \in Cta, CtaOK(c), FinishLoop(c)
  PROVE  Quiet(c)
<1> DEFINE q == IF prev[c].valid THEN [flag |-> prev[c].flag, rank |-> 0] ELSE Idle
<1>1. /\ c \notin fin /\ pub[c] = Idle /\ pos[c] > Len(work[c])
      /\ 1 .. groups[c] - 0 \subseteq stored[c]
      /\ pub' = [pub EXCEPT ![c] = q] /\ fin' = fin \cup {c}
      /\ pos' = pos /\ prev' = prev /\ groups' = groups /\ stored' = stored /\ flags' = flags
  BY DEF FinishLoop, TailPublish, StartPublish, TailComplete, WaitGroup
<1>2. /\ pos[c] \in Nat \ {0} /\ EpiTiles \in Nat \ {0} /\ Len(work[c]) \in Nat /\ groups[c] \in Nat
      /\ DOMAIN work[c] = 1 .. Len(work[c]) /\ W \in Nat \ {0} /\ pos[c] <= Len(work[c]) + 1
  BY CtaTypes DEF CtaOK
<1>3. pub'[c] = q /\ \A e \in Cta : e # c => pub'[e] = pub[e]
  <2> HIDE DEF q
  <2> QED BY <1>1 DEF GemmTypeOK
<1>q. q = IF prev[c].valid THEN [flag |-> prev[c].flag, rank |-> 0] ELSE Idle
  OBVIOUS
<1> HIDE DEF q
<1>4. /\ q # Idle => LET t == work[c][pos[c] - 1]
                     IN  /\ pos[c] - 1 \in DOMAIN work[c] /\ InRange(c, t)
                         /\ q.flag = FlagOf(c, t) /\ q.rank = 0
      /\ \A t : t[1] = c /\ t[2] \in DOMAIN work[c] /\ InRange(c, work[c][t[2]]) =>
           \A r \in Rank : \/ t[2] < pos[c] - 1
                           \/ t[2] = pos[c] - 1 /\ r < q.rank
                           <=> AnnouncedTo(t, r)
  BY <1>1, <1>q, StartsPublish
<1>5. Only(c)
  BY <1>1, <1>3 DEF Only
<1>6. Latest(c)' = pos[c] - 1 /\ Idle' = Idle
  BY <1>1 DEF Latest, Idle
<1>7. CtaOK(c)'
  <2>1. EpiTiles' = EpiTiles /\ work' = work /\ \A t : FlagOf(c, t)' = FlagOf(c, t) /\ InRange(c, t)' = InRange(c, t)
    BY StaySame, OperatorsStay
  <2>2. (1 .. Latest(c) * EpiTiles \subseteq stored[c])'
    <3> DEFINE v == (pos[c] - 1) * EpiTiles
    <3>1. v <= groups[c] /\ v \in Nat
      BY <1>2 DEF CtaOK
    <3>2. 1 .. v \subseteq stored[c]
      <4> HIDE DEF v
      <4> QED BY <1>1, <1>2, <3>1
    <3> QED BY <1>1, <1>6, <2>1, <3>2
  <2>3. (c \in fin => pos[c] = Len(work[c]) + 1)'
    BY <1>1, <1>2, <2>1
  <2>4. (pub[c] # Idle => LET t == work[c][Latest(c)]
                          IN  /\ Latest(c) \in DOMAIN work[c] /\ InRange(c, t)
                              /\ pub[c].flag = FlagOf(c, t) /\ pub[c].rank \in Rank)'
    <3>1. 0 \in Rank
      BY <1>2 DEF Rank
    <3> QED BY <1>3, <1>4, <1>6, <2>1, <3>1
  <2> QED BY <1>1, <2>1, <2>2, <2>3, <2>4 DEF CtaOK
<1>8. \A t : t[1] = c /\ t[2] \in DOMAIN work[c] /\ InRange(c, work[c][t[2]]) =>
        \A r \in Rank : AnnouncedTo(t, r)' <=> AnnouncedTo(t, r)
  <2> SUFFICES ASSUME NEW t, t[1] = c, t[2] \in DOMAIN work[c], InRange(c, work[c][t[2]]), NEW r \in Rank
               PROVE  AnnouncedTo(t, r)' <=> AnnouncedTo(t, r)
    OBVIOUS
  <2>1. AnnouncedTo(t, r)' <=> t[2] < pos[c] - 1 \/ (t[2] = pos[c] - 1 /\ r < q.rank)
    BY <1>3, <1>6 DEF AnnouncedTo
  <2> QED BY <1>4, <2>1
<1> QED BY <1>1, <1>5, <1>7, <1>8, OnlyAnnounces

-----------------------------------------------------------------------------
(* What a step leaves alone.                                                *)

LEMMA AnnouncedStays ==
  ASSUME Constant, NEW x, NEW r, \A t \in tilesOf[x] : AnnouncedTo(t, r)' <=> AnnouncedTo(t, r)
  PROVE  Announced(x, r)' = Announced(x, r)
<1>1. tilesOf' = tilesOf
  BY StaySame
<1> QED BY <1>1 DEF Announced

LEMMA CountStays ==
  ASSUME Constant, NEW r, NEW x, CountOK(r, x), flags'[r] = flags[r],
         iter'[r] = iter[r], host'[r] = "barrier" <=> host[r] = "barrier", iter'[x[1]] = iter[x[1]],
         \A t \in tilesOf[x] : AnnouncedTo(t, r)' <=> AnnouncedTo(t, r)
  PROVE  CountOK(r, x)'
<1>1. Announced(x, r)' = Announced(x, r)
  BY AnnouncedStays
<1>2. Epoch(r)' = Epoch(r)
  BY DEF Epoch
<1>3. Pulled(r, x)' = Pulled(r, x) /\ Flag(x)' = Flag(x)
  BY OperatorsStay
<1> QED BY <1>1, <1>2, <1>3 DEF CountOK, Relied

LEMMA SettledStays ==
  ASSUME Constant, NEW r, NEW x, SettledOK(r, x),
         iter'[r] = iter[r], host'[r] = "barrier" => host[r] = "barrier", iter'[x[1]] = iter[x[1]],
         \A t \in tilesOf[x] : AnnouncedTo(t, r) => AnnouncedTo(t, r)'
  PROVE  SettledOK(r, x)'
<1>1. Pulled(r, x)' = Pulled(r, x) /\ tilesOf' = tilesOf
  BY OperatorsStay, StaySame
<1> QED BY <1>1 DEF SettledOK

LEMMA GatesStay ==
  ASSUME Constant, NEW r, NEW k, GatesOK(r, k), gated'[r][k] = gated[r][k],
         host'[r] # "barrier" => host[r] # "barrier" /\ flags'[r] = flags[r]
  PROVE  GatesOK(r, k)'
<1>1. gateIdx' = gateIdx /\ ItemsPerToken' = ItemsPerToken /\ NTiles' = NTiles /\ \A i : ChoiceOf(k, i)' = ChoiceOf(k, i)
  BY OperatorsStay, StaySame
<1> SUFFICES ASSUME host'[r] # "barrier", NEW g \in 0 .. gated[r][k] - 1, NEW j \in 0 .. TopK - 1
             PROVE  flags'[r][gateIdx[r][ChoiceOf(k, g * ItemsPerToken + j)]] >= NTiles
  BY <1>1 DEF GatesOK
<1> QED BY DEF GatesOK

LEMMA RingStays ==
  ASSUME Constant, NEW r, NEW k, RingOK(r, k), gated'[r][k] = gated[r][k], issued'[r][k] = issued[r][k],
         landed'[r][k] = landed[r][k], smem'[r][k] = smem[r][k], added'[r][k] = added[r][k]
  PROVE  RingOK(r, k)'
<1>1. /\ ItemsPerToken' = ItemsPerToken /\ TokensOf(r, k)' = TokensOf(r, k) /\ shape' = shape
      /\ \A i : StageOf(i)' = StageOf(i)
  BY OperatorsStay, StaySame
<1>2. Consumer' = Consumer
  BY StaySame
<1> QED BY <1>1, <1>2 DEF RingOK

\* A step of one CTA that announces nothing keeps the invariant.
LEMMA QuietKeeps ==
  ASSUME CombineTypeOK, CombineInv, Constant, NEW c \in Cta, Running(c[1]), Quiet(c)
  PROVE  CombineInv'
<1>1. /\ host' = host /\ iter' = iter /\ gated' = gated /\ issued' = issued /\ landed' = landed
      /\ smem' = smem /\ added' = added /\ wrong' = wrong /\ flags' = flags
      /\ Cta' = Cta /\ Blocks' = Blocks /\ Combiner' = Combiner /\ TotalFlags' = TotalFlags
  BY StaySame DEF Quiet, Only, hostVars, ringVars
<1>2. \A e \in Cta : CtaOK(e)'
  <2> SUFFICES ASSUME NEW e \in Cta, e # c PROVE CtaOK(e)'
    BY DEF Quiet
  <2>1. CtaOK(e) /\ pos'[e] = pos[e] /\ groups'[e] = groups[e] /\ stored'[e] = stored[e]
        /\ prev'[e] = prev[e] /\ pub'[e] = pub[e] /\ (e \in fin' <=> e \in fin)
    BY DEF Quiet, Only, CombineInv
  <2> QED BY <2>1, CtaStays
<1>3. \A r \in Rank : HostOK(r)' /\ flags'[r][TotalFlags] = 0
  <2>1. \A r \in Rank : HostOK(r)'
    BY HostsStay DEF CombineTypeOK, CombineInv, Quiet
  <2> QED BY <1>1, <2>1 DEF CombineInv
<1>4. \A q, r \in Rank : AheadOK(q, r)'
  BY <1>1 DEF CombineInv, AheadOK
<1>5. ASSUME NEW r \in Rank, NEW x \in Blocks PROVE CountOK(r, x)' /\ SettledOK(r, x)'
  <2>1. \A t \in tilesOf[x] : AnnouncedTo(t, r)' <=> AnnouncedTo(t, r)
    <3> SUFFICES ASSUME NEW t \in tilesOf[x] PROVE AnnouncedTo(t, r)' <=> AnnouncedTo(t, r)
      OBVIOUS
    <3>1. t[1] \in Cta /\ t[2] \in DOMAIN work[t[1]] /\ InRange(t[1], Tile(t))
      BY BlockTiles DEF CombineTypeOK
    <3> QED BY <3>1 DEF Quiet
  <2>2. CountOK(r, x) /\ SettledOK(r, x)
    BY DEF CombineInv
  <2> QED BY <1>1, <2>1, <2>2, CountStays, SettledStays
<1>6. ASSUME NEW r \in Rank, NEW k \in Combiner PROVE GatesOK(r, k)' /\ RingOK(r, k)'
  <2>1. GatesOK(r, k) /\ RingOK(r, k)
    BY DEF CombineInv
  <2> QED BY <1>1, <2>1, GatesStay, RingStays
<1>7. wrong' = {}
  BY <1>1 DEF CombineInv
<1> QED BY <1>1, <1>2, <1>3, <1>4, <1>5, <1>6, <1>7 DEF CombineInv

\* One that announces the next tile to the next rank.
LEMMA PublishKeeps ==
  ASSUME CombineTypeOK, CombineInv, Constant, UNCHANGED hostVars, UNCHANGED ringVars,
         NEW c \in Cta, Running(c[1]), PublishTo(c)
  PROVE  CombineInv'
<1> DEFINE q == pub[c].rank
           f == pub[c].flag
           i == Latest(c)
           u == <<c, i>>
           v == IF q + 1 = W THEN Idle ELSE [pub[c] EXCEPT !.rank = @ + 1]
<1>1. /\ pub[c] # Idle /\ pub' = [pub EXCEPT ![c] = v]
      /\ flags' = [flags EXCEPT ![q][f] = @ + 1]
      /\ pos' = pos /\ groups' = groups /\ stored' = stored /\ prev' = prev /\ fin' = fin
  BY DEF PublishTo
<1>2. /\ host' = host /\ iter' = iter /\ gated' = gated /\ issued' = issued /\ landed' = landed
      /\ smem' = smem /\ added' = added /\ wrong' = wrong
      /\ Cta' = Cta /\ Blocks' = Blocks /\ Combiner' = Combiner /\ TotalFlags' = TotalFlags
  BY StaySame DEF hostVars, ringVars
<1>t. LaunchTables /\ PullTables /\ GemmTypeOK /\ HostTypeOK
  BY DEF CombineTypeOK
<1>3. /\ i \in DOMAIN work[c] /\ InRange(c, work[c][i]) /\ f = FlagOf(c, work[c][i]) /\ q \in Rank
      /\ CtaOK(c)
  BY <1>1 DEF CombineInv, CtaOK
<1>4. PICK x0 \in Blocks : x0[1] = c[1] /\ u \in tilesOf[x0] /\ Flag(x0) = f
  BY <1>3, <1>t, InBlock
<1>5. /\ W \in Nat \ {0} /\ q \in Nat /\ q < W /\ Idle = [flag |-> -1, rank |-> W]
      /\ pub[c] \in [flag : Int, rank : Nat]
  BY <1>3, <1>t, CtaTypes DEF Rank
<1>6. /\ v.rank = q + 1 /\ (v # Idle => q + 1 \in Rank /\ v.flag = f)
      /\ pub'[c] = v /\ \A e \in Cta : e # c => pub'[e] = pub[e]
  <2>1. v.rank = q + 1 /\ (v # Idle => q + 1 \in Rank /\ v.flag = f)
    <3>1. CASE q + 1 = W
      <4>1. v = [flag |-> -1, rank |-> W]
        BY <3>1, <1>5
      <4> QED BY <4>1, <3>1, <1>5
    <3>2. CASE q + 1 # W
      <4>1. v = [pub[c] EXCEPT !.rank = q + 1]
        BY <3>2
      <4>2. q + 1 \in Rank
        BY <3>2, <1>5 DEF Rank
      <4>3. v.rank = q + 1 /\ v.flag = f
        BY <4>1, <1>5
      <4> QED BY <4>2, <4>3
    <3> QED BY <3>1, <3>2
  <2> HIDE DEF v
  <2> QED BY <1>1, <1>t, <2>1 DEF GemmTypeOK
<1>7. /\ f \in 0 .. TotalFlags - 1 /\ TotalFlags \in Nat
      /\ \A x \in Blocks : Flag(x) \in 0 .. TotalFlags - 1
      /\ \A x \in Blocks : Flag(x) = f => x = x0
  BY <1>4, <1>t, FlagFacts
<1> HIDE DEF q, f, v
<1>8. /\ \A r \in Rank, g \in 0 .. TotalFlags : flags[r][g] \in Nat
      /\ \A r \in Rank, g \in 0 .. TotalFlags :
           flags'[r][g] = IF r = q /\ g = f THEN flags[r][g] + 1 ELSE flags[r][g]
  <2>1. flags \in [Rank -> [0 .. TotalFlags -> Nat]]
    BY <1>t DEF GemmTypeOK
  <2> QED BY <1>1, <1>3, <1>7, <2>1
<1>9. Latest(c)' = i /\ \A e \in Cta : Latest(e)' = Latest(e)
  BY <1>1 DEF Latest
<1> HIDE DEF i
<1>10. \A x \in Blocks : \A t \in tilesOf[x], r \in Rank :
         AnnouncedTo(t, r)' <=> AnnouncedTo(t, r) \/ (t = u /\ r = q)
  <2> SUFFICES ASSUME NEW x \in Blocks, NEW t \in tilesOf[x], NEW r \in Rank
               PROVE  AnnouncedTo(t, r)' <=> AnnouncedTo(t, r) \/ (t = u /\ r = q)
    OBVIOUS
  <2>1. t = <<t[1], t[2]>> /\ t[1] \in Cta /\ t[2] \in Nat
    BY <1>t, BlockTiles
  <2>2. CASE t[1] = c
    <3>1. AnnouncedTo(t, r)' <=> t[2] < i \/ (t[2] = i /\ r < q + 1)
      BY <1>6, <1>9, <2>2 DEF AnnouncedTo
    <3>2. AnnouncedTo(t, r) <=> t[2] < i \/ (t[2] = i /\ r < q)
      BY <2>2 DEF AnnouncedTo, i, q
    <3>3. t = u <=> t[2] = i
      BY <2>1, <2>2
    <3>4. r \in Nat
      BY <1>5 DEF Rank
    <3>5. r < q + 1 <=> r < q \/ r = q
      BY <3>4, <1>5
    <3> QED BY <3>1, <3>2, <3>3, <3>5
  <2>3. CASE t[1] # c
    <3>1. t # u
      BY <2>3
    <3>2. Latest(t[1])' = Latest(t[1]) /\ pub'[t[1]] = pub[t[1]]
      BY <1>6, <1>9, <2>1, <2>3
    <3> QED BY <3>1, <3>2 DEF AnnouncedTo
  <2> QED BY <2>2, <2>3
<1>11. \A e \in Cta : CtaOK(e)'
  <2>1. ASSUME NEW e \in Cta, e # c PROVE CtaOK(e)'
    <3>1. CtaOK(e) /\ pos'[e] = pos[e] /\ groups'[e] = groups[e] /\ stored'[e] = stored[e]
          /\ prev'[e] = prev[e] /\ pub'[e] = pub[e] /\ (e \in fin' <=> e \in fin)
      BY <1>1, <1>6, <2>1 DEF CombineInv
    <3> QED BY <3>1, CtaStays
  <2>2. CtaOK(c)'
    <3>1. EpiTiles' = EpiTiles /\ work' = work /\ \A t : FlagOf(c, t)' = FlagOf(c, t) /\ InRange(c, t)' = InRange(c, t)
      BY StaySame, OperatorsStay
    <3>2. (pub[c] # Idle => LET t == work[c][Latest(c)]
                            IN  /\ Latest(c) \in DOMAIN work[c] /\ InRange(c, t)
                                /\ pub[c].flag = FlagOf(c, t) /\ pub[c].rank \in Rank)'
      <4>1. Idle' = Idle
        BY DEF Idle
      <4> QED BY <1>3, <1>6, <1>9, <3>1, <4>1 DEF i
    <3> QED BY <1>1, <1>3, <1>9, <3>1, <3>2 DEF CtaOK, i
  <2> QED BY <2>1, <2>2
<1>12. \A r \in Rank : HostOK(r)'
  <2>1. Only(c)
    BY <1>1, <1>6 DEF Only
  <2> QED BY <1>t, <2>1, HostsStay DEF CombineInv
<1>13. \A r \in Rank : (flags[r][TotalFlags] = 0)'
  <2>1. \A r \in Rank : flags[r][TotalFlags] = 0
    BY DEF CombineInv
  <2> QED BY <1>2, <1>7, <1>8, <2>1
<1>14. \A p, r \in Rank : AheadOK(p, r)'
  BY <1>2 DEF CombineInv, AheadOK
<1>15. ~AnnouncedTo(u, q)
  <2>1. u[1] = c /\ u[2] = i /\ i \in Nat
    BY <1>3, <1>t, TileFacts
  <2> HIDE DEF u
  <2> QED BY <1>5, <2>1 DEF AnnouncedTo, i, q
<1>16. iter[c[1]] = Epoch(q) \/ ~Relied(q, x0)
  <2> DEFINE d == c[1]
  <2>1. d \in Rank /\ host[d] = "run" /\ iter[d] > 0 /\ iter[d] \in Nat /\ iter[q] \in Nat
    BY <1>3, <1>t, CtaTypes DEF CombineInv, HostOK, Running, HostTypeOK
  <2>2. AheadOK(d, q) /\ AheadOK(q, d) /\ SettledOK(q, x0)
    BY <1>3, <2>1 DEF CombineInv
  <2>3. ~(iter[q] > iter[d])
    BY <2>1, <2>2 DEF AheadOK
  <2>4. CASE iter[d] > iter[q]
    BY <2>1, <2>2, <2>4 DEF AheadOK, Epoch
  <2>5. CASE iter[d] = iter[q]
    <3>1. CASE host[q] # "barrier"
      BY <2>5, <3>1 DEF Epoch
    <3>2. CASE host[q] = "barrier"
      <4>1. ~Pulled(q, x0)
        <5>1. SUFFICES ASSUME Pulled(q, x0) PROVE FALSE
          OBVIOUS
        <5>2. \A t \in tilesOf[x0] : AnnouncedTo(t, q)
          BY <1>4, <2>1, <2>2, <2>5, <3>2, <5>1 DEF SettledOK
        <5> QED BY <1>4, <1>15, <5>2
      <4>2. Epoch(q) = iter[q] + 1
        BY <3>2 DEF Epoch
      <4> QED BY <2>1, <2>5, <4>1, <4>2 DEF Relied
    <3> QED BY <3>1, <3>2
  <2> QED BY <2>1, <2>3, <2>4, <2>5
<1>17. ASSUME NEW r \in Rank, NEW x \in Blocks PROVE CountOK(r, x)' /\ SettledOK(r, x)'
  <2>1. CountOK(r, x) /\ SettledOK(r, x)
    BY DEF CombineInv
  <2>2. \A t \in tilesOf[x] : AnnouncedTo(t, r) => AnnouncedTo(t, r)'
    BY <1>10
  <2>3. SettledOK(r, x)'
    BY <1>2, <2>1, <2>2, SettledStays
  <2>4. /\ tilesOf' = tilesOf
        /\ (Relied(r, x) => flags'[r][Flag(x)] = IF iter[x[1]] = Epoch(r) THEN Cardinality(Announced(x, r)') ELSE 0)
              => CountOK(r, x)'
    <3>1. Pulled(r, x)' = Pulled(r, x) /\ Flag(x)' = Flag(x) /\ tilesOf' = tilesOf
      BY OperatorsStay, StaySame
    <3>2. Epoch(r)' = Epoch(r)
      BY <1>2 DEF Epoch
    <3> QED BY <1>2, <3>1, <3>2 DEF CountOK, Relied
  <2>5. CASE r = q /\ x = x0
    <3>1. CASE ~Relied(r, x)
      BY <2>3, <2>4, <3>1
    <3>2. CASE Relied(r, x)
      <4>1. iter[x[1]] = Epoch(r)
        BY <1>4, <1>16, <2>5, <3>2
      <4> DEFINE A == Announced(x, r)
      <4>2. flags[r][Flag(x)] = Cardinality(A)
        BY <2>1, <3>2, <4>1 DEF CountOK
      <4>3. Announced(x, r)' = A \cup {u}
        BY <1>4, <1>10, <2>4, <2>5 DEF Announced
      <4>4. IsFiniteSet(A) /\ u \notin A
        <5>1. IsFiniteSet(tilesOf[x]) /\ A \subseteq tilesOf[x]
          BY <1>t, BlockTiles DEF Announced
        <5> QED BY <1>15, <2>5, <5>1, FS_Subset DEF Announced
      <4> HIDE DEF A
      <4>5. Cardinality(A \cup {u}) = Cardinality(A) + 1
        BY <4>4, FS_AddElement
      <4>6. flags'[r][Flag(x)] = flags[r][Flag(x)] + 1
        <5>1. Flag(x) = f /\ Flag(x) \in 0 .. TotalFlags
          BY <1>4, <1>7, <2>5
        <5> QED BY <1>8, <2>5, <5>1
      <4>7. flags'[r][Flag(x)] = Cardinality(Announced(x, r)')
        BY <4>2, <4>3, <4>5, <4>6
      <4> QED BY <2>3, <2>4, <4>1, <4>7
    <3> QED BY <3>1, <3>2
  <2>6. CASE ~(r = q /\ x = x0)
    <3>1. \A t \in tilesOf[x] : AnnouncedTo(t, r)' <=> AnnouncedTo(t, r)
      <4> SUFFICES ASSUME NEW t \in tilesOf[x], t = u, r = q PROVE FALSE
        BY <1>10
      <4>1. FlagOf(c, Tile(u)) = Flag(x) /\ Tile(u) = work[c][i]
        <5>1. FlagOf(u[1], Tile(u)) = Flag(x)
          BY <1>t, BlockTiles
        <5>2. u[1] = c /\ Tile(u) = work[c][i]
          BY DEF Tile
        <5> QED BY <5>1, <5>2
      <4>2. Flag(x) = f
        BY <1>3, <4>1 DEF i
      <4> QED BY <1>7, <2>6, <4>2
    <3>2. Announced(x, r)' = Announced(x, r)
      BY <3>1, AnnouncedStays
    <3>3. flags'[r][Flag(x)] = flags[r][Flag(x)]
      <4>1. ~(r = q /\ Flag(x) = f) /\ Flag(x) \in 0 .. TotalFlags
        BY <1>7, <2>6
      <4> QED BY <1>8, <4>1
    <3> QED BY <2>1, <2>3, <2>4, <3>2, <3>3 DEF CountOK
  <2> QED BY <2>3, <2>5, <2>6
<1>18. ASSUME NEW r \in Rank, NEW k \in Combiner PROVE GatesOK(r, k)' /\ RingOK(r, k)'
  <2>1. GatesOK(r, k) /\ RingOK(r, k)
    BY DEF CombineInv
  <2>2. RingOK(r, k)'
    BY <1>2, <2>1, RingStays
  <2>3. gateIdx' = gateIdx /\ ItemsPerToken' = ItemsPerToken /\ NTiles' = NTiles /\ \A j : ChoiceOf(k, j)' = ChoiceOf(k, j)
    BY OperatorsStay, StaySame
  <2>4. ASSUME host[r] # "barrier", NEW g \in 0 .. gated[r][k] - 1, NEW j \in 0 .. TopK - 1
        PROVE  flags'[r][gateIdx[r][ChoiceOf(k, g * ItemsPerToken + j)]] >= NTiles
    <3> DEFINE z == ChoiceOf(k, g * ItemsPerToken + j)
    <3>1. flags[r][gateIdx[r][z]] >= NTiles
      BY <2>1, <2>4 DEF GatesOK
    <3>2. z \in DOMAIN shape.topk[r]
      <4>1. TokensOf(r, k) \in Nat /\ gated[r][k] \in Nat /\ gated[r][k] <= TokensOf(r, k)
        BY <1>t, <2>1, Choices DEF RingOK, CombineTypeOK, RingTypeOK
      <4>2. g \in 0 .. TokensOf(r, k) - 1
        BY <4>1
      <4> QED BY <1>t, <4>2, Choices
    <3> HIDE DEF z
    <3>3. gateIdx[r][z] \in 0 .. TotalFlags
      <4>1. block[r][z] \in Blocks /\ gateIdx[r][z] = Flag(block[r][z])
        BY <1>t, <3>2, Gates
      <4> QED BY <1>7, <4>1
    <3>4. NTiles \in Nat
      BY <1>t, ShapeFacts DEF NTiles, LaunchTables
    <3>5. flags'[r][gateIdx[r][z]] >= NTiles
      <4> DEFINE a == flags[r][gateIdx[r][z]]
      <4>1. a \in Nat /\ (flags'[r][gateIdx[r][z]] = a \/ flags'[r][gateIdx[r][z]] = a + 1)
        BY <1>8, <3>3
      <4>2. a >= NTiles
        BY <3>1
      <4> HIDE DEF a
      <4> QED BY <4>1, <4>2, <3>4
    <3> QED BY <3>5 DEF z
  <2>5. GatesOK(r, k)'
    BY <1>2, <2>3, <2>4 DEF GatesOK
  <2> QED BY <2>2, <2>5
<1>19. wrong' = {}
  BY <1>2 DEF CombineInv
<1> QED BY <1>2, <1>11, <1>12, <1>13, <1>14, <1>17, <1>18, <1>19 DEF CombineInv

-----------------------------------------------------------------------------
(* Open gates and the ring behind them.                                     *)

\* A row block whose flag has reached the number of n-tiles, and which the rank
\* may rely on, has been announced to it, and is therefore stored.
LEMMA OpenIsStored ==
  ASSUME CombineTypeOK, CombineInv, NEW r \in Rank, NEW x \in Blocks, host[r] # "barrier",
         Relied(r, x), flags[r][Flag(x)] >= NTiles
  PROVE  /\ iter[x[1]] = iter[r]
         /\ \A t \in tilesOf[x] : AnnouncedTo(t, r) /\ TileStored(t[1], t[2])
<1>t. LaunchTables /\ PullTables /\ GemmTypeOK
  BY DEF CombineTypeOK
<1>1. NTiles \in Nat \ {0} /\ IsFiniteSet(tilesOf[x]) /\ Cardinality(tilesOf[x]) = NTiles
  BY <1>t, ShapeFacts, BlockTiles DEF NTiles, LaunchTables
<1>2. flags[r][Flag(x)] = IF iter[x[1]] = Epoch(r) THEN Cardinality(Announced(x, r)) ELSE 0
  BY DEF CombineInv, CountOK
<1>3. iter[x[1]] = Epoch(r) /\ Cardinality(Announced(x, r)) >= NTiles
  BY <1>1, <1>2
<1>4. Epoch(r) = iter[r]
  BY DEF Epoch
<1>5. Announced(x, r) = tilesOf[x]
  <2> DEFINE A == Announced(x, r)  T == tilesOf[x]
  <2>1. A \subseteq T
    BY DEF Announced
  <2>2. IsFiniteSet(T) /\ Cardinality(T) = NTiles /\ Cardinality(A) >= NTiles
    BY <1>1, <1>3
  <2> HIDE DEF A, T
  <2>3. IsFiniteSet(A) /\ Cardinality(A) <= Cardinality(T) /\ (Cardinality(A) = Cardinality(T) => A = T)
    BY <2>1, <2>2, FS_Subset
  <2>4. Cardinality(A) \in Nat
    BY <2>3, FS_CardinalityType
  <2>5. A = T
    BY <1>1, <2>2, <2>3, <2>4
  <2> QED BY <2>5 DEF A, T
<1>6. ASSUME NEW t \in tilesOf[x] PROVE AnnouncedTo(t, r) /\ TileStored(t[1], t[2])
  <2>1. AnnouncedTo(t, r)
    BY <1>5 DEF Announced
  <2> DEFINE c == t[1]  i == t[2]  l == Latest(c)  n == EpiTiles
  <2>2. c \in Cta /\ i \in Nat \ {0}
    BY <1>t, BlockTiles
  <2>3. i <= l /\ l \in Int
    <3>1. pos[c] \in Nat
      BY <1>t, <2>2 DEF GemmTypeOK
    <3>2. l \in Int
      BY <3>1 DEF Latest
    <3>3. i < l \/ i = l
      BY <2>1 DEF AnnouncedTo
    <3> HIDE DEF i, l
    <3> QED BY <2>2, <3>2, <3>3
  <2>4. 1 .. l * n \subseteq stored[c]
    BY <2>2 DEF CombineInv, CtaOK
  <2>5. n \in Nat \ {0}
    BY <1>t, <2>2, CtaTypes
  <2> HIDE DEF c, i, l, n
  <2>6. (i - 1) * n + 1 .. i * n \subseteq 1 .. l * n
    <3>1. i * n <= l * n /\ l * n \in Int /\ i * n \in Int
      BY <2>2, <2>3, <2>5
    <3>2. (i - 1) * n \in Nat
      BY <2>2, <2>5
    <3> DEFINE a == (i - 1) * n  b == i * n  z == l * n
    <3> HIDE DEF a, b, z
    <3>3. a + 1 .. b \subseteq 1 .. z
      BY <3>1, <3>2 DEF a, b, z
    <3> QED BY <3>3 DEF a, b, z
  <2>7. TileStored(c, i)
    BY <2>4, <2>6 DEF TileStored, n
  <2> QED BY <2>1, <2>7 DEF c, i
<1> QED BY <1>3, <1>4, <1>6

\* The choices of a token whose gate is passed.
LEMMA PassedGate ==
  ASSUME CombineTypeOK, CombineInv, NEW r \in Rank, NEW k \in Combiner, host[r] # "barrier",
         NEW g \in 0 .. gated[r][k] - 1, NEW a \in 0 .. TopK - 1,
         NEW j, j = ChoiceOf(k, g * ItemsPerToken + a)
  PROVE  /\ j \in DOMAIN block[r] /\ block[r][j] \in Blocks
         /\ iter[block[r][j][1]] = iter[r]
         /\ \A t \in tilesOf[block[r][j]] : AnnouncedTo(t, r) /\ TileStored(t[1], t[2])
<1>t. LaunchTables /\ PullTables /\ RingTypeOK
  BY DEF CombineTypeOK
<1>1. TokensOf(r, k) \in Nat /\ gated[r][k] \in Nat /\ gated[r][k] <= TokensOf(r, k)
  BY <1>t, Choices DEF RingTypeOK, CombineInv, RingOK
<1>2. g \in 0 .. TokensOf(r, k) - 1
  BY <1>1
<1>3. j \in DOMAIN shape.topk[r]
  BY <1>t, <1>2, Choices
<1> DEFINE x == block[r][j]
<1>4. j \in DOMAIN block[r] /\ x \in Blocks /\ gateIdx[r][j] = Flag(x)
  BY <1>t, <1>3, Gates
<1>5. Relied(r, x)
  BY <1>4 DEF Relied, Pulled
<1>6. flags[r][Flag(x)] >= NTiles
  <2>1. flags[r][gateIdx[r][ChoiceOf(k, g * ItemsPerToken + a)]] >= NTiles
    BY DEF CombineInv, GatesOK
  <2> QED BY <1>4, <2>1
<1> HIDE DEF x
<1>7. iter[x[1]] = iter[r] /\ \A t \in tilesOf[x] : AnnouncedTo(t, r) /\ TileStored(t[1], t[2])
  BY <1>4, <1>5, <1>6, OpenIsStored
<1> QED BY <1>4, <1>7 DEF x

LEMMA ItemStored ==
  ASSUME CombineTypeOK, CombineInv, NEW r \in Rank, NEW k \in Combiner, host[r] # "barrier",
         NEW i \in 0 .. issued[r][k] - 1, NEW ns
  PROVE  StoredFor(r, block[r][ChoiceOf(k, i)], ns)
<1>t. LaunchTables /\ RingTypeOK
  BY DEF CombineTypeOK
<1>1. gated[r][k] \in Nat /\ issued[r][k] \in Nat /\ issued[r][k] <= gated[r][k] * ItemsPerToken
  BY <1>t DEF RingTypeOK, CombineInv, RingOK
<1>2. i \in Nat /\ i < gated[r][k] * ItemsPerToken
  <2>1. ItemsPerToken \in Nat
    BY <1>t, Choices
  <2> DEFINE v == gated[r][k] * ItemsPerToken
  <2>2. v \in Nat /\ issued[r][k] <= v
    BY <1>1, <2>1
  <2> HIDE DEF v
  <2>3. i \in Nat /\ i < v
    BY <1>1, <2>2
  <2> QED BY <2>3 DEF v
<1>3. PICK g \in 0 .. gated[r][k] - 1, a \in 0 .. TopK - 1 : ChoiceOf(k, i) = ChoiceOf(k, g * ItemsPerToken + a)
  BY <1>t, <1>1, <1>2, ItemParts
<1> DEFINE j == ChoiceOf(k, i)  x == block[r][j]
<1>4. iter[x[1]] = iter[r] /\ \A t \in tilesOf[x] : TileStored(t[1], t[2])
  BY <1>3, PassedGate
<1> QED BY <1>4 DEF StoredFor

\* A step of one combine CTA: the others, the GEMM and the hosts do not move.
LEMMA RingKeeps ==
  ASSUME CombineTypeOK, CombineInv, Constant, UNCHANGED vars, UNCHANGED hostVars,
         NEW r \in Rank, NEW k \in Combiner, Running(r),
         \A q \in Rank, h \in Combiner : ~(q = r /\ h = k) =>
           /\ gated'[q][h] = gated[q][h] /\ issued'[q][h] = issued[q][h] /\ landed'[q][h] = landed[q][h]
           /\ smem'[q][h] = smem[q][h] /\ added'[q][h] = added[q][h],
         GatesOK(r, k)', RingOK(r, k)', wrong' = {}
  PROVE  CombineInv'
<1>1. /\ host' = host /\ iter' = iter /\ flags' = flags /\ pos' = pos /\ groups' = groups /\ stored' = stored
      /\ prev' = prev /\ pub' = pub /\ fin' = fin
      /\ Cta' = Cta /\ Blocks' = Blocks /\ Combiner' = Combiner /\ Consumer' = Consumer /\ TotalFlags' = TotalFlags
      /\ shape' = shape
  BY StaySame DEF vars, hostVars
<1>2. \A c \in Cta : CtaOK(c)'
  <2> SUFFICES ASSUME NEW c \in Cta PROVE CtaOK(c)'
    OBVIOUS
  <2>1. CtaOK(c)
    BY DEF CombineInv
  <2> QED BY <1>1, <2>1, CtaStays
<1>3. ASSUME NEW q \in Rank PROVE HostOK(q)' /\ flags'[q][TotalFlags] = 0
  <2>1. HostOK(q) /\ flags[q][TotalFlags] = 0
    BY DEF CombineInv
  <2>2. (GemmFresh(q) => GemmFresh(q)') /\ (GemmEnded(q) => GemmEnded(q)') /\ \A h : ItemsOf(q, h)' = ItemsOf(q, h)
    <3>1. Idle' = Idle
      BY DEF Idle
    <3>2. (GemmFresh(q) => GemmFresh(q)') /\ (GemmEnded(q) => GemmEnded(q)')
      BY <1>1, <3>1 DEF GemmFresh, GemmEnded
    <3> QED BY <3>2, OperatorsStay
  <2>3. HostOK(q)'
    <3>1. CASE q = r
      <4>1. host[q] = "run" /\ iter[q] # 0
        BY <2>1, <3>1 DEF HostOK, Running
      <4> QED BY <1>1, <2>1, <4>1 DEF HostOK
    <3>2. CASE q # r
      <4>1. \A h \in Combiner : gated'[q][h] = gated[q][h] /\ added'[q][h] = added[q][h]
        BY <3>2
      <4> QED BY <1>1, <2>1, <2>2, <4>1 DEF HostOK
    <3> QED BY <3>1, <3>2
  <2> QED BY <1>1, <2>1, <2>3
<1>4. \A p, q \in Rank : AheadOK(p, q)'
  BY <1>1 DEF CombineInv, AheadOK
<1>5. ASSUME NEW q \in Rank, NEW x \in Blocks PROVE CountOK(q, x)' /\ SettledOK(q, x)'
  <2>1. CountOK(q, x) /\ SettledOK(q, x)
    BY DEF CombineInv
  <2>2. \A t \in tilesOf[x] : AnnouncedTo(t, q)' <=> AnnouncedTo(t, q)
    BY <1>1 DEF AnnouncedTo, Latest
  <2> QED BY <1>1, <2>1, <2>2, CountStays, SettledStays
<1>6. ASSUME NEW q \in Rank, NEW h \in Combiner PROVE GatesOK(q, h)' /\ RingOK(q, h)'
  <2>1. CASE q = r /\ h = k
    BY <2>1
  <2>2. CASE ~(q = r /\ h = k)
    <3>1. GatesOK(q, h) /\ RingOK(q, h)
      BY DEF CombineInv
    <3> QED BY <1>1, <2>2, <3>1, GatesStay, RingStays
  <2> QED BY <2>1, <2>2
<1> QED BY <1>1, <1>2, <1>3, <1>4, <1>5, <1>6 DEF CombineInv

LEMMA RingFacts ==
  ASSUME CombineTypeOK, CombineInv, NEW r \in Rank, NEW k \in Combiner
  PROVE  /\ gated[r][k] \in Nat /\ issued[r][k] \in Nat /\ landed[r][k] \in SUBSET Nat
         /\ smem[r][k] \in [0 .. shape.stages - 1 -> Int]
         /\ \A t \in Consumer : added[r][k][t] \in Nat
         /\ shape.stages \in Nat \ {0} /\ 1 \in Consumer
         /\ \A i \in Nat : StageOf(i) \in 0 .. shape.stages - 1
         /\ ItemsPerToken \in Nat \ {0} /\ TokensOf(r, k) \in Nat
         /\ GatesOK(r, k) /\ RingOK(r, k) /\ wrong = {}
<1>t. LaunchTables /\ RingTypeOK
  BY DEF CombineTypeOK
<1>1. /\ gated[r][k] \in Nat /\ issued[r][k] \in Nat /\ landed[r][k] \in SUBSET Nat
      /\ smem[r][k] \in [0 .. shape.stages - 1 -> Int]
      /\ \A t \in Consumer : added[r][k][t] \in Nat
  BY <1>t DEF RingTypeOK
<1>2. shape.stages \in Nat \ {0} /\ shape.threads \in Nat \ {0}
  BY <1>t, ShapeFacts DEF LaunchTables
<1>3. 1 \in Consumer
  BY <1>2 DEF Consumer
<1>4. \A i \in Nat : StageOf(i) \in 0 .. shape.stages - 1
  BY <1>2, DivMod DEF StageOf
<1> QED BY <1>t, <1>1, <1>2, <1>3, <1>4, Choices DEF CombineInv

LEMMA StageApart ==
  ASSUME shape.stages \in Nat \ {0}, NEW i \in Nat, NEW n \in Nat, i # n, StageOf(i) = StageOf(n)
  PROVE  i + shape.stages <= n \/ n + shape.stages <= i
<1>1. i % shape.stages = n % shape.stages /\ (i < n \/ n < i)
  BY DEF StageOf
<1>2. i < n => i + shape.stages <= n
  BY <1>1, Apart
<1>3. n < i => n + shape.stages <= i
  BY <1>1, Apart
<1> QED BY <1>1, <1>2, <1>3

\* The steps of one combine CTA.
LEMMA PassGateKeeps ==
  ASSUME CombineTypeOK, CombineInv, Constant, NEW r \in Rank, NEW k \in Combiner, Running(r), PassGate(r, k)
  PROVE  CombineInv'
<1> DEFINE G == gated[r][k]  n == ItemsPerToken  I == issued[r][k]
<1>1. /\ G < TokensOf(r, k) /\ I = G * n /\ \A f \in GateOf(r, k) : flags[r][f] >= NTiles
      /\ gated' = [gated EXCEPT ![r][k] = G + 1]
      /\ UNCHANGED vars /\ UNCHANGED hostVars
      /\ issued' = issued /\ landed' = landed /\ smem' = smem /\ added' = added /\ wrong' = wrong
  BY DEF PassGate
<1>2. /\ G \in Nat /\ n \in Nat \ {0} /\ TokensOf(r, k) \in Nat /\ GatesOK(r, k) /\ RingOK(r, k) /\ wrong = {}
  BY RingFacts
<1>3. gated \in [Rank -> [Combiner -> Nat]]
  BY DEF CombineTypeOK, RingTypeOK
<1>4. gated'[r][k] = G + 1 /\ \A q \in Rank, h \in Combiner : ~(q = r /\ h = k) => gated'[q][h] = gated[q][h]
  <2> HIDE DEF G
  <2> QED BY <1>1, <1>3
<1>5. /\ gateIdx' = gateIdx /\ ItemsPerToken' = n /\ NTiles' = NTiles /\ \A i : ChoiceOf(k, i)' = ChoiceOf(k, i)
      /\ TokensOf(r, k)' = TokensOf(r, k) /\ shape' = shape /\ \A i : StageOf(i)' = StageOf(i)
      /\ Consumer' = Consumer
  BY OperatorsStay, StaySame
<1>6. GatesOK(r, k)'
  <2>1. ASSUME NEW g \in 0 .. G, NEW j \in 0 .. TopK - 1
        PROVE  flags[r][gateIdx[r][ChoiceOf(k, g * n + j)]] >= NTiles
    <3>1. CASE g = G
      <4>1. gateIdx[r][ChoiceOf(k, G * n + j)] \in GateOf(r, k)
        BY DEF GateOf
      <4> QED BY <1>1, <3>1, <4>1
    <3>2. CASE g # G
      <4>1. g \in 0 .. G - 1
        BY <1>2, <3>2
      <4>2. host[r] # "barrier"
        BY DEF Running
      <4> QED BY <1>2, <4>1, <4>2 DEF GatesOK
    <3> QED BY <3>1, <3>2
  <2>2. 0 .. gated'[r][k] - 1 = 0 .. G
    BY <1>2, <1>4
  <2>3. flags' = flags
    BY <1>1 DEF vars
  <2> HIDE DEF G, n
  <2> QED BY <1>5, <2>1, <2>2, <2>3 DEF GatesOK
<1>7. RingOK(r, k)'
  <2> HIDE DEF G, n, I
  <2>1. I \in Nat /\ I <= (G + 1) * n
    <3>1. (G + 1) * n = G * n + n /\ G * n \in Nat
      BY <1>2
    <3> DEFINE v == G * n
    <3> HIDE DEF v
    <3>2. v \in Nat /\ I = v /\ (G + 1) * n = v + n
      BY <1>1, <3>1 DEF v
    <3> QED BY <3>2, <1>2
  <2>2. G + 1 <= TokensOf(r, k)
    BY <1>1, <1>2
  <2>3. gated'[r][k] <= TokensOf(r, k) /\ issued'[r][k] <= gated'[r][k] * n
    BY <1>1, <1>4, <2>1, <2>2 DEF I
  <2> QED BY <1>1, <1>2, <1>5, <2>3 DEF RingOK
<1> QED BY <1>1, <1>2, <1>4, <1>6, <1>7, RingKeeps

LEMMA PullKeeps ==
  ASSUME CombineTypeOK, CombineInv, Constant, NEW r \in Rank, NEW k \in Combiner, Running(r), Pull(r, k)
  PROVE  CombineInv'
<1> DEFINE i == issued[r][k]  m == shape.stages
<1>1. /\ i < gated[r][k] * ItemsPerToken /\ StageFree(r, k, i)
      /\ issued' = [issued EXCEPT ![r][k] = i + 1]
      /\ smem' = [smem EXCEPT ![r][k][StageOf(i)] = -1]
      /\ UNCHANGED vars /\ UNCHANGED hostVars
      /\ gated' = gated /\ landed' = landed /\ added' = added /\ wrong' = wrong
  BY DEF Pull
<1>2. /\ i \in Nat /\ m \in Nat \ {0} /\ landed[r][k] \in SUBSET Nat
      /\ \A t \in Consumer : added[r][k][t] \in Nat
      /\ GatesOK(r, k) /\ RingOK(r, k) /\ wrong = {}
      /\ \A j \in Nat : StageOf(j) \in 0 .. m - 1
      /\ gated[r][k] \in Nat /\ ItemsPerToken \in Nat
  BY RingFacts
<1>3. issued \in [Rank -> [Combiner -> Nat]] /\ smem \in [Rank -> [Combiner -> [0 .. m - 1 -> Int]]]
  BY DEF CombineTypeOK, RingTypeOK
<1> HIDE DEF i, m
<1> DEFINE s == StageOf(i)
<1>s. s \in 0 .. m - 1
  BY <1>2
<1>4. issued'[r][k] = i + 1 /\ \A q \in Rank, h \in Combiner : ~(q = r /\ h = k) => issued'[q][h] = issued[q][h]
  BY <1>1, <1>3
<1>5. /\ \A q \in Rank, h \in Combiner : ~(q = r /\ h = k) => smem'[q][h] = smem[q][h]
      /\ \A z \in 0 .. m - 1 : z # s => smem'[r][k][z] = smem[r][k][z]
  <2> HIDE DEF s
  <2>1. smem' = [smem EXCEPT ![r][k][s] = -1]
    BY <1>1 DEF s
  <2> QED BY <1>3, <2>1, <1>s
<1>6. GatesOK(r, k)'
  <2>1. flags' = flags /\ host' = host
    BY <1>1 DEF vars, hostVars
  <2> QED BY <1>1, <1>2, <2>1, GatesStay
<1>7. RingOK(r, k)'
  <2>1. /\ ItemsPerToken' = ItemsPerToken /\ TokensOf(r, k)' = TokensOf(r, k) /\ shape' = shape
        /\ \A j : StageOf(j)' = StageOf(j)
        /\ Consumer' = Consumer
    BY OperatorsStay, StaySame
  <2>2. i + 1 <= gated[r][k] * ItemsPerToken
    <3> DEFINE v == gated[r][k] * ItemsPerToken
    <3>1. v \in Nat /\ i < v
      BY <1>1, <1>2
    <3> HIDE DEF v
    <3>2. i + 1 <= v
      BY <3>1, <1>2
    <3> QED BY <3>2 DEF v
  <2>3. \A j \in landed[r][k] : j < i + 1 /\ j < i
    BY <1>2 DEF RingOK, i
  <2>4. ASSUME NEW t \in Consumer
        PROVE  /\ \A j \in 0 .. added[r][k][t] - 1 : j \in landed[r][k]
               /\ i + 1 <= added[r][k][t] + m
    <3>1. added[r][k][t] + m > i
      BY <1>1 DEF StageFree, m
    <3>2. \A j \in 0 .. added[r][k][t] - 1 : j \in landed[r][k]
      BY <1>2 DEF RingOK
    <3> QED BY <1>2, <3>1, <3>2
  <2>5. ASSUME NEW j \in landed[r][k], i + 1 <= j + m PROVE smem'[r][k][StageOf(j)] = j
    <3>1. j \in Nat /\ j < i
      BY <1>2, <2>3
    <3>2. StageOf(j) # s
      <4>1. SUFFICES ASSUME StageOf(j) = StageOf(i) PROVE FALSE
        OBVIOUS
      <4>2. j + m <= i \/ i + m <= j
        BY <1>2, <3>1, <4>1, StageApart DEF m
      <4> QED BY <1>2, <2>5, <3>1, <4>2
    <3>3. smem[r][k][StageOf(j)] = j
      <4>1. i <= j + m
        BY <1>2, <2>5, <3>1
      <4> QED BY <1>2, <4>1 DEF RingOK, i, m
    <3>4. StageOf(j) \in 0 .. m - 1
      BY <1>2, <3>1
    <3> HIDE DEF s
    <3> QED BY <1>5, <3>2, <3>3, <3>4
  <2>6. gated[r][k] <= TokensOf(r, k)
    BY <1>2 DEF RingOK
  <2> HIDE DEF s
  <2> QED BY <1>1, <1>4, <2>1, <2>2, <2>3, <2>4, <2>5, <2>6 DEF RingOK, m
<1> QED BY <1>1, <1>2, <1>4, <1>5, <1>6, <1>7, RingKeeps

LEMMA LandKeeps ==
  ASSUME CombineTypeOK, CombineInv, Constant, NEW r \in Rank, NEW k \in Combiner, Running(r), PullLands(r, k)
  PROVE  CombineInv'
<1> DEFINE n == issued[r][k]  m == shape.stages
<1>1. PICK i \in 0 .. issued[r][k] - 1 :
        /\ i \notin landed[r][k]
        /\ landed' = [landed EXCEPT ![r][k] = @ \cup {i}]
        /\ smem' = [smem EXCEPT ![r][k][StageOf(i)] =
             IF StoredFor(r, block[r][ChoiceOf(k, i)], TilesOfChunk(ChunkOf(i))) THEN i ELSE -1]
        /\ UNCHANGED vars /\ UNCHANGED hostVars
        /\ gated' = gated /\ issued' = issued /\ added' = added /\ wrong' = wrong
  BY DEF PullLands
<1>2. /\ n \in Nat /\ m \in Nat \ {0} /\ landed[r][k] \in SUBSET Nat
      /\ \A t \in Consumer : added[r][k][t] \in Nat
      /\ GatesOK(r, k) /\ RingOK(r, k) /\ wrong = {} /\ 1 \in Consumer
      /\ \A j \in Nat : StageOf(j) \in 0 .. m - 1
  BY RingFacts
<1>3. landed \in [Rank -> [Combiner -> SUBSET Nat]] /\ smem \in [Rank -> [Combiner -> [0 .. m - 1 -> Int]]]
  BY DEF CombineTypeOK, RingTypeOK
<1>i. i \in Nat /\ i < n
  BY <1>2
<1> DEFINE s == StageOf(i)
<1>s. s \in 0 .. m - 1
  BY <1>2, <1>i
<1>4. smem' = [smem EXCEPT ![r][k][s] = i]
  <2>1. StoredFor(r, block[r][ChoiceOf(k, i)], TilesOfChunk(ChunkOf(i)))
    BY ItemStored DEF Running
  <2> QED BY <1>1, <2>1
<1> HIDE DEF n, m, s
<1>5. /\ landed'[r][k] = landed[r][k] \cup {i}
      /\ \A q \in Rank, h \in Combiner : ~(q = r /\ h = k) => landed'[q][h] = landed[q][h]
  BY <1>1, <1>3
<1>6. /\ \A q \in Rank, h \in Combiner : ~(q = r /\ h = k) => smem'[q][h] = smem[q][h]
      /\ \A z \in 0 .. m - 1 : z # s => smem'[r][k][z] = smem[r][k][z]
      /\ smem'[r][k][s] = i
  BY <1>3, <1>4, <1>s
<1>7. GatesOK(r, k)'
  <2>1. flags' = flags /\ host' = host
    BY <1>1 DEF vars, hostVars
  <2> QED BY <1>1, <1>2, <2>1, GatesStay
<1>8. RingOK(r, k)'
  <2>1. /\ ItemsPerToken' = ItemsPerToken /\ TokensOf(r, k)' = TokensOf(r, k) /\ shape' = shape
        /\ \A j : StageOf(j)' = StageOf(j)
        /\ Consumer' = Consumer
    BY OperatorsStay, StaySame
  <2>2. /\ gated[r][k] <= TokensOf(r, k) /\ n <= gated[r][k] * ItemsPerToken
        /\ \A j \in landed[r][k] : j < n
        /\ \A t \in Consumer :
             /\ \A j \in 0 .. added[r][k][t] - 1 : j \in landed[r][k]
             /\ n <= added[r][k][t] + m
        /\ \A j \in landed[r][k] : n <= j + m => smem[r][k][StageOf(j)] = j
    BY <1>2 DEF RingOK, n, m
  <2>3. ASSUME NEW j \in landed[r][k] \cup {i}, n <= j + m PROVE smem'[r][k][StageOf(j)] = j
    <3>1. CASE j = i
      BY <1>6, <3>1 DEF s
    <3>2. CASE j # i
      <4>1. j \in landed[r][k] /\ j \in Nat /\ j < n /\ smem[r][k][StageOf(j)] = j
        BY <1>2, <2>2, <2>3, <3>2
      <4>2. StageOf(j) # s
        <5>1. SUFFICES ASSUME StageOf(j) = StageOf(i) PROVE FALSE
          BY DEF s
        <5>2. i + m <= j
          <6>1. j + m <= i \/ i + m <= j
            BY <1>2, <1>i, <3>2, <4>1, <5>1, StageApart DEF m
          <6> QED BY <1>2, <1>i, <2>3, <4>1, <6>1
        <5> DEFINE a == added[r][k][1]
        <5>3. a \in Nat /\ n <= a + m /\ \A y \in 0 .. a - 1 : y \in landed[r][k]
          BY <1>2, <2>2
        <5> HIDE DEF a
        <5>4. i \in 0 .. a - 1
          BY <1>2, <1>i, <4>1, <5>2, <5>3
        <5> QED BY <1>1, <5>3, <5>4
      <4>3. StageOf(j) \in 0 .. m - 1
        BY <1>2, <4>1
      <4> QED BY <1>6, <4>1, <4>2, <4>3
    <3> QED BY <3>1, <3>2
  <2>4. \A j \in landed[r][k] \cup {i} : j < n
    BY <1>i, <2>2
  <2> QED BY <1>1, <1>5, <2>1, <2>2, <2>3, <2>4 DEF RingOK, n, m
<1> QED BY <1>1, <1>2, <1>5, <1>6, <1>7, <1>8, RingKeeps

LEMMA AccumulateKeeps ==
  ASSUME CombineTypeOK, CombineInv, Constant, NEW r \in Rank, NEW k \in Combiner, NEW t \in Consumer,
         Running(r), Accumulate(r, k, t)
  PROVE  CombineInv'
<1> DEFINE i == added[r][k][t]  n == issued[r][k]  m == shape.stages
<1>1. /\ i \in landed[r][k]
      /\ wrong' = IF smem[r][k][StageOf(i)] = i THEN wrong ELSE wrong \cup {r}
      /\ added' = [added EXCEPT ![r][k][t] = i + 1]
      /\ UNCHANGED vars /\ UNCHANGED hostVars
      /\ gated' = gated /\ issued' = issued /\ landed' = landed /\ smem' = smem
  BY DEF Accumulate
<1>2. /\ n \in Nat /\ m \in Nat \ {0} /\ landed[r][k] \in SUBSET Nat
      /\ \A u \in Consumer : added[r][k][u] \in Nat
      /\ GatesOK(r, k) /\ RingOK(r, k) /\ wrong = {}
  BY RingFacts
<1>3. added \in [Rank -> [Combiner -> [Consumer -> Nat]]]
  BY DEF CombineTypeOK, RingTypeOK
<1>4. /\ gated[r][k] <= TokensOf(r, k) /\ n <= gated[r][k] * ItemsPerToken
      /\ \A j \in landed[r][k] : j < n
      /\ \A u \in Consumer :
           /\ \A j \in 0 .. added[r][k][u] - 1 : j \in landed[r][k]
           /\ n <= added[r][k][u] + m
      /\ \A j \in landed[r][k] : n <= j + m => smem[r][k][StageOf(j)] = j
  BY <1>2 DEF RingOK
<1>5. smem[r][k][StageOf(i)] = i
  BY <1>1, <1>4
<1> HIDE DEF i
<1>i. i \in Nat /\ n <= i + m /\ \A j \in 0 .. i - 1 : j \in landed[r][k]
  BY <1>2, <1>4 DEF i
<1> HIDE DEF n, m
<1>6. /\ added'[r][k][t] = i + 1 /\ \A u \in Consumer : u # t => added'[r][k][u] = added[r][k][u]
      /\ \A q \in Rank, h \in Combiner : ~(q = r /\ h = k) => added'[q][h] = added[q][h]
  BY <1>1, <1>3
<1>7. GatesOK(r, k)'
  <2>1. flags' = flags /\ host' = host
    BY <1>1 DEF vars, hostVars
  <2> QED BY <1>1, <1>2, <2>1, GatesStay
<1>8. RingOK(r, k)'
  <2>1. /\ ItemsPerToken' = ItemsPerToken /\ TokensOf(r, k)' = TokensOf(r, k) /\ shape' = shape
        /\ \A j : StageOf(j)' = StageOf(j)
        /\ Consumer' = Consumer
    BY OperatorsStay, StaySame
  <2>2. ASSUME NEW u \in Consumer
        PROVE  (\A j \in 0 .. added'[r][k][u] - 1 : j \in landed[r][k]) /\ n <= added'[r][k][u] + m
    <3>1. CASE u = t
      <4>1. \A j \in 0 .. i : j \in landed[r][k]
        <5> SUFFICES ASSUME NEW j \in 0 .. i PROVE j \in landed[r][k]
          OBVIOUS
        <5>1. j = i \/ j \in 0 .. i - 1
          BY <1>i
        <5> QED BY <1>1, <1>i, <5>1
      <4> QED BY <1>2, <1>6, <1>i, <3>1, <4>1
    <3>2. CASE u # t
      BY <1>4, <1>6, <3>2
    <3> QED BY <3>1, <3>2
  <2> QED BY <1>1, <1>4, <2>1, <2>2 DEF RingOK, n, m
<1>9. wrong' = {}
  BY <1>1, <1>2, <1>5
<1> QED BY <1>1, <1>6, <1>7, <1>8, <1>9, RingKeeps

-----------------------------------------------------------------------------
(* The hosts.                                                               *)

\* Steps of a host that leave the GEMM's CTAs and the ring of rank q alone.
LEMMA HostStays ==
  ASSUME Constant, NEW q \in Rank, HostOK(q), host'[q] = host[q], iter'[q] = iter[q],
         gated'[q] = gated[q], added'[q] = added[q],
         \A c \in Cta : c[1] = q => pos'[c] = pos[c] /\ pub'[c] = pub[c] /\ (c \in fin' <=> c \in fin)
  PROVE  HostOK(q)'
<1>1. Cta' = Cta /\ Combiner' = Combiner /\ Consumer' = Consumer /\ shape' = shape /\ Idle' = Idle
      /\ \A h : ItemsOf(q, h)' = ItemsOf(q, h)
  BY StaySame, OperatorsStay DEF Idle
<1>2. (GemmFresh(q) => GemmFresh(q)') /\ (GemmEnded(q) => GemmEnded(q)')
  BY <1>1 DEF GemmFresh, GemmEnded
<1> QED BY <1>1, <1>2 DEF HostOK

\* A host that has synchronised has announced to it all row blocks it pulled from.
LEMMA EndedIsSettled ==
  ASSUME CombineTypeOK, CombineInv, NEW r \in Rank, host[r] = "reset", iter[r] > 0,
         NEW x \in Blocks, Pulled(r, x)
  PROVE  iter[x[1]] = iter[r] /\ \A t \in tilesOf[x] : AnnouncedTo(t, r)
<1>t. LaunchTables /\ PullTables /\ HostTypeOK
  BY DEF CombineTypeOK
<1>1. PICK j \in DOMAIN block[r] : block[r][j] = x
  BY DEF Pulled
<1>2. j \in DOMAIN shape.topk[r]
  BY <1>t, Gates
<1>3. HostOK(r)
  BY DEF CombineInv
<1>4. shape.pulls
  <2>1. shape.pulls \in BOOLEAN /\ (~shape.pulls => shape.iters = 1) /\ shape.iters \in Nat
    BY <1>t, ShapeFacts DEF LaunchTables
  <2>2. iter[r] < shape.iters /\ iter[r] \in Nat
    BY <1>3, <1>t DEF HostOK, HostTypeOK
  <2> QED BY <2>1, <2>2
<1>5. PICK k \in Combiner : \E g \in 0 .. TokensOf(r, k) - 1, a \in 0 .. TopK - 1 :
               ChoiceOf(k, g * ItemsPerToken + a) = j
  BY <1>t, <1>2, <1>4, Choices
<1>6. PICK g \in 0 .. TokensOf(r, k) - 1, a \in 0 .. TopK - 1 : ChoiceOf(k, g * ItemsPerToken + a) = j
  BY <1>5
<1>7. /\ gated[r][k] \in Nat /\ issued[r][k] \in Nat /\ landed[r][k] \in SUBSET Nat /\ added[r][k][1] \in Nat
      /\ 1 \in Consumer /\ ItemsPerToken \in Nat \ {0} /\ TokensOf(r, k) \in Nat /\ RingOK(r, k)
  BY RingFacts
<1>8. g \in 0 .. gated[r][k] - 1
  <2> DEFINE n == ItemsPerToken  T == TokensOf(r, k)  G == gated[r][k]
  <2>1. added[r][k][1] = T * n
    BY <1>3, <1>7 DEF HostOK, ItemsOf
  <2>2. issued[r][k] <= G * n /\ (\A i \in landed[r][k] : i < issued[r][k])
        /\ \A i \in 0 .. added[r][k][1] - 1 : i \in landed[r][k]
    BY <1>7 DEF RingOK
  <2> HIDE DEF n, T, G
  <2>3. n \in Nat \ {0} /\ T \in Nat /\ G \in Nat /\ g \in 0 .. T - 1 /\ T * n \in Nat /\ G * n \in Nat
    BY <1>7 DEF n, T, G
  <2>4. T * n <= G * n
    <3> DEFINE p == T * n  q == G * n
    <3>1. p \in Nat /\ q \in Nat /\ added[r][k][1] = p /\ issued[r][k] <= q
      BY <2>1, <2>2, <2>3
    <3> HIDE DEF p, q
    <3>2. SUFFICES ASSUME p > q PROVE FALSE
      BY <3>1 DEF p, q
    <3>3. p - 1 \in landed[r][k]
      BY <2>2, <3>1, <3>2
    <3>4. p - 1 < issued[r][k]
      BY <2>2, <3>3
    <3> QED BY <3>1, <3>2, <3>4, <1>7
  <2>5. T <= G
    <3>1. SUFFICES ASSUME G + 1 <= T PROVE FALSE
      BY <2>3
    <3>2. (G + 1) * n <= T * n /\ (G + 1) * n = G * n + n
      BY <2>3, <3>1
    <3> QED BY <2>3, <2>4, <3>2
  <2> QED BY <2>3, <2>5 DEF G
<1>9. host[r] # "barrier"
  OBVIOUS
<1>10. iter[block[r][j][1]] = iter[r] /\ \A t \in tilesOf[block[r][j]] : AnnouncedTo(t, r)
  BY <1>6, <1>8, <1>9, PassedGate
<1> QED BY <1>1, <1>10

LEMMA ResetKeeps ==
  ASSUME CombineTypeOK, CombineInv, Constant, NEW r \in Rank, Reset(r)
  PROVE  CombineInv'
<1>t. LaunchTables /\ PullTables /\ GemmTypeOK /\ HostTypeOK
  BY DEF CombineTypeOK
<1>1. /\ host[r] = "reset" /\ host' = [host EXCEPT ![r] = "barrier"]
      /\ flags' = [flags EXCEPT ![r] = [f \in 0 .. TotalFlags |-> 0]]
      /\ iter' = iter /\ pos' = pos /\ groups' = groups /\ stored' = stored /\ prev' = prev /\ pub' = pub
      /\ fin' = fin /\ gated' = gated /\ issued' = issued /\ landed' = landed /\ smem' = smem
      /\ added' = added /\ wrong' = wrong
  BY DEF Reset, ringVars
<1>2. Cta' = Cta /\ Blocks' = Blocks /\ Combiner' = Combiner /\ Consumer' = Consumer /\ TotalFlags' = TotalFlags
      /\ shape' = shape /\ tilesOf' = tilesOf
  BY StaySame
<1>3. /\ host'[r] = "barrier" /\ \A f \in 0 .. TotalFlags : flags'[r][f] = 0
      /\ \A q \in Rank : q # r => host'[q] = host[q] /\ flags'[q] = flags[q]
  BY <1>1, <1>t DEF GemmTypeOK, HostTypeOK
<1>4. TotalFlags \in Nat /\ \A x \in Blocks : Flag(x) \in 0 .. TotalFlags - 1 /\ x[1] \in Rank
  BY <1>t, FlagFacts, BlockTiles
<1>5. \A c \in Cta : CtaOK(c)'
  <2> SUFFICES ASSUME NEW c \in Cta PROVE CtaOK(c)'
    OBVIOUS
  <2>1. CtaOK(c)
    BY DEF CombineInv
  <2> QED BY <1>1, <2>1, CtaStays
<1>6. ASSUME NEW q \in Rank PROVE HostOK(q)' /\ flags'[q][TotalFlags] = 0
  <2>1. HostOK(q) /\ flags[q][TotalFlags] = 0
    BY DEF CombineInv
  <2>2. CASE q # r
    <3>1. HostOK(q)'
      BY <1>1, <1>3, <2>1, <2>2, HostStays
    <3> QED BY <1>3, <2>1, <2>2, <3>1
  <2>3. CASE q = r
    <3>1. Idle' = Idle /\ \A h : ItemsOf(q, h)' = ItemsOf(q, h)
      BY OperatorsStay DEF Idle
    <3>2. (GemmFresh(q) => GemmFresh(q)') /\ (GemmEnded(q) => GemmEnded(q)')
      BY <1>1, <1>2, <3>1 DEF GemmFresh, GemmEnded
    <3>3. HostOK(q)'
      BY <1>1, <1>2, <1>3, <2>1, <2>3, <3>1, <3>2 DEF HostOK
    <3> QED BY <1>3, <1>4, <2>3, <3>3
  <2> QED BY <2>2, <2>3
<1>7. \A p, q \in Rank : AheadOK(p, q)'
  <2> SUFFICES ASSUME NEW p \in Rank, NEW q \in Rank PROVE AheadOK(p, q)'
    OBVIOUS
  <2>1. AheadOK(p, q)
    BY DEF CombineInv
  <2> QED BY <1>1, <1>3, <2>1 DEF AheadOK
<1>8. ASSUME NEW q \in Rank, NEW x \in Blocks PROVE CountOK(q, x)' /\ SettledOK(q, x)'
  <2>1. CountOK(q, x) /\ SettledOK(q, x)
    BY DEF CombineInv
  <2>2. \A t \in tilesOf[x] : AnnouncedTo(t, q)' <=> AnnouncedTo(t, q)
    BY <1>1 DEF AnnouncedTo, Latest
  <2>3. CASE q # r
    BY <1>1, <1>3, <2>1, <2>2, <2>3, CountStays, SettledStays
  <2>4. CASE q = r
    <3>1. Flag(x)' = Flag(x) /\ Pulled(q, x)' = Pulled(q, x)
      BY OperatorsStay
    <3>2. flags'[q][Flag(x)] = 0
      BY <1>3, <1>4, <2>4
    <3>3. iter[x[1]] # iter[r] + 1
      <4>1. AheadOK(x[1], r) /\ iter[x[1]] \in Nat /\ iter[r] \in Nat
        BY <1>t, <1>4 DEF CombineInv, HostTypeOK
      <4> QED BY <1>1, <4>1 DEF AheadOK
    <3>4. Epoch(q)' = iter[r] + 1
      BY <1>1, <1>3, <2>4 DEF Epoch
    <3>5. CountOK(q, x)'
      BY <1>1, <3>1, <3>2, <3>3, <3>4 DEF CountOK
    <3>6. SettledOK(q, x)'
      <4>1. ASSUME iter[r] > 0, Pulled(r, x)
            PROVE  iter[x[1]] = iter[r] /\ \A t \in tilesOf[x] : AnnouncedTo(t, r)
        BY <1>1, <4>1, EndedIsSettled
      <4>2. iter[r] \in Nat
        BY <1>t DEF HostTypeOK
      <4> QED BY <1>1, <1>2, <2>2, <2>4, <3>1, <4>1, <4>2 DEF SettledOK
    <3> QED BY <3>5, <3>6
  <2> QED BY <2>3, <2>4
<1>9. ASSUME NEW q \in Rank, NEW k \in Combiner PROVE GatesOK(q, k)' /\ RingOK(q, k)'
  <2>1. GatesOK(q, k) /\ RingOK(q, k)
    BY DEF CombineInv
  <2>2. host'[q] # "barrier" => host[q] # "barrier" /\ flags'[q] = flags[q]
    BY <1>3
  <2> QED BY <1>1, <2>1, <2>2, GatesStay, RingStays
<1>10. wrong' = {}
  BY <1>1 DEF CombineInv
<1> QED BY <1>2, <1>5, <1>6, <1>7, <1>8, <1>9, <1>10 DEF CombineInv

LEMMA SynchronizeKeeps ==
  ASSUME CombineTypeOK, CombineInv, Constant, NEW r \in Rank, Synchronize(r)
  PROVE  CombineInv'
<1>t. HostTypeOK
  BY DEF CombineTypeOK
<1>1. /\ host[r] = "run" /\ GemmEnded(r) /\ \A k \in Combiner, t \in Consumer : added[r][k][t] = ItemsOf(r, k)
      /\ host' = [host EXCEPT ![r] = IF iter[r] = shape.iters THEN "end" ELSE "reset"]
      /\ iter' = iter /\ pos' = pos /\ groups' = groups /\ stored' = stored /\ prev' = prev /\ pub' = pub
      /\ fin' = fin /\ flags' = flags /\ gated' = gated /\ issued' = issued /\ landed' = landed
      /\ smem' = smem /\ added' = added /\ wrong' = wrong
  BY DEF Synchronize, GemmEnded, vars, ringVars
<1>2. Cta' = Cta /\ Blocks' = Blocks /\ Combiner' = Combiner /\ Consumer' = Consumer /\ TotalFlags' = TotalFlags
      /\ shape' = shape
  BY StaySame
<1>3. /\ host'[r] = IF iter[r] = shape.iters THEN "end" ELSE "reset"
      /\ \A q \in Rank : q # r => host'[q] = host[q]
  BY <1>1, <1>t DEF HostTypeOK
<1>b. \A q \in Rank : host'[q] = "barrier" <=> host[q] = "barrier"
  BY <1>1, <1>3
<1>5. \A c \in Cta : CtaOK(c)'
  <2> SUFFICES ASSUME NEW c \in Cta PROVE CtaOK(c)'
    OBVIOUS
  <2>1. CtaOK(c)
    BY DEF CombineInv
  <2> QED BY <1>1, <2>1, CtaStays
<1>6. ASSUME NEW q \in Rank PROVE HostOK(q)' /\ flags'[q][TotalFlags] = 0
  <2>1. HostOK(q) /\ flags[q][TotalFlags] = 0
    BY DEF CombineInv
  <2>2. CASE q # r
    <3>1. HostOK(q)'
      BY <1>1, <1>3, <2>1, <2>2, HostStays
    <3> QED BY <1>1, <2>1, <3>1
  <2>3. CASE q = r
    <3>1. Idle' = Idle /\ \A h : ItemsOf(q, h)' = ItemsOf(q, h)
      BY OperatorsStay DEF Idle
    <3>2. GemmEnded(q)'
      BY <1>1, <1>2, <2>3, <3>1 DEF GemmEnded
    <3>3. iter[q] > 0 /\ iter[q] # 0 /\ iter[q] <= shape.iters /\ iter[q] \in Nat /\ shape.iters \in Nat
      <4>1. iter[q] > 0 /\ iter[q] <= shape.iters
        BY <1>1, <2>1, <2>3 DEF HostOK
      <4>2. shape.iters \in Nat
        BY ShapeFacts DEF LaunchTables, CombineTypeOK
      <4> QED BY <1>t, <4>1, <4>2 DEF HostTypeOK
    <3>4. host'[q] \in {"reset", "barrier"} => iter[q] < shape.iters
      BY <1>3, <2>3, <3>3
    <3>5. HostOK(q)'
      BY <1>1, <1>2, <2>3, <3>1, <3>2, <3>3, <3>4 DEF HostOK
    <3> QED BY <1>1, <2>1, <3>5
  <2> QED BY <2>2, <2>3
<1>7. \A p, q \in Rank : AheadOK(p, q)'
  <2> SUFFICES ASSUME NEW p \in Rank, NEW q \in Rank PROVE AheadOK(p, q)'
    OBVIOUS
  <2>1. AheadOK(p, q)
    BY DEF CombineInv
  <2> QED BY <1>1, <1>b, <2>1 DEF AheadOK
<1>8. ASSUME NEW q \in Rank, NEW x \in Blocks PROVE CountOK(q, x)' /\ SettledOK(q, x)'
  <2>1. CountOK(q, x) /\ SettledOK(q, x)
    BY DEF CombineInv
  <2>2. \A t \in tilesOf[x] : AnnouncedTo(t, q)' <=> AnnouncedTo(t, q)
    BY <1>1 DEF AnnouncedTo, Latest
  <2> QED BY <1>1, <1>b, <2>1, <2>2, CountStays, SettledStays
<1>9. ASSUME NEW q \in Rank, NEW k \in Combiner PROVE GatesOK(q, k)' /\ RingOK(q, k)'
  <2>1. GatesOK(q, k) /\ RingOK(q, k)
    BY DEF CombineInv
  <2>2. host'[q] # "barrier" => host[q] # "barrier" /\ flags'[q] = flags[q]
    BY <1>1, <1>b
  <2> QED BY <1>1, <2>1, <2>2, GatesStay, RingStays
<1>10. wrong' = {}
  BY <1>1 DEF CombineInv
<1> QED BY <1>2, <1>5, <1>6, <1>7, <1>8, <1>9, <1>10 DEF CombineInv

LEMMA LaunchKeeps ==
  ASSUME CombineTypeOK, CombineInv, Constant, NEW r \in Rank, Launch(r)
  PROVE  CombineInv'
<1>t. LaunchTables /\ PullTables /\ GemmTypeOK /\ HostTypeOK /\ RingTypeOK
  BY DEF CombineTypeOK
<1>1. /\ host[r] = "barrier" /\ \A q \in Rank : AtBarrier(q, r)
      /\ host' = [host EXCEPT ![r] = "run"] /\ iter' = [iter EXCEPT ![r] = @ + 1]
      /\ pos' = Restart(r, pos, 1) /\ groups' = Restart(r, groups, 0) /\ stored' = Restart(r, stored, {})
      /\ prev' = Restart(r, prev, [flag |-> 0, valid |-> FALSE]) /\ fin' = {c \in fin : c[1] # r}
      /\ FreshRing(r) /\ pub' = pub /\ flags' = flags /\ wrong' = wrong
  BY DEF Launch
<1>2. Cta' = Cta /\ Blocks' = Blocks /\ Combiner' = Combiner /\ Consumer' = Consumer /\ TotalFlags' = TotalFlags
      /\ shape' = shape /\ tilesOf' = tilesOf /\ EpiTiles' = EpiTiles /\ work' = work
  BY StaySame
<1>3. /\ host'[r] = "run" /\ iter'[r] = iter[r] + 1 /\ iter[r] \in Nat
      /\ \A q \in Rank : q # r => host'[q] = host[q] /\ iter'[q] = iter[q]
      /\ \A q \in Rank : iter[q] \in Nat
  BY <1>1, <1>t DEF HostTypeOK
<1>4. \A c \in Cta :
        IF c[1] = r
        THEN /\ pos'[c] = 1 /\ groups'[c] = 0 /\ stored'[c] = {} /\ prev'[c] = [flag |-> 0, valid |-> FALSE]
             /\ c \notin fin'
        ELSE /\ pos'[c] = pos[c] /\ groups'[c] = groups[c] /\ stored'[c] = stored[c] /\ prev'[c] = prev[c]
             /\ c \in fin' <=> c \in fin
  BY <1>1 DEF Restart
<1>5. \A c \in Cta : c[1] = r => pub[c] = Idle
  <2>1. HostOK(r)
    BY DEF CombineInv
  <2>2. iter[r] = 0 \/ iter[r] > 0
    BY <1>3
  <2> QED BY <1>1, <2>1, <2>2 DEF HostOK, GemmFresh, GemmEnded
<1>6. /\ \A q \in Rank : q # r => /\ gated'[q] = gated[q] /\ issued'[q] = issued[q] /\ landed'[q] = landed[q]
                                  /\ smem'[q] = smem[q] /\ added'[q] = added[q]
      /\ \A k \in Combiner : /\ gated'[r][k] = 0 /\ issued'[r][k] = 0 /\ landed'[r][k] = {}
                             /\ \A t \in Consumer : added'[r][k][t] = 0
  BY <1>1, <1>t DEF FreshRing, RingTypeOK
<1>7. \A q \in Rank : iter[q] >= iter[r] /\ (iter[q] = iter[r] => host[q] = "barrier")
  <2> SUFFICES ASSUME NEW q \in Rank PROVE iter[q] >= iter[r] /\ (iter[q] = iter[r] => host[q] = "barrier")
    OBVIOUS
  <2>1. AtBarrier(q, r)
    BY <1>1
  <2> QED BY <1>3, <2>1 DEF AtBarrier
<1>8. \A c \in Cta : CtaOK(c)'
  <2> SUFFICES ASSUME NEW c \in Cta PROVE CtaOK(c)'
    OBVIOUS
  <2>1. CASE c[1] # r
    <3>1. CtaOK(c) /\ pos'[c] = pos[c] /\ groups'[c] = groups[c] /\ stored'[c] = stored[c]
          /\ prev'[c] = prev[c] /\ pub'[c] = pub[c] /\ (c \in fin' <=> c \in fin)
      BY <1>1, <1>4, <2>1 DEF CombineInv
    <3> QED BY <3>1, CtaStays
  <2>2. CASE c[1] = r
    <3>1. /\ pos'[c] = 1 /\ groups'[c] = 0 /\ stored'[c] = {} /\ prev'[c] = [flag |-> 0, valid |-> FALSE]
          /\ c \notin fin' /\ pub'[c] = Idle /\ Idle' = Idle
      BY <1>1, <1>4, <1>5, <2>2 DEF Idle
    <3>2. EpiTiles \in Nat \ {0} /\ Len(work[c]) \in Nat
      BY <1>t, CtaTypes
    <3>3. Latest(c)' = -1
      BY <3>1 DEF Latest
    <3>4. (1 .. Latest(c) * EpiTiles \subseteq stored[c])'
      <4>1. (-1) * EpiTiles < 1 /\ (-1) * EpiTiles \in Int
        BY <3>2
      <4>2. 1 .. (-1) * EpiTiles = {}
        BY <4>1
      <4> QED BY <1>2, <3>1, <3>3, <4>2
    <3>5. ((pos[c] - 1) * EpiTiles <= groups[c])'
      <4>1. (1 - 1) * EpiTiles = 0
        BY <3>2
      <4> QED BY <1>2, <3>1, <4>1
    <3>6. (pos[c] <= Len(work[c]) + 1)' /\ ~(pos[c] > 1)'
      BY <1>2, <3>1, <3>2
    <3>7. ~prev'[c].valid
      BY <3>1
    <3> QED BY <3>1, <3>4, <3>5, <3>6, <3>7 DEF CtaOK
  <2> QED BY <2>1, <2>2
<1>9. ASSUME NEW q \in Rank PROVE HostOK(q)' /\ flags'[q][TotalFlags] = 0
  <2>1. HostOK(q) /\ flags[q][TotalFlags] = 0
    BY DEF CombineInv
  <2>2. CASE q # r
    <3>1. \A c \in Cta : c[1] = q => pos'[c] = pos[c] /\ pub'[c] = pub[c] /\ (c \in fin' <=> c \in fin)
      BY <1>1, <1>4, <2>2
    <3>2. HostOK(q)'
      BY <1>3, <1>6, <2>1, <2>2, <3>1, HostStays
    <3> QED BY <1>1, <2>1, <3>2
  <2>3. CASE q = r
    <3>1. iter[r] < shape.iters /\ shape.iters \in Nat
      <4>1. shape.iters \in Nat
        BY <1>t, ShapeFacts DEF LaunchTables
      <4> QED BY <1>1, <2>1, <2>3, <4>1 DEF HostOK
    <3>2. iter'[q] <= shape.iters /\ iter'[q] > 0 /\ iter'[q] # 0 /\ host'[q] = "run"
      BY <1>3, <2>3, <3>1
    <3>3. HostOK(q)'
      BY <1>2, <3>2 DEF HostOK
    <3> QED BY <1>1, <2>1, <3>3
  <2> QED BY <2>2, <2>3
<1>10. ASSUME NEW p \in Rank, NEW q \in Rank PROVE AheadOK(p, q)'
  <2>1. AheadOK(p, q)
    BY DEF CombineInv
  <2>2. CASE p = r /\ q = r
    BY <1>3, <2>2 DEF AheadOK
  <2>3. CASE p = r /\ q # r
    BY <1>3, <1>7, <2>3 DEF AheadOK
  <2>4. CASE p # r /\ q = r
    <3>1. ~(iter[p] > iter[r] + 1)
      BY <1>3, <2>1, <2>4 DEF AheadOK
    <3> QED BY <1>3, <2>4, <3>1 DEF AheadOK
  <2>5. CASE p # r /\ q # r
    BY <1>3, <2>1, <2>5 DEF AheadOK
  <2> QED BY <2>2, <2>3, <2>4, <2>5
<1>11. ASSUME NEW q \in Rank, NEW x \in Blocks PROVE CountOK(q, x)' /\ SettledOK(q, x)'
  <2>1. CountOK(q, x) /\ SettledOK(q, x) /\ x[1] \in Rank
    BY <1>t, BlockTiles DEF CombineInv
  <2>2. Flag(x)' = Flag(x) /\ Pulled(q, x)' = Pulled(q, x)
    BY OperatorsStay
  <2>3. Epoch(q)' = Epoch(q)
    BY <1>1, <1>3 DEF Epoch
  <2>4. /\ (Relied(q, x) => flags[q][Flag(x)] = IF iter'[x[1]] = Epoch(q) THEN Cardinality(Announced(x, q)') ELSE 0)
              => CountOK(q, x)'
    BY <1>1, <2>2, <2>3 DEF CountOK, Relied
  <2>5. CASE x[1] = r
    <3>1. iter[r] # Epoch(q)
      <4>1. Epoch(q) = IF host[q] = "barrier" THEN iter[q] + 1 ELSE iter[q]
        BY DEF Epoch
      <4> QED BY <1>3, <1>7, <4>1
    <3>2. Relied(q, x) => flags[q][Flag(x)] = 0
      BY <2>1, <2>5, <3>1 DEF CountOK
    <3>3. Announced(x, q)' = {}
      <4>1. ASSUME NEW t \in tilesOf[x] PROVE ~AnnouncedTo(t, q)'
        <5>1. t[1] \in Cta /\ t[2] \in Nat \ {0} /\ t[1][1] = r
          BY <1>t, <2>5, BlockTiles
        <5>2. Latest(t[1])' = -1
          BY <1>4, <5>1 DEF Latest
        <5> QED BY <5>1, <5>2 DEF AnnouncedTo
      <4> QED BY <1>2, <4>1 DEF Announced
    <3>4. Cardinality({}) = 0
      BY FS_EmptySet
    <3>5. CountOK(q, x)'
      BY <2>4, <3>2, <3>3, <3>4
    <3>6. SettledOK(q, x)'
      <4>1. CASE q = r
        BY <1>3, <4>1 DEF SettledOK
      <4>2. CASE q # r
        <5>1. host[q] = "barrier" /\ iter[q] > 0 /\ Pulled(q, x) => iter[r] >= iter[q]
          BY <2>1, <2>5 DEF SettledOK
        <5>2. host[q] = "barrier" /\ iter[q] > 0 /\ Pulled(q, x) => iter'[r] >= iter[q] /\ iter'[r] # iter[q]
          BY <1>3, <5>1
        <5> QED BY <1>3, <2>2, <2>5, <4>2, <5>2 DEF SettledOK
      <4> QED BY <4>1, <4>2
    <3> QED BY <3>5, <3>6
  <2>6. CASE x[1] # r
    <3>1. \A t \in tilesOf[x] : AnnouncedTo(t, q)' <=> AnnouncedTo(t, q)
      <4> SUFFICES ASSUME NEW t \in tilesOf[x] PROVE AnnouncedTo(t, q)' <=> AnnouncedTo(t, q)
        OBVIOUS
      <4>1. t[1] \in Cta /\ t[1][1] # r
        BY <1>t, <2>6, BlockTiles
      <4>2. pos'[t[1]] = pos[t[1]] /\ (t[1] \in fin' <=> t[1] \in fin)
        BY <1>4, <4>1
      <4>3. Latest(t[1])' = Latest(t[1])
        BY <4>2 DEF Latest
      <4> QED BY <1>1, <4>3 DEF AnnouncedTo
    <3>2. Announced(x, q)' = Announced(x, q)
      BY <3>1, AnnouncedStays
    <3>3. iter'[x[1]] = iter[x[1]]
      BY <1>3, <2>1, <2>6
    <3>4. CountOK(q, x)'
      BY <2>1, <2>4, <3>2, <3>3 DEF CountOK
    <3>5. SettledOK(q, x)'
      <4>1. CASE q = r
        BY <1>3, <4>1 DEF SettledOK
      <4>2. CASE q # r
        BY <1>3, <2>1, <3>1, <3>3, <4>2, SettledStays
      <4> QED BY <4>1, <4>2
    <3> QED BY <3>4, <3>5
  <2> QED BY <2>5, <2>6
<1>12. ASSUME NEW q \in Rank, NEW k \in Combiner PROVE GatesOK(q, k)' /\ RingOK(q, k)'
  <2>1. CASE q # r
    <3>1. GatesOK(q, k) /\ RingOK(q, k)
      BY DEF CombineInv
    <3>2. host'[q] # "barrier" => host[q] # "barrier" /\ flags'[q] = flags[q]
      BY <1>1, <1>3, <2>1
    <3> QED BY <1>6, <2>1, <3>1, <3>2, GatesStay, RingStays
  <2>2. CASE q = r
    <3>1. /\ gated'[q][k] = 0 /\ issued'[q][k] = 0 /\ landed'[q][k] = {}
          /\ \A t \in Consumer : added'[q][k][t] = 0
      BY <1>6, <2>2
    <3>2. GatesOK(q, k)'
      BY <3>1 DEF GatesOK
    <3>3. /\ ItemsPerToken' = ItemsPerToken /\ TokensOf(q, k)' = TokensOf(q, k)
          /\ ItemsPerToken \in Nat /\ TokensOf(q, k) \in Nat /\ shape.stages \in Nat
      BY RingFacts, OperatorsStay
    <3>4. 0 * ItemsPerToken = 0
      BY <3>3
    <3>5. RingOK(q, k)'
      BY <1>2, <3>1, <3>3, <3>4 DEF RingOK
    <3> QED BY <3>2, <3>5
  <2> QED BY <2>1, <2>2
<1>13. wrong' = {}
  BY <1>1 DEF CombineInv
<1> QED BY <1>2, <1>8, <1>9, <1>10, <1>11, <1>12, <1>13 DEF CombineInv

-----------------------------------------------------------------------------
(* The theorems.                                                            *)

LEMMA InvInitially == CombineInit => CombineInv
<1> SUFFICES ASSUME CombineInit PROVE CombineInv
  OBVIOUS
<1>t. CombineTypeOK /\ LaunchTables /\ PullTables /\ GemmTypeOK
  BY TypeInitially DEF CombineTypeOK
<1>1. /\ pos = [c \in Cta |-> 1] /\ groups = [c \in Cta |-> 0] /\ stored = [c \in Cta |-> {}]
      /\ prev = [c \in Cta |-> [flag |-> 0, valid |-> FALSE]] /\ pub = [c \in Cta |-> Idle] /\ fin = {}
      /\ flags = [r \in Rank |-> [f \in 0 .. TotalFlags |-> 0]]
      /\ host = [r \in Rank |-> "reset"] /\ iter = [r \in Rank |-> 0]
      /\ gated = [r \in Rank |-> [k \in Combiner |-> 0]]
      /\ issued = [r \in Rank |-> [k \in Combiner |-> 0]]
      /\ landed = [r \in Rank |-> [k \in Combiner |-> {}]]
      /\ added = [r \in Rank |-> [k \in Combiner |-> [t \in Consumer |-> 0]]]
      /\ wrong = {}
  BY DEF CombineInit, CombineState, Init
<1>2. \A c \in Cta : Latest(c) = -1
  BY <1>1 DEF Latest
<1>3. ASSUME NEW c \in Cta PROVE CtaOK(c)
  <2>1. EpiTiles \in Nat \ {0} /\ Len(work[c]) \in Nat
    BY <1>t, CtaTypes
  <2>2. pos[c] = 1 /\ groups[c] = 0 /\ stored[c] = {} /\ prev[c] = [flag |-> 0, valid |-> FALSE]
        /\ pub[c] = Idle /\ c \notin fin
    BY <1>1
  <2>3. 1 .. Latest(c) * EpiTiles \subseteq stored[c]
    <3>1. (-1) * EpiTiles < 1 /\ (-1) * EpiTiles \in Int
      BY <2>1
    <3>2. 1 .. (-1) * EpiTiles = {}
      BY <3>1
    <3> QED BY <1>2, <3>2
  <2>4. (pos[c] - 1) * EpiTiles <= groups[c]
    BY <2>1, <2>2
  <2>5. ~prev[c].valid /\ pos[c] <= Len(work[c]) + 1 /\ ~(pos[c] > 1)
    BY <2>1, <2>2
  <2> QED BY <2>2, <2>3, <2>4, <2>5 DEF CtaOK
<1>4. TotalFlags \in Nat /\ \A x \in Blocks : Flag(x) \in 0 .. TotalFlags - 1 /\ x[1] \in Rank
  BY <1>t, FlagFacts, BlockTiles
<1>5. ASSUME NEW r \in Rank PROVE HostOK(r) /\ flags[r][TotalFlags] = 0
  <2>1. shape.iters \in Nat \ {0}
    BY <1>t, ShapeFacts DEF LaunchTables
  <2>2. GemmFresh(r) /\ \A k \in Combiner : gated[r][k] = 0
    BY <1>1 DEF GemmFresh
  <2>3. iter[r] = 0 /\ host[r] = "reset"
    BY <1>1
  <2>4. HostOK(r)
    BY <2>1, <2>2, <2>3 DEF HostOK
  <2> QED BY <1>1, <1>4, <2>4
<1>6. \A q, r \in Rank : AheadOK(q, r)
  BY <1>1 DEF AheadOK
<1>7. ASSUME NEW r \in Rank, NEW x \in Blocks PROVE CountOK(r, x) /\ SettledOK(r, x)
  <2>1. Announced(x, r) = {}
    <3>1. ASSUME NEW t \in tilesOf[x] PROVE ~AnnouncedTo(t, r)
      <4>1. t[1] \in Cta /\ t[2] \in Nat \ {0}
        BY <1>t, BlockTiles
      <4> QED BY <1>2, <4>1 DEF AnnouncedTo
    <3> QED BY <3>1 DEF Announced
  <2>2. flags[r][Flag(x)] = 0
    BY <1>1, <1>4
  <2>3. Cardinality({}) = 0
    BY FS_EmptySet
  <2>4. CountOK(r, x)
    BY <2>1, <2>2, <2>3 DEF CountOK
  <2>5. SettledOK(r, x)
    BY <1>1 DEF SettledOK
  <2> QED BY <2>4, <2>5
<1>8. ASSUME NEW r \in Rank, NEW k \in Combiner PROVE GatesOK(r, k) /\ RingOK(r, k)
  <2>1. gated[r][k] = 0 /\ issued[r][k] = 0 /\ landed[r][k] = {} /\ \A t \in Consumer : added[r][k][t] = 0
    BY <1>1
  <2>2. GatesOK(r, k)
    BY <2>1 DEF GatesOK
  <2>3. ItemsPerToken \in Nat /\ TokensOf(r, k) \in Nat /\ shape.stages \in Nat
    BY <1>t, Choices, ShapeFacts DEF LaunchTables
  <2>4. 0 * ItemsPerToken = 0
    BY <2>3
  <2>5. RingOK(r, k)
    BY <2>1, <2>3, <2>4 DEF RingOK
  <2> QED BY <2>2, <2>5
<1> QED BY <1>1, <1>3, <1>5, <1>6, <1>7, <1>8 DEF CombineInv

LEMMA InvStep == CombineTypeOK /\ CombineInv /\ [CombineNext]_combineVars => CombineInv'
<1> SUFFICES ASSUME CombineTypeOK, CombineInv, [CombineNext]_combineVars PROVE CombineInv'
  OBVIOUS
<1>0. Constant
  BY StepConstant DEF combineVars, vars, hostVars, Constant
<1>t. LaunchTables /\ GemmTypeOK
  BY DEF CombineTypeOK
<1>1. CASE UNCHANGED combineVars
  <2>1. /\ host' = host /\ iter' = iter /\ gated' = gated /\ issued' = issued /\ landed' = landed
        /\ smem' = smem /\ added' = added /\ wrong' = wrong /\ flags' = flags /\ pos' = pos /\ groups' = groups
        /\ stored' = stored /\ prev' = prev /\ pub' = pub /\ fin' = fin
    BY <1>1 DEF combineVars, vars, hostVars, ringVars
  <2>2. Cta' = Cta /\ Blocks' = Blocks /\ Combiner' = Combiner /\ TotalFlags' = TotalFlags
    BY <1>0, StaySame
  <2>3. \A c \in Cta : CtaOK(c)'
    <3> SUFFICES ASSUME NEW c \in Cta PROVE CtaOK(c)'
      OBVIOUS
    <3>1. CtaOK(c)
      BY DEF CombineInv
    <3> QED BY <1>0, <2>1, <3>1, CtaStays
  <2>4. ASSUME NEW r \in Rank PROVE HostOK(r)' /\ flags'[r][TotalFlags] = 0
    <3>1. HostOK(r) /\ flags[r][TotalFlags] = 0
      BY DEF CombineInv
    <3> QED BY <1>0, <2>1, <3>1, HostStays
  <2>5. \A p, q \in Rank : AheadOK(p, q)'
    BY <2>1 DEF CombineInv, AheadOK
  <2>6. ASSUME NEW q \in Rank, NEW x \in Blocks PROVE CountOK(q, x)' /\ SettledOK(q, x)'
    <3>1. CountOK(q, x) /\ SettledOK(q, x)
      BY DEF CombineInv
    <3>2. \A t \in tilesOf[x] : AnnouncedTo(t, q)' <=> AnnouncedTo(t, q)
      BY <2>1 DEF AnnouncedTo, Latest
    <3> QED BY <1>0, <2>1, <3>1, <3>2, CountStays, SettledStays
  <2>7. ASSUME NEW q \in Rank, NEW k \in Combiner PROVE GatesOK(q, k)' /\ RingOK(q, k)'
    <3>1. GatesOK(q, k) /\ RingOK(q, k)
      BY DEF CombineInv
    <3> QED BY <1>0, <2>1, <3>1, GatesStay, RingStays
  <2>8. wrong' = {}
    BY <2>1 DEF CombineInv
  <2> QED BY <2>2, <2>3, <2>4, <2>5, <2>6, <2>7, <2>8 DEF CombineInv
<1>2. ASSUME NEW c \in AnyCta, GemmStep(c) \/ StoreStep(c) PROVE CombineInv'
  <2>1. /\ c \in Cta /\ Running(c[1]) /\ UNCHANGED hostVars /\ UNCHANGED ringVars
        /\ StoreGroup(c) \/ EndTile(c) \/ PublishTo(c) \/ FinishLoop(c) \/ SomeGroupCompletes(c)
    BY <1>2 DEF GemmStep, StoreStep, CtaStep
  <2>2. CtaOK(c)
    BY <2>1 DEF CombineInv
  <2>3. CASE StoreGroup(c) \/ SomeGroupCompletes(c)
    <3>1. Quiet(c)
      BY <1>0, <1>t, <2>1, <2>2, <2>3, StoreQuiet
    <3> QED BY <1>0, <2>1, <3>1, QuietKeeps
  <2>4. CASE EndTile(c)
    <3>1. Quiet(c)
      BY <1>0, <1>t, <2>1, <2>2, <2>4, EndQuiet
    <3> QED BY <1>0, <2>1, <3>1, QuietKeeps
  <2>5. CASE FinishLoop(c)
    <3>1. Quiet(c)
      BY <1>0, <1>t, <2>1, <2>2, <2>5, FinishQuiet
    <3> QED BY <1>0, <2>1, <3>1, QuietKeeps
  <2>6. CASE PublishTo(c)
    BY <1>0, <2>1, <2>6, PublishKeeps
  <2> QED BY <2>1, <2>3, <2>4, <2>5, <2>6
<1>3. ASSUME NEW r \in Rank, HostStep(r) PROVE CombineInv'
  BY <1>0, <1>3, ResetKeeps, LaunchKeeps, SynchronizeKeeps DEF HostStep
<1>4. ASSUME NEW r \in Rank, NEW k \in AnyCombiner,
             ProducerStep(r, k) \/ PullStep(r, k) \/ \E t \in AnyConsumer : ConsumerStep(r, k, t)
      PROVE  CombineInv'
  <2>1. /\ k \in Combiner /\ Running(r)
        /\ PassGate(r, k) \/ Pull(r, k) \/ PullLands(r, k) \/ (\E t \in Consumer : Accumulate(r, k, t))
    BY <1>4 DEF ProducerStep, PullStep, ConsumerStep
  <2> QED BY <1>0, <2>1, PassGateKeeps, PullKeeps, LandKeeps, AccumulateKeeps
<1> QED BY <1>1, <1>2, <1>3, <1>4 DEF CombineNext

LEMMA StoredWhenAwaited == CombineTypeOK /\ CombineInv => AwaitedBlockIsStored
<1> SUFFICES ASSUME CombineTypeOK, CombineInv, NEW r \in Rank, Running(r), NEW x \in DOMAIN tilesOf,
                    Flag(x) \in Awaited(r), flags[r][Flag(x)] >= NTiles
             PROVE  StoredFor(r, x, 0 .. NTiles - 1)
  BY DEF AwaitedBlockIsStored, Flag
<1>t. LaunchTables /\ PullTables /\ HostTypeOK
  BY DEF CombineTypeOK
<1>1. x \in Blocks
  BY <1>t DEF PullTables
<1>2. Relied(r, x)
  <2>1. CASE shape.pulls
    <3>1. PICK j \in DOMAIN shape.topk[r] : Flag(x) = gateIdx[r][j]
      BY <2>1 DEF Awaited
    <3>2. block[r][j] \in Blocks /\ Flag(block[r][j]) = Flag(x) /\ j \in DOMAIN block[r]
      BY <1>t, <3>1, Gates
    <3>3. block[r][j] = x
      BY <1>t, <1>1, <3>2, FlagFacts
    <3> QED BY <3>2, <3>3 DEF Relied, Pulled
  <2>2. CASE ~shape.pulls
    <3>1. shape.iters = 1
      BY <1>t, <2>2, ShapeFacts DEF LaunchTables
    <3>2. iter[r] <= 1 /\ host[r] # "barrier"
      BY <3>1 DEF CombineInv, HostOK, Running
    <3> QED BY <3>2 DEF Relied, Epoch
  <2> QED BY <2>1, <2>2
<1>3. iter[x[1]] = iter[r] /\ \A t \in tilesOf[x] : TileStored(t[1], t[2])
  BY <1>1, <1>2, OpenIsStored DEF Running
<1> QED BY <1>3 DEF StoredFor

LEMMA ExactAfterWarmUp == CombineTypeOK /\ CombineInv => FlagsExactAfterWarmUp
<1> SUFFICES ASSUME CombineTypeOK, CombineInv,
                    \A q \in Rank : iter[q] = 1 /\ host[q] \in {"reset", "end"},
                    NEW r \in Rank, NEW f \in 0 .. TotalFlags
             PROVE  flags[r][f] = IF f < TotalFlags THEN NTiles ELSE 0
  BY DEF FlagsExactAfterWarmUp
<1>t. LaunchTables /\ PullTables /\ GemmTypeOK
  BY DEF CombineTypeOK
<1>1. TotalFlags \in Nat /\ \A g \in 0 .. TotalFlags - 1 : \E x \in Blocks : Flag(x) = g
  BY <1>t, FlagFacts
<1>2. CASE f = TotalFlags
  BY <1>1, <1>2 DEF CombineInv
<1>3. CASE f # TotalFlags
  <2>1. f \in 0 .. TotalFlags - 1 /\ f < TotalFlags
    BY <1>1, <1>3
  <2>2. PICK x \in Blocks : Flag(x) = f
    BY <1>1, <2>1
  <2>3. x[1] \in Rank /\ Cardinality(tilesOf[x]) = NTiles
    BY <1>t, BlockTiles
  <2>4. Epoch(r) = 1 /\ Relied(r, x) /\ iter[x[1]] = Epoch(r)
    BY <2>3 DEF Epoch, Relied
  <2>5. flags[r][f] = Cardinality(Announced(x, r))
    BY <2>2, <2>4 DEF CombineInv, CountOK
  <2>6. ASSUME NEW t \in tilesOf[x] PROVE AnnouncedTo(t, r)
    <3> DEFINE c == t[1]  i == t[2]
    <3>1. c \in Cta /\ i \in DOMAIN work[c] /\ c[1] = x[1]
      BY <1>t, BlockTiles
    <3>2. iter[x[1]] > 0 /\ host[x[1]] # "run" /\ HostOK(x[1])
      BY <2>3 DEF CombineInv
    <3>3. c \in fin /\ pub[c] = Idle
      BY <3>1, <3>2 DEF HostOK, GemmEnded
    <3>4. pos[c] = Len(work[c]) + 1
      BY <3>1, <3>3 DEF CombineInv, CtaOK
    <3>5. Len(work[c]) \in Nat /\ DOMAIN work[c] = 1 .. Len(work[c]) /\ W \in Nat /\ Idle = [flag |-> -1, rank |-> W]
      BY <1>t, <3>1, CtaTypes
    <3>6. Latest(c) = Len(work[c])
      BY <3>3, <3>4, <3>5 DEF Latest
    <3>7. i < Latest(c) \/ i = Latest(c)
      BY <3>1, <3>5, <3>6
    <3>8. r < pub[c].rank
      BY <3>3, <3>5 DEF Rank
    <3> QED BY <3>7, <3>8 DEF AnnouncedTo
  <2>7. Announced(x, r) = tilesOf[x]
    BY <2>6 DEF Announced
  <2> QED BY <2>1, <2>3, <2>5, <2>7
<1> QED BY <1>2, <1>3

(***************************************************************************)
(* The types and the invariant: what the CTAs have announced, what the     *)
(* flags count and in which iteration, and what the rings hold.            *)
(***************************************************************************)
THEOREM CombineInvariance == CombineSpec => [](CombineTypeOK /\ CombineInv)
<1>1. CombineInit => CombineTypeOK /\ CombineInv
  BY TypeInitially, InvInitially
<1>2. (CombineTypeOK /\ CombineInv) /\ [CombineNext]_combineVars => (CombineTypeOK /\ CombineInv)'
  BY TypeStep, InvStep
<1> QED BY <1>1, <1>2, PTL DEF CombineSpec

\* Every step keeps counters, flags, list positions and ring stages in their ranges.
THEOREM CombineTypeCorrect == CombineSpec => []CombineTypeOK
<1> QED BY CombineInvariance, PTL

(***************************************************************************)
(* The combine adds up finished rows of its own iteration, on any number   *)
(* of ranks, with any clusters, rings and threads (publish_tile_flag of    *)
(* gemm_sm100.py with the gated CombineTmaKernel of moe_comm.py).          *)
(***************************************************************************)
THEOREM CombineReadsFinishedRows == CombineSpec => []CombinesFinishedRows
<1>1. CombineTypeOK /\ CombineInv => CombinesFinishedRows
  BY StoredWhenAwaited DEF CombinesFinishedRows, CombineInv
<1> QED BY <1>1, CombineInvariance, PTL

\* Behind the first iteration every counter is exactly the number of n-tiles: each
\* tile of each row block has been announced once, and nothing else has.
THEOREM CombineFlagsExact == CombineSpec => []FlagsExactAfterWarmUp
<1> QED BY ExactAfterWarmUp, CombineInvariance, PTL
=============================================================================
