-------------------------- MODULE PingpongGemmProofs --------------------------
(***************************************************************************)
(* Theorems about PingpongGemm, for any number of tiles of any lengths,    *)
(* with and without varlen_k, and any numbers of stages of the rings of    *)
(* A/B, of C, of D and of the scheduler (two or more), and of subtiles.    *)
(***************************************************************************)
EXTENDS PingpongGemm, FiniteSetTheorems, SequenceTheorems, WellFoundedInduction, TLAPS

-----------------------------------------------------------------------------
(* Places in a ring.                                                        *)

\* Division with remainder.
LEMMA DivMod ==
  ASSUME NEW m \in Nat \ {0}, NEW p \in Nat
  PROVE  p \div m \in Nat /\ p % m \in 0 .. m - 1 /\ p = m * (p \div m) + (p % m)
<1>1. p \div m \in Nat
  OBVIOUS
<1>2. p % m \in 0 .. m - 1
  OBVIOUS
<1>3. p = m * (p \div m) + (p % m)
  OBVIOUS
<1> QED BY <1>1, <1>2, <1>3

LEMMA DivUnique ==
  ASSUME NEW m \in Nat \ {0}, NEW k \in Nat, NEW s \in 0 .. m - 1
  PROVE  (m * k + s) % m = s /\ (m * k + s) \div m = k
OBVIOUS

\* n places on.
LEMMA PlacesOn ==
  ASSUME NEW m \in Nat \ {0}, NEW p \in Nat, NEW n \in Nat
  PROVE  /\ (p + n) % m = ((p % m) + n) % m
         /\ (p + n) \div m = (p \div m) + (((p % m) + n) \div m)
<1> DEFINE d == p \div m  r == p % m  e == (r + n) \div m  t == (r + n) % m
<1>1. d \in Nat /\ r \in 0 .. m - 1 /\ p = m * d + r
  BY DivMod
<1>2. r + n \in Nat
  BY <1>1
<1>3. e \in Nat /\ t \in 0 .. m - 1 /\ r + n = m * e + t
  BY <1>2, DivMod
<1> HIDE DEF d, r, e, t
<1>4. p + n = m * (d + e) + t
  <2>1. m * (d + e) = m * d + m * e
    BY <1>1, <1>3
  <2>2. m * d \in Nat /\ m * e \in Nat
    BY <1>1, <1>3
  <2> QED BY <1>1, <1>3, <2>1, <2>2
<1>5. d + e \in Nat
  BY <1>1, <1>3
<1>6. (p + n) % m = t /\ (p + n) \div m = d + e
  <2> DEFINE k == d + e
  <2>1. k \in Nat /\ p + n = m * k + t
    BY <1>4, <1>5
  <2> HIDE DEF k
  <2>2. (m * k + t) % m = t /\ (m * k + t) \div m = k
    BY <1>3, <2>1, DivUnique
  <2>3. (p + n) % m = t /\ (p + n) \div m = k
    BY <2>1, <2>2
  <2> QED BY <2>3 DEF k
<1> QED BY <1>6 DEF d, r, e, t

\* One lap on.
LEMMA NextLap ==
  ASSUME NEW m \in Nat \ {0}, NEW p \in Nat
  PROVE  (p + m) % m = p % m /\ (p + m) \div m = (p \div m) + 1
<1>1. p \div m \in Nat /\ p % m \in 0 .. m - 1
  BY DivMod
<1> DEFINE r == p % m
<1>2. r \in 0 .. m - 1 /\ r + m = m * 1 + r
  BY <1>1
<1> HIDE DEF r
<1>3. (m * 1 + r) % m = r /\ (m * 1 + r) \div m = 1
  BY <1>2, DivUnique
<1>4. (r + m) % m = r /\ (r + m) \div m = 1
  BY <1>2, <1>3
<1>5. /\ (p + m) % m = (r + m) % m
      /\ (p + m) \div m = (p \div m) + ((r + m) \div m)
  BY m \in Nat, PlacesOn DEF r
<1> QED BY <1>4, <1>5 DEF r

\* The first lap.
LEMMA FirstLap ==
  ASSUME NEW m \in Nat \ {0}, NEW p \in 0 .. m - 1
  PROVE  p % m = p /\ p \div m = 0
<1>1. p = m * 0 + p
  OBVIOUS
<1> QED BY <1>1, DivUnique

\* One lap back.
LEMMA LastLap ==
  ASSUME NEW m \in Nat \ {0}, NEW p \in Nat, p >= m
  PROVE  (p - m) % m = p % m /\ p \div m = ((p - m) \div m) + 1 /\ (p - m) \div m \in Nat
<1>1. p - m \in Nat /\ (p - m) + m = p
  OBVIOUS
<1> QED BY <1>1, NextLap, DivMod

\* Places less than a lap apart have stages of their own.
LEMMA OwnStage ==
  ASSUME NEW m \in Nat \ {0}, NEW p \in Nat, NEW q \in Nat, p < q, q < p + m
  PROVE  p % m # q % m
<1>1. SUFFICES ASSUME p % m = q % m PROVE FALSE
  OBVIOUS
<1> DEFINE d == p \div m  r == p % m  e == q \div m
<1>2. d \in Nat /\ r \in 0 .. m - 1 /\ p = m * d + r /\ e \in Nat /\ q = m * e + r
  BY <1>1, DivMod
<1> HIDE DEF d, r, e
<1>3. m * d < m * e /\ m * e < m * (d + 1)
  <2>1. m * (d + 1) = m * d + m /\ m * d \in Nat /\ m * e \in Nat
    BY <1>2
  <2> QED BY <1>2, <2>1
<1>4. d < e /\ e < d + 1
  BY <1>2, <1>3
<1> QED BY <1>2, <1>4

LEMMA SameStage ==
  ASSUME NEW m \in Nat \ {0}, NEW p \in Nat, NEW q \in Nat, p % m = q % m, p < q + m, q < p + m
  PROVE  p = q
<1>1. p \in Nat /\ q \in Nat /\ m \in Nat
  OBVIOUS
<1>2. ~(p < q)
  BY OwnStage
<1>3. ~(q < p)
  BY OwnStage
<1> QED BY <1>1, <1>2, <1>3

\* Parities.
LEMMA Bits ==
  ASSUME NEW k \in Nat
  PROVE  /\ k % 2 \in {0, 1} /\ (k + 1) % 2 = 1 - (k % 2) /\ (1 + k) % 2 = 1 - (k % 2)
         /\ (0 + k) % 2 = k % 2 /\ (k + 2) % 2 = k % 2
OBVIOUS

LEMMA AddBits ==
  ASSUME NEW k \in Nat, NEW n \in Nat
  PROVE  ((k % 2) + n) % 2 = (k + n) % 2
OBVIOUS

\* A pipeline state at a place, and moved on from there.
LEMMA AtFacts ==
  ASSUME NEW m \in Nat \ {0}, NEW p \in Nat
  PROVE  /\ At(p, m, 0) \in PipeState /\ At(p, m, 1) \in PipeState
         /\ At(p, m, 0).index = p % m /\ At(p, m, 1).index = p % m
         /\ At(p, m, 0).phase = (p \div m) % 2 /\ At(p, m, 1).phase = 1 - ((p \div m) % 2)
         /\ p % m \in 0 .. m - 1
<1>1. p \div m \in Nat /\ p % m \in 0 .. m - 1
  BY DivMod
<1>2. /\ (p \div m) % 2 \in {0, 1} /\ (0 + p \div m) % 2 = (p \div m) % 2
      /\ (1 + p \div m) % 2 = 1 - ((p \div m) % 2)
  BY <1>1, Bits
<1>3. p % m \in Nat
  BY <1>1
<1> QED BY <1>1, <1>2, <1>3 DEF At, PipeState

LEMMA AdvanceAt ==
  ASSUME NEW m \in Nat \ {0}, NEW p \in Nat, NEW n \in Nat, NEW b \in {0, 1}
  PROVE  AdvanceIters(At(p, m, b), n, m) = At(p + n, m, b)
<1> DEFINE d == p \div m  e == ((p % m) + n) \div m
<1>1. p \div m \in Nat /\ p % m \in 0 .. m - 1
  BY DivMod
<1>2. (p % m) + n \in Nat
  BY <1>1
<1>3. d \in Nat /\ e \in Nat
  BY <1>1, <1>2, DivMod
<1>4. (p + n) % m = ((p % m) + n) % m /\ (p + n) \div m = d + e
  BY PlacesOn
<1>5. (((b + d) % 2) + e) % 2 = (b + (d + e)) % 2
  BY <1>3
<1>6. AdvanceIters(At(p, m, b), n, m)
        = [index |-> ((p % m) + n) % m, phase |-> (((b + d) % 2) + e) % 2]
  BY DEF AdvanceIters, At
<1>7. At(p + n, m, b) = [index |-> (p + n) % m, phase |-> (b + (p + n) \div m) % 2]
  BY DEF At
<1> QED BY <1>4, <1>5, <1>6, <1>7

LEMMA AdvanceOne ==
  ASSUME NEW m \in Nat \ {0}, NEW p \in Nat, NEW b \in {0, 1}
  PROVE  Advance(At(p, m, b), m) = At(p + 1, m, b)
<1>1. 1 \in Nat
  OBVIOUS
<1> QED BY <1>1, AdvanceAt DEF Advance

-----------------------------------------------------------------------------
(* The k tiles of a CTA, one behind the other.                              *)

\* The tiles of a shape.
LEMMA ShapeFacts ==
  ASSUME shape \in Shapes
  PROVE  /\ Tiles \in Nat /\ shape.varlenK \in BOOLEAN /\ shape.staticK \in Nat \ {0}
         /\ \A t \in 1 .. Tiles : KCount(t) \in Nat /\ KTiles(t) = KCount(t)
         /\ \A t \in Nat \ {0} : KTiles(t) \in Nat
         /\ ~shape.varlenK => \A t \in Nat \ {0} : KTiles(t) = shape.staticK
         /\ shape.varlenK => Tiles > 0
<1>1. /\ shape.varlenK \in BOOLEAN /\ shape.staticK \in Nat \ {0} /\ shape.kTiles \in Seq(Nat)
      /\ shape.varlenK => shape.kTiles # <<>>
      /\ ~shape.varlenK => \A t \in DOMAIN shape.kTiles : shape.kTiles[t] = shape.staticK
  BY PingpongAssumption
<1>2. Tiles \in Nat /\ DOMAIN shape.kTiles = 1 .. Tiles /\ \A t \in 1 .. Tiles : shape.kTiles[t] \in Nat
  BY <1>1 DEF Tiles
<1>3. \A t \in 1 .. Tiles : KCount(t) \in Nat /\ KTiles(t) = KCount(t)
  BY <1>2 DEF KCount, KTiles
<1>4. \A t \in Nat \ {0} : KTiles(t) \in Nat
  BY <1>1, <1>2, <1>3 DEF KTiles
<1>5. ~shape.varlenK => \A t \in Nat \ {0} : KTiles(t) = shape.staticK
  BY <1>1, <1>2 DEF KTiles, KCount
<1>6. shape.varlenK => Tiles > 0
  BY <1>1, <1>2 DEF Tiles
<1> QED BY <1>1, <1>2, <1>3, <1>4, <1>5, <1>6

LEMMA SizeFacts ==
  /\ ABStages \in Nat \ {0} /\ EpiStages \in Nat \ {0} /\ EpiTiles \in Nat \ {0}
  /\ SchedStages \in Nat \ {0} /\ SchedStages >= 2 /\ CStages \in Nat
BY PingpongAssumption

Less == {p \in Nat \X Nat : p[1] < p[2]}

LEMMA LessIsWellFounded == IsWellFoundedOn(Less, Nat)
BY NatLessThanWellFounded, Zenon DEF OpToRel, Less

\* A set of numbers has a least one.
LEMMA Least ==
  ASSUME NEW S \in SUBSET Nat, S # {}
  PROVE  \E n \in S : \A k \in S : n <= k
<1>1. PICK n \in S : \A k \in S : <<k, n>> \notin Less
  BY WFMin, LessIsWellFounded, Zenon
<1>2. \A k \in S : ~(k < n)
  BY <1>1 DEF Less
<1> QED BY <1>2

\* The k tiles before tile t, as a set.
Earlier(t) == UNION {{u} \X (0 .. KTiles(u) - 1) : u \in 1 .. t - 1}

LEMMA EarlierFacts ==
  ASSUME shape \in Shapes, NEW t \in Nat \ {0}
  PROVE  /\ Earlier(t + 1) = Earlier(t) \cup ({t} \X (0 .. KTiles(t) - 1))
         /\ Earlier(t) \cap ({t} \X (0 .. KTiles(t) - 1)) = {}
         /\ IsFiniteSet({t} \X (0 .. KTiles(t) - 1))
         /\ Cardinality({t} \X (0 .. KTiles(t) - 1)) = KTiles(t)
<1> DEFINE N == 0 .. KTiles(t) - 1
<1>1. 1 .. (t + 1) - 1 = (1 .. t - 1) \cup {t}
  OBVIOUS
<1>2. Earlier(t + 1) = Earlier(t) \cup ({t} \X N)
  BY <1>1 DEF Earlier
<1>3. Earlier(t) \cap ({t} \X N) = {}
  <2>1. \A x \in Earlier(t) : x[1] \in 1 .. t - 1
    BY DEF Earlier
  <2>2. \A x \in {t} \X N : x[1] = t
    OBVIOUS
  <2>3. t \notin 1 .. t - 1
    OBVIOUS
  <2> QED BY <2>1, <2>2, <2>3
<1>4. KTiles(t) \in Nat
  BY ShapeFacts
<1>5. IsFiniteSet(N) /\ Cardinality(N) = KTiles(t)
  <2>1. 0 \in Int /\ KTiles(t) - 1 \in Int
    BY <1>4
  <2>2. IsFiniteSet(N) /\ Cardinality(N) = IF 0 > KTiles(t) - 1 THEN 0 ELSE (KTiles(t) - 1) - 0 + 1
    BY <2>1, FS_Interval, Zenon
  <2> QED BY <1>4, <2>2
<1>6. IsFiniteSet({t}) /\ Cardinality({t}) = 1
  BY FS_Singleton
<1>7. IsFiniteSet({t} \X N) /\ Cardinality({t} \X N) = KTiles(t)
  <2> DEFINE S == {t}
  <2>1. IsFiniteSet(S) /\ Cardinality(S) = 1 /\ IsFiniteSet(N) /\ Cardinality(N) = KTiles(t)
    BY <1>5, <1>6
  <2> HIDE DEF N, S
  <2>2. IsFiniteSet(S \X N) /\ Cardinality(S \X N) = Cardinality(S) * Cardinality(N)
    BY <2>1, FS_Product
  <2>3. IsFiniteSet(S \X N) /\ Cardinality(S \X N) = KTiles(t)
    BY <1>4, <2>1, <2>2
  <2> QED BY <2>3 DEF S
<1> QED BY <1>2, <1>3, <1>7

LEMMA EarlierFinite ==
  ASSUME shape \in Shapes, NEW t \in Nat \ {0}
  PROVE  IsFiniteSet(Earlier(t)) /\ Before(t) = Cardinality(Earlier(t)) /\ Before(t) \in Nat
<1> DEFINE Bad == {n \in Nat : n > 0 /\ ~IsFiniteSet(Earlier(n))}
<1>1. Bad = {}
  <2>1. SUFFICES ASSUME Bad # {} PROVE FALSE
    OBVIOUS
  <2>2. PICK n \in Bad : \A k \in Bad : n <= k
    BY <2>1, Least
  <2>3. n # 1
    <3>1. Earlier(1) = {}
      BY DEF Earlier
    <3> QED BY <2>2, <3>1, FS_EmptySet
  <2>4. n - 1 \in Nat \ {0} /\ n - 1 \notin Bad /\ n = (n - 1) + 1
    BY <2>2, <2>3
  <2>5. IsFiniteSet(Earlier(n - 1))
    BY <2>4
  <2> DEFINE k == n - 1
  <2>6. k \in Nat \ {0} /\ IsFiniteSet(Earlier(k)) /\ n = k + 1
    BY <2>4, <2>5
  <2> HIDE DEF k
  <2> DEFINE S == Earlier(k)  T == {k} \X (0 .. KTiles(k) - 1)
  <2>7. Earlier(n) = S \cup T /\ IsFiniteSet(S) /\ IsFiniteSet(T)
    BY <2>6, EarlierFacts
  <2> HIDE DEF S, T
  <2>8. IsFiniteSet(Earlier(n))
    BY <2>7, FS_Union
  <2> QED BY <2>2, <2>8
<1>2. IsFiniteSet(Earlier(t))
  BY <1>1
<1> QED BY <1>2, FS_CardinalityType DEF Before, Earlier

\* Each tile comes behind the k tiles of those before it.
LEMMA BeforeNext ==
  ASSUME shape \in Shapes, NEW t \in Nat \ {0}
  PROVE  Before(t) \in Nat /\ KTiles(t) \in Nat /\ Before(t + 1) = Before(t) + KTiles(t)
<1> DEFINE S == Earlier(t)  T == {t} \X (0 .. KTiles(t) - 1)
<1>1. /\ Earlier(t + 1) = S \cup T /\ S \cap T = {}
      /\ IsFiniteSet(T) /\ Cardinality(T) = KTiles(t)
  BY EarlierFacts
<1>2. /\ IsFiniteSet(S) /\ Before(t) = Cardinality(S) /\ Before(t) \in Nat
      /\ Before(t + 1) = Cardinality(Earlier(t + 1))
  <2>1. t + 1 \in Nat \ {0}
    OBVIOUS
  <2> QED BY <2>1, EarlierFinite
<1>3. Cardinality(S \cup T) = Cardinality(S) + Cardinality(T) - Cardinality(S \cap T)
  BY <1>1, <1>2, FS_Union
<1>4. Cardinality(S \cap T) = 0
  BY <1>1, FS_EmptySet
<1>5. KTiles(t) \in Nat
  BY ShapeFacts
<1>6. Before(t + 1) = Cardinality(S \cup T)
  BY <1>1, <1>2
<1> HIDE DEF S, T
<1> QED BY <1>1, <1>2, <1>3, <1>4, <1>5, <1>6

LEMMA BeforeFirst == shape \in Shapes => Before(1) = 0
<1> SUFFICES ASSUME shape \in Shapes PROVE Before(1) = 0
  OBVIOUS
<1>1. Earlier(1) = {}
  BY DEF Earlier
<1>2. 1 \in Nat \ {0}
  OBVIOUS
<1>3. Before(1) = Cardinality(Earlier(1))
  BY <1>2, EarlierFinite
<1> QED BY <1>1, <1>3, FS_EmptySet

LEMMA BeforeMonotone ==
  ASSUME shape \in Shapes, NEW t \in Nat \ {0}, NEW u \in Nat \ {0}, t <= u
  PROVE  Before(t) <= Before(u)
<1>1. 1 .. t - 1 \subseteq 1 .. u - 1
  OBVIOUS
<1>2. Earlier(t) \subseteq Earlier(u)
  BY <1>1 DEF Earlier
<1>3. IsFiniteSet(Earlier(u)) /\ Before(t) = Cardinality(Earlier(t)) /\ Before(u) = Cardinality(Earlier(u))
  BY EarlierFinite
<1> QED BY <1>2, <1>3, FS_Subset

\* A k tile comes before those of later tiles, and only before them.
LEMMA PosFacts ==
  ASSUME shape \in Shapes, NEW x \in Items
  PROVE  /\ x[1] \in 1 .. Tiles /\ x[2] \in 0 .. KTiles(x[1]) - 1 /\ x = <<x[1], x[2]>>
         /\ Pos(x) \in Nat /\ Before(x[1]) <= Pos(x) /\ Pos(x) < Before(x[1] + 1)
         /\ Pos(x) = Before(x[1]) + x[2]
         /\ \A t \in Nat \ {0} : Pos(x) < Before(t) <=> x[1] < t
<1>1. x[1] \in 1 .. Tiles /\ x[2] \in 0 .. KTiles(x[1]) - 1 /\ x = <<x[1], x[2]>>
  BY DEF Items
<1> DEFINE a == x[1]  k == x[2]
<1>2. a \in Nat \ {0} /\ k \in Int
  BY <1>1, ShapeFacts
<1> HIDE DEF a, k
<1>3. Before(a) \in Nat /\ KTiles(a) \in Nat /\ Before(a + 1) = Before(a) + KTiles(a)
  BY <1>2, BeforeNext
<1>4. Pos(x) = Before(a) + k /\ k \in 0 .. KTiles(a) - 1
  BY <1>1 DEF Pos, a, k
<1>5. Pos(x) \in Nat /\ Before(a) <= Pos(x) /\ Pos(x) < Before(a + 1)
  BY <1>3, <1>4
<1>6. ASSUME NEW t \in Nat \ {0} PROVE Pos(x) < Before(t) <=> a < t
  <2>1. Before(t) \in Nat
    BY BeforeNext
  <2>2. CASE a < t
    <3>1. a + 1 \in Nat \ {0} /\ a + 1 <= t
      BY <1>2, <2>2
    <3>2. Before(a + 1) <= Before(t)
      BY <3>1, BeforeMonotone
    <3> QED BY <1>3, <1>5, <2>1, <2>2, <3>2
  <2>3. CASE t <= a
    <3>1. Before(t) <= Before(a)
      BY <1>2, <2>3, BeforeMonotone
    <3> QED BY <1>2, <1>3, <1>5, <2>1, <2>3, <3>1
  <2> QED BY <1>2, <2>2, <2>3
<1> QED BY <1>1, <1>4, <1>5, <1>6 DEF a, k

LEMMA PosUnique ==
  ASSUME shape \in Shapes, NEW x \in Items, NEW y \in Items, Pos(x) = Pos(y)
  PROVE  x = y
<1>1. /\ x[1] \in Nat \ {0} /\ x = <<x[1], x[2]>> /\ Pos(x) < Before(x[1] + 1) /\ Pos(x) = Before(x[1]) + x[2]
      /\ y[1] \in Nat \ {0} /\ y = <<y[1], y[2]>> /\ Pos(y) < Before(y[1] + 1) /\ Pos(y) = Before(y[1]) + y[2]
      /\ x[2] \in Int /\ y[2] \in Int
  BY PosFacts, ShapeFacts
<1>2. x[1] < y[1] + 1
  <2>1. y[1] + 1 \in Nat \ {0}
    BY <1>1
  <2>2. Pos(x) < Before(y[1] + 1) <=> x[1] < y[1] + 1
    BY <2>1, PosFacts
  <2> QED BY <1>1, <2>2
<1>3. y[1] < x[1] + 1
  <2>1. x[1] + 1 \in Nat \ {0}
    BY <1>1
  <2>2. Pos(y) < Before(x[1] + 1) <=> y[1] < x[1] + 1
    BY <2>1, PosFacts
  <2> QED BY <1>1, <2>2
<1>4. x[1] = y[1]
  BY <1>1, <1>2, <1>3
<1>5. Before(x[1]) \in Nat
  BY <1>1, BeforeNext
<1>6. x[2] = y[2]
  <2>1. Before(x[1]) + x[2] = Before(x[1]) + y[2]
    BY <1>1, <1>4
  <2> QED BY <1>1, <1>5, <2>1
<1> QED BY <1>1, <1>4, <1>6

\* Every place has a k tile.
LEMMA PosFills ==
  ASSUME shape \in Shapes, NEW p \in Nat, p < Before(Tiles + 1)
  PROVE  \E x \in Items : Pos(x) = p
<1> DEFINE T == {t \in Nat : t > 0 /\ p < Before(t)}
<1>0. Tiles \in Nat
  BY ShapeFacts
<1>1. T \in SUBSET Nat /\ T # {} /\ Tiles + 1 \in T
  BY <1>0
<1>2. PICK n \in T : \A k \in T : n <= k
  BY <1>1, Least
<1>3. n \in Nat \ {0} /\ n <= Tiles + 1 /\ p < Before(n)
  BY <1>1, <1>2
<1>4. n # 1
  BY <1>3, BeforeFirst
<1> DEFINE t == n - 1
<1>5. t \in 1 .. Tiles /\ t \in Nat \ {0} /\ n = t + 1 /\ t \notin T
  BY <1>0, <1>2, <1>3, <1>4
<1> HIDE DEF t
<1>6. Before(t) \in Nat /\ KTiles(t) \in Nat /\ Before(t + 1) = Before(t) + KTiles(t)
  BY <1>5, BeforeNext
<1>7. ~(p < Before(t))
  BY <1>5
<1>8. p - Before(t) \in 0 .. KTiles(t) - 1
  BY <1>3, <1>5, <1>6, <1>7
<1> DEFINE x == <<t, p - Before(t)>>
<1>9. x \in Items
  BY <1>5, <1>8 DEF Items
<1>10. Pos(x) = p
  BY <1>6 DEF Pos
<1> QED BY <1>9, <1>10

-----------------------------------------------------------------------------
(* The warp groups and their tiles.                                         *)

LEMMA OwnerFacts ==
  ASSUME NEW t \in Nat
  PROVE  Owner(t) \in WG /\ Owner(t + 1) = 1 - Owner(t) /\ Owner(t + 2) = Owner(t)
BY DEF Owner, WG

LEMMA Sides ==
  ASSUME NEW g \in WG
  PROVE  /\ 1 - g \in WG /\ 1 - g # g /\ 1 - (1 - g) = g /\ g \in Int
         /\ WG = {g, 1 - g} /\ \A h \in WG : h = g \/ h = 1 - g
BY DEF WG

\* What the type invariant says of one warp group.
LEMMA WgFacts ==
  ASSUME TypeOK, NEW g \in WG
  PROVE  /\ wg[g] \in WgState /\ wg[g].pc \in Busy \cup Idle /\ wg[g].tile \in 0 .. Tiles
         /\ wg[g].k \in Nat /\ wg[g].flight \in Nat /\ wg[g].e \in Nat /\ wg[g].executed \in Nat
         /\ wg[g].ab \in PipeState /\ wg[g].rel \in PipeState /\ wg[g].sched \in PipeState
         /\ wg[g].cRead \in PipeState /\ wg[g].cLoad \in PipeState
BY DEF TypeOK, WgState

LEMMA OwnFacts ==
  ASSUME TypeOK, NEW g \in WG
  PROVE  /\ Pass(g) \in Nat \ {0} /\ Own(g) \in Nat \ {0} /\ Mul(g) \in Nat \ {0}
         /\ Pass(g) = wg[g].executed + 1
         /\ Own(g) = IF Owner(Pass(g)) = g THEN Pass(g) ELSE Pass(g) + 1
         /\ Mul(g) = IF wg[g].pc \in Behind THEN Own(g) + 2 ELSE Own(g)
         /\ Owner(Own(g)) = g /\ Owner(Mul(g)) = g
<1>1. wg[g].executed \in Nat
  BY WgFacts
<1>2. Pass(g) \in Nat \ {0} /\ Pass(g) = wg[g].executed + 1
  BY <1>1 DEF Pass
<1>3. Own(g) = IF Owner(Pass(g)) = g THEN Pass(g) ELSE Pass(g) + 1
  BY DEF Own
<1>4. Owner(Pass(g)) \in WG /\ Owner(Pass(g) + 1) = 1 - Owner(Pass(g))
  BY <1>2, OwnerFacts
<1>5. Own(g) \in Nat \ {0} /\ Owner(Own(g)) = g
  <2>1. CASE Owner(Pass(g)) = g
    BY <1>2, <1>3, <2>1
  <2>2. CASE Owner(Pass(g)) # g
    <3>1. Owner(Pass(g)) = 1 - g
      BY <1>4, <2>2, Sides
    <3>2. Owner(Pass(g) + 1) = g
      BY <1>4, <3>1, Sides
    <3> QED BY <1>2, <1>3, <2>2, <3>2
  <2> QED BY <2>1, <2>2
<1>6. Mul(g) = IF wg[g].pc \in Behind THEN Own(g) + 2 ELSE Own(g)
  BY DEF Mul
<1>7. Mul(g) \in Nat \ {0} /\ Owner(Mul(g)) = g
  <2>1. Owner(Own(g) + 2) = Owner(Own(g))
    BY <1>5, OwnerFacts
  <2> QED BY <1>5, <1>6, <2>1
<1> QED BY <1>2, <1>3, <1>5, <1>6, <1>7

\* The order of the two warp groups.
LEMMA Order ==
  ASSUME TypeOK, PingpongInv, NEW g \in WG
  PROVE  /\ Own(1 - g) = Own(g) + 1 \/ Own(g) = Own(1 - g) + 1
         /\ Mul(1 - g) = Mul(g) + 1 \/ Mul(g) = Mul(1 - g) + 1
         /\ HasMma(g) => Mul(1 - g) = Mul(g) + 1
         /\ HasEpi(g) => Own(1 - g) = Own(g) + 1
         /\ wg[g].pc = "mma" => HasMma(g) /\ turn["mma"][g] = 0
         /\ wg[g].pc \in EpiPlace => HasEpi(g) /\ turn["epi"][g] = 0
         /\ turn["mma"][g] \in {0, 1} /\ turn["epi"][g] \in {0, 1}
         /\ turn["mma"][g] > 0 => HasMma(g)
         /\ turn["epi"][g] > 0 => HasEpi(g)
<1>1. turn["mma"][g] \in Nat /\ turn["epi"][g] \in Nat
  BY DEF TypeOK
<1>2. TurnOK
  BY DEF PingpongInv
<1>3. g = 0 \/ g = 1
  BY DEF WG
<1>4. /\ Own(1 - g) = Own(g) + 1 \/ Own(g) = Own(1 - g) + 1
      /\ Mul(1 - g) = Mul(g) + 1 \/ Mul(g) = Mul(1 - g) + 1
  <2>1. CASE g = 0
    BY <1>2, <2>1 DEF TurnOK
  <2>2. CASE g = 1
    BY <1>2, <2>2 DEF TurnOK
  <2> QED BY <1>3, <2>1, <2>2
<1>5. /\ turn["mma"][g] <= 1 /\ turn["epi"][g] <= 1
      /\ HasMma(g) => Mul(1 - g) = Mul(g) + 1
      /\ HasEpi(g) => Own(1 - g) = Own(g) + 1
      /\ wg[g].pc = "mma" => turn["mma"][g] = 0
      /\ wg[g].pc \in EpiPlace => turn["epi"][g] = 0
  BY <1>2 DEF TurnOK
<1>6. turn["mma"][g] \in {0, 1} /\ turn["epi"][g] \in {0, 1}
  BY <1>1, <1>5
<1>7. /\ wg[g].pc = "mma" => HasMma(g)
      /\ wg[g].pc \in EpiPlace => HasEpi(g)
      /\ turn["mma"][g] > 0 => HasMma(g)
      /\ turn["epi"][g] > 0 => HasEpi(g)
  BY <1>6 DEF HasMma, HasEpi
<1> QED BY <1>4, <1>5, <1>6, <1>7

\* The next tile to multiply and the next to finish.
LEMMA NextFacts ==
  ASSUME TypeOK, PingpongInv
  PROVE  /\ NextMul \in Nat \ {0} /\ NextOwn \in Nat \ {0}
         /\ Owner(NextMul) \in WG /\ Owner(NextOwn) \in WG
         /\ NextMul = Mul(Owner(NextMul)) /\ NextOwn = Own(Owner(NextOwn))
         /\ \A g \in WG :
              /\ NextMul <= Mul(g) /\ Mul(g) <= NextMul + 1
              /\ NextOwn <= Own(g) /\ Own(g) <= NextOwn + 1
              /\ HasMma(g) => NextMul = Mul(g) /\ Owner(NextMul) = g
              /\ HasEpi(g) => NextOwn = Own(g) /\ Owner(NextOwn) = g
<1>1. 0 \in WG /\ 1 \in WG /\ 1 - 0 = 1 /\ 1 - 1 = 0 /\ \A g \in WG : g = 0 \/ g = 1
  BY DEF WG
<1>2. /\ Mul(0) \in Nat \ {0} /\ Own(0) \in Nat \ {0} /\ Mul(1) \in Nat \ {0} /\ Own(1) \in Nat \ {0}
      /\ Owner(Own(0)) = 0 /\ Owner(Mul(0)) = 0 /\ Owner(Own(1)) = 1 /\ Owner(Mul(1)) = 1
  BY <1>1, OwnFacts
<1>3. /\ Own(1) = Own(0) + 1 \/ Own(0) = Own(1) + 1
      /\ Mul(1) = Mul(0) + 1 \/ Mul(0) = Mul(1) + 1
      /\ HasMma(0) => Mul(1) = Mul(0) + 1
      /\ HasEpi(0) => Own(1) = Own(0) + 1
      /\ HasMma(1) => Mul(0) = Mul(1) + 1
      /\ HasEpi(1) => Own(0) = Own(1) + 1
  BY <1>1, Order
<1>4. /\ NextMul = IF Mul(0) < Mul(1) THEN Mul(0) ELSE Mul(1)
      /\ NextOwn = IF Own(0) < Own(1) THEN Own(0) ELSE Own(1)
  BY DEF NextMul, NextOwn, SmallerOf
<1>5. /\ NextMul \in Nat \ {0} /\ NextOwn \in Nat \ {0}
      /\ Owner(NextMul) \in WG /\ Owner(NextOwn) \in WG
      /\ NextMul = Mul(Owner(NextMul)) /\ NextOwn = Own(Owner(NextOwn))
  BY <1>1, <1>2, <1>3, <1>4
<1>6. ASSUME NEW g \in WG
      PROVE  /\ NextMul <= Mul(g) /\ Mul(g) <= NextMul + 1
             /\ NextOwn <= Own(g) /\ Own(g) <= NextOwn + 1
             /\ HasMma(g) => NextMul = Mul(g) /\ Owner(NextMul) = g
             /\ HasEpi(g) => NextOwn = Own(g) /\ Owner(NextOwn) = g
  <2>1. CASE g = 0
    BY <1>2, <1>3, <1>4, <2>1
  <2>2. CASE g = 1
    BY <1>2, <1>3, <1>4, <2>2
  <2> QED BY <1>1, <2>1, <2>2
<1> QED BY <1>5, <1>6

\* The warp group that multiplies is at the tile that comes next.
LEMMA IssuedFacts ==
  ASSUME TypeOK, PingpongInv
  PROVE  /\ Issued \in Nat /\ Before(NextMul) <= Issued
         /\ \A g \in WG : wg[g].pc = "mma" =>
              NextMul = Pass(g) /\ Issued = Before(Pass(g)) + wg[g].k /\ Issued = AbPos(g)
         /\ (\A g \in WG : wg[g].pc # "mma") => Issued = Before(NextMul)
<1> DEFINE h == Owner(NextMul)
<1>1. h \in WG /\ NextMul \in Nat \ {0} /\ NextMul = Mul(h)
  BY NextFacts
<1>2. shape \in Shapes
  BY DEF TypeOK
<1>3. Before(NextMul) \in Nat
  BY <1>1, <1>2, BeforeNext
<1>4. wg[h].k \in Nat
  BY <1>1, WgFacts
<1>5. Issued = Before(NextMul) + (IF wg[h].pc = "mma" THEN wg[h].k ELSE 0)
  BY DEF Issued
<1> HIDE DEF h
<1>6. ASSUME NEW g \in WG, wg[g].pc = "mma"
      PROVE  NextMul = Pass(g) /\ Issued = Before(Pass(g)) + wg[g].k /\ Issued = AbPos(g)
  <2>1. h = g /\ NextMul = Mul(g)
    BY <1>6, Order, NextFacts DEF h
  <2>2. WgOK(g)
    BY DEF PingpongInv
  <2>3. Owner(Pass(g)) = g
    BY <1>6, <2>2 DEF WgOK, Busy
  <2>4. NextMul = Pass(g)
    BY <1>6, <2>1, <2>3 DEF Mul, Own, Behind, EpiPlace
  <2> QED BY <1>5, <1>6, <2>1, <2>4 DEF AbPos, Busy
<1> QED BY <1>1, <1>3, <1>4, <1>5, <1>6

\* The places of a warp group in the rings.
LEMMA PlaceFacts ==
  ASSUME TypeOK, PingpongInv, NEW g \in WG
  PROVE  /\ WgOK(g) /\ EpiOK(g) /\ StoresOK(g)
         /\ Before(Pass(g)) \in Nat /\ AbPos(g) \in Nat /\ SchedPos(g) \in Nat
         /\ wg[g].ab = At(AbPos(g), ABStages, 0)
         /\ wg[g].sched = At(SchedPos(g), SchedStages, 0)
         /\ wg[g].pc \in Busy => Owner(Pass(g)) = g /\ Own(g) = Pass(g) /\ wg[g].tile = Pass(g) /\ Pass(g) \in 1 .. Tiles
                                 /\ KCount(wg[g].tile) = KTiles(Pass(g))
<1>1. WgOK(g) /\ EpiOK(g) /\ StoresOK(g)
  BY DEF PingpongInv
<1>2. shape \in Shapes
  BY DEF TypeOK
<1>3. Pass(g) \in Nat \ {0} /\ Own(g) = IF Owner(Pass(g)) = g THEN Pass(g) ELSE Pass(g) + 1
  BY OwnFacts
<1>4. Before(Pass(g)) \in Nat
  BY <1>2, <1>3, BeforeNext
<1>5. wg[g].k \in Nat /\ wg[g].executed \in Nat /\ wg[g].tile \in 0 .. Tiles
  BY WgFacts
<1>6. AbPos(g) \in Nat
  BY <1>4, <1>5 DEF AbPos
<1>7. SchedPos(g) \in Nat
  BY <1>1, <1>5 DEF SchedPos, WgOK
<1>8. wg[g].ab = At(AbPos(g), ABStages, 0) /\ wg[g].sched = At(SchedPos(g), SchedStages, 0)
  BY <1>1 DEF WgOK
<1>9. ASSUME wg[g].pc \in Busy
      PROVE  Owner(Pass(g)) = g /\ Own(g) = Pass(g) /\ wg[g].tile = Pass(g) /\ Pass(g) \in 1 .. Tiles
             /\ KCount(wg[g].tile) = KTiles(Pass(g))
  <2>1. Owner(Pass(g)) = g /\ wg[g].tile = Pass(g)
    BY <1>1, <1>9 DEF WgOK
  <2>2. Pass(g) \in 1 .. Tiles
    BY <1>2, <1>3, <1>5, <2>1, ShapeFacts
  <2> QED BY <1>2, <1>3, <2>1, <2>2, ShapeFacts
<1> QED BY <1>1, <1>4, <1>6, <1>7, <1>8, <1>9

\* The load warp's places.
LEMMA LoadFacts ==
  ASSUME TypeOK, PingpongInv
  PROVE  /\ load.tile \in 0 .. Tiles /\ load.k \in Nat
         /\ load.pc \in {"load", "take", "last", "takeLast", "tail", "schedTail", "done"}
         /\ load.tile # Invalid => load.tile \in 1 .. Tiles /\ KCount(load.tile) = KTiles(load.tile)
         /\ Loaded \in Nat /\ Loaded <= Before(Tiles + 1)
         /\ load.tile # Invalid => Loaded = Before(load.tile) + load.k
         /\ Taken \in Nat /\ Written \in {Taken, Taken + 1}
         /\ load.st = At(Loaded, ABStages, 1)
         /\ load.sched = At(Taken, SchedStages, 0)
<1>1. /\ load.tile \in 0 .. Tiles /\ load.k \in Nat
      /\ load.pc \in {"load", "take", "last", "takeLast", "tail", "schedTail", "done"}
  BY DEF TypeOK, LoadState
<1>2. shape \in Shapes
  BY DEF TypeOK
<1>3. Tiles \in Nat /\ Tiles + 1 \in Nat \ {0}
  BY <1>2, ShapeFacts
<1>4. load.tile # Invalid => load.tile \in 1 .. Tiles /\ KCount(load.tile) = KTiles(load.tile)
  BY <1>1, <1>2, <1>3, ShapeFacts DEF Invalid
<1>5. load.tile # Invalid => load.k <= KTiles(load.tile)
  BY DEF PingpongInv, LoadOK
<1>6. Before(Tiles + 1) \in Nat
  BY <1>2, <1>3, BeforeNext
<1>7. /\ Loaded \in Nat /\ Loaded <= Before(Tiles + 1)
      /\ load.tile # Invalid => Loaded = Before(load.tile) + load.k
  <2>1. CASE load.tile = Invalid
    BY <1>6, <2>1 DEF Loaded
  <2>2. CASE load.tile # Invalid
    <3> DEFINE t == load.tile
    <3>1. t \in Nat \ {0} /\ t + 1 <= Tiles + 1 /\ t + 1 \in Nat \ {0}
      BY <1>3, <1>4, <2>2
    <3> HIDE DEF t
    <3>2. Before(t) \in Nat /\ KTiles(t) \in Nat /\ Before(t + 1) = Before(t) + KTiles(t)
      BY <1>2, <3>1, BeforeNext
    <3>3. Before(t + 1) <= Before(Tiles + 1)
      BY <1>2, <1>3, <3>1, BeforeMonotone
    <3>4. Loaded = Before(t) + load.k /\ load.k <= KTiles(t)
      BY <1>5, <2>2 DEF Loaded, t
    <3> QED BY <1>1, <1>6, <3>2, <3>3, <3>4 DEF t
  <2> QED BY <2>1, <2>2
<1>8. Taken \in Nat /\ Written \in {Taken, Taken + 1}
  BY <1>3, <1>4 DEF Taken, Written
<1>9. load.st = At(Loaded, ABStages, 1) /\ load.sched = At(Taken, SchedStages, 0)
  BY DEF PingpongInv, LoadOK
<1> QED BY <1>1, <1>4, <1>7, <1>8, <1>9

-----------------------------------------------------------------------------
(* The ring of A/B.                                                         *)

LEMMA AbFacts ==
  ASSUME TypeOK, PingpongInv
  PROVE  /\ Issued <= Loaded
         /\ \A s \in 0 .. ABStages - 1 : s >= Loaded => ab[s] = EmptyStage
         /\ \A x \in Items :
              /\ Pos(x) < Loaded - ABStages => IsFree(x)
              /\ Pos(x) >= Loaded - ABStages /\ Pos(x) < Loaded =>
                   StageOK(ab[Pos(x) % ABStages], x, Pos(x) \div ABStages, IsFree(x), Pos(x) < Issued)
<1>1. AbOK
  BY DEF PingpongInv
<1>2. Loaded \in Nat /\ ABStages \in Nat /\ \A x \in Items : Pos(x) \in Nat
  BY LoadFacts, SizeFacts, PosFacts DEF TypeOK
<1>3. ASSUME NEW x \in Items
      PROVE  /\ Pos(x) < Loaded - ABStages => IsFree(x)
             /\ Pos(x) \in Loaded - ABStages .. Loaded - 1 =>
                  StageOK(ab[Pos(x) % ABStages], x, Pos(x) \div ABStages, IsFree(x), Pos(x) < Issued)
  BY <1>1, <1>3 DEF AbOK
<1>4. ASSUME NEW x \in Items, Pos(x) >= Loaded - ABStages, Pos(x) < Loaded
      PROVE  Pos(x) \in Loaded - ABStages .. Loaded - 1
  BY <1>2, <1>4
<1>5. Issued <= Loaded /\ \A s \in 0 .. ABStages - 1 : s >= Loaded => ab[s] = EmptyStage
  BY <1>1 DEF AbOK
<1> QED BY <1>3, <1>4, <1>5

\* Only what is issued to the tensor cores is released.
LEMMA FreeIssued ==
  ASSUME TypeOK, PingpongInv, NEW x \in Items, IsFree(x)
  PROVE  Pos(x) < Issued
<1>1. shape \in Shapes
  BY DEF TypeOK
<1> DEFINE g == Owner(x[1])
<1>2. x[1] \in Nat \ {0} /\ \A t \in Nat \ {0} : Pos(x) < Before(t) <=> x[1] < t
  BY <1>1, PosFacts, ShapeFacts
<1>3. g \in WG
  BY <1>2, OwnerFacts
<1>4. /\ Pos(x) = Before(x[1]) + x[2]
      /\ x[2] \in Int /\ Before(x[1]) \in Nat
  BY <1>1, <1>2, PosFacts, BeforeNext
<1>5. /\ Pass(g) = wg[g].executed + 1 /\ Pass(g) \in Nat \ {0}
      /\ Own(g) = IF Owner(Pass(g)) = g THEN Pass(g) ELSE Pass(g) + 1
      /\ Mul(g) = IF wg[g].pc \in Behind THEN Own(g) + 2 ELSE Own(g)
  BY <1>3, OwnFacts
<1>6. wg[g].executed \in Nat /\ wg[g].k \in Nat /\ wg[g].flight \in Nat
  BY <1>3, WgFacts
<1>7. /\ NextMul \in Nat \ {0} /\ Mul(g) <= NextMul + 1 /\ Before(NextMul) <= Issued
      /\ Before(NextMul) \in Nat /\ Issued \in Nat
  BY <1>1, <1>3, NextFacts, IssuedFacts, BeforeNext
<1>8. /\ x[1] <= wg[g].executed \/ (x[1] = wg[g].executed + 1 /\ wg[g].pc \in Busy /\ x[2] < wg[g].k - wg[g].flight)
  BY DEF IsFree, g
<1>9. Owner(x[1]) = g
  BY DEF g
<1> HIDE DEF g
<1>10. CASE x[1] < NextMul
  <2>1. Pos(x) < Before(NextMul)
    BY <1>2, <1>7, <1>10
  <2> QED BY <1>4, <1>7, <2>1
<1>11. CASE x[1] <= wg[g].executed
  <2>1. CASE x[1] = wg[g].executed
    <3>1. Owner(Pass(g)) # g
      BY <1>2, <1>3, <1>5, <1>9, <2>1, OwnerFacts, Sides
    <3>2. Own(g) = Pass(g) + 1
      BY <1>5, <3>1
    <3>3. Own(g) <= Mul(g)
      BY <1>5, <3>2
    <3>4. Mul(g) \in Nat
      BY <1>3, OwnFacts
    <3> QED BY <1>2, <1>5, <1>6, <1>7, <1>10, <2>1, <3>2, <3>3, <3>4
  <2>2. CASE x[1] < wg[g].executed
    <3>1. Pass(g) <= Own(g) /\ Own(g) <= Mul(g) /\ Mul(g) \in Nat /\ Own(g) \in Nat
      BY <1>3, <1>5, OwnFacts
    <3> QED BY <1>2, <1>5, <1>6, <1>7, <1>10, <2>2, <3>1
  <2> QED BY <1>2, <1>6, <1>11, <2>1, <2>2
<1>12. CASE x[1] = wg[g].executed + 1 /\ wg[g].pc \in Busy /\ x[2] < wg[g].k - wg[g].flight
  <2>1. Own(g) = Pass(g) /\ x[1] = Pass(g)
    BY <1>3, <1>5, <1>12, PlaceFacts
  <2>2. CASE wg[g].pc = "mma"
    <3>1. Issued = Before(Pass(g)) + wg[g].k
      BY <1>3, <2>2, IssuedFacts
    <3>2. Before(Pass(g)) \in Nat /\ Pos(x) = Before(Pass(g)) + x[2]
      BY <1>4, <2>1
    <3> QED BY <1>4, <1>6, <1>12, <3>1, <3>2
  <2>3. CASE wg[g].pc # "mma"
    <3>1. wg[g].pc \in Behind
      BY <1>12, <2>3 DEF Busy
    <3>2. Mul(g) = Own(g) + 2
      BY <1>5, <3>1
    <3> QED BY <1>2, <1>5, <1>7, <1>10, <2>1, <3>2
  <2> QED BY <2>2, <2>3
<1> QED BY <1>8, <1>11, <1>12

\* A k tile in flight is in its stage, and nobody has released it.
LEMMA FlightFacts ==
  ASSUME TypeOK, PingpongInv, NEW g \in WG, wg[g].pc \in {"mma", "drain"}, NEW n \in 0 .. wg[g].flight - 1
  PROVE  LET x == <<Pass(g), wg[g].k - wg[g].flight + n>>
             p == AbPos(g) - wg[g].flight + n
         IN  /\ x \in Items /\ Pos(x) = p /\ p \in Nat /\ ~IsFree(x) /\ p < Issued
             /\ p < Loaded /\ p >= Loaded - ABStages
             /\ ab[p % ABStages].data = x /\ ab[p % ABStages].coming = Nothing
             /\ ab[p % ABStages].full = ((p \div ABStages) + 1) % 2
             /\ ab[p % ABStages].empty = (p \div ABStages) % 2
<1> DEFINE w == wg[g]  k == w.k - w.flight + n  x == <<Pass(g), k>>  p == AbPos(g) - w.flight + n
<1>1. shape \in Shapes
  BY DEF TypeOK
<1>2. w.pc \in Busy
  BY DEF Busy, Behind
<1>3. /\ WgOK(g) /\ Before(Pass(g)) \in Nat /\ Pass(g) \in 1 .. Tiles
      /\ Owner(Pass(g)) = g /\ Own(g) = Pass(g)
  BY <1>2, PlaceFacts
<1>4. w.k \in Nat /\ w.flight \in Nat /\ w.executed \in Nat /\ Pass(g) = w.executed + 1 /\ Pass(g) \in Nat \ {0}
  BY WgFacts, OwnFacts
<1>5. w.flight <= w.k /\ w.k <= KTiles(Pass(g))
  BY <1>2, <1>3 DEF WgOK
<1>6. KTiles(Pass(g)) \in Nat
  BY <1>1, <1>4, ShapeFacts
<1>7. k \in 0 .. KTiles(Pass(g)) - 1 /\ k < w.k
  BY <1>4, <1>5, <1>6
<1>8. AbPos(g) = Before(Pass(g)) + w.k
  BY <1>2 DEF AbPos
<1>9. p = Before(Pass(g)) + k /\ p \in Nat /\ p < AbPos(g)
  BY <1>3, <1>4, <1>7, <1>8
<1>10. x \in Items /\ x[1] = Pass(g) /\ x[2] = k
  BY <1>3, <1>7 DEF Items
<1>11. Pos(x) = p
  BY <1>9, <1>10 DEF Pos
<1>12. ~IsFree(x)
  BY <1>3, <1>4, <1>10 DEF IsFree
<1>13. p < Issued
  <2>1. CASE w.pc = "mma"
    BY <1>9, <2>1, IssuedFacts
  <2>2. CASE w.pc = "drain"
    <3>1. Mul(g) = Own(g) + 2
      BY <2>2, OwnFacts DEF Behind
    <3>2. Pass(g) < NextMul /\ NextMul \in Nat \ {0}
      BY <1>3, <1>4, <3>1, NextFacts
    <3>3. Pos(x) < Before(NextMul)
      BY <1>1, <1>10, <3>2, PosFacts
    <3> QED BY <1>1, <1>9, <1>11, <3>2, <3>3, IssuedFacts, BeforeNext
  <2> QED BY <2>1, <2>2
<1> HIDE DEF x, p, k
<1>14. Issued <= Loaded /\ Loaded \in Nat /\ Issued \in Nat
  BY AbFacts, LoadFacts, IssuedFacts
<1>15. p < Loaded
  BY <1>9, <1>13, <1>14
<1>16. p >= Loaded - ABStages
  BY <1>9, <1>10, <1>11, <1>12, <1>14, AbFacts, SizeFacts
<1>17. StageOK(ab[p % ABStages], x, p \div ABStages, IsFree(x), p < Issued)
  BY <1>10, <1>11, <1>15, <1>16, AbFacts
<1>18. /\ ab[p % ABStages].data = x /\ ab[p % ABStages].coming = Nothing
       /\ ab[p % ABStages].full = ((p \div ABStages) + 1) % 2
       /\ ab[p % ABStages].empty = (p \div ABStages) % 2
  BY <1>12, <1>13, <1>17 DEF StageOK
<1> QED BY <1>9, <1>10, <1>11, <1>12, <1>13, <1>15, <1>16, <1>18 DEF x, p, k

\* A wait on the full barrier passes when the k tile that is next is loaded.
LEMMA FullFacts ==
  ASSUME TypeOK, PingpongInv, NEW g \in WG, wg[g].pc = "mma", wg[g].k < KCount(wg[g].tile),
         Passed(ab[wg[g].ab.index].full, wg[g].ab)
  PROVE  LET x == <<Pass(g), wg[g].k>>
             p == Issued
         IN  /\ x \in Items /\ Pos(x) = p /\ ~IsFree(x) /\ p < Loaded /\ p >= Loaded - ABStages
             /\ StageOK(ab[p % ABStages], x, p \div ABStages, FALSE, TRUE)
<1> DEFINE w == wg[g]  x == <<Pass(g), w.k>>  p == Issued  m == ABStages
<1>1. shape \in Shapes /\ m \in Nat \ {0}
  BY SizeFacts DEF TypeOK
<1>2. w.pc \in Busy
  BY DEF Busy, Behind
<1>3. /\ WgOK(g) /\ Before(Pass(g)) \in Nat /\ Pass(g) \in 1 .. Tiles
      /\ KCount(w.tile) = KTiles(Pass(g))
      /\ w.ab = At(AbPos(g), ABStages, 0)
  BY <1>2, PlaceFacts
<1>4. w.k \in Nat /\ w.flight \in Nat /\ w.executed \in Nat /\ Pass(g) = w.executed + 1 /\ Pass(g) \in Nat \ {0}
  BY WgFacts, OwnFacts
<1>5. KTiles(Pass(g)) \in Nat /\ w.k < KTiles(Pass(g)) /\ w.k \in 0 .. KTiles(Pass(g)) - 1
  BY <1>1, <1>3, <1>4, ShapeFacts
<1>6. p = AbPos(g) /\ p = Before(Pass(g)) + w.k /\ p \in Nat /\ w.ab = At(p, m, 0)
  BY <1>3, IssuedFacts
<1>7. x \in Items /\ x[1] = Pass(g) /\ x[2] = w.k
  BY <1>3, <1>5 DEF Items
<1>8. Pos(x) = p
  BY <1>6, <1>7 DEF Pos
<1>9. ~IsFree(x)
  BY <1>6, <1>7, <1>8, FreeIssued
<1>10. Issued <= Loaded /\ Loaded \in Nat
  BY AbFacts, LoadFacts
<1>11. p % m \in 0 .. m - 1 /\ p \div m \in Nat /\ ab[p % m].full # (p \div m) % 2
  <2>1. w.ab.index = p % m /\ w.ab.phase = (p \div m) % 2 /\ p % m \in 0 .. m - 1
    BY <1>1, <1>6, AtFacts
  <2>2. p \div m \in Nat
    BY <1>1, <1>6, DivMod
  <2> QED BY <2>1, <2>2 DEF Passed
<1> HIDE DEF x, p, m
<1>12. p < Loaded
  <2>1. SUFFICES ASSUME p = Loaded PROVE FALSE
    BY <1>6, <1>10 DEF p
  <2>2. CASE p < m
    <3>1. p % m = p /\ p \div m = 0 /\ p \in 0 .. m - 1
      BY <1>1, <1>6, <2>2, FirstLap
    <3>2. ab[p] = EmptyStage
      BY <2>1, <3>1, AbFacts DEF m
    <3> QED BY <1>11, <3>1, <3>2 DEF EmptyStage
  <2>3. CASE p >= m
    <3> DEFINE q == p - m
    <3>1. q \in Nat /\ q < p /\ q < Before(Tiles + 1)
      <4>1. Before(Tiles + 1) \in Nat
        BY <1>1, ShapeFacts, BeforeNext
      <4> QED BY <1>1, <1>6, <1>10, <2>1, <2>3, <4>1, LoadFacts
    <3>2. q % m = p % m /\ p \div m = (q \div m) + 1 /\ q \div m \in Nat
      BY <1>1, <1>6, <2>3, LastLap
    <3>3. q >= Loaded - ABStages /\ q < Loaded /\ q < Issued
      BY <1>1, <1>6, <2>1, <3>1 DEF m, p
    <3> HIDE DEF q
    <3>4. PICK y \in Items : Pos(y) = q
      BY <1>1, <3>1, PosFills
    <3>5. StageOK(ab[q % m], y, q \div m, IsFree(y), TRUE)
      BY <3>3, <3>4, AbFacts DEF m
    <3>6. ab[q % m].full = ((q \div m) + 1) % 2
      BY <3>5 DEF StageOK
    <3> QED BY <1>11, <3>2, <3>6
  <2> QED BY <1>1, <1>6, <2>2, <2>3
<1>13. p >= Loaded - ABStages
  BY <1>1, <1>6, <1>7, <1>8, <1>9, <1>10, AbFacts, SizeFacts
<1>14. StageOK(ab[p % m], x, p \div m, IsFree(x), p < Issued)
  BY <1>7, <1>8, <1>12, <1>13, AbFacts DEF m
<1>15. StageOK(ab[p % m], x, p \div m, FALSE, TRUE)
  BY <1>9, <1>11, <1>14 DEF StageOK
<1> QED BY <1>7, <1>8, <1>9, <1>12, <1>13, <1>15 DEF x, p, m

-----------------------------------------------------------------------------
(* The ring of the scheduler.                                               *)

LEMMA MissingFacts ==
  ASSUME NEW n \in Nat
  PROVE  /\ Missing(n) \in Nat
         /\ Waits(0, n) \in {0, 1} /\ Waits(1, n) \in {0, 1}
         /\ Missing(n) = Waits(0, n) + Waits(1, n) + (IF Taken <= n THEN 1 ELSE 0)
         /\ \A g \in WG : g \in Readers(n) /\ SchedPos(g) <= n => Waits(g, n) = 1 /\ Missing(n) >= 1
         /\ Taken <= n => Missing(n) >= 1
<1>1. Waits(0, n) \in {0, 1} /\ Waits(1, n) \in {0, 1}
  BY DEF Waits
<1>2. Missing(n) = Waits(0, n) + Waits(1, n) + (IF Taken <= n THEN 1 ELSE 0)
  BY DEF Missing
<1>3. ASSUME NEW g \in WG, g \in Readers(n) /\ SchedPos(g) <= n
      PROVE  Waits(g, n) = 1 /\ Missing(n) >= 1
  <2>1. Waits(g, n) = 1
    BY <1>3 DEF Waits
  <2>2. g = 0 \/ g = 1
    BY DEF WG
  <2>3. Waits(0, n) = 1 \/ Waits(1, n) = 1
    BY <2>1, <2>2
  <2> QED BY <1>1, <1>2, <2>1, <2>3
<1> QED BY <1>1, <1>2, <1>3

LEMMA ReaderFacts ==
  ASSUME TypeOK, NEW n \in Nat
  PROVE  /\ Readers(n) \subseteq WG
         /\ shape.varlenK => Readers(n) = WG
         /\ ~shape.varlenK => Readers(n) = {Owner(n)}
BY OwnerFacts DEF Readers, TypeOK

LEMMA SlotsFacts ==
  ASSUME TypeOK, PingpongInv
  PROVE  /\ \A s \in 0 .. SchedStages - 1 : s >= Written => slot[s] = EmptySlot(SchedArrivals(shape.varlenK))
         /\ \A n \in Nat : n < Written =>
              /\ n < Written - SchedStages => Missing(n) = 0
              /\ n >= Written - SchedStages =>
                   /\ slot[n % SchedStages].data = TileOf(n)
                   /\ slot[n % SchedStages].full = ((n \div SchedStages) + 1) % 2
                   /\ slot[n % SchedStages].empty = (IF Missing(n) = 0 THEN (n \div SchedStages) + 1 ELSE n \div SchedStages) % 2
                   /\ slot[n % SchedStages].missing = IF Missing(n) = 0 THEN SchedArrivals(shape.varlenK) ELSE Missing(n)
<1>1. SchedOK
  BY DEF PingpongInv
<1>2. ASSUME NEW n \in Nat, n < Written PROVE n \in 0 .. Written - 1
  BY <1>2, LoadFacts
<1>3. ASSUME NEW n \in Nat, n < Written, n < Written - SchedStages PROVE Missing(n) = 0
  BY <1>1, <1>2, <1>3 DEF SchedOK
<1>4. ASSUME NEW n \in Nat, n < Written, n >= Written - SchedStages
      PROVE  /\ slot[n % SchedStages].data = TileOf(n)
             /\ slot[n % SchedStages].full = ((n \div SchedStages) + 1) % 2
             /\ slot[n % SchedStages].empty = (IF Missing(n) = 0 THEN (n \div SchedStages) + 1 ELSE n \div SchedStages) % 2
             /\ slot[n % SchedStages].missing = IF Missing(n) = 0 THEN SchedArrivals(shape.varlenK) ELSE Missing(n)
  <2>1. slot[n % SchedStages] =
          [data |-> TileOf(n), full |-> (n \div SchedStages + 1) % 2,
           empty |-> (IF Missing(n) = 0 THEN n \div SchedStages + 1 ELSE n \div SchedStages) % 2,
           missing |-> IF Missing(n) = 0 THEN SchedArrivals(shape.varlenK) ELSE Missing(n)]
    BY <1>1, <1>2, <1>4 DEF SchedOK
  <2> DEFINE full == (n \div SchedStages + 1) % 2
             empty == (IF Missing(n) = 0 THEN n \div SchedStages + 1 ELSE n \div SchedStages) % 2
             missing == IF Missing(n) = 0 THEN SchedArrivals(shape.varlenK) ELSE Missing(n)
             st == slot[n % SchedStages]
  <2>2. st = [data |-> TileOf(n), full |-> full, empty |-> empty, missing |-> missing]
    BY <2>1
  <2> HIDE DEF full, empty, missing, st
  <2>3. st.data = TileOf(n) /\ st.full = full /\ st.empty = empty /\ st.missing = missing
    BY <2>2
  <2> QED BY <2>3 DEF full, empty, missing, st
<1>5. \A s \in 0 .. SchedStages - 1 : s >= Written => slot[s] = EmptySlot(SchedArrivals(shape.varlenK))
  BY <1>1 DEF SchedOK
<1> QED BY <1>3, <1>4, <1>5

\* A warp group reads the slot of its place, written and not yet used again.
LEMMA TakeFacts ==
  ASSUME TypeOK, PingpongInv, NEW g \in WG, wg[g].pc \in {"take", "skip"}, SlotFull(wg[g].sched)
  PROVE  LET n == SchedPos(g)
         IN  /\ n \in Nat /\ n < Written /\ n >= Written - SchedStages
             /\ n = wg[g].executed - 1 /\ Pass(g) = n + 2
             /\ g \in Readers(n) /\ Missing(n) >= 1 /\ Waits(g, n) = 1
             /\ wg[g].sched.index = n % SchedStages /\ n % SchedStages \in 0 .. SchedStages - 1
             /\ slot[n % SchedStages].data = TileOf(n)
<1> DEFINE n == SchedPos(g)  m == SchedStages  w == wg[g]
<1>1. m \in Nat \ {0} /\ m >= 2
  BY SizeFacts
<1>2. n \in Nat /\ WgOK(g) /\ w.sched = At(n, m, 0)
  BY PlaceFacts
<1>3. w.executed \in Nat /\ n = w.executed - 1 /\ Pass(g) = n + 2
  BY WgFacts DEF SchedPos, Pass
<1>4. /\ w.sched.index = n % m /\ w.sched.phase = (n \div m) % 2
      /\ n % m \in 0 .. m - 1 /\ n \div m \in Nat
  BY <1>1, <1>2, AtFacts, DivMod
<1>5. slot[n % m].full # (n \div m) % 2
  BY <1>4 DEF SlotFull, Passed
<1>6. n <= Written + 1 /\ Written \in Nat
  BY <1>2, LoadFacts DEF WgOK
<1>7. Owner(Pass(g)) = g \/ shape.varlenK
  BY <1>2 DEF WgOK
<1>8. g \in Readers(n)
  <2>1. Owner(n + 2) = Owner(n)
    BY <1>2, OwnerFacts
  <2> QED BY <1>2, <1>3, <1>7, <2>1, ReaderFacts
<1>9. Missing(n) >= 1 /\ Waits(g, n) = 1 /\ Missing(n) \in Nat
  BY <1>2, <1>8, MissingFacts
<1>10. ASSUME NEW i \in Nat, i < Written, i >= Written - m
       PROVE  slot[i % m].full = ((i \div m) + 1) % 2 /\ slot[i % m].data = TileOf(i)
  BY <1>10, SlotsFacts
<1>11. ASSUME NEW i \in Nat, i < Written - m PROVE Missing(i) = 0
  BY <1>1, <1>6, <1>11, SlotsFacts
<1>12. ASSUME NEW s \in 0 .. m - 1, s >= Written PROVE slot[s].full = 0
  BY <1>12, SlotsFacts DEF EmptySlot
<1> HIDE DEF n, m
<1>13. n < Written
  <2>1. SUFFICES ASSUME n >= Written PROVE FALSE
    BY <1>2, <1>6
  <2>2. CASE n < m
    <3>1. n % m = n /\ n \div m = 0 /\ n \in 0 .. m - 1
      BY <1>1, <1>2, <2>2, FirstLap
    <3> QED BY <1>5, <1>12, <2>1, <3>1
  <2>3. CASE n >= m
    <3> DEFINE i == n - m
    <3>1. i \in Nat /\ i < Written /\ i >= Written - m
      BY <1>1, <1>2, <1>6, <2>1, <2>3
    <3>2. i % m = n % m /\ n \div m = (i \div m) + 1
      BY <1>1, <1>2, <2>3, LastLap
    <3> HIDE DEF i
    <3> QED BY <1>5, <1>10, <3>1, <3>2
  <2> QED BY <1>1, <1>2, <2>2, <2>3
<1>14. n >= Written - m
  BY <1>1, <1>2, <1>6, <1>9, <1>11
<1> QED BY <1>2, <1>3, <1>4, <1>8, <1>9, <1>10, <1>13, <1>14 DEF n, m

\* So does the load warp.
LEMMA LoadTakeFacts ==
  ASSUME TypeOK, PingpongInv, load.pc \in {"take", "takeLast"}
  PROVE  LET n == Taken
         IN  /\ n \in Nat /\ Written = n + 1 /\ n < Written /\ n >= Written - SchedStages
             /\ Missing(n) >= 1
             /\ load.sched.index = n % SchedStages /\ n % SchedStages \in 0 .. SchedStages - 1
             /\ slot[n % SchedStages].data = TileOf(n)
<1>1. Taken \in Nat /\ Written = Taken + 1 /\ load.sched = At(Taken, SchedStages, 0)
  BY LoadFacts DEF Written
<1>2. SchedStages \in Nat \ {0}
  BY SizeFacts
<1>3. Taken < Written /\ Taken >= Written - SchedStages
  BY <1>1, <1>2
<1>4. Missing(Taken) >= 1
  BY <1>1, MissingFacts
<1>5. load.sched.index = Taken % SchedStages /\ Taken % SchedStages \in 0 .. SchedStages - 1
  BY <1>1, <1>2, AtFacts
<1>6. slot[Taken % SchedStages].data = TileOf(Taken)
  BY <1>1, <1>3, SlotsFacts
<1> QED BY <1>1, <1>3, <1>4, <1>5, <1>6

\* The load warp writes the next slot when everybody has read what it held.
LEMMA WriteFacts ==
  ASSUME TypeOK, PingpongInv, load.pc \in {"load", "last"},
         Passed(slot[load.sched.index].empty, [load.sched EXCEPT !.phase = 1 - @])
  PROVE  LET n == Taken
         IN  /\ n \in Nat /\ Written = n
             /\ load.sched.index = n % SchedStages /\ n % SchedStages \in 0 .. SchedStages - 1
             /\ slot[n % SchedStages].full = (n \div SchedStages) % 2
             /\ slot[n % SchedStages].empty = (n \div SchedStages) % 2
             /\ slot[n % SchedStages].missing = SchedArrivals(shape.varlenK)
             /\ n >= SchedStages => Missing(n - SchedStages) = 0
             /\ \A g \in Readers(n) : SchedPos(g) <= n
<1> DEFINE n == Taken  m == SchedStages
<1>1. n \in Nat /\ Written = n /\ load.sched = At(n, m, 0) /\ load.sched \in PipeState
  BY LoadFacts DEF Written, TypeOK, LoadState
<1>2. m \in Nat \ {0} /\ m >= 2
  BY SizeFacts
<1>3. /\ load.sched.index = n % m /\ load.sched.phase = (n \div m) % 2
      /\ n % m \in 0 .. m - 1 /\ n \div m \in Nat
  BY <1>1, <1>2, AtFacts, DivMod
<1>4. slot[n % m].empty # 1 - ((n \div m) % 2)
  <2>1. [load.sched EXCEPT !.phase = 1 - @].phase = 1 - load.sched.phase
    BY <1>1 DEF PipeState
  <2> QED BY <1>3, <2>1 DEF Passed
<1>5. ASSUME NEW s \in 0 .. m - 1, s >= Written PROVE slot[s] = EmptySlot(SchedArrivals(shape.varlenK))
  BY <1>5, SlotsFacts
<1> DEFINE Good(i) ==
             /\ slot[i % m].full = ((i \div m) + 1) % 2
             /\ slot[i % m].empty = (IF Missing(i) = 0 THEN (i \div m) + 1 ELSE i \div m) % 2
             /\ slot[i % m].missing = IF Missing(i) = 0 THEN SchedArrivals(shape.varlenK) ELSE Missing(i)
<1>6. ASSUME NEW i \in Nat, i < Written, i >= Written - m PROVE Good(i)
  BY <1>6, SlotsFacts
<1> HIDE DEF n, m
<1>7. /\ slot[n % m].full = (n \div m) % 2 /\ slot[n % m].empty = (n \div m) % 2
      /\ slot[n % m].missing = SchedArrivals(shape.varlenK)
      /\ n >= m => Missing(n - m) = 0
  <2>1. CASE n < m
    <3>1. n % m = n /\ n \div m = 0 /\ n \in 0 .. m - 1
      BY <1>1, <1>2, <2>1, FirstLap
    <3>2. slot[n] = EmptySlot(SchedArrivals(shape.varlenK))
      BY <1>1, <1>5, <3>1
    <3>3. slot[n].full = 0 /\ slot[n].empty = 0 /\ slot[n].missing = SchedArrivals(shape.varlenK)
      BY <3>2 DEF EmptySlot
    <3>4. ~(n >= m)
      BY <1>1, <1>2, <2>1
    <3> QED BY <3>1, <3>3, <3>4
  <2>2. CASE n >= m
    <3> DEFINE i == n - m
    <3>1. i \in Nat /\ i < Written /\ i >= Written - m
      BY <1>1, <1>2, <2>2
    <3>2. i % m = n % m /\ n \div m = (i \div m) + 1 /\ i \div m \in Nat
      BY <1>1, <1>2, <2>2, LastLap
    <3>3. Good(i)
      BY <1>6, <3>1
    <3> HIDE DEF i
    <3>4. Missing(i) = 0
      <4>1. slot[i % m].empty = (IF Missing(i) = 0 THEN (i \div m) + 1 ELSE i \div m) % 2
        BY <3>3
      <4>2. (i \div m) % 2 = 1 - (((i \div m) + 1) % 2)
        BY <3>2
      <4> QED BY <1>4, <3>2, <4>1, <4>2
    <3>5. /\ slot[n % m].full = (n \div m) % 2 /\ slot[n % m].empty = (n \div m) % 2
          /\ slot[n % m].missing = SchedArrivals(shape.varlenK)
      BY <3>2, <3>3, <3>4
    <3> QED BY <3>4, <3>5 DEF i
  <2> QED BY <1>1, <1>2, <2>1, <2>2
<1>8. ASSUME NEW g \in Readers(n) PROVE SchedPos(g) <= n
  <2>1. g \in WG
    BY <1>1, ReaderFacts
  <2>2. SchedPos(g) \in Nat /\ WgOK(g)
    BY <2>1, PlaceFacts
  <2>3. SchedPos(g) <= n + (IF wg[g].pc = "take" /\ ~shape.varlenK THEN 1 ELSE 0)
    BY <1>1, <2>2 DEF WgOK
  <2>4. CASE wg[g].pc = "take" /\ ~shape.varlenK
    <3>1. Owner(n) = g /\ Owner(n + 1) = 1 - g
      BY <1>1, <2>4, ReaderFacts, OwnerFacts
    <3>2. Owner(Pass(g)) = g /\ Pass(g) = SchedPos(g) + 2
      BY <2>1, <2>2, <2>4, WgFacts DEF WgOK, SchedPos, Pass
    <3>3. Owner(SchedPos(g)) = g
      BY <2>2, <3>2, OwnerFacts
    <3>4. SchedPos(g) # n + 1
      BY <2>1, <3>1, <3>3, Sides
    <3> QED BY <1>1, <2>2, <2>3, <2>4, <3>4
  <2> QED BY <1>1, <2>2, <2>3, <2>4
<1> QED BY <1>1, <1>3, <1>7, <1>8 DEF n, m

-----------------------------------------------------------------------------
(* The ring of C.                                                           *)

LEMMA CountFacts ==
  ASSUME TypeOK, NEW g \in WG
  PROVE  CLoaded(g) \in Nat /\ CDone(g) \in Nat
<1>1. wg[g].e \in Nat /\ CStages \in Nat /\ EpiTiles \in Nat
  BY WgFacts, SizeFacts
<1>2. \A a, b \in Nat : SmallerOf(a, b) \in Nat
  BY DEF SmallerOf
<1>3. CDone(g) \in Nat
  BY <1>1 DEF CDone
<1>4. wg[g].e + CStages \in Nat /\ wg[g].e + 1 + CStages \in Nat
  BY <1>1
<1>5. /\ SmallerOf(EpiTiles, wg[g].e + CStages) \in Nat
      /\ SmallerOf(EpiTiles, wg[g].e + 1 + CStages) \in Nat
  BY <1>1, <1>2, <1>4
<1>6. CLoaded(g) \in Nat
  BY <1>1, <1>4, <1>5 DEF CLoaded
<1> QED BY <1>3, <1>6

\* The subtiles before tile t.
LEMMA BaseFacts ==
  ASSUME NEW t \in Nat \ {0}
  PROVE  /\ (t - 1) * EpiTiles \in Nat
         /\ t * EpiTiles = (t - 1) * EpiTiles + EpiTiles
         /\ ((t + 1) - 1) * EpiTiles = (t - 1) * EpiTiles + EpiTiles
         /\ ((t + 2) - 1) * EpiTiles = (t - 1) * EpiTiles + 2 * EpiTiles
         /\ \A e \in 0 .. EpiTiles - 1 : CItem((t - 1) * EpiTiles + e) = <<t, e>>
<1>1. EpiTiles \in Nat \ {0}
  BY SizeFacts
<1> DEFINE k == t - 1
<1>2. k \in Nat /\ t = k + 1
  OBVIOUS
<1> HIDE DEF k
<1>3. /\ k * EpiTiles \in Nat
      /\ (k + 1) * EpiTiles = k * EpiTiles + EpiTiles
      /\ (k + 2) * EpiTiles = k * EpiTiles + 2 * EpiTiles
      /\ k * EpiTiles = EpiTiles * k
  BY <1>1, <1>2
<1>4. ASSUME NEW e \in 0 .. EpiTiles - 1 PROVE CItem(k * EpiTiles + e) = <<t, e>>
  <2>1. (EpiTiles * k + e) % EpiTiles = e /\ (EpiTiles * k + e) \div EpiTiles = k
    BY <1>1, <1>2, DivUnique
  <2> QED BY <1>2, <1>3, <2>1 DEF CItem
<1>5. (t + 1) - 1 = k + 1 /\ (t + 2) - 1 = k + 2 /\ t - 1 = k
  BY <1>2
<1>6. (k + 1) * EpiTiles = k * EpiTiles + EpiTiles
  BY <1>3
<1>7. t * EpiTiles = k * EpiTiles + EpiTiles
  BY <1>2, <1>6
<1> QED BY <1>3, <1>4, <1>5, <1>7

\* A warp group in its epilogue has the ring.
LEMMA CFacts ==
  ASSUME TypeOK, PingpongInv, NEW g \in WG, wg[g].pc \in EpiPlace
  PROVE  /\ NextOwn = Own(g) /\ Owner(NextOwn) = g /\ Own(g) = Pass(g) /\ wg[g].tile = Pass(g)
         /\ Own(1 - g) = Own(g) + 1 /\ wg[1 - g].pc \notin EpiPlace
         /\ CBase(g) = (Own(g) - 1) * EpiTiles /\ CBase(g) \in Nat
         /\ CStages > 0 =>
              LET loaded == CBase(g) + CLoaded(g)
                  done == CBase(g) + CDone(g)
              IN  /\ loaded \in Nat /\ done \in Nat
                  /\ wg[g].cRead = At(done, CStages, 0) /\ wg[g].cLoad = At(loaded, CStages, 1)
                  /\ \A s \in 0 .. CStages - 1 : s >= loaded => cs[s] = EmptyStage
                  /\ \A p \in Nat : p < loaded /\ p >= loaded - CStages =>
                       StageOK(cs[p % CStages], CItem(p), p \div CStages, p < done, p < done)
<1>1. HasEpi(g) /\ Own(1 - g) = Own(g) + 1
  BY Order
<1>2. NextOwn = Own(g) /\ Owner(NextOwn) = g
  BY <1>1, NextFacts
<1>3. wg[1 - g].pc \notin EpiPlace
  <2>1. SUFFICES ASSUME wg[1 - g].pc \in EpiPlace PROVE FALSE
    OBVIOUS
  <2>2. 1 - g \in WG /\ 1 - (1 - g) = g
    BY Sides
  <2>3. Own(g) = Own(1 - g) + 1
    BY <2>1, <2>2, Order
  <2> QED BY <1>1, <2>2, <2>3, OwnFacts
<1>4. wg[g].pc \in Busy /\ wg[g].pc # "start"
  BY DEF Busy, Behind, EpiPlace
<1>5. Own(g) = Pass(g) /\ wg[g].tile = Pass(g)
  BY <1>4, PlaceFacts
<1>6. CBase(g) = (Own(g) - 1) * EpiTiles /\ CBase(g) \in Nat
  BY <1>4, OwnFacts, BaseFacts DEF CBase
<1>7. ASSUME CStages > 0
      PROVE  LET loaded == CBase(g) + CLoaded(g)
                 done == CBase(g) + CDone(g)
             IN  /\ loaded \in Nat /\ done \in Nat
                 /\ wg[g].cRead = At(done, CStages, 0) /\ wg[g].cLoad = At(loaded, CStages, 1)
                 /\ \A s \in 0 .. CStages - 1 : s >= loaded => cs[s] = EmptyStage
                 /\ \A p \in Nat : p < loaded /\ p >= loaded - CStages =>
                      StageOK(cs[p % CStages], CItem(p), p \div CStages, p < done, p < done)
  <2> DEFINE loaded == CBase(g) + CLoaded(g)  done == CBase(g) + CDone(g)
  <2>1. loaded \in Nat /\ done \in Nat
    BY <1>6, CountFacts
  <2>2. wg[g].cRead = At(done, CStages, 0) /\ wg[g].cLoad = At(loaded, CStages, 1)
    BY <1>7, PlaceFacts DEF EpiOK
  <2>3. COK
    BY DEF PingpongInv
  <2>4. /\ \A s \in 0 .. CStages - 1 : s >= loaded => cs[s] = EmptyStage
        /\ \A p \in 0 .. loaded - 1 :
             p >= loaded - CStages =>
               StageOK(cs[p % CStages], CItem(p), p \div CStages, p < done, p < done)
    BY <1>2, <1>6, <1>7, <2>3 DEF COK
  <2> HIDE DEF loaded, done
  <2>5. ASSUME NEW p \in Nat, p < loaded PROVE p \in 0 .. loaded - 1
    BY <2>1, <2>5
  <2>6. \A p \in Nat : p < loaded /\ p >= loaded - CStages =>
          StageOK(cs[p % CStages], CItem(p), p \div CStages, p < done, p < done)
    BY <2>4, <2>5
  <2> QED BY <2>1, <2>2, <2>4, <2>6 DEF loaded, done
<1> QED BY <1>1, <1>2, <1>3, <1>5, <1>6, <1>7

\* A wait on a full barrier of C passes when the subtile is there.
LEMMA ReadCFacts ==
  ASSUME TypeOK, PingpongInv, NEW g \in WG, wg[g].pc = "readC", Passed(cs[wg[g].cRead.index].full, wg[g].cRead)
  PROVE  LET p == CBase(g) + CDone(g)
         IN  /\ CStages \in Nat \ {0} /\ p \in Nat /\ p < CBase(g) + CLoaded(g) /\ p >= CBase(g) + CLoaded(g) - CStages
             /\ wg[g].cRead.index = p % CStages /\ p % CStages \in 0 .. CStages - 1
             /\ cs[p % CStages].data = CItem(p) /\ cs[p % CStages].coming = Nothing
             /\ cs[p % CStages].full = ((p \div CStages) + 1) % 2
             /\ cs[p % CStages].empty = (p \div CStages) % 2
             /\ CItem(p) = Subtile(g)
<1> DEFINE w == wg[g]  p == CBase(g) + CDone(g)  loaded == CBase(g) + CLoaded(g)  m == CStages
<1>1. w.pc \in EpiPlace
  BY DEF EpiPlace
<1>2. w.e \in Nat /\ EpiOK(g)
  BY WgFacts, PlaceFacts
<1>3. m \in Nat \ {0} /\ w.e < EpiTiles /\ EpiTiles \in Nat
  BY <1>2, SizeFacts DEF EpiOK
<1>4. CDone(g) = w.e /\ CLoaded(g) = IF EpiTiles < w.e + m THEN EpiTiles ELSE w.e + m
  BY DEF CDone, CLoaded, SmallerOf
<1>5. CBase(g) \in Nat /\ CBase(g) = (Own(g) - 1) * EpiTiles /\ w.tile = Own(g)
  BY <1>1, CFacts
<1>6. p \in Nat /\ p < loaded /\ p >= loaded - m
  BY <1>2, <1>3, <1>4, <1>5
<1>7. /\ w.cRead = At(p, m, 0)
      /\ \A q \in Nat : q < loaded /\ q >= loaded - CStages =>
           StageOK(cs[q % CStages], CItem(q), q \div CStages, q < p, q < p)
  BY <1>1, <1>3, CFacts
<1>8. CItem(p) = Subtile(g)
  <2>1. w.e \in 0 .. EpiTiles - 1
    BY <1>2, <1>3
  <2>2. CItem((Own(g) - 1) * EpiTiles + w.e) = <<Own(g), w.e>>
    BY <2>1, OwnFacts, BaseFacts
  <2> QED BY <1>4, <1>5, <2>2 DEF Subtile
<1>9. StageOK(cs[p % m], CItem(p), p \div m, p < p, p < p)
  BY <1>6, <1>7
<1>10. w.cRead.index = p % m /\ w.cRead.phase = (p \div m) % 2 /\ p % m \in 0 .. m - 1
  BY <1>3, <1>6, <1>7, AtFacts
<1>11. cs[p % m].full # (p \div m) % 2
  BY <1>10 DEF Passed
<1> HIDE DEF p, m, loaded
<1>12. /\ cs[p % m].data = CItem(p) /\ cs[p % m].coming = Nothing
       /\ cs[p % m].full = ((p \div m) + 1) % 2 /\ cs[p % m].empty = (p \div m) % 2
  <2>1. ~(p < p)
    BY <1>6
  <2> QED BY <1>9, <1>11, <2>1 DEF StageOK
<1>13. CStages \in Nat \ {0} /\ p \in Nat /\ p < CBase(g) + CLoaded(g) /\ p >= CBase(g) + CLoaded(g) - CStages
  <2>1. CBase(g) \in Nat /\ CLoaded(g) \in Nat
    BY <1>5, CountFacts
  <2> QED BY <1>3, <1>6, <2>1 DEF m, loaded
<1>14. /\ w.cRead.index = p % CStages /\ p % CStages \in 0 .. CStages - 1
       /\ cs[p % CStages].data = CItem(p) /\ cs[p % CStages].coming = Nothing
       /\ cs[p % CStages].full = ((p \div CStages) + 1) % 2
       /\ cs[p % CStages].empty = (p \div CStages) % 2
  BY <1>10, <1>12, Zenon DEF m
<1> QED BY <1>8, <1>13, <1>14, Zenon DEF p

\* C is loaded into a stage that has been read.
LEMMA LoadCFacts ==
  ASSUME TypeOK, PingpongInv, NEW g \in WG, wg[g].pc \in {"prefetch", "refill"},
         Passed(cs[wg[g].cLoad.index].empty, wg[g].cLoad)
  PROVE  LET p == CBase(g) + CLoaded(g)
         IN  /\ CStages \in Nat \ {0} /\ p \in Nat
             /\ wg[g].cLoad.index = p % CStages /\ p % CStages \in 0 .. CStages - 1
             /\ cs[p % CStages].full = (p \div CStages) % 2
             /\ cs[p % CStages].empty = (p \div CStages) % 2
             /\ CLoaded(g) < EpiTiles /\ CItem(p) = <<wg[g].tile, CLoaded(g)>>
<1> DEFINE w == wg[g]  p == CBase(g) + CLoaded(g)  done == CBase(g) + CDone(g)  m == CStages
<1>1. w.pc \in EpiPlace
  BY DEF EpiPlace
<1>2. w.e \in Nat /\ EpiOK(g)
  BY WgFacts, PlaceFacts
<1>3. m \in Nat \ {0} /\ EpiTiles \in Nat
  BY <1>2, SizeFacts DEF EpiOK
<1>4. CLoaded(g) < EpiTiles /\ CLoaded(g) \in Nat
  BY <1>2, <1>3, CountFacts DEF CLoaded, EpiOK, SmallerOf
<1>5. CBase(g) \in Nat /\ CBase(g) = (Own(g) - 1) * EpiTiles /\ w.tile = Own(g)
  BY <1>1, CFacts
<1>6. /\ p \in Nat /\ w.cLoad = At(p, m, 1)
      /\ \A s \in 0 .. CStages - 1 : s >= p => cs[s] = EmptyStage
      /\ \A q \in Nat : q < p /\ q >= p - CStages =>
           StageOK(cs[q % CStages], CItem(q), q \div CStages, q < done, q < done)
  BY <1>1, <1>3, CFacts
<1>7. CItem(p) = <<w.tile, CLoaded(g)>>
  <2>1. CLoaded(g) \in 0 .. EpiTiles - 1
    BY <1>3, <1>4
  <2>2. CItem((Own(g) - 1) * EpiTiles + CLoaded(g)) = <<Own(g), CLoaded(g)>>
    BY <2>1, OwnFacts, BaseFacts
  <2> QED BY <1>5, <2>2
<1>8. w.cLoad.index = p % m /\ w.cLoad.phase = 1 - ((p \div m) % 2) /\ p % m \in 0 .. m - 1 /\ p \div m \in Nat
  BY <1>3, <1>6, AtFacts, DivMod
<1>9. cs[p % m].empty # 1 - ((p \div m) % 2)
  BY <1>8 DEF Passed
<1> HIDE DEF p, m, done
<1>10. cs[p % m].full = (p \div m) % 2 /\ cs[p % m].empty = (p \div m) % 2
  <2>1. CASE p < m
    <3>1. p % m = p /\ p \div m = 0 /\ p \in 0 .. m - 1
      BY <1>3, <1>6, <2>1, FirstLap
    <3>2. p >= p
      BY <1>6
    <3>3. cs[p] = EmptyStage
      BY <1>6, <3>1, <3>2 DEF m
    <3> QED BY <3>1, <3>3 DEF EmptyStage
  <2>2. CASE p >= m
    <3> DEFINE q == p - m
    <3>1. q \in Nat /\ q < p /\ q >= p - m
      BY <1>3, <1>6, <2>2
    <3>2. q % m = p % m /\ p \div m = (q \div m) + 1 /\ q \div m \in Nat
      BY <1>3, <1>6, <2>2, LastLap
    <3> HIDE DEF q
    <3>3. StageOK(cs[q % m], CItem(q), q \div m, q < done, q < done)
      BY <1>6, <3>1 DEF m
    <3>4. (q \div m) % 2 = 1 - (((q \div m) + 1) % 2)
      BY <3>2
    <3>5. q < done
      BY <1>9, <3>2, <3>3, <3>4 DEF StageOK
    <3> QED BY <3>2, <3>3, <3>5 DEF StageOK
  <2> QED BY <1>3, <1>6, <2>1, <2>2
<1> QED BY <1>3, <1>4, <1>6, <1>7, <1>8, <1>10 DEF p, m

-----------------------------------------------------------------------------
(* The invariant implies the two safety properties.                         *)

LEMMA OwnTileHolds ==
  ASSUME TypeOK, PingpongInv
  PROVE  MmaReadsOwnTile
<1> SUFFICES ASSUME NEW g \in WG, NEW n \in 0 .. wg[g].flight - 1
             PROVE  ab[InFlight(g, n)].data = <<wg[g].tile, wg[g].k - wg[g].flight + n>>
  BY DEF MmaReadsOwnTile
<1>1. wg[g].flight \in Nat /\ n \in Nat /\ wg[g].flight > 0
  BY WgFacts
<1>2. WgOK(g)
  BY PlaceFacts
<1>3. wg[g].pc \in {"mma", "drain"}
  BY <1>1, <1>2 DEF WgOK
<1>4. wg[g].tile = Pass(g)
  BY <1>3, PlaceFacts DEF Busy, Behind
<1> DEFINE q == AbPos(g) - wg[g].flight  p == q + n
<1>5. /\ p \in Nat /\ ab[p % ABStages].data = <<Pass(g), wg[g].k - wg[g].flight + n>>
  BY <1>3, FlightFacts
<1>6. q \in Nat
  <2>1. 0 \in 0 .. wg[g].flight - 1
    BY <1>1
  <2>2. AbPos(g) - wg[g].flight + 0 \in Nat
    BY <1>3, <2>1, FlightFacts
  <2>3. AbPos(g) \in Nat
    BY PlaceFacts
  <2> QED BY <1>1, <2>2, <2>3
<1>7. wg[g].rel = At(q, ABStages, 0)
  BY <1>2, <1>3 DEF WgOK
<1> HIDE DEF q
<1>8. InFlight(g, n) = p % ABStages
  <2>1. AdvanceIters(At(q, ABStages, 0), n, ABStages) = At(q + n, ABStages, 0)
    <3>1. ABStages \in Nat \ {0} /\ n \in Nat /\ q \in Nat /\ 0 \in {0, 1}
      BY <1>1, <1>6, SizeFacts
    <3> QED BY <3>1, AdvanceAt
  <2> QED BY <1>7, <2>1 DEF InFlight, At
<1> QED BY <1>4, <1>5, <1>8

LEMMA BuffersHold ==
  ASSUME TypeOK, PingpongInv
  PROVE  EpilogueBuffersSafe
<1>1. ASSUME NEW g \in WG, wg[g].pc = "readC", Passed(cs[wg[g].cRead.index].full, wg[g].cRead)
      PROVE  cs[wg[g].cRead.index].data = Subtile(g)
  BY <1>1, ReadCFacts, Zenon
<1>2. ASSUME NEW g \in WG, NEW i \in DOMAIN stores[g], ~stores[g][i].read
      PROVE  dbuf[stores[g][i].buf] = stores[g][i].dst
  <2>1. StoresOK(g)
    BY PlaceFacts
  <2>2. i \in 1 .. Len(stores[g])
    BY DEF TypeOK
  <2> QED BY <1>2, <2>1, <2>2 DEF StoresOK
<1> QED BY <1>1, <1>2 DEF EpilogueBuffersSafe

-----------------------------------------------------------------------------
(* The initial states.                                                      *)

LEMMA ZeroAt == ASSUME NEW m \in Nat \ {0} PROVE At(0, m, 0) = Consumer /\ At(0, m, 1) = Producer
<1>1. 0 % m = 0 /\ 0 \div m = 0
  BY 0 \in 0 .. m - 1, FirstLap
<1> QED BY <1>1 DEF At, Consumer, Producer

LEMMA InitType == Init => TypeOK
<1> SUFFICES ASSUME Init PROVE TypeOK
  OBVIOUS
<1>1. shape \in Shapes
  BY DEF Init
<1>2. Tiles \in Nat /\ FirstTile \in 0 .. Tiles
  BY <1>1, ShapeFacts DEF FirstTile, Invalid
<1>3. Producer \in PipeState /\ Consumer \in PipeState
  BY DEF Producer, Consumer, PipeState
<1>4. load \in LoadState
  <2> DEFINE pc == IF FirstTile # Invalid THEN "load" ELSE IF shape.varlenK THEN "tail" ELSE "last"
  <2>1. load = [pc |-> pc, tile |-> FirstTile, k |-> 0, st |-> Producer, sched |-> Consumer]
    BY DEF Init
  <2>2. pc \in {"load", "tail", "last"}
    OBVIOUS
  <2> HIDE DEF pc
  <2> QED BY <1>2, <1>3, <2>1, <2>2 DEF LoadState
<1>5. wg \in [WG -> WgState]
  <2>1. "start" \in Busy \cup Idle
    BY DEF Idle
  <2> QED BY <1>2, <1>3, <2>1 DEF Init, WgState
<1>6. EmptyStage \in Stage
  BY DEF EmptyStage, Stage, Content
<1>7. EmptySlot(SchedArrivals(shape.varlenK)) \in Slot
  BY <1>2 DEF EmptySlot, SchedArrivals, Slot, Invalid
<1>8. ab \in [0 .. ABStages - 1 -> Stage] /\ cs \in [0 .. CStages - 1 -> Stage]
  BY <1>6 DEF Init
<1>9. slot \in [0 .. SchedStages - 1 -> Slot]
  BY <1>7 DEF Init
<1>10. turn \in [{"mma", "epi"} -> [WG -> Nat]]
  BY DEF Init
<1>11. dbuf \in [0 .. EpiStages - 1 -> Content]
  BY DEF Init, Content
<1>12. stores \in [WG -> Seq([dst : Nat \X Nat, buf : 0 .. EpiStages - 1, read : BOOLEAN])]
  BY DEF Init
<1>13. out \in SUBSET (Nat \X Nat)
  BY DEF Init
<1> QED BY <1>1, <1>4, <1>5, <1>8, <1>9, <1>10, <1>11, <1>12, <1>13 DEF TypeOK

LEMMA InitPlaces ==
  ASSUME Init, NEW g \in WG
  PROVE  /\ wg[g].pc = "start" /\ wg[g].executed = 0 /\ wg[g].tile = FirstTile /\ wg[g].flight = 0
         /\ wg[g].ab = Consumer /\ wg[g].sched = Consumer /\ wg[g].cRead = Consumer /\ wg[g].cLoad = Producer
         /\ Pass(g) = 1 /\ Own(g) = g + 1 /\ Mul(g) = g + 1 /\ AbPos(g) = 0 /\ SchedPos(g) = 0
         /\ CLoaded(g) = 0 /\ CDone(g) = 0 /\ CBase(g) = 0
<1>1. /\ wg[g].pc = "start" /\ wg[g].executed = 0 /\ wg[g].tile = FirstTile /\ wg[g].flight = 0
      /\ wg[g].ab = Consumer /\ wg[g].sched = Consumer /\ wg[g].cRead = Consumer /\ wg[g].cLoad = Producer
  BY DEF Init
<1>2. shape \in Shapes
  BY DEF Init
<1>3. Pass(g) = 1 /\ SchedPos(g) = 0
  <2>1. Pass(g) = 1
    BY <1>1 DEF Pass
  <2>2. wg[g].pc \notin {"skip", "take"}
    BY <1>1
  <2>3. SchedPos(g) = wg[g].executed - 0
    BY <2>2 DEF SchedPos
  <2> QED BY <1>1, <2>1, <2>3
<1>4. Own(g) = g + 1
  BY <1>3 DEF Own, Owner, WG
<1>5. Mul(g) = g + 1
  BY <1>1, <1>4 DEF Mul, Behind, EpiPlace
<1>6. AbPos(g) = 0
  BY <1>1, <1>2, <1>3, BeforeFirst DEF AbPos, Busy, Behind, EpiPlace
<1>7. CLoaded(g) = 0 /\ CDone(g) = 0 /\ CBase(g) = 0
  BY <1>1 DEF CLoaded, CDone, CBase
<1> QED BY <1>1, <1>3, <1>4, <1>5, <1>6, <1>7

LEMMA InitInv == Init => PingpongInv
<1> SUFFICES ASSUME Init PROVE PingpongInv
  OBVIOUS
<1>1. shape \in Shapes /\ TypeOK
  BY InitType DEF Init
<1>2. Tiles \in Nat /\ (shape.varlenK => Tiles > 0) /\ shape.varlenK \in BOOLEAN
  BY <1>1, ShapeFacts
<1>3. /\ ABStages \in Nat \ {0} /\ EpiStages \in Nat \ {0} /\ EpiTiles \in Nat \ {0}
      /\ SchedStages \in Nat \ {0} /\ CStages \in Nat
  BY SizeFacts
<1>4. Consumer = At(0, ABStages, 0) /\ Consumer = At(0, SchedStages, 0) /\ Producer = At(0, ABStages, 1)
  BY <1>3, ZeroAt
<1>5. load.tile = FirstTile /\ load.k = 0 /\ load.st = Producer /\ load.sched = Consumer
      /\ load.pc = IF FirstTile # Invalid THEN "load" ELSE IF shape.varlenK THEN "tail" ELSE "last"
  BY DEF Init
<1>6. Loaded = 0
  <2>1. CASE Tiles > 0
    BY <1>1, <1>2, <1>5, <2>1, BeforeFirst DEF Loaded, FirstTile, Invalid
  <2>2. CASE Tiles = 0
    BY <1>1, <1>2, <1>5, <2>2, BeforeFirst DEF Loaded, FirstTile, Invalid
  <2> QED BY <1>2, <2>1, <2>2
<1>7. Taken = 0 /\ Written = 0
  <2>1. Taken = 0
    BY <1>2, <1>5 DEF Taken, FirstTile, Invalid
  <2>2. load.pc \notin {"take", "takeLast"}
    BY <1>5
  <2> QED BY <2>1, <2>2 DEF Written
<1>8. \A s \in 0 .. ABStages - 1 : ab[s] = EmptyStage
  BY DEF Init
<1>9. ASSUME NEW g \in WG PROVE WgOK(g)
  BY <1>1, <1>4, <1>7, <1>9, InitPlaces DEF WgOK, Busy, Behind, EpiPlace
<1>10. ASSUME NEW g \in WG PROVE EpiOK(g)
  <2>1. CStages > 0 => Consumer = At(0, CStages, 0) /\ Producer = At(0, CStages, 1)
    BY <1>3, ZeroAt
  <2> QED BY <2>1, <1>10, InitPlaces DEF EpiOK
<1>11. ASSUME NEW g \in WG PROVE StoresOK(g)
  <2>1. stores[g] = <<>> /\ wg[g].e = 0 /\ wg[g].pc = "start"
    BY <1>11 DEF Init
  <2> QED BY <1>3, <2>1 DEF StoresOK, EpiPlace
<1>12. LoadOK
  <2>1. load.k <= KTiles(load.tile) \/ load.tile = Invalid
    <3>1. CASE load.tile # Invalid
      <4>1. load.tile \in Nat \ {0}
        BY <1>2, <1>5, <3>1 DEF FirstTile, Invalid
      <4> QED BY <1>1, <1>5, <4>1, ShapeFacts
    <3> QED BY <3>1
  <2> QED BY <1>2, <1>4, <1>5, <1>6, <1>7, <2>1 DEF LoadOK, Invalid
<1>13. TurnOK
  <2>1. 0 \in WG /\ 1 \in WG
    BY DEF WG
  <2>2. Mul(0) = 1 /\ Mul(1) = 2 /\ Own(0) = 1 /\ Own(1) = 2
    BY <2>1, InitPlaces
  <2>3. \A g \in WG : turn["mma"][g] = 0 /\ turn["epi"][g] = 0 /\ wg[g].pc = "start"
    BY DEF Init
  <2>4. \A g \in WG : ~HasMma(g) /\ ~HasEpi(g)
    BY <2>3 DEF HasMma, HasEpi, EpiPlace
  <2> QED BY <2>2, <2>3, <2>4 DEF TurnOK, EpiPlace
<1>14. AbOK
  <2>1. Issued = 0
    <3>1. 0 \in WG /\ 1 \in WG
      BY DEF WG
    <3>2. Mul(0) = 1 /\ Mul(1) = 2 /\ wg[0].pc = "start"
      BY <3>1, InitPlaces
    <3>3. NextMul = 1
      BY <3>2 DEF NextMul, SmallerOf
    <3>4. Owner(1) = 0
      BY DEF Owner
    <3> QED BY <1>1, <3>2, <3>3, <3>4, BeforeFirst DEF Issued
  <2>2. \A x \in Items : Pos(x) \in Nat
    BY <1>1, PosFacts
  <2> QED BY <1>3, <1>6, <1>8, <2>1, <2>2 DEF AbOK
<1>15. SchedOK
  <2>1. \A s \in 0 .. SchedStages - 1 : slot[s] = EmptySlot(SchedArrivals(shape.varlenK))
    BY DEF Init
  <2> QED BY <1>7, <2>1 DEF SchedOK
<1>16. COK
  <2>1. 0 \in WG /\ 1 \in WG
    BY DEF WG
  <2>2. Own(0) = 1 /\ Own(1) = 2 /\ CLoaded(0) = 0 /\ CDone(0) = 0
    BY <2>1, InitPlaces
  <2>3. NextOwn = 1 /\ Owner(1) = 0
    BY <2>2 DEF NextOwn, SmallerOf, Owner
  <2>4. (NextOwn - 1) * EpiTiles + CLoaded(Owner(NextOwn)) = 0
    BY <1>3, <2>2, <2>3
  <2>5. \A s \in 0 .. CStages - 1 : cs[s] = EmptyStage
    BY DEF Init
  <2> QED BY <2>4, <2>5 DEF COK
<1> QED BY <1>9, <1>10, <1>11, <1>12, <1>13, <1>14, <1>15, <1>16 DEF PingpongInv

-----------------------------------------------------------------------------
(* What a step leaves alone.                                                *)

LEMMA ShapeStays ==
  ASSUME shape' = shape
  PROVE  /\ Tiles' = Tiles /\ Items' = Items /\ FirstTile' = FirstTile
         /\ \A t \in Nat : KTiles(t)' = KTiles(t) /\ Before(t)' = Before(t) /\ TileOf(t)' = TileOf(t)
         /\ \A n \in Nat : Readers(n)' = Readers(n)
<1>1. Tiles' = Tiles /\ \A t : KCount(t)' = KCount(t)
  BY DEF Tiles, KCount
<1>2. \A t : KTiles(t)' = KTiles(t)
  BY <1>1 DEF KTiles
<1>3. \A t : Before(t)' = Before(t)
  BY <1>2 DEF Before
<1>4. Items' = Items /\ FirstTile' = FirstTile
  BY <1>1, <1>2 DEF Items, FirstTile
<1>5. \A t : TileOf(t)' = TileOf(t)
  BY <1>1 DEF TileOf
<1>6. \A n : Readers(n)' = Readers(n)
  BY DEF Readers
<1> QED BY <1>1, <1>2, <1>3, <1>4, <1>5, <1>6

LEMMA PosStays ==
  ASSUME shape \in Shapes, shape' = shape, NEW x \in Items
  PROVE  Pos(x)' = Pos(x)
<1>1. x[1] \in Nat
  BY PosFacts, ShapeFacts
<1>2. Before(x[1])' = Before(x[1])
  BY <1>1, ShapeStays
<1> QED BY <1>2 DEF Pos

\* How many k tiles of its tile a warp group has released, and issued as the
\* one that multiplies.
Freed(g) == IF wg[g].pc \in Busy THEN wg[g].k - wg[g].flight ELSE 0
Going(g) == IF wg[g].pc = "mma" THEN wg[g].k ELSE 0

LEMMA PlaceStays ==
  ASSUME NEW h \in WG, TypeOK, shape' = shape, wg'[h] = wg[h]
  PROVE  /\ Pass(h)' = Pass(h) /\ Own(h)' = Own(h) /\ Mul(h)' = Mul(h)
         /\ AbPos(h)' = AbPos(h) /\ SchedPos(h)' = SchedPos(h)
         /\ CLoaded(h)' = CLoaded(h) /\ CDone(h)' = CDone(h) /\ CBase(h)' = CBase(h)
         /\ Freed(h)' = Freed(h) /\ Going(h)' = Going(h)
<1>1. Pass(h)' = Pass(h)
  BY DEF Pass
<1>2. Own(h)' = Own(h)
  BY <1>1 DEF Own
<1>3. Mul(h)' = Mul(h) /\ CBase(h)' = CBase(h)
  BY <1>2 DEF Mul, CBase
<1>4. Pass(h) \in Nat
  BY OwnFacts
<1>5. Before(Pass(h))' = Before(Pass(h))
  <2>1. \A t \in Nat : Before(t)' = Before(t)
    BY ShapeStays
  <2> QED BY <1>1, <1>4, <2>1 DEF Before, KTiles, KCount, Tiles
<1>6. AbPos(h)' = AbPos(h)
  BY <1>5 DEF AbPos
<1>7. SchedPos(h)' = SchedPos(h)
  BY DEF SchedPos
<1>8. CLoaded(h)' = CLoaded(h) /\ CDone(h)' = CDone(h)
  BY DEF CLoaded, CDone
<1>9. Freed(h)' = Freed(h) /\ Going(h)' = Going(h)
  BY DEF Freed, Going
<1> QED BY <1>1, <1>2, <1>3, <1>6, <1>7, <1>8, <1>9

LEMMA WgStays ==
  ASSUME NEW h \in WG, TypeOK, PingpongInv, shape' = shape, wg'[h] = wg[h], Written' \in Nat, Written' >= Written
  PROVE  /\ WgOK(h)' /\ EpiOK(h)'
         /\ stores'[h] = stores[h] /\ dbuf' = dbuf => StoresOK(h)'
<1>1. WgOK(h) /\ EpiOK(h) /\ StoresOK(h)
  BY PlaceFacts
<1>2. /\ Pass(h)' = Pass(h) /\ AbPos(h)' = AbPos(h) /\ SchedPos(h)' = SchedPos(h)
      /\ CLoaded(h)' = CLoaded(h) /\ CDone(h)' = CDone(h) /\ CBase(h)' = CBase(h)
  BY PlaceStays
<1>3. FirstTile' = FirstTile /\ KTiles(Pass(h)) = KTiles(Pass(h))'
  <2>1. Pass(h) \in Nat
    BY OwnFacts
  <2> QED BY <1>2, <2>1, ShapeStays DEF KTiles, KCount, Tiles
<1>4. SchedPos(h) \in Nat /\ Written \in Nat
  BY PlaceFacts, LoadFacts
<1>5. SchedPos(h) <= Written' + (IF wg[h].pc = "take" /\ ~shape.varlenK THEN 1 ELSE 0)
  <2>1. SchedPos(h) <= Written + (IF wg[h].pc = "take" /\ ~shape.varlenK THEN 1 ELSE 0)
    BY <1>1 DEF WgOK
  <2> QED BY <1>4, <2>1
<1>6. WgOK(h)'
  BY <1>1, <1>2, <1>3, <1>5 DEF WgOK
<1>7. EpiOK(h)'
  BY <1>1, <1>2 DEF EpiOK
<1>8. ASSUME stores'[h] = stores[h], dbuf' = dbuf PROVE StoresOK(h)'
  BY <1>1, <1>2, <1>8 DEF StoresOK
<1> QED BY <1>6, <1>7, <1>8

\* A step of a warp group leaves the other one and the load warp as they are.
LEMMA Frame ==
  ASSUME TypeOK, PingpongInv, NEW g \in WG, shape' = shape, load' = load, wg'[1 - g] = wg[1 - g]
  PROVE  /\ Loaded' = Loaded /\ Taken' = Taken /\ Written' = Written
         /\ LoadOK'
         /\ WgOK(1 - g)' /\ EpiOK(1 - g)'
         /\ stores'[1 - g] = stores[1 - g] /\ dbuf' = dbuf => StoresOK(1 - g)'
<1>1. Tiles' = Tiles /\ Tiles \in Nat /\ \A t \in Nat : KTiles(t)' = KTiles(t) /\ Before(t)' = Before(t)
  BY ShapeStays, ShapeFacts DEF TypeOK
<1>2. load.tile \in Nat
  BY <1>1, LoadFacts
<1>3. Loaded' = Loaded
  <2>1. Before(Tiles + 1)' = Before(Tiles + 1) /\ Before(load.tile)' = Before(load.tile)
    BY <1>1, <1>2 DEF Before, KTiles, KCount, Tiles
  <2> QED BY <2>1 DEF Loaded
<1>4. Taken' = Taken
  BY <1>1 DEF Taken
<1>5. Written' = Written /\ Written \in Nat
  BY <1>4, LoadFacts DEF Written
<1>6. LoadOK'
  <2>1. LoadOK
    BY DEF PingpongInv
  <2>2. KTiles(load.tile)' = KTiles(load.tile)
    BY <1>1, <1>2 DEF KTiles, KCount, Tiles
  <2> QED BY <1>3, <1>4, <2>1, <2>2 DEF LoadOK
<1>7. 1 - g \in WG
  BY Sides
<1>8. /\ WgOK(1 - g)' /\ EpiOK(1 - g)'
      /\ stores'[1 - g] = stores[1 - g] /\ dbuf' = dbuf => StoresOK(1 - g)'
  BY <1>5, <1>7, WgStays
<1> QED BY <1>3, <1>4, <1>5, <1>6, <1>8

-----------------------------------------------------------------------------
(* The ring of A/B, before and after a step.                                *)

\* What is free is what its warp group has passed or released.
LEMMA FreeForm ==
  ASSUME shape \in Shapes, NEW x \in Items
  PROVE  LET g == Owner(x[1])
         IN  /\ g \in WG /\ x[1] \in Nat \ {0} /\ x[2] \in Nat
             /\ IsFree(x) <=> x[1] <= wg[g].executed \/ (x[1] = wg[g].executed + 1 /\ x[2] < Freed(g))
             /\ IsFree(x)' <=> x[1] <= wg'[g].executed \/ (x[1] = wg'[g].executed + 1 /\ x[2] < Freed(g)')
<1> DEFINE g == Owner(x[1])
<1>1. x[1] \in Nat \ {0} /\ x[2] \in Nat /\ g \in WG
  BY PosFacts, ShapeFacts, OwnerFacts
<1>2. IsFree(x) <=> x[1] <= wg[g].executed \/ (x[1] = wg[g].executed + 1 /\ x[2] < Freed(g))
  BY <1>1 DEF IsFree, Freed
<1>3. IsFree(x)' <=> x[1] <= wg'[g].executed \/ (x[1] = wg'[g].executed + 1 /\ x[2] < Freed(g)')
  BY <1>1 DEF IsFree, Freed
<1> QED BY <1>1, <1>2, <1>3

LEMMA IssuedForm ==
  ASSUME shape' = shape, NextMul \in Nat, NextMul' \in Nat
  PROVE  /\ Issued = Before(NextMul) + Going(Owner(NextMul))
         /\ \A h \in WG : Owner(NextMul') = h => Issued' = Before(NextMul') + Going(h)'
<1>1. Issued = Before(NextMul) + Going(Owner(NextMul))
  BY DEF Issued, Going
<1>2. ASSUME NEW h \in WG, Owner(NextMul') = h PROVE Issued' = Before(NextMul') + Going(h)'
  <2>1. Issued' = Before(NextMul)' + Going(h)'
    BY <1>2 DEF Issued, Going, Owner
  <2>2. Before(NextMul)' = Before(NextMul')
    <3>1. \A t \in Nat : Before(t)' = Before(t)
      BY ShapeStays
    <3> QED BY <3>1 DEF Before, KTiles, KCount, Tiles
  <2> QED BY <2>1, <2>2
<1> QED BY <1>1, <1>2

LEMMA AbIntro ==
  ASSUME shape \in Shapes, shape' = shape, Loaded' \in Nat, Issued' <= Loaded',
         \A s \in 0 .. ABStages - 1 : s >= Loaded' => ab'[s] = EmptyStage,
         \A x \in Items :
           /\ Pos(x) < Loaded' - ABStages => IsFree(x)'
           /\ Pos(x) >= Loaded' - ABStages /\ Pos(x) < Loaded' =>
                StageOK(ab'[Pos(x) % ABStages], x, Pos(x) \div ABStages, IsFree(x)', Pos(x) < Issued')
  PROVE  AbOK'
<1>1. Items' = Items /\ \A x \in Items : Pos(x)' = Pos(x)
  BY ShapeStays, PosStays
<1>2. ASSUME NEW x \in Items, Pos(x) \in Loaded' - ABStages .. Loaded' - 1
      PROVE  Pos(x) >= Loaded' - ABStages /\ Pos(x) < Loaded'
  BY <1>2, SizeFacts
<1>3. \A x \in Items :
        /\ Pos(x)' < Loaded' - ABStages => IsFree(x)'
        /\ Pos(x)' \in Loaded' - ABStages .. Loaded' - 1 =>
             StageOK(ab'[Pos(x)' % ABStages], x, Pos(x)' \div ABStages, IsFree(x)', Pos(x)' < Issued')
  BY <1>1, <1>2
<1> QED BY <1>1, <1>3 DEF AbOK, StageOK, EmptyStage

\* Nothing is issued, released or loaded.
LEMMA AbStays ==
  ASSUME TypeOK, PingpongInv, shape' = shape, ab' = ab, Loaded' = Loaded, Issued' = Issued,
         \A x \in Items : IsFree(x)' <=> IsFree(x)
  PROVE  AbOK'
<1>1. shape \in Shapes /\ Loaded' \in Nat
  BY LoadFacts DEF TypeOK
<1>2. /\ Issued' <= Loaded'
      /\ \A s \in 0 .. ABStages - 1 : s >= Loaded' => ab'[s] = EmptyStage
  BY AbFacts
<1>3. ASSUME NEW x \in Items
      PROVE  /\ Pos(x) < Loaded' - ABStages => IsFree(x)'
             /\ Pos(x) >= Loaded' - ABStages /\ Pos(x) < Loaded' =>
                  StageOK(ab'[Pos(x) % ABStages], x, Pos(x) \div ABStages, IsFree(x)', Pos(x) < Issued')
  <2>1. /\ Pos(x) < Loaded' - ABStages => IsFree(x)
        /\ Pos(x) >= Loaded' - ABStages /\ Pos(x) < Loaded' =>
             StageOK(ab'[Pos(x) % ABStages], x, Pos(x) \div ABStages, IsFree(x), Pos(x) < Issued')
    BY <1>3, AbFacts
  <2>2. IsFree(x)' <=> IsFree(x)
    BY <1>3
  <2> QED BY <2>1, <2>2 DEF StageOK
<1> QED BY <1>1, <1>2, <1>3, AbIntro

LEMMA AbFrame ==
  ASSUME TypeOK, PingpongInv, NEW g \in WG, shape' = shape, load' = load, wg'[1 - g] = wg[1 - g],
         Mul(g)' = Mul(g), Going(g)' = Going(g), wg'[g].executed = wg[g].executed, Freed(g)' = Freed(g)
  PROVE  /\ Issued' = Issued /\ NextMul' = NextMul
         /\ \A x \in Items : IsFree(x)' <=> IsFree(x)
         /\ ab' = ab => AbOK'
<1>1. 1 - g \in WG /\ \A h \in WG : h = g \/ h = 1 - g
  BY Sides
<1>2. Mul(1 - g)' = Mul(1 - g) /\ Going(1 - g)' = Going(1 - g) /\ Freed(1 - g)' = Freed(1 - g)
  BY <1>1, PlaceStays
<1>3. \A h \in WG : Mul(h)' = Mul(h) /\ Going(h)' = Going(h) /\ Freed(h)' = Freed(h) /\ wg'[h].executed = wg[h].executed
  BY <1>1, <1>2
<1>4. NextMul' = NextMul
  BY <1>3 DEF NextMul, WG
<1>5. Issued' = Issued
  <2>1. NextMul \in Nat /\ Owner(NextMul) \in WG
    BY NextFacts
  <2> DEFINE h == Owner(NextMul)
  <2>3. h \in WG /\ Owner(NextMul') = h /\ NextMul' \in Nat /\ Going(h)' = Going(h)
    BY <1>3, <1>4, <2>1 DEF Owner
  <2>2. Issued' = Before(NextMul') + Going(h)'
    BY <2>1, <2>3, IssuedForm
  <2> QED BY <1>4, <2>1, <2>2, <2>3, IssuedForm
<1>6. ASSUME NEW x \in Items PROVE IsFree(x)' <=> IsFree(x)
  BY <1>3, FreeForm DEF TypeOK
<1>7. Loaded' = Loaded
  BY Frame
<1> QED BY <1>4, <1>5, <1>6, <1>7, AbStays

-----------------------------------------------------------------------------
(* The other two rings and the turns.                                       *)

LEMMA Below == ASSUME NEW w \in Nat PROVE \A n \in 0 .. w - 1 : n \in Nat /\ n < w
OBVIOUS

LEMMA SchedIntro ==
  ASSUME TypeOK, shape' = shape, Written' \in Nat,
         \A s \in 0 .. SchedStages - 1 : s >= Written' => slot'[s] = EmptySlot(SchedArrivals(shape.varlenK)),
         \A n \in Nat : n < Written' =>
           /\ n < Written' - SchedStages => Missing(n)' = 0
           /\ n >= Written' - SchedStages =>
                slot'[n % SchedStages] =
                  [data |-> TileOf(n), full |-> (n \div SchedStages + 1) % 2,
                   empty |-> (IF Missing(n)' = 0 THEN n \div SchedStages + 1 ELSE n \div SchedStages) % 2,
                   missing |-> IF Missing(n)' = 0 THEN SchedArrivals(shape.varlenK) ELSE Missing(n)']
  PROVE  SchedOK'
<1>1. \A n \in Nat : TileOf(n)' = TileOf(n)
  BY ShapeStays
<1>2. \A n \in 0 .. Written' - 1 : n \in Nat /\ n < Written'
  BY Below, Zenon
<1>3. EmptySlot(SchedArrivals(shape.varlenK))' = EmptySlot(SchedArrivals(shape.varlenK))
      /\ SchedArrivals(shape.varlenK)' = SchedArrivals(shape.varlenK)
  BY DEF EmptySlot, SchedArrivals
<1>4. ASSUME NEW n \in 0 .. Written' - 1
      PROVE  /\ n < Written' - SchedStages => Missing(n)' = 0
             /\ n >= Written' - SchedStages =>
                  slot'[n % SchedStages] =
                    [data |-> TileOf(n)', full |-> (n \div SchedStages + 1) % 2,
                     empty |-> (IF Missing(n)' = 0 THEN n \div SchedStages + 1 ELSE n \div SchedStages) % 2,
                     missing |-> IF Missing(n)' = 0 THEN SchedArrivals(shape.varlenK)' ELSE Missing(n)']
  BY <1>1, <1>2, <1>3
<1> QED BY <1>3, <1>4 DEF SchedOK

LEMMA SchedStays ==
  ASSUME TypeOK, PingpongInv, shape' = shape, slot' = slot, Written' = Written, Taken' = Taken,
         \A n \in Nat : Waits(0, n)' = Waits(0, n) /\ Waits(1, n)' = Waits(1, n)
  PROVE  SchedOK'
<1>1. \A n \in Nat : Missing(n)' = Missing(n)
  BY DEF Missing
<1>2. \A n \in Nat : TileOf(n)' = TileOf(n)
  BY ShapeStays
<1>3. SchedOK
  BY DEF PingpongInv
<1>4. \A n \in 0 .. Written - 1 : n \in Nat
  OBVIOUS
<1> QED BY <1>1, <1>2, <1>3, <1>4 DEF SchedOK

LEMMA SchedFrame ==
  ASSUME TypeOK, PingpongInv, NEW g \in WG, shape' = shape, load' = load, wg'[1 - g] = wg[1 - g],
         slot' = slot, SchedPos(g)' = SchedPos(g)
  PROVE  SchedOK'
<1>1. Written' = Written /\ Taken' = Taken
  BY Frame
<1>2. 1 - g \in WG /\ \A h \in WG : h = g \/ h = 1 - g
  BY Sides
<1>3. SchedPos(1 - g)' = SchedPos(1 - g)
  BY <1>2, PlaceStays
<1>4. \A h \in WG : SchedPos(h)' = SchedPos(h)
  BY <1>2, <1>3
<1>5. \A n \in Nat : Waits(0, n)' = Waits(0, n) /\ Waits(1, n)' = Waits(1, n)
  BY <1>4, ShapeStays DEF Waits, WG
<1> QED BY <1>1, <1>5, SchedStays

LEMMA CFrame ==
  ASSUME TypeOK, PingpongInv, NEW g \in WG, shape' = shape, wg'[1 - g] = wg[1 - g],
         cs' = cs, Own(g)' = Own(g), CLoaded(g)' = CLoaded(g), CDone(g)' = CDone(g)
  PROVE  COK'
<1>1. 1 - g \in WG /\ \A h \in WG : h = g \/ h = 1 - g
  BY Sides
<1>2. Own(1 - g)' = Own(1 - g) /\ CLoaded(1 - g)' = CLoaded(1 - g) /\ CDone(1 - g)' = CDone(1 - g)
  BY <1>1, PlaceStays
<1>3. \A h \in WG : Own(h)' = Own(h) /\ CLoaded(h)' = CLoaded(h) /\ CDone(h)' = CDone(h)
  BY <1>1, <1>2
<1>4. NextOwn' = NextOwn
  BY <1>3 DEF NextOwn, WG
<1>5. PICK h \in WG : h = Owner(NextOwn)
  BY NextFacts
<1>6. Owner(NextOwn)' = h
  BY <1>4, <1>5 DEF Owner
<1>7. CLoaded(Owner(NextOwn))' = CLoaded(h)' /\ CDone(Owner(NextOwn))' = CDone(h)'
  BY <1>6 DEF CLoaded, CDone
<1>8. CLoaded(Owner(NextOwn))' = CLoaded(Owner(NextOwn)) /\ CDone(Owner(NextOwn))' = CDone(Owner(NextOwn))
  BY <1>3, <1>5, <1>7
<1>9. COK
  BY DEF PingpongInv
<1> QED BY <1>4, <1>8, <1>9 DEF COK, StageOK, EmptyStage, CItem

LEMMA TurnFrame ==
  ASSUME TypeOK, PingpongInv, NEW g \in WG, shape' = shape, wg'[1 - g] = wg[1 - g],
         turn' = turn, Own(g)' = Own(g), Mul(g)' = Mul(g),
         wg'[g].pc = "mma" <=> wg[g].pc = "mma", wg'[g].pc \in EpiPlace <=> wg[g].pc \in EpiPlace,
         wg'[g].pc = "start" => wg[g].pc = "start"
  PROVE  TurnOK'
<1>1. 1 - g \in WG /\ \A h \in WG : h = g \/ h = 1 - g
  BY Sides
<1>2. Own(1 - g)' = Own(1 - g) /\ Mul(1 - g)' = Mul(1 - g)
  BY <1>1, PlaceStays
<1>3. \A h \in WG : /\ Own(h)' = Own(h) /\ Mul(h)' = Mul(h)
                    /\ wg'[h].pc = "mma" <=> wg[h].pc = "mma"
                    /\ wg'[h].pc \in EpiPlace <=> wg[h].pc \in EpiPlace
                    /\ wg'[h].pc = "start" => wg[h].pc = "start"
  BY <1>1, <1>2
<1>4. \A h \in WG : (HasMma(h)' <=> HasMma(h)) /\ (HasEpi(h)' <=> HasEpi(h))
  BY <1>3 DEF HasMma, HasEpi
<1>5. 0 \in WG /\ 1 \in WG /\ \A h \in WG : 1 - h \in WG
  BY DEF WG
<1>6. TurnOK
  BY DEF PingpongInv
<1> QED BY <1>3, <1>4, <1>5, <1>6 DEF TurnOK

-----------------------------------------------------------------------------
(* The steps of the load warp.                                              *)

LEMMA LoadFrame ==
  ASSUME TypeOK, PingpongInv, shape' = shape, wg' = wg, turn' = turn, cs' = cs, dbuf' = dbuf, stores' = stores,
         Written' \in Nat, Written' >= Written
  PROVE  /\ \A g \in WG : WgOK(g)' /\ EpiOK(g)' /\ StoresOK(g)'
         /\ TurnOK' /\ COK'
         /\ Issued' = Issued
         /\ \A x \in Items : IsFree(x)' <=> IsFree(x)
         /\ \A g \in WG : SchedPos(g)' = SchedPos(g)
         /\ \A n \in Nat : Waits(0, n)' = Waits(0, n) /\ Waits(1, n)' = Waits(1, n)
<1>1. ASSUME NEW g \in WG PROVE WgOK(g)' /\ EpiOK(g)' /\ StoresOK(g)'
  BY <1>1, WgStays
<1>2. 0 \in WG /\ 1 \in WG /\ 1 - 0 = 1 /\ 1 - 1 = 0
  BY DEF WG
<1>3. \A g \in WG : /\ Own(g)' = Own(g) /\ Mul(g)' = Mul(g) /\ SchedPos(g)' = SchedPos(g)
                    /\ CLoaded(g)' = CLoaded(g) /\ CDone(g)' = CDone(g) /\ Going(g)' = Going(g) /\ Freed(g)' = Freed(g)
  BY PlaceStays
<1>4. TurnOK'
  BY <1>2, <1>3, TurnFrame
<1>5. COK'
  BY <1>2, <1>3, CFrame
<1>6. Issued' = Issued
  <2>1. NextMul' = NextMul
    BY <1>2, <1>3 DEF NextMul
  <2>2. PICK h \in WG : h = Owner(NextMul)
    BY NextFacts
  <2>3. NextMul \in Nat /\ Owner(NextMul') = h /\ Going(h)' = Going(h)
    BY <1>3, <2>1, <2>2, NextFacts DEF Owner
  <2> QED BY <2>1, <2>2, <2>3, IssuedForm
<1>7. ASSUME NEW x \in Items PROVE IsFree(x)' <=> IsFree(x)
  BY <1>3, <1>7, FreeForm DEF TypeOK
<1>8. \A n \in Nat : Waits(0, n)' = Waits(0, n) /\ Waits(1, n)' = Waits(1, n)
  BY <1>2, <1>3, ShapeStays DEF Waits
<1> QED BY <1>1, <1>3, <1>4, <1>5, <1>6, <1>7, <1>8

LEMMA LoadKStep ==
  ASSUME TypeOK, PingpongInv, LoadK
  PROVE  TypeOK' /\ PingpongInv'
<1> DEFINE m == ABStages  p == Loaded  x == <<load.tile, load.k>>
<1>1. /\ load.pc = "load" /\ load.k < KCount(load.tile)
      /\ Passed(ab[load.st.index].empty, load.st)
      /\ ab' = [ab EXCEPT ![load.st.index] = Started(@, x)]
      /\ load' = [load EXCEPT !.k = @ + 1, !.st = Advance(@, ABStages)]
      /\ shape' = shape /\ wg' = wg /\ cs' = cs /\ slot' = slot /\ turn' = turn /\ dbuf' = dbuf /\ stores' = stores /\ out' = out
  BY DEF LoadK
<1>2. shape \in Shapes /\ load \in LoadState /\ ab \in [0 .. m - 1 -> Stage] /\ m \in Nat \ {0}
  BY SizeFacts DEF TypeOK
<1>3. LoadOK
  BY DEF PingpongInv
<1>4. load.tile # Invalid
  BY <1>1, <1>3 DEF LoadOK
<1>5. /\ load.tile \in 1 .. Tiles /\ KCount(load.tile) = KTiles(load.tile) /\ load.k \in Nat /\ Tiles \in Nat
      /\ p = Before(load.tile) + load.k /\ p \in Nat /\ load.st = At(p, m, 1)
  BY <1>2, <1>4, LoadFacts, ShapeFacts
<1>6. KTiles(load.tile) \in Nat /\ Before(load.tile) \in Nat /\ load.tile \in Nat \ {0}
  <2>1. load.tile \in Nat \ {0}
    BY <1>5
  <2> QED BY <1>2, <2>1, BeforeNext
<1>7. x \in Items /\ Pos(x) = p
  <2>1. load.k \in 0 .. KTiles(load.tile) - 1
    BY <1>1, <1>5, <1>6
  <2> QED BY <1>5, <2>1 DEF Items, Pos
<1>8. load.st.index = p % m /\ load.st.phase = 1 - ((p \div m) % 2) /\ p % m \in 0 .. m - 1 /\ p \div m \in Nat
  BY <1>2, <1>5, AtFacts, DivMod
<1>9. Advance(load.st, m) = At(p + 1, m, 1) /\ At(p + 1, m, 1) \in PipeState
  <2>1. p + 1 \in Nat /\ 1 \in {0, 1}
    BY <1>5
  <2> QED BY <1>2, <1>5, <2>1, AdvanceOne, AtFacts
<1>10. load' = [pc |-> "load", tile |-> load.tile, k |-> load.k + 1, st |-> At(p + 1, m, 1), sched |-> load.sched]
  BY <1>1, <1>2, <1>9 DEF LoadState
<1>11. x \in Content /\ Started(ab[p % m], x) \in Stage
  <2>1. x \in Content /\ Nothing \in Content
    BY <1>5, <1>6 DEF Content
  <2>2. ab[p % m] \in Stage
    BY <1>2, <1>8
  <2> HIDE DEF x
  <2> QED BY <2>1, <2>2 DEF Started, Stage
<1>12. TypeOK'
  <2>1. load' \in LoadState'
    BY <1>2, <1>5, <1>9, <1>10, <1>1, ShapeStays DEF LoadState
  <2>2. ab' \in [0 .. ABStages - 1 -> Stage]
    BY <1>1, <1>2, <1>8, <1>11
  <2> QED BY <1>1, <2>1, <2>2, ShapeStays DEF TypeOK, WgState, LoadState, Slot
<1>13. Loaded' = p + 1
  <2>1. load'.tile = load.tile /\ load'.k = load.k + 1
    BY <1>10
  <2>2. Before(load.tile)' = Before(load.tile)
    BY <1>1, <1>5, ShapeStays
  <2>3. Loaded' = Before(load.tile) + (load.k + 1)
    BY <1>4, <2>1, <2>2 DEF Loaded, Before, KTiles, KCount, Tiles, Invalid
  <2> QED BY <1>5, <1>6, <2>3
<1>14. Taken' = Taken /\ Written' = Written
  <2>1. load'.tile = load.tile /\ load'.pc = load.pc
    BY <1>1, <1>10
  <2>2. Taken' = Taken
    BY <1>4, <2>1 DEF Taken, Invalid
  <2> QED BY <2>1, <2>2 DEF Written
<1>15. LoadOK'
  <2>1. load'.pc = "load" /\ load'.tile = load.tile /\ load'.k = load.k + 1 /\ load'.st = At(p + 1, m, 1) /\ load'.sched = load.sched
    BY <1>10
  <2>2. load.k + 1 <= KTiles(load.tile)
    BY <1>1, <1>5, <1>6
  <2>3. KTiles(load.tile)' = KTiles(load.tile)
    BY <1>1, <2>1 DEF KTiles, KCount, Tiles
  <2>4. load'.sched = At(Taken', SchedStages, 0)
    BY <1>14, <2>1, LoadFacts
  <2>5. load'.tile # Invalid
    BY <1>4, <2>1
  <2> QED BY <1>13, <2>1, <2>2, <2>3, <2>4, <2>5 DEF LoadOK, Invalid, At, KTiles, KCount, Tiles
<1>16. Written \in Nat
  BY LoadFacts
<1>17. /\ \A g \in WG : WgOK(g)' /\ EpiOK(g)' /\ StoresOK(g)'
       /\ TurnOK' /\ COK' /\ Issued' = Issued
       /\ \A y \in Items : IsFree(y)' <=> IsFree(y)
       /\ \A n \in Nat : Waits(0, n)' = Waits(0, n) /\ Waits(1, n)' = Waits(1, n)
  BY <1>1, <1>14, <1>16, LoadFrame
<1>18. SchedOK'
  BY <1>1, <1>14, <1>17, SchedStays
<1>19. ab[p % m].full = (p \div m) % 2 /\ ab[p % m].empty = (p \div m) % 2
       /\ \A y \in Items : Pos(y) = p - m => IsFree(y)
  <2>1. ab[p % m].empty # 1 - ((p \div m) % 2)
    BY <1>1, <1>8 DEF Passed
  <2>2. CASE p < m
    <3>0. p \in 0 .. m - 1
      BY <1>2, <1>5, <2>2
    <3>1. p % m = p /\ p \div m = 0 /\ p \in 0 .. m - 1
      BY <1>2, <3>0, FirstLap
    <3>2. p >= Loaded
      BY <1>5
    <3>3. ab[p] = EmptyStage
      BY <3>1, <3>2, AbFacts
    <3>4. ASSUME NEW y \in Items PROVE Pos(y) # p - m
      BY <1>2, <1>5, <2>2, PosFacts
    <3> QED BY <3>1, <3>3, <3>4 DEF EmptyStage
  <2>3. CASE p >= m
    <3> DEFINE q == p - m
    <3>1. q \in Nat /\ q < Loaded /\ q >= Loaded - ABStages
      BY <1>2, <1>5, <2>3
    <3>2. q % m = p % m /\ p \div m = (q \div m) + 1 /\ q \div m \in Nat
      BY <1>2, <1>5, <2>3, LastLap
    <3>3. q < Before(Tiles + 1)
      <4>0. Tiles + 1 \in Nat \ {0}
        BY <1>5
      <4>1. Before(Tiles + 1) \in Nat
        BY <1>2, <4>0, BeforeNext
      <4> QED BY <1>2, <1>5, <3>1, <4>1, LoadFacts
    <3> HIDE DEF q
    <3>4. PICK y \in Items : Pos(y) = q
      BY <1>2, <3>1, <3>3, PosFills
    <3>5. StageOK(ab[q % m], y, q \div m, IsFree(y), q < Issued)
      BY <3>1, <3>4, AbFacts
    <3>6. IsFree(y)
      <4>1. (q \div m) % 2 = 1 - (((q \div m) + 1) % 2)
        BY <3>2
      <4> QED BY <2>1, <3>2, <3>5, <4>1 DEF StageOK
    <3>7. q < Issued
      BY <3>4, <3>6, FreeIssued
    <3>8. ab[p % m].full = (p \div m) % 2 /\ ab[p % m].empty = (p \div m) % 2
      BY <3>2, <3>5, <3>6, <3>7 DEF StageOK
    <3>9. ASSUME NEW z \in Items, Pos(z) = p - m PROVE IsFree(z)
      <4>1. z = y
        BY <1>2, <3>4, <3>9, PosUnique DEF q
      <4> QED BY <3>6, <4>1
    <3> QED BY <3>8, <3>9
  <2> QED BY <1>2, <1>5, <2>2, <2>3
<1>20. Issued <= p /\ Issued \in Nat
  BY AbFacts, IssuedFacts
<1>21. ~IsFree(x)
  BY <1>5, <1>7, <1>20, FreeIssued
<1> HIDE DEF x, m, p
<1>22. AbOK'
  <2>1. Loaded' \in Nat /\ Issued' <= Loaded' /\ Issued' \in Nat
    BY <1>5, <1>13, <1>17, <1>20
  <2>2. ASSUME NEW s \in 0 .. ABStages - 1, s >= Loaded' PROVE ab'[s] = EmptyStage
    <3>1. s > p /\ s >= Loaded /\ p < m
      BY <1>2, <1>5, <1>13, <2>2 DEF p, m
    <3>2. p % m = p
      BY <1>2, <1>5, <3>1, FirstLap
    <3>3. ab[s] = EmptyStage
      BY <3>1, AbFacts DEF p
    <3>4. s # p
      BY <1>5, <3>1
    <3> QED BY <1>1, <1>2, <1>8, <3>2, <3>3, <3>4 DEF m
  <2>3. ASSUME NEW y \in Items
        PROVE  /\ Pos(y) < Loaded' - ABStages => IsFree(y)'
               /\ Pos(y) >= Loaded' - ABStages /\ Pos(y) < Loaded' =>
                    StageOK(ab'[Pos(y) % ABStages], y, Pos(y) \div ABStages, IsFree(y)', Pos(y) < Issued')
    <3> DEFINE q == Pos(y)
    <3>1. q \in Nat /\ (IsFree(y)' <=> IsFree(y))
      BY <1>2, <1>17, PosFacts
    <3>2. ASSUME q < Loaded' - m PROVE IsFree(y)
      <4>1. q < Loaded - m \/ q = p - m
        BY <1>2, <1>5, <1>13, <3>1, <3>2 DEF p
      <4> QED BY <1>19, <4>1, AbFacts DEF m
    <3>3. ASSUME q >= Loaded' - m, q < Loaded'
          PROVE  StageOK(ab'[q % m], y, q \div m, IsFree(y)', q < Issued')
      <4>1. CASE q = p
        <5>1. y = x
          BY <1>2, <1>7, <4>1, PosUnique
        <5>2. ab'[p % m] = Started(ab[p % m], x)
          BY <1>1, <1>2, <1>8
        <5>3. /\ ab'[p % m].coming = x /\ ab'[p % m].full = (p \div m) % 2 /\ ab'[p % m].empty = (p \div m) % 2
          BY <1>2, <1>8, <1>19, <5>2 DEF Started, Stage
        <5>4. ~(q < Issued') /\ ~IsFree(y)'
          BY <1>17, <1>20, <1>21, <3>1, <4>1, <5>1
        <5> QED BY <4>1, <5>1, <5>3, <5>4 DEF StageOK
      <4>2. CASE q # p
        <5>1. q < Loaded /\ q >= Loaded - m /\ q < p /\ p < q + m
          BY <1>2, <1>5, <1>13, <3>1, <3>3, <4>2 DEF p
        <5>2. q % m # p % m /\ q % m \in 0 .. m - 1
          BY <1>2, <1>5, <3>1, <5>1, OwnStage, DivMod
        <5>3. ab'[q % m] = ab[q % m]
          BY <1>1, <1>2, <1>8, <5>2
        <5>4. StageOK(ab[q % m], y, q \div m, IsFree(y), q < Issued)
          BY <5>1, AbFacts DEF m
        <5> QED BY <1>17, <3>1, <5>3, <5>4 DEF StageOK
      <4> QED BY <4>1, <4>2
    <3> QED BY <3>1, <3>2, <3>3 DEF m
  <2> QED BY <1>1, <1>2, <2>1, <2>2, <2>3, AbIntro
<1> QED BY <1>12, <1>15, <1>17, <1>18, <1>22 DEF PingpongInv

\* The slot of the n-th tile, with c reads missing.
SlotAt(n, c) ==
  [data |-> TileOf(n), full |-> (n \div SchedStages + 1) % 2,
   empty |-> (IF c = 0 THEN n \div SchedStages + 1 ELSE n \div SchedStages) % 2,
   missing |-> IF c = 0 THEN SchedArrivals(shape.varlenK) ELSE c]

LEMMA SlotRecord ==
  ASSUME TypeOK, PingpongInv, NEW n \in Nat, n < Written, n >= Written - SchedStages
  PROVE  slot[n % SchedStages] = SlotAt(n, Missing(n))
<1>1. SchedOK
  BY DEF PingpongInv
<1>2. n \in 0 .. Written - 1
  BY LoadFacts
<1> QED BY <1>1, <1>2 DEF SchedOK, SlotAt

LEMMA SlotIntro ==
  ASSUME TypeOK, shape' = shape, Written' \in Nat,
         \A s \in 0 .. SchedStages - 1 : s >= Written' => slot'[s] = EmptySlot(SchedArrivals(shape.varlenK)),
         \A n \in Nat : n < Written' =>
           /\ n < Written' - SchedStages => Missing(n)' = 0
           /\ n >= Written' - SchedStages => slot'[n % SchedStages] = SlotAt(n, Missing(n)')
  PROVE  SchedOK'
BY SchedIntro DEF SlotAt

LEMMA WriteStep ==
  ASSUME TypeOK, PingpongInv, load.pc \in {"load", "last"}, NEW next \in {"take", "takeLast"},
         load.pc = "load" <=> next = "take", load.pc = "load" => load.k = KTiles(load.tile),
         WriteTile(TileOf(Taken), next)
  PROVE  TypeOK' /\ PingpongInv'
<1> DEFINE n == Taken  N == SchedStages  s0 == load.sched.index  all == SchedArrivals(shape.varlenK)
<1>1. /\ Passed(slot[s0].empty, [load.sched EXCEPT !.phase = 1 - @])
      /\ slot' = [slot EXCEPT ![s0].data = TileOf(n), ![s0].full = Flip(@)]
      /\ load' = [load EXCEPT !.pc = next]
      /\ shape' = shape /\ wg' = wg /\ ab' = ab /\ cs' = cs /\ turn' = turn /\ dbuf' = dbuf /\ stores' = stores /\ out' = out
  BY DEF WriteTile
<1>2. shape \in Shapes /\ load \in LoadState /\ slot \in [0 .. N - 1 -> Slot] /\ N \in Nat \ {0} /\ Tiles \in Nat
  BY SizeFacts, ShapeFacts DEF TypeOK
<1>3. LoadOK
  BY DEF PingpongInv
<1>4. /\ n \in Nat /\ Written = n /\ s0 = n % N /\ n % N \in 0 .. N - 1
      /\ slot[n % N].full = (n \div N) % 2 /\ slot[n % N].empty = (n \div N) % 2 /\ slot[n % N].missing = all
      /\ n >= N => Missing(n - N) = 0
      /\ \A g \in Readers(n) : SchedPos(g) <= n
  BY <1>1, WriteFacts
<1>5. load' = [pc |-> next, tile |-> load.tile, k |-> load.k, st |-> load.st, sched |-> load.sched]
  BY <1>1, <1>2 DEF LoadState
<1>6. /\ load'.pc = next /\ load'.tile = load.tile /\ load'.k = load.k /\ load'.st = load.st /\ load'.sched = load.sched
  BY <1>5
<1>7. n \div N \in Nat
  BY <1>2, <1>4, DivMod
<1>8. slot'[n % N] = SlotAt(n, all) /\ slot'[n % N] \in Slot
      /\ \A s \in 0 .. N - 1 : s # n % N => slot'[s] = slot[s]
  <2> DEFINE b == slot[n % N]
  <2>1. b \in Slot /\ b = [data |-> b.data, full |-> b.full, empty |-> b.empty, missing |-> b.missing]
    BY <1>2, <1>4 DEF Slot
  <2>2. slot' = [slot EXCEPT ![n % N] = [data |-> TileOf(n), full |-> 1 - b.full, empty |-> b.empty, missing |-> b.missing]]
    BY <1>1, <1>2, <1>4, <2>1 DEF Flip
  <2>3. slot'[n % N] = [data |-> TileOf(n), full |-> 1 - b.full, empty |-> b.empty, missing |-> b.missing]
    BY <1>2, <1>4, <2>2
  <2>4. all # 0 /\ 1 - b.full = (n \div N + 1) % 2
    BY <1>4, <1>7 DEF SchedArrivals
  <2>5. slot'[n % N] = SlotAt(n, all)
    BY <1>4, <2>3, <2>4 DEF SlotAt
  <2>6. TileOf(n) \in 0 .. Tiles
    BY <1>2, <1>4 DEF TileOf, Invalid
  <2>7. slot'[n % N] \in Slot
    BY <2>1, <2>3, <2>6 DEF Slot
  <2>8. \A s \in 0 .. N - 1 : s # n % N => slot'[s] = slot[s]
    BY <1>2, <1>4, <2>2
  <2> QED BY <2>5, <2>7, <2>8
<1>9. slot' \in [0 .. N - 1 -> Slot]
  <2>1. slot' = [s \in 0 .. N - 1 |-> slot'[s]]
    BY <1>1, <1>2
  <2>2. \A s \in 0 .. N - 1 : slot'[s] \in Slot
    BY <1>2, <1>8
  <2> QED BY <2>1, <2>2
<1>10. TypeOK'
  <2>1. load' \in LoadState'
    BY <1>1, <1>2, <1>5, ShapeStays DEF LoadState
  <2> QED BY <1>1, <1>9, <2>1, ShapeStays DEF TypeOK, WgState, LoadState, Slot
<1>11. Taken' = n
  <2>1. Tiles' = Tiles
    BY <1>1, ShapeStays
  <2>2. load.pc = "last" => load.tile = Invalid /\ ~shape.varlenK
    BY <1>3 DEF LoadOK
  <2>3. load.pc = "load" => load.tile # Invalid
    BY <1>3 DEF LoadOK
  <2> QED BY <1>1, <1>6, <2>1, <2>2, <2>3 DEF Taken, Invalid
<1>12. Written' = n + 1
  BY <1>6, <1>11 DEF Written
<1>13. Loaded' = Loaded
  <2>1. Tiles' = Tiles /\ Tiles + 1 \in Nat /\ load.tile \in Nat
    BY <1>1, <1>2, ShapeStays, LoadFacts
  <2>2. Before(Tiles + 1)' = Before(Tiles + 1) /\ Before(load.tile)' = Before(load.tile)
    BY <1>1, <1>6, <2>1 DEF Before, KTiles, KCount, Tiles
  <2> QED BY <1>6, <2>2 DEF Loaded, Invalid
<1>14. LoadOK'
  <2>1. KTiles(load.tile)' = KTiles(load.tile)
    BY <1>1, <1>6 DEF KTiles, KCount, Tiles
  <2>2. load'.st = At(Loaded', ABStages, 1) /\ load'.sched = At(Taken', SchedStages, 0)
    BY <1>6, <1>11, <1>13, LoadFacts
  <2>3. /\ next \in {"load", "take"} <=> load.tile # Invalid
        /\ load.tile # Invalid => load.k <= KTiles(load.tile)
        /\ next = "take" => load.k = KTiles(load.tile)
        /\ next \in {"last", "takeLast"} => ~shape.varlenK
    BY <1>3 DEF LoadOK
  <2> QED BY <1>1, <1>6, <2>1, <2>2, <2>3 DEF LoadOK, Invalid, At
<1>15. /\ \A g \in WG : WgOK(g)' /\ EpiOK(g)' /\ StoresOK(g)'
       /\ TurnOK' /\ COK' /\ Issued' = Issued
       /\ \A y \in Items : IsFree(y)' <=> IsFree(y)
       /\ \A i \in Nat : Waits(0, i)' = Waits(0, i) /\ Waits(1, i)' = Waits(1, i)
  <2>1. Written' \in Nat /\ Written' >= Written
    BY <1>4, <1>12
  <2> QED BY <1>1, <2>1, LoadFrame
<1>16. AbOK'
  BY <1>1, <1>13, <1>15, AbStays
<1>17. \A i \in Nat : Missing(i)' = Missing(i)
  BY <1>11, <1>15 DEF Missing
<1>18. Missing(n) = all
  <2>1. /\ Waits(0, n) = IF 0 \in Readers(n) THEN 1 ELSE 0
        /\ Waits(1, n) = IF 1 \in Readers(n) THEN 1 ELSE 0
    BY <1>4 DEF Waits
  <2>2. Missing(n) = Waits(0, n) + Waits(1, n) + 1
    BY <1>4 DEF Missing
  <2>3. CASE shape.varlenK
    <3>1. Readers(n) = {0, 1}
      BY <1>4, <2>3, ReaderFacts DEF WG
    <3> QED BY <2>1, <2>2, <2>3, <3>1 DEF SchedArrivals
  <2>4. CASE ~shape.varlenK
    <3>1. Readers(n) = {0} \/ Readers(n) = {1}
      BY <1>4, <2>4, ReaderFacts, OwnerFacts DEF WG
    <3> QED BY <2>1, <2>2, <2>4, <3>1 DEF SchedArrivals
  <2> QED BY <2>3, <2>4
<1> HIDE DEF n, N, all, s0
<1>19. SchedOK'
  <2>1. ASSUME NEW s \in 0 .. N - 1, s >= n + 1 PROVE slot'[s] = EmptySlot(all)
    <3>1. n \in 0 .. N - 1 /\ s >= Written /\ s # n
      BY <1>2, <1>4, <2>1
    <3>2. n % N = n
      BY <1>2, <3>1, FirstLap
    <3>3. slot[s] = EmptySlot(all)
      BY <3>1, SlotsFacts DEF N, all
    <3> QED BY <1>8, <3>1, <3>2, <3>3
  <2>2. ASSUME NEW i \in Nat, i < n + 1, i < n + 1 - N PROVE Missing(i)' = 0
    <3>1. CASE i = n - N
      <4>1. n >= N
        BY <1>2, <1>4, <3>1
      <4> QED BY <1>4, <1>17, <3>1, <4>1
    <3>2. CASE i # n - N
      <4>1. i < Written - N /\ i < Written
        BY <1>2, <1>4, <2>2, <3>2
      <4> QED BY <1>17, <4>1, SlotsFacts DEF N
    <3> QED BY <3>1, <3>2
  <2>3. ASSUME NEW i \in Nat, i < n + 1, i >= n + 1 - N PROVE slot'[i % N] = SlotAt(i, Missing(i)')
    <3>1. CASE i = n
      BY <1>8, <1>17, <1>18, <3>1
    <3>2. CASE i # n
      <4>1. i < n /\ n < i + N /\ i < Written /\ i >= Written - N
        BY <1>2, <1>4, <2>3, <3>2
      <4>2. i % N # n % N /\ i % N \in 0 .. N - 1
        BY <1>2, <1>4, <4>1, OwnStage, DivMod
      <4>3. slot[i % N] = SlotAt(i, Missing(i))
        BY <4>1, SlotRecord DEF N
      <4> QED BY <1>8, <1>17, <4>2, <4>3
    <3> QED BY <3>1, <3>2
  <2>4. Written' \in Nat
    BY <1>4, <1>12
  <2>5. \A s \in 0 .. SchedStages - 1 : s >= Written' => slot'[s] = EmptySlot(SchedArrivals(shape.varlenK))
    BY <1>12, <2>1 DEF N, all
  <2>6. \A i \in Nat : i < Written' =>
          /\ i < Written' - SchedStages => Missing(i)' = 0
          /\ i >= Written' - SchedStages => slot'[i % SchedStages] = SlotAt(i, Missing(i)')
    <3>1. Written' - N = n + 1 - N
      BY <1>2, <1>4, <1>12
    <3> QED BY <1>12, <2>2, <2>3, <3>1 DEF N
  <2> QED BY <1>1, <2>4, <2>5, <2>6, SlotIntro
<1> QED BY <1>10, <1>14, <1>15, <1>16, <1>19 DEF PingpongInv

LEMMA FetchStep ==
  ASSUME TypeOK, PingpongInv, Fetch
  PROVE  TypeOK' /\ PingpongInv'
<1>1. load.pc = "load" /\ load.k = KCount(load.tile) /\ WriteTile(TileAfter(load.tile), "take")
  BY DEF Fetch
<1>2. load.tile # Invalid
  BY <1>1 DEF PingpongInv, LoadOK
<1>3. load.tile \in 1 .. Tiles /\ Tiles \in Nat /\ load.k = KTiles(load.tile)
  BY <1>1, <1>2, LoadFacts, ShapeFacts DEF TypeOK
<1>4. TileAfter(load.tile) = TileOf(Taken)
  <2>1. Taken = load.tile - 1
    BY <1>2 DEF Taken
  <2> QED BY <1>3, <2>1 DEF TileOf, TileAfter
<1> QED BY <1>1, <1>3, <1>4, WriteStep

LEMMA WriteLastStep ==
  ASSUME TypeOK, PingpongInv, WriteLast
  PROVE  TypeOK' /\ PingpongInv'
<1>1. load.pc = "last" /\ WriteTile(load.tile, "takeLast")
  BY DEF WriteLast
<1>2. load.tile = Invalid
  BY <1>1 DEF PingpongInv, LoadOK
<1>3. load.tile = TileOf(Taken)
  <2>1. Taken = Tiles /\ Tiles \in Nat
    BY <1>1, <1>2, ShapeFacts DEF Taken, TypeOK
  <2> QED BY <1>2, <2>1 DEF TileOf
<1> QED BY <1>1, <1>3, WriteStep

\* A read of the slot of the n-th tile.
LEMMA TakeSlot ==
  ASSUME TypeOK, PingpongInv, shape' = shape, NEW n \in Nat, n < Written, n >= Written - SchedStages, Missing(n) >= 1,
         slot' = [slot EXCEPT ![n % SchedStages] = ReadOnce(@)],
         Written' = Written,
         Missing(n)' = Missing(n) - 1, \A i \in Nat : i # n => Missing(i)' = Missing(i)
  PROVE  SchedOK' /\ slot' \in [0 .. SchedStages - 1 -> Slot]
<1> DEFINE N == SchedStages  all == SchedArrivals(shape.varlenK)  c == Missing(n)
           b == slot[n % N]  e == ReadOnce(b)
<1>1. /\ N \in Nat \ {0} /\ Written \in Nat /\ slot \in [0 .. N - 1 -> Slot] /\ shape \in Shapes
      /\ c \in Nat /\ c >= 1 /\ all \in Nat \ {0}
  <2>1. N \in Nat \ {0} /\ slot \in [0 .. N - 1 -> Slot] /\ shape \in Shapes
    BY SizeFacts DEF TypeOK
  <2>4. Written \in Nat
    <3>1. Taken \in Nat /\ Written \in {Taken, Taken + 1}
      BY LoadFacts, Zenon
    <3> QED BY <3>1
  <2>2. c \in Nat /\ c >= 1
    BY MissingFacts
  <2>3. all \in Nat \ {0}
    BY DEF SchedArrivals
  <2> QED BY <2>1, <2>2, <2>3, <2>4
<1>2. n % N \in 0 .. N - 1 /\ n \div N \in Nat
  BY <1>1, DivMod
<1>3. b \in Slot /\ b = SlotAt(n, c)
  BY <1>1, <1>2, SlotRecord
<1>4. b.data = TileOf(n) /\ b.full = (n \div N + 1) % 2 /\ b.empty = (n \div N) % 2 /\ b.missing = c
  <2>1. c # 0
    BY <1>1
  <2> HIDE DEF c
  <2> QED BY <1>3, <2>1 DEF SlotAt
<1>5. slot' = [slot EXCEPT ![n % N] = e]
  BY <1>1, <1>2
<1>6. b = [data |-> b.data, full |-> b.full, empty |-> b.empty, missing |-> b.missing]
  BY <1>3 DEF Slot
<1>7. b.data \in 0 .. Tiles /\ b.full \in {0, 1} /\ b.empty \in {0, 1} /\ b.missing \in Nat
  BY <1>3 DEF Slot
<1> HIDE DEF b, c, all, N
<1>8. e = SlotAt(n, c - 1) /\ e \in Slot
  <2>1. CASE c = 1
    <3>1. e = [data |-> b.data, full |-> b.full, empty |-> 1 - b.empty, missing |-> all]
      BY <1>4, <1>6, <2>1 DEF Flip, ReadOnce, all
    <3>2. 1 - b.empty = (n \div N + 1) % 2 /\ c - 1 = 0
      BY <1>2, <1>4, <2>1
    <3>3. e = SlotAt(n, c - 1)
      <4>1. SlotAt(n, 0) = [data |-> TileOf(n), full |-> (n \div N + 1) % 2,
                            empty |-> (n \div N + 1) % 2, missing |-> all]
        BY DEF SlotAt, N, all
      <4> QED BY <1>4, <3>1, <3>2, <4>1
    <3>4. e \in Slot
      BY <1>1, <1>7, <3>1 DEF Slot
    <3> QED BY <3>3, <3>4
  <2>2. CASE c # 1
    <3>1. e = [data |-> b.data, full |-> b.full, empty |-> b.empty, missing |-> c - 1]
      BY <1>4, <1>6, <2>2 DEF ReadOnce
    <3>2. c - 1 # 0 /\ c - 1 \in Nat
      BY <1>1, <2>2
    <3>3. e = SlotAt(n, c - 1)
      BY <1>4, <3>1, <3>2 DEF SlotAt, N
    <3>4. e \in Slot
      BY <1>7, <3>1, <3>2 DEF Slot
    <3> QED BY <3>3, <3>4
  <2> QED BY <2>1, <2>2
<1> HIDE DEF e
<1>9. /\ slot'[n % N] = SlotAt(n, c - 1) /\ slot' \in [0 .. N - 1 -> Slot]
      /\ \A s \in 0 .. N - 1 : s # n % N => slot'[s] = slot[s]
  BY <1>1, <1>2, <1>5, <1>8
<1>10. SchedOK'
  <2>1. ASSUME NEW s \in 0 .. SchedStages - 1, s >= Written' PROVE slot'[s] = EmptySlot(SchedArrivals(shape.varlenK))
    <3>1. n \in 0 .. N - 1 /\ s # n /\ s \in 0 .. N - 1
      BY <1>1, <2>1 DEF N
    <3>2. n % N = n
      BY <1>1, <3>1, FirstLap
    <3>3. slot[s] = EmptySlot(SchedArrivals(shape.varlenK))
      BY <2>1, SlotsFacts
    <3> QED BY <1>9, <3>1, <3>2, <3>3
  <2>2. ASSUME NEW i \in Nat, i < Written'
        PROVE  /\ i < Written' - SchedStages => Missing(i)' = 0
               /\ i >= Written' - SchedStages => slot'[i % SchedStages] = SlotAt(i, Missing(i)')
    <3>1. CASE i = n
      <4>1. ~(i < Written' - SchedStages)
        BY <1>1, <3>1 DEF N
      <4> QED BY <1>9, <3>1, <4>1 DEF N, c
    <3>2. CASE i # n
      <4>1. Missing(i)' = Missing(i)
        BY <3>2
      <4>2. i < Written' - SchedStages => Missing(i) = 0
        BY <2>2, SlotsFacts
      <4>3. ASSUME i >= Written' - SchedStages PROVE slot'[i % SchedStages] = SlotAt(i, Missing(i)')
        <5>1. i < n + N /\ n < i + N
          BY <1>1, <2>2, <4>3 DEF N
        <5>2. i % N # n % N /\ i % N \in 0 .. N - 1
          BY <1>1, <3>2, <5>1, SameStage, DivMod
        <5>3. slot[i % N] = SlotAt(i, Missing(i))
          BY <2>2, <4>3, SlotRecord DEF N
        <5> QED BY <1>9, <4>1, <5>2, <5>3 DEF N
      <4> QED BY <4>1, <4>2, <4>3
    <3> QED BY <3>1, <3>2
  <2>3. Written' \in Nat
    BY <1>1
  <2> QED BY <2>1, <2>2, <2>3, SlotIntro
<1> QED BY <1>9, <1>10 DEF N

LEMMA LoadTakeStep ==
  ASSUME TypeOK, PingpongInv, LoadTake
  PROVE  TypeOK' /\ PingpongInv'
<1> DEFINE t == slot[load.sched.index].data  N == SchedStages
           next == IF t # Invalid THEN "load" ELSE IF load.pc = "take" /\ ~shape.varlenK THEN "last" ELSE "tail"
<1>0. PICK n \in Nat : n = Taken
  BY LoadFacts
<1>1. /\ load.pc \in {"take", "takeLast"}
      /\ Take(load.sched)
      /\ load' = [load EXCEPT !.tile = t, !.k = 0, !.sched = Advance(@, SchedStages), !.pc = next]
      /\ shape' = shape /\ wg' = wg /\ ab' = ab /\ cs' = cs /\ turn' = turn /\ dbuf' = dbuf /\ stores' = stores /\ out' = out
  BY DEF LoadTake
<1>2. shape \in Shapes /\ load \in LoadState /\ N \in Nat \ {0} /\ Tiles \in Nat /\ shape.varlenK \in BOOLEAN
  BY SizeFacts, ShapeFacts DEF TypeOK
<1>3. LoadOK
  BY DEF PingpongInv
<1>4. /\ n \in Nat /\ Written = n + 1 /\ n < Written /\ n >= Written - N
      /\ Missing(n) >= 1 /\ load.sched.index = n % N /\ t = TileOf(n)
      /\ load.sched = At(n, N, 0)
  BY <1>0, <1>1, LoadTakeFacts, LoadFacts
<1>5. Advance(load.sched, N) = At(n + 1, N, 0) /\ At(n + 1, N, 0) \in PipeState
  <2>1. n + 1 \in Nat /\ 0 \in {0, 1}
    BY <1>4
  <2> QED BY <1>2, <1>4, <2>1, AdvanceOne, AtFacts
<1>6. load' = [pc |-> next, tile |-> t, k |-> 0, st |-> load.st, sched |-> At(n + 1, N, 0)]
  BY <1>1, <1>2, <1>5 DEF LoadState
<1>7. t \in 0 .. Tiles /\ t = (IF n + 2 <= Tiles THEN n + 2 ELSE Invalid)
  BY <1>2, <1>4 DEF TileOf, Invalid
<1>8. next \in {"load", "last", "tail"}
  OBVIOUS
<1>9. load' \in LoadState'
  <2>1. load.st \in PipeState /\ 0 \in Nat /\ Tiles' = Tiles
    BY <1>1, <1>2, ShapeStays DEF LoadState
  <2> HIDE DEF next, t
  <2> QED BY <1>5, <1>6, <1>7, <1>8, <2>1 DEF LoadState
<1>10. load'.pc = next /\ load'.tile = t /\ load'.k = 0 /\ load'.st = load.st /\ load'.sched = At(n + 1, N, 0)
  BY <1>6
\* Where the load warp was, and where it is.
<1>11. \/ load.pc = "take" /\ load.tile # Invalid /\ n = load.tile - 1 /\ load.k = KTiles(load.tile)
          /\ load.tile \in 1 .. Tiles
       \/ load.pc = "takeLast" /\ load.tile = Invalid /\ n = Tiles /\ ~shape.varlenK
  <2>1. CASE load.pc = "take"
    <3>1. load.tile # Invalid /\ load.k = KTiles(load.tile)
      BY <1>3, <2>1 DEF LoadOK
    <3> QED BY <1>0, <2>1, <3>1, LoadFacts DEF Taken
  <2>2. CASE load.pc = "takeLast"
    <3>1. load.tile = Invalid /\ ~shape.varlenK
      BY <1>3, <2>2 DEF LoadOK
    <3> QED BY <1>0, <2>2, <3>1 DEF Taken
  <2> QED BY <1>1, <2>1, <2>2
<1>12. Tiles' = Tiles /\ shape'.varlenK = shape.varlenK
  BY <1>1, ShapeStays
<1>13. Taken' = n + 1 /\ Written' = n + 1
  <2>1. Taken' = n + 1
    <3>1. CASE t # Invalid
      <4>1. Taken' = t - 1
        BY <1>10, <3>1 DEF Taken
      <4> QED BY <1>2, <1>4, <1>7, <3>1, <4>1 DEF Invalid
    <3>2. CASE t = Invalid /\ load.pc = "take"
      <4>1. n + 1 = Tiles
        BY <1>2, <1>4, <1>7, <1>11, <3>2 DEF Invalid
      <4>2. load'.tile = Invalid /\ (load'.pc = "last" \/ shape.varlenK)
        BY <1>10, <3>2
      <4> QED BY <1>12, <4>1, <4>2 DEF Taken
    <3>3. CASE load.pc = "takeLast"
      <4>1. n = Tiles /\ t = Invalid /\ ~shape.varlenK
        BY <1>2, <1>4, <1>7, <1>11, <3>3
      <4>2. load'.tile = Invalid /\ load'.pc = "tail"
        BY <1>10, <3>3, <4>1
      <4> QED BY <1>12, <4>1, <4>2 DEF Taken
    <3> QED BY <1>1, <3>1, <3>2, <3>3
  <2>2. load'.pc \notin {"take", "takeLast"}
    BY <1>8, <1>10
  <2> QED BY <2>1, <2>2 DEF Written
<1>14. Loaded' = Loaded
  <2>1. Loaded' = IF t = Invalid THEN Before(Tiles + 1) ELSE Before(t) + 0
    <3>1. Before(Tiles + 1)' = Before(Tiles + 1) /\ Before(load.tile)' = Before(t)
      BY <1>1, <1>10, <1>12 DEF Before, KTiles, KCount, Tiles
    <3> QED BY <1>10, <3>1 DEF Loaded
  <2>2. CASE load.pc = "take"
    <3>1. load.tile \in Nat \ {0} /\ load.tile = n + 1 /\ Loaded = Before(load.tile) + KTiles(load.tile)
      BY <1>2, <1>4, <1>11, <2>2 DEF Loaded
    <3>2. Loaded = Before(load.tile + 1) /\ Before(load.tile + 1) \in Nat
      <4>1. load.tile + 1 \in Nat \ {0}
        BY <3>1
      <4> QED BY <1>2, <3>1, <4>1, BeforeNext
    <3>3. load.tile + 1 = n + 2
      BY <1>4, <3>1
    <3>4. CASE t = Invalid
      <4>1. n + 2 = Tiles + 1
        BY <1>2, <1>4, <1>7, <1>11, <2>2, <3>4 DEF Invalid
      <4> QED BY <2>1, <3>2, <3>3, <3>4, <4>1
    <3>5. CASE t # Invalid
      <4>1. t = n + 2
        BY <1>7, <3>5
      <4> QED BY <2>1, <3>2, <3>3, <3>5, <4>1
    <3> QED BY <3>4, <3>5
  <2>3. CASE load.pc = "takeLast"
    <3>1. t = Invalid
      BY <1>2, <1>4, <1>7, <1>11, <2>3
    <3> QED BY <1>11, <2>1, <2>3, <3>1 DEF Loaded
  <2> QED BY <1>1, <2>2, <2>3
<1>15. LoadOK'
  <2>1. /\ next \in {"load", "take"} <=> t # Invalid
        /\ next # "take"
        /\ next \in {"last", "takeLast"} => ~shape.varlenK
    OBVIOUS
  <2>2. load'.tile # Invalid => 0 <= KTiles(load.tile)'
    <3>1. KTiles(load.tile)' = KTiles(t)
      BY <1>1, <1>10 DEF KTiles, KCount, Tiles
    <3>2. t # Invalid => t \in Nat \ {0}
      BY <1>7 DEF Invalid
    <3> QED BY <1>2, <1>10, <3>1, <3>2, ShapeFacts
  <2>3. load'.st = At(Loaded', ABStages, 1) /\ load'.sched = At(Taken', SchedStages, 0)
    BY <1>10, <1>13, <1>14, LoadFacts
  <2> HIDE DEF next, t
  <2> QED BY <1>10, <1>12, <2>1, <2>2, <2>3 DEF LoadOK, Invalid, At
<1> HIDE DEF next, t
<1>16. Written' = Written /\ Written \in Nat
  BY <1>4, <1>13
<1>17. /\ \A g \in WG : WgOK(g)' /\ EpiOK(g)' /\ StoresOK(g)'
       /\ TurnOK' /\ COK' /\ Issued' = Issued
       /\ \A y \in Items : IsFree(y)' <=> IsFree(y)
       /\ \A i \in Nat : Waits(0, i)' = Waits(0, i) /\ Waits(1, i)' = Waits(1, i)
  <2>1. Written' \in Nat /\ Written' >= Written
    BY <1>16
  <2> QED BY <1>1, <2>1, LoadFrame
<1>18. AbOK'
  BY <1>1, <1>14, <1>17, AbStays
<1>19. Missing(n)' = Missing(n) - 1 /\ \A i \in Nat : i # n => Missing(i)' = Missing(i)
  <2>1. ASSUME NEW i \in Nat
        PROVE  Missing(i) = Waits(0, i) + Waits(1, i) + (IF n <= i THEN 1 ELSE 0)
               /\ Missing(i)' = Waits(0, i) + Waits(1, i) + (IF n + 1 <= i THEN 1 ELSE 0)
               /\ Waits(0, i) \in {0, 1} /\ Waits(1, i) \in {0, 1}
    <3>1. Waits(0, i)' = Waits(0, i) /\ Waits(1, i)' = Waits(1, i)
      BY <1>17
    <3> QED BY <1>0, <1>13, <3>1, MissingFacts DEF Missing
  <2>2. Missing(n)' = Missing(n) - 1
    <3>1. n <= n /\ ~(n + 1 <= n)
      OBVIOUS
    <3> QED BY <2>1, <3>1
  <2>3. ASSUME NEW i \in Nat, i # n PROVE Missing(i)' = Missing(i)
    <3>1. n <= i <=> n + 1 <= i
      BY <2>3
    <3> QED BY <2>1, <3>1
  <2> QED BY <2>2, <2>3
<1>20. SchedOK' /\ slot' \in [0 .. SchedStages - 1 -> Slot]
  <2>1. slot' = [slot EXCEPT ![n % SchedStages] = ReadOnce(@)]
    BY <1>1, <1>4 DEF Take
  <2> QED BY <1>1, <1>4, <1>16, <1>19, <2>1, TakeSlot
<1>21. TypeOK'
  BY <1>1, <1>9, <1>20, ShapeStays DEF TypeOK, WgState, LoadState, Slot
<1> QED BY <1>15, <1>17, <1>18, <1>20, <1>21 DEF PingpongInv

LEMMA LoadTailStep ==
  ASSUME TypeOK, PingpongInv, LoadTail
  PROVE  TypeOK' /\ PingpongInv'
<1>1. PICK next \in {"schedTail", "done"} :
        /\ load.pc \in {"tail", "schedTail"}
        /\ load' = [load EXCEPT !.pc = next]
        /\ shape' = shape /\ wg' = wg /\ ab' = ab /\ cs' = cs /\ slot' = slot /\ turn' = turn
        /\ dbuf' = dbuf /\ stores' = stores /\ out' = out
  BY DEF LoadTail
<1>2. shape \in Shapes /\ load \in LoadState /\ Tiles \in Nat
  BY ShapeFacts DEF TypeOK
<1>3. LoadOK
  BY DEF PingpongInv
<1>4. load.tile = Invalid
  BY <1>1, <1>3 DEF LoadOK
<1>5. load' = [pc |-> next, tile |-> load.tile, k |-> load.k, st |-> load.st, sched |-> load.sched]
  BY <1>1, <1>2 DEF LoadState
<1>6. load'.pc = next /\ load'.tile = load.tile /\ load'.k = load.k /\ load'.st = load.st /\ load'.sched = load.sched
  BY <1>5
<1>7. TypeOK'
  <2>1. load' \in LoadState'
    BY <1>1, <1>2, <1>5, ShapeStays DEF LoadState
  <2> QED BY <1>1, <2>1, ShapeStays DEF TypeOK, WgState, LoadState, Slot
<1>8. Tiles' = Tiles /\ Before(Tiles + 1)' = Before(Tiles + 1)
  BY <1>1, <1>2, ShapeStays DEF Before, KTiles, KCount, Tiles
<1>9. Taken' = Taken /\ Written' = Written /\ Loaded' = Loaded
  <2>1. load'.pc \notin {"last", "takeLast", "take"} /\ load.pc \notin {"last", "takeLast", "take"}
    BY <1>1, <1>6
  <2>2. Taken' = Taken
    BY <1>1, <1>4, <1>6, <1>8, <2>1 DEF Taken
  <2>3. Written' = Written
    BY <2>1, <2>2 DEF Written
  <2>4. Loaded' = Loaded
    BY <1>4, <1>6, <1>8 DEF Loaded
  <2> QED BY <2>2, <2>3, <2>4
<1>10. LoadOK'
  <2>1. load'.pc \notin {"load", "take", "last", "takeLast"}
    BY <1>6
  <2>2. load'.st = At(Loaded', ABStages, 1) /\ load'.sched = At(Taken', SchedStages, 0)
    BY <1>6, <1>9, LoadFacts
  <2> QED BY <1>4, <1>6, <2>1, <2>2 DEF LoadOK, Invalid, At
<1>11. Written \in Nat
  BY LoadFacts
<1>12. /\ \A g \in WG : WgOK(g)' /\ EpiOK(g)' /\ StoresOK(g)'
       /\ TurnOK' /\ COK' /\ Issued' = Issued
       /\ \A y \in Items : IsFree(y)' <=> IsFree(y)
       /\ \A i \in Nat : Waits(0, i)' = Waits(0, i) /\ Waits(1, i)' = Waits(1, i)
  <2>1. Written' \in Nat /\ Written' >= Written
    BY <1>9, <1>11
  <2> QED BY <1>1, <2>1, LoadFrame
<1>13. AbOK'
  BY <1>1, <1>9, <1>12, AbStays
<1>14. SchedOK'
  BY <1>1, <1>9, <1>12, SchedStays
<1> QED BY <1>7, <1>10, <1>12, <1>13, <1>14 DEF PingpongInv

-----------------------------------------------------------------------------
(* The transfers.                                                           *)

\* No warp and no warp group moves.
LEMMA TmaFrame ==
  ASSUME TypeOK, PingpongInv, shape' = shape, load' = load, wg' = wg
  PROVE  /\ LoadOK'
         /\ Loaded' = Loaded /\ Issued' = Issued /\ \A x \in Items : IsFree(x)' <=> IsFree(x)
         /\ \A g \in WG : WgOK(g)' /\ EpiOK(g)' /\ (stores'[g] = stores[g] /\ dbuf' = dbuf => StoresOK(g)')
         /\ \A g \in WG : Own(g)' = Own(g) /\ CLoaded(g)' = CLoaded(g) /\ CDone(g)' = CDone(g)
         /\ ab' = ab => AbOK'
         /\ turn' = turn => TurnOK'
         /\ slot' = slot => SchedOK'
         /\ cs' = cs => COK'
<1>1. 0 \in WG /\ 1 \in WG /\ 1 - 0 = 1 /\ 1 - 1 = 0 /\ \A g \in WG : g = 0 \/ g = 1
  BY DEF WG
<1>2. \A g \in WG : /\ Own(g)' = Own(g) /\ Mul(g)' = Mul(g) /\ SchedPos(g)' = SchedPos(g)
                    /\ CLoaded(g)' = CLoaded(g) /\ CDone(g)' = CDone(g) /\ Going(g)' = Going(g) /\ Freed(g)' = Freed(g)
  BY PlaceStays
<1>3. LoadOK' /\ Loaded' = Loaded /\ Written' = Written
  BY <1>1, Frame
<1>4. Written \in Nat
  BY LoadFacts
<1>5. ASSUME NEW g \in WG
      PROVE  WgOK(g)' /\ EpiOK(g)' /\ (stores'[g] = stores[g] /\ dbuf' = dbuf => StoresOK(g)')
  <2>1. Written' \in Nat /\ Written' >= Written
    BY <1>3, <1>4
  <2> QED BY <2>1, WgStays
<1>6. Issued' = Issued /\ (\A x \in Items : IsFree(x)' <=> IsFree(x)) /\ (ab' = ab => AbOK')
  BY <1>1, <1>2, AbFrame
<1>7. turn' = turn => TurnOK'
  BY <1>1, <1>2, TurnFrame
<1>8. slot' = slot => SchedOK'
  BY <1>1, <1>2, SchedFrame
<1>9. cs' = cs => COK'
  BY <1>1, <1>2, CFrame
<1> QED BY <1>2, <1>3, <1>5, <1>6, <1>7, <1>8, <1>9

LEMMA LandedType ==
  ASSUME NEW st \in Stage
  PROVE  Landed(st) \in Stage
<1>1. PICK a \in Content, b \in Content, c \in {0, 1} : a = st.coming /\ b = Nothing /\ c = 1 - st.full
  BY DEF Stage, Content
<1>2. [st EXCEPT !.data = a, !.coming = b, !.full = c] \in Stage
  BY DEF Stage
<1> QED BY <1>1, <1>2 DEF Landed, Flip

LEMMA LandedOK ==
  ASSUME NEW st \in Stage, NEW item, NEW lap \in Nat, NEW freed \in BOOLEAN, NEW due \in BOOLEAN,
         StageOK(st, item, lap, freed, due), st.coming # Nothing
  PROVE  StageOK(Landed(st), item, lap, freed, due)
<1>1. st.coming = item /\ st.full = lap % 2 /\ st.empty = (IF freed THEN lap + 1 ELSE lap) % 2
  BY DEF StageOK
<1>2. /\ Landed(st).coming = Nothing /\ Landed(st).data = st.coming
      /\ Landed(st).full = 1 - st.full /\ Landed(st).empty = st.empty
  BY DEF Landed, Stage, Flip
<1>3. 1 - (lap % 2) = (lap + 1) % 2
  OBVIOUS
<1> QED BY <1>1, <1>2, <1>3 DEF StageOK

LEMMA LandABStep ==
  ASSUME TypeOK, PingpongInv, NEW s \in 0 .. ABStages - 1, LandAB(s)
  PROVE  TypeOK' /\ PingpongInv'
<1> DEFINE m == ABStages
<1>1. /\ ab[s].coming # Nothing /\ ab' = [ab EXCEPT ![s] = Landed(@)]
      /\ shape' = shape /\ load' = load /\ wg' = wg /\ cs' = cs /\ slot' = slot /\ turn' = turn
      /\ dbuf' = dbuf /\ stores' = stores /\ out' = out
  BY DEF LandAB
<1>2. shape \in Shapes /\ ab \in [0 .. m - 1 -> Stage] /\ m \in Nat \ {0}
  BY SizeFacts DEF TypeOK
<1>3. ab'[s] = Landed(ab[s]) /\ \A i \in 0 .. m - 1 : i # s => ab'[i] = ab[i]
  BY <1>1, <1>2
<1>4. TypeOK'
  <2>1. ab' \in [0 .. ABStages - 1 -> Stage]
    BY <1>1, <1>2, LandedType
  <2> QED BY <1>1, <2>1, ShapeStays DEF TypeOK, WgState, LoadState, Slot
<1>5. /\ LoadOK' /\ Loaded' = Loaded /\ Issued' = Issued /\ \A x \in Items : IsFree(x)' <=> IsFree(x)
      /\ \A g \in WG : WgOK(g)' /\ EpiOK(g)' /\ StoresOK(g)'
      /\ TurnOK' /\ SchedOK' /\ COK'
  BY <1>1, TmaFrame
<1>6. Loaded \in Nat /\ Issued <= Loaded
  BY LoadFacts, AbFacts
<1>7. AbOK'
  <2>1. ASSUME NEW i \in 0 .. ABStages - 1, i >= Loaded' PROVE ab'[i] = EmptyStage
    <3>1. ab[i] = EmptyStage
      BY <1>5, <2>1, AbFacts
    <3>2. i # s
      BY <1>1, <3>1 DEF EmptyStage
    <3> QED BY <1>3, <3>1, <3>2
  <2>2. ASSUME NEW x \in Items
        PROVE  /\ Pos(x) < Loaded' - ABStages => IsFree(x)'
               /\ Pos(x) >= Loaded' - ABStages /\ Pos(x) < Loaded' =>
                    StageOK(ab'[Pos(x) % ABStages], x, Pos(x) \div ABStages, IsFree(x)', Pos(x) < Issued')
    <3>1. /\ Pos(x) < Loaded' - ABStages => IsFree(x)
          /\ Pos(x) >= Loaded' - ABStages /\ Pos(x) < Loaded' =>
               StageOK(ab[Pos(x) % ABStages], x, Pos(x) \div ABStages, IsFree(x), Pos(x) < Issued)
      BY <1>5, <2>2, AbFacts
    <3>2. IsFree(x)' <=> IsFree(x)
      BY <1>5
    <3> DEFINE p == Pos(x)
    <3>3. p \in Nat /\ p % m \in 0 .. m - 1 /\ p \div m \in Nat
      BY <1>2, PosFacts, DivMod
    <3> HIDE DEF p
    <3>4. ASSUME StageOK(ab[p % m], x, p \div m, IsFree(x), p < Issued)
          PROVE  StageOK(ab'[p % m], x, p \div m, IsFree(x), p < Issued)
      <4>1. CASE p % m = s
        <5>1. ab[p % m] \in Stage /\ ab[p % m].coming # Nothing
          BY <1>1, <1>2, <4>1
        <5>2. IsFree(x) \in BOOLEAN /\ (p < Issued) \in BOOLEAN
          BY DEF IsFree
        <5>3. StageOK(Landed(ab[p % m]), x, p \div m, IsFree(x), p < Issued)
          BY <3>3, <3>4, <5>1, <5>2, LandedOK
        <5> QED BY <1>3, <4>1, <5>3
      <4>2. CASE p % m # s
        BY <1>3, <3>3, <3>4, <4>2
      <4> QED BY <4>1, <4>2
    <3>5. /\ p < Loaded' - m => IsFree(x)'
          /\ p >= Loaded' - m /\ p < Loaded' =>
               StageOK(ab'[p % m], x, p \div m, IsFree(x)', p < Issued')
      BY <1>5, <3>1, <3>2, <3>4 DEF p, StageOK
    <3> QED BY <3>5 DEF p
  <2> QED BY <1>1, <1>2, <1>5, <1>6, <2>1, <2>2, AbIntro
<1> QED BY <1>4, <1>5, <1>7 DEF PingpongInv

\* The ring of C after a step, seen from the warp group that has it.
LEMMA CIntro ==
  ASSUME NEW h \in WG, Owner(NextOwn') = h, NEW loaded \in Nat, NEW done \in Nat,
         CStages > 0 => /\ (NextOwn' - 1) * EpiTiles + CLoaded(h)' = loaded
                        /\ (NextOwn' - 1) * EpiTiles + CDone(h)' = done
                        /\ \A s \in 0 .. CStages - 1 : s >= loaded => cs'[s] = EmptyStage
                        /\ \A p \in Nat : p < loaded /\ p >= loaded - CStages =>
                             StageOK(cs'[p % CStages], CItem(p), p \div CStages, p < done, p < done)
  PROVE  COK'
<1>1. CLoaded(Owner(NextOwn))' = CLoaded(h)' /\ CDone(Owner(NextOwn))' = CDone(h)'
  BY DEF CLoaded, CDone, Owner
<1>2. \A p \in 0 .. loaded - 1 : p \in Nat /\ p < loaded
  BY Below, Zenon
<1>3. CStages > 0 =>
        /\ (NextOwn' - 1) * EpiTiles + CLoaded(Owner(NextOwn))' = loaded
        /\ (NextOwn' - 1) * EpiTiles + CDone(Owner(NextOwn))' = done
        /\ \A s \in 0 .. CStages - 1 : s >= loaded => cs'[s] = EmptyStage
        /\ \A p \in 0 .. loaded - 1 : p >= loaded - CStages =>
             StageOK(cs'[p % CStages], CItem(p), p \div CStages, p < done, p < done)
  BY <1>1, <1>2
<1> QED BY <1>3 DEF COK, StageOK, EmptyStage, CItem

LEMMA CView ==
  ASSUME TypeOK, PingpongInv
  PROVE  \E h \in WG, loaded \in Nat, done \in Nat :
           /\ Owner(NextOwn) = h /\ NextOwn = Own(h)
           /\ (NextOwn - 1) * EpiTiles + CLoaded(h) = loaded
           /\ (NextOwn - 1) * EpiTiles + CDone(h) = done
           /\ CStages > 0 => /\ \A s \in 0 .. CStages - 1 : s >= loaded => cs[s] = EmptyStage
                             /\ \A p \in Nat : p < loaded /\ p >= loaded - CStages =>
                                  StageOK(cs[p % CStages], CItem(p), p \div CStages, p < done, p < done)
<1>1. PICK h \in WG : h = Owner(NextOwn) /\ NextOwn = Own(h) /\ NextOwn \in Nat \ {0}
  BY NextFacts
<1>2. (NextOwn - 1) * EpiTiles \in Nat /\ CLoaded(h) \in Nat /\ CDone(h) \in Nat
  BY <1>1, BaseFacts, CountFacts
<1>3. PICK loaded \in Nat : loaded = (NextOwn - 1) * EpiTiles + CLoaded(h)
  BY <1>2
<1>4. PICK done \in Nat : done = (NextOwn - 1) * EpiTiles + CDone(h)
  BY <1>2
<1>5. COK
  BY DEF PingpongInv
<1>6. CStages > 0 =>
        /\ \A s \in 0 .. CStages - 1 : s >= loaded => cs[s] = EmptyStage
        /\ \A p \in 0 .. loaded - 1 : p >= loaded - CStages =>
             StageOK(cs[p % CStages], CItem(p), p \div CStages, p < done, p < done)
  BY <1>1, <1>3, <1>4, <1>5 DEF COK
<1>7. \A p \in Nat : p < loaded => p \in 0 .. loaded - 1
  OBVIOUS
<1> QED BY <1>1, <1>3, <1>4, <1>6, <1>7

LEMMA LandCStep ==
  ASSUME TypeOK, PingpongInv, NEW s \in 0 .. CStages - 1, LandC(s)
  PROVE  TypeOK' /\ PingpongInv'
<1> DEFINE m == CStages
<1>1. /\ cs[s].coming # Nothing /\ cs' = [cs EXCEPT ![s] = Landed(@)]
      /\ shape' = shape /\ load' = load /\ wg' = wg /\ ab' = ab /\ slot' = slot /\ turn' = turn
      /\ dbuf' = dbuf /\ stores' = stores /\ out' = out
  BY DEF LandC
<1>2. cs \in [0 .. m - 1 -> Stage] /\ m \in Nat /\ m \in Nat \ {0} /\ m > 0
  <2>1. cs \in [0 .. m - 1 -> Stage] /\ m \in Nat
    BY SizeFacts DEF TypeOK
  <2> QED BY <2>1
<1>3. cs'[s] = Landed(cs[s]) /\ \A i \in 0 .. m - 1 : i # s => cs'[i] = cs[i]
  BY <1>1, <1>2
<1>4. TypeOK'
  <2>1. cs' \in [0 .. CStages - 1 -> Stage]
    BY <1>1, <1>2, LandedType
  <2> QED BY <1>1, <2>1, ShapeStays DEF TypeOK, WgState, LoadState, Slot
<1>5. /\ LoadOK' /\ AbOK'
      /\ \A g \in WG : WgOK(g)' /\ EpiOK(g)' /\ StoresOK(g)'
      /\ \A g \in WG : Own(g)' = Own(g) /\ CLoaded(g)' = CLoaded(g) /\ CDone(g)' = CDone(g)
      /\ TurnOK' /\ SchedOK'
  BY <1>1, TmaFrame
<1>6. COK'
  <2>1. PICK h \in WG, loaded \in Nat, done \in Nat :
           /\ Owner(NextOwn) = h /\ NextOwn = Own(h)
           /\ (NextOwn - 1) * EpiTiles + CLoaded(h) = loaded
           /\ (NextOwn - 1) * EpiTiles + CDone(h) = done
           /\ CStages > 0 => /\ \A i \in 0 .. CStages - 1 : i >= loaded => cs[i] = EmptyStage
                             /\ \A p \in Nat : p < loaded /\ p >= loaded - CStages =>
                                  StageOK(cs[p % CStages], CItem(p), p \div CStages, p < done, p < done)
    BY CView
  <2>2. NextOwn' = NextOwn
    BY <1>5 DEF NextOwn, WG
  <2>3. Owner(NextOwn') = h /\ CLoaded(h)' = CLoaded(h) /\ CDone(h)' = CDone(h)
    BY <1>5, <2>1, <2>2
  <2>4. ASSUME NEW i \in 0 .. CStages - 1, i >= loaded PROVE cs'[i] = EmptyStage
    <3>1. cs[i] = EmptyStage
      BY <1>2, <2>1, <2>4
    <3>2. i # s
      BY <1>1, <3>1 DEF EmptyStage
    <3> QED BY <1>3, <3>1, <3>2
  <2>5. ASSUME NEW p \in Nat, p < loaded, p >= loaded - CStages
        PROVE  StageOK(cs'[p % CStages], CItem(p), p \div CStages, p < done, p < done)
    <3>1. StageOK(cs[p % m], CItem(p), p \div m, p < done, p < done)
      BY <1>2, <2>1, <2>5
    <3>2. p % m \in 0 .. m - 1 /\ p \div m \in Nat
      BY <1>2, DivMod
    <3>3. CASE p % m = s
      <4>1. cs[p % m] \in Stage /\ cs[p % m].coming # Nothing
        BY <1>1, <1>2, <3>3
      <4>2. (p < done) \in BOOLEAN
        OBVIOUS
      <4>3. StageOK(Landed(cs[p % m]), CItem(p), p \div m, p < done, p < done)
        BY <3>1, <3>2, <4>1, <4>2, LandedOK
      <4> QED BY <1>3, <3>3, <4>3
    <3>4. CASE p % m # s
      BY <1>3, <3>1, <3>2, <3>4
    <3> QED BY <3>3, <3>4
  <2> QED BY <2>1, <2>2, <2>3, <2>4, <2>5, CIntro
<1> QED BY <1>4, <1>5, <1>6 DEF PingpongInv

LEMMA ReadStoreStep ==
  ASSUME TypeOK, PingpongInv, NEW g \in WG, NEW i \in Store, ReadStore(g, i)
  PROVE  TypeOK' /\ PingpongInv'
<1>1. /\ i \in DOMAIN stores[g] /\ stores' = [stores EXCEPT ![g][i].read = TRUE]
      /\ out' = out \cup {stores[g][i].dst}
      /\ shape' = shape /\ load' = load /\ wg' = wg /\ ab' = ab /\ cs' = cs /\ slot' = slot /\ turn' = turn
      /\ dbuf' = dbuf
  BY DEF ReadStore
<1> DEFINE St == [dst : Nat \X Nat, buf : 0 .. EpiStages - 1, read : BOOLEAN]  q == stores[g]
           r == [q[i] EXCEPT !.read = TRUE]
<1>2. stores \in [WG -> Seq(St)] /\ out \in SUBSET (Nat \X Nat)
  BY DEF TypeOK
<1>3. q \in Seq(St) /\ Len(q) \in Nat /\ DOMAIN q = 1 .. Len(q) /\ i \in 1 .. Len(q) /\ q[i] \in St
  <2> HIDE DEF St
  <2>1. q \in Seq(St) /\ i \in DOMAIN q
    BY <1>1, <1>2
  <2> HIDE DEF q
  <2> QED BY <2>1
<1>4. r \in St /\ r.dst = q[i].dst /\ r.buf = q[i].buf /\ r.read = TRUE
  <2> DEFINE x == q[i]
  <2>1. x \in St
    BY <1>3
  <2> HIDE DEF x
  <2>2. [x EXCEPT !.read = TRUE] \in St
    BY <2>1
  <2>3. /\ [x EXCEPT !.read = TRUE].dst = x.dst /\ [x EXCEPT !.read = TRUE].buf = x.buf
        /\ [x EXCEPT !.read = TRUE].read = TRUE
    BY <2>1
  <2> QED BY <2>2, <2>3 DEF x
<1>5. stores' = [stores EXCEPT ![g] = [q EXCEPT ![i] = r]]
  BY <1>1
<1> HIDE DEF r, q
<1>6. /\ [q EXCEPT ![i] = r] \in Seq(St) /\ Len([q EXCEPT ![i] = r]) = Len(q)
      /\ [q EXCEPT ![i] = r][i] = r /\ \A j \in 1 .. Len(q) : j # i => [q EXCEPT ![i] = r][j] = q[j]
  BY <1>3, <1>4
<1>7. TypeOK'
  <2>1. stores' \in [WG -> Seq(St)]
    BY <1>2, <1>5, <1>6
  <2>2. q[i].dst \in Nat \X Nat
    BY <1>3
  <2>3. out' \in SUBSET (Nat \X Nat)
    BY <1>1, <1>2, <2>2 DEF q
  <2> QED BY <1>1, <2>1, <2>3, ShapeStays DEF TypeOK, WgState, LoadState, Slot
<1>8. /\ LoadOK' /\ AbOK' /\ TurnOK' /\ SchedOK' /\ COK'
      /\ \A h \in WG : WgOK(h)' /\ EpiOK(h)' /\ (stores'[h] = stores[h] => StoresOK(h)')
  BY <1>1, TmaFrame
<1>9. ASSUME NEW h \in WG PROVE StoresOK(h)'
  <2>1. CASE h # g
    <3>1. stores'[h] = stores[h]
      BY <1>2, <1>5, <2>1
    <3> QED BY <1>8, <3>1
  <2>2. CASE h = g
    <3>1. stores'[g] = [q EXCEPT ![i] = r]
      BY <1>2, <1>5
    <3>2. Len(stores'[g]) = Len(q) /\ \A j \in 1 .. Len(q) :
            /\ stores'[g][j].dst = q[j].dst /\ stores'[g][j].buf = q[j].buf
            /\ ~stores'[g][j].read => ~q[j].read
      BY <1>4, <1>6, <3>1
    <3>3. StoresOK(g)
      BY PlaceFacts
    <3>4. Pass(g)' = Pass(g)
      BY <1>1 DEF Pass
    <3> QED BY <1>1, <2>2, <3>2, <3>3, <3>4 DEF StoresOK, q
  <2> QED BY <2>1, <2>2
<1> QED BY <1>7, <1>8, <1>9 DEF PingpongInv

LEMMA StutterStep ==
  ASSUME TypeOK, PingpongInv, UNCHANGED vars
  PROVE  TypeOK' /\ PingpongInv'
<1>1. /\ shape' = shape /\ load' = load /\ wg' = wg /\ ab' = ab /\ cs' = cs /\ slot' = slot /\ turn' = turn
      /\ dbuf' = dbuf /\ stores' = stores /\ out' = out
  BY DEF vars
<1>2. TypeOK'
  BY <1>1, ShapeStays DEF TypeOK, WgState, LoadState, Slot
<1>3. /\ LoadOK' /\ AbOK' /\ TurnOK' /\ SchedOK' /\ COK'
      /\ \A h \in WG : WgOK(h)' /\ EpiOK(h)' /\ StoresOK(h)'
  BY <1>1, TmaFrame
<1> QED BY <1>2, <1>3 DEF PingpongInv

-----------------------------------------------------------------------------
(* A step of warp group g, which becomes v.                                 *)

LEMMA TypeIntro ==
  ASSUME TypeOK, shape' = shape, load' = load, NEW g \in WG, NEW v \in WgState, wg' = [wg EXCEPT ![g] = v],
         ab' \in [0 .. ABStages - 1 -> Stage], cs' \in [0 .. CStages - 1 -> Stage],
         slot' \in [0 .. SchedStages - 1 -> Slot], turn' \in [{"mma", "epi"} -> [WG -> Nat]],
         dbuf' \in [0 .. EpiStages - 1 -> Content],
         stores' \in [WG -> Seq([dst : Nat \X Nat, buf : 0 .. EpiStages - 1, read : BOOLEAN])], out' = out
  PROVE  TypeOK'
<1>1. wg' \in [WG -> WgState]
  BY DEF TypeOK
<1>2. Tiles' = Tiles
  BY ShapeStays
<1>3. LoadState' = LoadState /\ WgState' = WgState /\ Slot' = Slot
  BY <1>2 DEF LoadState, WgState, Slot
<1> QED BY <1>1, <1>3 DEF TypeOK

LEMMA VFacts ==
  ASSUME TypeOK, NEW v \in WgState
  PROVE  /\ v.pc \in Busy \cup Idle /\ v.tile \in 0 .. Tiles
         /\ v.k \in Nat /\ v.flight \in Nat /\ v.e \in Nat /\ v.executed \in Nat
BY DEF WgState

\* Its places are those of v.
LEMMA PlacesAfter ==
  ASSUME TypeOK, shape' = shape, NEW g \in WG, NEW v \in WgState, wg'[g] = v, NEW t \in Nat \ {0}, t = v.executed + 1
  PROVE  /\ Pass(g)' = t
         /\ Own(g)' = IF Owner(t) = g THEN t ELSE t + 1
         /\ Mul(g)' = IF v.pc \in Behind THEN Own(g)' + 2 ELSE Own(g)'
         /\ AbPos(g)' = Before(t) + (IF v.pc \in Busy THEN v.k ELSE 0)
         /\ v.pc \in {"skip", "take"} => SchedPos(g)' = v.executed - 1
         /\ v.pc \notin {"skip", "take"} => SchedPos(g)' = v.executed
         /\ Freed(g)' = IF v.pc \in Busy THEN v.k - v.flight ELSE 0
         /\ Going(g)' = IF v.pc = "mma" THEN v.k ELSE 0
         /\ v.pc \notin EpiPlace => CLoaded(g)' = 0 /\ CDone(g)' = 0
         /\ CBase(g)' = IF v.pc = "start" THEN 0 ELSE (Own(g)' - 1) * EpiTiles
<1>1. Pass(g)' = t
  BY DEF Pass
<1>2. Own(g)' = IF Owner(t) = g THEN t ELSE t + 1
  BY <1>1 DEF Own, Owner
<1>3. /\ Mul(g)' = IF v.pc \in Behind THEN Own(g)' + 2 ELSE Own(g)'
      /\ CBase(g)' = IF v.pc = "start" THEN 0 ELSE (Own(g)' - 1) * EpiTiles
  BY DEF Mul, CBase
<1>4. AbPos(g)' = Before(t) + (IF v.pc \in Busy THEN v.k ELSE 0)
  <2>1. Before(t)' = Before(t)
    BY ShapeStays
  <2>2. AbPos(g)' = Before(t)' + (IF v.pc \in Busy THEN v.k ELSE 0)
    BY <1>1 DEF AbPos
  <2> QED BY <2>1, <2>2
<1>5. v.executed \in Nat
  BY VFacts
<1>6. /\ v.pc \in {"skip", "take"} => SchedPos(g)' = v.executed - 1
      /\ v.pc \notin {"skip", "take"} => SchedPos(g)' = v.executed
  BY <1>5 DEF SchedPos
<1>7. /\ Freed(g)' = IF v.pc \in Busy THEN v.k - v.flight ELSE 0
      /\ Going(g)' = IF v.pc = "mma" THEN v.k ELSE 0
  BY DEF Freed, Going
<1>8. v.pc \notin EpiPlace => CLoaded(g)' = 0 /\ CDone(g)' = 0
  BY DEF CLoaded, CDone, EpiPlace
<1> QED BY <1>1, <1>2, <1>3, <1>4, <1>6, <1>7, <1>8

LEMMA WgIntro ==
  ASSUME TypeOK, shape' = shape, NEW g \in WG, NEW v \in WgState, wg'[g] = v, NEW t \in Nat \ {0}, t = v.executed + 1,
         NEW a \in Nat, a = AbPos(g)', NEW s \in Nat, s = SchedPos(g)',
         v.pc = "start" => v.executed = 0 /\ v.tile = FirstTile,
         v.pc = "skip" => shape.varlenK /\ Owner(t) # g,
         v.pc \in {"take", "mmaSync"} \cup Busy => Owner(t) = g,
         v.pc \in {"skip", "take"} => v.executed > 0,
         v.pc \in {"mmaSync"} \cup Busy => v.tile = t /\ v.tile # Invalid,
         v.pc \in Busy => v.k <= KTiles(t) /\ v.flight <= v.k,
         v.pc \in Behind => v.k = KTiles(t),
         v.flight > 0 => v.pc \in {"mma", "drain"},
         v.pc = "drain" => v.flight = 1,
         v.ab = At(a, ABStages, 0),
         v.pc \in {"mma", "drain"} => v.rel = At(a - v.flight, ABStages, 0),
         v.sched = At(s, SchedStages, 0),
         s <= Written' + (IF v.pc = "take" /\ ~shape.varlenK THEN 1 ELSE 0)
  PROVE  WgOK(g)'
<1>1. Pass(g)' = t
  BY DEF Pass
<1>2. FirstTile' = FirstTile /\ KTiles(Pass(g))' = KTiles(t)
  <2>1. KTiles(t)' = KTiles(t) /\ FirstTile' = FirstTile
    BY ShapeStays
  <2> QED BY <1>1, <2>1 DEF KTiles, KCount, Tiles
<1>3. Owner(Pass(g))' = Owner(t)
  BY <1>1 DEF Owner
<1> QED BY <1>1, <1>2, <1>3 DEF WgOK, At, Busy, Behind, EpiPlace, Invalid

LEMMA OutsideEpi ==
  ASSUME TypeOK, PingpongInv, NEW g \in WG, wg[g].pc \notin EpiPlace \ {"prefetch"}
  PROVE  /\ Len(stores[g]) = 0 /\ stores[g] = <<>>
         /\ wg[g].pc \notin EpiPlace => CLoaded(g) = 0 /\ CDone(g) = 0
         /\ wg[g].pc \notin EpiPlace /\ CStages > 0 =>
              wg[g].cRead = At(CBase(g), CStages, 0) /\ wg[g].cLoad = At(CBase(g), CStages, 1)
         /\ CBase(g) \in Nat
<1>1. Len(stores[g]) = 0 /\ stores[g] = <<>>
  <2>1. Len(stores[g]) = 0
    BY PlaceFacts DEF StoresOK
  <2>2. stores[g] \in Seq([dst : Nat \X Nat, buf : 0 .. EpiStages - 1, read : BOOLEAN])
    BY DEF TypeOK
  <2> QED BY <2>1, <2>2
<1>2. wg[g].pc \notin EpiPlace => CLoaded(g) = 0 /\ CDone(g) = 0
  BY DEF CLoaded, CDone, EpiPlace
<1>3. CBase(g) \in Nat
  BY OwnFacts, BaseFacts DEF CBase
<1>4. wg[g].pc \notin EpiPlace /\ CStages > 0 =>
        wg[g].cRead = At(CBase(g), CStages, 0) /\ wg[g].cLoad = At(CBase(g), CStages, 1)
  <2>1. CBase(g) + 0 = CBase(g)
    BY <1>3
  <2>2. EpiOK(g)
    BY PlaceFacts
  <2> QED BY <1>2, <2>1, <2>2 DEF EpiOK
<1> QED BY <1>1, <1>2, <1>3, <1>4

\* Outside of the epilogue, before and after.
LEMMA StillOutside ==
  ASSUME TypeOK, PingpongInv, shape' = shape, NEW g \in WG, NEW v \in WgState, wg'[g] = v, NEW t \in Nat \ {0}, t = v.executed + 1,
         wg[g].pc \notin EpiPlace, v.pc \notin EpiPlace, stores' = stores,
         v.cRead = wg[g].cRead, v.cLoad = wg[g].cLoad, CBase(g)' = CBase(g)
  PROVE  /\ EpiOK(g)' /\ StoresOK(g)'
         /\ CLoaded(g)' = CLoaded(g) /\ CDone(g)' = CDone(g)
<1>1. CLoaded(g)' = 0 /\ CDone(g)' = 0
  BY PlacesAfter
<1>2. /\ Len(stores[g]) = 0 /\ CLoaded(g) = 0 /\ CDone(g) = 0 /\ CBase(g) \in Nat
      /\ CStages > 0 => wg[g].cRead = At(CBase(g), CStages, 0) /\ wg[g].cLoad = At(CBase(g), CStages, 1)
  BY OutsideEpi
<1>3. EpiOK(g)'
  <2>1. CBase(g)' + CDone(g)' = CBase(g) /\ CBase(g)' + CLoaded(g)' = CBase(g)
    BY <1>1, <1>2
  <2>2. CStages > 0 => v.cRead = At(CBase(g)' + CDone(g)', CStages, 0) /\ v.cLoad = At(CBase(g)' + CLoaded(g)', CStages, 1)
    BY <1>2, <2>1
  <2> QED BY <2>2 DEF EpiOK, EpiPlace, At
<1>4. StoresOK(g)'
  <2>1. v.e \in Nat /\ EpiStages \in Nat \ {0}
    BY VFacts, SizeFacts
  <2> QED BY <1>2, <2>1 DEF StoresOK
<1> QED BY <1>1, <1>2, <1>3, <1>4

-----------------------------------------------------------------------------
(* A step of a warp group, put together.                                    *)

LEMMA InvIntro ==
  ASSUME TypeOK, PingpongInv, NEW g \in WG, shape' = shape, load' = load, wg'[1 - g] = wg[1 - g],
         WgOK(g)', EpiOK(g)', StoresOK(g)', StoresOK(1 - g)', TurnOK', AbOK', SchedOK', COK'
  PROVE  PingpongInv'
<1>1. LoadOK' /\ WgOK(1 - g)' /\ EpiOK(1 - g)'
  BY Frame
<1>2. 1 - g \in WG /\ \A h \in WG : h = g \/ h = 1 - g
  BY Sides
<1>3. \A h \in WG : WgOK(h)' /\ EpiOK(h)' /\ StoresOK(h)'
  BY <1>1, <1>2
<1> QED BY <1>1, <1>3 DEF PingpongInv

\* A turn is taken or given.
LEMMA TurnTaken ==
  ASSUME TypeOK, PingpongInv, NEW kind \in {"mma", "epi"}, NEW g \in WG, Sync(kind, g)
  PROVE  /\ turn' \in [{"mma", "epi"} -> [WG -> Nat]]
         /\ turn[kind][g] = 1 /\ turn'[kind][g] = 0
         /\ \A i \in {"mma", "epi"}, j \in WG : i # kind \/ j # g => turn'[i][j] = turn[i][j]
<1>1. turn \in [{"mma", "epi"} -> [WG -> Nat]]
  BY DEF TypeOK
<1>2. turn[kind][g] > 0 /\ turn' = [turn EXCEPT ![kind][g] = @ - 1]
  BY DEF Sync
<1>3. turn[kind][g] = 1
  BY <1>2, Order
<1> QED BY <1>1, <1>2, <1>3

LEMMA TurnGiven ==
  ASSUME TypeOK, NEW kind \in {"mma", "epi"}, NEW h \in WG, turn[kind][h] = 0, Arrive(kind, h)
  PROVE  /\ turn' \in [{"mma", "epi"} -> [WG -> Nat]]
         /\ turn'[kind][h] = 1
         /\ \A i \in {"mma", "epi"}, j \in WG : i # kind \/ j # h => turn'[i][j] = turn[i][j]
BY DEF Arrive, TypeOK

LEMMA MmaSyncStep ==
  ASSUME TypeOK, PingpongInv, NEW g \in WG, MmaSync(g)
  PROVE  TypeOK' /\ PingpongInv'
<1> DEFINE old == wg[g]
<1>1. /\ wg[g].pc = "mmaSync" /\ Sync("mma", g)
      /\ wg' = [wg EXCEPT ![g].pc = "mma", ![g].k = 0, ![g].rel = wg[g].ab]
      /\ shape' = shape /\ load' = load /\ ab' = ab /\ cs' = cs /\ slot' = slot
      /\ dbuf' = dbuf /\ stores' = stores /\ out' = out
  BY DEF MmaSync
<1>2. PICK v \in WgState :
         /\ wg' = [wg EXCEPT ![g] = v] /\ v.pc = "mma" /\ v.k = 0 /\ v.rel = wg[g].ab
         /\ v.tile = old.tile /\ v.flight = old.flight /\ v.e = old.e /\ v.executed = old.executed /\ v.ab = old.ab
         /\ v.cRead = old.cRead /\ v.cLoad = old.cLoad /\ v.sched = old.sched
  <2> DEFINE v == [old EXCEPT !.pc = "mma", !.k = 0, !.rel = old.ab]
  <2>1. old \in WgState /\ wg \in [WG -> WgState]
    BY DEF TypeOK
  <2>2. v \in WgState /\ v.pc = "mma" /\ v.k = 0 /\ v.rel = old.ab
         /\ v.tile = old.tile /\ v.flight = old.flight /\ v.e = old.e /\ v.executed = old.executed /\ v.ab = old.ab
         /\ v.cRead = old.cRead /\ v.cLoad = old.cLoad /\ v.sched = old.sched
    BY <2>1 DEF WgState, Busy
  <2>3. wg' = [wg EXCEPT ![g] = v]
    BY <1>1, <2>1 DEF WgState
  <2> QED BY <2>2, <2>3
<1>3. wg'[g] = v /\ wg'[1 - g] = wg[1 - g] /\ 1 - g \in WG
  BY <1>2, Sides DEF TypeOK
<1>4. shape' = shape
  BY <1>1
<1>5. /\ turn' \in [{"mma", "epi"} -> [WG -> Nat]]
      /\ turn["mma"][g] = 1 /\ turn'["mma"][g] = 0
      /\ \A i \in {"mma", "epi"}, j \in WG : i # "mma" \/ j # g => turn'[i][j] = turn[i][j]
  BY <1>1, TurnTaken
<1>6. TypeOK'
  <2>1. /\ ab' \in [0 .. ABStages - 1 -> Stage] /\ cs' \in [0 .. CStages - 1 -> Stage]
        /\ slot' \in [0 .. SchedStages - 1 -> Slot] /\ dbuf' \in [0 .. EpiStages - 1 -> Content]
        /\ stores' \in [WG -> Seq([dst : Nat \X Nat, buf : 0 .. EpiStages - 1, read : BOOLEAN])]
    BY <1>1 DEF TypeOK
  <2> QED BY <1>1, <1>2, <1>5, <2>1, TypeIntro
<1>7. PICK t \in Nat \ {0}, a \in Nat, s \in Nat :
         /\ t = v.executed + 1 /\ t = Pass(g) /\ a = AbPos(g) /\ s = SchedPos(g) /\ a = Before(t)
         /\ Owner(t) = g /\ v.tile = t /\ v.tile # Invalid /\ v.flight = 0 /\ KTiles(t) \in Nat
  <2>1. /\ Pass(g) \in Nat \ {0} /\ Pass(g) = old.executed + 1 /\ AbPos(g) \in Nat /\ SchedPos(g) \in Nat
        /\ Before(Pass(g)) \in Nat
    BY OwnFacts, PlaceFacts
  <2>2. AbPos(g) = Before(Pass(g))
    BY <1>1, <2>1 DEF AbPos, Busy, Behind, EpiPlace
  <2>3. Owner(Pass(g)) = g /\ old.tile = Pass(g) /\ old.tile # Invalid /\ old.flight = 0
    <3>1. WgOK(g) /\ old.flight \in Nat
      BY PlaceFacts, WgFacts
    <3> QED BY <1>1, <3>1 DEF WgOK
  <2>4. KTiles(Pass(g)) \in Nat
    BY <2>1, ShapeFacts DEF TypeOK
  <2> QED BY <1>2, <2>1, <2>2, <2>3, <2>4
<1>8. /\ Own(g)' = Own(g) /\ Mul(g)' = Mul(g) /\ AbPos(g)' = a /\ SchedPos(g)' = s
      /\ Freed(g)' = 0 /\ Going(g)' = 0 /\ CBase(g)' = CBase(g)
  <2>1. v.pc = "mma" /\ v.pc \in Busy /\ v.pc \notin Behind /\ v.k = 0 /\ v.flight = 0 /\ a + 0 = a
    BY <1>2, <1>7 DEF Busy, Behind, EpiPlace
  <2>2. old.pc \notin Behind
    BY <1>1 DEF Behind, EpiPlace
  <2>3. Own(g) = IF Owner(t) = g THEN t ELSE t + 1
    BY <1>7, OwnFacts
  <2>4. s = v.executed
    BY <1>1, <1>2, <1>7, VFacts DEF SchedPos
  <2>5. /\ Own(g)' = (IF Owner(t) = g THEN t ELSE t + 1)
        /\ Mul(g)' = (IF v.pc \in Behind THEN Own(g)' + 2 ELSE Own(g)')
        /\ AbPos(g)' = Before(t) + (IF v.pc \in Busy THEN v.k ELSE 0)
        /\ v.pc \notin {"skip", "take"} => SchedPos(g)' = v.executed
        /\ Freed(g)' = (IF v.pc \in Busy THEN v.k - v.flight ELSE 0)
        /\ Going(g)' = (IF v.pc = "mma" THEN v.k ELSE 0)
        /\ CBase(g)' = IF v.pc = "start" THEN 0 ELSE (Own(g)' - 1) * EpiTiles
    BY <1>3, <1>4, <1>7, PlacesAfter
  <2>6. Mul(g) = Own(g) /\ CBase(g) = (Own(g) - 1) * EpiTiles
    BY <1>1, <2>2 DEF Mul, CBase
  <2>7. Own(g)' = Own(g) /\ Mul(g)' = Own(g)' /\ AbPos(g)' = a /\ SchedPos(g)' = s
    BY <1>7, <2>1, <2>3, <2>4, <2>5
  <2>8. Freed(g)' = 0 /\ Going(g)' = 0
    BY <2>1, <2>5
  <2> QED BY <2>1, <2>5, <2>6, <2>7, <2>8
<1>9. Freed(g) = 0 /\ Going(g) = 0
  BY <1>1 DEF Freed, Going, Busy, Behind, EpiPlace
<1>10. WgOK(g)'
  <2>1. v.ab = At(a, ABStages, 0) /\ v.sched = At(s, SchedStages, 0) /\ s <= Written + 0
    <3>1. WgOK(g)
      BY PlaceFacts
    <3> QED BY <1>1, <1>2, <1>7, <3>1 DEF WgOK
  <2>2. Written' = Written /\ Written \in Nat
    <3>1. Written \in Nat
      BY LoadFacts
    <3> QED BY <1>1, <1>3, <3>1, Frame
  <2>3. v.rel = At(a - v.flight, ABStages, 0)
    BY <1>2, <1>7, <2>1
  <2>4. v.pc = "mma" /\ v.pc \notin Behind /\ v.k <= KTiles(t) /\ v.flight <= v.k
    BY <1>2, <1>7 DEF Behind, EpiPlace
  <2> QED BY <1>1, <1>3, <1>7, <1>8, <2>1, <2>2, <2>3, <2>4, WgIntro
<1>11. /\ StoresOK(1 - g)' /\ EpiOK(g)' /\ StoresOK(g)'
       /\ CLoaded(g)' = CLoaded(g) /\ CDone(g)' = CDone(g)
  <2>1. old.pc \notin EpiPlace /\ v.pc \notin EpiPlace
    BY <1>1, <1>2 DEF EpiPlace
  <2> QED BY <1>1, <1>2, <1>3, <1>7, <1>8, <2>1, Frame, StillOutside
<1>12. AbOK'
  BY <1>1, <1>2, <1>3, <1>8, <1>9, AbFrame
<1>13. SchedOK'
  BY <1>1, <1>3, <1>7, <1>8, SchedFrame
<1>14. COK'
  BY <1>1, <1>3, <1>8, <1>11, CFrame
<1>15. TurnOK'
  <2>1. /\ Own(1 - g)' = Own(1 - g) /\ Mul(1 - g)' = Mul(1 - g) /\ \A h \in WG : h = g \/ h = 1 - g
    BY <1>1, <1>3, PlaceStays, Sides
  <2>2. \A h \in WG : Own(h)' = Own(h) /\ Mul(h)' = Mul(h) /\ 1 - h \in WG
    BY <1>8, <2>1, Sides
  <2>4. \A h \in WG : (HasMma(h)' => HasMma(h)) /\ (HasEpi(h)' => HasEpi(h))
    <3>1. ASSUME NEW h \in WG PROVE (HasMma(h)' => HasMma(h)) /\ (HasEpi(h)' => HasEpi(h))
      <4>1. CASE h = g
        <5>1. HasMma(g) /\ (HasEpi(g)' => HasEpi(g))
          BY <1>1, <1>2, <1>3, <1>5, Sides DEF HasMma, HasEpi, EpiPlace
        <5> QED BY <4>1, <5>1
      <4>2. CASE h # g
        BY <1>3, <1>5, <2>1, <4>2 DEF HasMma, HasEpi
      <4> QED BY <4>1, <4>2
    <3> QED BY <3>1
  <2>5. TurnOK
    BY DEF PingpongInv
  <2>6. \A h \in WG : turn'["mma"][h] <= 1 /\ turn'["epi"][h] <= 1
    BY <1>5, <2>5 DEF TurnOK
  <2>7. \A h \in WG : /\ wg'[h].pc = "mma" => turn'["mma"][h] = 0
                      /\ wg'[h].pc \in EpiPlace => turn'["epi"][h] = 0
                      /\ wg'[h].pc = "start" => wg[h].pc = "start"
    <3>1. ASSUME NEW h \in WG
          PROVE /\ wg'[h].pc = "mma" => turn'["mma"][h] = 0
                /\ wg'[h].pc \in EpiPlace => turn'["epi"][h] = 0
                /\ wg'[h].pc = "start" => wg[h].pc = "start"
      <4>1. CASE h = g
        BY <1>2, <1>3, <1>5, <4>1 DEF EpiPlace
      <4>2. CASE h # g
        BY <1>3, <1>5, <2>1, <2>5, <4>2 DEF TurnOK
      <4> QED BY <4>1, <4>2
    <3> QED BY <3>1
  <2>8. 0 \in WG /\ 1 \in WG
    BY DEF WG
  <2> QED BY <2>2, <2>4, <2>5, <2>6, <2>7, <2>8 DEF TurnOK
<1> QED BY <1>1, <1>3, <1>6, <1>10, <1>11, <1>12, <1>13, <1>14, <1>15, InvIntro

-----------------------------------------------------------------------------
(* Steps of a warp group on a tile of its own.                              *)

LEMMA BusyPlaces ==
  ASSUME TypeOK, PingpongInv, NEW g \in WG, NEW v \in WgState, shape' = shape, wg'[g] = v,
         wg[g].pc \in Busy, v.pc \in Busy, v.executed = wg[g].executed
  PROVE  /\ Own(g)' = Own(g) /\ Own(g) = Pass(g) /\ CBase(g)' = CBase(g) /\ SchedPos(g)' = SchedPos(g)
         /\ CBase(g) = (Own(g) - 1) * EpiTiles
         /\ Mul(g)' = (IF v.pc \in Behind THEN Own(g) + 2 ELSE Own(g))
         /\ AbPos(g)' = Before(Pass(g)) + v.k
         /\ Freed(g)' = v.k - v.flight /\ Freed(g) = wg[g].k - wg[g].flight
         /\ Going(g)' = (IF v.pc = "mma" THEN v.k ELSE 0)
<1> DEFINE old == wg[g]
<1>1. PICK t \in Nat \ {0} : t = v.executed + 1 /\ t = Pass(g) /\ Owner(t) = g /\ Own(g) = t
  <2>1. Pass(g) \in Nat \ {0} /\ Pass(g) = old.executed + 1 /\ Owner(Pass(g)) = g /\ Own(g) = Pass(g)
    BY OwnFacts, PlaceFacts
  <2> QED BY <2>1
<1>2. v.pc \notin {"start", "skip", "take"} /\ old.pc \notin {"start", "skip", "take"}
  BY DEF Busy, Behind, EpiPlace
<1>3. /\ Own(g)' = (IF Owner(t) = g THEN t ELSE t + 1)
      /\ Mul(g)' = (IF v.pc \in Behind THEN Own(g)' + 2 ELSE Own(g)')
      /\ AbPos(g)' = Before(t) + (IF v.pc \in Busy THEN v.k ELSE 0)
      /\ v.pc \notin {"skip", "take"} => SchedPos(g)' = v.executed
      /\ Freed(g)' = (IF v.pc \in Busy THEN v.k - v.flight ELSE 0)
      /\ Going(g)' = (IF v.pc = "mma" THEN v.k ELSE 0)
      /\ CBase(g)' = IF v.pc = "start" THEN 0 ELSE (Own(g)' - 1) * EpiTiles
  BY <1>1, PlacesAfter
<1>4. CBase(g) = (Own(g) - 1) * EpiTiles
  BY <1>2 DEF CBase
<1>5. SchedPos(g) = old.executed
  BY <1>2, WgFacts DEF SchedPos
<1>6. Freed(g) = old.k - old.flight
  BY DEF Freed
<1>7. Own(g)' = Own(g)
  BY <1>1, <1>3
<1>8. /\ CBase(g)' = CBase(g) /\ SchedPos(g)' = SchedPos(g)
      /\ Mul(g)' = (IF v.pc \in Behind THEN Own(g) + 2 ELSE Own(g))
  BY <1>2, <1>3, <1>4, <1>5, <1>7
<1>9. AbPos(g)' = Before(Pass(g)) + v.k /\ Freed(g)' = v.k - v.flight
  BY <1>1, <1>3
<1> QED BY <1>1, <1>3, <1>4, <1>6, <1>7, <1>8, <1>9

LEMMA BusyWg ==
  ASSUME TypeOK, PingpongInv, NEW g \in WG, NEW v \in WgState, shape' = shape, load' = load, wg'[g] = v, wg'[1 - g] = wg[1 - g],
         wg[g].pc \in Busy, v.pc \in Busy, v.executed = wg[g].executed, v.tile = wg[g].tile, v.sched = wg[g].sched,
         v.k <= KTiles(Pass(g)), v.flight <= v.k, v.pc \in Behind => v.k = KTiles(Pass(g)),
         v.flight > 0 => v.pc \in {"mma", "drain"}, v.pc = "drain" => v.flight = 1,
         v.ab = At(Before(Pass(g)) + v.k, ABStages, 0),
         v.pc \in {"mma", "drain"} => v.rel = At((Before(Pass(g)) + v.k) - v.flight, ABStages, 0)
  PROVE  WgOK(g)'
<1> DEFINE old == wg[g]
<1>1. PICK t \in Nat \ {0}, a \in Nat, s \in Nat :
         /\ t = v.executed + 1 /\ t = Pass(g) /\ Owner(t) = g /\ v.tile = t /\ v.tile # Invalid
         /\ a = Before(Pass(g)) + v.k /\ s = SchedPos(g)
         /\ v.ab = At(a, ABStages, 0) /\ v.sched = At(s, SchedStages, 0)
         /\ v.pc \in {"mma", "drain"} => v.rel = At(a - v.flight, ABStages, 0)
  <2>1. /\ Pass(g) \in Nat \ {0} /\ Pass(g) = old.executed + 1 /\ Owner(Pass(g)) = g
        /\ old.tile = Pass(g) /\ Pass(g) \in 1 .. Tiles /\ Before(Pass(g)) \in Nat /\ SchedPos(g) \in Nat
        /\ old.sched = At(SchedPos(g), SchedStages, 0)
    BY OwnFacts, PlaceFacts
  <2>2. v.k \in Nat /\ Before(Pass(g)) + v.k \in Nat
    BY <2>1, VFacts
  <2>3. Pass(g) # Invalid
    BY <2>1 DEF Invalid
  <2> QED BY <2>1, <2>2, <2>3
<1>2. AbPos(g)' = a /\ SchedPos(g)' = s
  BY <1>1, BusyPlaces
<1>3. Written' = Written /\ Written \in Nat
  <2>1. Written \in Nat
    BY LoadFacts
  <2> QED BY <2>1, Frame
<1>4. s <= Written' + 0
  <2>1. SchedPos(g) <= Written + (IF old.pc = "take" /\ ~shape.varlenK THEN 1 ELSE 0)
    BY PlaceFacts DEF WgOK
  <2>2. old.pc # "take"
    BY DEF Busy, Behind, EpiPlace
  <2> QED BY <1>1, <1>3, <2>1, <2>2
<1>5. v.pc \notin {"start", "skip", "take"}
  BY DEF Busy, Behind, EpiPlace
<1>6. v.k <= KTiles(t) /\ (v.pc \in Behind => v.k = KTiles(t))
  BY <1>1
<1> QED BY <1>1, <1>2, <1>3, <1>4, <1>5, <1>6, WgIntro

\* The turns, when a warp group that has one gives or takes it.
LEMMA TurnIntro ==
  ASSUME TypeOK, PingpongInv,
         Mul(1)' = Mul(0)' + 1 \/ Mul(0)' = Mul(1)' + 1, Own(1)' = Own(0)' + 1 \/ Own(0)' = Own(1)' + 1,
         \A h \in WG :
           /\ turn'["mma"][h] \in {0, 1} /\ turn'["epi"][h] \in {0, 1}
           /\ HasMma(h)' => Mul(1 - h)' = Mul(h)' + 1
           /\ HasEpi(h)' => Own(1 - h)' = Own(h)' + 1
           /\ wg'[h].pc = "mma" => turn'["mma"][h] = 0
           /\ wg'[h].pc \in EpiPlace => turn'["epi"][h] = 0,
         wg'[0].pc # "start"
  PROVE  TurnOK'
<1>1. \A h \in WG : turn'["mma"][h] <= 1 /\ turn'["epi"][h] <= 1
  OBVIOUS
<1>2. 0 \in WG
  BY DEF WG
<1> QED BY <1>1, <1>2 DEF TurnOK

\* The other warp group's share of that.
LEMMA OtherTurn ==
  ASSUME TypeOK, PingpongInv, NEW g \in WG, shape' = shape, wg'[1 - g] = wg[1 - g]
  PROVE  /\ Own(1 - g)' = Own(1 - g) /\ Mul(1 - g)' = Mul(1 - g)
         /\ turn'["mma"][1 - g] = turn["mma"][1 - g] => (HasMma(1 - g)' <=> HasMma(1 - g))
         /\ turn'["epi"][1 - g] = turn["epi"][1 - g] => (HasEpi(1 - g)' <=> HasEpi(1 - g))
         /\ wg'[1 - g].pc = "mma" => turn["mma"][1 - g] = 0
         /\ wg'[1 - g].pc \in EpiPlace => turn["epi"][1 - g] = 0
         /\ wg[1 - g].pc = "start" /\ 1 - g = 0 => ~HasMma(g) /\ ~HasEpi(g)
         /\ Own(1) = Own(0) + 1 \/ Own(0) = Own(1) + 1
         /\ Mul(1) = Mul(0) + 1 \/ Mul(0) = Mul(1) + 1
<1>1. 1 - g \in WG
  BY Sides
<1>2. TurnOK
  BY DEF PingpongInv
<1>3. Own(1 - g)' = Own(1 - g) /\ Mul(1 - g)' = Mul(1 - g)
  BY <1>1, PlaceStays
<1>4. /\ turn'["mma"][1 - g] = turn["mma"][1 - g] => (HasMma(1 - g)' <=> HasMma(1 - g))
      /\ turn'["epi"][1 - g] = turn["epi"][1 - g] => (HasEpi(1 - g)' <=> HasEpi(1 - g))
  BY DEF HasMma, HasEpi
<1> QED BY <1>1, <1>2, <1>3, <1>4 DEF TurnOK

LEMMA IssueStep ==
  ASSUME TypeOK, PingpongInv, NEW g \in WG, Issue(g)
  PROVE  TypeOK' /\ PingpongInv'
<1> DEFINE old == wg[g]
<1>1. /\ wg[g].pc = "mma" /\ wg[g].k < KCount(wg[g].tile) /\ wg[g].flight < 2
      /\ Passed(ab[wg[g].ab.index].full, wg[g].ab)
      /\ wg' = [wg EXCEPT ![g].k = @ + 1, ![g].flight = @ + 1, ![g].ab = Advance(@, ABStages)]
      /\ load' = load /\ ab' = ab /\ cs' = cs /\ slot' = slot /\ turn' = turn
      /\ dbuf' = dbuf /\ stores' = stores /\ out' = out
  BY DEF Issue
<1>2. shape' = shape
  BY DEF Issue
<1>3. /\ AbPos(g) \in Nat /\ AbPos(g) = Before(Pass(g)) + old.k /\ old.ab = At(AbPos(g), ABStages, 0)
      /\ Before(Pass(g)) \in Nat /\ old.k \in Nat /\ old.flight \in Nat /\ old.flight <= old.k
      /\ old.rel = At(AbPos(g) - old.flight, ABStages, 0)
  <2>1. AbPos(g) = Before(Pass(g)) + old.k
    BY <1>1 DEF AbPos, Busy
  <2> QED BY <1>1, <2>1, PlaceFacts, WgFacts DEF WgOK, Busy
<1>4. Advance(old.ab, ABStages) = At(AbPos(g) + 1, ABStages, 0) /\ At(AbPos(g) + 1, ABStages, 0) \in PipeState
  <2>1. PICK p \in Nat : p = AbPos(g) /\ p + 1 \in Nat
    BY <1>3
  <2>2. 0 \in {0, 1} /\ ABStages \in Nat \ {0}
    BY SizeFacts
  <2>3. Advance(At(p, ABStages, 0), ABStages) = At(p + 1, ABStages, 0)
    BY <2>2, AdvanceOne
  <2>4. At(p + 1, ABStages, 0) \in PipeState
    BY <2>1, <2>2, AtFacts
  <2> QED BY <1>3, <2>1, <2>3, <2>4
<1>5. PICK v \in WgState :
         /\ wg' = [wg EXCEPT ![g] = v] /\ v.pc = "mma" /\ v.k = old.k + 1 /\ v.flight = old.flight + 1
         /\ v.ab = At(AbPos(g) + 1, ABStages, 0)
         /\ v.tile = old.tile /\ v.e = old.e /\ v.executed = old.executed /\ v.rel = old.rel
         /\ v.cRead = old.cRead /\ v.cLoad = old.cLoad /\ v.sched = old.sched
  <2> DEFINE q == Advance(old.ab, ABStages)  k == old.k + 1  f == old.flight + 1
             v == [old EXCEPT !.k = k, !.flight = f, !.ab = q]
  <2>1. old \in WgState /\ wg \in [WG -> WgState] /\ q \in PipeState /\ k \in Nat /\ f \in Nat
    BY <1>3, <1>4 DEF TypeOK
  <2>3. wg' = [wg EXCEPT ![g] = v]
    BY <1>1, <2>1 DEF WgState
  <2>4. q = At(AbPos(g) + 1, ABStages, 0)
    BY <1>4
  <2> HIDE DEF q, k, f
  <2>2. /\ v \in WgState /\ v.pc = old.pc /\ v.k = k /\ v.flight = f
        /\ v.ab = q
        /\ v.tile = old.tile /\ v.e = old.e /\ v.executed = old.executed /\ v.rel = old.rel
        /\ v.cRead = old.cRead /\ v.cLoad = old.cLoad /\ v.sched = old.sched
    BY <2>1 DEF WgState
  <2> QED BY <1>1, <2>2, <2>3, <2>4 DEF k, f
<1>6. wg'[g] = v /\ wg'[1 - g] = wg[1 - g] /\ 1 - g \in WG
  BY <1>5, Sides DEF TypeOK
<1>7. TypeOK'
  <2>1. /\ ab' \in [0 .. ABStages - 1 -> Stage] /\ cs' \in [0 .. CStages - 1 -> Stage]
        /\ slot' \in [0 .. SchedStages - 1 -> Slot] /\ dbuf' \in [0 .. EpiStages - 1 -> Content]
        /\ stores' \in [WG -> Seq([dst : Nat \X Nat, buf : 0 .. EpiStages - 1, read : BOOLEAN])]
        /\ turn' \in [{"mma", "epi"} -> [WG -> Nat]]
    BY <1>1 DEF TypeOK
  <2> QED BY <1>1, <1>2, <1>5, <2>1, TypeIntro
<1>8. /\ v.pc \in Busy /\ old.pc \in Busy /\ v.pc \notin Behind /\ old.pc \notin Behind
      /\ v.pc \notin EpiPlace /\ old.pc \notin EpiPlace
  BY <1>1, <1>5 DEF Busy, Behind, EpiPlace
<1>9. /\ Own(g)' = Own(g) /\ CBase(g)' = CBase(g) /\ SchedPos(g)' = SchedPos(g)
      /\ Mul(g)' = Mul(g) /\ Freed(g)' = Freed(g) /\ Going(g)' = old.k + 1
  <2>1. /\ Own(g)' = Own(g) /\ CBase(g)' = CBase(g) /\ SchedPos(g)' = SchedPos(g)
        /\ Mul(g)' = (IF v.pc \in Behind THEN Own(g) + 2 ELSE Own(g))
        /\ Freed(g)' = v.k - v.flight /\ Freed(g) = old.k - old.flight
        /\ Going(g)' = (IF v.pc = "mma" THEN v.k ELSE 0)
    BY <1>2, <1>5, <1>6, <1>8, BusyPlaces
  <2>2. Mul(g) = Own(g)
    BY <1>8 DEF Mul
  <2> QED BY <1>3, <1>5, <1>8, <2>1, <2>2
<1>10. WgOK(g)'
  <2>1. old.k < KTiles(Pass(g)) /\ KTiles(Pass(g)) \in Nat
    <3>1. KCount(old.tile) = KTiles(Pass(g)) /\ Pass(g) \in Nat \ {0}
      BY <1>8, PlaceFacts, OwnFacts
    <3>2. KTiles(Pass(g)) \in Nat
      BY <3>1, ShapeFacts DEF TypeOK
    <3> QED BY <1>1, <3>1, <3>2
  <2>2. v.k <= KTiles(Pass(g)) /\ v.flight <= v.k
    BY <1>3, <1>5, <2>1
  <2>3. Before(Pass(g)) + v.k = AbPos(g) + 1 /\ (Before(Pass(g)) + v.k) - v.flight = AbPos(g) - old.flight
    BY <1>3, <1>5
  <2> QED BY <1>1, <1>2, <1>3, <1>5, <1>6, <1>8, <2>2, <2>3, BusyWg
<1>11. /\ StoresOK(1 - g)' /\ EpiOK(g)' /\ StoresOK(g)'
       /\ CLoaded(g)' = CLoaded(g) /\ CDone(g)' = CDone(g)
  <2>1. PICK t \in Nat \ {0} : t = v.executed + 1
    BY VFacts
  <2> QED BY <1>1, <1>2, <1>5, <1>6, <1>8, <1>9, <2>1, Frame, StillOutside
<1>12. SchedOK' /\ COK'
  BY <1>1, <1>2, <1>6, <1>9, <1>11, SchedFrame, CFrame
<1>13. TurnOK'
  BY <1>1, <1>2, <1>5, <1>6, <1>8, <1>9, TurnFrame
<1>14. AbOK'
  <2>1. Loaded' = Loaded /\ Loaded \in Nat
    <3>1. Loaded \in Nat
      BY LoadFacts
    <3> QED BY <1>1, <1>2, <1>6, <3>1, Frame
  <2>2. PICK i \in Nat, m \in Nat :
           /\ i = Issued /\ m = NextMul /\ Owner(m) = g /\ Before(m) + old.k = i /\ m \in Nat \ {0}
    <3>1. NextMul = Pass(g) /\ Issued = Before(Pass(g)) + old.k /\ Issued \in Nat /\ Pass(g) \in Nat \ {0}
      BY <1>1, IssuedFacts, OwnFacts
    <3>2. Owner(Pass(g)) = g
      BY <1>8, PlaceFacts
    <3> QED BY <3>1, <3>2
  <2>3. Issued' = i + 1
    <3>1. Mul(1 - g)' = Mul(1 - g)
      BY <1>2, <1>6, OtherTurn
    <3>2. NextMul' = m
      <4>1. \A h \in WG : Mul(h)' = Mul(h)
        BY <1>9, <3>1, Sides
      <4> QED BY <2>2, <4>1 DEF NextMul, WG
    <3>3. Owner(NextMul') = g /\ NextMul \in Nat /\ NextMul' \in Nat
      BY <2>2, <3>2
    <3>4. Issued' = Before(NextMul') + Going(g)'
      BY <1>2, <3>3, IssuedForm
    <3>5. Before(m) \in Nat
      BY <2>2, BeforeNext DEF TypeOK
    <3> QED BY <1>3, <1>9, <2>2, <3>2, <3>4, <3>5
  <2>4. \A x \in Items : IsFree(x)' <=> IsFree(x)
    <3>1. Freed(1 - g)' = Freed(1 - g)
      BY <1>2, <1>6, PlaceStays
    <3>2. \A h \in WG : Freed(h)' = Freed(h) /\ wg'[h].executed = wg[h].executed
      BY <1>5, <1>6, <1>9, <3>1, Sides
    <3> QED BY <3>2, FreeForm DEF TypeOK
  <2>5. PICK y \in Items : /\ Pos(y) = i /\ ~IsFree(y) /\ i < Loaded /\ i >= Loaded - ABStages
                           /\ StageOK(ab[i % ABStages], y, i \div ABStages, FALSE, TRUE)
    BY <1>1, <2>2, FullFacts
  <2>6. ASSUME NEW x \in Items
        PROVE  /\ Pos(x) < Loaded' - ABStages => IsFree(x)'
               /\ Pos(x) >= Loaded' - ABStages /\ Pos(x) < Loaded' =>
                    StageOK(ab'[Pos(x) % ABStages], x, Pos(x) \div ABStages, IsFree(x)', Pos(x) < Issued')
    <3>1. /\ Pos(x) < Loaded - ABStages => IsFree(x)
          /\ Pos(x) >= Loaded - ABStages /\ Pos(x) < Loaded =>
               StageOK(ab[Pos(x) % ABStages], x, Pos(x) \div ABStages, IsFree(x), Pos(x) < Issued)
      BY <2>6, AbFacts
    <3>2. IsFree(x)' <=> IsFree(x)
      BY <2>4, <2>6
    <3>3. CASE Pos(x) = i
      <4>1. x = y
        BY <2>5, <2>6, <3>3, PosUnique DEF TypeOK
      <4>2. StageOK(ab'[i % ABStages], y, i \div ABStages, IsFree(x)', i < Issued')
        BY <1>1, <2>2, <2>3, <2>5, <3>2, <4>1 DEF StageOK
      <4>3. ~(Pos(x) < Loaded' - ABStages)
        BY <2>1, <2>2, <2>5, <3>3, SizeFacts
      <4> QED BY <3>3, <4>1, <4>2, <4>3
    <3>4. CASE Pos(x) # i
      <4>1. Pos(x) < Issued <=> Pos(x) < Issued'
        <5>1. Pos(x) \in Nat
          BY <2>6, PosFacts DEF TypeOK
        <5> QED BY <2>2, <2>3, <3>4, <5>1
      <4> QED BY <1>1, <2>1, <3>1, <3>2, <4>1 DEF StageOK
    <3> QED BY <3>3, <3>4
  <2>7. Issued' <= Loaded'
    BY <2>1, <2>2, <2>3, <2>5
  <2>8. shape \in Shapes /\ \A s \in 0 .. ABStages - 1 : s >= Loaded' => ab'[s] = EmptyStage
    BY <1>1, <2>1, AbFacts DEF TypeOK
  <2> QED BY <1>2, <2>1, <2>6, <2>7, <2>8, AbIntro
<1> QED BY <1>1, <1>2, <1>6, <1>7, <1>10, <1>11, <1>12, <1>13, <1>14, InvIntro

-----------------------------------------------------------------------------
\* What a step of g has to leave alone when it changes nothing but A/B's ring.
LEMMA OtherTypes ==
  ASSUME TypeOK
  PROVE  /\ ab \in [0 .. ABStages - 1 -> Stage] /\ cs \in [0 .. CStages - 1 -> Stage]
         /\ slot \in [0 .. SchedStages - 1 -> Slot] /\ dbuf \in [0 .. EpiStages - 1 -> Content]
         /\ stores \in [WG -> Seq([dst : Nat \X Nat, buf : 0 .. EpiStages - 1, read : BOOLEAN])]
         /\ turn \in [{"mma", "epi"} -> [WG -> Nat]]
         /\ wg \in [WG -> WgState]
BY DEF TypeOK

LEMMA ReleaseStep ==
  ASSUME TypeOK, PingpongInv, NEW g \in WG, ReleaseOlder(g) \/ Drain(g)
  PROVE  TypeOK' /\ PingpongInv'
<1> DEFINE old == wg[g]
<1>1. /\ (wg[g].pc = "mma" /\ wg[g].flight = 2) \/ wg[g].pc = "drain"
      /\ ab' = [ab EXCEPT ![wg[g].rel.index] = Released(@)]
      /\ wg' = [wg EXCEPT ![g].flight = @ - 1, ![g].rel = Advance(@, ABStages),
                          ![g].pc = IF @ = "drain" THEN "epiSync" ELSE @]
      /\ load' = load /\ cs' = cs /\ slot' = slot /\ turn' = turn
      /\ dbuf' = dbuf /\ stores' = stores /\ out' = out
  BY DEF ReleaseOlder, Drain, ReleaseOldest
<1>2. shape' = shape
  BY DEF ReleaseOlder, Drain, ReleaseOldest
<1>3. /\ AbPos(g) \in Nat /\ AbPos(g) = Before(Pass(g)) + old.k /\ old.ab = At(AbPos(g), ABStages, 0)
      /\ Before(Pass(g)) \in Nat /\ old.k \in Nat /\ old.flight \in Nat /\ old.flight <= old.k
      /\ old.rel = At(AbPos(g) - old.flight, ABStages, 0) /\ old.k <= KTiles(Pass(g))
      /\ old.pc = "drain" => old.flight = 1 /\ old.k = KTiles(Pass(g))
  <2>1. AbPos(g) = Before(Pass(g)) + old.k
    BY <1>1 DEF AbPos, Busy, Behind
  <2> QED BY <1>1, <2>1, PlaceFacts, WgFacts DEF WgOK, Busy, Behind
<1>4. PICK p \in Nat, f \in Nat : p = AbPos(g) - old.flight /\ f = old.flight - 1 /\ old.flight \in {1, 2}
  <2>1. old.flight \in {1, 2}
    BY <1>1, <1>3
  <2>2. old.flight - 1 \in Nat
    BY <2>1
  <2>3. AbPos(g) - old.flight \in Nat
    <3> HIDE DEF old
    <3> QED BY <1>3, <2>1
  <2> QED BY <2>1, <2>2, <2>3
<1>5. /\ old.rel.index = p % ABStages /\ p % ABStages \in 0 .. ABStages - 1
      /\ Advance(old.rel, ABStages) = At(p + 1, ABStages, 0) /\ At(p + 1, ABStages, 0) \in PipeState
  <2>1. 0 \in {0, 1} /\ p + 1 \in Nat /\ ABStages \in Nat \ {0} /\ old.rel = At(p, ABStages, 0)
    BY <1>1, <1>3, <1>4, SizeFacts
  <2> QED BY <2>1, AdvanceOne, AtFacts
<1>6. PICK v \in WgState :
         /\ wg' = [wg EXCEPT ![g] = v] /\ v.pc = (IF old.pc = "drain" THEN "epiSync" ELSE "mma") /\ v.flight = f
         /\ v.rel = At(p + 1, ABStages, 0)
         /\ v.tile = old.tile /\ v.k = old.k /\ v.e = old.e /\ v.executed = old.executed /\ v.ab = old.ab
         /\ v.cRead = old.cRead /\ v.cLoad = old.cLoad /\ v.sched = old.sched
  <2> DEFINE q == Advance(old.rel, ABStages)  n == IF old.pc = "drain" THEN "epiSync" ELSE old.pc
             v == [old EXCEPT !.flight = f, !.rel = q, !.pc = n]
  <2>1. /\ old \in WgState /\ wg \in [WG -> WgState] /\ q \in PipeState
        /\ n \in Busy \cup Idle /\ n = IF old.pc = "drain" THEN "epiSync" ELSE "mma"
    BY <1>1, <1>5 DEF TypeOK, Busy, Behind
  <2>2. wg' = [wg EXCEPT ![g] = v]
    BY <1>1, <1>4, <2>1 DEF WgState
  <2>3. q = At(p + 1, ABStages, 0)
    BY <1>5
  <2> HIDE DEF q, n
  <2>4. /\ v \in WgState /\ v.pc = n /\ v.flight = f /\ v.rel = q
        /\ v.tile = old.tile /\ v.k = old.k /\ v.e = old.e /\ v.executed = old.executed /\ v.ab = old.ab
        /\ v.cRead = old.cRead /\ v.cLoad = old.cLoad /\ v.sched = old.sched
    BY <2>1 DEF WgState
  <2> QED BY <2>1, <2>2, <2>3, <2>4
<1>7. wg'[g] = v /\ wg'[1 - g] = wg[1 - g] /\ 1 - g \in WG
  BY <1>6, Sides DEF TypeOK
<1>8. TypeOK'
  <2>1. ab' \in [0 .. ABStages - 1 -> Stage]
    <3>1. ab[p % ABStages] \in Stage
      BY <1>5, OtherTypes
    <3>2. Released(ab[p % ABStages]) \in Stage
      BY <3>1 DEF Released, Flip, Stage
    <3> QED BY <1>1, <1>5, <3>2, OtherTypes
  <2>2. /\ cs' \in [0 .. CStages - 1 -> Stage]
        /\ slot' \in [0 .. SchedStages - 1 -> Slot] /\ dbuf' \in [0 .. EpiStages - 1 -> Content]
        /\ stores' \in [WG -> Seq([dst : Nat \X Nat, buf : 0 .. EpiStages - 1, read : BOOLEAN])]
        /\ turn' \in [{"mma", "epi"} -> [WG -> Nat]]
    BY <1>1, OtherTypes
  <2> QED BY <1>1, <1>2, <1>6, <2>1, <2>2, TypeIntro
<1>9. /\ v.pc \in Busy /\ old.pc \in Busy /\ (v.pc \in Behind <=> old.pc \in Behind) /\ (v.pc = "mma" <=> old.pc = "mma")
      /\ v.pc \notin EpiPlace /\ old.pc \notin EpiPlace /\ v.pc # "start"
  BY <1>1, <1>6 DEF Busy, Behind, EpiPlace
<1>10. /\ Own(g)' = Own(g) /\ CBase(g)' = CBase(g) /\ SchedPos(g)' = SchedPos(g)
       /\ Mul(g)' = Mul(g) /\ Freed(g)' = Freed(g) + 1 /\ Going(g)' = Going(g)
       /\ Freed(g) = old.k - old.flight
  <2>1. /\ Own(g)' = Own(g) /\ CBase(g)' = CBase(g) /\ SchedPos(g)' = SchedPos(g)
        /\ Mul(g)' = (IF v.pc \in Behind THEN Own(g) + 2 ELSE Own(g))
        /\ Freed(g)' = v.k - v.flight /\ Freed(g) = old.k - old.flight
        /\ Going(g)' = (IF v.pc = "mma" THEN v.k ELSE 0)
    BY <1>2, <1>6, <1>7, <1>9, BusyPlaces
  <2>2. Mul(g) = (IF old.pc \in Behind THEN Own(g) + 2 ELSE Own(g)) /\ Going(g) = (IF old.pc = "mma" THEN old.k ELSE 0)
    BY DEF Mul, Going
  <2>3. Freed(g)' = Freed(g) + 1
    BY <1>3, <1>4, <1>6, <2>1
  <2> QED BY <1>6, <1>9, <2>1, <2>2, <2>3
<1>11. WgOK(g)'
  <2>1. /\ v.k <= KTiles(Pass(g)) /\ v.flight <= v.k /\ (v.pc \in Behind => v.k = KTiles(Pass(g)))
        /\ (v.flight > 0 => v.pc \in {"mma", "drain"}) /\ v.pc # "drain"
    BY <1>1, <1>3, <1>4, <1>6 DEF Behind, EpiPlace
  <2>2. Before(Pass(g)) + v.k = AbPos(g) /\ (Before(Pass(g)) + v.k) - v.flight = p + 1
    BY <1>3, <1>4, <1>6
  <2> QED BY <1>1, <1>2, <1>3, <1>6, <1>7, <1>9, <2>1, <2>2, BusyWg
<1>12. /\ StoresOK(1 - g)' /\ EpiOK(g)' /\ StoresOK(g)'
       /\ CLoaded(g)' = CLoaded(g) /\ CDone(g)' = CDone(g)
  <2>1. PICK t \in Nat \ {0} : t = v.executed + 1
    BY VFacts
  <2> QED BY <1>1, <1>2, <1>6, <1>7, <1>9, <1>10, <2>1, Frame, StillOutside
<1>13. SchedOK' /\ COK'
  BY <1>1, <1>2, <1>7, <1>10, <1>12, SchedFrame, CFrame
<1>14. TurnOK'
  BY <1>1, <1>2, <1>6, <1>7, <1>9, <1>10, TurnFrame
<1>15. AbOK'
  <2> DEFINE m == ABStages
  <2>1. Loaded' = Loaded /\ Loaded \in Nat /\ m \in Nat \ {0} /\ ab \in [0 .. m - 1 -> Stage]
    <3>1. Loaded \in Nat
      BY LoadFacts
    <3> QED BY <1>1, <1>2, <1>7, <3>1, Frame, SizeFacts, OtherTypes
  <2>2. PICK x \in Items :
           /\ x = <<Pass(g), Freed(g)>> /\ Pos(x) = p /\ ~IsFree(x) /\ p < Issued
           /\ p < Loaded /\ p >= Loaded - m
           /\ ab[p % m].data = x /\ ab[p % m].coming = Nothing
           /\ ab[p % m].full = ((p \div m) + 1) % 2 /\ ab[p % m].empty = (p \div m) % 2
    <3>1. 0 \in 0 .. old.flight - 1 /\ old.k - old.flight + 0 = Freed(g) /\ AbPos(g) - old.flight + 0 = p
      BY <1>3, <1>4, <1>10
    <3>2. old.pc \in {"mma", "drain"}
      BY <1>1
    <3>3. LET x == <<Pass(g), wg[g].k - wg[g].flight + 0>>
              i == AbPos(g) - wg[g].flight + 0
          IN  /\ x \in Items /\ Pos(x) = i /\ i \in Nat /\ ~IsFree(x) /\ i < Issued
              /\ i < Loaded /\ i >= Loaded - ABStages
              /\ ab[i % ABStages].data = x /\ ab[i % ABStages].coming = Nothing
              /\ ab[i % ABStages].full = ((i \div ABStages) + 1) % 2
              /\ ab[i % ABStages].empty = (i \div ABStages) % 2
      BY <3>1, <3>2, FlightFacts
    <3> QED BY <3>1, <3>3
  <2>3. Issued' = Issued /\ Issued \in Nat
    <3>1. Mul(1 - g)' = Mul(1 - g) /\ Going(1 - g)' = Going(1 - g)
      BY <1>2, <1>7, PlaceStays
    <3>2. \A h \in WG : Mul(h)' = Mul(h) /\ Going(h)' = Going(h)
      BY <1>10, <3>1, Sides
    <3>3. NextMul' = NextMul
      BY <3>2 DEF NextMul, WG
    <3>4. PICK h \in WG : h = Owner(NextMul)
      BY NextFacts
    <3>5. NextMul \in Nat
      BY NextFacts
    <3>6. Issued' = Before(NextMul') + Going(h)'
      BY <1>2, <3>3, <3>4, <3>5, IssuedForm
    <3>7. Issued = Before(NextMul) + Going(h)
      BY <1>2, <3>3, <3>4, <3>5, IssuedForm
    <3>8. Issued \in Nat
      BY IssuedFacts
    <3> QED BY <3>2, <3>3, <3>6, <3>7, <3>8
  <2>4. ASSUME NEW y \in Items PROVE IsFree(y)' <=> IsFree(y) \/ y = x
    <3>1. PICK h \in WG, r \in Nat :
             /\ h = Owner(y[1]) /\ y[1] \in Nat \ {0} /\ y[2] \in Nat /\ r = Freed(h)
             /\ IsFree(y) <=> y[1] <= wg[h].executed \/ (y[1] = wg[h].executed + 1 /\ y[2] < Freed(h))
             /\ IsFree(y)' <=> y[1] <= wg'[h].executed \/ (y[1] = wg'[h].executed + 1 /\ y[2] < Freed(h)')
      <4>1. \A h \in WG : Freed(h) \in Nat
        <5>1. ASSUME NEW h \in WG PROVE Freed(h) \in Nat
          <6>1. WgOK(h) /\ wg[h].k \in Nat /\ wg[h].flight \in Nat
            BY PlaceFacts, WgFacts
          <6> QED BY <6>1 DEF Freed, WgOK
        <5> QED BY <5>1
      <4> QED BY <2>4, <4>1, FreeForm DEF TypeOK
    <3>2. y = <<y[1], y[2]>>
      BY <2>4, PosFacts DEF TypeOK
    <3>3. CASE h = g
      <4>1. wg'[g].executed = old.executed /\ Pass(g) = old.executed + 1 /\ old.executed \in Nat
        BY <1>6, <1>7, OwnFacts, WgFacts
      <4>2. y = x <=> y[1] = Pass(g) /\ y[2] = r
        BY <2>2, <3>1, <3>2, <3>3
      <4>3. y[2] < r + 1 <=> y[2] < r \/ y[2] = r
        BY <3>1
      <4>4. Freed(h)' = r + 1
        BY <1>10, <3>1, <3>3
      <4> QED BY <3>1, <3>3, <4>1, <4>2, <4>3, <4>4
    <3>4. CASE h # g
      <4>1. h = 1 - g
        BY <3>4, Sides
      <4>2. wg'[h] = wg[h] /\ Freed(h)' = Freed(h)
        BY <1>2, <1>7, <4>1, PlaceStays
      <4>3. y[1] # x[1]
        <5>1. Owner(Pass(g)) = g
          BY <1>9, PlaceFacts
        <5> QED BY <2>2, <3>1, <3>4, <5>1
      <4> QED BY <3>1, <4>2, <4>3
    <3> QED BY <3>3, <3>4
  <2>5. /\ ab'[p % m] = Released(ab[p % m])
        /\ \A i \in 0 .. m - 1 : i # p % m => ab'[i] = ab[i]
    BY <1>1, <1>5, <2>1
  <2>6. StageOK(ab'[p % m], x, p \div m, TRUE, TRUE)
    <3>1. (1 - ((p \div m) % 2)) = ((p \div m) + 1) % 2
      <4>1. p \div m \in Nat
        BY <2>1, DivMod
      <4> QED BY <4>1, Bits
    <3>2. ab[p % m] \in Stage
      BY <1>5, <2>1
    <3>3. /\ Released(ab[p % m]).data = ab[p % m].data /\ Released(ab[p % m]).coming = ab[p % m].coming
          /\ Released(ab[p % m]).full = ab[p % m].full /\ Released(ab[p % m]).empty = 1 - ab[p % m].empty
      BY <3>2 DEF Released, Flip, Stage
    <3> QED BY <2>2, <2>5, <3>1, <3>3 DEF StageOK
  <2>7. ASSUME NEW y \in Items
        PROVE  /\ Pos(y) < Loaded' - m => IsFree(y)'
               /\ Pos(y) >= Loaded' - m /\ Pos(y) < Loaded' =>
                    StageOK(ab'[Pos(y) % m], y, Pos(y) \div m, IsFree(y)', Pos(y) < Issued')
    <3>1. /\ Pos(y) < Loaded - m => IsFree(y)
          /\ Pos(y) >= Loaded - m /\ Pos(y) < Loaded =>
               StageOK(ab[Pos(y) % m], y, Pos(y) \div m, IsFree(y), Pos(y) < Issued)
      BY <2>7, AbFacts
    <3>2. IsFree(y)' <=> IsFree(y) \/ y = x
      BY <2>4, <2>7
    <3>3. CASE y = x
      <4>1. IsFree(x)' /\ (p < Issued')
        BY <2>2, <2>3, <3>2, <3>3
      <4>2. StageOK(ab'[p % m], x, p \div m, IsFree(x)', p < Issued')
        BY <2>6, <4>1 DEF StageOK
      <4> QED BY <2>2, <3>3, <4>1, <4>2
    <3>4. CASE y # x
      <4>1. Pos(y) \in Nat /\ Pos(y) # p
        BY <2>2, <2>7, <3>4, PosFacts, PosUnique DEF TypeOK
      <4>2. ASSUME Pos(y) >= Loaded - m, Pos(y) < Loaded PROVE ab'[Pos(y) % m] = ab[Pos(y) % m]
        <5>1. Pos(y) < p + m /\ p < Pos(y) + m
          BY <2>1, <2>2, <4>1, <4>2
        <5>2. Pos(y) % m # p % m
          BY <2>1, <4>1, <5>1, SameStage
        <5>3. Pos(y) % m \in 0 .. m - 1
          BY <2>1, <4>1, DivMod
        <5> QED BY <2>5, <5>2, <5>3
      <4> QED BY <2>1, <2>3, <3>1, <3>2, <3>4, <4>2 DEF StageOK
    <3> QED BY <3>3, <3>4
  <2>8. ASSUME NEW s \in 0 .. m - 1, s >= Loaded' PROVE ab'[s] = EmptyStage
    <3>1. ab[s] = EmptyStage
      BY <2>1, <2>8, AbFacts
    <3>2. p \in 0 .. m - 1 /\ p # s
      BY <2>1, <2>2, <2>8
    <3>3. s # p % m
      BY <2>1, <3>2, FirstLap
    <3> QED BY <2>5, <3>1, <3>3
  <2>9. Issued' <= Loaded' /\ shape \in Shapes
    BY <2>1, <2>3, AbFacts DEF TypeOK
  <2> HIDE DEF m
  <2>10. \A y \in Items :
           /\ Pos(y) < Loaded' - m => IsFree(y)'
           /\ Pos(y) >= Loaded' - m /\ Pos(y) < Loaded' =>
                StageOK(ab'[Pos(y) % m], y, Pos(y) \div m, IsFree(y)', Pos(y) < Issued')
    BY <2>7
  <2> USE DEF m
  <2> QED BY <1>2, <2>1, <2>8, <2>9, <2>10, AbIntro
<1> QED BY <1>1, <1>2, <1>7, <1>8, <1>11, <1>12, <1>13, <1>14, <1>15, InvIntro

LEMMA HandOverStep ==
  ASSUME TypeOK, PingpongInv, NEW g \in WG, HandOver(g)
  PROVE  TypeOK' /\ PingpongInv'
<1> DEFINE old == wg[g]
<1>1. /\ wg[g].pc = "mma" /\ wg[g].k = KCount(wg[g].tile) /\ wg[g].flight < 2
      /\ Arrive("mma", 1 - g)
      /\ wg' = [wg EXCEPT ![g].pc = IF wg[g].flight = 0 THEN "epiSync" ELSE "drain"]
      /\ load' = load /\ ab' = ab /\ cs' = cs /\ slot' = slot
      /\ dbuf' = dbuf /\ stores' = stores /\ out' = out
  BY DEF HandOver
<1>2. shape' = shape
  BY DEF HandOver
<1>3. /\ AbPos(g) \in Nat /\ AbPos(g) = Before(Pass(g)) + old.k /\ old.ab = At(AbPos(g), ABStages, 0)
      /\ Before(Pass(g)) \in Nat /\ old.k \in Nat /\ old.flight \in Nat /\ old.flight <= old.k
      /\ old.rel = At(AbPos(g) - old.flight, ABStages, 0) /\ old.k = KTiles(Pass(g))
  <2>1. AbPos(g) = Before(Pass(g)) + old.k
    BY <1>1 DEF AbPos, Busy
  <2> QED BY <1>1, <2>1, PlaceFacts, WgFacts DEF WgOK, Busy
<1>4. old.flight \in {0, 1}
  BY <1>1, <1>3
<1>5. PICK v \in WgState :
         /\ wg' = [wg EXCEPT ![g] = v] /\ v.pc = (IF old.flight = 0 THEN "epiSync" ELSE "drain")
         /\ v.tile = old.tile /\ v.k = old.k /\ v.e = old.e /\ v.executed = old.executed /\ v.ab = old.ab
         /\ v.flight = old.flight /\ v.rel = old.rel
         /\ v.cRead = old.cRead /\ v.cLoad = old.cLoad /\ v.sched = old.sched
  <2> DEFINE n == IF old.flight = 0 THEN "epiSync" ELSE "drain"
             v == [old EXCEPT !.pc = n]
  <2>1. old \in WgState /\ wg \in [WG -> WgState] /\ n \in Busy \cup Idle
    BY OtherTypes DEF Busy, Behind
  <2>2. wg' = [wg EXCEPT ![g] = v]
    BY <1>1, <2>1 DEF WgState
  <2> HIDE DEF n
  <2>4. /\ v \in WgState /\ v.pc = n /\ v.flight = old.flight /\ v.rel = old.rel
        /\ v.tile = old.tile /\ v.k = old.k /\ v.e = old.e /\ v.executed = old.executed /\ v.ab = old.ab
        /\ v.cRead = old.cRead /\ v.cLoad = old.cLoad /\ v.sched = old.sched
    BY <2>1 DEF WgState
  <2> QED BY <2>2, <2>4 DEF n
<1>6. wg'[g] = v /\ wg'[1 - g] = wg[1 - g] /\ 1 - g \in WG
  BY <1>5, OtherTypes, Sides
<1>7. /\ v.pc \in Busy /\ old.pc \in Busy /\ v.pc \in Behind /\ old.pc \notin Behind /\ v.pc # "mma"
      /\ v.pc \notin EpiPlace /\ old.pc \notin EpiPlace /\ v.pc # "start"
  BY <1>1, <1>5 DEF Busy, Behind, EpiPlace
<1>8. HasMma(g) /\ ~HasMma(1 - g) /\ turn["mma"][1 - g] = 0 /\ wg[1 - g].pc # "mma" /\ Mul(1 - g) = Mul(g) + 1
  <2>1. HasMma(g) /\ Mul(1 - g) = Mul(g) + 1
    BY <1>1, Order
  <2>2. Mul(g) \in Nat /\ Mul(1 - g) \in Nat
    BY <1>6, OwnFacts
  <2>3. ~HasMma(1 - g)
    <3>1. HasMma(1 - g) => Mul(1 - (1 - g)) = Mul(1 - g) + 1
      BY <1>6, Order
    <3> QED BY <2>1, <2>2, <3>1, Sides
  <2>4. turn["mma"][1 - g] \in {0, 1}
    BY <1>6, Order
  <2> QED BY <2>1, <2>3, <2>4 DEF HasMma
<1>9. /\ turn' \in [{"mma", "epi"} -> [WG -> Nat]]
      /\ turn'["mma"][1 - g] = 1
      /\ \A i \in {"mma", "epi"}, j \in WG : i # "mma" \/ j # 1 - g => turn'[i][j] = turn[i][j]
  BY <1>1, <1>6, <1>8, TurnGiven
<1>10. TypeOK'
  <2>1. /\ ab' \in [0 .. ABStages - 1 -> Stage] /\ cs' \in [0 .. CStages - 1 -> Stage]
        /\ slot' \in [0 .. SchedStages - 1 -> Slot] /\ dbuf' \in [0 .. EpiStages - 1 -> Content]
        /\ stores' \in [WG -> Seq([dst : Nat \X Nat, buf : 0 .. EpiStages - 1, read : BOOLEAN])]
    BY <1>1, OtherTypes
  <2> QED BY <1>1, <1>2, <1>5, <1>9, <2>1, TypeIntro
<1>11. /\ Own(g)' = Own(g) /\ CBase(g)' = CBase(g) /\ SchedPos(g)' = SchedPos(g)
       /\ Mul(g)' = Mul(g) + 2 /\ Freed(g)' = Freed(g) /\ Mul(g) = Pass(g)
  <2>1. /\ Own(g)' = Own(g) /\ CBase(g)' = CBase(g) /\ SchedPos(g)' = SchedPos(g) /\ Own(g) = Pass(g)
        /\ Mul(g)' = (IF v.pc \in Behind THEN Own(g) + 2 ELSE Own(g))
        /\ Freed(g)' = v.k - v.flight /\ Freed(g) = old.k - old.flight
    BY <1>2, <1>5, <1>6, <1>7, BusyPlaces
  <2>2. Mul(g) = Own(g)
    BY <1>7 DEF Mul
  <2> QED BY <1>5, <1>7, <2>1, <2>2
<1>12. WgOK(g)'
  <2>1. /\ v.k <= KTiles(Pass(g)) /\ v.flight <= v.k /\ v.k = KTiles(Pass(g))
        /\ (v.flight > 0 => v.pc \in {"mma", "drain"}) /\ (v.pc = "drain" => v.flight = 1)
    BY <1>3, <1>4, <1>5
  <2>2. /\ v.ab = At(Before(Pass(g)) + v.k, ABStages, 0)
        /\ v.rel = At((Before(Pass(g)) + v.k) - v.flight, ABStages, 0)
    BY <1>3, <1>5
  <2> QED BY <1>1, <1>2, <1>5, <1>6, <1>7, <2>1, <2>2, BusyWg
<1>13. /\ StoresOK(1 - g)' /\ EpiOK(g)' /\ StoresOK(g)'
       /\ CLoaded(g)' = CLoaded(g) /\ CDone(g)' = CDone(g)
  <2>1. PICK t \in Nat \ {0} : t = v.executed + 1
    BY VFacts
  <2> QED BY <1>1, <1>2, <1>5, <1>6, <1>7, <1>11, <2>1, Frame, StillOutside
<1>14. SchedOK' /\ COK'
  BY <1>1, <1>2, <1>6, <1>11, <1>13, SchedFrame, CFrame
<1>15. /\ Mul(1 - g)' = Mul(1 - g) /\ Own(1 - g)' = Own(1 - g) /\ Mul(g)' = Mul(1 - g)' + 1
       /\ Mul(g) \in Nat /\ Mul(1 - g) \in Nat
  <2>1. Mul(g) \in Nat /\ Mul(1 - g) \in Nat
    BY <1>6, OwnFacts
  <2>2. Mul(1 - g)' = Mul(1 - g) /\ Own(1 - g)' = Own(1 - g)
    BY <1>2, <1>6, OtherTurn
  <2> QED BY <1>8, <1>11, <2>1, <2>2
<1>16. TurnOK'
  <2>1. /\ HasMma(1 - g)' /\ ~HasMma(g)' /\ (HasEpi(g)' <=> HasEpi(g)) /\ (HasEpi(1 - g)' <=> HasEpi(1 - g))
    <3>1. turn["mma"][g] = 0 /\ turn'["mma"][g] = 0 /\ turn'["epi"][g] = turn["epi"][g]
      BY <1>1, <1>6, <1>9, Order, Sides
    <3>2. turn'["epi"][1 - g] = turn["epi"][1 - g]
      BY <1>6, <1>9
    <3>3. HasEpi(1 - g)' <=> HasEpi(1 - g)
      BY <1>2, <1>6, <3>2, OtherTurn
    <3> QED BY <1>6, <1>7, <1>9, <3>1, <3>3 DEF HasMma, HasEpi
  <2>2. /\ Mul(1)' = Mul(0)' + 1 \/ Mul(0)' = Mul(1)' + 1
        /\ Own(1)' = Own(0)' + 1 \/ Own(0)' = Own(1)' + 1
    <3>1. \A h \in WG : Own(h)' = Own(h)
      BY <1>11, <1>15, Sides
    <3>2. Own(1)' = Own(0)' + 1 \/ Own(0)' = Own(1)' + 1
      BY <1>2, <1>6, <3>1, OtherTurn DEF WG
    <3>3. g = 0 \/ g = 1
      BY DEF WG
    <3>4. CASE g = 0
      BY <1>15, <3>2, <3>4
    <3>5. CASE g = 1
      BY <1>15, <3>2, <3>5
    <3> QED BY <3>3, <3>4, <3>5
  <2>3. ASSUME NEW h \in WG
        PROVE  /\ turn'["mma"][h] \in {0, 1} /\ turn'["epi"][h] \in {0, 1}
               /\ HasMma(h)' => Mul(1 - h)' = Mul(h)' + 1
               /\ HasEpi(h)' => Own(1 - h)' = Own(h)' + 1
               /\ wg'[h].pc = "mma" => turn'["mma"][h] = 0
               /\ wg'[h].pc \in EpiPlace => turn'["epi"][h] = 0
    <3>1. turn'["epi"][h] = turn["epi"][h] /\ turn["epi"][h] \in {0, 1} /\ turn["mma"][h] \in {0, 1}
      BY <1>9, Order
    <3>2. CASE h = g
      <4>1. HasEpi(g) => Own(1 - g) = Own(g) + 1
        BY Order
      <4>2. turn'["mma"][g] = turn["mma"][g]
        BY <1>9, Sides
      <4> QED BY <1>6, <1>7, <1>11, <1>15, <2>1, <3>1, <3>2, <4>1, <4>2
    <3>3. CASE h = 1 - g
      <4>1. HasEpi(1 - g) => Own(g) = Own(1 - g) + 1
        BY <1>6, Order, Sides
      <4>2. wg[1 - g].pc \in EpiPlace => turn["epi"][1 - g] = 0
        BY <1>6, Order
      <4>3. 1 - h = g
        BY <3>3, Sides
      <4> QED BY <1>6, <1>8, <1>9, <1>11, <1>15, <2>1, <3>1, <3>3, <4>1, <4>2, <4>3
    <3> QED BY <3>2, <3>3, Sides
  <2>4. wg'[0].pc # "start"
    <3>1. CASE g = 0
      BY <1>6, <1>7, <3>1
    <3>2. CASE 1 - g = 0
      BY <1>2, <1>6, <1>8, <3>2, OtherTurn
    <3> QED BY <3>1, <3>2 DEF WG
  <2> QED BY <2>2, <2>3, <2>4, TurnIntro
<1>17. AbOK'
  <2>1. Loaded' = Loaded
    BY <1>1, <1>2, <1>6, Frame
  <2>2. Freed(1 - g)' = Freed(1 - g) /\ Going(1 - g)' = Going(1 - g) /\ Going(1 - g) = 0
    BY <1>2, <1>6, <1>8, PlaceStays DEF Going
  <2>3. ASSUME NEW x \in Items PROVE IsFree(x)' <=> IsFree(x)
    <3>1. \A h \in WG : Freed(h)' = Freed(h) /\ wg'[h].executed = wg[h].executed
      BY <1>5, <1>6, <1>11, <2>2, Sides
    <3> QED BY <3>1, FreeForm DEF TypeOK
  <2>4. Issued' = Issued
    <3>1. NextMul' = Mul(1 - g) /\ NextMul \in Nat
      <4>1. g = 0 \/ g = 1
        BY DEF WG
      <4>2. CASE g = 0
        BY <1>15, <4>2, NextFacts DEF NextMul, SmallerOf
      <4>3. CASE g = 1
        BY <1>15, <4>3, NextFacts DEF NextMul, SmallerOf
      <4> QED BY <4>1, <4>2, <4>3
    <3>2. PICK m \in Nat : m = Mul(1 - g) /\ m = Pass(g) + 1 /\ Owner(m) = 1 - g
      BY <1>6, <1>8, <1>11, <1>15, OwnFacts
    <3>3. Issued' = Before(m) + 0
      <4>1. Issued' = Before(NextMul') + Going(1 - g)'
        BY <1>2, <1>6, <3>1, <3>2, IssuedForm
      <4> QED BY <2>2, <3>1, <3>2, <4>1
    <3>4. Before(m) = Before(Pass(g)) + KTiles(Pass(g)) /\ Before(m) \in Nat
      <4>1. Pass(g) \in Nat \ {0} /\ Pass(g) + 1 \in Nat \ {0}
        BY OwnFacts
      <4> QED BY <3>2, <4>1, BeforeNext DEF TypeOK
    <3>5. Issued = Before(Pass(g)) + old.k
      BY <1>1, IssuedFacts
    <3> QED BY <1>3, <3>3, <3>4, <3>5
  <2> QED BY <1>1, <1>2, <2>1, <2>3, <2>4, AbStays
<1> QED BY <1>1, <1>2, <1>6, <1>10, <1>12, <1>13, <1>14, <1>16, <1>17, InvIntro

-----------------------------------------------------------------------------
(* The epilogue: the rings of A/B and of the scheduler stay as they are.    *)

LEMMA EpiFrame ==
  ASSUME TypeOK, PingpongInv, NEW g \in WG, NEW v \in WgState,
         shape' = shape, load' = load, wg'[g] = v, wg'[1 - g] = wg[1 - g], ab' = ab, slot' = slot,
         wg[g].pc \in {"epiSync"} \cup EpiPlace, v.pc \in EpiPlace,
         v.tile = wg[g].tile, v.k = wg[g].k, v.flight = wg[g].flight, v.executed = wg[g].executed,
         v.ab = wg[g].ab, v.sched = wg[g].sched
  PROVE  /\ WgOK(g)' /\ AbOK' /\ SchedOK'
         /\ Own(g)' = Own(g) /\ Mul(g)' = Mul(g) /\ CBase(g)' = CBase(g) /\ Pass(g)' = Pass(g)
         /\ CBase(g) = (Own(g) - 1) * EpiTiles /\ CBase(g) \in Nat
         /\ turn' = turn /\ wg[g].pc \in EpiPlace => TurnOK'
<1> DEFINE old == wg[g]
<1>1. /\ v.pc \in Busy /\ old.pc \in Busy /\ v.pc \in Behind /\ old.pc \in Behind /\ v.pc # "mma" /\ old.pc # "mma"
      /\ v.pc \notin {"start", "drain"} /\ old.pc \notin {"start", "drain"}
  BY DEF Busy, Behind, EpiPlace
<1>2. /\ AbPos(g) = Before(Pass(g)) + old.k /\ old.ab = At(AbPos(g), ABStages, 0)
      /\ old.flight = 0 /\ old.k = KTiles(Pass(g)) /\ old.k \in Nat
  <2>1. AbPos(g) = Before(Pass(g)) + old.k
    BY <1>1 DEF AbPos
  <2>2. WgOK(g) /\ old.flight \in Nat /\ old.k \in Nat
    BY PlaceFacts, WgFacts
  <2> QED BY <1>1, <2>1, <2>2 DEF WgOK
<1>3. /\ Own(g)' = Own(g) /\ CBase(g)' = CBase(g) /\ SchedPos(g)' = SchedPos(g)
      /\ Mul(g)' = Mul(g) /\ Freed(g)' = Freed(g) /\ Going(g)' = Going(g)
      /\ CBase(g) = (Own(g) - 1) * EpiTiles
  <2>1. /\ Own(g)' = Own(g) /\ CBase(g)' = CBase(g) /\ SchedPos(g)' = SchedPos(g)
        /\ CBase(g) = (Own(g) - 1) * EpiTiles
        /\ Mul(g)' = (IF v.pc \in Behind THEN Own(g) + 2 ELSE Own(g))
        /\ Freed(g)' = v.k - v.flight /\ Freed(g) = old.k - old.flight
        /\ Going(g)' = (IF v.pc = "mma" THEN v.k ELSE 0)
    BY <1>1, BusyPlaces
  <2>2. Mul(g) = Own(g) + 2 /\ Going(g) = 0
    BY <1>1 DEF Mul, Going
  <2> QED BY <1>1, <2>1, <2>2
<1>4. WgOK(g)'
  <2>1. v.k <= KTiles(Pass(g)) /\ v.flight <= v.k /\ v.k = KTiles(Pass(g)) /\ ~(v.flight > 0)
    BY <1>2
  <2>2. v.ab = At(Before(Pass(g)) + v.k, ABStages, 0)
    BY <1>2
  <2> QED BY <1>1, <2>1, <2>2, BusyWg
<1>5. AbOK' /\ SchedOK'
  BY <1>3, AbFrame, SchedFrame
<1>6. Pass(g)' = Pass(g)
  BY DEF Pass
<1>7. CBase(g) \in Nat
  BY <1>3, OwnFacts, BaseFacts
<1>8. ASSUME turn' = turn, old.pc \in EpiPlace PROVE TurnOK'
  BY <1>1, <1>3, <1>8, TurnFrame
<1> QED BY <1>3, <1>4, <1>5, <1>6, <1>7, <1>8

LEMMA EpiSyncStep ==
  ASSUME TypeOK, PingpongInv, NEW g \in WG, EpiSync(g)
  PROVE  TypeOK' /\ PingpongInv'
<1> DEFINE old == wg[g]
<1>1. /\ wg[g].pc = "epiSync" /\ Sync("epi", g)
      /\ wg' = [wg EXCEPT ![g].pc = IF CStages > 0 THEN "prefetch" ELSE SubtilePc, ![g].e = 0]
      /\ load' = load /\ ab' = ab /\ cs' = cs /\ slot' = slot
      /\ dbuf' = dbuf /\ stores' = stores /\ out' = out
  BY DEF EpiSync
<1>2. shape' = shape
  BY DEF EpiSync
<1>3. PICK v \in WgState :
         /\ wg' = [wg EXCEPT ![g] = v] /\ v.pc = (IF CStages > 0 THEN "prefetch" ELSE "acquire") /\ v.e = 0
         /\ v.tile = old.tile /\ v.k = old.k /\ v.executed = old.executed /\ v.ab = old.ab
         /\ v.flight = old.flight /\ v.rel = old.rel
         /\ v.cRead = old.cRead /\ v.cLoad = old.cLoad /\ v.sched = old.sched
  <2> DEFINE n == IF CStages > 0 THEN "prefetch" ELSE SubtilePc
             v == [old EXCEPT !.pc = n, !.e = 0]
  <2>1. /\ old \in WgState /\ wg \in [WG -> WgState] /\ n \in Busy \cup Idle
        /\ n = IF CStages > 0 THEN "prefetch" ELSE "acquire"
    BY OtherTypes DEF Busy, Behind, EpiPlace, SubtilePc
  <2>2. wg' = [wg EXCEPT ![g] = v]
    BY <1>1, <2>1 DEF WgState
  <2> HIDE DEF n
  <2>4. /\ v \in WgState /\ v.pc = n /\ v.e = 0 /\ v.flight = old.flight /\ v.rel = old.rel
        /\ v.tile = old.tile /\ v.k = old.k /\ v.executed = old.executed /\ v.ab = old.ab
        /\ v.cRead = old.cRead /\ v.cLoad = old.cLoad /\ v.sched = old.sched
    BY <2>1 DEF WgState
  <2> QED BY <2>1, <2>2, <2>4
<1>4. wg'[g] = v /\ wg'[1 - g] = wg[1 - g] /\ 1 - g \in WG
  BY <1>3, OtherTypes, Sides
<1>5. /\ turn' \in [{"mma", "epi"} -> [WG -> Nat]]
      /\ turn["epi"][g] = 1 /\ turn'["epi"][g] = 0
      /\ \A i \in {"mma", "epi"}, j \in WG : i # "epi" \/ j # g => turn'[i][j] = turn[i][j]
  BY <1>1, TurnTaken
<1>6. TypeOK'
  <2>1. /\ ab' \in [0 .. ABStages - 1 -> Stage] /\ cs' \in [0 .. CStages - 1 -> Stage]
        /\ slot' \in [0 .. SchedStages - 1 -> Slot] /\ dbuf' \in [0 .. EpiStages - 1 -> Content]
        /\ stores' \in [WG -> Seq([dst : Nat \X Nat, buf : 0 .. EpiStages - 1, read : BOOLEAN])]
    BY <1>1, OtherTypes
  <2> QED BY <1>1, <1>2, <1>3, <1>5, <2>1, TypeIntro
<1>7. /\ v.pc \in EpiPlace /\ old.pc \notin EpiPlace /\ v.pc \in {"prefetch", "acquire"}
      /\ v.pc = "prefetch" <=> CStages > 0
  BY <1>1, <1>3 DEF EpiPlace
<1>8. /\ WgOK(g)' /\ AbOK' /\ SchedOK'
      /\ Own(g)' = Own(g) /\ Mul(g)' = Mul(g) /\ CBase(g)' = CBase(g) /\ CBase(g) \in Nat
  BY <1>1, <1>2, <1>3, <1>4, <1>7, EpiFrame
<1>9. CStages > 0 => CLoaded(g)' = 0 /\ CDone(g)' = 0
  BY <1>3, <1>4, <1>7 DEF CLoaded, CDone
<1>10. /\ Len(stores[g]) = 0 /\ CLoaded(g) = 0 /\ CDone(g) = 0
       /\ CStages > 0 => old.cRead = At(CBase(g), CStages, 0) /\ old.cLoad = At(CBase(g), CStages, 1)
  BY <1>1, <1>7, OutsideEpi
<1>11. EpiOK(g)'
  <2>1. CStages > 0 => v.cRead = At(CBase(g)' + CDone(g)', CStages, 0) /\ v.cLoad = At(CBase(g)' + CLoaded(g)', CStages, 1)
    BY <1>3, <1>8, <1>9, <1>10
  <2>2. 0 < EpiTiles /\ (CStages > 0 => 0 < SmallerOf(EpiTiles, CStages))
    BY SizeFacts DEF SmallerOf
  <2> QED BY <1>3, <1>4, <1>7, <2>1, <2>2 DEF EpiOK, At
<1>12. StoresOK(g)' /\ StoresOK(1 - g)'
  <2>1. StoresOK(1 - g)'
    BY <1>1, <1>2, <1>4, Frame
  <2>2. v.e = 0 /\ Len(stores'[g]) = 0 /\ EpiStages \in Nat \ {0}
    BY <1>1, <1>3, <1>10, SizeFacts
  <2>3. StoresOK(g)'
    BY <1>4, <1>7, <2>2 DEF StoresOK
  <2> QED BY <2>1, <2>3
<1>13. COK'
  <2>1. CASE CStages > 0
    BY <1>1, <1>2, <1>4, <1>8, <1>9, <1>10, <2>1, CFrame
  <2>2. CASE ~(CStages > 0)
    BY <2>2 DEF COK
  <2> QED BY <2>1, <2>2
<1>14. TurnOK'
  <2>1. /\ Own(1 - g)' = Own(1 - g) /\ Mul(1 - g)' = Mul(1 - g) /\ \A h \in WG : h = g \/ h = 1 - g
    BY <1>2, <1>4, PlaceStays, Sides
  <2>2. \A h \in WG : Own(h)' = Own(h) /\ Mul(h)' = Mul(h) /\ 1 - h \in WG
    BY <1>8, <2>1, Sides
  <2>3. wg'[g].pc # "mma" /\ turn'["mma"][g] = turn["mma"][g] /\ old.pc # "mma"
    BY <1>1, <1>4, <1>5, <1>7
  <2>4. \A h \in WG : (HasMma(h)' => HasMma(h)) /\ (HasEpi(h)' => HasEpi(h))
    <3>1. ASSUME NEW h \in WG PROVE (HasMma(h)' => HasMma(h)) /\ (HasEpi(h)' => HasEpi(h))
      <4>1. CASE h = g
        <5>1. HasEpi(g) /\ (HasMma(g)' => HasMma(g))
          BY <1>5, <2>3 DEF HasMma, HasEpi
        <5> QED BY <4>1, <5>1
      <4>2. CASE h # g
        BY <1>4, <1>5, <2>1, <4>2 DEF HasMma, HasEpi
      <4> QED BY <4>1, <4>2
    <3> QED BY <3>1
  <2>5. TurnOK
    BY DEF PingpongInv
  <2>6. \A h \in WG : turn'["mma"][h] <= 1 /\ turn'["epi"][h] <= 1
    BY <1>5, <2>5 DEF TurnOK
  <2>7. \A h \in WG : /\ wg'[h].pc = "mma" => turn'["mma"][h] = 0
                      /\ wg'[h].pc \in EpiPlace => turn'["epi"][h] = 0
                      /\ wg'[h].pc = "start" => wg[h].pc = "start"
    <3>1. ASSUME NEW h \in WG
          PROVE /\ wg'[h].pc = "mma" => turn'["mma"][h] = 0
                /\ wg'[h].pc \in EpiPlace => turn'["epi"][h] = 0
                /\ wg'[h].pc = "start" => wg[h].pc = "start"
      <4>1. CASE h = g
        BY <1>4, <1>5, <1>7, <2>3, <4>1
      <4>2. CASE h # g
        BY <1>4, <1>5, <2>1, <2>5, <4>2 DEF TurnOK
      <4> QED BY <4>1, <4>2
    <3> QED BY <3>1
  <2>8. 0 \in WG /\ 1 \in WG
    BY DEF WG
  <2> QED BY <2>2, <2>4, <2>5, <2>6, <2>7, <2>8 DEF TurnOK
<1> QED BY <1>1, <1>2, <1>4, <1>6, <1>8, <1>11, <1>12, <1>13, <1>14, InvIntro

-----------------------------------------------------------------------------
(* The ring of C.                                                           *)

LEMMA OwnStays ==
  ASSUME TypeOK, PingpongInv, NEW g \in WG, wg[g].pc \in EpiPlace, shape' = shape, wg'[1 - g] = wg[1 - g], Own(g)' = Own(g)
  PROVE  NextOwn' = Own(g) /\ Owner(NextOwn') = g
<1>1. Own(1 - g)' = Own(1 - g)
  BY OtherTurn
<1>2. \A h \in WG : Own(h)' = Own(h)
  BY <1>1, Sides
<1>3. NextOwn' = NextOwn
  BY <1>2 DEF NextOwn, WG
<1>4. NextOwn = Own(g) /\ Owner(NextOwn) = g
  BY CFacts
<1> QED BY <1>3, <1>4

\* The load of an item of C.
LEMMA LoadCRing ==
  ASSUME TypeOK, PingpongInv, NEW g \in WG, wg[g].pc \in {"prefetch", "refill"}, NEW e \in Nat, e = CLoaded(g),
         LoadC(g, e), shape' = shape, wg'[1 - g] = wg[1 - g],
         Own(g)' = Own(g), CLoaded(g)' = CLoaded(g) + 1, CDone(g)' = CDone(g)
  PROVE  COK' /\ cs' \in [0 .. CStages - 1 -> Stage]
<1> DEFINE m == CStages
<1>1. Passed(cs[wg[g].cLoad.index].empty, wg[g].cLoad) /\ cs' = [cs EXCEPT ![wg[g].cLoad.index] = Started(@, <<wg[g].tile, e>>)]
  BY DEF LoadC
<1>2. wg[g].pc \in EpiPlace
  BY DEF EpiPlace
<1>3. PICK p \in Nat, done \in Nat :
         /\ p = CBase(g) + CLoaded(g) /\ done = CBase(g) + CDone(g) /\ m \in Nat \ {0} /\ m > 0
         /\ wg[g].cLoad.index = p % m /\ p % m \in 0 .. m - 1
         /\ cs[p % m].full = (p \div m) % 2 /\ cs[p % m].empty = (p \div m) % 2
         /\ CItem(p) = <<wg[g].tile, e>> /\ CItem(p) \in Content
         /\ CBase(g) = (Own(g) - 1) * EpiTiles
  <2>1. m \in Nat \ {0} /\ m > 0
    BY <1>1, LoadCFacts
  <2>2. CBase(g) + CDone(g) \in Nat
    BY <1>2, <2>1, CFacts
  <2>3. <<wg[g].tile, e>> \in Content
    BY WgFacts DEF Content
  <2> QED BY <1>1, <1>2, <2>1, <2>2, <2>3, LoadCFacts, CFacts
<1>4. /\ \A s \in 0 .. m - 1 : s >= p => cs[s] = EmptyStage
      /\ \A q \in Nat : q < p /\ q >= p - m => StageOK(cs[q % m], CItem(q), q \div m, q < done, q < done)
  BY <1>2, <1>3, CFacts
<1>5. done <= p
  <2>1. CDone(g) <= CLoaded(g) /\ CDone(g) \in Nat /\ CLoaded(g) \in Nat /\ CBase(g) \in Nat
    <3>1. wg[g].e \in Nat
      BY WgFacts
    <3>2. CDone(g) <= CLoaded(g)
      <4>1. CASE wg[g].pc = "prefetch"
        BY <3>1, <4>1 DEF CDone, CLoaded
      <4>2. CASE wg[g].pc = "refill"
        BY <1>3, <3>1, <4>2 DEF CDone, CLoaded
      <4> QED BY <4>1, <4>2
    <3>3. CDone(g) \in Nat /\ CLoaded(g) \in Nat /\ CBase(g) \in Nat
      BY <1>2, CountFacts, CFacts
    <3> QED BY <3>2, <3>3
  <2> QED BY <1>3, <2>1
<1>6. cs \in [0 .. m - 1 -> Stage] /\ cs[p % m] \in Stage
  BY <1>3, OtherTypes
<1> DEFINE new == Started(cs[p % m], CItem(p))
<1>7. /\ new \in Stage /\ new.data = Nothing /\ new.coming = CItem(p)
      /\ new.full = (p \div m) % 2 /\ new.empty = (p \div m) % 2
  <2> DEFINE x == cs[p % m]  c == CItem(p)
  <2>1. x \in Stage /\ c \in Content /\ Nothing \in Content
    BY <1>3, <1>6 DEF Content
  <2> HIDE DEF x, c
  <2>2. /\ Started(x, c) \in Stage /\ Started(x, c).data = Nothing /\ Started(x, c).coming = c
        /\ Started(x, c).full = x.full /\ Started(x, c).empty = x.empty
    BY <2>1 DEF Started, Stage
  <2> QED BY <1>3, <2>2 DEF x, c
<1>8. cs'[p % m] = new /\ \A i \in 0 .. m - 1 : i # p % m => cs'[i] = cs[i]
  BY <1>1, <1>3, <1>6
<1>9. cs' \in [0 .. m - 1 -> Stage]
  BY <1>1, <1>3, <1>6, <1>7
<1> HIDE DEF new
<1>10. ASSUME NEW s \in 0 .. m - 1, s >= p + 1 PROVE cs'[s] = EmptyStage
  <2>1. cs[s] = EmptyStage
    BY <1>4, <1>10
  <2>2. p \in 0 .. m - 1 /\ p # s
    BY <1>3, <1>10
  <2>3. s # p % m
    BY <1>3, <2>2, FirstLap
  <2> QED BY <1>8, <2>1, <2>3
<1>11. ASSUME NEW q \in Nat, q < p + 1, q >= (p + 1) - m
       PROVE  StageOK(cs'[q % m], CItem(q), q \div m, q < done, q < done)
  <2>1. CASE q = p
    <3>1. ~(q < done)
      BY <1>5, <2>1
    <3> QED BY <1>7, <1>8, <2>1, <3>1 DEF StageOK
  <2>2. CASE q # p
    <3>1. q < p /\ q >= p - m /\ p < q + m
      BY <1>3, <1>11, <2>2
    <3>2. q % m # p % m /\ q % m \in 0 .. m - 1
      BY <1>3, <3>1, OwnStage, DivMod
    <3> QED BY <1>4, <1>8, <3>1, <3>2
  <2> QED BY <2>1, <2>2
<1>12. NextOwn' = Own(g) /\ Owner(NextOwn') = g
  BY <1>2, OwnStays
<1>13. (NextOwn' - 1) * EpiTiles + CLoaded(g)' = p + 1 /\ (NextOwn' - 1) * EpiTiles + CDone(g)' = done
  <2>1. CBase(g) \in Nat /\ CLoaded(g) \in Nat
    BY <1>2, CFacts, CountFacts
  <2> QED BY <1>3, <1>12, <2>1
<1>14. p + 1 \in Nat
  OBVIOUS
<1> QED BY <1>9, <1>10, <1>11, <1>12, <1>13, <1>14, CIntro

\* The release of an item of C that is read.
LEMMA ReadCRing ==
  ASSUME TypeOK, PingpongInv, NEW g \in WG, wg[g].pc = "readC", Passed(cs[wg[g].cRead.index].full, wg[g].cRead),
         cs' = [cs EXCEPT ![wg[g].cRead.index] = Released(@)], shape' = shape, wg'[1 - g] = wg[1 - g],
         Own(g)' = Own(g), CLoaded(g)' = CLoaded(g), CDone(g)' = CDone(g) + 1
  PROVE  COK' /\ cs' \in [0 .. CStages - 1 -> Stage]
<1> DEFINE m == CStages
<1>2. wg[g].pc \in EpiPlace
  BY DEF EpiPlace
<1>3. PICK p \in Nat, loaded \in Nat :
         /\ p = CBase(g) + CDone(g) /\ loaded = CBase(g) + CLoaded(g) /\ m \in Nat \ {0} /\ m > 0
         /\ p < loaded /\ p >= loaded - m
         /\ wg[g].cRead.index = p % m /\ p % m \in 0 .. m - 1
         /\ cs[p % m].data = CItem(p) /\ cs[p % m].coming = Nothing
         /\ cs[p % m].full = ((p \div m) + 1) % 2 /\ cs[p % m].empty = (p \div m) % 2
         /\ CBase(g) = (Own(g) - 1) * EpiTiles
  <2>1. m \in Nat \ {0} /\ m > 0
    BY ReadCFacts
  <2>2. CBase(g) + CLoaded(g) \in Nat
    BY <1>2, <2>1, CFacts
  <2>3. CBase(g) = (Own(g) - 1) * EpiTiles
    BY <1>2, CFacts
  <2>4. PICK p \in Nat :
           /\ p = CBase(g) + CDone(g) /\ p < CBase(g) + CLoaded(g) /\ p >= (CBase(g) + CLoaded(g)) - m
           /\ wg[g].cRead.index = p % m /\ p % m \in 0 .. m - 1
           /\ cs[p % m].data = CItem(p) /\ cs[p % m].coming = Nothing
           /\ cs[p % m].full = ((p \div m) + 1) % 2 /\ cs[p % m].empty = (p \div m) % 2
    <3>1. /\ CBase(g) + CDone(g) >= CBase(g) + CLoaded(g) - m
          /\ CBase(g) \in Nat /\ CLoaded(g) \in Nat /\ CDone(g) \in Nat
      BY <1>2, ReadCFacts, CFacts, CountFacts
    <3>2. CBase(g) + CDone(g) >= (CBase(g) + CLoaded(g)) - m
      BY <2>1, <3>1
    <3> QED BY <3>1, <3>2, ReadCFacts
  <2> QED BY <2>1, <2>2, <2>3, <2>4
<1>4. /\ \A s \in 0 .. m - 1 : s >= loaded => cs[s] = EmptyStage
      /\ \A q \in Nat : q < loaded /\ q >= loaded - m => StageOK(cs[q % m], CItem(q), q \div m, q < p, q < p)
  BY <1>2, <1>3, CFacts
<1>6. cs \in [0 .. m - 1 -> Stage] /\ cs[p % m] \in Stage
  BY <1>3, OtherTypes
<1> DEFINE new == Released(cs[p % m])
<1>7. /\ new \in Stage /\ new.data = CItem(p) /\ new.coming = Nothing
      /\ new.full = ((p \div m) + 1) % 2 /\ new.empty = ((p \div m) + 1) % 2
  <2> DEFINE x == cs[p % m]
  <2>1. x \in Stage
    BY <1>6
  <2>2. (1 - ((p \div m) % 2)) = ((p \div m) + 1) % 2
    <3>1. p \div m \in Nat
      BY <1>3, DivMod
    <3> QED BY <3>1, Bits
  <2> HIDE DEF x
  <2>3. /\ Released(x) \in Stage /\ Released(x).data = x.data /\ Released(x).coming = x.coming
        /\ Released(x).full = x.full /\ Released(x).empty = 1 - x.empty
    BY <2>1 DEF Released, Flip, Stage
  <2> QED BY <1>3, <2>2, <2>3 DEF x
<1>8. cs'[p % m] = new /\ \A i \in 0 .. m - 1 : i # p % m => cs'[i] = cs[i]
  BY <1>3, <1>6
<1>9. cs' \in [0 .. m - 1 -> Stage]
  BY <1>3, <1>6, <1>7
<1> HIDE DEF new
<1>10. ASSUME NEW s \in 0 .. m - 1, s >= loaded PROVE cs'[s] = EmptyStage
  <2>1. cs[s] = EmptyStage
    BY <1>4, <1>10
  <2>2. p \in 0 .. m - 1 /\ p # s
    BY <1>3, <1>10
  <2>3. s # p % m
    BY <1>3, <2>2, FirstLap
  <2> QED BY <1>8, <2>1, <2>3
<1>11. ASSUME NEW q \in Nat, q < loaded, q >= loaded - m
       PROVE  StageOK(cs'[q % m], CItem(q), q \div m, q < p + 1, q < p + 1)
  <2>1. CASE q = p
    <3>1. q < p + 1
      BY <2>1
    <3> QED BY <1>7, <1>8, <2>1, <3>1 DEF StageOK
  <2>2. CASE q # p
    <3>1. q < p + m /\ p < q + m
      BY <1>3, <1>11
    <3>2. q % m # p % m /\ q % m \in 0 .. m - 1
      BY <1>3, <2>2, <3>1, SameStage, DivMod
    <3>3. q < p + 1 <=> q < p
      BY <2>2
    <3> QED BY <1>4, <1>8, <1>11, <3>2, <3>3 DEF StageOK
  <2> QED BY <2>1, <2>2
<1>12. NextOwn' = Own(g) /\ Owner(NextOwn') = g
  BY <1>2, OwnStays
<1>13. (NextOwn' - 1) * EpiTiles + CLoaded(g)' = loaded /\ (NextOwn' - 1) * EpiTiles + CDone(g)' = p + 1
  <2>1. CBase(g) \in Nat /\ CDone(g) \in Nat
    BY <1>2, CFacts, CountFacts
  <2> QED BY <1>3, <1>12, <2>1
<1>14. p + 1 \in Nat
  OBVIOUS
<1> QED BY <1>9, <1>10, <1>11, <1>12, <1>13, <1>14, CIntro

\* The stores, while they are left alone.
LEMMA StoresStay ==
  ASSUME TypeOK, PingpongInv, NEW g \in WG, NEW v \in WgState, wg'[g] = v, stores' = stores, dbuf' = dbuf,
         v.e = wg[g].e, v.executed = wg[g].executed, v.pc \in EpiPlace \ {"prefetch", "write"}
  PROVE  StoresOK(g)'
<1>1. StoresOK(g)
  BY PlaceFacts
<1>2. Len(stores[g]) <= EpiStages /\ v.pc # "write" /\ EpiStages \in Nat
  <2>1. Len(stores[g]) \in Nat /\ EpiStages \in Nat
    BY OtherTypes, SizeFacts
  <2> QED BY <1>1, <2>1 DEF StoresOK
<1>3. Pass(g)' = Pass(g)
  BY DEF Pass
<1> QED BY <1>1, <1>2, <1>3 DEF StoresOK

LEMMA AdvanceCAt ==
  ASSUME CStages \in Nat, CStages > 0, NEW p \in Nat, NEW b \in {0, 1}, NEW s, s = At(p, CStages, b)
  PROVE  AdvanceC(s, 1) = At(p + 1, CStages, b) /\ At(p + 1, CStages, b) \in PipeState
<1>1. 1 \in Nat /\ p + 1 \in Nat /\ CStages \in Nat \ {0} /\ CStages # 0
  OBVIOUS
<1>2. Advance(At(p, CStages, b), CStages) = At(p + 1, CStages, b)
  BY <1>1, AdvanceOne
<1>3. At(p + 1, CStages, b) \in PipeState
  BY <1>1, AtFacts
<1> QED BY <1>1, <1>2, <1>3 DEF AdvanceC, Advance

LEMMA PrefetchStep ==
  ASSUME TypeOK, PingpongInv, NEW g \in WG, Prefetch(g)
  PROVE  TypeOK' /\ PingpongInv'
<1> DEFINE old == wg[g]
<1>1. /\ wg[g].pc = "prefetch" /\ LoadC(g, wg[g].e)
      /\ wg' = [wg EXCEPT ![g].cLoad = AdvanceC(@, 1),
                          ![g].e = IF wg[g].e + 1 = SmallerOf(EpiTiles, CStages) THEN 0 ELSE @ + 1,
                          ![g].pc = IF wg[g].e + 1 = SmallerOf(EpiTiles, CStages) THEN SubtilePc ELSE @]
      /\ load' = load /\ ab' = ab /\ slot' = slot /\ turn' = turn
      /\ dbuf' = dbuf /\ stores' = stores /\ out' = out
  BY DEF Prefetch
<1>2. shape' = shape
  BY DEF Prefetch
<1>3. PICK p \in Nat, m \in Nat \ {0}, last \in BOOLEAN, e \in Nat, c \in PipeState :
         /\ m = CStages /\ p = CBase(g) + CLoaded(g) /\ CLoaded(g) = old.e /\ CDone(g) = 0
         /\ last = (old.e + 1 = SmallerOf(EpiTiles, CStages)) /\ e = (IF last THEN 0 ELSE old.e + 1)
         /\ old.e < SmallerOf(EpiTiles, CStages) /\ old.e \in Nat
         /\ c = AdvanceC(old.cLoad, 1) /\ c = At(p + 1, m, 1) /\ CBase(g) \in Nat
         /\ old.cRead = At(CBase(g), m, 0)
  <2>1. CStages \in Nat /\ CStages > 0 /\ CStages # 0 /\ old.e < SmallerOf(EpiTiles, CStages) /\ old.e \in Nat
    BY <1>1, PlaceFacts, SizeFacts, WgFacts DEF EpiOK
  <2>2. CLoaded(g) = old.e /\ CDone(g) = 0
    BY <1>1 DEF CLoaded, CDone
  <2>3. CBase(g) \in Nat /\ old.cRead = At(CBase(g) + 0, CStages, 0) /\ old.cLoad = At(CBase(g) + old.e, CStages, 1)
    BY <1>1, <2>1, <2>2, CFacts DEF EpiPlace
  <2>4. PICK p \in Nat : p = CBase(g) + old.e
    BY <2>1, <2>3
  <2>5. AdvanceC(old.cLoad, 1) = At(p + 1, CStages, 1) /\ At(p + 1, CStages, 1) \in PipeState
    <3>1. 1 \in {0, 1} /\ old.cLoad = At(p, CStages, 1)
      BY <2>2, <2>3, <2>4
    <3> QED BY <2>1, <3>1, AdvanceCAt
  <2>6. CBase(g) + 0 = CBase(g)
    BY <2>3
  <2>7. (IF old.e + 1 = SmallerOf(EpiTiles, CStages) THEN 0 ELSE old.e + 1) \in Nat
    BY <2>1
  <2> QED BY <2>1, <2>2, <2>3, <2>4, <2>5, <2>6, <2>7
<1>4. PICK v \in WgState :
         /\ wg' = [wg EXCEPT ![g] = v] /\ v.pc = (IF last THEN "readC" ELSE "prefetch") /\ v.e = e /\ v.cLoad = c
         /\ v.tile = old.tile /\ v.k = old.k /\ v.executed = old.executed /\ v.ab = old.ab
         /\ v.flight = old.flight /\ v.rel = old.rel /\ v.cRead = old.cRead /\ v.sched = old.sched
  <2> DEFINE n == IF last THEN SubtilePc ELSE old.pc
             v == [old EXCEPT !.cLoad = c, !.e = e, !.pc = n]
  <2>1. /\ old \in WgState /\ wg \in [WG -> WgState] /\ n \in Busy \cup Idle
        /\ n = IF last THEN "readC" ELSE "prefetch"
    BY <1>1, <1>3, OtherTypes DEF Busy, Behind, EpiPlace, SubtilePc
  <2>2. wg' = [wg EXCEPT ![g] = v]
    BY <1>1, <1>3, <2>1 DEF WgState
  <2> HIDE DEF n
  <2>4. /\ v \in WgState /\ v.pc = n /\ v.e = e /\ v.flight = old.flight /\ v.rel = old.rel
        /\ v.tile = old.tile /\ v.k = old.k /\ v.executed = old.executed /\ v.ab = old.ab
        /\ v.cRead = old.cRead /\ v.cLoad = c /\ v.sched = old.sched
    BY <2>1 DEF WgState
  <2> QED BY <2>1, <2>2, <2>4
<1>5. wg'[g] = v /\ wg'[1 - g] = wg[1 - g] /\ 1 - g \in WG
  BY <1>4, OtherTypes, Sides
<1>6. v.pc \in EpiPlace /\ old.pc \in EpiPlace /\ v.pc \in {"readC", "prefetch"}
  BY <1>1, <1>4 DEF EpiPlace
<1>7. /\ WgOK(g)' /\ AbOK' /\ SchedOK' /\ TurnOK'
      /\ Own(g)' = Own(g) /\ CBase(g)' = CBase(g)
  BY <1>1, <1>2, <1>4, <1>5, <1>6, EpiFrame
<1>8. CLoaded(g)' = CLoaded(g) + 1 /\ CDone(g)' = CDone(g)
  <2>1. CASE last
    <3>1. CLoaded(g)' = SmallerOf(EpiTiles, 0 + CStages) /\ CDone(g)' = 0
      BY <1>3, <1>4, <1>5, <2>1 DEF CLoaded, CDone
    <3>2. 0 + CStages = CStages
      BY <1>3
    <3> QED BY <1>3, <2>1, <3>1, <3>2
  <2>2. CASE ~last
    BY <1>3, <1>4, <1>5, <2>2 DEF CLoaded, CDone
  <2> QED BY <2>1, <2>2
<1>9. COK' /\ cs' \in [0 .. CStages - 1 -> Stage]
  BY <1>1, <1>2, <1>3, <1>5, <1>7, <1>8, LoadCRing
<1>10. TypeOK'
  <2>1. /\ ab' \in [0 .. ABStages - 1 -> Stage]
        /\ slot' \in [0 .. SchedStages - 1 -> Slot] /\ dbuf' \in [0 .. EpiStages - 1 -> Content]
        /\ stores' \in [WG -> Seq([dst : Nat \X Nat, buf : 0 .. EpiStages - 1, read : BOOLEAN])]
        /\ turn' \in [{"mma", "epi"} -> [WG -> Nat]]
    BY <1>1, OtherTypes
  <2> QED BY <1>1, <1>2, <1>4, <1>9, <2>1, TypeIntro
<1>11. EpiOK(g)'
  <2>1. v.cRead = At(CBase(g)' + CDone(g)', CStages, 0) /\ v.cLoad = At(CBase(g)' + CLoaded(g)', CStages, 1)
    <3>1. CBase(g)' + CDone(g)' = CBase(g) /\ CBase(g)' + CLoaded(g)' = p + 1
      BY <1>3, <1>7, <1>8
    <3> QED BY <1>3, <1>4, <3>1
  <2>2. /\ CStages > 0 /\ (v.pc = "prefetch" => v.e < SmallerOf(EpiTiles, CStages))
        /\ (v.pc = "readC" => v.e < EpiTiles)
    <3>1. SmallerOf(EpiTiles, CStages) \in Nat /\ 0 < EpiTiles
      BY <1>3, SizeFacts DEF SmallerOf
    <3>2. CASE last
      BY <1>3, <1>4, <3>1, <3>2
    <3>3. CASE ~last
      <4>1. old.e + 1 # SmallerOf(EpiTiles, CStages) /\ v.e = old.e + 1 /\ v.pc = "prefetch"
        BY <1>3, <1>4, <3>3
      <4>2. v.e < SmallerOf(EpiTiles, CStages)
        BY <1>3, <3>1, <4>1
      <4> QED BY <1>3, <4>1, <4>2
    <3> QED BY <3>2, <3>3
  <2> QED BY <1>5, <1>6, <2>1, <2>2 DEF EpiOK, At
<1>12. StoresOK(g)' /\ StoresOK(1 - g)'
  <2>1. StoresOK(1 - g)'
    BY <1>1, <1>2, <1>5, Frame
  <2>2. Len(stores[g]) = 0
    BY <1>1, OutsideEpi
  <2>3. v.e \in Nat /\ Len(stores'[g]) = 0 /\ EpiStages \in Nat \ {0}
    BY <1>1, <1>3, <1>4, <2>2, SizeFacts
  <2>4. StoresOK(g)'
    BY <1>5, <1>6, <2>3 DEF StoresOK
  <2> QED BY <2>1, <2>4
<1> QED BY <1>1, <1>2, <1>5, <1>7, <1>9, <1>10, <1>11, <1>12, InvIntro

LEMMA ReadCStep ==
  ASSUME TypeOK, PingpongInv, NEW g \in WG, ReadC(g)
  PROVE  TypeOK' /\ PingpongInv'
<1> DEFINE old == wg[g]
<1>1. /\ wg[g].pc = "readC" /\ Passed(cs[wg[g].cRead.index].full, wg[g].cRead)
      /\ cs' = [cs EXCEPT ![wg[g].cRead.index] = Released(@)]
      /\ wg' = [wg EXCEPT ![g].cRead = AdvanceC(@, 1),
                          ![g].pc = IF wg[g].e + CStages < EpiTiles THEN "refill" ELSE "acquire"]
      /\ load' = load /\ ab' = ab /\ slot' = slot /\ turn' = turn
      /\ dbuf' = dbuf /\ stores' = stores /\ out' = out
  BY DEF ReadC
<1>2. shape' = shape
  BY DEF ReadC
<1>3. PICK p \in Nat, m \in Nat \ {0}, e \in Nat, c \in PipeState :
         /\ m = CStages /\ p = CBase(g) + CDone(g) /\ CLoaded(g) = SmallerOf(EpiTiles, e + m) /\ CDone(g) = e
         /\ e = old.e /\ e < EpiTiles /\ EpiTiles \in Nat
         /\ c = AdvanceC(old.cRead, 1) /\ c = At(p + 1, m, 0) /\ CBase(g) \in Nat
         /\ old.cLoad = At(CBase(g) + CLoaded(g), m, 1)
  <2>1. CStages \in Nat /\ CStages > 0 /\ CStages # 0 /\ old.e < EpiTiles /\ old.e \in Nat /\ EpiTiles \in Nat
    BY <1>1, PlaceFacts, SizeFacts, WgFacts DEF EpiOK
  <2>2. CLoaded(g) = SmallerOf(EpiTiles, old.e + CStages) /\ CDone(g) = old.e
    BY <1>1 DEF CLoaded, CDone
  <2>3. /\ CBase(g) \in Nat /\ old.cRead = At(CBase(g) + old.e, CStages, 0)
        /\ old.cLoad = At(CBase(g) + CLoaded(g), CStages, 1)
    BY <1>1, <2>1, <2>2, CFacts DEF EpiPlace
  <2>4. PICK p \in Nat : p = CBase(g) + old.e
    BY <2>1, <2>3
  <2>5. AdvanceC(old.cRead, 1) = At(p + 1, CStages, 0) /\ At(p + 1, CStages, 0) \in PipeState
    <3>1. 0 \in {0, 1} /\ old.cRead = At(p, CStages, 0)
      BY <2>2, <2>3, <2>4
    <3> QED BY <2>1, <3>1, AdvanceCAt
  <2> QED BY <2>1, <2>2, <2>3, <2>4, <2>5
<1>4. PICK v \in WgState :
         /\ wg' = [wg EXCEPT ![g] = v] /\ v.pc = (IF e + m < EpiTiles THEN "refill" ELSE "acquire") /\ v.cRead = c
         /\ v.tile = old.tile /\ v.k = old.k /\ v.e = old.e /\ v.executed = old.executed /\ v.ab = old.ab
         /\ v.flight = old.flight /\ v.rel = old.rel /\ v.cLoad = old.cLoad /\ v.sched = old.sched
  <2> DEFINE n == IF e + m < EpiTiles THEN "refill" ELSE "acquire"
             v == [old EXCEPT !.cRead = c, !.pc = n]
  <2>1. old \in WgState /\ wg \in [WG -> WgState] /\ n \in Busy \cup Idle
    BY OtherTypes DEF Busy, Behind, EpiPlace
  <2>2. wg' = [wg EXCEPT ![g] = v]
    BY <1>1, <1>3, <2>1 DEF WgState
  <2> HIDE DEF n
  <2>4. /\ v \in WgState /\ v.pc = n /\ v.e = old.e /\ v.flight = old.flight /\ v.rel = old.rel
        /\ v.tile = old.tile /\ v.k = old.k /\ v.executed = old.executed /\ v.ab = old.ab
        /\ v.cRead = c /\ v.cLoad = old.cLoad /\ v.sched = old.sched
    BY <2>1 DEF WgState
  <2> QED BY <2>2, <2>4 DEF n
<1>5. wg'[g] = v /\ wg'[1 - g] = wg[1 - g] /\ 1 - g \in WG
  BY <1>4, OtherTypes, Sides
<1>6. v.pc \in EpiPlace /\ old.pc \in EpiPlace /\ v.pc \in {"refill", "acquire"}
  BY <1>1, <1>4 DEF EpiPlace
<1>7. /\ WgOK(g)' /\ AbOK' /\ SchedOK' /\ TurnOK'
      /\ Own(g)' = Own(g) /\ CBase(g)' = CBase(g)
  BY <1>1, <1>2, <1>4, <1>5, <1>6, EpiFrame
<1>8. CLoaded(g)' = CLoaded(g) /\ CDone(g)' = CDone(g) + 1
  <2>1. CDone(g)' = e + 1
    BY <1>3, <1>4, <1>5, <1>6 DEF CDone
  <2>2. CASE e + m < EpiTiles
    <3>1. CLoaded(g)' = e + m
      BY <1>3, <1>4, <1>5, <2>2 DEF CLoaded
    <3> QED BY <1>3, <2>1, <2>2, <3>1 DEF SmallerOf
  <2>3. CASE ~(e + m < EpiTiles)
    <3>1. CLoaded(g)' = SmallerOf(EpiTiles, e + 1 + m)
      BY <1>3, <1>4, <1>5, <2>3 DEF CLoaded
    <3> QED BY <1>3, <2>1, <2>3, <3>1 DEF SmallerOf
  <2> QED BY <2>2, <2>3
<1>9. COK' /\ cs' \in [0 .. CStages - 1 -> Stage]
  BY <1>1, <1>2, <1>5, <1>7, <1>8, ReadCRing
<1>10. TypeOK'
  <2>1. /\ ab' \in [0 .. ABStages - 1 -> Stage]
        /\ slot' \in [0 .. SchedStages - 1 -> Slot] /\ dbuf' \in [0 .. EpiStages - 1 -> Content]
        /\ stores' \in [WG -> Seq([dst : Nat \X Nat, buf : 0 .. EpiStages - 1, read : BOOLEAN])]
        /\ turn' \in [{"mma", "epi"} -> [WG -> Nat]]
    BY <1>1, OtherTypes
  <2> QED BY <1>1, <1>2, <1>4, <1>9, <2>1, TypeIntro
<1>11. EpiOK(g)'
  <2>1. v.cRead = At(CBase(g)' + CDone(g)', CStages, 0) /\ v.cLoad = At(CBase(g)' + CLoaded(g)', CStages, 1)
    <3>1. CBase(g)' + CDone(g)' = p + 1 /\ CBase(g)' + CLoaded(g)' = CBase(g) + CLoaded(g)
      BY <1>3, <1>7, <1>8
    <3> QED BY <1>3, <1>4, <3>1
  <2>2. CStages > 0 /\ v.e < EpiTiles /\ (v.pc = "refill" => v.e + CStages < EpiTiles)
    BY <1>3, <1>4
  <2> QED BY <1>5, <1>6, <2>1, <2>2 DEF EpiOK, At
<1>12. StoresOK(g)' /\ StoresOK(1 - g)'
  <2>1. StoresOK(1 - g)'
    BY <1>1, <1>2, <1>5, Frame
  <2>2. v.pc \in EpiPlace \ {"prefetch", "write"}
    BY <1>6 DEF EpiPlace
  <2>3. StoresOK(g)'
    BY <1>1, <1>4, <1>5, <2>2, StoresStay
  <2> QED BY <2>1, <2>3
<1> QED BY <1>1, <1>2, <1>5, <1>7, <1>9, <1>10, <1>11, <1>12, InvIntro

LEMMA RefillStep ==
  ASSUME TypeOK, PingpongInv, NEW g \in WG, Refill(g)
  PROVE  TypeOK' /\ PingpongInv'
<1> DEFINE old == wg[g]
<1>1. /\ wg[g].pc = "refill" /\ LoadC(g, wg[g].e + CStages)
      /\ wg' = [wg EXCEPT ![g].cLoad = AdvanceC(@, 1), ![g].pc = "acquire"]
      /\ load' = load /\ ab' = ab /\ slot' = slot /\ turn' = turn
      /\ dbuf' = dbuf /\ stores' = stores /\ out' = out
  BY DEF Refill
<1>2. shape' = shape
  BY DEF Refill
<1>3. PICK p \in Nat, m \in Nat \ {0}, e \in Nat, n \in Nat, c \in PipeState :
         /\ m = CStages /\ p = CBase(g) + CLoaded(g) /\ CLoaded(g) = n /\ CDone(g) = e + 1 /\ n = e + m
         /\ e = old.e /\ e + m < EpiTiles /\ EpiTiles \in Nat
         /\ c = AdvanceC(old.cLoad, 1) /\ c = At(p + 1, m, 1) /\ CBase(g) \in Nat
         /\ old.cRead = At(CBase(g) + CDone(g), m, 0)
  <2>1. CStages \in Nat /\ CStages > 0 /\ CStages # 0 /\ old.e + CStages < EpiTiles /\ old.e \in Nat /\ EpiTiles \in Nat
    BY <1>1, PlaceFacts, SizeFacts, WgFacts DEF EpiOK
  <2>2. CLoaded(g) = old.e + CStages /\ CDone(g) = old.e + 1 /\ old.e + CStages \in Nat
    BY <1>1, <2>1 DEF CLoaded, CDone
  <2>3. /\ CBase(g) \in Nat /\ old.cRead = At(CBase(g) + CDone(g), CStages, 0)
        /\ old.cLoad = At(CBase(g) + CLoaded(g), CStages, 1)
    BY <1>1, <2>1, CFacts DEF EpiPlace
  <2>4. PICK p \in Nat : p = CBase(g) + CLoaded(g)
    BY <2>1, <2>2, <2>3
  <2>5. AdvanceC(old.cLoad, 1) = At(p + 1, CStages, 1) /\ At(p + 1, CStages, 1) \in PipeState
    <3>1. 1 \in {0, 1} /\ old.cLoad = At(p, CStages, 1)
      BY <2>2, <2>3, <2>4
    <3> QED BY <2>1, <3>1, AdvanceCAt
  <2> QED BY <2>1, <2>2, <2>3, <2>4, <2>5
<1>4. PICK v \in WgState :
         /\ wg' = [wg EXCEPT ![g] = v] /\ v.pc = "acquire" /\ v.cLoad = c
         /\ v.tile = old.tile /\ v.k = old.k /\ v.e = old.e /\ v.executed = old.executed /\ v.ab = old.ab
         /\ v.flight = old.flight /\ v.rel = old.rel /\ v.cRead = old.cRead /\ v.sched = old.sched
  <2> DEFINE v == [old EXCEPT !.cLoad = c, !.pc = "acquire"]
  <2>1. old \in WgState /\ wg \in [WG -> WgState] /\ "acquire" \in Busy \cup Idle
    BY OtherTypes DEF Busy, Behind, EpiPlace
  <2>2. wg' = [wg EXCEPT ![g] = v]
    BY <1>1, <1>3, <2>1 DEF WgState
  <2>4. /\ v \in WgState /\ v.pc = "acquire" /\ v.e = old.e /\ v.flight = old.flight /\ v.rel = old.rel
        /\ v.tile = old.tile /\ v.k = old.k /\ v.executed = old.executed /\ v.ab = old.ab
        /\ v.cLoad = c /\ v.cRead = old.cRead /\ v.sched = old.sched
    BY <2>1 DEF WgState
  <2> QED BY <2>2, <2>4
<1>5. wg'[g] = v /\ wg'[1 - g] = wg[1 - g] /\ 1 - g \in WG
  BY <1>4, OtherTypes, Sides
<1>6. v.pc \in EpiPlace /\ old.pc \in EpiPlace /\ v.pc \in EpiPlace \ {"prefetch", "write"}
  BY <1>1, <1>4 DEF EpiPlace
<1>7. /\ WgOK(g)' /\ AbOK' /\ SchedOK' /\ TurnOK'
      /\ Own(g)' = Own(g) /\ CBase(g)' = CBase(g)
  BY <1>1, <1>2, <1>4, <1>5, <1>6, EpiFrame
<1>8. CLoaded(g)' = CLoaded(g) + 1 /\ CDone(g)' = CDone(g)
  <2>1. CDone(g)' = e + 1 /\ CLoaded(g)' = SmallerOf(EpiTiles, e + 1 + m)
    BY <1>3, <1>4, <1>5 DEF CDone, CLoaded
  <2> QED BY <1>3, <2>1 DEF SmallerOf
<1>9. COK' /\ cs' \in [0 .. CStages - 1 -> Stage]
  <2>1. LoadC(g, n)
    BY <1>1, <1>3
  <2> QED BY <1>1, <1>2, <1>3, <1>5, <1>7, <1>8, <2>1, LoadCRing
<1>10. TypeOK'
  <2>1. /\ ab' \in [0 .. ABStages - 1 -> Stage]
        /\ slot' \in [0 .. SchedStages - 1 -> Slot] /\ dbuf' \in [0 .. EpiStages - 1 -> Content]
        /\ stores' \in [WG -> Seq([dst : Nat \X Nat, buf : 0 .. EpiStages - 1, read : BOOLEAN])]
        /\ turn' \in [{"mma", "epi"} -> [WG -> Nat]]
    BY <1>1, OtherTypes
  <2> QED BY <1>1, <1>2, <1>4, <1>9, <2>1, TypeIntro
<1>11. EpiOK(g)'
  <2>1. v.cRead = At(CBase(g)' + CDone(g)', CStages, 0) /\ v.cLoad = At(CBase(g)' + CLoaded(g)', CStages, 1)
    <3>1. CBase(g)' + CDone(g)' = CBase(g) + CDone(g) /\ CBase(g)' + CLoaded(g)' = p + 1
      BY <1>3, <1>7, <1>8
    <3> QED BY <1>3, <1>4, <3>1
  <2>2. CStages > 0 /\ v.e < EpiTiles
    BY <1>3, <1>4
  <2> QED BY <1>4, <1>5, <2>1, <2>2 DEF EpiOK, At
<1>12. StoresOK(g)' /\ StoresOK(1 - g)'
  <2>1. StoresOK(1 - g)'
    BY <1>1, <1>2, <1>5, Frame
  <2>3. StoresOK(g)'
    BY <1>1, <1>4, <1>5, <1>6, StoresStay
  <2> QED BY <2>1, <2>3
<1> QED BY <1>1, <1>2, <1>5, <1>7, <1>9, <1>10, <1>11, <1>12, InvIntro

-----------------------------------------------------------------------------
(* The stores of D.                                                         *)

BulkStore == [dst : Nat \X Nat, buf : 0 .. EpiStages - 1, read : BOOLEAN]

LEMMA StoreTypes ==
  ASSUME TypeOK
  PROVE  /\ stores \in [WG -> Seq(BulkStore)]
         /\ \A g \in WG : Len(stores[g]) \in Nat
<1>1. stores \in [WG -> Seq(BulkStore)]
  BY OtherTypes DEF BulkStore
<1> QED BY <1>1

LEMMA LastOnesFacts ==
  ASSUME TypeOK, NEW g \in WG, NEW n \in Nat
  PROVE  \E k \in Nat :
           /\ k <= n /\ k <= Len(stores[g]) /\ Len(LastOnes(g, n)) = k /\ LastOnes(g, n) \in Seq(BulkStore)
           /\ \A i \in 1 .. k : LastOnes(g, n)[i] = stores[g][(Len(stores[g]) - k) + i]
<1> DEFINE q == stores[g]  w == Len(q)  k == SmallerOf(n, w)
<1>1. q \in Seq(BulkStore) /\ w \in Nat
  BY StoreTypes
<1>2. k \in Nat /\ k <= n /\ k <= w
  BY <1>1 DEF SmallerOf
<1>3. LastOnes(g, n) = SubSeq(q, (w - k) + 1, w)
  BY DEF LastOnes
<1> HIDE DEF q, w, k
<1>4. PICK m \in Nat : m = (w - k) + 1 /\ m \in 1 .. w + 1 /\ w \in m - 1 .. w /\ (w - m) + 1 = k
  BY <1>1, <1>2
<1>5. /\ SubSeq(q, m, w) \in Seq(BulkStore) /\ Len(SubSeq(q, m, w)) = k
      /\ \A i \in 1 .. k : SubSeq(q, m, w)[i] = q[(w - k) + i]
  <2>1. w = Len(q)
    BY DEF w
  <2>2. \A i \in m .. w : q[i] \in BulkStore
    BY <1>1, <1>4, <2>1
  <2>3. /\ SubSeq(q, m, w) \in Seq(BulkStore)
        /\ Len(SubSeq(q, m, w)) = IF m <= w THEN w - m + 1 ELSE 0
        /\ \A i \in 1 .. w - m + 1 : SubSeq(q, m, w)[i] = q[m + i - 1]
    BY <1>1, <1>4, <2>2, SubSeqProperties
  <2>4. \A i \in 1 .. k : m + i - 1 = (w - k) + i
    BY <1>1, <1>2, <1>4
  <2> QED BY <1>1, <1>2, <1>4, <2>3, <2>4
<1> QED BY <1>2, <1>3, <1>4, <1>5 DEF q, w

LEMMA AcquireDStep ==
  ASSUME TypeOK, PingpongInv, NEW g \in WG, AcquireD(g)
  PROVE  TypeOK' /\ PingpongInv'
<1> DEFINE old == wg[g]
<1>1. /\ wg[g].pc = "acquire" /\ stores' = [stores EXCEPT ![g] = LastOnes(g, EpiStages - 1)]
      /\ wg' = [wg EXCEPT ![g].pc = "write"]
      /\ load' = load /\ ab' = ab /\ cs' = cs /\ slot' = slot /\ turn' = turn
      /\ dbuf' = dbuf /\ out' = out
  BY DEF AcquireD, WaitStores
<1>2. shape' = shape
  BY DEF AcquireD
<1>3. PICK v \in WgState :
         /\ wg' = [wg EXCEPT ![g] = v] /\ v.pc = "write"
         /\ v.tile = old.tile /\ v.k = old.k /\ v.e = old.e /\ v.executed = old.executed /\ v.ab = old.ab
         /\ v.flight = old.flight /\ v.rel = old.rel /\ v.cRead = old.cRead /\ v.cLoad = old.cLoad /\ v.sched = old.sched
  <2> DEFINE v == [old EXCEPT !.pc = "write"]
  <2>1. old \in WgState /\ wg \in [WG -> WgState] /\ "write" \in Busy \cup Idle
    BY OtherTypes DEF Busy, Behind, EpiPlace
  <2>2. wg' = [wg EXCEPT ![g] = v]
    BY <1>1, <2>1 DEF WgState
  <2>4. /\ v \in WgState /\ v.pc = "write" /\ v.e = old.e /\ v.flight = old.flight /\ v.rel = old.rel
        /\ v.tile = old.tile /\ v.k = old.k /\ v.executed = old.executed /\ v.ab = old.ab
        /\ v.cLoad = old.cLoad /\ v.cRead = old.cRead /\ v.sched = old.sched
    BY <2>1 DEF WgState
  <2> QED BY <2>2, <2>4
<1>4. wg'[g] = v /\ wg'[1 - g] = wg[1 - g] /\ 1 - g \in WG
  BY <1>3, OtherTypes, Sides
<1>5. v.pc \in EpiPlace /\ old.pc \in EpiPlace
  BY <1>1, <1>3 DEF EpiPlace
<1>6. /\ WgOK(g)' /\ AbOK' /\ SchedOK' /\ TurnOK'
      /\ Own(g)' = Own(g) /\ CBase(g)' = CBase(g) /\ Pass(g)' = Pass(g)
  BY <1>1, <1>2, <1>3, <1>4, <1>5, EpiFrame
<1>7. CLoaded(g)' = CLoaded(g) /\ CDone(g)' = CDone(g)
  BY <1>1, <1>3, <1>4 DEF CLoaded, CDone
<1>8. COK'
  BY <1>1, <1>2, <1>4, <1>6, <1>7, CFrame
<1>9. EpiOK(g)'
  <2>1. EpiOK(g)
    BY PlaceFacts
  <2> QED BY <1>1, <1>3, <1>4, <1>6, <1>7, <2>1 DEF EpiOK, At
<1>10. EpiStages - 1 \in Nat /\ EpiStages \in Nat
  BY SizeFacts
<1>11. PICK n \in Nat, k \in Nat :
          /\ n = Len(stores[g]) /\ k <= EpiStages - 1 /\ k <= n /\ Len(stores'[g]) = k /\ stores'[g] \in Seq(BulkStore)
          /\ stores' \in [WG -> Seq(BulkStore)] /\ stores'[1 - g] = stores[1 - g]
          /\ \A i \in 1 .. k : stores'[g][i] = stores[g][(n - k) + i]
  <2>1. PICK r \in Seq(BulkStore), n \in Nat, k \in Nat :
           /\ r = LastOnes(g, EpiStages - 1) /\ n = Len(stores[g]) /\ k <= EpiStages - 1 /\ k <= n /\ Len(r) = k
           /\ \A i \in 1 .. k : r[i] = stores[g][(n - k) + i]
    <3>1. PICK m \in Nat : m = EpiStages - 1
      BY <1>10
    <3>2. PICK k \in Nat :
             /\ k <= m /\ k <= Len(stores[g]) /\ Len(LastOnes(g, m)) = k /\ LastOnes(g, m) \in Seq(BulkStore)
             /\ \A i \in 1 .. k : LastOnes(g, m)[i] = stores[g][(Len(stores[g]) - k) + i]
      BY LastOnesFacts
    <3>3. Len(stores[g]) \in Nat
      BY StoreTypes
    <3> QED BY <3>1, <3>2, <3>3
  <2>2. stores' = [stores EXCEPT ![g] = r]
    BY <1>1, <2>1
  <2>3. stores'[g] = r /\ stores'[1 - g] = stores[1 - g] /\ stores' \in [WG -> Seq(BulkStore)]
    BY <1>4, <2>1, <2>2, StoreTypes, Sides
  <2>4. \A i \in 1 .. k : stores'[g][i] = stores[g][(n - k) + i]
    BY <2>1, <2>3
  <2> QED BY <2>1, <2>3, <2>4
<1>12. TypeOK'
  <2>1. /\ ab' \in [0 .. ABStages - 1 -> Stage] /\ cs' \in [0 .. CStages - 1 -> Stage]
        /\ slot' \in [0 .. SchedStages - 1 -> Slot] /\ dbuf' \in [0 .. EpiStages - 1 -> Content]
        /\ turn' \in [{"mma", "epi"} -> [WG -> Nat]]
    BY <1>1, OtherTypes
  <2>2. stores' \in [WG -> Seq([dst : Nat \X Nat, buf : 0 .. EpiStages - 1, read : BOOLEAN])]
    BY <1>11 DEF BulkStore
  <2> QED BY <1>1, <1>2, <1>3, <2>1, <2>2, TypeIntro
<1>13. StoresOK(1 - g)'
  BY <1>1, <1>2, <1>4, <1>11, Frame
<1>14. StoresOK(g)'
  <2>1. StoresOK(g) /\ old.e \in Nat /\ old.executed \in Nat /\ EpiTiles \in Nat
    BY PlaceFacts, WgFacts, SizeFacts
  <2>2. PICK b \in Nat : b = old.executed * EpiTiles
    BY <2>1
  <2>3. /\ n <= old.e
        /\ \A j \in 1 .. n :
             /\ stores[g][j].dst = <<Pass(g), old.e - n + j - 1>>
             /\ stores[g][j].buf = (b + old.e - n + j - 1) % EpiStages
             /\ ~stores[g][j].read => dbuf[stores[g][j].buf] = stores[g][j].dst
    BY <1>11, <2>1, <2>2 DEF StoresOK
  <2>4. ASSUME NEW i \in 1 .. k
        PROVE  /\ stores'[g][i].dst = <<Pass(g), v.e - k + i - 1>>
               /\ stores'[g][i].buf = (b + v.e - k + i - 1) % EpiStages
               /\ ~stores'[g][i].read => dbuf'[stores'[g][i].buf] = stores'[g][i].dst
    <3>3. (n - k) + i \in 1 .. n
      <4>1. k <= n /\ i \in 1 .. k
        BY <1>11, <2>4
      <4> QED BY <4>1
    <3>1. PICK j \in 1 .. n : j = (n - k) + i /\ stores'[g][i] = stores[g][j]
      BY <1>11, <2>4, <3>3
    <3>2. old.e - n + j - 1 = v.e - k + i - 1 /\ b + old.e - n + j - 1 = b + v.e - k + i - 1
      <4>1. v.e = old.e /\ old.e \in Int /\ b \in Int /\ j = (n - k) + i /\ n \in Int /\ k \in Int /\ i \in Int
        BY <1>3, <2>1, <2>4, <3>1
      <4> HIDE DEF old
      <4> QED BY <4>1
    <3> QED BY <1>1, <2>3, <3>1, <3>2
  <2>5. k <= v.e /\ k <= EpiStages - 1
    BY <1>3, <1>11, <2>1, <2>3
  <2>6. b = v.executed * EpiTiles
    BY <1>3, <2>2
  <2> QED BY <1>3, <1>4, <1>5, <1>6, <1>10, <1>11, <2>4, <2>5, <2>6 DEF StoresOK
<1> QED BY <1>1, <1>2, <1>4, <1>6, <1>8, <1>9, <1>12, <1>13, <1>14, InvIntro

LEMMA WriteDStep ==
  ASSUME TypeOK, PingpongInv, NEW g \in WG, WriteD(g)
  PROVE  TypeOK' /\ PingpongInv'
<1> DEFINE old == wg[g]
<1>1. /\ wg[g].pc = "write" /\ dbuf' = [dbuf EXCEPT ![EpiBuffer(g)] = Subtile(g)]
      /\ stores' = [stores EXCEPT ![g] = Append(@, [dst |-> Subtile(g), buf |-> EpiBuffer(g), read |-> FALSE])]
      /\ wg' = [wg EXCEPT ![g].e = @ + 1, ![g].pc = IF wg[g].e + 1 = EpiTiles THEN "storeTail" ELSE SubtilePc]
      /\ load' = load /\ ab' = ab /\ cs' = cs /\ slot' = slot /\ turn' = turn /\ out' = out
  BY DEF WriteD
<1>2. shape' = shape
  BY DEF WriteD
<1>3. PICK e \in Nat : e = old.e /\ e < EpiTiles /\ EpiTiles \in Nat /\ CStages \in Nat
  BY <1>1, PlaceFacts, WgFacts, SizeFacts DEF EpiOK
<1>4. PICK v \in WgState :
         /\ wg' = [wg EXCEPT ![g] = v] /\ v.e = e + 1
         /\ v.pc = (IF e + 1 = EpiTiles THEN "storeTail" ELSE IF CStages > 0 THEN "readC" ELSE "acquire")
         /\ v.tile = old.tile /\ v.k = old.k /\ v.executed = old.executed /\ v.ab = old.ab
         /\ v.flight = old.flight /\ v.rel = old.rel /\ v.cRead = old.cRead /\ v.cLoad = old.cLoad /\ v.sched = old.sched
  <2> DEFINE n == IF e + 1 = EpiTiles THEN "storeTail" ELSE SubtilePc  f == e + 1
             v == [old EXCEPT !.e = f, !.pc = n]
  <2>1. /\ old \in WgState /\ wg \in [WG -> WgState] /\ n \in Busy \cup Idle /\ f \in Nat
        /\ n = IF e + 1 = EpiTiles THEN "storeTail" ELSE IF CStages > 0 THEN "readC" ELSE "acquire"
    BY OtherTypes DEF Busy, Behind, EpiPlace, SubtilePc
  <2>2. wg' = [wg EXCEPT ![g] = v]
    BY <1>1, <1>3, <2>1 DEF WgState
  <2> HIDE DEF n, f
  <2>4. /\ v \in WgState /\ v.pc = n /\ v.e = f /\ v.flight = old.flight /\ v.rel = old.rel
        /\ v.tile = old.tile /\ v.k = old.k /\ v.executed = old.executed /\ v.ab = old.ab
        /\ v.cLoad = old.cLoad /\ v.cRead = old.cRead /\ v.sched = old.sched
    BY <2>1 DEF WgState
  <2> QED BY <2>1, <2>2, <2>4 DEF f
<1>5. wg'[g] = v /\ wg'[1 - g] = wg[1 - g] /\ 1 - g \in WG
  BY <1>4, OtherTypes, Sides
<1>6. v.pc \in EpiPlace /\ old.pc \in EpiPlace /\ v.pc \in {"storeTail", "readC", "acquire"}
  BY <1>1, <1>4 DEF EpiPlace
<1>7. /\ WgOK(g)' /\ AbOK' /\ SchedOK' /\ TurnOK'
      /\ Own(g)' = Own(g) /\ CBase(g)' = CBase(g) /\ Pass(g)' = Pass(g)
  BY <1>1, <1>2, <1>4, <1>5, <1>6, EpiFrame
<1>8. CStages > 0 => CLoaded(g)' = CLoaded(g) /\ CDone(g)' = CDone(g)
  <2>1. CLoaded(g) = SmallerOf(EpiTiles, e + 1 + CStages) /\ CDone(g) = e + 1
    BY <1>1, <1>3 DEF CLoaded, CDone
  <2>2. ASSUME CStages > 0 PROVE CLoaded(g)' = SmallerOf(EpiTiles, e + 1 + CStages) /\ CDone(g)' = e + 1
    <3>1. v.pc \in {"storeTail", "readC"}
      BY <1>4, <2>2
    <3> QED BY <1>4, <1>5, <3>1 DEF CLoaded, CDone
  <2> QED BY <2>1, <2>2
<1>9. COK'
  <2>1. CASE CStages > 0
    BY <1>1, <1>2, <1>5, <1>7, <1>8, <2>1, CFrame
  <2>2. CASE ~(CStages > 0)
    BY <2>2 DEF COK
  <2> QED BY <2>1, <2>2
<1>10. EpiOK(g)'
  <2>1. EpiOK(g)
    BY PlaceFacts
  <2>2. /\ v.pc = "readC" => CStages > 0
        /\ v.pc \in {"readC", "acquire"} => v.e < EpiTiles
        /\ v.pc = "storeTail" => v.e = EpiTiles
    BY <1>3, <1>4
  <2>3. CStages > 0 => v.cRead = At(CBase(g)' + CDone(g)', CStages, 0) /\ v.cLoad = At(CBase(g)' + CLoaded(g)', CStages, 1)
    BY <1>4, <1>7, <1>8, <2>1 DEF EpiOK
  <2> QED BY <1>5, <1>6, <2>2, <2>3 DEF EpiOK, At
<1>11. PICK b \in Nat, t \in Nat, m \in Nat \ {0} :
          /\ b = old.executed * EpiTiles /\ m = EpiStages /\ t = Pass(g) /\ old.tile = t
          /\ EpiBuffer(g) = (b + e) % m /\ (b + e) % m \in 0 .. m - 1 /\ Subtile(g) = <<t, e>>
  <2>1. old.executed \in Nat /\ EpiTiles \in Nat /\ EpiStages \in Nat \ {0} /\ Pass(g) \in Nat /\ old.tile = Pass(g)
    BY <1>6, WgFacts, SizeFacts, OwnFacts, CFacts
  <2>2. PICK b \in Nat : b = old.executed * EpiTiles
    BY <2>1
  <2>3. EpiBuffer(g) = (b + e) % EpiStages /\ Subtile(g) = <<Pass(g), e>>
    BY <1>3, <2>1, <2>2 DEF EpiBuffer, Subtile
  <2>4. (b + e) % EpiStages \in 0 .. EpiStages - 1
    <3>1. b + e \in Nat
      OBVIOUS
    <3> QED BY <2>1, <3>1, DivMod
  <2> QED BY <2>1, <2>2, <2>3, <2>4
<1>12. PICK x \in BulkStore : /\ x.dst = <<t, e>> /\ x.buf = (b + e) % m /\ x.read = FALSE
                              /\ stores' = [stores EXCEPT ![g] = Append(stores[g], x)]
  <2> DEFINE x == [dst |-> <<t, e>>, buf |-> (b + e) % m, read |-> FALSE]
  <2>1. x \in BulkStore /\ x.dst = <<t, e>> /\ x.buf = (b + e) % m /\ x.read = FALSE
    BY <1>11 DEF BulkStore
  <2>2. stores' = [stores EXCEPT ![g] = Append(stores[g], x)]
    BY <1>1, <1>11
  <2> QED BY <2>1, <2>2
<1>13. PICK n \in Nat :
          /\ n = Len(stores[g]) /\ stores' \in [WG -> Seq(BulkStore)] /\ stores'[1 - g] = stores[1 - g]
          /\ Len(stores'[g]) = n + 1 /\ stores'[g][n + 1] = x /\ \A i \in 1 .. n : stores'[g][i] = stores[g][i]
  <2>1. stores \in [WG -> Seq(BulkStore)] /\ stores[g] \in Seq(BulkStore)
    BY StoreTypes
  <2>2. stores'[g] = Append(stores[g], x) /\ stores'[1 - g] = stores[1 - g] /\ stores' \in [WG -> Seq(BulkStore)]
    BY <1>5, <1>12, <2>1, Sides
  <2> QED BY <2>1, <2>2
<1>14. dbuf' \in [0 .. EpiStages - 1 -> Content] /\ dbuf'[(b + e) % m] = <<t, e>>
       /\ \A i \in 0 .. m - 1 : i # (b + e) % m => dbuf'[i] = dbuf[i]
  <2>1. <<t, e>> \in Content /\ dbuf \in [0 .. EpiStages - 1 -> Content]
    BY OtherTypes DEF Content
  <2>2. dbuf' = [dbuf EXCEPT ![(b + e) % m] = <<t, e>>]
    BY <1>1, <1>11
  <2> QED BY <1>11, <2>1, <2>2
<1>15. TypeOK'
  <2>1. /\ ab' \in [0 .. ABStages - 1 -> Stage] /\ cs' \in [0 .. CStages - 1 -> Stage]
        /\ slot' \in [0 .. SchedStages - 1 -> Slot]
        /\ turn' \in [{"mma", "epi"} -> [WG -> Nat]]
    BY <1>1, OtherTypes
  <2>2. stores' \in [WG -> Seq([dst : Nat \X Nat, buf : 0 .. EpiStages - 1, read : BOOLEAN])]
    BY <1>13 DEF BulkStore
  <2> QED BY <1>1, <1>2, <1>4, <1>14, <2>1, <2>2, TypeIntro
<1>16. StoresOK(1 - g)'
  <2>1. wg[1 - g].pc \notin EpiPlace
    BY <1>6, CFacts
  <2>2. Len(stores[1 - g]) = 0
    BY <1>5, <2>1, OutsideEpi
  <2>3. Len(stores'[1 - g]) = 0 /\ wg'[1 - g].e \in Nat /\ EpiStages \in Nat \ {0}
    BY <1>5, <1>13, <2>2, WgFacts, SizeFacts
  <2> QED BY <2>3 DEF StoresOK
<1>17. StoresOK(g)'
  <2>1. StoresOK(g) /\ EpiStages \in Nat
    BY PlaceFacts, SizeFacts
  <2>2. /\ n <= e /\ n <= m - 1
        /\ \A j \in 1 .. n :
             /\ stores[g][j].dst = <<t, e - n + j - 1>>
             /\ stores[g][j].buf = (b + e - n + j - 1) % m
             /\ ~stores[g][j].read => dbuf[stores[g][j].buf] = stores[g][j].dst
    BY <1>1, <1>3, <1>11, <1>13, <2>1 DEF StoresOK
  <2>4. ASSUME NEW i \in 1 .. n + 1
        PROVE  /\ stores'[g][i].dst = <<t, v.e - (n + 1) + i - 1>>
               /\ stores'[g][i].buf = (b + v.e - (n + 1) + i - 1) % m
               /\ ~stores'[g][i].read => dbuf'[stores'[g][i].buf] = stores'[g][i].dst
    <3>1. v.e = e + 1 /\ n \in Int /\ i \in Int /\ e \in Int /\ b \in Int
      BY <1>4, <2>4
    <3>2. /\ v.e - (n + 1) + i - 1 = e - n + i - 1 /\ b + v.e - (n + 1) + i - 1 = b + e - n + i - 1
      BY <3>1
    <3>3. CASE i = n + 1
      <4>1. e - n + i - 1 = e /\ b + e - n + i - 1 = b + e
        BY <3>1, <3>3
      <4> QED BY <1>12, <1>13, <1>14, <3>2, <3>3, <4>1
    <3>4. CASE i # n + 1
      <4>1. i \in 1 .. n
        BY <2>4, <3>4
      <4>2. PICK p \in Nat : p = b + e - n + i - 1 /\ p < b + e /\ b + e < p + m
        <5>1. n <= e /\ n <= m - 1 /\ 1 <= i /\ i <= n
          BY <2>2, <4>1
        <5>2. b + e - n + i - 1 \in Nat
          BY <3>1, <5>1
        <5> QED BY <3>1, <5>1, <5>2
      <4>3. p % m # (b + e) % m /\ p % m \in 0 .. m - 1
        <5>1. b + e \in Nat
          OBVIOUS
        <5> QED BY <4>2, <5>1, OwnStage, DivMod
      <4>4. /\ stores'[g][i] = stores[g][i] /\ stores[g][i].dst = <<t, e - n + i - 1>> /\ stores[g][i].buf = p % m
            /\ ~stores[g][i].read => dbuf[stores[g][i].buf] = stores[g][i].dst
        BY <1>13, <2>2, <4>1, <4>2
      <4> QED BY <1>14, <3>2, <4>2, <4>3, <4>4
    <3> QED BY <3>3, <3>4
  <2>5. n + 1 <= v.e /\ n + 1 <= EpiStages /\ v.pc # "write" /\ v.pc \notin {"prefetch", "write"}
    BY <1>4, <1>6, <1>11, <2>2
  <2>6. b = v.executed * EpiTiles /\ Pass(g)' = t
    BY <1>4, <1>7, <1>11
  <2>7. PICK l \in Nat : l = n + 1 /\ Len(stores'[g]) = l
    BY <1>13
  <2>8. \A i \in 1 .. l :
          /\ stores'[g][i].dst = <<t, v.e - l + i - 1>>
          /\ stores'[g][i].buf = (v.executed * EpiTiles + v.e - l + i - 1) % EpiStages
          /\ ~stores'[g][i].read => dbuf'[stores'[g][i].buf] = stores'[g][i].dst
    BY <1>11, <2>4, <2>6, <2>7
  <2>9. l <= v.e /\ l <= EpiStages - 0 /\ EpiStages - 0 = EpiStages
    BY <2>1, <2>5, <2>7
  <2> QED BY <1>5, <1>6, <2>5, <2>6, <2>7, <2>8, <2>9 DEF StoresOK
<1> QED BY <1>1, <1>2, <1>5, <1>7, <1>9, <1>10, <1>15, <1>16, <1>17, InvIntro

-----------------------------------------------------------------------------
(* The tiles that a warp group takes and skips.                             *)

LEMMA IssuedStays ==
  ASSUME TypeOK, PingpongInv, NEW g \in WG, shape' = shape, wg'[1 - g] = wg[1 - g],
         Mul(g)' = Mul(g), Going(g)' = Going(g)
  PROVE  Issued' = Issued
<1>1. Mul(1 - g)' = Mul(1 - g) /\ Going(1 - g)' = Going(1 - g)
  BY Sides, PlaceStays
<1>2. \A h \in WG : Mul(h)' = Mul(h) /\ Going(h)' = Going(h)
  BY <1>1, Sides
<1>3. NextMul' = NextMul
  BY <1>2 DEF NextMul, WG
<1>4. PICK h \in WG : h = Owner(NextMul)
  BY NextFacts
<1>5. NextMul \in Nat
  BY NextFacts
<1>6. Issued' = Before(NextMul') + Going(h)'
  BY <1>3, <1>4, <1>5, IssuedForm
<1>7. Issued = Before(NextMul) + Going(h)
  BY <1>3, <1>4, <1>5, IssuedForm
<1> QED BY <1>2, <1>3, <1>6, <1>7

\* Reading a slot.
LEMMA WgTakes ==
  ASSUME TypeOK, PingpongInv, NEW g \in WG, wg[g].pc \in {"take", "skip"}, SlotFull(wg[g].sched),
         Take(wg[g].sched), shape' = shape, load' = load, wg'[1 - g] = wg[1 - g], SchedPos(g)' = SchedPos(g) + 1
  PROVE  SchedOK' /\ slot' \in [0 .. SchedStages - 1 -> Slot]
<1>1. PICK n \in Nat :
         /\ n = SchedPos(g) /\ n < Written /\ n >= Written - SchedStages
         /\ Missing(n) >= 1 /\ Waits(g, n) = 1 /\ wg[g].sched.index = n % SchedStages
  BY TakeFacts
<1>2. slot' = [slot EXCEPT ![n % SchedStages] = ReadOnce(@)]
  BY <1>1 DEF Take
<1>3. Written' = Written /\ Taken' = Taken
  BY Frame
<1>4. 1 - g \in WG /\ SchedPos(1 - g)' = SchedPos(1 - g)
  BY Sides, PlaceStays
<1>5. ASSUME NEW i \in Nat
      PROVE  /\ Waits(1 - g, i)' = Waits(1 - g, i)
             /\ i # n => Waits(g, i)' = Waits(g, i)
  <2>1. Readers(i)' = Readers(i)
    BY ShapeStays
  <2>2. i # n => (n + 1 <= i <=> n <= i)
    OBVIOUS
  <2> QED BY <1>1, <1>4, <2>1, <2>2 DEF Waits
<1>6. Waits(g, n)' = 0
  <2>1. ~(n + 1 <= n)
    OBVIOUS
  <2> QED BY <1>1, <2>1 DEF Waits
<1>7. \A i \in Nat : i # n => Waits(0, i)' = Waits(0, i) /\ Waits(1, i)' = Waits(1, i)
  BY <1>5 DEF WG
<1>8. \A i \in Nat : i # n => Missing(i)' = Missing(i)
  BY <1>3, <1>7 DEF Missing
<1>9. Missing(n)' = Missing(n) - 1
  <2>1. Waits(0, n) \in {0, 1} /\ Waits(1, n) \in {0, 1}
    BY MissingFacts
  <2>2. PICK r \in {0, 1} : r = IF Taken <= n THEN 1 ELSE 0
    OBVIOUS
  <2>3. /\ Missing(n) = Waits(0, n) + Waits(1, n) + r
        /\ Missing(n)' = Waits(0, n)' + Waits(1, n)' + r
    BY <1>3, <2>2 DEF Missing
  <2>4. CASE g = 0
    BY <1>1, <1>5, <1>6, <2>1, <2>3, <2>4
  <2>5. CASE g = 1
    BY <1>1, <1>5, <1>6, <2>1, <2>3, <2>5
  <2> QED BY <2>4, <2>5 DEF WG
<1> QED BY <1>1, <1>2, <1>3, <1>8, <1>9, TakeSlot

LEMMA OwnTakeStep ==
  ASSUME TypeOK, PingpongInv, NEW g \in WG, OwnTake(g)
  PROVE  TypeOK' /\ PingpongInv'
<1> DEFINE old == wg[g]
<1>1. /\ wg[g].pc = "take" /\ SlotFull(wg[g].sched) /\ Take(wg[g].sched)
      /\ wg' = [wg EXCEPT ![g].sched = Advance(@, SchedStages),
                          ![g].tile = slot[wg[g].sched.index].data, ![g].pc = NextPc(slot[wg[g].sched.index].data)]
      /\ load' = load /\ ab' = ab /\ cs' = cs /\ turn' = turn
      /\ dbuf' = dbuf /\ stores' = stores /\ out' = out
  BY DEF OwnTake
<1>2. shape' = shape
  BY DEF OwnTake
<1>3. PICK n \in Nat, t \in Nat \ {0}, d \in 0 .. Tiles, c \in PipeState :
         /\ n = SchedPos(g) /\ n < Written /\ n = old.executed - 1 /\ t = n + 2 /\ t = Pass(g) /\ t = old.executed + 1
         /\ d = slot[wg[g].sched.index].data /\ d = (IF t <= Tiles THEN t ELSE Invalid)
         /\ c = Advance(old.sched, SchedStages) /\ c = At(n + 1, SchedStages, 0)
         /\ Owner(t) = g /\ old.flight = 0 /\ old.ab = At(Before(t), ABStages, 0) /\ AbPos(g) = Before(t) /\ Before(t) \in Nat
  <2>1. PICK n \in Nat : /\ n = SchedPos(g) /\ n < Written /\ n = old.executed - 1 /\ Pass(g) = n + 2
                         /\ slot[wg[g].sched.index].data = TileOf(n)
    BY <1>1, TakeFacts
  <2>2. /\ Owner(Pass(g)) = g /\ old.flight = 0 /\ Pass(g) \in Nat \ {0} /\ Pass(g) = old.executed + 1
        /\ old.sched = At(SchedPos(g), SchedStages, 0) /\ old.ab = At(AbPos(g), ABStages, 0)
        /\ AbPos(g) = Before(Pass(g)) /\ Before(Pass(g)) \in Nat
    <3>1. WgOK(g) /\ old.flight \in Nat /\ Before(Pass(g)) \in Nat
      BY PlaceFacts, WgFacts
    <3>2. AbPos(g) = Before(Pass(g)) + 0
      BY <1>1 DEF AbPos, Busy, Behind, EpiPlace
    <3> QED BY <1>1, <3>1, <3>2, OwnFacts DEF WgOK
  <2>3. TileOf(n) \in 0 .. Tiles /\ TileOf(n) = IF n + 2 <= Tiles THEN n + 2 ELSE Invalid
    BY ShapeFacts DEF TypeOK, TileOf, Invalid
  <2>4. Advance(old.sched, SchedStages) = At(n + 1, SchedStages, 0) /\ At(n + 1, SchedStages, 0) \in PipeState
    <3>1. 0 \in {0, 1} /\ n + 1 \in Nat /\ SchedStages \in Nat \ {0}
      BY SizeFacts
    <3>2. old.sched = At(n, SchedStages, 0)
      BY <2>1, <2>2
    <3>3. Advance(At(n, SchedStages, 0), SchedStages) = At(n + 1, SchedStages, 0)
      BY <3>1, AdvanceOne
    <3>4. At(n + 1, SchedStages, 0) \in PipeState
      BY <3>1, AtFacts
    <3> QED BY <3>2, <3>3, <3>4
  <2> QED BY <2>1, <2>2, <2>3, <2>4
<1>4. PICK v \in WgState :
         /\ wg' = [wg EXCEPT ![g] = v] /\ v.tile = d /\ v.sched = c /\ v.pc = (IF d = Invalid THEN "done" ELSE "mmaSync")
         /\ v.k = old.k /\ v.e = old.e /\ v.executed = old.executed /\ v.ab = old.ab
         /\ v.flight = old.flight /\ v.rel = old.rel /\ v.cRead = old.cRead /\ v.cLoad = old.cLoad
  <2> DEFINE p == NextPc(d)  v == [old EXCEPT !.sched = c, !.tile = d, !.pc = p]
  <2>1. /\ old \in WgState /\ wg \in [WG -> WgState] /\ p \in Busy \cup Idle
        /\ p = IF d = Invalid THEN "done" ELSE "mmaSync"
    BY OtherTypes DEF Idle, NextPc
  <2>2. wg' = [wg EXCEPT ![g] = v]
    BY <1>1, <1>3, <2>1 DEF WgState
  <2> HIDE DEF p
  <2>4. /\ v \in WgState /\ v.pc = p /\ v.e = old.e /\ v.flight = old.flight /\ v.rel = old.rel
        /\ v.tile = d /\ v.k = old.k /\ v.executed = old.executed /\ v.ab = old.ab
        /\ v.cLoad = old.cLoad /\ v.cRead = old.cRead /\ v.sched = c
    BY <2>1 DEF WgState
  <2> QED BY <2>1, <2>2, <2>4
<1>5. wg'[g] = v /\ wg'[1 - g] = wg[1 - g] /\ 1 - g \in WG
  BY <1>4, OtherTypes, Sides
<1>6. /\ v.pc \in {"done", "mmaSync"} /\ v.pc \notin Busy /\ v.pc \notin Behind /\ v.pc \notin EpiPlace
      /\ old.pc \notin Busy /\ old.pc \notin Behind /\ old.pc \notin EpiPlace
  BY <1>1, <1>4 DEF Busy, Behind, EpiPlace
<1>7. /\ Own(g)' = Own(g) /\ Mul(g)' = Mul(g) /\ CBase(g)' = CBase(g)
      /\ AbPos(g)' = Before(t) /\ SchedPos(g)' = n + 1 /\ Freed(g)' = 0 /\ Going(g)' = 0
      /\ Freed(g) = 0 /\ Going(g) = 0
  <2>1. t = v.executed + 1
    BY <1>3, <1>4
  <2>2. /\ Own(g)' = (IF Owner(t) = g THEN t ELSE t + 1)
        /\ Mul(g)' = (IF v.pc \in Behind THEN Own(g)' + 2 ELSE Own(g)')
        /\ AbPos(g)' = Before(t) + (IF v.pc \in Busy THEN v.k ELSE 0)
        /\ v.pc \notin {"skip", "take"} => SchedPos(g)' = v.executed
        /\ Freed(g)' = (IF v.pc \in Busy THEN v.k - v.flight ELSE 0)
        /\ Going(g)' = (IF v.pc = "mma" THEN v.k ELSE 0)
        /\ CBase(g)' = IF v.pc = "start" THEN 0 ELSE (Own(g)' - 1) * EpiTiles
    BY <1>2, <1>5, <2>1, PlacesAfter
  <2>3. Own(g) = t /\ Mul(g) = Own(g) /\ CBase(g) = (Own(g) - 1) * EpiTiles /\ Freed(g) = 0 /\ Going(g) = 0
    BY <1>1, <1>3, <1>6, OwnFacts DEF CBase, Freed, Going
  <2>4. Own(g)' = t /\ Mul(g)' = t /\ AbPos(g)' = Before(t) /\ SchedPos(g)' = n + 1
    <3>1. Own(g)' = t
      BY <1>3, <2>2
    <3>2. Mul(g)' = t /\ AbPos(g)' = Before(t) + 0
      BY <1>6, <2>2, <3>1
    <3>3. v.executed = n + 1
      BY <1>3, <1>4, VFacts
    <3>4. SchedPos(g)' = n + 1
      BY <1>6, <2>2, <3>3
    <3> QED BY <1>3, <3>1, <3>2, <3>4
  <2>5. v.pc # "start" /\ v.pc # "mma"
    BY <1>6
  <2> QED BY <1>6, <2>2, <2>3, <2>4, <2>5
<1>8. SchedOK' /\ slot' \in [0 .. SchedStages - 1 -> Slot]
  BY <1>1, <1>2, <1>3, <1>5, <1>7, WgTakes
<1>9. TypeOK'
  <2>1. /\ ab' \in [0 .. ABStages - 1 -> Stage] /\ cs' \in [0 .. CStages - 1 -> Stage]
        /\ dbuf' \in [0 .. EpiStages - 1 -> Content]
        /\ stores' \in [WG -> Seq([dst : Nat \X Nat, buf : 0 .. EpiStages - 1, read : BOOLEAN])]
        /\ turn' \in [{"mma", "epi"} -> [WG -> Nat]]
    BY <1>1, OtherTypes
  <2> QED BY <1>1, <1>2, <1>4, <1>8, <2>1, TypeIntro
<1>10. WgOK(g)'
  <2>1. t = v.executed + 1 /\ n + 1 \in Nat
    BY <1>3, <1>4
  <2>2. Written' = Written /\ Written \in Nat
    <3>1. Written \in Nat
      BY LoadFacts
    <3> QED BY <1>1, <1>2, <1>5, <3>1, Frame
  <2>3. n + 1 <= Written' + 0
    BY <1>3, <2>2
  <2>4. v.pc = "mmaSync" => v.tile = t /\ v.tile # Invalid
    BY <1>3, <1>4
  <2>5. ~(v.flight > 0) /\ v.pc # "drain" /\ v.pc \notin {"start", "skip", "take", "mma"}
    BY <1>3, <1>4, <1>6
  <2> QED BY <1>2, <1>3, <1>4, <1>5, <1>6, <1>7, <2>1, <2>3, <2>4, <2>5, WgIntro
<1>11. /\ StoresOK(1 - g)' /\ EpiOK(g)' /\ StoresOK(g)'
       /\ CLoaded(g)' = CLoaded(g) /\ CDone(g)' = CDone(g)
  <2>1. t = v.executed + 1
    BY <1>3, <1>4
  <2>2. StoresOK(1 - g)'
    BY <1>1, <1>2, <1>5, Frame
  <2>3. stores' = stores /\ v.cRead = old.cRead /\ v.cLoad = old.cLoad
    BY <1>1, <1>4
  <2> QED BY <1>2, <1>5, <1>6, <1>7, <2>1, <2>2, <2>3, StillOutside
<1>12. AbOK'
  <2>1. load' = load /\ ab' = ab /\ wg'[g].executed = wg[g].executed
    BY <1>1, <1>4, <1>5
  <2> QED BY <1>2, <1>5, <1>7, <2>1, AbFrame
<1>13. COK'
  BY <1>1, <1>2, <1>5, <1>7, <1>11, CFrame
<1>14. TurnOK'
  BY <1>1, <1>2, <1>5, <1>6, <1>7, TurnFrame
<1> QED BY <1>1, <1>2, <1>5, <1>8, <1>9, <1>10, <1>11, <1>12, <1>13, <1>14, InvIntro

\* A warp group that moves past tiles of the other frees nothing.
LEMMA PassedOver ==
  ASSUME TypeOK, NEW g \in WG, shape' = shape, wg'[1 - g] = wg[1 - g], Freed(g)' = 0,
         wg[g].executed <= wg'[g].executed, wg'[g].executed \in Nat,
         \A t \in Nat : t > wg[g].executed /\ t <= wg'[g].executed /\ Owner(t) = g =>
           /\ t = wg[g].executed + 1 /\ Freed(g) = KTiles(t)
           /\ wg'[g].executed > wg[g].executed,
         wg'[g].executed = wg[g].executed \/ (Owner(wg[g].executed + 1) # g) \/ Freed(g) = KTiles(wg[g].executed + 1),
         wg'[g].executed = wg[g].executed => Freed(g) = 0,
         Owner(wg[g].executed + 1) # g => Freed(g) = 0
  PROVE  \A x \in Items : IsFree(x)' <=> IsFree(x)
<1> SUFFICES ASSUME NEW x \in Items PROVE IsFree(x)' <=> IsFree(x)
  OBVIOUS
<1>1. PICK h \in WG, t \in Nat \ {0}, k \in Nat :
         /\ t = x[1] /\ k = x[2] /\ h = Owner(t) /\ k < KTiles(t) /\ KTiles(t) \in Nat
         /\ IsFree(x) <=> t <= wg[h].executed \/ (t = wg[h].executed + 1 /\ k < Freed(h))
         /\ IsFree(x)' <=> t <= wg'[h].executed \/ (t = wg'[h].executed + 1 /\ k < Freed(h)')
  <2>1. /\ Owner(x[1]) \in WG /\ x[1] \in Nat \ {0} /\ x[2] \in Nat
        /\ IsFree(x) <=> x[1] <= wg[Owner(x[1])].executed \/ (x[1] = wg[Owner(x[1])].executed + 1 /\ x[2] < Freed(Owner(x[1])))
        /\ IsFree(x)' <=> x[1] <= wg'[Owner(x[1])].executed \/ (x[1] = wg'[Owner(x[1])].executed + 1 /\ x[2] < Freed(Owner(x[1]))')
    BY FreeForm DEF TypeOK
  <2>2. PICK h \in WG : h = Owner(x[1])
    BY <2>1
  <2>3. Freed(Owner(x[1]))' = Freed(h)'
    BY <2>2 DEF Freed, Owner
  <2>4. x[2] \in 0 .. KTiles(x[1]) - 1 /\ KTiles(x[1]) \in Nat
    BY <2>1, PosFacts, ShapeFacts DEF TypeOK
  <2>5. x[2] < KTiles(x[1])
    BY <2>4
  <2> QED BY <2>1, <2>2, <2>3, <2>4, <2>5
<1>2. CASE h = 1 - g
  <2>1. Freed(1 - g)' = Freed(1 - g)
    BY Sides, PlaceStays
  <2> QED BY <1>1, <1>2, <2>1
<1>3. CASE h = g
  <2> DEFINE d == wg[g].executed  f == wg'[g].executed
  <2>1. d \in Nat /\ f \in Nat /\ d <= f
    BY WgFacts
  <2> HIDE DEF d, f
  <2>2. /\ IsFree(x) <=> t <= d \/ (t = d + 1 /\ k < Freed(g))
        /\ IsFree(x)' <=> t <= f
    BY <1>1, <1>3 DEF d, f
  <2>3. CASE t <= d
    BY <2>1, <2>2, <2>3
  <2>4. CASE t > d /\ t <= f
    <3>1. t = d + 1 /\ Freed(g) = KTiles(t)
      BY <1>1, <1>3, <2>4 DEF d, f
    <3> QED BY <1>1, <2>2, <2>4, <3>1
  <2>5. CASE t > f
    <3>1. ASSUME t = d + 1 PROVE Freed(g) = 0
      <4>1. f = d
        BY <2>1, <2>5, <3>1
      <4> QED BY <4>1 DEF d, f
    <3>2. ~(t <= d) /\ ~(t <= f) /\ ~(k < 0)
      BY <2>1, <2>5
    <3> QED BY <2>2, <3>1, <3>2
  <2> QED BY <2>1, <2>3, <2>4, <2>5
<1> QED BY <1>1, <1>2, <1>3, Sides

LEMMA SkipTakeStep ==
  ASSUME TypeOK, PingpongInv, NEW g \in WG, SkipTake(g)
  PROVE  TypeOK' /\ PingpongInv'
<1> DEFINE old == wg[g]
<1>1. /\ wg[g].pc = "skip" /\ SlotFull(wg[g].sched) /\ Take(wg[g].sched)
      /\ wg' = [wg EXCEPT ![g].sched = Advance(@, SchedStages),
                  ![g].pc = IF slot[wg[g].sched.index].data = Invalid THEN "done" ELSE "take",
                  ![g].ab = IF slot[wg[g].sched.index].data = Invalid THEN @
                            ELSE AdvanceIters(@, KCount(slot[wg[g].sched.index].data), ABStages),
                  ![g].executed = IF slot[wg[g].sched.index].data = Invalid THEN @ ELSE @ + 1]
      /\ load' = load /\ ab' = ab /\ cs' = cs /\ turn' = turn
      /\ dbuf' = dbuf /\ stores' = stores /\ out' = out
  BY DEF SkipTake
<1>2. shape' = shape
  BY DEF SkipTake
<1>3. PICK n \in Nat, t \in Nat \ {0}, d \in 0 .. Tiles, c \in PipeState, a \in Nat :
         /\ n = SchedPos(g) /\ n < Written /\ n = old.executed - 1 /\ t = n + 2 /\ t = Pass(g) /\ t = old.executed + 1
         /\ d = slot[wg[g].sched.index].data /\ d = (IF t <= Tiles THEN t ELSE Invalid)
         /\ c = Advance(old.sched, SchedStages) /\ c = At(n + 1, SchedStages, 0)
         /\ Owner(t) # g /\ old.flight = 0 /\ a = Before(t) /\ old.ab = At(a, ABStages, 0) /\ AbPos(g) = a
         /\ shape.varlenK
  <2>1. PICK n \in Nat : /\ n = SchedPos(g) /\ n < Written /\ n = old.executed - 1 /\ Pass(g) = n + 2
                         /\ slot[wg[g].sched.index].data = TileOf(n)
    BY <1>1, TakeFacts
  <2>2. /\ Owner(Pass(g)) # g /\ old.flight = 0 /\ Pass(g) \in Nat \ {0} /\ Pass(g) = old.executed + 1 /\ shape.varlenK
        /\ old.sched = At(SchedPos(g), SchedStages, 0) /\ old.ab = At(AbPos(g), ABStages, 0)
        /\ AbPos(g) = Before(Pass(g)) /\ Before(Pass(g)) \in Nat
    <3>1. WgOK(g) /\ old.flight \in Nat /\ Before(Pass(g)) \in Nat
      BY PlaceFacts, WgFacts
    <3>2. AbPos(g) = Before(Pass(g)) + 0
      BY <1>1 DEF AbPos, Busy, Behind, EpiPlace
    <3> QED BY <1>1, <3>1, <3>2, OwnFacts DEF WgOK
  <2>3. TileOf(n) \in 0 .. Tiles /\ TileOf(n) = IF n + 2 <= Tiles THEN n + 2 ELSE Invalid
    BY ShapeFacts DEF TypeOK, TileOf, Invalid
  <2>4. Advance(old.sched, SchedStages) = At(n + 1, SchedStages, 0) /\ At(n + 1, SchedStages, 0) \in PipeState
    <3>1. 0 \in {0, 1} /\ n + 1 \in Nat /\ SchedStages \in Nat \ {0}
      BY SizeFacts
    <3>2. old.sched = At(n, SchedStages, 0)
      BY <2>1, <2>2
    <3>3. Advance(At(n, SchedStages, 0), SchedStages) = At(n + 1, SchedStages, 0)
      BY <3>1, AdvanceOne
    <3>4. At(n + 1, SchedStages, 0) \in PipeState
      BY <3>1, AtFacts
    <3> QED BY <3>2, <3>3, <3>4
  <2> QED BY <2>1, <2>2, <2>3, <2>4
\* The tile of the other warp group, and where the states go.
<1>4. PICK u \in Nat \ {0}, b \in Nat, q \in PipeState, f \in Nat :
         /\ f = (IF d = Invalid THEN old.executed ELSE old.executed + 1) /\ u = f + 1
         /\ q = (IF d = Invalid THEN old.ab ELSE AdvanceIters(old.ab, KCount(d), ABStages))
         /\ b = Before(u) /\ q = At(b, ABStages, 0)
         /\ Owner(t + 1) = g
  <2>1. Owner(t + 1) = g
    <3>1. Owner(t) \in WG /\ Owner(t + 1) = 1 - Owner(t)
      BY OwnerFacts
    <3> QED BY <1>3, <3>1, Sides
  <2>2. CASE d = Invalid
    <3>1. old.ab \in PipeState /\ old.executed \in Nat
      BY WgFacts
    <3> QED BY <1>3, <2>1, <2>2, <3>1
  <2>3. CASE d # Invalid
    <3>1. d = t /\ t \in 1 .. Tiles
      BY <1>3, <2>3 DEF Invalid
    <3>2. KCount(d) = KTiles(t) /\ KTiles(t) \in Nat
      BY <3>1, ShapeFacts DEF TypeOK
    <3>3. Before(t + 1) = a + KTiles(t) /\ a + KTiles(t) \in Nat
      <4>1. shape \in Shapes /\ t \in Nat \ {0}
        BY DEF TypeOK
      <4>2. Before(t + 1) = Before(t) + KTiles(t)
        BY <4>1, BeforeNext
      <4> QED BY <1>3, <3>2, <4>2
    <3>4. AdvanceIters(At(a, ABStages, 0), KTiles(t), ABStages) = At(a + KTiles(t), ABStages, 0)
      <4>1. 0 \in {0, 1} /\ ABStages \in Nat \ {0}
        BY SizeFacts
      <4> QED BY <3>2, <4>1, AdvanceAt
    <3>5. At(a + KTiles(t), ABStages, 0) \in PipeState
      BY <3>3, SizeFacts, AtFacts
    <3>6. old.executed + 1 \in Nat /\ t + 1 \in Nat \ {0} /\ (old.executed + 1) + 1 = t + 1
      BY <1>3, WgFacts
    <3> QED BY <1>3, <2>1, <2>3, <3>1, <3>2, <3>3, <3>4, <3>5, <3>6
  <2> QED BY <2>2, <2>3
<1>5. PICK v \in WgState :
         /\ wg' = [wg EXCEPT ![g] = v] /\ v.sched = c /\ v.pc = (IF d = Invalid THEN "done" ELSE "take")
         /\ v.ab = q /\ v.executed = f
         /\ v.tile = old.tile /\ v.k = old.k /\ v.e = old.e
         /\ v.flight = old.flight /\ v.rel = old.rel /\ v.cRead = old.cRead /\ v.cLoad = old.cLoad
  <2> DEFINE p == IF d = Invalid THEN "done" ELSE "take"
             v == [old EXCEPT !.sched = c, !.pc = p, !.ab = q, !.executed = f]
  <2>1. old \in WgState /\ wg \in [WG -> WgState] /\ p \in Busy \cup Idle
    BY OtherTypes DEF Idle
  <2>2. wg' = [wg EXCEPT ![g] = v]
    BY <1>1, <1>3, <1>4, <2>1 DEF WgState
  <2> HIDE DEF p
  <2>4. /\ v \in WgState /\ v.pc = p /\ v.e = old.e /\ v.flight = old.flight /\ v.rel = old.rel
        /\ v.tile = old.tile /\ v.k = old.k /\ v.executed = f /\ v.ab = q
        /\ v.cLoad = old.cLoad /\ v.cRead = old.cRead /\ v.sched = c
    BY <2>1 DEF WgState
  <2> QED BY <2>2, <2>4 DEF p
<1>6. wg'[g] = v /\ wg'[1 - g] = wg[1 - g] /\ 1 - g \in WG
  BY <1>5, OtherTypes, Sides
<1>7. /\ v.pc \in {"done", "take"} /\ v.pc \notin Busy /\ v.pc \notin Behind /\ v.pc \notin EpiPlace
      /\ old.pc \notin Busy /\ old.pc \notin Behind /\ old.pc \notin EpiPlace
      /\ v.pc \notin {"start", "skip", "mma", "mmaSync", "drain"} /\ old.pc \notin {"start", "mma"}
  BY <1>1, <1>5 DEF Busy, Behind, EpiPlace
<1>8. /\ Own(g)' = Own(g) /\ Mul(g)' = Mul(g) /\ CBase(g)' = CBase(g)
      /\ AbPos(g)' = b /\ SchedPos(g)' = n + 1 /\ Freed(g)' = 0 /\ Going(g)' = 0
      /\ Freed(g) = 0 /\ Going(g) = 0 /\ u = v.executed + 1
  <2>1. u = v.executed + 1
    BY <1>4, <1>5
  <2>2. /\ Own(g)' = (IF Owner(u) = g THEN u ELSE u + 1)
        /\ Mul(g)' = (IF v.pc \in Behind THEN Own(g)' + 2 ELSE Own(g)')
        /\ AbPos(g)' = Before(u) + (IF v.pc \in Busy THEN v.k ELSE 0)
        /\ v.pc \in {"skip", "take"} => SchedPos(g)' = v.executed - 1
        /\ v.pc \notin {"skip", "take"} => SchedPos(g)' = v.executed
        /\ Freed(g)' = (IF v.pc \in Busy THEN v.k - v.flight ELSE 0)
        /\ Going(g)' = (IF v.pc = "mma" THEN v.k ELSE 0)
        /\ CBase(g)' = IF v.pc = "start" THEN 0 ELSE (Own(g)' - 1) * EpiTiles
    BY <1>2, <1>6, <2>1, PlacesAfter
  <2>3. Own(g) = t + 1 /\ Mul(g) = Own(g) /\ CBase(g) = (Own(g) - 1) * EpiTiles /\ Freed(g) = 0 /\ Going(g) = 0
    BY <1>1, <1>3, <1>7, OwnFacts DEF CBase, Freed, Going
  <2>4. Own(g)' = t + 1
    <3>1. CASE d = Invalid
      <4>1. u = t
        BY <1>3, <1>4, <3>1
      <4> QED BY <1>3, <2>2, <4>1
    <3>2. CASE d # Invalid
      <4>1. u = t + 1
        BY <1>3, <1>4, <3>2
      <4> QED BY <1>4, <2>2, <4>1
    <3> QED BY <3>1, <3>2
  <2>5. AbPos(g)' = b /\ Mul(g)' = t + 1 /\ CBase(g)' = CBase(g) /\ Freed(g)' = 0 /\ Going(g)' = 0
    <3>1. AbPos(g)' = b + 0
      BY <1>4, <1>7, <2>2
    <3> QED BY <1>7, <2>2, <2>3, <2>4, <3>1
  <2>6. SchedPos(g)' = n + 1
    <3>1. CASE d = Invalid
      <4>1. v.executed = n + 1 /\ v.pc = "done"
        BY <1>3, <1>4, <1>5, <3>1, WgFacts
      <4> QED BY <2>2, <4>1
    <3>2. CASE d # Invalid
      <4>1. v.executed = n + 2 /\ v.pc = "take"
        BY <1>3, <1>4, <1>5, <3>2, WgFacts
      <4>2. SchedPos(g)' = v.executed - 1
        BY <2>2, <4>1
      <4> QED BY <4>1, <4>2
    <3> QED BY <3>1, <3>2
  <2> QED BY <2>1, <2>3, <2>4, <2>5, <2>6
<1>9. SchedOK' /\ slot' \in [0 .. SchedStages - 1 -> Slot]
  BY <1>1, <1>2, <1>3, <1>6, <1>8, WgTakes
<1>10. TypeOK'
  <2>1. /\ ab' \in [0 .. ABStages - 1 -> Stage] /\ cs' \in [0 .. CStages - 1 -> Stage]
        /\ dbuf' \in [0 .. EpiStages - 1 -> Content]
        /\ stores' \in [WG -> Seq([dst : Nat \X Nat, buf : 0 .. EpiStages - 1, read : BOOLEAN])]
        /\ turn' \in [{"mma", "epi"} -> [WG -> Nat]]
    BY <1>1, OtherTypes
  <2> QED BY <1>1, <1>2, <1>5, <1>9, <2>1, TypeIntro
<1>11. WgOK(g)'
  <2>1. n + 1 \in Nat
    OBVIOUS
  <2>2. Written' = Written /\ Written \in Nat
    <3>1. Written \in Nat
      BY LoadFacts
    <3> QED BY <1>1, <1>2, <1>6, <3>1, Frame
  <2>3. n + 1 <= Written' + 0 /\ (v.pc = "take" /\ ~shape.varlenK) = FALSE
    BY <1>3, <2>2
  <2>4. v.pc = "take" => Owner(u) = g /\ v.executed > 0
    <3>1. ASSUME v.pc = "take" PROVE Owner(u) = g /\ v.executed > 0
      <4>1. d # Invalid
        BY <1>5, <3>1
      <4>2. u = t + 1 /\ v.executed = old.executed + 1 /\ old.executed \in Nat
        BY <1>3, <1>4, <1>5, <4>1, WgFacts
      <4> QED BY <1>4, <4>2
    <3> QED BY <3>1
  <2>5. ~(v.flight > 0)
    BY <1>3, <1>5
  <2> QED BY <1>2, <1>3, <1>4, <1>5, <1>6, <1>7, <1>8, <2>1, <2>3, <2>4, <2>5, WgIntro
<1>12. /\ StoresOK(1 - g)' /\ EpiOK(g)' /\ StoresOK(g)'
       /\ CLoaded(g)' = CLoaded(g) /\ CDone(g)' = CDone(g)
  BY <1>1, <1>2, <1>5, <1>6, <1>7, <1>8, Frame, StillOutside
<1>13. AbOK'
  <2>1. \A x \in Items : IsFree(x)' <=> IsFree(x)
    <3>1. wg'[g].executed = f /\ f \in Nat /\ old.executed <= f /\ old.executed \in Nat /\ f <= old.executed + 1
      BY <1>4, <1>5, <1>6, WgFacts
    <3>2. ASSUME NEW i \in Nat, i > old.executed, i <= f, Owner(i) = g PROVE FALSE
      <4>1. i = old.executed + 1
        BY <3>1, <3>2
      <4> QED BY <1>3, <3>2, <4>1
    <3>3. Owner(old.executed + 1) # g
      BY <1>3
    <3> QED BY <1>2, <1>6, <1>8, <3>1, <3>2, <3>3, PassedOver
  <2>2. Issued' = Issued /\ Loaded' = Loaded
    BY <1>1, <1>2, <1>6, <1>8, IssuedStays, Frame
  <2> QED BY <1>1, <1>2, <2>1, <2>2, AbStays
<1>14. COK'
  BY <1>1, <1>2, <1>6, <1>8, <1>12, CFrame
<1>15. TurnOK'
  BY <1>1, <1>2, <1>6, <1>7, <1>8, TurnFrame
<1> QED BY <1>1, <1>2, <1>6, <1>9, <1>10, <1>11, <1>12, <1>13, <1>14, <1>15, InvIntro

-----------------------------------------------------------------------------
(* The starts of the warp groups, and the end of a tile.                    *)

\* A state of C moves past the tile of the other warp group.
LEMMA AdvanceCPast ==
  ASSUME NEW p \in Nat, NEW b \in {0, 1}, NEW s \in PipeState, CStages > 0 => s = At(p, CStages, b)
  PROVE  AdvanceC(s, EpiTiles) \in PipeState /\ (CStages > 0 => AdvanceC(s, EpiTiles) = At(p + EpiTiles, CStages, b))
<1>1. CASE CStages > 0
  <2>1. CStages \in Nat \ {0} /\ EpiTiles \in Nat /\ p + EpiTiles \in Nat
    BY <1>1, SizeFacts
  <2>2. AdvanceIters(At(p, CStages, b), EpiTiles, CStages) = At(p + EpiTiles, CStages, b)
    BY <2>1, AdvanceAt
  <2>3. AdvanceC(s, EpiTiles) = AdvanceIters(s, EpiTiles, CStages)
    BY <2>1 DEF AdvanceC
  <2>4. At(p + EpiTiles, CStages, b) \in PipeState
    BY <2>1, AtFacts
  <2> QED BY <1>1, <2>2, <2>3, <2>4
<1>2. CASE ~(CStages > 0)
  <2>1. CStages = 0
    BY <1>2, SizeFacts
  <2> QED BY <1>2, <2>1 DEF AdvanceC
<1> QED BY <1>1, <1>2

LEMMA StartFirstStep ==
  ASSUME TypeOK, PingpongInv, StartFirst
  PROVE  TypeOK' /\ PingpongInv'
<1>1. PICK g \in WG : g = 0 /\ 1 - g = 1
  BY DEF WG
<1> DEFINE old == wg[g]
<1>2. /\ old.pc = "start" /\ turn' = [i \in {"mma", "epi"} |-> [turn[i] EXCEPT ![g] = @ + 1]]
      /\ wg' = [wg EXCEPT ![g].pc = NextPc(old.tile)]
      /\ load' = load /\ ab' = ab /\ cs' = cs /\ slot' = slot /\ dbuf' = dbuf /\ stores' = stores /\ out' = out
  BY <1>1 DEF StartFirst
<1>3. shape' = shape
  BY DEF StartFirst
<1>4. /\ old.executed = 0 /\ old.tile = FirstTile /\ old.flight = 0 /\ Owner(1) = g
      /\ FirstTile \in {Invalid, 1} /\ 1 # Invalid
  <2>1. WgOK(g) /\ old.flight \in Nat
    BY PlaceFacts, WgFacts
  <2> QED BY <1>1, <1>2, <2>1 DEF WgOK, FirstTile, Owner, Invalid
<1>5. PICK v \in WgState :
         /\ wg' = [wg EXCEPT ![g] = v] /\ v.pc = (IF old.tile = Invalid THEN "done" ELSE "mmaSync")
         /\ v.tile = old.tile /\ v.k = old.k /\ v.e = old.e /\ v.executed = old.executed /\ v.ab = old.ab
         /\ v.flight = old.flight /\ v.rel = old.rel /\ v.cRead = old.cRead /\ v.cLoad = old.cLoad /\ v.sched = old.sched
  <2> DEFINE n == NextPc(old.tile)
             v == [old EXCEPT !.pc = n]
  <2>1. old \in WgState /\ wg \in [WG -> WgState] /\ n \in Busy \cup Idle /\ n = IF old.tile = Invalid THEN "done" ELSE "mmaSync"
    BY OtherTypes DEF NextPc, Idle
  <2>2. wg' = [wg EXCEPT ![g] = v]
    BY <1>2, <2>1 DEF WgState
  <2> HIDE DEF n
  <2>3. /\ v \in WgState /\ v.pc = n /\ v.e = old.e /\ v.flight = old.flight /\ v.rel = old.rel
        /\ v.tile = old.tile /\ v.k = old.k /\ v.executed = old.executed /\ v.ab = old.ab
        /\ v.cLoad = old.cLoad /\ v.cRead = old.cRead /\ v.sched = old.sched
    BY <2>1 DEF WgState
  <2> QED BY <2>1, <2>2, <2>3
<1>6. wg'[g] = v /\ wg'[1 - g] = wg[1 - g] /\ 1 - g \in WG
  BY <1>5, OtherTypes, Sides
<1>7. /\ v.pc \in {"done", "mmaSync"} /\ v.pc \notin Busy /\ v.pc \notin Behind /\ v.pc \notin EpiPlace
      /\ old.pc \notin Busy /\ old.pc \notin Behind /\ old.pc \notin EpiPlace
      /\ v.pc \notin {"start", "skip", "take", "mma", "drain"} /\ old.pc \notin {"skip", "take", "mma"}
  BY <1>2, <1>5 DEF Busy, Behind, EpiPlace
<1>8. PICK t \in Nat \ {0} : t = 1 /\ t = v.executed + 1 /\ Owner(t) = g /\ Own(g) = t /\ Mul(g) = t /\ Pass(g) = t
  <2>1. Pass(g) = 1
    BY <1>4, OwnFacts
  <2>2. Own(g) = 1 /\ Mul(g) = 1
    BY <1>4, <1>7, <2>1, OwnFacts
  <2> QED BY <1>4, <1>5, <2>1, <2>2
<1>9. PICK a \in Nat, s \in Nat : a = AbPos(g) /\ s = SchedPos(g) /\ a = Before(t) /\ s = 0
                                  /\ old.ab = At(a, ABStages, 0) /\ old.sched = At(s, SchedStages, 0)
  <2>1. Before(Pass(g)) \in Nat /\ old.ab = At(AbPos(g), ABStages, 0) /\ old.sched = At(SchedPos(g), SchedStages, 0)
    BY PlaceFacts
  <2>2. AbPos(g) = Before(Pass(g)) + 0
    BY <1>7 DEF AbPos
  <2>3. SchedPos(g) = 0
    <3>1. SchedPos(g) = old.executed - 0
      BY <1>7 DEF SchedPos
    <3> QED BY <1>4, <3>1
  <2> QED BY <1>8, <2>1, <2>2, <2>3
<1>10. /\ Own(g)' = Own(g) /\ Mul(g)' = Mul(g) /\ CBase(g)' = CBase(g)
       /\ AbPos(g)' = a /\ SchedPos(g)' = SchedPos(g) /\ Freed(g)' = Freed(g) /\ Going(g)' = Going(g)
  <2>1. /\ Own(g)' = (IF Owner(t) = g THEN t ELSE t + 1)
        /\ Mul(g)' = (IF v.pc \in Behind THEN Own(g)' + 2 ELSE Own(g)')
        /\ AbPos(g)' = Before(t) + (IF v.pc \in Busy THEN v.k ELSE 0)
        /\ v.pc \notin {"skip", "take"} => SchedPos(g)' = v.executed
        /\ Freed(g)' = (IF v.pc \in Busy THEN v.k - v.flight ELSE 0)
        /\ Going(g)' = (IF v.pc = "mma" THEN v.k ELSE 0)
        /\ CBase(g)' = IF v.pc = "start" THEN 0 ELSE (Own(g)' - 1) * EpiTiles
    BY <1>3, <1>6, <1>8, PlacesAfter
  <2>2. CBase(g) = 0 /\ Freed(g) = 0 /\ Going(g) = 0
    BY <1>2, <1>7 DEF CBase, Freed, Going
  <2>3. AbPos(g)' = a + 0
    BY <1>7, <1>9, <2>1
  <2>4. Own(g)' = 1 /\ CBase(g)' = (1 - 1) * EpiTiles /\ EpiTiles \in Nat
    BY <1>7, <1>8, <2>1, SizeFacts
  <2> QED BY <1>4, <1>5, <1>7, <1>8, <1>9, <2>1, <2>2, <2>3, <2>4
\* Nobody has a turn before this step.
<1>11. /\ \A h \in WG : /\ turn["mma"][h] = 0 /\ turn["epi"][h] = 0
                        /\ wg[h].pc # "mma" /\ wg[h].pc \notin EpiPlace
       /\ Mul(1 - g) = Mul(g) + 1 /\ Own(1 - g) = Own(g) + 1
  <2>1. \A h \in WG : ~HasMma(h) /\ ~HasEpi(h) /\ turn["mma"][h] \in {0, 1} /\ turn["epi"][h] \in {0, 1}
    <3>1. ASSUME NEW h \in WG PROVE ~HasMma(h) /\ ~HasEpi(h) /\ turn["mma"][h] \in {0, 1} /\ turn["epi"][h] \in {0, 1}
      <4>1. wg[0].pc = "start" => ~HasMma(h) /\ ~HasEpi(h)
        BY DEF PingpongInv, TurnOK
      <4> QED BY <1>1, <1>2, <4>1, Order
    <3> QED BY <3>1
  <2>2. /\ Own(1 - g) = Own(g) + 1 \/ Own(g) = Own(1 - g) + 1
        /\ Mul(1 - g) = Mul(g) + 1 \/ Mul(g) = Mul(1 - g) + 1
        /\ Own(1 - g) \in Nat \ {0} /\ Mul(1 - g) \in Nat \ {0}
    BY <1>6, Order, OwnFacts
  <2>3. Own(1 - g) = Own(g) + 1 /\ Mul(1 - g) = Mul(g) + 1
    BY <1>8, <2>2
  <2> QED BY <2>1, <2>3 DEF HasMma, HasEpi
<1>12. turn' \in [{"mma", "epi"} -> [WG -> Nat]] /\ \A i \in {"mma", "epi"} : turn'[i][g] = 1 /\ turn'[i][1 - g] = 0
  <2>1. turn \in [{"mma", "epi"} -> [WG -> Nat]] /\ \A i \in {"mma", "epi"}, h \in WG : turn[i][h] = 0
    BY <1>11, OtherTypes
  <2> QED BY <1>2, <1>6, <2>1, Sides
<1>13. TypeOK'
  <2>1. /\ ab' \in [0 .. ABStages - 1 -> Stage] /\ cs' \in [0 .. CStages - 1 -> Stage]
        /\ slot' \in [0 .. SchedStages - 1 -> Slot] /\ dbuf' \in [0 .. EpiStages - 1 -> Content]
        /\ stores' \in [WG -> Seq([dst : Nat \X Nat, buf : 0 .. EpiStages - 1, read : BOOLEAN])]
    BY <1>2, OtherTypes
  <2> QED BY <1>2, <1>3, <1>5, <1>12, <2>1, TypeIntro
<1>14. WgOK(g)'
  <2>1. s <= Written' + 0
    <3>1. Written \in Nat /\ Written' = Written
      BY <1>2, <1>3, <1>6, LoadFacts, Frame
    <3> QED BY <1>9, <3>1
  <2>2. v.pc = "mmaSync" => v.tile = t /\ v.tile # Invalid
    BY <1>4, <1>5, <1>8
  <2>3. ~(v.flight > 0)
    BY <1>4, <1>5
  <2> QED BY <1>3, <1>5, <1>6, <1>7, <1>8, <1>9, <1>10, <2>1, <2>2, <2>3, WgIntro
<1>15. /\ StoresOK(1 - g)' /\ EpiOK(g)' /\ StoresOK(g)'
       /\ CLoaded(g)' = CLoaded(g) /\ CDone(g)' = CDone(g)
  BY <1>2, <1>3, <1>5, <1>6, <1>7, <1>8, <1>10, Frame, StillOutside
<1>16. SchedOK' /\ COK'
  BY <1>2, <1>3, <1>6, <1>10, <1>15, SchedFrame, CFrame
<1>17. AbOK'
  BY <1>2, <1>3, <1>5, <1>6, <1>10, AbFrame
<1>18. TurnOK'
  <2>1. Own(1 - g)' = Own(g)' + 1 /\ Mul(1 - g)' = Mul(g)' + 1
    BY <1>3, <1>6, <1>10, <1>11, PlaceStays
  <2>2. ~HasMma(1 - g)' /\ ~HasEpi(1 - g)'
    BY <1>6, <1>11, <1>12 DEF HasMma, HasEpi
  <2>3. ASSUME NEW h \in WG
        PROVE  /\ turn'["mma"][h] \in {0, 1} /\ turn'["epi"][h] \in {0, 1}
               /\ HasMma(h)' => Mul(1 - h)' = Mul(h)' + 1
               /\ HasEpi(h)' => Own(1 - h)' = Own(h)' + 1
               /\ wg'[h].pc = "mma" => turn'["mma"][h] = 0
               /\ wg'[h].pc \in EpiPlace => turn'["epi"][h] = 0
    <3>1. CASE h = g
      BY <1>6, <1>7, <1>12, <2>1, <3>1
    <3>2. CASE h = 1 - g
      BY <1>6, <1>11, <1>12, <2>2, <3>2
    <3> QED BY <3>1, <3>2, Sides
  <2>4. wg'[0].pc # "start" /\ Mul(1)' = Mul(0)' + 1 /\ Own(1)' = Own(0)' + 1
    BY <1>1, <1>6, <1>7, <2>1
  <2> QED BY <2>3, <2>4, TurnIntro
<1> QED BY <1>2, <1>3, <1>6, <1>13, <1>14, <1>15, <1>16, <1>17, <1>18, InvIntro

LEMMA StartSecondStep ==
  ASSUME TypeOK, PingpongInv, StartSecond
  PROVE  TypeOK' /\ PingpongInv'
<1>1. PICK g \in WG : g = 1 /\ 1 - g = 0
  BY DEF WG
<1> DEFINE old == wg[g]
<1>2. /\ old.pc = "start"
      /\ wg' = [wg EXCEPT ![g].pc = "take", ![g].executed = @ + 1,
                          ![g].ab = AdvanceIters(@, SkippedK(FirstTile), ABStages),
                          ![g].cRead = AdvanceC(@, EpiTiles), ![g].cLoad = AdvanceC(@, EpiTiles)]
      /\ load' = load /\ ab' = ab /\ cs' = cs /\ slot' = slot /\ turn' = turn
      /\ dbuf' = dbuf /\ stores' = stores /\ out' = out
  BY <1>1 DEF StartSecond
<1>3. shape' = shape
  BY DEF StartSecond
<1>4. /\ old.executed = 0 /\ old.flight = 0 /\ Owner(1) = 1 - g /\ Owner(2) = g
      /\ Pass(g) = 1 /\ Own(g) = 2 /\ Mul(g) = 2
  <2>1. WgOK(g) /\ old.flight \in Nat /\ Pass(g) = old.executed + 1
    BY PlaceFacts, WgFacts, OwnFacts
  <2>2. old.executed = 0 /\ old.flight = 0 /\ Owner(1) = 0 /\ Owner(2) = 1 /\ old.pc \notin Behind
    BY <1>2, <2>1 DEF WgOK, Owner, Behind, EpiPlace
  <2>3. Own(g) = (IF Owner(Pass(g)) = g THEN Pass(g) ELSE Pass(g) + 1) /\ Mul(g) = IF old.pc \in Behind THEN Own(g) + 2 ELSE Own(g)
    BY OwnFacts
  <2> QED BY <1>1, <2>1, <2>2, <2>3
<1>5. PICK a \in Nat, s \in Nat, b \in Nat, q \in PipeState :
         /\ a = Before(1) /\ s = SchedPos(g) /\ s = 0 /\ old.sched = At(s, SchedStages, 0)
         /\ b = Before(2) /\ q = AdvanceIters(old.ab, SkippedK(FirstTile), ABStages) /\ q = At(b, ABStages, 0)
  <2>1. /\ Before(1) \in Nat /\ old.ab = At(AbPos(g), ABStages, 0) /\ old.sched = At(SchedPos(g), SchedStages, 0)
    BY <1>4, PlaceFacts
  <2>2. AbPos(g) = Before(1) /\ SchedPos(g) = 0
    <3>1. AbPos(g) = Before(1) + 0 /\ SchedPos(g) = old.executed - 0
      BY <1>2, <1>4 DEF AbPos, SchedPos, Busy, Behind, EpiPlace
    <3> QED BY <1>4, <2>1, <3>1
  <2>3. shape \in Shapes
    BY DEF TypeOK
  <2>4. SkippedK(FirstTile) = KTiles(1) /\ KTiles(1) \in Nat
    <3>1. CASE shape.varlenK
      <4>1. FirstTile = 1 /\ KCount(1) = KTiles(1) /\ KTiles(1) \in Nat
        BY <2>3, <3>1, ShapeFacts DEF FirstTile
      <4> QED BY <3>1, <4>1 DEF SkippedK
    <3>2. CASE ~shape.varlenK
      BY <2>3, <3>2, ShapeFacts DEF SkippedK
    <3> QED BY <3>1, <3>2
  <2>5. Before(1 + 1) = Before(1) + KTiles(1)
    <3>1. 1 \in Nat \ {0}
      OBVIOUS
    <3> QED BY <2>3, <3>1, BeforeNext
  <2>6. PICK m \in Nat, k \in Nat : m = Before(1) /\ k = KTiles(1) /\ m + k = Before(2)
    BY <2>1, <2>4, <2>5
  <2>7. AdvanceIters(At(m, ABStages, 0), k, ABStages) = At(m + k, ABStages, 0) /\ At(m + k, ABStages, 0) \in PipeState
    <3>1. 0 \in {0, 1} /\ ABStages \in Nat \ {0} /\ m + k \in Nat
      BY SizeFacts
    <3>2. AdvanceIters(At(m, ABStages, 0), k, ABStages) = At(m + k, ABStages, 0)
      BY <3>1, AdvanceAt
    <3> QED BY <3>1, <3>2, AtFacts
  <2> QED BY <2>1, <2>2, <2>4, <2>6, <2>7
<1>6. PICK r \in PipeState, w \in PipeState :
         /\ r = AdvanceC(old.cRead, EpiTiles) /\ w = AdvanceC(old.cLoad, EpiTiles)
         /\ CStages > 0 => r = At(EpiTiles, CStages, 0) /\ w = At(EpiTiles, CStages, 1)
  <2>1. old.pc \notin EpiPlace /\ old.cRead \in PipeState /\ old.cLoad \in PipeState /\ CBase(g) = 0
    BY <1>2, WgFacts DEF EpiPlace, CBase
  <2>2. CStages > 0 => old.cRead = At(0, CStages, 0) /\ old.cLoad = At(0, CStages, 1)
    BY <2>1, OutsideEpi
  <2>3. 0 \in Nat /\ 0 \in {0, 1} /\ 1 \in {0, 1} /\ 0 + EpiTiles = EpiTiles
    BY SizeFacts
  <2>4. AdvanceC(old.cRead, EpiTiles) \in PipeState /\ (CStages > 0 => AdvanceC(old.cRead, EpiTiles) = At(0 + EpiTiles, CStages, 0))
    BY <2>1, <2>2, <2>3, AdvanceCPast
  <2>5. AdvanceC(old.cLoad, EpiTiles) \in PipeState /\ (CStages > 0 => AdvanceC(old.cLoad, EpiTiles) = At(0 + EpiTiles, CStages, 1))
    BY <2>1, <2>2, <2>3, AdvanceCPast
  <2> QED BY <2>3, <2>4, <2>5
<1>7. PICK v \in WgState :
         /\ wg' = [wg EXCEPT ![g] = v] /\ v.pc = "take" /\ v.executed = 1 /\ v.ab = q /\ v.cRead = r /\ v.cLoad = w
         /\ v.tile = old.tile /\ v.k = old.k /\ v.e = old.e
         /\ v.flight = old.flight /\ v.rel = old.rel /\ v.sched = old.sched
  <2> DEFINE v == [old EXCEPT !.pc = "take", !.executed = 1, !.ab = q, !.cRead = r, !.cLoad = w]
  <2>1. old \in WgState /\ wg \in [WG -> WgState] /\ "take" \in Busy \cup Idle
    BY OtherTypes DEF Idle
  <2>2. wg' = [wg EXCEPT ![g] = v]
    BY <1>2, <1>4, <1>5, <1>6, <2>1 DEF WgState
  <2>3. /\ v \in WgState /\ v.pc = "take" /\ v.executed = 1 /\ v.ab = q /\ v.cRead = r /\ v.cLoad = w
        /\ v.tile = old.tile /\ v.k = old.k /\ v.e = old.e
        /\ v.flight = old.flight /\ v.rel = old.rel /\ v.sched = old.sched
    BY <2>1 DEF WgState
  <2> QED BY <2>2, <2>3
<1>8. wg'[g] = v /\ wg'[1 - g] = wg[1 - g] /\ 1 - g \in WG
  BY <1>7, OtherTypes, Sides
<1>9. /\ v.pc \notin Busy /\ v.pc \notin Behind /\ v.pc \notin EpiPlace
      /\ old.pc \notin Busy /\ old.pc \notin Behind /\ old.pc \notin EpiPlace
      /\ v.pc \notin {"start", "skip", "mma", "mmaSync", "drain"} /\ old.pc \notin {"skip", "take", "mma"}
  BY <1>2, <1>7 DEF Busy, Behind, EpiPlace
<1>10. PICK t \in Nat \ {0} : t = 2 /\ t = v.executed + 1 /\ Owner(t) = g /\ Own(g) = t /\ Mul(g) = t
  BY <1>4, <1>7
<1>11. /\ Own(g)' = t /\ Mul(g)' = t /\ CBase(g)' = EpiTiles /\ AbPos(g)' = b /\ SchedPos(g)' = s
       /\ Freed(g)' = 0 /\ Going(g)' = 0 /\ Freed(g) = 0 /\ Going(g) = 0
       /\ CLoaded(g)' = 0 /\ CDone(g)' = 0 /\ CLoaded(g) = 0 /\ CDone(g) = 0
  <2>1. /\ Own(g)' = (IF Owner(t) = g THEN t ELSE t + 1)
        /\ Mul(g)' = (IF v.pc \in Behind THEN Own(g)' + 2 ELSE Own(g)')
        /\ AbPos(g)' = Before(t) + (IF v.pc \in Busy THEN v.k ELSE 0)
        /\ v.pc \in {"skip", "take"} => SchedPos(g)' = v.executed - 1
        /\ Freed(g)' = (IF v.pc \in Busy THEN v.k - v.flight ELSE 0)
        /\ Going(g)' = (IF v.pc = "mma" THEN v.k ELSE 0)
        /\ v.pc \notin EpiPlace => CLoaded(g)' = 0 /\ CDone(g)' = 0
        /\ CBase(g)' = IF v.pc = "start" THEN 0 ELSE (Own(g)' - 1) * EpiTiles
    BY <1>3, <1>8, <1>10, PlacesAfter
  <2>2. Freed(g) = 0 /\ Going(g) = 0
    BY <1>9 DEF Freed, Going
  <2>3. CLoaded(g) = 0 /\ CDone(g) = 0
    BY <1>9, OutsideEpi
  <2>4. AbPos(g)' = b + 0
    BY <1>5, <1>9, <1>10, <2>1
  <2>5. CBase(g)' = (2 - 1) * EpiTiles /\ EpiTiles \in Nat
    BY <1>9, <1>10, <2>1, SizeFacts
  <2>6. SchedPos(g)' = v.executed - 1 /\ Own(g)' = t
    BY <1>7, <1>10, <2>1
  <2>7. Mul(g)' = t /\ Freed(g)' = 0 /\ Going(g)' = 0 /\ CLoaded(g)' = 0 /\ CDone(g)' = 0
    BY <1>9, <2>1, <2>6
  <2> QED BY <1>5, <1>7, <2>2, <2>3, <2>4, <2>5, <2>6, <2>7
<1>12. TypeOK'
  <2>1. /\ ab' \in [0 .. ABStages - 1 -> Stage] /\ cs' \in [0 .. CStages - 1 -> Stage]
        /\ slot' \in [0 .. SchedStages - 1 -> Slot] /\ dbuf' \in [0 .. EpiStages - 1 -> Content]
        /\ stores' \in [WG -> Seq([dst : Nat \X Nat, buf : 0 .. EpiStages - 1, read : BOOLEAN])]
        /\ turn' \in [{"mma", "epi"} -> [WG -> Nat]]
    BY <1>2, OtherTypes
  <2> QED BY <1>2, <1>3, <1>7, <2>1, TypeIntro
<1>13. WgOK(g)'
  <2>1. s <= Written' + (IF v.pc = "take" /\ ~shape.varlenK THEN 1 ELSE 0)
    <3>1. Written' = Written
      BY <1>2, <1>3, <1>8, Frame
    <3>2. Written \in Nat
      BY LoadFacts
    <3> QED BY <1>5, <3>1, <3>2
  <2>2. ~(v.flight > 0) /\ v.executed > 0
    BY <1>4, <1>7
  <2> QED BY <1>3, <1>5, <1>7, <1>8, <1>9, <1>10, <1>11, <2>1, <2>2, WgIntro
<1>14. EpiOK(g)'
  <2>1. CBase(g)' + CDone(g)' = EpiTiles /\ CBase(g)' + CLoaded(g)' = EpiTiles
    BY <1>11, SizeFacts
  <2>2. CStages > 0 => v.cRead = At(CBase(g)' + CDone(g)', CStages, 0) /\ v.cLoad = At(CBase(g)' + CLoaded(g)', CStages, 1)
    BY <1>6, <1>7, <2>1
  <2> QED BY <1>7, <1>8, <2>2 DEF EpiOK, At
<1>15. StoresOK(g)' /\ StoresOK(1 - g)'
  <2>1. Len(stores'[g]) = 0
    BY <1>2, <1>9, OutsideEpi
  <2>2. StoresOK(g)'
    <3>1. v.e \in Nat /\ EpiStages \in Nat
      BY VFacts, SizeFacts
    <3>2. v.pc # "write"
      BY <1>7
    <3> QED BY <1>8, <1>9, <2>1, <3>1, <3>2 DEF StoresOK
  <2> QED BY <1>2, <1>3, <1>8, <2>2, Frame
<1>16. SchedOK' /\ COK'
  BY <1>2, <1>3, <1>5, <1>8, <1>10, <1>11, SchedFrame, CFrame
<1>17. AbOK'
  <2>1. \A x \in Items : IsFree(x)' <=> IsFree(x)
    <3>1. wg'[g].executed = 1 /\ wg[g].executed = 0 /\ Owner(wg[g].executed + 1) # g
      BY <1>1, <1>4, <1>7, <1>8
    <3>2. ASSUME NEW i \in Nat, i > wg[g].executed, i <= wg'[g].executed, Owner(i) = g PROVE FALSE
      <4>1. i = 1
        BY <3>1, <3>2
      <4> QED BY <1>1, <1>4, <3>2, <4>1
    <3>3. wg[g].executed <= wg'[g].executed /\ wg'[g].executed \in Nat /\ wg[g].executed # wg'[g].executed
      BY <3>1
    <3> QED BY <1>3, <1>8, <1>11, <3>1, <3>2, <3>3, PassedOver
  <2>2. Issued' = Issued /\ Loaded' = Loaded
    BY <1>2, <1>3, <1>8, <1>10, <1>11, IssuedStays, Frame
  <2> QED BY <1>2, <1>3, <2>1, <2>2, AbStays
<1>18. TurnOK'
  BY <1>2, <1>3, <1>8, <1>9, <1>10, <1>11, TurnFrame
<1> QED BY <1>2, <1>3, <1>8, <1>12, <1>13, <1>14, <1>15, <1>16, <1>17, <1>18, InvIntro

\* Where the states of a warp group go when it leaves its epilogue: past the
\* tile t it had and, without varlen_k, past the one behind it.
GoesTo(g, t, f, u, n, b, q, z) ==
  /\ t = Pass(g) /\ t = wg[g].executed + 1 /\ Owner(t) = g /\ Own(g) = t /\ u = f + 1
  /\ wg[g].flight = 0 /\ Freed(g) = KTiles(t) /\ Going(g) = 0 /\ SchedPos(g) = wg[g].executed
  /\ f = (IF shape.varlenK THEN wg[g].executed + 1 ELSE wg[g].executed + 2)
  /\ (IF Owner(u) = g THEN u ELSE u + 1) = t + 2
  /\ Owner(u) = g <=> ~shape.varlenK
  /\ n = f - 1 /\ n <= Written + (IF ~shape.varlenK THEN 1 ELSE 0)
  /\ n = (IF shape.varlenK THEN SchedPos(g) ELSE SchedPos(g) + 1)
  /\ b = Before(u) /\ q = At(b, ABStages, 0) /\ z = At(n, SchedStages, 0)
  /\ q = (IF shape.varlenK THEN wg[g].ab ELSE AdvanceIters(wg[g].ab, shape.staticK, ABStages))
  /\ z = (IF shape.varlenK THEN wg[g].sched ELSE Advance(wg[g].sched, SchedStages))

LEMMA FinishPlaces ==
  ASSUME TypeOK, PingpongInv, NEW g \in WG, wg[g].pc = "storeTail"
  PROVE  \E t \in Nat \ {0}, f \in Nat, u \in Nat \ {0}, n \in Nat, b \in Nat, q \in PipeState, z \in PipeState :
           GoesTo(g, t, f, u, n, b, q, z)
<1> DEFINE old == wg[g]
<1>1. /\ old.pc \in Busy /\ old.pc \in Behind /\ old.pc \notin {"take", "skip", "mma", "drain"}
  BY DEF Busy, Behind, EpiPlace
<1>2. PICK x \in Nat, t \in Nat \ {0}, a \in Nat, m \in Nat :
         /\ x = old.executed /\ t = x + 1 /\ t = Pass(g) /\ Owner(t) = g /\ Own(g) = t
         /\ old.flight = 0 /\ old.k = KTiles(t) /\ a = AbPos(g) /\ m = Before(t) /\ a = m + KTiles(t)
         /\ KTiles(t) \in Nat
         /\ old.ab = At(a, ABStages, 0) /\ old.sched = At(x, SchedStages, 0) /\ SchedPos(g) = x /\ x <= Written
  <2>1. /\ WgOK(g) /\ Before(Pass(g)) \in Nat /\ AbPos(g) \in Nat /\ SchedPos(g) \in Nat
        /\ old.ab = At(AbPos(g), ABStages, 0) /\ old.sched = At(SchedPos(g), SchedStages, 0)
        /\ Owner(Pass(g)) = g /\ Own(g) = Pass(g)
    BY <1>1, PlaceFacts
  <2>2. old.executed \in Nat /\ old.flight \in Nat /\ old.k \in Nat /\ Pass(g) \in Nat \ {0} /\ Pass(g) = old.executed + 1
    BY WgFacts, OwnFacts
  <2>3. old.flight = 0 /\ old.k = KTiles(Pass(g))
    BY <1>1, <2>1, <2>2 DEF WgOK
  <2>4. AbPos(g) = Before(Pass(g)) + old.k
    BY <1>1 DEF AbPos
  <2>5. SchedPos(g) = old.executed - 0
    BY <1>1 DEF SchedPos
  <2>6. SchedPos(g) <= Written + (IF old.pc = "take" /\ ~shape.varlenK THEN 1 ELSE 0)
    BY <2>1 DEF WgOK
  <2>7. Written \in Nat
    BY LoadFacts
  <2>8. SchedPos(g) = old.executed /\ SchedPos(g) <= Written
    BY <1>1, <2>2, <2>5, <2>6, <2>7
  <2> QED BY <2>1, <2>2, <2>3, <2>4, <2>8
<1>3. Freed(g) = KTiles(t) /\ Going(g) = 0
  <2>1. Freed(g) = old.k - old.flight
    BY <1>1 DEF Freed
  <2>2. Freed(g) = KTiles(t)
    BY <1>2, <2>1
  <2> QED BY <1>1, <2>2 DEF Going
<1>4. Owner(t + 1) # g /\ Owner(t + 2) = g /\ Before(t + 1) = a
  <2>1. Owner(t + 1) = 1 - Owner(t) /\ Owner(t + 2) = Owner(t)
    BY OwnerFacts
  <2>2. shape \in Shapes /\ Before(t + 1) = Before(t) + KTiles(t)
    BY BeforeNext DEF TypeOK
  <2> QED BY <1>2, <2>1, <2>2, Sides
<1>5. Written \in Nat
  BY LoadFacts
<1>6. CASE shape.varlenK
  <2>1. x + 1 \in Nat /\ t + 1 \in Nat \ {0} /\ x + 1 + 1 = t + 1 /\ x = x + 1 - 1 /\ t + 1 + 1 = t + 2
    BY <1>2
  <2>2. old.ab \in PipeState /\ old.sched \in PipeState
    BY WgFacts
  <2>3. x <= Written + 0 /\ x <= Written
    <3>1. x <= Written
      BY <1>2
    <3> QED BY <1>5, <3>1
  <2>4. GoesTo(g, t, x + 1, t + 1, x, a, old.ab, old.sched)
    BY <1>2, <1>3, <1>4, <1>6, <2>1, <2>3 DEF GoesTo
  <2> QED BY <2>1, <2>2, <2>4
<1>7. CASE ~shape.varlenK
  <2>1. /\ x + 2 \in Nat /\ t + 2 \in Nat \ {0} /\ x + 2 + 1 = t + 2 /\ x + 1 = x + 2 - 1 /\ x + 1 \in Nat
        /\ x + 1 <= Written + 1
    BY <1>2, <1>5
  <2>2. PICK k \in Nat : k = shape.staticK /\ k = KTiles(t + 1) /\ Before(t + 2) = a + k
    <3>1. shape \in Shapes /\ t + 1 \in Nat \ {0}
      BY DEF TypeOK
    <3>2. KTiles(t + 1) = shape.staticK /\ shape.staticK \in Nat
      BY <1>7, <3>1, ShapeFacts
    <3>3. Before(t + 1 + 1) = Before(t + 1) + KTiles(t + 1) /\ t + 1 + 1 = t + 2
      BY <3>1, BeforeNext
    <3> QED BY <1>4, <3>2, <3>3
  <2>3. a + k \in Nat /\ 0 \in {0, 1} /\ ABStages \in Nat \ {0} /\ SchedStages \in Nat \ {0}
    BY SizeFacts
  <2>4. AdvanceIters(At(a, ABStages, 0), k, ABStages) = At(a + k, ABStages, 0) /\ At(a + k, ABStages, 0) \in PipeState
    <3>1. 0 \in {0, 1} /\ ABStages \in Nat \ {0}
      BY SizeFacts
    <3>2. AdvanceIters(At(a, ABStages, 0), k, ABStages) = At(a + k, ABStages, 0)
      BY <3>1, AdvanceAt
    <3> QED BY <2>3, <3>2, AtFacts
  <2>5. Advance(At(x, SchedStages, 0), SchedStages) = At(x + 1, SchedStages, 0) /\ At(x + 1, SchedStages, 0) \in PipeState
    <3>1. Advance(At(x, SchedStages, 0), SchedStages) = At(x + 1, SchedStages, 0)
      BY <2>3, AdvanceOne
    <3> QED BY <2>1, <2>3, <3>1, AtFacts
  <2>6. GoesTo(g, t, x + 2, t + 2, x + 1, a + k, At(a + k, ABStages, 0), At(x + 1, SchedStages, 0))
    BY <1>2, <1>3, <1>4, <1>7, <2>1, <2>2, <2>4, <2>5 DEF GoesTo
  <2> QED BY <2>1, <2>3, <2>4, <2>5, <2>6
<1> QED BY <1>6, <1>7

\* No write that warp group g reads lies between the two places.
LEMMA FinishSched ==
  ASSUME TypeOK, PingpongInv, NEW g \in WG, shape' = shape, load' = load, wg'[1 - g] = wg[1 - g], slot' = slot,
         NEW x \in Nat, x = SchedPos(g), Owner(x + 1) = g,
         SchedPos(g)' = (IF shape.varlenK THEN x ELSE x + 1)
  PROVE  SchedOK'
<1>1. CASE shape.varlenK
  BY <1>1, SchedFrame
<1>2. CASE ~shape.varlenK
  <2>1. Written' = Written /\ Taken' = Taken
    BY Frame
  <2>2. 1 - g \in WG /\ \A h \in WG : h = g \/ h = 1 - g
    BY Sides
  <2>3. SchedPos(1 - g)' = SchedPos(1 - g)
    BY <2>2, PlaceStays
  <2>4. ASSUME NEW i \in Nat PROVE Waits(g, i)' = Waits(g, i) /\ Waits(1 - g, i)' = Waits(1 - g, i)
    <3>1. Readers(i)' = Readers(i) /\ Readers(i) = {Owner(i)}
      BY <1>2, ShapeStays, ReaderFacts
    <3>2. CASE i = x
      <4>1. Owner(x) \in WG /\ Owner(x + 1) = 1 - Owner(x)
        BY OwnerFacts
      <4>2. g \notin Readers(i)
        BY <3>1, <3>2, <4>1, Sides
      <4> QED BY <2>3, <3>1, <4>2 DEF Waits
    <3>3. CASE i # x
      <4>1. x <= i <=> x + 1 <= i
        BY <3>3
      <4> QED BY <1>2, <2>3, <3>1, <4>1 DEF Waits
    <3> QED BY <3>2, <3>3
  <2>5. ASSUME NEW i \in Nat PROVE Waits(0, i)' = Waits(0, i) /\ Waits(1, i)' = Waits(1, i)
    <3>1. CASE g = 0
      BY <2>4, <3>1
    <3>2. CASE g = 1
      BY <2>4, <3>2
    <3> QED BY <3>1, <3>2 DEF WG
  <2> QED BY <2>1, <2>5, SchedStays
<1> QED BY <1>1, <1>2

\* The ring of C goes to the other warp group.
LEMMA FinishC ==
  ASSUME TypeOK, PingpongInv, NEW g \in WG, wg[g].pc = "storeTail", shape' = shape, wg'[1 - g] = wg[1 - g], cs' = cs,
         Own(g)' = Own(g) + 2
  PROVE  COK'
<1>1. wg[g].pc \in EpiPlace
  BY DEF EpiPlace
<1>2. PICK h \in WG, t \in Nat \ {0} :
         /\ h = 1 - g /\ t = Own(g) /\ Own(h) = t + 1 /\ Own(h)' = t + 1 /\ Own(g)' = t + 2 /\ wg[h].pc \notin EpiPlace
         /\ Owner(t + 1) = h
  <2>1. 1 - g \in WG /\ Own(g) \in Nat \ {0} /\ Own(1 - g) = Own(g) + 1 /\ wg[1 - g].pc \notin EpiPlace
    BY <1>1, Sides, OwnFacts, CFacts
  <2>2. Own(1 - g)' = Own(1 - g)
    BY <2>1, PlaceStays
  <2>3. Owner(Own(1 - g)) = 1 - g
    BY <2>1, OwnFacts
  <2> QED BY <2>1, <2>2, <2>3
<1>3. NextOwn' = t + 1
  <2>1. CASE g = 0
    BY <1>2, <2>1 DEF NextOwn, SmallerOf
  <2>2. CASE g = 1
    BY <1>2, <2>2 DEF NextOwn, SmallerOf
  <2> QED BY <2>1, <2>2 DEF WG
<1>4. Owner(NextOwn') = h
  BY <1>2, <1>3
<1>5. CLoaded(h)' = 0 /\ CDone(h)' = 0
  <2>1. CLoaded(h) = 0 /\ CDone(h) = 0
    BY <1>2, OutsideEpi
  <2>2. CLoaded(h)' = CLoaded(h) /\ CDone(h)' = CDone(h)
    BY <1>2, PlaceStays
  <2> QED BY <2>1, <2>2
<1>6. PICK l \in Nat : l = (t - 1) * EpiTiles + EpiTiles /\ l = ((t + 1) - 1) * EpiTiles
  <2>1. (t - 1) * EpiTiles \in Nat /\ ((t + 1) - 1) * EpiTiles = (t - 1) * EpiTiles + EpiTiles /\ EpiTiles \in Nat
    BY BaseFacts, SizeFacts
  <2> QED BY <2>1
<1>7. (NextOwn' - 1) * EpiTiles + CLoaded(h)' = l /\ (NextOwn' - 1) * EpiTiles + CDone(h)' = l
  <2>1. (NextOwn' - 1) * EpiTiles = l
    BY <1>3, <1>6
  <2> QED BY <1>5, <2>1
<1>8. ASSUME CStages > 0
      PROVE  /\ \A s \in 0 .. CStages - 1 : s >= l => cs'[s] = EmptyStage
             /\ \A p \in Nat : p < l /\ p >= l - CStages =>
                  StageOK(cs'[p % CStages], CItem(p), p \div CStages, p < l, p < l)
  <2>1. CLoaded(g) = EpiTiles /\ CDone(g) = EpiTiles
    <3>1. EpiOK(g) /\ EpiTiles \in Nat /\ CStages \in Nat
      BY PlaceFacts, SizeFacts
    <3>2. wg[g].e = EpiTiles
      BY <3>1 DEF EpiOK
    <3> QED BY <3>1, <3>2 DEF CLoaded, CDone, SmallerOf
  <2>2. CBase(g) + EpiTiles = l
    <3>1. CBase(g) = (Own(g) - 1) * EpiTiles
      BY <1>1, CFacts
    <3> QED BY <1>2, <1>6, <3>1
  <2>3. l = CBase(g) + CLoaded(g) /\ l = CBase(g) + CDone(g) /\ CStages > 0
    BY <1>8, <2>1, <2>2
  <2>4. \A s \in 0 .. CStages - 1 : s >= l => cs[s] = EmptyStage
    BY <1>1, <2>3, CFacts
  <2>5. \A p \in Nat : p < l /\ p >= l - CStages => StageOK(cs[p % CStages], CItem(p), p \div CStages, p < l, p < l)
    BY <1>1, <2>3, CFacts
  <2> QED BY <2>4, <2>5
<1> QED BY <1>4, <1>7, <1>8, CIntro

LEMMA FinishStep ==
  ASSUME TypeOK, PingpongInv, NEW g \in WG, Finish(g)
  PROVE  TypeOK' /\ PingpongInv'
<1> DEFINE old == wg[g]
<1>1. /\ old.pc = "storeTail" /\ stores' = [stores EXCEPT ![g] = LastOnes(g, 0)] /\ Arrive("epi", 1 - g)
      /\ load' = load /\ ab' = ab /\ cs' = cs /\ slot' = slot /\ dbuf' = dbuf /\ out' = out
  BY DEF Finish, StoreTail, WaitStores
<1>2. shape' = shape
  BY DEF Finish
<1>3. PICK t \in Nat \ {0}, f \in Nat, u \in Nat \ {0}, n \in Nat, b \in Nat, q \in PipeState, z \in PipeState :
        GoesTo(g, t, f, u, n, b, q, z)
  BY <1>1, FinishPlaces
<1>4. /\ old.pc \in Busy /\ old.pc \in Behind /\ old.pc \in EpiPlace
      /\ old.pc # "mma" /\ old.pc # "start"
  BY <1>1 DEF Busy, Behind, EpiPlace
<1>5. PICK c \in Nat, r \in PipeState, w \in PipeState :
         /\ r = AdvanceC(old.cRead, EpiTiles) /\ w = AdvanceC(old.cLoad, EpiTiles)
         /\ c = ((t + 2) - 1) * EpiTiles
         /\ CStages > 0 => r = At(c, CStages, 0) /\ w = At(c, CStages, 1)
  <2>1. PICK d \in Nat, e \in Nat :
           d = (t - 1) * EpiTiles /\ e = EpiTiles /\ ((t + 2) - 1) * EpiTiles = d + 2 * e
    BY BaseFacts, SizeFacts
  <2>2. old.cRead \in PipeState /\ old.cLoad \in PipeState
    BY WgFacts
  <2>3. CStages > 0 => old.cRead = At(d + e, CStages, 0) /\ old.cLoad = At(d + e, CStages, 1)
    <3>1. ASSUME CStages > 0 PROVE CLoaded(g) = e /\ CDone(g) = e
      <4>1. EpiOK(g) /\ EpiTiles \in Nat /\ CStages \in Nat
        BY PlaceFacts, SizeFacts
      <4>2. wg[g].e = EpiTiles
        BY <1>1, <4>1 DEF EpiOK
      <4> QED BY <1>1, <2>1, <3>1, <4>1, <4>2 DEF CLoaded, CDone, SmallerOf
    <3>2. CBase(g) = d
      <4>1. CBase(g) = (Own(g) - 1) * EpiTiles
        BY <1>4, CFacts
      <4> QED BY <1>3, <2>1, <4>1 DEF GoesTo
    <3>3. CStages > 0 => old.cRead = At(CBase(g) + CDone(g), CStages, 0) /\ old.cLoad = At(CBase(g) + CLoaded(g), CStages, 1)
      BY <1>4, CFacts
    <3> QED BY <3>1, <3>2, <3>3
  <2>4. 0 \in {0, 1} /\ 1 \in {0, 1} /\ d + e \in Nat /\ d + 2 * e \in Nat /\ d + e + e = d + 2 * e
    OBVIOUS
  <2>5. /\ AdvanceC(old.cRead, EpiTiles) \in PipeState
        /\ CStages > 0 => AdvanceC(old.cRead, EpiTiles) = At(d + e + EpiTiles, CStages, 0)
    BY <2>2, <2>3, <2>4, AdvanceCPast
  <2>6. /\ AdvanceC(old.cLoad, EpiTiles) \in PipeState
        /\ CStages > 0 => AdvanceC(old.cLoad, EpiTiles) = At(d + e + EpiTiles, CStages, 1)
    BY <2>2, <2>3, <2>4, AdvanceCPast
  <2>7. d + e + EpiTiles = d + 2 * e
    BY <2>1, <2>4
  <2> QED BY <2>1, <2>4, <2>5, <2>6, <2>7
<1>6. PICK v \in WgState :
         /\ wg' = [wg EXCEPT ![g] = v] /\ v.pc = (IF shape.varlenK THEN "skip" ELSE "take") /\ v.executed = f
         /\ v.ab = q /\ v.sched = z /\ v.cRead = r /\ v.cLoad = w
         /\ v.tile = old.tile /\ v.k = old.k /\ v.e = old.e /\ v.flight = old.flight /\ v.rel = old.rel
  <2> DEFINE p == IF shape.varlenK THEN "skip" ELSE "take"
             v == [old EXCEPT !.cRead = r, !.cLoad = w, !.pc = p, !.executed = f, !.ab = q, !.sched = z]
  <2>1. old \in WgState /\ wg \in [WG -> WgState] /\ p \in Busy \cup Idle
    BY OtherTypes DEF Idle
  <2>2. wg' = [wg EXCEPT ![g] = v]
    <3>1. wg' = [wg EXCEPT ![g] =
             IF shape.varlenK
               THEN [[old EXCEPT !.cRead = r, !.cLoad = w] EXCEPT !.pc = "skip", !.executed = @ + 1]
               ELSE [[old EXCEPT !.cRead = r, !.cLoad = w] EXCEPT !.pc = "take", !.executed = @ + 2,
                            !.ab = AdvanceIters(@, shape.staticK, ABStages),
                            !.sched = Advance(@, SchedStages)]]
      BY <1>5 DEF Finish
    <3>2. CASE shape.varlenK
      <4>1. f = old.executed + 1 /\ q = old.ab /\ z = old.sched
        BY <1>3, <3>2 DEF GoesTo
      <4>2. wg' = [wg EXCEPT ![g] = [[old EXCEPT !.cRead = r, !.cLoad = w] EXCEPT !.pc = "skip", !.executed = @ + 1]]
        BY <3>1, <3>2
      <4>3. v = [[old EXCEPT !.cRead = r, !.cLoad = w] EXCEPT !.pc = "skip", !.executed = @ + 1]
        BY <2>1, <3>2, <4>1 DEF WgState
      <4> QED BY <4>2, <4>3
    <3>3. CASE ~shape.varlenK
      <4>1. f = old.executed + 2 /\ q = AdvanceIters(old.ab, shape.staticK, ABStages) /\ z = Advance(old.sched, SchedStages)
        BY <1>3, <3>3 DEF GoesTo
      <4>2. wg' = [wg EXCEPT ![g] = [[old EXCEPT !.cRead = r, !.cLoad = w] EXCEPT !.pc = "take", !.executed = @ + 2,
                            !.ab = AdvanceIters(@, shape.staticK, ABStages),
                            !.sched = Advance(@, SchedStages)]]
        BY <3>1, <3>3
      <4>3. v = [[old EXCEPT !.cRead = r, !.cLoad = w] EXCEPT !.pc = "take", !.executed = @ + 2,
                            !.ab = AdvanceIters(@, shape.staticK, ABStages),
                            !.sched = Advance(@, SchedStages)]
        BY <2>1, <3>3, <4>1 DEF WgState
      <4> QED BY <4>2, <4>3
    <3> QED BY <3>2, <3>3
  <2> HIDE DEF p
  <2>3. /\ v \in WgState /\ v.pc = p /\ v.executed = f /\ v.ab = q /\ v.sched = z /\ v.cRead = r /\ v.cLoad = w
        /\ v.tile = old.tile /\ v.k = old.k /\ v.e = old.e /\ v.flight = old.flight /\ v.rel = old.rel
    BY <2>1 DEF WgState
  <2> QED BY <2>2, <2>3 DEF p
<1>7. wg'[g] = v /\ wg'[1 - g] = wg[1 - g] /\ 1 - g \in WG
  BY <1>6, OtherTypes, Sides
<1>8. /\ v.pc \in {"skip", "take"} /\ v.pc \notin Busy /\ v.pc \notin Behind /\ v.pc \notin EpiPlace
      /\ v.pc \notin {"start", "mma", "mmaSync", "drain"}
  BY <1>6 DEF Busy, Behind, EpiPlace
<1>9. /\ t = Own(g) /\ u = v.executed + 1 /\ Own(g)' = t + 2 /\ Mul(g)' = Mul(g) /\ CBase(g)' = c
      /\ AbPos(g)' = b /\ SchedPos(g)' = n /\ Freed(g)' = 0 /\ Going(g)' = Going(g)
      /\ CLoaded(g)' = 0 /\ CDone(g)' = 0
  <2>1. u = v.executed + 1
    BY <1>3, <1>6 DEF GoesTo
  <2>2. /\ Own(g)' = (IF Owner(u) = g THEN u ELSE u + 1)
        /\ Mul(g)' = (IF v.pc \in Behind THEN Own(g)' + 2 ELSE Own(g)')
        /\ AbPos(g)' = Before(u) + (IF v.pc \in Busy THEN v.k ELSE 0)
        /\ v.pc \in {"skip", "take"} => SchedPos(g)' = v.executed - 1
        /\ Freed(g)' = (IF v.pc \in Busy THEN v.k - v.flight ELSE 0)
        /\ Going(g)' = (IF v.pc = "mma" THEN v.k ELSE 0)
        /\ v.pc \notin EpiPlace => CLoaded(g)' = 0 /\ CDone(g)' = 0
        /\ CBase(g)' = IF v.pc = "start" THEN 0 ELSE (Own(g)' - 1) * EpiTiles
    BY <1>2, <1>7, <2>1, PlacesAfter
  <2>3. Own(g)' = t + 2 /\ t = Own(g)
    BY <1>3, <2>2 DEF GoesTo
  <2>4. Mul(g) = Own(g) + 2
    BY <1>4 DEF Mul
  <2>5. Going(g) = 0 /\ b = Before(u) /\ n = f - 1
    BY <1>3 DEF GoesTo
  <2>6. AbPos(g)' = b + 0
    BY <1>8, <2>2, <2>5
  <2>7. CBase(g)' = c
    BY <1>5, <1>8, <2>2, <2>3
  <2>8. SchedPos(g)' = n
    BY <1>6, <1>8, <2>2, <2>5
  <2>9. Mul(g)' = Mul(g) /\ Freed(g)' = 0 /\ Going(g)' = Going(g) /\ CLoaded(g)' = 0 /\ CDone(g)' = 0
    BY <1>8, <2>2, <2>3, <2>4, <2>5
  <2> QED BY <2>1, <2>3, <2>6, <2>7, <2>8, <2>9
\* The turn of the epilogue.
<1>10. HasEpi(g) /\ turn["epi"][g] = 0 /\ turn["epi"][1 - g] = 0 /\ ~HasEpi(1 - g) /\ Own(1 - g) = t + 1
  <2>1. HasEpi(g) /\ turn["epi"][g] = 0 /\ Own(1 - g) = Own(g) + 1
    BY <1>4, Order
  <2>2. Own(g) \in Nat /\ Own(1 - g) \in Nat
    BY <1>7, OwnFacts
  <2>3. ~HasEpi(1 - g)
    <3>1. HasEpi(1 - g) => Own(1 - (1 - g)) = Own(1 - g) + 1
      BY <1>7, Order
    <3> QED BY <2>1, <2>2, <3>1, Sides
  <2>4. turn["epi"][1 - g] \in {0, 1}
    BY <1>7, Order
  <2> QED BY <1>9, <2>1, <2>3, <2>4 DEF HasEpi
<1>11. /\ turn' \in [{"mma", "epi"} -> [WG -> Nat]]
       /\ turn'["epi"][1 - g] = 1
       /\ \A i \in {"mma", "epi"}, j \in WG : i # "epi" \/ j # 1 - g => turn'[i][j] = turn[i][j]
  BY <1>1, <1>7, <1>10, TurnGiven
<1>12. /\ stores' \in [WG -> Seq(BulkStore)] /\ Len(stores'[g]) = 0 /\ stores'[1 - g] = stores[1 - g]
  <2>1. stores \in [WG -> Seq(BulkStore)]
    BY StoreTypes
  <2>2. Len(LastOnes(g, 0)) = 0 /\ LastOnes(g, 0) \in Seq(BulkStore)
    <3>1. 0 \in Nat
      OBVIOUS
    <3>2. PICK k \in Nat : k <= 0 /\ Len(LastOnes(g, 0)) = k /\ LastOnes(g, 0) \in Seq(BulkStore)
      BY <3>1, LastOnesFacts
    <3> QED BY <3>2
  <2> HIDE DEF BulkStore
  <2> QED BY <1>1, <1>7, <2>1, <2>2, Sides
<1>13. TypeOK'
  <2>1. /\ ab' \in [0 .. ABStages - 1 -> Stage] /\ cs' \in [0 .. CStages - 1 -> Stage]
        /\ slot' \in [0 .. SchedStages - 1 -> Slot] /\ dbuf' \in [0 .. EpiStages - 1 -> Content]
    BY <1>1, OtherTypes
  <2>2. stores' \in [WG -> Seq([dst : Nat \X Nat, buf : 0 .. EpiStages - 1, read : BOOLEAN])]
    BY <1>12 DEF BulkStore
  <2> QED BY <1>1, <1>2, <1>6, <1>11, <2>1, <2>2, TypeIntro
<1>14. WgOK(g)'
  <2>1. n <= Written' + (IF v.pc = "take" /\ ~shape.varlenK THEN 1 ELSE 0)
    <3>1. Written' = Written
      BY <1>1, <1>2, <1>7, Frame
    <3>2. n <= Written + (IF ~shape.varlenK THEN 1 ELSE 0)
      BY <1>3 DEF GoesTo
    <3>3. v.pc = "take" /\ ~shape.varlenK <=> ~shape.varlenK
      BY <1>6
    <3> QED BY <3>1, <3>2, <3>3
  <2>2. /\ ~(v.flight > 0) /\ v.executed > 0 /\ v.ab = At(b, ABStages, 0) /\ v.sched = At(n, SchedStages, 0)
        /\ v.pc = "skip" => shape.varlenK /\ Owner(u) # g
        /\ v.pc = "take" => Owner(u) = g
    <3>1. v.flight = 0 /\ old.executed \in Nat
      BY <1>3, <1>6, WgFacts DEF GoesTo
    <3>2. v.executed = old.executed + 1 \/ v.executed = old.executed + 2
      BY <1>3, <1>6 DEF GoesTo
    <3>3. v.ab = At(b, ABStages, 0) /\ v.sched = At(n, SchedStages, 0) /\ (Owner(u) = g <=> ~shape.varlenK)
      BY <1>3, <1>6 DEF GoesTo
    <3> QED BY <1>6, <3>1, <3>2, <3>3
  <2> QED BY <1>2, <1>6, <1>7, <1>8, <1>9, <2>1, <2>2, WgIntro
<1>15. EpiOK(g)'
  <2>1. CBase(g)' + CDone(g)' = c /\ CBase(g)' + CLoaded(g)' = c
    BY <1>9
  <2>2. CStages > 0 => v.cRead = At(CBase(g)' + CDone(g)', CStages, 0) /\ v.cLoad = At(CBase(g)' + CLoaded(g)', CStages, 1)
    BY <1>5, <1>6, <2>1
  <2> QED BY <1>7, <1>8, <2>2 DEF EpiOK, At
<1>16. StoresOK(g)' /\ StoresOK(1 - g)'
  <2>1. StoresOK(g)'
    <3>1. v.e \in Nat /\ EpiStages \in Nat
      BY VFacts, SizeFacts
    <3>2. v.pc # "write"
      BY <1>8
    <3> QED BY <1>7, <1>8, <1>12, <3>1, <3>2 DEF StoresOK
  <2> QED BY <1>1, <1>2, <1>7, <1>12, <2>1, Frame
<1>17. SchedOK'
  <2>1. PICK x \in Nat : x = SchedPos(g) /\ Owner(x + 1) = g /\ n = IF shape.varlenK THEN x ELSE x + 1
    <3>1. wg[g].executed \in Nat
      BY WgFacts
    <3> QED BY <1>3, <3>1 DEF GoesTo
  <2> QED BY <1>1, <1>2, <1>7, <1>9, <2>1, FinishSched
<1>18. COK'
  BY <1>1, <1>2, <1>7, <1>9, FinishC
<1>19. AbOK'
  <2>1. \A x \in Items : IsFree(x)' <=> IsFree(x)
    <3>1. PICK i \in Nat : i = wg[g].executed /\ wg'[g].executed = f /\ t = i + 1 /\ (f = i + 1 \/ f = i + 2)
                           /\ Owner(t) = g /\ Freed(g) = KTiles(t)
      BY <1>3, <1>6, <1>7, WgFacts DEF GoesTo
    <3>2. Owner(t + 1) # g
      <4>1. Owner(t + 1) = 1 - Owner(t)
        BY OwnerFacts
      <4> QED BY <3>1, <4>1, Sides
    <3>3. \A j \in Nat : j > i /\ j <= f /\ Owner(j) = g => j = i + 1 /\ Freed(g) = KTiles(j) /\ f > i
      <4>1. ASSUME NEW j \in Nat, j > i, j <= f, Owner(j) = g PROVE j = i + 1
        <5>1. j = i + 1 \/ j = i + 2
          BY <3>1, <4>1
        <5>2. j # t + 1
          BY <3>2, <4>1
        <5> QED BY <3>1, <5>1, <5>2
      <4> QED BY <3>1, <4>1
    <3>4. i <= f /\ f # i /\ Owner(i + 1) = g /\ Freed(g) = KTiles(i + 1)
      BY <3>1
    <3> QED BY <1>2, <1>7, <1>9, <3>1, <3>3, <3>4, PassedOver
  <2>2. Issued' = Issued /\ Loaded' = Loaded
    BY <1>1, <1>2, <1>7, <1>9, IssuedStays, Frame
  <2> QED BY <1>1, <1>2, <2>1, <2>2, AbStays
<1>20. TurnOK'
  <2>1. /\ Own(1 - g)' = t + 1 /\ Own(g)' = Own(1 - g)' + 1 /\ Own(1 - g)' \in Nat /\ \A h \in WG : Mul(h)' = Mul(h)
    <3>1. Own(1 - g)' = Own(1 - g) /\ Mul(1 - g)' = Mul(1 - g)
      BY <1>2, <1>7, OtherTurn
    <3> QED BY <1>9, <1>10, <3>1, Sides
  <2>2. /\ ~HasEpi(g)' /\ \A h \in WG : HasMma(h)' <=> HasMma(h)
    <3>1. turn'["epi"][g] = 0 /\ \A h \in WG : turn'["mma"][h] = turn["mma"][h]
      BY <1>7, <1>10, <1>11, Sides
    <3>2. HasMma(1 - g)' <=> HasMma(1 - g)
      BY <1>7, <3>1 DEF HasMma
    <3>3. (HasMma(g)' <=> HasMma(g)) /\ ~HasEpi(g)'
      BY <1>4, <1>7, <1>8, <3>1 DEF HasMma, HasEpi
    <3> QED BY <3>2, <3>3, Sides
  <2>3. ASSUME NEW h \in WG
        PROVE  /\ turn'["mma"][h] \in {0, 1} /\ turn'["epi"][h] \in {0, 1}
               /\ HasMma(h)' => Mul(1 - h)' = Mul(h)' + 1
               /\ HasEpi(h)' => Own(1 - h)' = Own(h)' + 1
               /\ wg'[h].pc = "mma" => turn'["mma"][h] = 0
               /\ wg'[h].pc \in EpiPlace => turn'["epi"][h] = 0
    <3>1. /\ turn'["mma"][h] = turn["mma"][h] /\ turn["mma"][h] \in {0, 1}
          /\ wg[h].pc = "mma" => turn["mma"][h] = 0
          /\ HasMma(h) => Mul(1 - h) = Mul(h) + 1
      BY <1>11, Order
    <3>2. HasMma(h)' => Mul(1 - h)' = Mul(h)' + 1
      <4>1. 1 - h \in WG
        BY Sides
      <4> QED BY <2>1, <2>2, <3>1, <4>1
    <3>3. CASE h = g
      <4>1. turn'["epi"][g] = 0
        BY <1>10, <1>11, Sides
      <4> QED BY <1>7, <1>8, <2>2, <3>1, <3>2, <3>3, <4>1
    <3>4. CASE h = 1 - g
      <4>1. wg[1 - g].pc \notin EpiPlace
        BY <1>10 DEF HasEpi
      <4>2. 1 - h = g
        BY <3>4, Sides
      <4> QED BY <1>7, <1>11, <2>1, <3>1, <3>2, <3>4, <4>1, <4>2
    <3> QED BY <3>3, <3>4, Sides
  <2>4. /\ Mul(1)' = Mul(0)' + 1 \/ Mul(0)' = Mul(1)' + 1
        /\ Own(1)' = Own(0)' + 1 \/ Own(0)' = Own(1)' + 1
    <3>1. Mul(1)' = Mul(0)' + 1 \/ Mul(0)' = Mul(1)' + 1
      <4>1. Mul(1) = Mul(0) + 1 \/ Mul(0) = Mul(1) + 1
        BY <1>2, <1>7, OtherTurn
      <4> QED BY <2>1, <4>1 DEF WG
    <3>2. CASE g = 0
      BY <2>1, <3>1, <3>2
    <3>3. CASE g = 1
      BY <2>1, <3>1, <3>3
    <3> QED BY <3>2, <3>3 DEF WG
  <2>5. wg'[0].pc # "start"
    <3>1. CASE g = 0
      BY <1>7, <1>8, <3>1
    <3>2. CASE 1 - g = 0
      BY <1>2, <1>7, <1>10, <3>2, OtherTurn
    <3> QED BY <3>1, <3>2 DEF WG
  <2> QED BY <2>3, <2>4, <2>5, TurnIntro
<1> QED BY <1>1, <1>2, <1>7, <1>13, <1>14, <1>15, <1>16, <1>17, <1>18, <1>19, <1>20, InvIntro

-----------------------------------------------------------------------------
(* The invariant, and what it says of the two properties.                   *)

LEMMA LoadSteps ==
  ASSUME TypeOK, PingpongInv, LoadStep
  PROVE  TypeOK' /\ PingpongInv'
<1>1. CASE LoadK
  BY <1>1, LoadKStep
<1>2. CASE Fetch
  BY <1>2, FetchStep
<1>3. CASE WriteLast
  BY <1>3, WriteLastStep
<1>4. CASE LoadTake
  BY <1>4, LoadTakeStep
<1>5. CASE LoadTail
  BY <1>5, LoadTailStep
<1> QED BY <1>1, <1>2, <1>3, <1>4, <1>5 DEF LoadStep

LEMMA MainloopSteps ==
  ASSUME TypeOK, PingpongInv, NEW g \in WG, Mainloop(g)
  PROVE  TypeOK' /\ PingpongInv'
<1>1. CASE MmaSync(g)
  BY <1>1, MmaSyncStep
<1>2. CASE Issue(g)
  BY <1>2, IssueStep
<1>3. CASE ReleaseOlder(g) \/ Drain(g)
  BY <1>3, ReleaseStep
<1>4. CASE HandOver(g)
  BY <1>4, HandOverStep
<1> QED BY <1>1, <1>2, <1>3, <1>4 DEF Mainloop

LEMMA EpilogueSteps ==
  ASSUME TypeOK, PingpongInv, NEW g \in WG, Epilogue(g)
  PROVE  TypeOK' /\ PingpongInv'
<1>1. CASE EpiSync(g)
  BY <1>1, EpiSyncStep
<1>2. CASE Prefetch(g)
  BY <1>2, PrefetchStep
<1>3. CASE ReadC(g)
  BY <1>3, ReadCStep
<1>4. CASE Refill(g)
  BY <1>4, RefillStep
<1>5. CASE AcquireD(g)
  BY <1>5, AcquireDStep
<1>6. CASE WriteD(g)
  BY <1>6, WriteDStep
<1>7. CASE Finish(g)
  BY <1>7, FinishStep
<1> QED BY <1>1, <1>2, <1>3, <1>4, <1>5, <1>6, <1>7 DEF Epilogue

LEMMA WgSteps ==
  ASSUME TypeOK, PingpongInv, NEW g \in WG, WgStep(g)
  PROVE  TypeOK' /\ PingpongInv'
<1>1. CASE Start(g)
  BY <1>1, StartFirstStep, StartSecondStep DEF Start
<1>2. CASE OwnTake(g)
  BY <1>2, OwnTakeStep
<1>3. CASE SkipTake(g)
  BY <1>3, SkipTakeStep
<1>4. CASE Mainloop(g)
  BY <1>4, MainloopSteps
<1>5. CASE Epilogue(g)
  BY <1>5, EpilogueSteps
<1> QED BY <1>1, <1>2, <1>3, <1>4, <1>5 DEF WgStep

LEMMA TmaSteps ==
  ASSUME TypeOK, PingpongInv, TmaStep
  PROVE  TypeOK' /\ PingpongInv'
<1>1. CASE \E s \in 0 .. ABStages - 1 : LandAB(s)
  BY <1>1, LandABStep
<1>2. CASE \E s \in 0 .. CStages - 1 : LandC(s)
  BY <1>2, LandCStep
<1>3. CASE \E g \in WG, i \in Store : ReadStore(g, i)
  BY <1>3, ReadStoreStep
<1> QED BY <1>1, <1>2, <1>3 DEF TmaStep

LEMMA NextSteps ==
  ASSUME TypeOK, PingpongInv, [Next]_vars
  PROVE  TypeOK' /\ PingpongInv'
<1>1. CASE LoadStep
  BY <1>1, LoadSteps
<1>2. CASE \E g \in WG : WgStep(g)
  BY <1>2, WgSteps
<1>3. CASE TmaStep
  BY <1>3, TmaSteps
<1>4. CASE UNCHANGED vars
  BY <1>4, StutterStep
<1> QED BY <1>1, <1>2, <1>3, <1>4 DEF Next

\* The inductive invariant: every pipeline state of the load warp and of the
\* two warp groups is a place in its ring, the turns are in order, and each
\* stage, slot and buffer of gemm_sm90.py's pingpong kernel holds the item of
\* its lap.  It holds for every number of stages, subtiles and tiles.
THEOREM PingpongInvariance == Spec => [](TypeOK /\ PingpongInv)
<1>1. Init => TypeOK /\ PingpongInv
  BY InitType, InitInv
<1>2. TypeOK /\ PingpongInv /\ [Next]_vars => (TypeOK /\ PingpongInv)'
  BY NextSteps
<1> QED BY <1>1, <1>2, PTL DEF Spec

\* Every variable of the pingpong kernel keeps its type.
THEOREM PingpongTypeCorrect == Spec => []TypeOK
<1>1. TypeOK /\ PingpongInv => TypeOK
  OBVIOUS
<1> QED BY <1>1, PingpongInvariance, PTL

\* Every wgmma that is still running reads the k tile it was issued for, in
\* the mainloops (mma) of both warp groups, although nothing but a parity bit
\* tells a wait on an A/B stage whether it is one lap off.
THEOREM PingpongOwnTile == Spec => []MmaReadsOwnTile
<1>1. TypeOK /\ PingpongInv => MmaReadsOwnTile
  BY OwnTileHolds
<1> QED BY <1>1, PingpongInvariance, PTL

\* The epilogues of both warp groups (gemm_base.py) share the buffers of C and
\* D safely: a wait on C passes for the warp group's own subtile only, and no
\* buffer of D is overwritten before its bulk store has read it.
THEOREM PingpongEpilogueSafe == Spec => []EpilogueBuffersSafe
<1>1. TypeOK /\ PingpongInv => EpilogueBuffersSafe
  BY BuffersHold
<1> QED BY <1>1, PingpongInvariance, PTL
=============================================================================
