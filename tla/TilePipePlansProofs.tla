------------------------- MODULE TilePipePlansProofs -------------------------
(***************************************************************************)
(* Theorems about TilePipePlans and the builders of TilePipeRouting, for   *)
(* any number of ranks, experts and choices and every routing.             *)
(***************************************************************************)
EXTENDS TilePipePlans, FiniteSetTheorems, FunctionTheorems, WellFoundedInduction, TLAPS

-----------------------------------------------------------------------------
(* Induction over the naturals, for properties given as sets.               *)

Below == {p \in Nat \X Nat : p[1] < p[2]}

LEMMA BelowIsWellFounded == IsWellFoundedOn(Below, Nat)
BY NatLessThanWellFounded, Zenon DEF OpToRel, Below

\* A set with zero and the successors of its members has all numbers.
LEMMA Reaches ==
  ASSUME NEW S, 0 \in S, \A n \in Nat : n \in S => n + 1 \in S
  PROVE  Nat \subseteq S
<1>1. SUFFICES ASSUME Nat \ S # {} PROVE FALSE
  OBVIOUS
<1>2. PICK x \in Nat \ S : \A y \in Nat \ S : <<y, x>> \notin Below
  BY <1>1, WFMin, BelowIsWellFounded, Zenon
<1>3. x # 0 /\ x - 1 \in Nat
  BY <1>2
<1>4. x - 1 \notin S
  <2>1. ASSUME x - 1 \in S PROVE FALSE
    BY <1>2, <1>3, <2>1
  <2>2. QED
    BY <2>1
<1>5. <<x - 1, x>> \in Below
  BY <1>2, <1>3 DEF Below
<1>6. QED
  BY <1>2, <1>3, <1>4, <1>5

-----------------------------------------------------------------------------
(* Intervals.                                                               *)

LEMMA UpTo ==
  ASSUME NEW n \in Nat
  PROVE  IsFiniteSet(1 .. n) /\ Cardinality(1 .. n) = n
<1>1. IsFiniteSet(1 .. n) /\ Cardinality(1 .. n) = IF 1 > n THEN 0 ELSE n - 1 + 1
  <2>1. 1 \in Int /\ n \in Int
    OBVIOUS
  <2>2. QED
    BY <2>1, FS_Interval, Zenon
<1>2. (IF 1 > n THEN 0 ELSE n - 1 + 1) = n
  OBVIOUS
<1>3. QED
  BY <1>1, <1>2

LEMMA FromZero ==
  ASSUME NEW n \in Nat
  PROVE  IsFiniteSet(0 .. n - 1) /\ Cardinality(0 .. n - 1) = n
<1>1. IsFiniteSet(0 .. n - 1)
      /\ Cardinality(0 .. n - 1) = IF 0 > n - 1 THEN 0 ELSE (n - 1) - 0 + 1
  <2>1. 0 \in Int /\ n - 1 \in Int
    OBVIOUS
  <2>2. QED
    BY <2>1, FS_Interval, Zenon
<1>2. (IF 0 > n - 1 THEN 0 ELSE (n - 1) - 0 + 1) = n
  OBVIOUS
<1>3. QED
  BY <1>1, <1>2

-----------------------------------------------------------------------------
(* Prefix sums.                                                             *)

IsSum(f, s, N) == s = [k \in N |-> IF k = 0 THEN 0 ELSE s[k - 1] + f[k - 1]]

\* The recursion has a solution: there is one up to each number, any two agree,
\* and together they make one for all.
LEMMA SumUpTo ==
  ASSUME NEW f
  PROVE  \A n \in Nat : \E s : IsSum(f, s, 0 .. n)
<1> DEFINE S == {n \in Nat : \E s : IsSum(f, s, 0 .. n)}
<1>1. 0 \in S
  <2> DEFINE s == [k \in 0 .. 0 |-> 0]
  <2>1. IsSum(f, s, 0 .. 0)
    BY DEF IsSum
  <2>2. QED
    BY <2>1
<1>2. ASSUME NEW n \in Nat, n \in S PROVE n + 1 \in S
  <2>1. PICK s : IsSum(f, s, 0 .. n)
    BY <1>2
  <2> DEFINE u == [k \in 0 .. n + 1 |-> IF k = n + 1 THEN s[n] + f[n] ELSE s[k]]
  <2>2. \A k \in 0 .. n : s[k] = IF k = 0 THEN 0 ELSE s[k - 1] + f[k - 1]
    BY <2>1, Zenon DEF IsSum
  <2>3. \A k \in 0 .. n + 1 : u[k] = IF k = 0 THEN 0 ELSE u[k - 1] + f[k - 1]
    <3> SUFFICES ASSUME NEW k \in 0 .. n + 1
                 PROVE  u[k] = IF k = 0 THEN 0 ELSE u[k - 1] + f[k - 1]
      OBVIOUS
    <3>1. CASE k = 0
      BY <3>1, <2>2
    <3>2. CASE k \in 1 .. n
      <4>1. k # n + 1 /\ k - 1 # n + 1 /\ k \in 0 .. n + 1 /\ k - 1 \in 0 .. n + 1 /\ k \in 0 .. n /\ k # 0
        BY <3>2
      <4>2. u[k] = s[k] /\ u[k - 1] = s[k - 1]
        BY <4>1
      <4>3. QED
        BY <2>2, <4>1, <4>2
    <3>3. CASE k = n + 1
      <4>1. k - 1 = n /\ n \in 0 .. n + 1 /\ n # n + 1 /\ k # 0
        BY <3>3
      <4>2. u[k] = s[n] + f[n] /\ u[n] = s[n]
        BY <4>1, <3>3
      <4>3. QED
        BY <4>1, <4>2
    <3>4. QED
      BY <3>1, <3>2, <3>3
  <2>4. IsSum(f, u, 0 .. n + 1)
    BY <2>3 DEF IsSum
  <2>5. QED
    BY <2>4
<1>3. Nat \subseteq S
  <2> HIDE DEF S
  <2>1. QED
    BY <1>1, <1>2, Reaches
<1>4. QED
  BY <1>3

LEMMA SumsAgree ==
  ASSUME NEW f, NEW n \in Nat, NEW m \in Nat, NEW s, NEW u,
         IsSum(f, s, 0 .. n), IsSum(f, u, 0 .. m)
  PROVE  \A k \in Nat : k <= n /\ k <= m => s[k] = u[k]
<1> DEFINE S == {k \in Nat : k <= n /\ k <= m => s[k] = u[k]}
<1>1. /\ \A k \in 0 .. n : s[k] = IF k = 0 THEN 0 ELSE s[k - 1] + f[k - 1]
      /\ \A k \in 0 .. m : u[k] = IF k = 0 THEN 0 ELSE u[k - 1] + f[k - 1]
  BY Zenon DEF IsSum
<1>2. 0 \in S
  BY <1>1
<1>3. ASSUME NEW k \in Nat, k \in S PROVE k + 1 \in S
  <2>1. SUFFICES ASSUME k + 1 <= n /\ k + 1 <= m PROVE s[k + 1] = u[k + 1]
    OBVIOUS
  <2>2. s[k] = u[k]
    BY <1>3, <2>1
  <2>3. k + 1 \in 0 .. n /\ k + 1 \in 0 .. m /\ k + 1 # 0 /\ (k + 1) - 1 = k
    BY <2>1
  <2>4. s[k + 1] = s[k] + f[k] /\ u[k + 1] = u[k] + f[k]
    BY <1>1, <2>3
  <2>5. QED
    BY <2>2, <2>4
<1>4. Nat \subseteq S
  <2> HIDE DEF S
  <2>1. QED
    BY <1>2, <1>3, Reaches
<1>5. QED
  BY <1>4

LEMMA SumExists ==
  ASSUME NEW f
  PROVE  \E s : IsSum(f, s, Nat)
<1> DEFINE upTo(n) == CHOOSE s : IsSum(f, s, 0 .. n)
           s == [k \in Nat |-> upTo(k)[k]]
<1>1. \A n \in Nat : IsSum(f, upTo(n), 0 .. n)
  BY SumUpTo, Zenon
<1> HIDE DEF upTo
<1>2. \A k \in Nat : s[k] = IF k = 0 THEN 0 ELSE s[k - 1] + f[k - 1]
  <2> SUFFICES ASSUME NEW k \in Nat
               PROVE  s[k] = IF k = 0 THEN 0 ELSE s[k - 1] + f[k - 1]
    OBVIOUS
  <2>1. \A i \in 0 .. k : upTo(k)[i] = IF i = 0 THEN 0 ELSE upTo(k)[i - 1] + f[i - 1]
    BY <1>1, Zenon DEF IsSum
  <2>2. upTo(k)[k] = IF k = 0 THEN 0 ELSE upTo(k)[k - 1] + f[k - 1]
    BY <2>1
  <2>3. CASE k = 0
    BY <2>2, <2>3
  <2>4. CASE k # 0
    <3>1. k - 1 \in Nat /\ k - 1 <= k
      BY <2>4
    <3>2. upTo(k)[k - 1] = upTo(k - 1)[k - 1]
      BY <1>1, <3>1, SumsAgree
    <3>3. QED
      BY <2>2, <2>4, <3>1, <3>2
  <2>5. QED
    BY <2>3, <2>4
<1>3. IsSum(f, s, Nat)
  BY <1>2 DEF IsSum
<1>4. QED
  BY <1>3

LEMMA SumStep ==
  ASSUME NEW f
  PROVE  /\ SumBelow(f, 0) = 0
         /\ \A n \in Nat : SumBelow(f, n + 1) = SumBelow(f, n) + f[n]
<1> DEFINE s == CHOOSE s : IsSum(f, s, Nat)
<1>1. \A n : SumBelow(f, n) = s[n]
  BY Zenon DEF SumBelow, IsSum
<1>2. IsSum(f, s, Nat)
  BY SumExists, Zenon
<1> HIDE DEF s
<1>3. \A k \in Nat : s[k] = IF k = 0 THEN 0 ELSE s[k - 1] + f[k - 1]
  BY <1>2, Zenon DEF IsSum
<1>4. \A n \in Nat : n + 1 \in Nat /\ n + 1 # 0 /\ (n + 1) - 1 = n
  OBVIOUS
<1>5. QED
  BY <1>1, <1>3, <1>4

\* Sums of naturals.
LEMMA SumType ==
  ASSUME NEW m \in Nat, NEW f, \A k \in 0 .. m - 1 : f[k] \in Nat
  PROVE  \A n \in 0 .. m : SumBelow(f, n) \in Nat
<1> DEFINE S == {n \in Nat : n <= m => SumBelow(f, n) \in Nat}
<1>1. 0 \in S
  BY SumStep
<1>2. ASSUME NEW n \in Nat, n \in S PROVE n + 1 \in S
  <2>1. SumBelow(f, n + 1) = SumBelow(f, n) + f[n]
    BY SumStep
  <2>2. SUFFICES ASSUME n + 1 <= m PROVE SumBelow(f, n + 1) \in Nat
    OBVIOUS
  <2>3. SumBelow(f, n) \in Nat /\ f[n] \in Nat
    BY <1>2, <2>2
  <2>4. QED
    BY <2>1, <2>3
<1>3. Nat \subseteq S
  <2> HIDE DEF S
  <2>1. QED
    BY <1>1, <1>2, Reaches
<1>4. QED
  BY <1>3

LEMMA SumMonotone ==
  ASSUME NEW m \in Nat, NEW f, \A k \in 0 .. m - 1 : f[k] \in Nat, NEW a \in 0 .. m
  PROVE  /\ \A b \in 0 .. m : a <= b => SumBelow(f, a) <= SumBelow(f, b)
         /\ \A b \in 0 .. m : a < b => SumBelow(f, a) + f[a] <= SumBelow(f, b)
<1> DEFINE S == {b \in Nat : b <= m /\ a <= b => SumBelow(f, a) <= SumBelow(f, b)}
<1>1. \A n \in 0 .. m : SumBelow(f, n) \in Nat
  BY SumType
<1>2. 0 \in S
  BY <1>1
<1>3. ASSUME NEW b \in Nat, b \in S PROVE b + 1 \in S
  <2>1. SUFFICES ASSUME b + 1 <= m, a <= b + 1 PROVE SumBelow(f, a) <= SumBelow(f, b + 1)
    OBVIOUS
  <2>2. SumBelow(f, b + 1) = SumBelow(f, b) + f[b]
    BY SumStep
  <2>3. SumBelow(f, b) \in Nat /\ f[b] \in Nat /\ SumBelow(f, a) \in Nat
    BY <1>1, <2>1
  <2>4. CASE a = b + 1
    BY <2>4, <2>3, <1>1
  <2>5. CASE a <= b
    BY <1>3, <2>1, <2>2, <2>3, <2>5
  <2>6. QED
    BY <2>1, <2>4, <2>5
<1>4. Nat \subseteq S
  <2> HIDE DEF S
  <2>1. QED
    BY <1>2, <1>3, Reaches
<1>5. \A b \in 0 .. m : a <= b => SumBelow(f, a) <= SumBelow(f, b)
  BY <1>4
<1>6. \A b \in 0 .. m : a < b => SumBelow(f, a) + f[a] <= SumBelow(f, b)
  <2> SUFFICES ASSUME NEW b \in 0 .. m, a < b
               PROVE  SumBelow(f, a) + f[a] <= SumBelow(f, b)
    OBVIOUS
  <2>1. a + 1 \in 0 .. m /\ a \in Nat /\ a + 1 <= b
    OBVIOUS
  <2>2. SumBelow(f, a + 1) = SumBelow(f, a) + f[a]
    BY <2>1, SumStep
  <2> DEFINE U == {c \in Nat : c <= m /\ a + 1 <= c => SumBelow(f, a + 1) <= SumBelow(f, c)}
  <2>3. 0 \in U
    BY <2>1
  <2>4. ASSUME NEW c \in Nat, c \in U PROVE c + 1 \in U
    <3>1. SUFFICES ASSUME c + 1 <= m, a + 1 <= c + 1 PROVE SumBelow(f, a + 1) <= SumBelow(f, c + 1)
      OBVIOUS
    <3>2. SumBelow(f, c + 1) = SumBelow(f, c) + f[c]
      BY SumStep
    <3>3. SumBelow(f, c) \in Nat /\ f[c] \in Nat /\ SumBelow(f, a + 1) \in Nat
      BY <1>1, <2>1, <3>1
    <3>4. CASE a = c
      BY <3>4, <3>3, <1>1
    <3>5. CASE a + 1 <= c
      BY <2>4, <3>1, <3>2, <3>3, <3>5
    <3>6. QED
      BY <3>1, <3>4, <3>5, <2>1
  <2>5. Nat \subseteq U
    <3> HIDE DEF U
    <3>1. QED
      BY <2>3, <2>4, Reaches
  <2>6. SumBelow(f, a + 1) <= SumBelow(f, b)
    BY <2>1, <2>5
  <2>7. QED
    BY <2>2, <2>6
<1>7. QED
  BY <1>5, <1>6

\* Each number below a sum lies in the share of one of its terms.
LEMMA SumLocates ==
  ASSUME NEW m \in Nat, NEW f, \A k \in 0 .. m - 1 : f[k] \in Nat,
         NEW v \in Nat, v < SumBelow(f, m)
  PROVE  \E k \in 0 .. m - 1 : SumBelow(f, k) <= v /\ v < SumBelow(f, k) + f[k]
<1> DEFINE Found(n) == \E k \in 0 .. m - 1 : k < n /\ SumBelow(f, k) <= v /\ v < SumBelow(f, k) + f[k]
           S == {n \in Nat : n <= m /\ v < SumBelow(f, n) => Found(n)}
<1>1. \A n \in 0 .. m : SumBelow(f, n) \in Nat
  BY SumType
<1>2. 0 \in S
  <2>1. SumBelow(f, 0) = 0
    BY SumStep
  <2>2. QED
    BY <2>1
<1>3. ASSUME NEW n \in Nat, n \in S PROVE n + 1 \in S
  <2>1. SUFFICES ASSUME n + 1 <= m, v < SumBelow(f, n + 1) PROVE Found(n + 1)
    OBVIOUS
  <2>2. SumBelow(f, n + 1) = SumBelow(f, n) + f[n]
    BY SumStep
  <2>3. n \in 0 .. m - 1 /\ n \in 0 .. m /\ n < n + 1
    BY <2>1
  <2>4. CASE v < SumBelow(f, n)
    <3>1. Found(n)
      BY <1>3, <2>3, <2>4
    <3>2. QED
      BY <3>1
  <2>5. CASE SumBelow(f, n) <= v
    BY <2>1, <2>2, <2>3, <2>5
  <2>6. QED
    BY <1>1, <2>3, <2>4, <2>5
<1>4. Nat \subseteq S
  <2> HIDE DEF S
  <2>1. QED
    BY <1>2, <1>3, Reaches
<1>5. QED
  BY <1>4

\* A sum depends on its terms only.
LEMMA SumOfSame ==
  ASSUME NEW m \in Nat, NEW f, NEW g, \A k \in 0 .. m - 1 : f[k] = g[k]
  PROVE  \A n \in 0 .. m : SumBelow(f, n) = SumBelow(g, n)
<1> DEFINE S == {n \in Nat : n <= m => SumBelow(f, n) = SumBelow(g, n)}
<1>1. 0 \in S
  BY SumStep
<1>2. ASSUME NEW n \in Nat, n \in S PROVE n + 1 \in S
  <2>1. SumBelow(f, n + 1) = SumBelow(f, n) + f[n] /\ SumBelow(g, n + 1) = SumBelow(g, n) + g[n]
    BY SumStep
  <2>2. SUFFICES ASSUME n + 1 <= m PROVE SumBelow(f, n + 1) = SumBelow(g, n + 1)
    OBVIOUS
  <2>3. QED
    BY <1>2, <2>1, <2>2
<1>3. Nat \subseteq S
  <2> HIDE DEF S
  <2>1. QED
    BY <1>1, <1>2, Reaches
<1>4. QED
  BY <1>3

-----------------------------------------------------------------------------
(* Finite sets in a strict order.                                           *)

Strict(S, Less) ==
  /\ \A x \in S : <<x, x>> \notin Less
  /\ \A x, y, z \in S : <<x, y>> \in Less /\ <<y, z>> \in Less => <<x, z>> \in Less
  /\ \A x, y \in S : x # y => <<x, y>> \in Less \/ <<y, x>> \in Less

\* Each member has its own number of members before it, and all numbers occur.
LEMMA Ranking ==
  ASSUME NEW S, IsFiniteSet(S), NEW Less, Strict(S, Less)
  PROVE  /\ Cardinality(S) \in Nat
         /\ \A x \in S : Behind(S, Less, x) \in 0 .. Cardinality(S) - 1
         /\ \A x, y \in S : <<x, y>> \in Less => Behind(S, Less, x) < Behind(S, Less, y)
         /\ \A x, y \in S : Behind(S, Less, x) = Behind(S, Less, y) => x = y
         /\ \A n \in 0 .. Cardinality(S) - 1 : \E x \in S : Behind(S, Less, x) = n
<1> DEFINE Prior(x) == {y \in S : <<y, x>> \in Less}
           n == Cardinality(S)
<1>1. n \in Nat
  BY FS_CardinalityType
<1>2. \A x \in S : Prior(x) \in SUBSET S /\ x \notin Prior(x) /\ Behind(S, Less, x) = Cardinality(Prior(x))
  BY Zenon DEF Strict, Behind
<1>3. ASSUME NEW T \in SUBSET S, NEW U \in SUBSET T, U # T
      PROVE  Cardinality(U) \in Nat /\ Cardinality(T) \in Nat /\ Cardinality(U) < Cardinality(T)
  <2>1. IsFiniteSet(T)
    BY FS_Subset
  <2>2. IsFiniteSet(U) /\ Cardinality(U) <= Cardinality(T) /\ Cardinality(U) # Cardinality(T)
    BY <1>3, <2>1, FS_Subset
  <2>3. Cardinality(U) \in Nat /\ Cardinality(T) \in Nat
    BY <2>1, <2>2, FS_CardinalityType
  <2>4. QED
    BY <2>2, <2>3
<1>4. \A x \in S : Behind(S, Less, x) \in 0 .. n - 1
  <2> SUFFICES ASSUME NEW x \in S PROVE Behind(S, Less, x) \in 0 .. n - 1
    OBVIOUS
  <2>1. Prior(x) \in SUBSET S /\ Prior(x) # S
    BY <1>2
  <2>2. Cardinality(Prior(x)) \in Nat /\ Cardinality(Prior(x)) < n
    BY <1>3, <2>1
  <2>3. Behind(S, Less, x) = Cardinality(Prior(x))
    BY <1>2
  <2> HIDE DEF Prior, n
  <2>4. QED
    BY <1>1, <2>2, <2>3
<1>5. \A x, y \in S : <<x, y>> \in Less => Behind(S, Less, x) < Behind(S, Less, y)
  <2> SUFFICES ASSUME NEW x \in S, NEW y \in S, <<x, y>> \in Less
               PROVE  Behind(S, Less, x) < Behind(S, Less, y)
    OBVIOUS
  <2>1. Prior(x) \in SUBSET Prior(y)
    BY Zenon DEF Strict
  <2>2. x \in Prior(y)
    OBVIOUS
  <2>3. Prior(x) # Prior(y) /\ Prior(y) \in SUBSET S
    BY <1>2, <2>2
  <2>4. Cardinality(Prior(x)) < Cardinality(Prior(y))
    BY <1>3, <2>1, <2>3
  <2>5. QED
    BY <1>2, <2>4
<1>6. \A x, y \in S : Behind(S, Less, x) = Behind(S, Less, y) => x = y
  <2> SUFFICES ASSUME NEW x \in S, NEW y \in S, Behind(S, Less, x) = Behind(S, Less, y), x # y
               PROVE  FALSE
    OBVIOUS
  <2>1. <<x, y>> \in Less \/ <<y, x>> \in Less
    BY Zenon DEF Strict
  <2>2. Behind(S, Less, x) < Behind(S, Less, y) \/ Behind(S, Less, y) < Behind(S, Less, x)
    BY <1>5, <2>1
  <2>3. QED
    BY <1>1, <1>4, <2>2
<1>7. \A k \in 0 .. n - 1 : \E x \in S : Behind(S, Less, x) = k
  <2> DEFINE f == [x \in S |-> Behind(S, Less, x)]
  <2>1. f \in Injection(S, 0 .. n - 1)
    BY <1>4, <1>6 DEF Injection, IsInjective
  <2>2. IsFiniteSet(0 .. n - 1) /\ Cardinality(0 .. n - 1) = n
    BY <1>1, FromZero
  <2>3. f \in Surjection(S, 0 .. n - 1)
    <3> HIDE DEF f
    <3>1. QED
      BY <2>1, <2>2, FS_Injection
  <2>4. \A k \in 0 .. n - 1 : \E x \in S : f[x] = k
    BY <2>3 DEF Surjection
  <2>5. QED
    BY <2>4
<1>8. QED
  BY <1>1, <1>4, <1>5, <1>6, <1>7

\* Sorted lists the set in its order.
LEMMA SortedLists ==
  ASSUME NEW S, IsFiniteSet(S), NEW Less, Strict(S, Less)
  PROVE  LET s == Sorted(S, Less)
         IN  /\ Cardinality(S) \in Nat /\ s \in Seq(S) /\ Len(s) = Cardinality(S)
             /\ DOMAIN s = 1 .. Cardinality(S)
             /\ \A n \in DOMAIN s : s[n] \in S /\ Behind(S, Less, s[n]) = n - 1
             /\ \A x \in S : \E n \in DOMAIN s : s[n] = x
             /\ \A i, k \in DOMAIN s : i < k => <<s[i], s[k]>> \in Less
             /\ \A i, k \in DOMAIN s : s[i] = s[k] => i = k
<1> DEFINE s == Sorted(S, Less)
           n == Cardinality(S)
           At(x) == Behind(S, Less, x)
<1>1. /\ n \in Nat
      /\ \A x \in S : At(x) \in 0 .. n - 1
      /\ \A x, y \in S : <<x, y>> \in Less => At(x) < At(y)
      /\ \A x, y \in S : At(x) = At(y) => x = y
      /\ \A k \in 0 .. n - 1 : \E x \in S : At(x) = k
  BY Ranking
<1>2. s = [k \in 1 .. n |-> CHOOSE x \in S : At(x) = k - 1]
  BY Zenon DEF Sorted
<1> HIDE DEF s, n, At
<1>3. DOMAIN s = 1 .. n
  BY <1>2
<1>4. \A k \in 1 .. n : s[k] \in S /\ At(s[k]) = k - 1
  <2> SUFFICES ASSUME NEW k \in 1 .. n PROVE s[k] \in S /\ At(s[k]) = k - 1
    OBVIOUS
  <2>1. k - 1 \in 0 .. n - 1
    BY <1>1
  <2>2. \E x \in S : At(x) = k - 1
    BY <1>1, <2>1
  <2>3. s[k] = CHOOSE x \in S : At(x) = k - 1
    BY <1>2
  <2>4. QED
    BY <2>2, <2>3, Zenon
<1>5. \A x \in S : \E k \in 1 .. n : s[k] = x
  <2> SUFFICES ASSUME NEW x \in S PROVE \E k \in 1 .. n : s[k] = x
    OBVIOUS
  <2>1. At(x) + 1 \in 1 .. n /\ (At(x) + 1) - 1 = At(x)
    BY <1>1
  <2>2. s[At(x) + 1] \in S /\ At(s[At(x) + 1]) = At(x)
    BY <1>4, <2>1
  <2>3. s[At(x) + 1] = x
    BY <1>1, <2>2
  <2>4. QED
    BY <2>1, <2>3
<1>6. \A i, k \in 1 .. n : s[i] = s[k] => i = k
  <2> SUFFICES ASSUME NEW i \in 1 .. n, NEW k \in 1 .. n, s[i] = s[k] PROVE i = k
    OBVIOUS
  <2>1. i - 1 = k - 1 /\ i \in Int /\ k \in Int
    BY <1>4
  <2>2. QED
    BY <2>1
<1>7. \A i, k \in 1 .. n : i < k => <<s[i], s[k]>> \in Less
  <2> SUFFICES ASSUME NEW i \in 1 .. n, NEW k \in 1 .. n, i < k PROVE <<s[i], s[k]>> \in Less
    OBVIOUS
  <2>1. s[i] \in S /\ s[k] \in S /\ At(s[i]) = i - 1 /\ At(s[k]) = k - 1 /\ i \in Int /\ k \in Int
    BY <1>4
  <2>2. s[i] # s[k]
    BY <2>1
  <2>3. <<s[i], s[k]>> \in Less \/ <<s[k], s[i]>> \in Less
    BY <2>1, <2>2, Zenon DEF Strict
  <2>4. <<s[k], s[i]>> \notin Less
    BY <1>1, <2>1
  <2>5. QED
    BY <2>3, <2>4
<1>8. s \in Seq(S) /\ Len(s) = n
  <2>1. s \in [1 .. n -> S]
    <3>1. s = [k \in 1 .. n |-> s[k]]
      BY <1>2
    <3>2. QED
      BY <1>4, <3>1
  <2>2. QED
    BY <1>1, <2>1
<1>9. QED
  <2>1. /\ n \in Nat /\ s \in Seq(S) /\ Len(s) = n
        /\ DOMAIN s = 1 .. n
        /\ \A k \in DOMAIN s : s[k] \in S /\ At(s[k]) = k - 1
        /\ \A x \in S : \E k \in DOMAIN s : s[k] = x
        /\ \A i, k \in DOMAIN s : i < k => <<s[i], s[k]>> \in Less
        /\ \A i, k \in DOMAIN s : s[i] = s[k] => i = k
    BY <1>1, <1>3, <1>4, <1>5, <1>6, <1>7, <1>8
  <2>2. QED
    BY <2>1 DEF s, n, At

\* Where a strictly increasing map counts up from zero without a gap, it counts
\* the members before.
LEMMA CountedByMap ==
  ASSUME NEW S, IsFiniteSet(S), NEW Less, Strict(S, Less), NEW n \in Nat, NEW f \in [S -> 0 .. n - 1],
         \A x, y \in S : <<x, y>> \in Less => f[x] < f[y],
         \A k \in 0 .. n - 1 : \E x \in S : f[x] = k
  PROVE  Cardinality(S) = n /\ \A x \in S : Behind(S, Less, x) = f[x]
<1>1. \A x, y \in S : f[x] = f[y] => x = y
  <2> SUFFICES ASSUME NEW x \in S, NEW y \in S, f[x] = f[y], x # y PROVE FALSE
    OBVIOUS
  <2>1. <<x, y>> \in Less \/ <<y, x>> \in Less
    BY Zenon DEF Strict
  <2>2. f[x] < f[y] \/ f[y] < f[x]
    BY <2>1
  <2>3. f[x] \in Int /\ f[y] \in Int
    OBVIOUS
  <2>4. QED
    BY <2>2, <2>3
<1>2. f \in Bijection(S, 0 .. n - 1)
  BY <1>1 DEF Bijection, Injection, Surjection, IsInjective
<1>3. Cardinality(0 .. n - 1) = n
  BY FS_Interval
<1>4. Cardinality(S) = n
  <2>1. ExistsBijection(S, 0 .. n - 1)
    BY <1>2 DEF ExistsBijection
  <2>2. QED
    BY <1>3, <2>1, FS_Bijection
<1>5. ASSUME NEW x \in S PROVE Behind(S, Less, x) = f[x]
  <2> DEFINE P == {y \in S : <<y, x>> \in Less}
             g == [y \in P |-> f[y]]
  <2>1. IsFiniteSet(P)
    BY FS_Subset
  <2>2. f[x] \in 0 .. n - 1
    OBVIOUS
  <2>3. \A y \in P : g[y] \in 0 .. f[x] - 1
    BY <2>2
  <2>4. \A y, z \in P : g[y] = g[z] => y = z
    BY <1>1
  <2>5. \A k \in 0 .. f[x] - 1 : \E y \in P : g[y] = k
    <3> SUFFICES ASSUME NEW k \in 0 .. f[x] - 1 PROVE \E y \in P : g[y] = k
      OBVIOUS
    <3>1. k \in 0 .. n - 1 /\ k \in Int /\ f[x] \in Int /\ k < f[x]
      BY <2>2
    <3>2. PICK y \in S : f[y] = k
      BY <3>1
    <3>3. y # x
      BY <3>1, <3>2
    <3>4. <<y, x>> \in Less \/ <<x, y>> \in Less
      BY <3>3, Zenon DEF Strict
    <3>5. <<x, y>> \notin Less
      BY <3>1, <3>2
    <3>6. y \in P
      BY <3>4, <3>5
    <3>7. QED
      BY <3>2, <3>6
  <2>6. g \in Bijection(P, 0 .. f[x] - 1)
    <3>1. g \in [P -> 0 .. f[x] - 1]
      BY <2>3
    <3>2. QED
      BY <2>4, <2>5, <3>1 DEF Bijection, Injection, Surjection, IsInjective
  <2>7. Cardinality(0 .. f[x] - 1) = f[x]
    BY <2>2, FS_Interval
  <2>8. Cardinality(P) = f[x]
    <3>1. ExistsBijection(P, 0 .. f[x] - 1)
      BY <2>6 DEF ExistsBijection
    <3>2. QED
      BY <2>1, <2>7, <3>1, FS_Bijection
  <2>9. QED
    BY <2>8 DEF Behind
<1>6. QED
  BY <1>4, <1>5

-----------------------------------------------------------------------------
(* Division.                                                                *)

LEMMA DivMod ==
  ASSUME NEW m \in Nat \ {0}, NEW r \in Nat
  PROVE  r \div m \in Nat /\ r % m \in 0 .. m - 1 /\ r = m * (r \div m) + (r % m)
<1>1. r \div m \in Nat
  OBVIOUS
<1>2. r % m \in 0 .. m - 1
  OBVIOUS
<1>3. r = m * (r \div m) + (r % m)
  OBVIOUS
<1>4. QED
  BY <1>1, <1>2, <1>3

LEMMA DivUnique ==
  ASSUME NEW m \in Nat \ {0}, NEW k \in Nat, NEW s \in 0 .. m - 1
  PROVE  (m * k + s) % m = s /\ (m * k + s) \div m = k
OBVIOUS

\* Products of a bounded number stay below that of the bound.
LEMMA ProductBelow ==
  ASSUME NEW m \in Nat \ {0}, NEW n \in Nat, NEW k \in Nat, NEW s \in 0 .. m - 1
  PROVE  /\ k < n => m * k + s < m * n
         /\ m * k + s < m * n => k < n
         /\ m * k + s \in Nat /\ m * n \in Nat
<1>1. m * k \in Nat /\ m * n \in Nat
  OBVIOUS
<1>2. m * (k + 1) = m * k + m
  OBVIOUS
<1>3. k < n => m * k + s < m * n
  <2>1. SUFFICES ASSUME k + 1 <= n PROVE m * k + s < m * n
    OBVIOUS
  <2>2. m * (k + 1) <= m * n
    BY <2>1
  <2>3. QED
    BY <1>1, <1>2, <2>2
<1>4. m * k + s < m * n => k < n
  <2>1. SUFFICES ASSUME n <= k PROVE m * n <= m * k + s
    BY <1>1
  <2>2. m * n <= m * k
    BY <2>1
  <2>3. QED
    BY <1>1, <2>2
<1>5. QED
  BY <1>1, <1>3, <1>4

Global == 0 .. W * EPR - 1

\* A global expert is a rank and one of its experts.
LEMMA ExpertDecodes ==
  ASSUME NEW d \in Rank, NEW e \in Expert
  PROVE  d * EPR + e \in Global /\ DstOf(d * EPR + e) = d /\ LocalOf(d * EPR + e) = e
<1>1. EPR \in Nat \ {0} /\ d \in Nat /\ d < W /\ e \in 0 .. EPR - 1 /\ W \in Nat
  BY RoutingAssumption DEF Rank, Expert
<1>2. d * EPR = EPR * d /\ W * EPR = EPR * W
  BY <1>1
<1>3. (EPR * d + e) % EPR = e /\ (EPR * d + e) \div EPR = d
  BY <1>1, DivUnique
<1>4. EPR * d + e < EPR * W /\ EPR * d + e \in Nat /\ EPR * W \in Nat
  BY <1>1, ProductBelow
<1>5. QED
  BY <1>2, <1>3, <1>4 DEF DstOf, LocalOf, Global

LEMMA ExpertEncodes ==
  ASSUME NEW g \in Global
  PROVE  DstOf(g) \in Rank /\ LocalOf(g) \in Expert /\ g = DstOf(g) * EPR + LocalOf(g)
<1>1. EPR \in Nat \ {0} /\ g \in Nat /\ W \in Nat /\ W * EPR = EPR * W /\ W * EPR \in Nat
  BY RoutingAssumption DEF Global
<1> DEFINE d == g \div EPR
           e == g % EPR
<1>2. d \in Nat /\ e \in 0 .. EPR - 1 /\ g = EPR * d + e
  BY <1>1, DivMod
<1>3. g < EPR * W
  BY <1>1 DEF Global
<1> HIDE DEF d, e
<1>4. d < W
  BY <1>1, <1>2, <1>3, ProductBelow
<1>5. d * EPR = EPR * d
  BY <1>1, <1>2
<1>6. d \in Rank /\ e \in Expert /\ g = d * EPR + e
  BY <1>1, <1>2, <1>4, <1>5 DEF Rank, Expert
<1>7. QED
  BY <1>6 DEF d, e, DstOf, LocalOf

-----------------------------------------------------------------------------
(* Slots.                                                                   *)

Routed(t) == t \in [Rank -> Seq(Global)]

CountsFor(t, g) == [src \in Rank |-> Counts(t, src, g)]
Splits(t, d) == [x \in Expert |-> SplitSize(t, d, x)]

\* Among the choices of one rank for one expert, each has its own place.
Place(t, src, g, j) == Cardinality({i \in Hits(t, src, g) : i < j})

LEMMA Places ==
  ASSUME NEW t, Routed(t), NEW src \in Rank, NEW g
  PROVE  /\ Counts(t, src, g) \in Nat /\ IsFiniteSet(Hits(t, src, g))
         /\ \A j \in Hits(t, src, g) : Place(t, src, g, j) \in 0 .. Counts(t, src, g) - 1
         /\ \A i, j \in Hits(t, src, g) : i < j => Place(t, src, g, i) < Place(t, src, g, j)
         /\ \A k \in 0 .. Counts(t, src, g) - 1 : \E j \in Hits(t, src, g) : Place(t, src, g, j) = k
<1> DEFINE H == Hits(t, src, g)
<1>1. t[src] \in Seq(Global) /\ Len(t[src]) \in Nat /\ DOMAIN t[src] = 1 .. Len(t[src])
  BY DEF Routed
<1>2. H \in SUBSET (1 .. Len(t[src])) /\ H \in SUBSET Nat
  BY <1>1 DEF Hits
<1>3. IsFiniteSet(H)
  <2>1. IsFiniteSet(1 .. Len(t[src]))
    BY <1>1, UpTo
  <2>2. QED
    BY <1>2, <2>1, FS_Subset
<1>4. Counts(t, src, g) = Cardinality(H)
  BY DEF Counts
<1> HIDE DEF H
<1>5. Strict(H, Below)
  BY <1>2 DEF Strict, Below
<1>6. \A j \in H : Behind(H, Below, j) = Place(t, src, g, j)
  <2> SUFFICES ASSUME NEW j \in H PROVE Behind(H, Below, j) = Place(t, src, g, j)
    OBVIOUS
  <2>1. {y \in H : <<y, j>> \in Below} = {i \in H : i < j}
    BY <1>2 DEF Below
  <2>2. QED
    BY <2>1, Zenon DEF Behind, Place, H
<1>7. \A i, j \in H : i < j => <<i, j>> \in Below
  BY <1>2 DEF Below
<1>8. /\ Cardinality(H) \in Nat
      /\ \A x \in H : Behind(H, Below, x) \in 0 .. Cardinality(H) - 1
      /\ \A x, y \in H : <<x, y>> \in Below => Behind(H, Below, x) < Behind(H, Below, y)
      /\ \A k \in 0 .. Cardinality(H) - 1 : \E x \in H : Behind(H, Below, x) = k
  BY <1>3, <1>5, Ranking
<1>9. /\ Counts(t, src, g) \in Nat /\ IsFiniteSet(H)
      /\ \A j \in H : Place(t, src, g, j) \in 0 .. Counts(t, src, g) - 1
      /\ \A i, j \in H : i < j => Place(t, src, g, i) < Place(t, src, g, j)
      /\ \A k \in 0 .. Counts(t, src, g) - 1 : \E j \in H : Place(t, src, g, j) = k
  BY <1>3, <1>4, <1>6, <1>7, <1>8
<1>10. QED
  BY <1>9 DEF H

LEMMA SplitFacts ==
  ASSUME NEW t, Routed(t), NEW d \in Rank
  PROVE  /\ \A g : \A k \in 0 .. W - 1 : CountsFor(t, g)[k] = Counts(t, k, g) /\ CountsFor(t, g)[k] \in Nat
         /\ \A e \in Expert : SplitSize(t, d, e) = SumBelow(CountsFor(t, d * EPR + e), W)
         /\ \A e \in 0 .. EPR - 1 : Splits(t, d)[e] = SplitSize(t, d, e) /\ Splits(t, d)[e] \in Nat
         /\ \A e : CuSeqlens(t, d, e) = SumBelow(Splits(t, d), e)
<1>1. \A g : \A k \in 0 .. W - 1 : CountsFor(t, g)[k] = Counts(t, k, g) /\ CountsFor(t, g)[k] \in Nat
  BY Places DEF CountsFor, Rank
<1>2. \A e \in Expert : SplitSize(t, d, e) = SumBelow(CountsFor(t, d * EPR + e), W)
  BY DEF SplitSize, CountsFor
<1>3. \A e \in 0 .. EPR - 1 : SplitSize(t, d, e) \in Nat
  <2> SUFFICES ASSUME NEW e \in 0 .. EPR - 1 PROVE SplitSize(t, d, e) \in Nat
    OBVIOUS
  <2>1. W \in Nat /\ W \in 0 .. W /\ e \in Expert
    BY RoutingAssumption DEF Expert
  <2>2. SumBelow(CountsFor(t, d * EPR + e), W) \in Nat
    BY <1>1, <2>1, SumType
  <2>3. QED
    BY <1>2, <2>1, <2>2
<1>4. \A e \in 0 .. EPR - 1 : Splits(t, d)[e] = SplitSize(t, d, e) /\ Splits(t, d)[e] \in Nat
  BY <1>3 DEF Splits, Expert
<1>5. \A e : CuSeqlens(t, d, e) = SumBelow(Splits(t, d), e)
  BY DEF CuSeqlens, Splits
<1>6. QED
  BY <1>1, <1>2, <1>4, <1>5

\* The spans of the experts follow one another.
LEMMA Spans ==
  ASSUME NEW t, Routed(t), NEW d \in Rank
  PROVE  /\ CuSeqlens(t, d, 0) = 0
         /\ \A e \in 0 .. EPR : CuSeqlens(t, d, e) \in Nat
         /\ \A e \in Expert : /\ SplitSize(t, d, e) \in Nat
                              /\ CuSeqlens(t, d, e + 1) = CuSeqlens(t, d, e) + SplitSize(t, d, e)
         /\ \A e \in Expert, x \in 0 .. EPR : e < x => CuSeqlens(t, d, e + 1) <= CuSeqlens(t, d, x)
         /\ \A v \in 0 .. TotalRows(t, d) - 1 :
              \E e \in Expert : v \in CuSeqlens(t, d, e) .. CuSeqlens(t, d, e + 1) - 1
<1> DEFINE f == Splits(t, d)
<1>1. /\ \A e \in 0 .. EPR - 1 : f[e] = SplitSize(t, d, e) /\ f[e] \in Nat
      /\ \A e : CuSeqlens(t, d, e) = SumBelow(f, e)
  BY SplitFacts
<1>2. EPR \in Nat /\ Expert = 0 .. EPR - 1
  BY RoutingAssumption DEF Expert
<1> HIDE DEF f
<1>3. \A e \in 0 .. EPR : SumBelow(f, e) \in Nat
  BY <1>1, <1>2, SumType
<1>4. \A e \in Nat : SumBelow(f, e + 1) = SumBelow(f, e) + f[e]
  BY SumStep
<1>5. \A e \in Expert : CuSeqlens(t, d, e + 1) = CuSeqlens(t, d, e) + SplitSize(t, d, e)
  <2> SUFFICES ASSUME NEW e \in Expert
               PROVE  CuSeqlens(t, d, e + 1) = CuSeqlens(t, d, e) + SplitSize(t, d, e)
    OBVIOUS
  <2>1. CuSeqlens(t, d, e + 1) = SumBelow(f, e + 1) /\ CuSeqlens(t, d, e) = SumBelow(f, e)
    BY <1>1
  <2>2. SumBelow(f, e + 1) = SumBelow(f, e) + f[e] /\ f[e] = SplitSize(t, d, e)
    <3>1. e \in 0 .. EPR - 1 /\ e \in Nat
      BY <1>2
    <3>2. QED
      BY <1>1, <1>4, <3>1, Zenon
  <2>3. QED
    BY <2>1, <2>2
<1>6. \A e \in Expert, x \in 0 .. EPR : e < x => SumBelow(f, e) + f[e] <= SumBelow(f, x)
  <2> SUFFICES ASSUME NEW e \in Expert, NEW x \in 0 .. EPR, e < x
               PROVE  SumBelow(f, e) + f[e] <= SumBelow(f, x)
    OBVIOUS
  <2>1. e \in 0 .. EPR
    BY <1>2
  <2>2. QED
    BY <1>1, <1>2, <2>1, SumMonotone
<1>7. SumBelow(f, 0) = 0
  BY SumStep
<1>8. \A v \in 0 .. TotalRows(t, d) - 1 :
        \E e \in Expert : v \in CuSeqlens(t, d, e) .. CuSeqlens(t, d, e + 1) - 1
  <2> SUFFICES ASSUME NEW v \in 0 .. TotalRows(t, d) - 1
               PROVE  \E e \in Expert : v \in CuSeqlens(t, d, e) .. CuSeqlens(t, d, e + 1) - 1
    OBVIOUS
  <2>1. TotalRows(t, d) = SumBelow(f, EPR)
    BY <1>1 DEF TotalRows
  <2>2. v \in Nat /\ v < SumBelow(f, EPR)
    BY <2>1, <1>2, <1>3
  <2>3. PICK e \in 0 .. EPR - 1 : SumBelow(f, e) <= v /\ v < SumBelow(f, e) + f[e]
    BY <1>1, <1>2, <2>2, SumLocates
  <2>4. e \in Expert /\ CuSeqlens(t, d, e) \in Nat /\ CuSeqlens(t, d, e + 1) \in Nat
    <3>1. e \in 0 .. EPR /\ e + 1 \in 0 .. EPR
      BY <1>2
    <3>2. QED
      BY <1>1, <1>2, <1>3, <3>1
  <2>5. CuSeqlens(t, d, e) <= v /\ v < CuSeqlens(t, d, e + 1)
    BY <1>1, <1>4, <2>3
  <2>6. v \in CuSeqlens(t, d, e) .. CuSeqlens(t, d, e + 1) - 1
    BY <2>2, <2>4, <2>5
  <2>7. QED
    BY <2>4, <2>6
<1>9. QED
  BY <1>1, <1>2, <1>3, <1>4, <1>5, <1>6, <1>7, <1>8

\* The routed choices, by the rank that has their expert.
Chosen(t) == UNION {{src} \X DOMAIN t[src] : src \in Rank}
ExpertOf(t, x) == t[x[1]][x[2]]
SlotAt(t, x) == Slot(t, x[1], x[2])

LEMMA ChosenFacts ==
  ASSUME NEW t, Routed(t), NEW x
  PROVE  /\ x \in Chosen(t) <=> /\ x = <<x[1], x[2]>> /\ x[1] \in Rank /\ x[2] \in DOMAIN t[x[1]]
         /\ x \in Chosen(t) => ExpertOf(t, x) \in Global /\ x[2] \in Nat
<1>1. x \in Chosen(t) <=> x = <<x[1], x[2]>> /\ x[1] \in Rank /\ x[2] \in DOMAIN t[x[1]]
  BY DEF Chosen
<1>2. ASSUME x \in Chosen(t) PROVE ExpertOf(t, x) \in Global /\ x[2] \in Nat
  <2>1. t[x[1]] \in Seq(Global) /\ x[2] \in DOMAIN t[x[1]]
    BY <1>1, <1>2 DEF Routed
  <2>2. QED
    BY <2>1 DEF ExpertOf
<1>3. QED
  BY <1>1, <1>2

\* The order of the receive buffer: by expert, source rank, and token.
Precedes(t, x, y) ==
  LET e == LocalOf(ExpertOf(t, x))
      f == LocalOf(ExpertOf(t, y))
  IN  e < f \/ (e = f /\ x[1] < y[1]) \/ (e = f /\ x[1] = y[1] /\ x[2] < y[2])

\* What a slot is made of.
LEMMA SlotParts ==
  ASSUME NEW t, Routed(t), NEW x \in Chosen(t), NEW d, NEW e,
         d = DstOf(ExpertOf(t, x)), e = LocalOf(ExpertOf(t, x))
  PROVE  LET s == x[1]
             g == d * EPR + e
         IN  /\ d \in Rank /\ e \in Expert /\ ExpertOf(t, x) = g /\ x[2] \in Hits(t, s, g)
             /\ SlotAt(t, x) = CuSeqlens(t, d, e) + SumBelow(CountsFor(t, g), s) + Place(t, s, g, x[2])
             /\ CuSeqlens(t, d, e) \in Nat /\ SumBelow(CountsFor(t, g), s) \in Nat
             /\ Place(t, s, g, x[2]) \in 0 .. Counts(t, s, g) - 1
             /\ SumBelow(CountsFor(t, g), s) + Counts(t, s, g) <= SplitSize(t, d, e)
             /\ \A u \in Rank : s < u =>
                  SumBelow(CountsFor(t, g), s) + Counts(t, s, g) <= SumBelow(CountsFor(t, g), u)
             /\ CuSeqlens(t, d, e + 1) = CuSeqlens(t, d, e) + SplitSize(t, d, e) /\ SplitSize(t, d, e) \in Nat
<1> DEFINE s == x[1]
           g == d * EPR + e
           c == CountsFor(t, g)
<1>1. s \in Rank /\ x[2] \in DOMAIN t[s] /\ ExpertOf(t, x) \in Global
  BY ChosenFacts
<1>2. d \in Rank /\ e \in Expert /\ ExpertOf(t, x) = g
  BY <1>1, ExpertEncodes
<1>3. x[2] \in Hits(t, s, g)
  BY <1>1, <1>2 DEF Hits, ExpertOf
<1>4. SlotAt(t, x) = CuSeqlens(t, d, e) + SumBelow(c, s) + Place(t, s, g, x[2])
  <2>1. t[x[1]][x[2]] = g
    BY <1>2 DEF ExpertOf
  <2>2. DstOf(g) = d /\ LocalOf(g) = e
    BY <1>2, ExpertDecodes
  <2>3. Slot(t, s, x[2]) = Base(t, d, e, s) + Place(t, s, g, x[2])
    BY <2>1, <2>2 DEF Slot, Place
  <2>4. Base(t, d, e, s) = CuSeqlens(t, d, e) + SumBelow(c, s)
    BY Zenon DEF Base, CountsFor
  <2>5. QED
    BY <2>3, <2>4 DEF SlotAt
<1>5. /\ \A k \in 0 .. W - 1 : c[k] = Counts(t, k, g) /\ c[k] \in Nat
      /\ SplitSize(t, d, e) = SumBelow(c, W)
  BY <1>2, SplitFacts
<1>6. W \in Nat /\ Rank = 0 .. W - 1 /\ s \in 0 .. W - 1
  BY <1>1, RoutingAssumption DEF Rank
<1>7. CuSeqlens(t, d, e) \in Nat
  <2>1. e \in 0 .. EPR
    BY <1>2, RoutingAssumption DEF Expert
  <2>2. QED
    BY <1>2, <2>1, Spans
<1>8. CuSeqlens(t, d, e + 1) = CuSeqlens(t, d, e) + SplitSize(t, d, e) /\ SplitSize(t, d, e) \in Nat
  BY <1>2, Spans
<1>9. Place(t, s, g, x[2]) \in 0 .. Counts(t, s, g) - 1
  BY <1>1, <1>3, Places
<1> HIDE DEF s, g, c
<1>10. \A n \in 0 .. W : SumBelow(c, n) \in Nat
  BY <1>5, <1>6, SumType
<1>11. \A u \in 0 .. W : s < u => SumBelow(c, s) + c[s] <= SumBelow(c, u)
  BY <1>5, <1>6, SumMonotone
<1>12. SumBelow(c, s) \in Nat
  BY <1>6, <1>10
<1>13. SumBelow(c, s) + Counts(t, s, g) <= SplitSize(t, d, e)
  <2>1. W \in 0 .. W /\ s < W
    BY <1>6
  <2>2. QED
    BY <1>5, <1>6, <1>11, <2>1
<1>14. \A u \in Rank : s < u => SumBelow(c, s) + Counts(t, s, g) <= SumBelow(c, u)
  BY <1>5, <1>6, <1>11
<1>15. QED
  BY <1>2, <1>3, <1>4, <1>7, <1>8, <1>9, <1>12, <1>13, <1>14 DEF s, g, c

\* The slot lies in its expert's span.
LEMMA SlotInSpan ==
  ASSUME NEW t, Routed(t), NEW x \in Chosen(t), NEW d, NEW e,
         d = DstOf(ExpertOf(t, x)), e = LocalOf(ExpertOf(t, x))
  PROVE  /\ SlotAt(t, x) \in CuSeqlens(t, d, e) .. CuSeqlens(t, d, e + 1) - 1
         /\ SlotAt(t, x) \in 0 .. TotalRows(t, d) - 1
<1> DEFINE s == x[1]
           g == d * EPR + e
           a == CuSeqlens(t, d, e)
           b == SumBelow(CountsFor(t, g), s)
           p == Place(t, s, g, x[2])
           n == Counts(t, s, g)
           z == SplitSize(t, d, e)
<1>1. /\ d \in Rank /\ e \in Expert /\ SlotAt(t, x) = a + b + p /\ a \in Nat /\ b \in Nat
      /\ p \in 0 .. n - 1 /\ b + n <= z /\ CuSeqlens(t, d, e + 1) = a + z /\ z \in Nat
  BY SlotParts
<1>2. n \in Nat
  <2>1. s \in Rank
    BY ChosenFacts
  <2>2. QED
    BY <2>1, Places
<1>3. CuSeqlens(t, d, e + 1) <= TotalRows(t, d) /\ TotalRows(t, d) \in Nat
  <2>1. EPR \in 0 .. EPR /\ e < EPR
    BY <1>1, RoutingAssumption DEF Expert
  <2>2. QED
    BY <1>1, <2>1, Spans DEF TotalRows
<1> HIDE DEF a, b, p, n, z
<1>4. SlotAt(t, x) \in a .. CuSeqlens(t, d, e + 1) - 1
  BY <1>1, <1>2
<1>5. SlotAt(t, x) \in 0 .. TotalRows(t, d) - 1
  BY <1>1, <1>3, <1>4
<1>6. QED
  BY <1>4, <1>5 DEF a

\* Slots ascend in the order of the buffer.
LEMMA SlotsAscend ==
  ASSUME NEW t, Routed(t), NEW x \in Chosen(t), NEW y \in Chosen(t),
         DstOf(ExpertOf(t, x)) = DstOf(ExpertOf(t, y)), Precedes(t, x, y)
  PROVE  SlotAt(t, x) < SlotAt(t, y)
<1> DEFINE d == DstOf(ExpertOf(t, x))
           e == LocalOf(ExpertOf(t, x))
           f == LocalOf(ExpertOf(t, y))
           g == d * EPR + e
<1>1. SlotAt(t, x) \in CuSeqlens(t, d, e) .. CuSeqlens(t, d, e + 1) - 1 /\ d \in Rank /\ e \in Expert
  BY SlotInSpan, SlotParts
<1>2. SlotAt(t, y) \in CuSeqlens(t, d, f) .. CuSeqlens(t, d, f + 1) - 1 /\ f \in Expert
  BY SlotInSpan, SlotParts
<1>3. /\ \A k \in 0 .. EPR : CuSeqlens(t, d, k) \in Nat
      /\ \A k \in Expert, u \in 0 .. EPR : k < u => CuSeqlens(t, d, k + 1) <= CuSeqlens(t, d, u)
  BY <1>1, Spans
<1>4. /\ e \in 0 .. EPR /\ f \in 0 .. EPR /\ e + 1 \in 0 .. EPR /\ f + 1 \in 0 .. EPR
  BY <1>1, <1>2, RoutingAssumption DEF Expert
<1>5. x[1] \in Rank /\ y[1] \in Rank /\ x[1] \in Nat /\ y[1] \in Nat
  BY ChosenFacts, RoutingAssumption DEF Rank
<1>6. e < f \/ (e = f /\ x[1] < y[1]) \/ (e = f /\ x[1] = y[1] /\ x[2] < y[2])
  BY Zenon DEF Precedes
<1>7. CASE e < f
  <2>1. CuSeqlens(t, d, e + 1) <= CuSeqlens(t, d, f)
    BY <1>1, <1>3, <1>4, <1>7
  <2>2. /\ CuSeqlens(t, d, e) \in Nat /\ CuSeqlens(t, d, e + 1) \in Nat
        /\ CuSeqlens(t, d, f) \in Nat /\ CuSeqlens(t, d, f + 1) \in Nat
    BY <1>3, <1>4
  <2>3. QED
    BY <1>1, <1>2, <2>1, <2>2
<1>8. CASE e = f
  <2> DEFINE a == CuSeqlens(t, d, e)
             b == SumBelow(CountsFor(t, g), x[1])
             c == SumBelow(CountsFor(t, g), y[1])
             p == Place(t, x[1], g, x[2])
             q == Place(t, y[1], g, y[2])
             n == Counts(t, x[1], g)
  <2>1. /\ SlotAt(t, x) = a + b + p /\ a \in Nat /\ b \in Nat /\ p \in 0 .. n - 1
        /\ x[1] < y[1] => b + n <= c
        /\ x[2] \in Hits(t, x[1], g)
    BY <1>5, SlotParts
  <2>2. /\ SlotAt(t, y) = a + c + q /\ c \in Nat /\ q \in 0 .. Counts(t, y[1], g) - 1
        /\ y[2] \in Hits(t, y[1], g)
    BY <1>8, SlotParts
  <2>3. n \in Nat /\ Counts(t, y[1], g) \in Nat
    BY <1>5, Places
  <2>4. x[1] = y[1] /\ x[2] < y[2] => b = c /\ p < q
    <3>1. SUFFICES ASSUME x[1] = y[1], x[2] < y[2] PROVE b = c /\ p < q
      OBVIOUS
    <3>2. b = c
      BY <3>1
    <3>3. y[2] \in Hits(t, x[1], g) /\ q = Place(t, x[1], g, y[2])
      BY <2>2, <3>1
    <3>4. p < q
      BY <1>5, <2>1, <3>1, <3>3, Places
    <3>5. QED
      BY <3>2, <3>4
  <2> HIDE DEF a, b, c, p, q, n
  <2>5. CASE x[1] < y[1]
    BY <2>1, <2>2, <2>3, <2>5
  <2>6. CASE x[1] = y[1] /\ x[2] < y[2]
    BY <2>1, <2>2, <2>3, <2>4, <2>6
  <2>7. QED
    BY <1>6, <1>8, <1>1, <1>4, <2>5, <2>6
<1>9. QED
  BY <1>6, <1>7, <1>8

\* No two share one.
LEMMA SlotsDiffer ==
  ASSUME NEW t, Routed(t), NEW x \in Chosen(t), NEW y \in Chosen(t),
         DstOf(ExpertOf(t, x)) = DstOf(ExpertOf(t, y)), SlotAt(t, x) = SlotAt(t, y)
  PROVE  x = y
<1>1. SUFFICES ASSUME x # y PROVE FALSE
  OBVIOUS
<1> DEFINE e == LocalOf(ExpertOf(t, x))
           f == LocalOf(ExpertOf(t, y))
<1>2. e \in Int /\ f \in Int
  <2>1. e \in Expert /\ f \in Expert
    BY SlotParts
  <2>2. QED
    BY <2>1, RoutingAssumption DEF Expert
<1>3. /\ x = <<x[1], x[2]>> /\ y = <<y[1], y[2]>>
      /\ x[1] \in Int /\ y[1] \in Int /\ x[2] \in Int /\ y[2] \in Int
  BY ChosenFacts, RoutingAssumption DEF Rank
<1>4. x[1] # y[1] \/ x[2] # y[2]
  BY <1>1, <1>3
<1>5. Precedes(t, x, y) \/ Precedes(t, y, x)
  <2> HIDE DEF e, f
  <2>1. \/ e < f \/ (e = f /\ x[1] < y[1]) \/ (e = f /\ x[1] = y[1] /\ x[2] < y[2])
        \/ f < e \/ (f = e /\ y[1] < x[1]) \/ (f = e /\ y[1] = x[1] /\ y[2] < x[2])
    BY <1>2, <1>3, <1>4
  <2>2. QED
    BY <2>1, Zenon DEF e, f, Precedes
<1>6. SlotAt(t, x) < SlotAt(t, y) \/ SlotAt(t, y) < SlotAt(t, x)
  BY <1>5, SlotsAscend
<1>7. SlotAt(t, x) \in Int /\ SlotAt(t, y) \in Int
  BY SlotInSpan
<1>8. QED
  BY <1>6, <1>7

\* And no slot is left over.
LEMMA SlotsFill ==
  ASSUME NEW t, Routed(t), NEW d \in Rank, NEW e \in Expert,
         NEW v \in CuSeqlens(t, d, e) .. CuSeqlens(t, d, e + 1) - 1
  PROVE  \E x \in Chosen(t) : ExpertOf(t, x) = d * EPR + e /\ SlotAt(t, x) = v
<1> DEFINE g == d * EPR + e
           c == CountsFor(t, g)
           a == CuSeqlens(t, d, e)
<1>1. /\ \A k \in 0 .. W - 1 : c[k] = Counts(t, k, g) /\ c[k] \in Nat
      /\ SplitSize(t, d, e) = SumBelow(c, W)
  BY SplitFacts
<1>2. CuSeqlens(t, d, e + 1) = a + SplitSize(t, d, e) /\ a \in Nat /\ SplitSize(t, d, e) \in Nat
  <2>1. e \in 0 .. EPR
    BY RoutingAssumption DEF Expert
  <2>2. QED
    BY <2>1, Spans
<1>3. W \in Nat /\ Rank = 0 .. W - 1
  BY RoutingAssumption DEF Rank
<1> HIDE DEF c
<1>4. v - a \in Nat /\ v - a < SumBelow(c, W)
  BY <1>1, <1>2
<1>5. PICK s \in 0 .. W - 1 : SumBelow(c, s) <= v - a /\ v - a < SumBelow(c, s) + c[s]
  BY <1>1, <1>3, <1>4, SumLocates
<1>6. SumBelow(c, s) \in Nat
  <2>1. s \in 0 .. W
    BY <1>3
  <2>2. QED
    BY <1>1, <1>3, <2>1, SumType
<1> DEFINE k == (v - a) - SumBelow(c, s)
<1>7. k \in 0 .. Counts(t, s, g) - 1 /\ v = a + SumBelow(c, s) + k
  <2>1. c[s] = Counts(t, s, g) /\ Counts(t, s, g) \in Nat
    BY <1>1
  <2>2. QED
    BY <1>2, <1>4, <1>5, <1>6, <2>1
<1> HIDE DEF k
<1>8. PICK j \in Hits(t, s, g) : Place(t, s, g, j) = k
  BY <1>3, <1>7, Places
<1> DEFINE x == <<s, j>>
<1>9. x \in Chosen(t) /\ ExpertOf(t, x) = g
  <2>1. x[1] \in Rank /\ x[2] \in DOMAIN t[x[1]] /\ t[s][j] = g
    BY <1>3, <1>8 DEF Hits
  <2>2. QED
    BY <2>1, ChosenFacts DEF ExpertOf
<1>10. DstOf(ExpertOf(t, x)) = d /\ LocalOf(ExpertOf(t, x)) = e
  BY <1>9, ExpertDecodes
<1>11. SlotAt(t, x) = CuSeqlens(t, d, e) + SumBelow(CountsFor(t, g), x[1]) + Place(t, x[1], g, x[2])
  BY <1>9, <1>10, SlotParts
<1>12. SlotAt(t, x) = a + SumBelow(c, s) + k
  BY <1>8, <1>11 DEF c
<1>13. QED
  BY <1>7, <1>9, <1>12

-----------------------------------------------------------------------------
(* Segments.                                                                *)

LEMMA Rotates ==
  ASSUME NEW r \in Rank, NEW d \in Rank
  PROVE  (d + W - r) % W \in Rank /\ (((d + W - r) % W) + r) % W = d
<1>1. W \in Nat \ {0} /\ r \in 0 .. W - 1 /\ d \in 0 .. W - 1
  BY RoutingAssumption DEF Rank
<1>2. \A s \in 0 .. W - 1 : s % W = s /\ (W + s) % W = s
  <2> SUFFICES ASSUME NEW s \in 0 .. W - 1 PROVE s % W = s /\ (W + s) % W = s
    OBVIOUS
  <2>1. (W * 0 + s) % W = s /\ (W * 1 + s) % W = s
    BY <1>1, DivUnique
  <2>2. W * 0 + s = s /\ W * 1 + s = W + s
    BY <1>1
  <2>3. QED
    BY <2>1, <2>2
<1>3. CASE r <= d
  <2>1. d - r \in 0 .. W - 1 /\ d + W - r = W + (d - r)
    BY <1>1, <1>3
  <2>2. (d + W - r) % W = d - r
    BY <1>2, <2>1
  <2>3. (d - r) + r = d
    BY <1>1
  <2>4. QED
    BY <1>1, <1>2, <2>1, <2>2, <2>3 DEF Rank
<1>4. CASE d < r
  <2>1. d + W - r \in 0 .. W - 1
    BY <1>1, <1>4
  <2>2. (d + W - r) % W = d + W - r
    BY <1>2, <2>1
  <2>3. (d + W - r) + r = W + d
    BY <1>1
  <2>4. QED
    BY <1>1, <1>2, <2>1, <2>2, <2>3 DEF Rank
<1>5. QED
  BY <1>1, <1>3, <1>4

\* The id of a segment gives back expert and destination.
LEMMA SegDecodes ==
  ASSUME NEW r \in Rank, NEW g \in Global
  PROVE  /\ SegOf(r, g) \in 0 .. EPR * W - 1
         /\ SegOf(r, g) \div W = LocalOf(g)
         /\ ((SegOf(r, g) % W) + r) % W = DstOf(g)
<1> DEFINE d == DstOf(g)
           e == LocalOf(g)
           k == (d + W - r) % W
<1>1. d \in Rank /\ e \in Expert
  BY ExpertEncodes
<1>2. k \in Rank /\ (k + r) % W = d
  BY <1>1, Rotates
<1>3. SegOf(r, g) = e * W + k
  BY DEF SegOf
<1> HIDE DEF d, e, k
<1>4. W \in Nat \ {0} /\ k \in 0 .. W - 1 /\ e \in Nat /\ e < EPR /\ EPR \in Nat
  BY <1>1, <1>2, RoutingAssumption DEF Rank, Expert
<1>5. e * W = W * e /\ EPR * W = W * EPR
  BY <1>4
<1>6. (W * e + k) % W = k /\ (W * e + k) \div W = e
  BY <1>4, DivUnique
<1>7. W * e + k < W * EPR /\ W * e + k \in Nat /\ W * EPR \in Nat
  BY <1>4, ProductBelow
<1>8. SegOf(r, g) \in 0 .. EPR * W - 1 /\ SegOf(r, g) \div W = e /\ SegOf(r, g) % W = k
  BY <1>3, <1>5, <1>6, <1>7
<1>9. QED
  BY <1>2, <1>8 DEF d, e

-----------------------------------------------------------------------------
(* Send lists.                                                              *)

\* A list has one entry for each choice, in the order of the segments.
LEMMA SendOrders ==
  ASSUME NEW t, Routed(t), NEW r \in Rank
  PROVE  LET o == SendOrder(t, r)
         IN  /\ DOMAIN t[r] = 1 .. Len(t[r]) /\ Len(t[r]) \in Nat /\ DOMAIN o = DOMAIN t[r]
             /\ \A i \in DOMAIN o : o[i] \in DOMAIN t[r]
             /\ \A j \in DOMAIN t[r] : \E i \in DOMAIN o : o[i] = j
             /\ \A i, k \in DOMAIN o : o[i] = o[k] => i = k
             /\ \A i, k \in DOMAIN o : i < k => SegOf(r, t[r][o[i]]) <= SegOf(r, t[r][o[k]])
<1> DEFINE choices == DOMAIN t[r]
           seg == [j \in choices |-> SegOf(r, t[r][j])]
           before == {p \in choices \X choices :
                        \/ seg[p[1]] < seg[p[2]]
                        \/ seg[p[1]] = seg[p[2]] /\ p[1] < p[2]}
           o == SendOrder(t, r)
<1>1. o = Sorted(choices, before)
  BY Zenon DEF SendOrder
<1>2. /\ choices = 1 .. Len(t[r]) /\ Len(t[r]) \in Nat
      /\ \A j \in choices : t[r][j] \in Global /\ j \in Int
  BY DEF Routed
<1>3. IsFiniteSet(choices) /\ Cardinality(choices) = Len(t[r])
  <2>1. IsFiniteSet(1 .. Len(t[r])) /\ Cardinality(1 .. Len(t[r])) = Len(t[r])
    BY <1>2, UpTo, Zenon
  <2>2. QED
    BY <1>2, <2>1
<1>4. \A j \in choices : seg[j] = SegOf(r, t[r][j]) /\ seg[j] \in Int
  <2> SUFFICES ASSUME NEW j \in choices PROVE seg[j] = SegOf(r, t[r][j]) /\ seg[j] \in Int
    OBVIOUS
  <2>1. SegOf(r, t[r][j]) \in 0 .. EPR * W - 1
    BY <1>2, SegDecodes
  <2>2. EPR * W - 1 \in Int
    BY RoutingAssumption
  <2>3. QED
    BY <2>1, <2>2
<1> HIDE DEF choices, seg
<1>5. \A i, k \in choices :
        <<i, k>> \in before <=> seg[i] < seg[k] \/ (seg[i] = seg[k] /\ i < k)
  OBVIOUS
<1> HIDE DEF before
<1>6. Strict(choices, before)
  <2>0. \A j \in choices : seg[j] \in Int /\ j \in Int
    BY <1>2, <1>4
  <2>1. \A x \in choices : <<x, x>> \notin before
    BY <2>0, <1>5
  <2>2. \A x, y, z \in choices : <<x, y>> \in before /\ <<y, z>> \in before => <<x, z>> \in before
    <3> SUFFICES ASSUME NEW x \in choices, NEW y \in choices, NEW z \in choices,
                        <<x, y>> \in before, <<y, z>> \in before
                 PROVE  <<x, z>> \in before
      OBVIOUS
    <3>1. seg[x] < seg[y] \/ (seg[x] = seg[y] /\ x < y)
      BY <1>5, Zenon
    <3>2. seg[y] < seg[z] \/ (seg[y] = seg[z] /\ y < z)
      BY <1>5, Zenon
    <3>3. seg[x] < seg[z] \/ (seg[x] = seg[z] /\ x < z)
      BY <2>0, <3>1, <3>2
    <3>4. QED
      BY <1>5, <3>3, Zenon
  <2>3. \A x, y \in choices : x # y => <<x, y>> \in before \/ <<y, x>> \in before
    BY <2>0, <1>5
  <2>4. QED
    BY <2>1, <2>2, <2>3 DEF Strict
<1> HIDE DEF o
<1>7. /\ DOMAIN o = 1 .. Cardinality(choices)
      /\ \A i \in DOMAIN o : o[i] \in choices
      /\ \A j \in choices : \E i \in DOMAIN o : o[i] = j
      /\ \A i, k \in DOMAIN o : i < k => <<o[i], o[k]>> \in before
      /\ \A i, k \in DOMAIN o : o[i] = o[k] => i = k
  BY <1>1, <1>3, <1>6, SortedLists
<1>8. ASSUME NEW i \in DOMAIN o, NEW k \in DOMAIN o, i < k
      PROVE  SegOf(r, t[r][o[i]]) <= SegOf(r, t[r][o[k]])
  <2>1. o[i] \in choices /\ o[k] \in choices /\ <<o[i], o[k]>> \in before
    BY <1>7, <1>8
  <2>2. seg[o[i]] <= seg[o[k]]
    BY <1>4, <1>5, <2>1
  <2>3. QED
    BY <1>4, <2>1, <2>2
<1>9. DOMAIN o = choices
  BY <1>2, <1>3, <1>7
<1>10. QED
  BY <1>2, <1>7, <1>8, <1>9 DEF choices, o

\* Position x[2] of the list of rank x[1], and the choice it sends.
Listed(t, x) == SendList(t, x[1])[x[2]]
ChoiceAt(t, x) == <<x[1], SendOrder(t, x[1])[x[2]]>>

LEMMA ListedFacts ==
  ASSUME NEW t, Routed(t), NEW x \in Chosen(t)
  PROVE  LET y == ChoiceAt(t, x)
             g == ExpertOf(t, y)
             p == Listed(t, x)
         IN  /\ y \in Chosen(t) /\ y[1] = x[1] /\ g \in Global
             /\ p = [token |-> (y[2] - 1) \div TopK, slot |-> SlotAt(t, y), dst |-> DstOf(g),
                     expert |-> LocalOf(g), seg |-> SegOf(x[1], g)]
<1> DEFINE r == x[1]
           y == ChoiceAt(t, x)
           g == ExpertOf(t, y)
           o == SendOrder(t, r)
<1>1. r \in Rank /\ x[2] \in DOMAIN t[r]
  BY ChosenFacts
<1>2. x[2] \in DOMAIN o /\ o[x[2]] \in DOMAIN t[r]
  <2>1. DOMAIN o = DOMAIN t[r] /\ \A i \in DOMAIN o : o[i] \in DOMAIN t[r]
    BY <1>1, SendOrders, Zenon
  <2>2. QED
    BY <1>1, <2>1, Zenon
<1>3. y[1] = r /\ y[2] = o[x[2]] /\ y = <<y[1], y[2]>>
  BY DEF ChoiceAt
<1>4. y \in Chosen(t)
  BY <1>1, <1>2, <1>3, ChosenFacts
<1>5. g \in Global
  BY <1>4, ChosenFacts
<1>6. Listed(t, x) = SendEntry(t, r, o[x[2]])
  BY <1>2 DEF Listed, SendList
<1>7. t[r][o[x[2]]] = g
  BY <1>3 DEF ExpertOf
<1>8. Listed(t, x) = [token |-> (y[2] - 1) \div TopK, slot |-> SlotAt(t, y), dst |-> DstOf(g),
                      expert |-> LocalOf(g), seg |-> SegOf(r, g)]
  BY <1>3, <1>6, <1>7 DEF SendEntry, SlotAt
<1>9. QED
  BY <1>3, <1>4, <1>5, <1>8

\* The positions and the choices correspond one to one.
LEMMA Correspond ==
  ASSUME NEW t, Routed(t)
  PROVE  /\ \A y \in Chosen(t) : \E x \in Chosen(t) : ChoiceAt(t, x) = y
         /\ \A x, y \in Chosen(t) : ChoiceAt(t, x) = ChoiceAt(t, y) => x = y
<1>1. ASSUME NEW y \in Chosen(t) PROVE \E x \in Chosen(t) : ChoiceAt(t, x) = y
  <2>1. y = <<y[1], y[2]>> /\ y[1] \in Rank /\ y[2] \in DOMAIN t[y[1]]
    BY ChosenFacts
  <2>2. PICK i \in DOMAIN t[y[1]] : SendOrder(t, y[1])[i] = y[2]
    BY <2>1, SendOrders
  <2> DEFINE x == <<y[1], i>>
  <2>3. x[1] = y[1] /\ x[2] = i
    OBVIOUS
  <2>4. x \in Chosen(t)
    BY <2>1, <2>3, ChosenFacts
  <2>5. ChoiceAt(t, x) = y
    BY <2>1, <2>2, <2>3 DEF ChoiceAt
  <2>6. QED
    BY <2>4, <2>5
<1>2. ASSUME NEW x \in Chosen(t), NEW y \in Chosen(t), ChoiceAt(t, x) = ChoiceAt(t, y) PROVE x = y
  <2>1. /\ x = <<x[1], x[2]>> /\ x[1] \in Rank /\ x[2] \in DOMAIN t[x[1]]
        /\ y = <<y[1], y[2]>> /\ y[1] \in Rank /\ y[2] \in DOMAIN t[y[1]]
    BY ChosenFacts
  <2>2. x[1] = y[1] /\ SendOrder(t, x[1])[x[2]] = SendOrder(t, y[1])[y[2]]
    BY <1>2 DEF ChoiceAt
  <2>3. x[2] = y[2]
    BY <2>1, <2>2, SendOrders
  <2>4. QED
    BY <2>1, <2>2, <2>3
<1>3. QED
  BY <1>1, <1>2

-----------------------------------------------------------------------------
(* Receive buffers.                                                         *)

\* A map that pairs two sets off counts the first by the second.
LEMMA Paired ==
  ASSUME NEW S, NEW T, IsFiniteSet(T), NEW f \in [S -> T],
         \A x, y \in S : f[x] = f[y] => x = y,
         \A v \in T : \E x \in S : f[x] = v
  PROVE  IsFiniteSet(S) /\ Cardinality(S) = Cardinality(T)
<1>1. f \in Bijection(S, T)
  BY DEF Bijection, Injection, Surjection, IsInjective
<1>2. ExistsBijection(T, S)
  <2>1. ExistsBijection(S, T)
    BY <1>1 DEF ExistsBijection
  <2>2. QED
    BY <2>1, Fun_ExistsBijSymmetric
<1>3. QED
  BY <1>2, FS_Bijection

\* The list positions that are sent to rank d, and those for one of its experts.
Arrivals(t, d) == {x \in Chosen(t) : Listed(t, x).dst = d}
ArrivalsFor(t, d, e) == {x \in Arrivals(t, d) : Listed(t, x).expert = e}

LEMMA ArrivalFacts ==
  ASSUME NEW t, Routed(t), NEW d \in Rank
  PROVE  /\ \A x \in Arrivals(t, d) :
              /\ DstOf(ExpertOf(t, ChoiceAt(t, x))) = d
              /\ Listed(t, x).slot = SlotAt(t, ChoiceAt(t, x))
              /\ Listed(t, x).slot \in 0 .. TotalRows(t, d) - 1
         /\ \A x, y \in Arrivals(t, d) : Listed(t, x).slot = Listed(t, y).slot => x = y
         /\ \A e : \A x \in ArrivalsFor(t, d, e) :
              Listed(t, x).slot \in CuSeqlens(t, d, e) .. CuSeqlens(t, d, e + 1) - 1
         /\ \A e \in Expert : \A v \in CuSeqlens(t, d, e) .. CuSeqlens(t, d, e + 1) - 1 :
              \E x \in ArrivalsFor(t, d, e) : Listed(t, x).slot = v
<1>1. ASSUME NEW x \in Arrivals(t, d)
      PROVE  LET y == ChoiceAt(t, x)
                 g == ExpertOf(t, y)
             IN  /\ y \in Chosen(t) /\ DstOf(g) = d
                 /\ Listed(t, x).slot = SlotAt(t, y) /\ Listed(t, x).expert = LocalOf(g)
  <2>1. x \in Chosen(t) /\ Listed(t, x).dst = d
    BY DEF Arrivals
  <2>2. QED
    BY <2>1, ListedFacts
<1>2. \A x \in Arrivals(t, d) :
        /\ DstOf(ExpertOf(t, ChoiceAt(t, x))) = d
        /\ Listed(t, x).slot = SlotAt(t, ChoiceAt(t, x))
        /\ Listed(t, x).slot \in 0 .. TotalRows(t, d) - 1
  BY <1>1, SlotInSpan
<1>3. \A x, y \in Arrivals(t, d) : Listed(t, x).slot = Listed(t, y).slot => x = y
  <2> SUFFICES ASSUME NEW x \in Arrivals(t, d), NEW y \in Arrivals(t, d),
                      Listed(t, x).slot = Listed(t, y).slot
               PROVE  x = y
    OBVIOUS
  <2>1. ChoiceAt(t, x) = ChoiceAt(t, y)
    BY <1>1, SlotsDiffer
  <2>2. x \in Chosen(t) /\ y \in Chosen(t)
    BY DEF Arrivals
  <2>3. QED
    BY <2>1, <2>2, Correspond
<1>4. ASSUME NEW e, NEW x \in ArrivalsFor(t, d, e)
      PROVE  Listed(t, x).slot \in CuSeqlens(t, d, e) .. CuSeqlens(t, d, e + 1) - 1
  <2>1. x \in Arrivals(t, d) /\ Listed(t, x).expert = e
    BY DEF ArrivalsFor
  <2>2. QED
    BY <1>1, <2>1, SlotInSpan
<1>5. ASSUME NEW e \in Expert, NEW v \in CuSeqlens(t, d, e) .. CuSeqlens(t, d, e + 1) - 1
      PROVE  \E x \in ArrivalsFor(t, d, e) : Listed(t, x).slot = v
  <2>1. PICK y \in Chosen(t) : ExpertOf(t, y) = d * EPR + e /\ SlotAt(t, y) = v
    BY SlotsFill
  <2>2. PICK x \in Chosen(t) : ChoiceAt(t, x) = y
    BY Correspond
  <2>3. DstOf(ExpertOf(t, y)) = d /\ LocalOf(ExpertOf(t, y)) = e
    BY <2>1, ExpertDecodes
  <2>4. Listed(t, x).dst = d /\ Listed(t, x).expert = e /\ Listed(t, x).slot = v
    BY <2>1, <2>2, <2>3, ListedFacts
  <2>5. QED
    BY <2>4 DEF Arrivals, ArrivalsFor
<1>6. QED
  BY <1>2, <1>3, <1>4, <1>5

\* A buffer's rows are all of the expert spans, and as many as the arrivals.
LEMMA ArrivalCounts ==
  ASSUME NEW t, Routed(t), NEW d \in Rank
  PROVE  /\ IsFiniteSet(Arrivals(t, d)) /\ Cardinality(Arrivals(t, d)) = TotalRows(t, d)
         /\ {Listed(t, x).slot : x \in Arrivals(t, d)} = 0 .. TotalRows(t, d) - 1
         /\ \A e \in Expert :
              /\ {Listed(t, x).slot : x \in ArrivalsFor(t, d, e)}
                   = CuSeqlens(t, d, e) .. CuSeqlens(t, d, e + 1) - 1
              /\ Cardinality(ArrivalsFor(t, d, e)) = CuSeqlens(t, d, e + 1) - CuSeqlens(t, d, e)
<1> DEFINE A == Arrivals(t, d)
           n == TotalRows(t, d)
           f == [x \in A |-> Listed(t, x).slot]
<1>1. /\ \A x \in A : f[x] = Listed(t, x).slot /\ f[x] \in 0 .. n - 1
      /\ \A x, y \in A : f[x] = f[y] => x = y
  BY ArrivalFacts
<1>2. n \in Nat
  <2>1. EPR \in 0 .. EPR
    BY RoutingAssumption
  <2>2. QED
    BY <2>1, Spans DEF TotalRows
<1>3. \A v \in 0 .. n - 1 : \E x \in A : f[x] = v
  <2> SUFFICES ASSUME NEW v \in 0 .. n - 1 PROVE \E x \in A : f[x] = v
    OBVIOUS
  <2>1. PICK e \in Expert : v \in CuSeqlens(t, d, e) .. CuSeqlens(t, d, e + 1) - 1
    BY Spans
  <2>2. PICK x \in ArrivalsFor(t, d, e) : Listed(t, x).slot = v
    BY <2>1, ArrivalFacts
  <2>3. QED
    BY <1>1, <2>2 DEF ArrivalsFor
<1>4. f \in [A -> 0 .. n - 1]
  BY <1>1
<1>5. IsFiniteSet(0 .. n - 1) /\ Cardinality(0 .. n - 1) = n
  BY <1>2, FromZero, Zenon
<1>6. IsFiniteSet(A) /\ Cardinality(A) = n
  <2> HIDE DEF A, n, f
  <2>1. IsFiniteSet(A) /\ Cardinality(A) = Cardinality(0 .. n - 1)
    BY <1>1, <1>3, <1>4, <1>5, Paired
  <2>2. QED
    BY <1>5, <2>1
<1>7. {Listed(t, x).slot : x \in A} = 0 .. n - 1
  BY <1>1, <1>3
<1>8. ASSUME NEW e \in Expert
      PROVE  /\ {Listed(t, x).slot : x \in ArrivalsFor(t, d, e)}
                  = CuSeqlens(t, d, e) .. CuSeqlens(t, d, e + 1) - 1
             /\ Cardinality(ArrivalsFor(t, d, e)) = CuSeqlens(t, d, e + 1) - CuSeqlens(t, d, e)
  <2> DEFINE B == ArrivalsFor(t, d, e)
             lo == CuSeqlens(t, d, e)
             hi == CuSeqlens(t, d, e + 1)
             h == [x \in B |-> Listed(t, x).slot]
  <2>1. /\ \A x \in B : h[x] = Listed(t, x).slot /\ h[x] \in lo .. hi - 1
        /\ \A v \in lo .. hi - 1 : \E x \in B : h[x] = v
    BY ArrivalFacts
  <2>2. \A x, y \in B : h[x] = h[y] => x = y
    BY ArrivalFacts DEF ArrivalsFor
  <2>3. {Listed(t, x).slot : x \in B} = lo .. hi - 1
    BY <2>1
  <2>4. lo \in Nat /\ hi \in Nat /\ lo <= hi
    <3>1. e \in 0 .. EPR /\ e + 1 \in 0 .. EPR
      BY RoutingAssumption DEF Expert
    <3>2. CuSeqlens(t, d, e) \in Nat /\ CuSeqlens(t, d, e + 1) \in Nat
      BY <3>1, Spans
    <3>3. CuSeqlens(t, d, e + 1) = CuSeqlens(t, d, e) + SplitSize(t, d, e) /\ SplitSize(t, d, e) \in Nat
      BY Spans
    <3>4. QED
      BY <3>2, <3>3
  <2>5. h \in [B -> lo .. hi - 1]
    BY <2>1
  <2> HIDE DEF B, lo, hi, h
  <2>6. IsFiniteSet(lo .. hi - 1) /\ Cardinality(lo .. hi - 1) = hi - lo
    <3>1. hi - 1 \in Int /\ lo \in Int
      BY <2>4
    <3>2. /\ IsFiniteSet(lo .. hi - 1)
          /\ Cardinality(lo .. hi - 1) = IF lo > hi - 1 THEN 0 ELSE (hi - 1) - lo + 1
      BY <3>1, FS_Interval
    <3>3. QED
      BY <2>4, <3>2
  <2>7. Cardinality(B) = Cardinality(lo .. hi - 1)
    BY <2>1, <2>2, <2>5, <2>6, Paired
  <2>8. QED
    BY <2>3, <2>6, <2>7 DEF B, lo, hi
<1>9. QED
  BY <1>6, <1>7, <1>8

-----------------------------------------------------------------------------
(* The plans of TilePipePlans are those of the builders.                    *)

LEMMA AreRouted ==
  ASSUME NEW t \in Routings
  PROVE  /\ Routed(t)
         /\ \A r \in Rank : DOMAIN t[r] = 1 .. Len(t[0]) /\ Len(t[0]) \in Nat /\ Len(t[0]) % TopK = 0
         /\ Chosen(t) = Rank \X (1 .. Len(t[0]))
<1>1. Routed(t) /\ \A r \in Rank : Len(t[r]) = Len(t[0]) /\ Len(t[r]) % TopK = 0
  BY RoutingsAssumption DEF Routed, Global
<1>2. ASSUME NEW r \in Rank
      PROVE  DOMAIN t[r] = 1 .. Len(t[0]) /\ Len(t[0]) \in Nat /\ Len(t[0]) % TopK = 0
  <2>1. t[r] \in Seq(Global)
    BY <1>1 DEF Routed
  <2>2. QED
    BY <1>1, <2>1
<1>3. Chosen(t) = Rank \X (1 .. Len(t[0]))
  BY <1>2 DEF Chosen
<1>4. QED
  BY <1>1, <1>2, <1>3

PlansInv ==
  /\ topk \in Routings
  /\ planned \subseteq Rank
  /\ send = [r \in Rank |-> IF r \in planned THEN SendList(topk, r) ELSE <<>>]
  /\ push = [r \in Rank |-> IF r \in planned THEN PushList(topk, r) ELSE <<>>]
  /\ pull = [r \in Rank |-> IF r \in planned
                              THEN [j \in DOMAIN topk[r] |-> CombineFlag(topk, r, j)] ELSE <<>>]

LEMMA PlansInitially == PlansInit => PlansInv
BY DEF PlansInit, PlansInv

LEMMA PlansStep == PlansInv /\ [PlansNext]_planVars => PlansInv'
<1> SUFFICES ASSUME PlansInv, [PlansNext]_planVars PROVE PlansInv'
  OBVIOUS
<1>1. ASSUME NEW q \in Rank, BuildPlans(q) PROVE PlansInv'
  <2>1. /\ send' = [send EXCEPT ![q] = SendList(topk, q)]
        /\ push' = [push EXCEPT ![q] = PushList(topk, q)]
        /\ pull' = [pull EXCEPT ![q] = [j \in DOMAIN topk[q] |-> CombineFlag(topk, q, j)]]
        /\ planned' = planned \cup {q} /\ topk' = topk
    BY <1>1 DEF BuildPlans
  <2>2. /\ topk \in Routings /\ planned \subseteq Rank
        /\ send = [r \in Rank |-> IF r \in planned THEN SendList(topk, r) ELSE <<>>]
        /\ push = [r \in Rank |-> IF r \in planned THEN PushList(topk, r) ELSE <<>>]
        /\ pull = [r \in Rank |-> IF r \in planned
                              THEN [j \in DOMAIN topk[r] |-> CombineFlag(topk, r, j)] ELSE <<>>]
    BY DEF PlansInv
  <2>3. send' = [r \in Rank |-> IF r \in planned' THEN SendList(topk', r) ELSE <<>>]
    BY <2>1, <2>2
  <2>4. push' = [r \in Rank |-> IF r \in planned' THEN PushList(topk', r) ELSE <<>>]
    BY <2>1, <2>2
  <2>5. pull' = [r \in Rank |-> IF r \in planned'
                              THEN [j \in DOMAIN topk'[r] |-> CombineFlag(topk', r, j)] ELSE <<>>]
    BY <2>1, <2>2
  <2>6. topk' \in Routings /\ planned' \subseteq Rank
    BY <2>1, <2>2
  <2>7. QED
    BY <2>3, <2>4, <2>5, <2>6 DEF PlansInv
<1>2. CASE UNCHANGED planVars
  BY <1>2 DEF planVars, PlansInv
<1>3. QED
  BY <1>1, <1>2 DEF PlansNext

\* The plans stay what the builders made of the gathered routing.
THEOREM PlansBuilt == PlansSpec => []PlansInv
<1>1. QED
  BY PlansInitially, PlansStep, PTL DEF PlansSpec

LEMMA ListsDecode == PlansInv => SegmentIdsDecode
<1> SUFFICES ASSUME PlansInv, NEW r \in planned
             PROVE  /\ \A i \in DOMAIN send[r] :
                         /\ send[r][i].seg \div W = send[r][i].expert
                         /\ ((send[r][i].seg % W) + r) % W = send[r][i].dst
                    /\ \A i, k \in DOMAIN send[r] : i < k => send[r][i].seg <= send[r][k].seg
  BY DEF SegmentIdsDecode
<1>1. r \in Rank /\ send[r] = SendList(topk, r) /\ Routed(topk)
  BY AreRouted DEF PlansInv
<1>2. DOMAIN send[r] = DOMAIN SendOrder(topk, r) /\ DOMAIN send[r] = DOMAIN topk[r]
  BY <1>1, SendOrders DEF SendList
<1>3. ASSUME NEW i \in DOMAIN send[r]
      PROVE  LET g == topk[r][SendOrder(topk, r)[i]]
             IN  g \in Global /\ send[r][i].seg = SegOf(r, g)
                 /\ send[r][i].expert = LocalOf(g) /\ send[r][i].dst = DstOf(g)
  <2> DEFINE x == <<r, i>>
             y == ChoiceAt(topk, x)
  <2>1. x \in Chosen(topk) /\ x[1] = r /\ x[2] = i
    BY <1>1, <1>2, ChosenFacts
  <2>2. send[r][i] = Listed(topk, x)
    BY <1>1, <2>1 DEF Listed
  <2>3. ExpertOf(topk, y) = topk[r][SendOrder(topk, r)[i]]
    BY <2>1 DEF ExpertOf, ChoiceAt
  <2>4. QED
    BY <1>1, <2>1, <2>2, <2>3, ListedFacts
<1>4. ASSUME NEW i \in DOMAIN send[r]
      PROVE  /\ send[r][i].seg \div W = send[r][i].expert
             /\ ((send[r][i].seg % W) + r) % W = send[r][i].dst
  BY <1>1, <1>3, SegDecodes
<1>5. \A i, k \in DOMAIN send[r] : i < k => send[r][i].seg <= send[r][k].seg
  BY <1>1, <1>2, <1>3, SendOrders
<1>6. QED
  BY <1>4, <1>5

LEMMA SentIsListed ==
  ASSUME PlansInv, AllPlanned
  PROVE  /\ Routed(topk)
         /\ \A x \in Chosen(topk) : EntryOf(x) = Listed(topk, x)
         /\ \A d : SentTo(d) = Arrivals(topk, d)
<1>1. Routed(topk) /\ Chosen(topk) = Rank \X (1 .. NumChoices)
  BY AreRouted DEF PlansInv, NumChoices
<1>2. ASSUME NEW x \in Chosen(topk) PROVE EntryOf(x) = Listed(topk, x)
  <2>1. x[1] \in Rank
    BY <1>1, ChosenFacts
  <2>2. send[x[1]] = SendList(topk, x[1])
    BY <2>1 DEF PlansInv, AllPlanned
  <2>3. QED
    BY <2>2 DEF EntryOf, Listed
<1>3. ASSUME NEW d PROVE SentTo(d) = Arrivals(topk, d)
  BY <1>1, <1>2 DEF SentTo, Arrivals
<1>4. QED
  BY <1>1, <1>2, <1>3

LEMMA LayoutExact == PlansInv => RecvLayoutExact
<1> SUFFICES ASSUME PlansInv PROVE RecvLayoutExact
  OBVIOUS
<1>1. ASSUME AllPlanned, NEW d \in Rank
      PROVE  /\ Cardinality({EntryOf(x).slot : x \in SentTo(d)}) = Cardinality(SentTo(d))
             /\ \A e \in Expert :
                  {EntryOf(x).slot : x \in {y \in SentTo(d) : EntryOf(y).expert = e}}
                    = CuSeqlens(topk, d, e) .. CuSeqlens(topk, d, e + 1) - 1
  <2>1. /\ Routed(topk) /\ SentTo(d) = Arrivals(topk, d)
        /\ \A x \in SentTo(d) : EntryOf(x) = Listed(topk, x)
    BY <1>1, SentIsListed DEF Arrivals
  <2>2. {EntryOf(x).slot : x \in SentTo(d)} = {Listed(topk, x).slot : x \in Arrivals(topk, d)}
    BY <2>1
  <2>3. \A e : {EntryOf(x).slot : x \in {y \in SentTo(d) : EntryOf(y).expert = e}}
                 = {Listed(topk, x).slot : x \in ArrivalsFor(topk, d, e)}
    BY <2>1 DEF ArrivalsFor
  <2> DEFINE n == TotalRows(topk, d)
  <2>4. n \in Nat
    <3>1. EPR \in 0 .. EPR
      BY RoutingAssumption
    <3>2. QED
      BY <2>1, <3>1, Spans DEF TotalRows
  <2>5. Cardinality(0 .. n - 1) = n
    <3> HIDE DEF n
    <3>1. QED
      BY <2>4, FromZero
  <2>6. /\ Cardinality(Arrivals(topk, d)) = n
        /\ {Listed(topk, x).slot : x \in Arrivals(topk, d)} = 0 .. n - 1
        /\ \A e \in Expert : {Listed(topk, x).slot : x \in ArrivalsFor(topk, d, e)}
                                = CuSeqlens(topk, d, e) .. CuSeqlens(topk, d, e + 1) - 1
    BY <2>1, ArrivalCounts
  <2>7. QED
    BY <2>1, <2>2, <2>3, <2>5, <2>6
<1>2. QED
  BY <1>1, ListsDecode DEF RecvLayoutExact

(***************************************************************************)
(* The rows that the ranks send to a rank fill its receive buffer exactly, *)
(* without sharing a slot, each expert's span by its own rows; and the id  *)
(* of a segment decodes to the expert and destination of all its rows      *)
(* (build_send_arrays against build_recv_metadata and _flush_segment).     *)
(***************************************************************************)
THEOREM Layout == PlansSpec => []RecvLayoutExact
<1>1. QED
  BY PlansBuilt, LayoutExact, PTL

(***************************************************************************)
(* What TilePipeDispatch assumes of its constants Plan and Cu holds of the *)
(* lists and offsets that the builders make of any routing: PlanAssumption *)
(* with SendList(t, r) for Plan[r] and CuSeqlens(t, d, e) for Cu[d][e].    *)
(***************************************************************************)
THEOREM PlansFitDispatch ==
  ASSUME NEW t \in Routings
  PROVE  LET Entry == UNION {{r} \X DOMAIN SendList(t, r) : r \in Rank}
             Send(x) == SendList(t, x[1])[x[2]]
             ExpertEntries(d, e) == {x \in Entry : Send(x).dst = d /\ Send(x).expert = e}
         IN  /\ \A x \in Entry : /\ Send(x).expert = Send(x).seg \div W
                                 /\ Send(x).dst = ((Send(x).seg % W) + x[1]) % W
             /\ \A x, y \in Entry :
                  x[1] = y[1] /\ Send(x).dst = Send(y).dst /\ Send(x).expert = Send(y).expert
                    => Send(x).seg = Send(y).seg
             /\ \A d \in Rank, e \in Expert :
                  /\ {Send(x).slot : x \in ExpertEntries(d, e)}
                       = CuSeqlens(t, d, e) .. CuSeqlens(t, d, e + 1) - 1
                  /\ Cardinality(ExpertEntries(d, e))
                       = CuSeqlens(t, d, e + 1) - CuSeqlens(t, d, e)
<1> DEFINE Entry == UNION {{r} \X DOMAIN SendList(t, r) : r \in Rank}
           ExpertEntries(d, e) == {x \in Entry : Listed(t, x).dst = d /\ Listed(t, x).expert = e}
<1>1. Routed(t)
  BY AreRouted
<1>2. Entry = Chosen(t)
  <2>1. \A r \in Rank : DOMAIN SendList(t, r) = DOMAIN t[r]
    BY <1>1, SendOrders DEF SendList
  <2>2. QED
    BY <2>1 DEF Chosen
<1>3. ASSUME NEW x \in Entry
      PROVE  /\ x[1] \in Rank
             /\ Listed(t, x).expert = Listed(t, x).seg \div W
             /\ Listed(t, x).dst = ((Listed(t, x).seg % W) + x[1]) % W
             /\ Listed(t, x).seg
                  = Listed(t, x).expert * W + ((Listed(t, x).dst + W - x[1]) % W)
  <2> DEFINE g == ExpertOf(t, ChoiceAt(t, x))
  <2>1. x[1] \in Rank
    BY <1>1, <1>2, ChosenFacts
  <2>2. /\ g \in Global /\ Listed(t, x).seg = SegOf(x[1], g)
        /\ Listed(t, x).expert = LocalOf(g) /\ Listed(t, x).dst = DstOf(g)
    BY <1>1, <1>2, ListedFacts
  <2> HIDE DEF g
  <2>3. QED
    BY <2>1, <2>2, SegDecodes DEF SegOf
<1>4. \A x, y \in Entry :
        x[1] = y[1] /\ Listed(t, x).dst = Listed(t, y).dst /\ Listed(t, x).expert = Listed(t, y).expert
          => Listed(t, x).seg = Listed(t, y).seg
  BY <1>3
<1>5. ASSUME NEW d \in Rank, NEW e \in Expert
      PROVE  /\ {Listed(t, x).slot : x \in ExpertEntries(d, e)}
                  = CuSeqlens(t, d, e) .. CuSeqlens(t, d, e + 1) - 1
             /\ Cardinality(ExpertEntries(d, e)) = CuSeqlens(t, d, e + 1) - CuSeqlens(t, d, e)
  <2>1. ExpertEntries(d, e) = ArrivalsFor(t, d, e)
    BY <1>2 DEF Arrivals, ArrivalsFor
  <2>2. /\ {Listed(t, x).slot : x \in ArrivalsFor(t, d, e)}
             = CuSeqlens(t, d, e) .. CuSeqlens(t, d, e + 1) - 1
        /\ Cardinality(ArrivalsFor(t, d, e)) = CuSeqlens(t, d, e + 1) - CuSeqlens(t, d, e)
    BY <1>1, ArrivalCounts, Zenon
  <2> HIDE DEF ExpertEntries
  <2>3. QED
    BY <2>1, <2>2, Zenon
<1>6. QED
  BY <1>3, <1>4, <1>5 DEF Listed

-----------------------------------------------------------------------------
(* Push lists.                                                              *)

\* The order of the loops, for any rows.
RowBefore(rows) ==
  {p \in rows \X rows :
     \/ p[1][1] < p[2][1]
     \/ p[1][1] = p[2][1] /\ p[1][2] < p[2][2]
     \/ p[1][1] = p[2][1] /\ p[1][2] = p[2][2] /\ p[1][3] < p[2][3]}

\* The choice that a row is of.
RowChoice(z) == <<z[2], z[3]>>

LEMMA RowFacts ==
  ASSUME NEW t, Routed(t), NEW d \in Rank, NEW z
  PROVE  /\ z \in RowsOf(t, d) <=> /\ z = <<z[1], z[2], z[3]>> /\ z[1] \in Expert /\ z[2] \in Rank
                                   /\ z[3] \in Hits(t, z[2], d * EPR + z[1])
         /\ z \in RowsOf(t, d) =>
              /\ z[1] \in Expert /\ z[1] \in Nat /\ z[2] \in Rank /\ z[2] \in Nat /\ z[3] \in Nat
              /\ RowChoice(z) \in Chosen(t) /\ ExpertOf(t, RowChoice(z)) = d * EPR + z[1]
              /\ DstOf(ExpertOf(t, RowChoice(z))) = d /\ LocalOf(ExpertOf(t, RowChoice(z))) = z[1]
              /\ z[3] \in DOMAIN t[z[2]] /\ t[z[2]][z[3]] = d * EPR + z[1]
              /\ SlotAt(t, RowChoice(z)) = Slot(t, z[2], z[3])
<1>1. z \in RowsOf(t, d) <=> /\ z = <<z[1], z[2], z[3]>> /\ z[1] \in Expert /\ z[2] \in Rank
                             /\ z[3] \in Hits(t, z[2], d * EPR + z[1])
  <2>1. ASSUME z \in RowsOf(t, d)
        PROVE  /\ z = <<z[1], z[2], z[3]>> /\ z[1] \in Expert /\ z[2] \in Rank
               /\ z[3] \in Hits(t, z[2], d * EPR + z[1])
    <3>1. PICK e \in Expert, src \in Rank : z \in {<<e, src, j>> : j \in Hits(t, src, d * EPR + e)}
      BY <2>1 DEF RowsOf
    <3>2. PICK j \in Hits(t, src, d * EPR + e) : z = <<e, src, j>>
      BY <3>1
    <3>3. z[1] = e /\ z[2] = src /\ z[3] = j
      BY <3>2
    <3>4. QED
      BY <3>2, <3>3
  <2>2. ASSUME /\ z = <<z[1], z[2], z[3]>> /\ z[1] \in Expert /\ z[2] \in Rank
               /\ z[3] \in Hits(t, z[2], d * EPR + z[1])
        PROVE  z \in RowsOf(t, d)
    <3> DEFINE row(e, src) == {<<e, src, j>> : j \in Hits(t, src, d * EPR + e)}
               all == {row(e, src) : e \in Expert, src \in Rank}
    <3>1. z \in row(z[1], z[2])
      BY <2>2
    <3>2. row(z[1], z[2]) \in all
      <4> HIDE DEF row
      <4>1. QED
        BY <2>2
    <3>3. z \in UNION all
      <4> HIDE DEF row, all
      <4>1. QED
        BY <3>1, <3>2
    <3>4. RowsOf(t, d) = UNION all
      BY DEF RowsOf
    <3>5. QED
      BY <3>3, <3>4
  <2>3. QED
    BY <2>1, <2>2
<1>2. ASSUME z \in RowsOf(t, d)
      PROVE  /\ z[1] \in Expert /\ z[1] \in Nat /\ z[2] \in Rank /\ z[2] \in Nat /\ z[3] \in Nat
             /\ RowChoice(z) \in Chosen(t) /\ ExpertOf(t, RowChoice(z)) = d * EPR + z[1]
             /\ DstOf(ExpertOf(t, RowChoice(z))) = d /\ LocalOf(ExpertOf(t, RowChoice(z))) = z[1]
             /\ z[3] \in DOMAIN t[z[2]] /\ t[z[2]][z[3]] = d * EPR + z[1]
             /\ SlotAt(t, RowChoice(z)) = Slot(t, z[2], z[3])
  <2>1. z[1] \in Expert /\ z[2] \in Rank /\ z[3] \in DOMAIN t[z[2]] /\ t[z[2]][z[3]] = d * EPR + z[1]
    BY <1>1, <1>2 DEF Hits
  <2>2. z[1] \in Nat /\ z[2] \in Nat
    BY <2>1, RoutingAssumption DEF Expert, Rank
  <2>3. RowChoice(z)[1] = z[2] /\ RowChoice(z)[2] = z[3] /\ RowChoice(z) = <<RowChoice(z)[1], RowChoice(z)[2]>>
    BY DEF RowChoice
  <2>4. RowChoice(z) \in Chosen(t) /\ z[3] \in Nat
    BY <2>1, <2>3, ChosenFacts
  <2>5. ExpertOf(t, RowChoice(z)) = d * EPR + z[1]
    BY <2>1, <2>3 DEF ExpertOf
  <2>6. DstOf(d * EPR + z[1]) = d /\ LocalOf(d * EPR + z[1]) = z[1]
    BY <2>1, ExpertDecodes
  <2>7. SlotAt(t, RowChoice(z)) = Slot(t, z[2], z[3])
    BY <2>3 DEF SlotAt
  <2>8. QED
    BY <2>1, <2>2, <2>4, <2>5, <2>6, <2>7
<1>3. QED
  BY <1>1, <1>2

\* Receive rows ascend with the loops and leave no gap.
LEMMA RowsCount ==
  ASSUME NEW t, Routed(t), NEW d \in Rank
  PROVE  LET rows == RowsOf(t, d)
             n == TotalRows(t, d)
         IN  /\ n \in Nat /\ IsFiniteSet(rows) /\ Cardinality(rows) = n
             /\ Strict(rows, RowBefore(rows))
             /\ \A z \in rows : Behind(rows, RowBefore(rows), z) = Slot(t, z[2], z[3])
<1> DEFINE rows == RowsOf(t, d)
           n == TotalRows(t, d)
           less == RowBefore(rows)
           f == [z \in rows |-> Slot(t, z[2], z[3])]
<1>1. \A z \in rows :
        /\ z[1] \in Nat /\ z[2] \in Nat /\ z[3] \in Nat /\ z = <<z[1], z[2], z[3]>>
        /\ RowChoice(z) \in Chosen(t) /\ DstOf(ExpertOf(t, RowChoice(z))) = d
        /\ LocalOf(ExpertOf(t, RowChoice(z))) = z[1] /\ SlotAt(t, RowChoice(z)) = Slot(t, z[2], z[3])
  BY RowFacts
<1>2. n \in Nat
  <2>1. EPR \in 0 .. EPR
    BY RoutingAssumption
  <2>2. QED
    BY <2>1, Spans DEF TotalRows
<1>3. f \in [rows -> 0 .. n - 1]
  BY <1>1, SlotInSpan
<1>4. \A y, z \in rows :
        <<y, z>> \in less <=> \/ y[1] < z[1]
                              \/ y[1] = z[1] /\ y[2] < z[2]
                              \/ y[1] = z[1] /\ y[2] = z[2] /\ y[3] < z[3]
  <2> SUFFICES ASSUME NEW y \in rows, NEW z \in rows
               PROVE  <<y, z>> \in less <=>
                        \/ y[1] < z[1]
                        \/ y[1] = z[1] /\ y[2] < z[2]
                        \/ y[1] = z[1] /\ y[2] = z[2] /\ y[3] < z[3]
    OBVIOUS
  <2>1. <<y, z>> \in rows \X rows /\ <<y, z>>[1] = y /\ <<y, z>>[2] = z
    OBVIOUS
  <2> HIDE DEF rows
  <2>2. QED
    BY <2>1 DEF RowBefore
<1>5. \A y, z \in rows : <<y, z>> \in less => f[y] < f[z]
  <2> SUFFICES ASSUME NEW y \in rows, NEW z \in rows, <<y, z>> \in less PROVE f[y] < f[z]
    OBVIOUS
  <2>1. Precedes(t, RowChoice(y), RowChoice(z))
    BY <1>1, <1>4 DEF Precedes, RowChoice
  <2>2. SlotAt(t, RowChoice(y)) < SlotAt(t, RowChoice(z))
    BY <1>1, <2>1, SlotsAscend
  <2>3. QED
    BY <1>1, <2>2
<1>6. \A v \in 0 .. n - 1 : \E z \in rows : f[z] = v
  <2> SUFFICES ASSUME NEW v \in 0 .. n - 1 PROVE \E z \in rows : f[z] = v
    OBVIOUS
  <2>1. PICK e \in Expert : v \in CuSeqlens(t, d, e) .. CuSeqlens(t, d, e + 1) - 1
    BY Spans
  <2>2. PICK x \in Chosen(t) : ExpertOf(t, x) = d * EPR + e /\ SlotAt(t, x) = v
    BY <2>1, SlotsFill
  <2> DEFINE z == <<e, x[1], x[2]>>
  <2>3. z[1] = e /\ z[2] = x[1] /\ z[3] = x[2]
    OBVIOUS
  <2>4. x[1] \in Rank /\ x[2] \in Hits(t, x[1], d * EPR + e)
    BY <2>2, ChosenFacts DEF Hits, ExpertOf
  <2>5. z \in rows
    BY <2>3, <2>4, RowFacts
  <2>6. f[z] = v
    BY <2>2, <2>3, <2>5 DEF SlotAt
  <2>7. QED
    BY <2>5, <2>6
<1> HIDE DEF less
<1>7. Strict(rows, less)
  <2>1. \A x \in rows : <<x, x>> \notin less
    BY <1>1, <1>4
  <2>2. \A x, y, z \in rows : <<x, y>> \in less /\ <<y, z>> \in less => <<x, z>> \in less
    <3> SUFFICES ASSUME NEW x \in rows, NEW y \in rows, NEW z \in rows,
                        <<x, y>> \in less, <<y, z>> \in less
                 PROVE  <<x, z>> \in less
      OBVIOUS
    <3>1. /\ \/ x[1] < y[1]
             \/ x[1] = y[1] /\ x[2] < y[2]
             \/ x[1] = y[1] /\ x[2] = y[2] /\ x[3] < y[3]
          /\ \/ y[1] < z[1]
             \/ y[1] = z[1] /\ y[2] < z[2]
             \/ y[1] = z[1] /\ y[2] = z[2] /\ y[3] < z[3]
      BY <1>4
    <3>2. \/ x[1] < z[1]
          \/ x[1] = z[1] /\ x[2] < z[2]
          \/ x[1] = z[1] /\ x[2] = z[2] /\ x[3] < z[3]
      <4> HIDE DEF rows, f
      <4>1. /\ x[1] \in Nat /\ x[2] \in Nat /\ x[3] \in Nat /\ y[1] \in Nat /\ y[2] \in Nat /\ y[3] \in Nat
            /\ z[1] \in Nat /\ z[2] \in Nat /\ z[3] \in Nat
        BY <1>1
      <4>2. QED
        BY <3>1, <4>1
    <3>3. QED
      BY <1>4, <3>2
  <2>3. \A x, y \in rows : x # y => <<x, y>> \in less \/ <<y, x>> \in less
    <3> SUFFICES ASSUME NEW x \in rows, NEW y \in rows, x # y
                 PROVE  <<x, y>> \in less \/ <<y, x>> \in less
      OBVIOUS
    <3>1. /\ x[1] \in Nat /\ x[2] \in Nat /\ x[3] \in Nat /\ y[1] \in Nat /\ y[2] \in Nat /\ y[3] \in Nat
          /\ x = <<x[1], x[2], x[3]>> /\ y = <<y[1], y[2], y[3]>>
      BY <1>1
    <3>2. x[1] # y[1] \/ x[2] # y[2] \/ x[3] # y[3]
      BY <3>1
    <3>3. \/ x[1] < y[1]
          \/ x[1] = y[1] /\ x[2] < y[2]
          \/ x[1] = y[1] /\ x[2] = y[2] /\ x[3] < y[3]
          \/ y[1] < x[1]
          \/ y[1] = x[1] /\ y[2] < x[2]
          \/ y[1] = x[1] /\ y[2] = x[2] /\ y[3] < x[3]
      <4> HIDE DEF rows, f
      <4>1. QED
        BY <3>1, <3>2
    <3>4. QED
      BY <1>4, <3>3
  <2> HIDE DEF rows
  <2>4. QED
    BY <2>1, <2>2, <2>3 DEF Strict
<1>8. IsFiniteSet(0 .. n - 1)
  BY <1>2, FromZero, Zenon
<1>9. \A y, z \in rows : f[y] = f[z] => y = z
  <2> SUFFICES ASSUME NEW y \in rows, NEW z \in rows, f[y] = f[z], y # z PROVE FALSE
    OBVIOUS
  <2>1. <<y, z>> \in less \/ <<z, y>> \in less
    BY <1>7 DEF Strict
  <2>2. f[y] < f[z] \/ f[z] < f[y]
    BY <1>5, <2>1
  <2>3. f[y] \in Int /\ f[z] \in Int
    BY <1>2, <1>3
  <2>4. QED
    BY <2>2, <2>3
<1>10. \A z \in rows : f[z] = Slot(t, z[2], z[3])
  OBVIOUS
<1> HIDE DEF rows, n, f
<1>11. IsFiniteSet(rows)
  BY <1>3, <1>6, <1>8, <1>9, Paired
<1>12. Cardinality(rows) = n /\ \A z \in rows : Behind(rows, less, z) = f[z]
  BY <1>2, <1>3, <1>5, <1>6, <1>7, <1>11, CountedByMap
<1>13. QED
  BY <1>2, <1>7, <1>10, <1>11, <1>12 DEF rows, n, less

\* Row i - 1 of the list is the row of the receive buffer.
LEMMA PushOrders ==
  ASSUME NEW t, Routed(t), NEW d \in Rank
  PROVE  LET o == PushOrder(t, d)
             n == TotalRows(t, d)
         IN  /\ n \in Nat /\ DOMAIN o = 1 .. n /\ Len(o) = n
             /\ \A i \in 1 .. n : o[i] \in RowsOf(t, d) /\ Slot(t, o[i][2], o[i][3]) = i - 1
<1> DEFINE rows == RowsOf(t, d)
           o == PushOrder(t, d)
<1>1. o = Sorted(rows, RowBefore(rows))
  BY Zenon DEF PushOrder, RowBefore
<1>2. /\ TotalRows(t, d) \in Nat /\ IsFiniteSet(rows) /\ Cardinality(rows) = TotalRows(t, d)
      /\ Strict(rows, RowBefore(rows))
      /\ \A z \in rows : Behind(rows, RowBefore(rows), z) = Slot(t, z[2], z[3])
  BY RowsCount
<1> HIDE DEF rows, o
<1>3. /\ o \in Seq(rows) /\ Len(o) = Cardinality(rows) /\ DOMAIN o = 1 .. Cardinality(rows)
      /\ \A i \in DOMAIN o : o[i] \in rows /\ Behind(rows, RowBefore(rows), o[i]) = i - 1
  BY <1>1, <1>2, SortedLists
<1>4. QED
  BY <1>2, <1>3 DEF rows, o

\* What push_combine recomputes from its list are the split sizes.
LEMMA ListSplits ==
  ASSUME NEW t, Routed(t), NEW d \in Rank, NEW e \in Expert
  PROVE  LET o == PushOrder(t, d)
         IN  Cardinality({k \in DOMAIN o : o[k][1] = e}) = SplitSize(t, d, e)
<1> DEFINE o == PushOrder(t, d)
           n == TotalRows(t, d)
           lo == CuSeqlens(t, d, e)
           hi == CuSeqlens(t, d, e + 1)
<1>1. /\ n \in Nat /\ DOMAIN o = 1 .. n
      /\ \A i \in 1 .. n : o[i] \in RowsOf(t, d) /\ Slot(t, o[i][2], o[i][3]) = i - 1
  BY PushOrders
<1>2. /\ \A x \in 0 .. EPR : CuSeqlens(t, d, x) \in Nat
      /\ \A x \in Expert, y \in 0 .. EPR : x < y => CuSeqlens(t, d, x + 1) <= CuSeqlens(t, d, y)
      /\ CuSeqlens(t, d, e + 1) = CuSeqlens(t, d, e) + SplitSize(t, d, e) /\ SplitSize(t, d, e) \in Nat
  BY Spans
<1>3. \A x \in Expert : x \in 0 .. EPR /\ x + 1 \in 0 .. EPR /\ x \in Int
  BY RoutingAssumption DEF Expert
<1>4. EPR \in 0 .. EPR /\ n = CuSeqlens(t, d, EPR) /\ hi <= n
  <2>1. EPR \in 0 .. EPR /\ e < EPR
    BY RoutingAssumption DEF Expert
  <2>2. QED
    BY <1>2, <2>1 DEF TotalRows
<1> HIDE DEF o, n
<1>5. \A i \in 1 .. n : /\ o[i][1] \in Expert
                        /\ i - 1 \in CuSeqlens(t, d, o[i][1]) .. CuSeqlens(t, d, o[i][1] + 1) - 1
  <2> SUFFICES ASSUME NEW i \in 1 .. n
               PROVE  /\ o[i][1] \in Expert
                      /\ i - 1 \in CuSeqlens(t, d, o[i][1]) .. CuSeqlens(t, d, o[i][1] + 1) - 1
    OBVIOUS
  <2> DEFINE z == o[i]
             y == RowChoice(z)
  <2>1. z \in RowsOf(t, d) /\ Slot(t, z[2], z[3]) = i - 1
    BY <1>1
  <2> HIDE DEF z
  <2>2. /\ y \in Chosen(t) /\ DstOf(ExpertOf(t, y)) = d /\ LocalOf(ExpertOf(t, y)) = z[1]
        /\ SlotAt(t, y) = i - 1 /\ z[1] \in Expert
    BY <2>1, RowFacts
  <2> HIDE DEF y
  <2>3. SlotAt(t, y) \in CuSeqlens(t, d, z[1]) .. CuSeqlens(t, d, z[1] + 1) - 1
    BY <2>2, SlotInSpan
  <2>4. QED
    BY <2>2, <2>3 DEF z
<1>6. {k \in DOMAIN o : o[k][1] = e} = lo + 1 .. hi
  <2>1. ASSUME NEW k \in 1 .. n, o[k][1] = e PROVE k \in lo + 1 .. hi
    <3>1. k - 1 \in lo .. hi - 1 /\ k \in Int
      BY <1>5, <2>1
    <3>2. lo \in Int /\ hi \in Int
      BY <1>2, <1>3
    <3>3. QED
      BY <3>1, <3>2
  <2>2. ASSUME NEW k \in lo + 1 .. hi PROVE k \in 1 .. n /\ o[k][1] = e
    <3>1. lo \in Nat /\ hi \in Nat
      BY <1>2, <1>3
    <3>2. k \in 1 .. n /\ lo <= k - 1 /\ k - 1 < hi /\ k - 1 \in Int
      BY <1>1, <1>4, <3>1
    <3> DEFINE x == o[k][1]
    <3>3. x \in Expert /\ k - 1 \in CuSeqlens(t, d, x) .. CuSeqlens(t, d, x + 1) - 1
      BY <1>5, <3>2
    <3> HIDE DEF x
    <3>4. CuSeqlens(t, d, x) \in Nat /\ CuSeqlens(t, d, x + 1) \in Nat
      BY <1>2, <1>3, <3>3
    <3>5. ~(x < e)
      <4>1. x < e => CuSeqlens(t, d, x + 1) <= lo
        BY <1>2, <1>3, <3>3
      <4>2. QED
        BY <3>1, <3>2, <3>3, <3>4, <4>1
    <3>6. ~(e < x)
      <4>1. e < x => hi <= CuSeqlens(t, d, x)
        BY <1>2, <1>3, <3>3
      <4>2. QED
        BY <3>1, <3>2, <3>3, <3>4, <4>1
    <3>7. x = e
      BY <1>3, <3>3, <3>5, <3>6
    <3>8. QED
      BY <3>2, <3>7 DEF x
  <2>3. QED
    BY <1>1, <2>1, <2>2
<1>7. Cardinality(lo + 1 .. hi) = hi - lo
  <2>1. lo \in Nat /\ hi \in Nat /\ lo <= hi
    BY <1>2, <1>3
  <2> HIDE DEF lo, hi
  <2>2. lo + 1 \in Int /\ hi \in Int
    BY <2>1
  <2>3. Cardinality(lo + 1 .. hi) = IF lo + 1 > hi THEN 0 ELSE hi - (lo + 1) + 1
    BY <2>2, FS_Interval
  <2>4. QED
    BY <2>1, <2>3
<1>8. hi - lo = SplitSize(t, d, e)
  BY <1>2, <1>3
<1>9. QED
  BY <1>6, <1>7, <1>8 DEF o

-----------------------------------------------------------------------------
(* Flags.                                                                   *)

\* The m-tile of an expert that holds a row, and its place in the owner's flags.
TileOf(t, d, e, row) == (row - CuSeqlens(t, d, e)) \div TileM
Gate(t, d, e, row) == TileOffset(t, d, e) + TileOf(t, d, e, row)

LEMMA Tiles ==
  ASSUME NEW s \in Nat, NEW k \in Nat
  PROVE  /\ CeilDiv(s, TileM) \in Nat
         /\ k \div TileM \in Nat /\ k \div TileM <= k
         /\ (k \div TileM) * TileM <= k /\ k < (k \div TileM) * TileM + TileM
         /\ k < s => k \div TileM < CeilDiv(s, TileM)
         /\ \A j \in Nat : k <= j => k \div TileM <= j \div TileM
<1> DEFINE m == TileM
           q == k \div m
           c == (s + m - 1) \div m
<1>1. m \in Nat \ {0}
  BY RoutingAssumption
<1>2. CeilDiv(s, TileM) = c
  BY DEF CeilDiv
<1> HIDE DEF m
<1>3. q \in Nat /\ (k % m) \in 0 .. m - 1 /\ k = m * q + (k % m)
  BY <1>1, DivMod
<1> HIDE DEF q
<1>4. m * q = q * m /\ q * m \in Nat
  BY <1>1, <1>3
<1>5. q * m <= k /\ k < q * m + m
  BY <1>1, <1>3, <1>4
<1>6. q <= k
  <2>1. q <= m * q
    BY <1>1, <1>3
  <2>2. QED
    BY <1>3, <1>4, <1>5, <2>1
<1>7. s + m - 1 \in Nat
  BY <1>1
<1>8. c \in Nat /\ ((s + m - 1) % m) \in 0 .. m - 1 /\ s + m - 1 = m * c + ((s + m - 1) % m)
  BY <1>1, <1>7, DivMod
<1> HIDE DEF c
<1>9. m * c \in Nat /\ m * q \in Nat
  BY <1>1, <1>3, <1>8
<1>10. ASSUME k < s PROVE q < c
  <2>1. m * q + 0 < m * c
    BY <1>1, <1>4, <1>5, <1>8, <1>9, <1>10
  <2>2. QED
    BY <1>1, <1>3, <1>8, <2>1, ProductBelow
<1>11. ASSUME NEW j \in Nat, k <= j PROVE q <= j \div m
  <2> DEFINE p == j \div m
  <2>1. p \in Nat /\ (j % m) \in 0 .. m - 1 /\ j = m * p + (j % m)
    BY <1>1, DivMod
  <2> HIDE DEF p
  <2>2. m * p \in Nat /\ m * (p + 1) = m * p + m
    BY <1>1, <2>1
  <2>3. m * q + 0 < m * (p + 1)
    BY <1>1, <1>4, <1>5, <1>11, <2>1, <2>2
  <2>4. q < p + 1
    BY <1>1, <1>3, <2>1, <2>3, ProductBelow
  <2>5. QED
    BY <1>3, <2>1, <2>4 DEF p
<1>12. QED
  BY <1>2, <1>3, <1>5, <1>6, <1>8, <1>10, <1>11 DEF q, m

\* The tiles of an expert, as many as its rows fill.
TilesOf(t, d) == [x \in Expert |-> CeilDiv(SplitSize(t, d, x), TileM)]
TilesBelow(t) == [x \in Rank |-> TileOffset(t, x, EPR)]

LEMMA Offsets ==
  ASSUME NEW t, Routed(t), NEW d \in Rank
  PROVE  /\ \A e \in 0 .. EPR : TileOffset(t, d, e) \in Nat
         /\ \A e \in Expert, x \in 0 .. EPR : e < x =>
              TileOffset(t, d, e) + CeilDiv(SplitSize(t, d, e), TileM) <= TileOffset(t, d, x)
         /\ RankTileBase(t, d) \in Nat /\ TotalTiles(t) \in Nat
         /\ RankTileBase(t, d) + TileOffset(t, d, EPR) <= TotalTiles(t)
         /\ \A u \in Rank : d < u => RankTileBase(t, d) + TileOffset(t, d, EPR) <= RankTileBase(t, u)
<1>1. EPR \in Nat /\ Expert = 0 .. EPR - 1 /\ EPR \in 0 .. EPR
  BY RoutingAssumption DEF Expert
<1>2. W \in Nat /\ Rank = 0 .. W - 1 /\ W \in 0 .. W /\ d \in 0 .. W /\ d < W
  BY RoutingAssumption DEF Rank
<1>3. ASSUME NEW u \in Rank
      PROVE  /\ \A e \in 0 .. EPR - 1 : TilesOf(t, u)[e] = CeilDiv(SplitSize(t, u, e), TileM)
                                          /\ TilesOf(t, u)[e] \in Nat
             /\ \A e : TileOffset(t, u, e) = SumBelow(TilesOf(t, u), e)
  <2>1. \A e \in Expert : SplitSize(t, u, e) \in Nat
    BY Spans
  <2>2. \A e \in Expert : CeilDiv(SplitSize(t, u, e), TileM) \in Nat
    BY <2>1, Tiles
  <2>3. \A e \in 0 .. EPR - 1 : TilesOf(t, u)[e] = CeilDiv(SplitSize(t, u, e), TileM)
                                          /\ TilesOf(t, u)[e] \in Nat
    BY <1>1, <2>2 DEF TilesOf
  <2>4. \A e : TileOffset(t, u, e) = SumBelow(TilesOf(t, u), e)
    BY DEF TileOffset, TilesOf
  <2>5. QED
    BY <2>3, <2>4
<1>4. \A u \in Rank : \A e \in 0 .. EPR : TileOffset(t, u, e) \in Nat
  <2> SUFFICES ASSUME NEW u \in Rank, NEW e \in 0 .. EPR PROVE TileOffset(t, u, e) \in Nat
    OBVIOUS
  <2>1. SumBelow(TilesOf(t, u), e) \in Nat
    BY <1>1, <1>3, SumType
  <2>2. QED
    BY <1>3, <2>1
<1>5. ASSUME NEW e \in Expert, NEW x \in 0 .. EPR, e < x
      PROVE  TileOffset(t, d, e) + CeilDiv(SplitSize(t, d, e), TileM) <= TileOffset(t, d, x)
  <2>1. e \in 0 .. EPR
    BY <1>1
  <2>2. SumBelow(TilesOf(t, d), e) + TilesOf(t, d)[e] <= SumBelow(TilesOf(t, d), x)
    BY <1>1, <1>3, <1>5, <2>1, SumMonotone
  <2>3. QED
    BY <1>1, <1>3, <2>2
<1> DEFINE b == TilesBelow(t)
<1>6. \A k \in 0 .. W - 1 : b[k] = TileOffset(t, k, EPR) /\ b[k] \in Nat
  BY <1>1, <1>2, <1>4 DEF TilesBelow
<1>7. (\A u : RankTileBase(t, u) = SumBelow(b, u)) /\ TotalTiles(t) = SumBelow(b, W)
  BY DEF RankTileBase, TotalTiles, TilesBelow
<1> HIDE DEF b
<1>8. \A u \in 0 .. W : SumBelow(b, u) \in Nat
  BY <1>2, <1>6, SumType
<1>9. \A u \in 0 .. W : d < u => SumBelow(b, d) + b[d] <= SumBelow(b, u)
  BY <1>2, <1>6, SumMonotone
<1>10. RankTileBase(t, d) \in Nat /\ TotalTiles(t) \in Nat
  BY <1>2, <1>7, <1>8
<1>11. RankTileBase(t, d) + TileOffset(t, d, EPR) <= TotalTiles(t)
  BY <1>2, <1>6, <1>7, <1>9
<1>12. ASSUME NEW u \in Rank, d < u
       PROVE  RankTileBase(t, d) + TileOffset(t, d, EPR) <= RankTileBase(t, u)
  BY <1>2, <1>6, <1>7, <1>9, <1>12
<1>13. QED
  BY <1>4, <1>5, <1>10, <1>11, <1>12

\* A row's tile is one of its expert's, and its flag one of the owner's.
LEMMA GateFacts ==
  ASSUME NEW t, Routed(t), NEW d \in Rank, NEW e \in Expert,
         NEW row \in CuSeqlens(t, d, e) .. CuSeqlens(t, d, e + 1) - 1
  PROVE  LET m == TileOf(t, d, e, row)
         IN  /\ row \in Nat /\ m \in Nat /\ m <= row
             /\ TileLo(t, d, e, m) <= row /\ row < TileHi(t, d, e, m)
             /\ Gate(t, d, e, row) = TileOffset(t, d, e) + m /\ TileOffset(t, d, e) \in Nat
             /\ m < CeilDiv(SplitSize(t, d, e), TileM) /\ Gate(t, d, e, row) \in Nat
             /\ Gate(t, d, e, row) < TileOffset(t, d, EPR)
<1> DEFINE lo == CuSeqlens(t, d, e)
           n == SplitSize(t, d, e)
           k == row - lo
           m == k \div TileM
           c == CeilDiv(n, TileM)
<1>1. /\ lo \in Nat /\ n \in Nat /\ CuSeqlens(t, d, e + 1) = lo + n
  <2>1. e \in 0 .. EPR
    BY RoutingAssumption DEF Expert
  <2>2. QED
    BY <2>1, Spans
<1>2. k \in Nat /\ k < n /\ row = lo + k /\ row \in Nat
  BY <1>1
<1>3. TileM \in Nat
  BY RoutingAssumption
<1> HIDE DEF k, n, lo
<1>4. /\ c \in Nat /\ m \in Nat /\ m <= k /\ m * TileM <= k /\ k < m * TileM + TileM /\ m < c
  BY <1>1, <1>2, Tiles
<1>5. TileOf(t, d, e, row) = m
  BY DEF TileOf, k, lo
<1>6. TileOffset(t, d, e) \in Nat /\ TileOffset(t, d, e) + c <= TileOffset(t, d, EPR)
      /\ TileOffset(t, d, EPR) \in Nat
  <2>1. e \in 0 .. EPR /\ EPR \in 0 .. EPR /\ e < EPR
    BY RoutingAssumption DEF Expert
  <2>2. QED
    BY <2>1, Offsets DEF n
<1> HIDE DEF m, c
<1>7. m <= row /\ m * TileM \in Nat
  BY <1>1, <1>2, <1>3, <1>4
<1>8. TileLo(t, d, e, m) = lo + m * TileM
  BY DEF TileLo, lo
<1>9. TileLo(t, d, e, m) <= row
  BY <1>1, <1>2, <1>4, <1>7, <1>8
<1>10. row < TileHi(t, d, e, m)
  <2>1. row < lo + m * TileM + TileM /\ row < CuSeqlens(t, d, e + 1)
    BY <1>1, <1>2, <1>3, <1>4, <1>7
  <2>2. QED
    BY <1>8, <2>1 DEF TileHi
<1>11. Gate(t, d, e, row) = TileOffset(t, d, e) + m
  BY <1>5 DEF Gate
<1>12. Gate(t, d, e, row) \in Nat /\ Gate(t, d, e, row) < TileOffset(t, d, EPR)
  BY <1>4, <1>6, <1>11
<1>13. QED
  BY <1>2, <1>4, <1>5, <1>6, <1>7, <1>9, <1>10, <1>11, <1>12 DEF c, n

\* Flags ascend with the rows.
LEMMA GatesAscend ==
  ASSUME NEW t, Routed(t), NEW d \in Rank, NEW e \in Expert, NEW x \in Expert,
         NEW row \in CuSeqlens(t, d, e) .. CuSeqlens(t, d, e + 1) - 1,
         NEW next \in CuSeqlens(t, d, x) .. CuSeqlens(t, d, x + 1) - 1, row < next
  PROVE  Gate(t, d, e, row) <= Gate(t, d, x, next)
<1>1. \A k \in Expert : k \in 0 .. EPR /\ k + 1 \in 0 .. EPR /\ k \in Int
  BY RoutingAssumption DEF Expert
<1>2. /\ \A k \in 0 .. EPR : CuSeqlens(t, d, k) \in Nat
      /\ \A k \in Expert, u \in 0 .. EPR : k < u => CuSeqlens(t, d, k + 1) <= CuSeqlens(t, d, u)
  BY Spans
<1>3. /\ CuSeqlens(t, d, e) \in Nat /\ CuSeqlens(t, d, e + 1) \in Nat
      /\ CuSeqlens(t, d, x) \in Nat /\ CuSeqlens(t, d, x + 1) \in Nat
  BY <1>1, <1>2
<1>4. /\ Gate(t, d, e, row) = TileOffset(t, d, e) + TileOf(t, d, e, row)
      /\ TileOffset(t, d, e) \in Nat /\ TileOf(t, d, e, row) \in Nat
      /\ TileOf(t, d, e, row) < CeilDiv(SplitSize(t, d, e), TileM)
  BY GateFacts
<1>5. /\ Gate(t, d, x, next) = TileOffset(t, d, x) + TileOf(t, d, x, next)
      /\ TileOffset(t, d, x) \in Nat /\ TileOf(t, d, x, next) \in Nat
  BY GateFacts
<1>6. ~(x < e)
  <2>1. x < e => CuSeqlens(t, d, x + 1) <= CuSeqlens(t, d, e)
    BY <1>1, <1>2
  <2>2. QED
    BY <1>3, <2>1
<1>7. CASE e < x
  <2>1. TileOffset(t, d, e) + CeilDiv(SplitSize(t, d, e), TileM) <= TileOffset(t, d, x)
    BY <1>1, <1>7, Offsets
  <2>2. CeilDiv(SplitSize(t, d, e), TileM) \in Nat
    <3>1. SplitSize(t, d, e) \in Nat
      BY Spans
    <3>2. QED
      BY <3>1, Tiles
  <2>3. QED
    BY <1>4, <1>5, <2>1, <2>2
<1>8. CASE e = x
  <2> DEFINE k == row - CuSeqlens(t, d, e)
             j == next - CuSeqlens(t, d, e)
  <2>1. k \in Nat /\ j \in Nat /\ k <= j
    BY <1>3, <1>8
  <2> HIDE DEF k, j
  <2>2. k \div TileM <= j \div TileM
    BY <2>1, Tiles
  <2>3. TileOf(t, d, e, row) = k \div TileM /\ TileOf(t, d, x, next) = j \div TileM
    BY <1>8 DEF TileOf, k, j
  <2>4. QED
    BY <1>4, <1>5, <1>8, <2>2, <2>3
<1>9. QED
  BY <1>1, <1>6, <1>7, <1>8

\* A row of the push list, by the choice it returns.
LEMMA PushEntries ==
  ASSUME NEW t, Routed(t), NEW d \in Rank, NEW i \in DOMAIN PushList(t, d)
  PROVE  LET z == PushOrder(t, d)[i]
             p == PushList(t, d)[i]
         IN  /\ i \in Nat /\ z \in RowsOf(t, d) /\ Slot(t, z[2], z[3]) = i - 1
             /\ p.row = i - 1 /\ p.home = z[2] /\ p.seg \div W = z[1]
             /\ p.slot = z[3] - 1 /\ p.slot \div TopK = (z[3] - 1) \div TopK /\ p.slot + 1 = z[3]
             /\ p.gate = Gate(t, d, z[1], i - 1)
             /\ z[1] \in Expert /\ i - 1 \in CuSeqlens(t, d, z[1]) .. CuSeqlens(t, d, z[1] + 1) - 1
             /\ CombineFlag(t, z[2], z[3]) = RankTileBase(t, d) + p.gate
<1> DEFINE o == PushOrder(t, d)
           z == o[i]
           n == TotalRows(t, d)
           p == PushList(t, d)[i]
           y == RowChoice(z)
           split == [x \in Expert |-> Cardinality({k \in DOMAIN o : o[k][1] = x})]
           tiles == [x \in Expert |-> CeilDiv(split[x], TileM)]
<1>1. /\ n \in Nat /\ DOMAIN o = 1 .. n /\ DOMAIN PushList(t, d) = 1 .. n
      /\ \A k \in 1 .. n : o[k] \in RowsOf(t, d) /\ Slot(t, o[k][2], o[k][3]) = k - 1
  BY PushOrders DEF PushList
<1>2. i \in Nat /\ z \in RowsOf(t, d) /\ Slot(t, z[2], z[3]) = i - 1
  BY <1>1
<1>3. PushList(t, d)[i] = PushEntry(o, i)
  BY <1>1 DEF PushList
<1>4. /\ p.row = i - 1 /\ p.home = z[2] /\ p.seg = z[1] * W + z[2] /\ p.slot = StagingSlot(z[3])
      /\ p.gate = SumBelow(tiles, z[1]) + ((i - 1) - SumBelow(split, z[1])) \div TileM
  BY <1>3 DEF PushEntry
<1>5. \A x \in Expert : split[x] = SplitSize(t, d, x)
  BY ListSplits
<1>6. \A x \in Expert : tiles[x] = CeilDiv(SplitSize(t, d, x), TileM)
  BY <1>5
<1> HIDE DEF o, z, p, y, split, tiles
<1>7. /\ z[1] \in Expert /\ z[1] \in Nat /\ z[2] \in Rank /\ z[2] \in Nat
      /\ y \in Chosen(t) /\ DstOf(ExpertOf(t, y)) = d /\ LocalOf(ExpertOf(t, y)) = z[1]
      /\ SlotAt(t, y) = i - 1 /\ z[3] \in Nat /\ z[3] \in DOMAIN t[z[2]]
      /\ t[z[2]][z[3]] = d * EPR + z[1]
  BY <1>2, RowFacts DEF y
<1>8. p.slot = z[3] - 1
  <2>1. z[3] - 1 \in Nat
    <3>1. t[z[2]] \in Seq(Global)
      BY <1>7 DEF Routed
    <3>2. QED
      BY <1>7, <3>1
  <2> DEFINE j == z[3] - 1
  <2>2. TopK \in Nat \ {0}
    BY RoutingAssumption
  <2> HIDE DEF j
  <2>3. j \div TopK \in Nat /\ (j % TopK) \in 0 .. TopK - 1 /\ j = TopK * (j \div TopK) + (j % TopK)
    BY <2>1, <2>2, DivMod DEF j
  <2>4. TopK * (j \div TopK) = (j \div TopK) * TopK
    BY <2>2, <2>3
  <2>5. StagingSlot(z[3]) = j
    BY <2>3, <2>4 DEF StagingSlot, j
  <2>6. QED
    BY <1>4, <2>5 DEF j
<1>9. p.seg \div W = z[1]
  <2>1. W \in Nat \ {0} /\ z[2] \in 0 .. W - 1
    BY <1>7, RoutingAssumption DEF Rank
  <2>2. (W * z[1] + z[2]) \div W = z[1]
    BY <1>7, <2>1, DivUnique
  <2>3. W * z[1] = z[1] * W
    BY <1>7, <2>1
  <2>4. QED
    BY <1>4, <2>2, <2>3
<1>10. i - 1 \in CuSeqlens(t, d, z[1]) .. CuSeqlens(t, d, z[1] + 1) - 1
  BY <1>7, SlotInSpan
<1>11. SumBelow(split, z[1]) = CuSeqlens(t, d, z[1]) /\ SumBelow(tiles, z[1]) = TileOffset(t, d, z[1])
  <2>1. EPR \in Nat /\ Expert = 0 .. EPR - 1 /\ z[1] \in 0 .. EPR
    BY <1>7, RoutingAssumption DEF Expert
  <2>2. \A x \in 0 .. EPR - 1 : split[x] = Splits(t, d)[x] /\ tiles[x] = TilesOf(t, d)[x]
    BY <1>5, <1>6, <2>1 DEF Splits, TilesOf
  <2>3. SumBelow(split, z[1]) = SumBelow(Splits(t, d), z[1])
    BY <2>1, <2>2, SumOfSame
  <2>4. SumBelow(tiles, z[1]) = SumBelow(TilesOf(t, d), z[1])
    BY <2>1, <2>2, SumOfSame
  <2>5. QED
    BY <2>3, <2>4 DEF CuSeqlens, Splits, TileOffset, TilesOf
<1>12. p.gate = Gate(t, d, z[1], i - 1)
  BY <1>4, <1>11 DEF Gate, TileOf
<1>13. CombineFlag(t, z[2], z[3]) = RankTileBase(t, d) + p.gate
  <2>1. DstOf(t[z[2]][z[3]]) = d /\ LocalOf(t[z[2]][z[3]]) = z[1]
    BY <1>7, ExpertDecodes
  <2>2. CombineFlag(t, z[2], z[3])
          = RankTileBase(t, d) + TileOffset(t, d, z[1]) + TileOf(t, d, z[1], i - 1)
    BY <1>2, <2>1 DEF CombineFlag, TileOf, z
  <2>3. /\ RankTileBase(t, d) \in Nat /\ TileOffset(t, d, z[1]) \in Nat
        /\ TileOf(t, d, z[1], i - 1) \in Nat
    BY <1>7, <1>10, GateFacts, Offsets
  <2>4. QED
    BY <1>12, <2>2, <2>3 DEF Gate
<1>14. p.slot + 1 = z[3]
  BY <1>7, <1>8
<1>15. QED
  BY <1>2, <1>4, <1>7, <1>8, <1>9, <1>10, <1>12, <1>13, <1>14 DEF o, z, p

\* No rank receives more rows than there are choices.
LEMMA RowsBounded ==
  ASSUME NEW t \in Routings, NEW d \in Rank
  PROVE  TotalRows(t, d) <= Len(t[0]) * W
<1>1. /\ Routed(t) /\ Len(t[0]) \in Nat /\ Chosen(t) = Rank \X (1 .. Len(t[0]))
  <2>1. 0 \in Rank
    BY RoutingAssumption DEF Rank
  <2>2. QED
    BY <2>1, AreRouted
<1> DEFINE k == Len(t[0])
<1>2. W \in Nat /\ IsFiniteSet(Rank) /\ Cardinality(Rank) = W
  <2>1. W \in Nat /\ 0 \in Int /\ W - 1 \in Int /\ Rank = 0 .. W - 1
    BY RoutingAssumption DEF Rank
  <2>2. IsFiniteSet(0 .. W - 1) /\ Cardinality(0 .. W - 1) = W
    BY <2>1, FromZero, Zenon
  <2>3. QED
    BY <2>1, <2>2
<1>3. IsFiniteSet(1 .. k) /\ Cardinality(1 .. k) = k
  BY <1>1, UpTo, Zenon
<1>4. IsFiniteSet(Chosen(t)) /\ Cardinality(Chosen(t)) = W * k
  <2>1. /\ IsFiniteSet(Rank \X (1 .. k))
        /\ Cardinality(Rank \X (1 .. k)) = Cardinality(Rank) * Cardinality(1 .. k)
    BY <1>2, <1>3, FS_Product, Zenon
  <2>2. QED
    BY <1>1, <1>2, <1>3, <2>1, Zenon
<1>5. Arrivals(t, d) \in SUBSET Chosen(t)
  BY DEF Arrivals
<1>6. Cardinality(Arrivals(t, d)) <= Cardinality(Chosen(t))
  BY <1>4, <1>5, FS_Subset
<1>7. Cardinality(Arrivals(t, d)) = TotalRows(t, d)
  BY <1>1, ArrivalCounts
<1>8. W * k = k * W
  BY <1>1, <1>2
<1>9. QED
  BY <1>4, <1>6, <1>7, <1>8

LEMMA PushesBack == PlansInv /\ AllPlanned => PushReversesDispatch
<1> SUFFICES ASSUME PlansInv, AllPlanned, NEW d \in Rank
             PROVE  /\ Len(push[d]) = Cardinality(SentTo(d))
                    /\ \A i \in DOMAIN push[d] : \E x \in SentTo(d) :
                         /\ EntryOf(x).slot = push[d][i].row
                         /\ x[1] = push[d][i].home
                         /\ push[d][i].slot \div TopK = EntryOf(x).token
                         /\ topk[x[1]][push[d][i].slot + 1] = d * EPR + EntryOf(x).expert
  BY DEF PushReversesDispatch
<1>1. /\ Routed(topk) /\ SentTo(d) = Arrivals(topk, d)
      /\ \A x \in Chosen(topk) : EntryOf(x) = Listed(topk, x)
  BY SentIsListed
<1>2. push[d] = PushList(topk, d)
  BY DEF PlansInv, AllPlanned
<1>3. Len(push[d]) = Cardinality(SentTo(d))
  <2> DEFINE n == TotalRows(topk, d)
  <2>1. n \in Nat /\ DOMAIN PushOrder(topk, d) = 1 .. n
    BY <1>1, PushOrders
  <2>2. PushList(topk, d) = [i \in 1 .. n |-> PushEntry(PushOrder(topk, d), i)]
    BY <2>1 DEF PushList
  <2> HIDE DEF n
  <2>3. Len(PushList(topk, d)) = n
    BY <2>1, <2>2
  <2>4. Cardinality(Arrivals(topk, d)) = n
    BY <1>1, ArrivalCounts DEF n
  <2>5. QED
    BY <1>1, <1>2, <2>3, <2>4
<1>4. ASSUME NEW i \in DOMAIN push[d]
      PROVE  \E x \in SentTo(d) :
               /\ EntryOf(x).slot = push[d][i].row
               /\ x[1] = push[d][i].home
               /\ push[d][i].slot \div TopK = EntryOf(x).token
               /\ topk[x[1]][push[d][i].slot + 1] = d * EPR + EntryOf(x).expert
  <2> DEFINE z == PushOrder(topk, d)[i]
             p == push[d][i]
             y == RowChoice(z)
  <2>1. /\ z \in RowsOf(topk, d) /\ Slot(topk, z[2], z[3]) = i - 1 /\ p.row = i - 1 /\ p.home = z[2]
        /\ p.slot \div TopK = (z[3] - 1) \div TopK /\ p.slot + 1 = z[3]
    BY <1>1, <1>2, PushEntries
  <2> HIDE DEF z, p
  <2>2. /\ y \in Chosen(topk) /\ DstOf(ExpertOf(topk, y)) = d /\ LocalOf(ExpertOf(topk, y)) = z[1]
        /\ SlotAt(topk, y) = i - 1 /\ topk[z[2]][z[3]] = d * EPR + z[1]
    BY <1>1, <2>1, RowFacts
  <2>3. y[1] = z[2] /\ y[2] = z[3]
    BY DEF RowChoice
  <2> HIDE DEF y
  <2>4. PICK x \in Chosen(topk) : ChoiceAt(topk, x) = y
    BY <1>1, <2>2, Correspond
  <2>5. /\ Listed(topk, x).dst = d /\ Listed(topk, x).expert = z[1] /\ Listed(topk, x).slot = i - 1
        /\ Listed(topk, x).token = (z[3] - 1) \div TopK /\ x[1] = z[2]
    BY <1>1, <2>2, <2>3, <2>4, ListedFacts
  <2>6. x \in SentTo(d) /\ EntryOf(x) = Listed(topk, x)
    BY <1>1, <2>4, <2>5 DEF Arrivals
  <2>7. QED
    BY <2>1, <2>2, <2>5, <2>6 DEF p
<1>5. QED
  BY <1>3, <1>4

LEMMA FlagsAgree == PlansInv /\ AllPlanned => FlagSpacesAgree
<1> SUFFICES ASSUME PlansInv, AllPlanned PROVE FlagSpacesAgree
  OBVIOUS
<1>1. topk \in Routings /\ Routed(topk)
  BY AreRouted DEF PlansInv
<1>2. \A d \in Rank : push[d] = PushList(topk, d)
  BY DEF PlansInv, AllPlanned
<1>3. \A r \in Rank : pull[r] = [j \in DOMAIN topk[r] |-> CombineFlag(topk, r, j)]
  BY DEF PlansInv, AllPlanned
<1>4. ASSUME NEW d \in Rank, NEW i \in DOMAIN push[d]
      PROVE  LET p == push[d][i]
                 e == p.seg \div W
             IN  /\ e \in Expert /\ i \in Nat /\ p.row = i - 1 /\ p.gate = Gate(topk, d, e, p.row)
                 /\ p.row \in CuSeqlens(topk, d, e) .. CuSeqlens(topk, d, e + 1) - 1
                 /\ pull[p.home][p.slot + 1] = RankTileBase(topk, d) + p.gate
                 /\ p.gate \in Nat /\ p.gate < TileOffset(topk, d, EPR)
  <2> DEFINE z == PushOrder(topk, d)[i]
             p == push[d][i]
  <2>1. /\ i \in Nat /\ z \in RowsOf(topk, d) /\ p.row = i - 1 /\ p.home = z[2] /\ p.seg \div W = z[1]
        /\ p.slot + 1 = z[3] /\ p.gate = Gate(topk, d, z[1], i - 1)
        /\ z[1] \in Expert /\ i - 1 \in CuSeqlens(topk, d, z[1]) .. CuSeqlens(topk, d, z[1] + 1) - 1
        /\ CombineFlag(topk, z[2], z[3]) = RankTileBase(topk, d) + p.gate
    BY <1>1, <1>2, PushEntries
  <2> HIDE DEF z, p
  <2>2. z[2] \in Rank /\ z[3] \in DOMAIN topk[z[2]]
    BY <1>1, <2>1, RowFacts
  <2>3. pull[p.home][p.slot + 1] = RankTileBase(topk, d) + p.gate
    <3>1. pull[z[2]] = [j \in DOMAIN topk[z[2]] |-> CombineFlag(topk, z[2], j)]
      BY <1>3, <2>2
    <3>2. pull[z[2]][z[3]] = CombineFlag(topk, z[2], z[3])
      BY <2>2, <3>1
    <3>3. QED
      BY <2>1, <3>2
  <2>4. p.gate \in Nat /\ p.gate < TileOffset(topk, d, EPR)
    BY <1>1, <2>1, GateFacts
  <2>5. QED
    BY <2>1, <2>3, <2>4 DEF p
<1>5. \A d \in Rank : \A i \in DOMAIN push[d] :
        LET p == push[d][i]
            e == p.seg \div W
        IN  /\ \E m \in 0 .. NumChoices * W :
                 Covers(d, e, m, p.row) /\ p.gate = TileOffset(topk, d, e) + m
            /\ pull[p.home][p.slot + 1] = RankTileBase(topk, d) + p.gate
            /\ pull[p.home][p.slot + 1] < TotalTiles(topk)
  <2> SUFFICES ASSUME NEW d \in Rank, NEW i \in DOMAIN push[d]
               PROVE  LET p == push[d][i]
                          e == p.seg \div W
                      IN  /\ \E m \in 0 .. NumChoices * W :
                               Covers(d, e, m, p.row) /\ p.gate = TileOffset(topk, d, e) + m
                          /\ pull[p.home][p.slot + 1] = RankTileBase(topk, d) + p.gate
                          /\ pull[p.home][p.slot + 1] < TotalTiles(topk)
    OBVIOUS
  <2> DEFINE p == push[d][i]
             e == p.seg \div W
             m == TileOf(topk, d, e, p.row)
  <2>1. /\ e \in Expert /\ p.gate = Gate(topk, d, e, p.row)
        /\ p.row \in CuSeqlens(topk, d, e) .. CuSeqlens(topk, d, e + 1) - 1
        /\ pull[p.home][p.slot + 1] = RankTileBase(topk, d) + p.gate
        /\ p.gate \in Nat /\ p.gate < TileOffset(topk, d, EPR)
    BY <1>4
  <2> HIDE DEF p, e
  <2>2. /\ m \in Nat /\ m <= p.row /\ p.row \in Nat
        /\ TileLo(topk, d, e, m) <= p.row /\ p.row < TileHi(topk, d, e, m)
        /\ Gate(topk, d, e, p.row) = TileOffset(topk, d, e) + m
    BY <1>1, <2>1, GateFacts
  <2> HIDE DEF m
  <2>3. m \in 0 .. NumChoices * W
    <3>1. CuSeqlens(topk, d, e + 1) <= TotalRows(topk, d) /\ TotalRows(topk, d) \in Nat
          /\ CuSeqlens(topk, d, e + 1) \in Nat /\ CuSeqlens(topk, d, e) \in Nat
      <4>1. EPR \in 0 .. EPR /\ e < EPR /\ e \in 0 .. EPR /\ e + 1 \in 0 .. EPR
        BY <2>1, RoutingAssumption DEF Expert
      <4>2. /\ \A k \in 0 .. EPR : CuSeqlens(topk, d, k) \in Nat
            /\ \A k \in Expert, u \in 0 .. EPR : k < u => CuSeqlens(topk, d, k + 1) <= CuSeqlens(topk, d, u)
        BY <1>1, Spans
      <4>3. QED
        BY <2>1, <4>1, <4>2 DEF TotalRows
    <3>2. TotalRows(topk, d) <= NumChoices * W
      BY <1>1, RowsBounded DEF NumChoices
    <3>3. NumChoices * W \in Int
      <4>1. NumChoices \in Nat /\ W \in Nat
        <5>1. 0 \in Rank
          BY RoutingAssumption DEF Rank
        <5>2. QED
          BY <1>1, <5>1, AreRouted, RoutingAssumption DEF NumChoices
      <4>2. QED
        BY <4>1
    <3> DEFINE b == NumChoices * W
               n == TotalRows(topk, d)
    <3> HIDE DEF b, n
    <3>4. p.row < n /\ n <= b /\ b \in Int /\ n \in Int
      BY <2>1, <3>1, <3>2, <3>3 DEF b, n
    <3>5. m \in 0 .. b
      BY <2>2, <3>4
    <3>6. QED
      BY <3>5 DEF b
  <2>4. Covers(d, e, m, p.row) /\ p.gate = TileOffset(topk, d, e) + m
    BY <2>1, <2>2 DEF Covers
  <2>5. pull[p.home][p.slot + 1] < TotalTiles(topk)
    <3>1. /\ RankTileBase(topk, d) \in Nat /\ TotalTiles(topk) \in Nat
          /\ RankTileBase(topk, d) + TileOffset(topk, d, EPR) <= TotalTiles(topk)
          /\ TileOffset(topk, d, EPR) \in Nat
      <4>1. EPR \in 0 .. EPR
        BY RoutingAssumption
      <4>2. QED
        BY <1>1, <4>1, Offsets
    <3>2. QED
      BY <2>1, <3>1
  <2>6. QED
    BY <2>1, <2>3, <2>4, <2>5 DEF p, e
<1>6. \A d \in Rank : \A i, k \in DOMAIN push[d] :
        i < k => push[d][i].gate <= push[d][k].gate /\ push[d][i].row < push[d][k].row
  <2> SUFFICES ASSUME NEW d \in Rank, NEW i \in DOMAIN push[d], NEW k \in DOMAIN push[d], i < k
               PROVE  push[d][i].gate <= push[d][k].gate /\ push[d][i].row < push[d][k].row
    OBVIOUS
  <2> DEFINE p == push[d][i]
             q == push[d][k]
             e == p.seg \div W
             x == q.seg \div W
  <2>1. /\ e \in Expert /\ i \in Nat /\ p.row = i - 1 /\ p.gate = Gate(topk, d, e, p.row)
        /\ p.row \in CuSeqlens(topk, d, e) .. CuSeqlens(topk, d, e + 1) - 1
    BY <1>4
  <2>2. /\ x \in Expert /\ k \in Nat /\ q.row = k - 1 /\ q.gate = Gate(topk, d, x, q.row)
        /\ q.row \in CuSeqlens(topk, d, x) .. CuSeqlens(topk, d, x + 1) - 1
    BY <1>4
  <2> HIDE DEF p, q, e, x
  <2>3. p.row < q.row
    BY <2>1, <2>2
  <2>4. p.gate <= q.gate
    BY <1>1, <2>1, <2>2, <2>3, GatesAscend
  <2>5. QED
    BY <2>3, <2>4 DEF p, q
<1>7. \A d1, d2 \in Rank : \A i \in DOMAIN push[d1], k \in DOMAIN push[d2] :
        LET p == push[d1][i]
            q == push[d2][k]
        IN  pull[p.home][p.slot + 1] = pull[q.home][q.slot + 1]
              => d1 = d2 /\ p.gate = q.gate
  <2> SUFFICES ASSUME NEW d1 \in Rank, NEW d2 \in Rank,
                      NEW i \in DOMAIN push[d1], NEW k \in DOMAIN push[d2],
                      pull[push[d1][i].home][push[d1][i].slot + 1]
                        = pull[push[d2][k].home][push[d2][k].slot + 1]
               PROVE  d1 = d2 /\ push[d1][i].gate = push[d2][k].gate
    OBVIOUS
  <2> DEFINE p == push[d1][i].gate
             q == push[d2][k].gate
             b(d) == RankTileBase(topk, d)
             n(d) == TileOffset(topk, d, EPR)
  <2>1. p \in Nat /\ p < n(d1) /\ q \in Nat /\ q < n(d2) /\ b(d1) + p = b(d2) + q
    <3>1. /\ pull[push[d1][i].home][push[d1][i].slot + 1] = b(d1) + p
          /\ p \in Nat /\ p < n(d1)
      BY <1>4, Zenon
    <3>2. /\ pull[push[d2][k].home][push[d2][k].slot + 1] = b(d2) + q
          /\ q \in Nat /\ q < n(d2)
      BY <1>4, Zenon
    <3>3. QED
      BY <3>1, <3>2, Zenon
  <2>2. \A d, u \in Rank : b(d) \in Nat /\ (d < u => b(d) + n(d) <= b(u))
    BY <1>1, Offsets
  <2>3. \A d \in Rank : n(d) \in Nat
    <3>1. EPR \in 0 .. EPR
      BY RoutingAssumption
    <3>2. QED
      BY <1>1, <3>1, Offsets
  <2>4. d1 \in Int /\ d2 \in Int
    BY RoutingAssumption DEF Rank
  <2> HIDE DEF p, q, b, n
  <2>5. ~(d1 < d2)
    BY <2>1, <2>2, <2>3
  <2>6. ~(d2 < d1)
    BY <2>1, <2>2, <2>3
  <2>7. d1 = d2
    BY <2>4, <2>5, <2>6
  <2>8. p = q
    BY <2>1, <2>2, <2>7
  <2>9. QED
    BY <2>7, <2>8 DEF p, q
<1>8. QED
  BY <1>5, <1>6, <1>7, Zenon DEF FlagSpacesAgree

(***************************************************************************)
(* Combine reverses dispatch: rows and flags that the owner of an expert,  *)
(* its push list and the home ranks number apart are the same ones, no two *)
(* tiles of any ranks share a flag, and the gates of a list ascend         *)
(* (build_combine_metadata, build_push_combine_arrays).                    *)
(***************************************************************************)
THEOREM CombineReverses == PlansSpec => []CombineReversesDispatch
<1>1. PlansInv => CombineReversesDispatch
  BY PushesBack, FlagsAgree DEF CombineReversesDispatch
<1>2. QED
  BY <1>1, PlansBuilt, PTL
=============================================================================
