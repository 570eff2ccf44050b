---------------------------- MODULE Launch_proofs ----------------------------
(***************************************************************************)
(* What holds of every launch, whatever the machine, the arguments, the    *)
(* weights the probes measure, and the order and number of GPUs.           *)
(***************************************************************************)
EXTENDS Launch, KangarooAlgebra_proofs, FunctionTheorems, FiniteSetTheorems,
        SequenceTheorems

-----------------------------------------------------------------------------
(* Sums of sequences of numbers. *)

(* g[k] is the sum of the first k members. *)
IsSum(g, seq) ==
  /\ g \in [0 .. Len(seq) -> Int]
  /\ g[0] = 0
  /\ \A k \in 1 .. Len(seq) : g[k] = g[k - 1] + seq[k]

Numbers(seq) == Len(seq) \in Nat /\ \A i \in 1 .. Len(seq) : seq[i] \in Int

LEMMA SumExists ==
  ASSUME NEW seq, Numbers(seq)
  PROVE  \E g : IsSum(g, seq)
<1> DEFINE P(n, g) == /\ g \in [0 .. n -> Int]
                      /\ g[0] = 0
                      /\ \A k \in 1 .. n : g[k] = g[k - 1] + seq[k]
           S == {n \in Nat : n <= Len(seq) => \E g : P(n, g)}
<1>1. 0 \in S
  <2>1. P(0, [k \in 0 .. 0 |-> 0])
    OBVIOUS
  <2> QED
    BY <2>1
<1>2. ASSUME NEW n \in Nat, n \in S PROVE n + 1 \in S
  <2> HIDE DEF P
  <2> SUFFICES ASSUME n + 1 <= Len(seq) PROVE \E g : P(n + 1, g)
    OBVIOUS
  <2> USE DEF P
  <2>1. PICK g : P(n, g)
    BY <1>2 DEF Numbers
  <2> DEFINE h == [k \in 0 .. n + 1 |-> IF k = n + 1 THEN g[n] + seq[n + 1] ELSE g[k]]
  <2>2. seq[n + 1] \in Int /\ g[n] \in Int
    BY <2>1 DEF Numbers
  <2>3. h \in [0 .. n + 1 -> Int] /\ h[0] = 0
    BY <2>1, <2>2
  <2>4. ASSUME NEW k \in 1 .. n + 1 PROVE h[k] = h[k - 1] + seq[k]
    <3>1. CASE k = n + 1
      BY <2>1, <3>1
    <3>2. CASE k # n + 1
      BY <2>1, <3>2
    <3> QED
      BY <3>1, <3>2
  <2> QED
    BY <2>3, <2>4
<1>3. Len(seq) \in S
  BY <1>1, <1>2, SetInduction DEF Numbers
<1> QED
  BY <1>3 DEF IsSum, Numbers

LEMMA SumsAgree ==
  ASSUME NEW seq, Numbers(seq), NEW g, NEW h, IsSum(g, seq), IsSum(h, seq)
  PROVE  g = h
<1> DEFINE S == {n \in Nat : n <= Len(seq) => g[n] = h[n]}
<1>1. 0 \in S
  BY DEF IsSum
<1>2. ASSUME NEW n \in Nat, n \in S PROVE n + 1 \in S
  <2> SUFFICES ASSUME n + 1 <= Len(seq) PROVE g[n + 1] = h[n + 1]
    OBVIOUS
  <2>1. n + 1 \in 1 .. Len(seq) /\ (n + 1) - 1 = n /\ g[n] = h[n]
    BY <1>2 DEF Numbers
  <2> QED
    BY <2>1 DEF IsSum
<1>3. \A n \in 0 .. Len(seq) : n \in S
  <2>1. S = Nat
    BY <1>1, <1>2, SetInduction
  <2> QED
    BY <2>1 DEF Numbers
<1> QED
  BY <1>3 DEF IsSum, Numbers

LEMMA TotalOfSum ==
  ASSUME NEW seq, Numbers(seq), NEW g, IsSum(g, seq)
  PROVE  TotalOf(seq) = g[Len(seq)] /\ TotalOf(seq) \in Int
<1> DEFINE eq(f) == f = [n \in 0 .. Len(seq) |-> IF n = 0 THEN 0 ELSE f[n - 1] + seq[n]]
           sum == CHOOSE f : eq(f)
<1>1. eq(g)
  BY DEF IsSum, Numbers
<1>2. eq(sum)
  BY <1>1
<1>3. TotalOf(seq) = sum[Len(seq)]
  BY DEF TotalOf
<1> HIDE DEF sum
<1> DEFINE S == {n \in Nat : n <= Len(seq) => sum[n] = g[n]}
<1>4. 0 \in S
  BY <1>1, <1>2
<1>5. ASSUME NEW n \in Nat, n \in S PROVE n + 1 \in S
  <2> SUFFICES ASSUME n + 1 <= Len(seq) PROVE sum[n + 1] = g[n + 1]
    OBVIOUS
  <2>1. n + 1 \in 0 .. Len(seq) /\ n + 1 # 0 /\ (n + 1) - 1 = n /\ sum[n] = g[n]
    BY <1>5 DEF Numbers
  <2>2. sum[n + 1] = sum[n] + seq[n + 1] /\ g[n + 1] = g[n] + seq[n + 1]
    BY <1>1, <1>2, <2>1
  <2> QED
    BY <2>1, <2>2
<1>6. Len(seq) \in S
  BY <1>4, <1>5, SetInduction DEF Numbers
<1> QED
  BY <1>3, <1>6 DEF IsSum, Numbers

-----------------------------------------------------------------------------
(* Places in an order of numbers, the largest first, equals in their order. *)

Ahead(rem, n, i) == {j \in 1 .. n : rem[j] > rem[i] \/ (rem[j] = rem[i] /\ j < i)}
Place(rem, n, i) == Cardinality(Ahead(rem, n, i))

LEMMA PlaceType ==
  ASSUME NEW n \in Nat, NEW rem, NEW i \in 1 .. n, \A j \in 1 .. n : rem[j] \in Int
  PROVE  Place(rem, n, i) \in 0 .. n - 1 /\ IsFiniteSet(Ahead(rem, n, i))
<1>1. IsFiniteSet(1 .. n) /\ Cardinality(1 .. n) = n
  BY FS_Interval
<1>2. IsFiniteSet((1 .. n) \ {i}) /\ Cardinality((1 .. n) \ {i}) = n - 1
  BY <1>1, FS_RemoveElement
<1>3. Ahead(rem, n, i) \in SUBSET ((1 .. n) \ {i})
  BY DEF Ahead
<1>4. IsFiniteSet(Ahead(rem, n, i)) /\ Place(rem, n, i) <= n - 1
  BY <1>2, <1>3, FS_Subset DEF Place
<1> QED
  BY <1>4, FS_CardinalityType DEF Place

(* A place is smaller than the places of those that are behind. *)
LEMMA AheadIsBefore ==
  ASSUME NEW n \in Nat, NEW rem, \A j \in 1 .. n : rem[j] \in Int,
         NEW a \in 1 .. n, NEW b \in 1 .. n, a \in Ahead(rem, n, b)
  PROVE  Place(rem, n, a) < Place(rem, n, b)
<1>1. Ahead(rem, n, a) \in SUBSET Ahead(rem, n, b)
  BY DEF Ahead
<1>2. a \notin Ahead(rem, n, a)
  BY DEF Ahead
<1>3. IsFiniteSet(Ahead(rem, n, b)) /\ Place(rem, n, a) \in Nat /\ Place(rem, n, b) \in Nat
  BY PlaceType
<1>4. Place(rem, n, a) <= Place(rem, n, b) /\ Place(rem, n, a) # Place(rem, n, b)
  BY <1>1, <1>2, <1>3, FS_Subset DEF Place
<1> QED
  BY <1>3, <1>4

LEMMA PlacesDiffer ==
  ASSUME NEW n \in Nat, NEW rem, \A j \in 1 .. n : rem[j] \in Int,
         NEW i \in 1 .. n, NEW k \in 1 .. n, i # k
  PROVE  Place(rem, n, i) # Place(rem, n, k)
<1>1. i \in Ahead(rem, n, k) \/ k \in Ahead(rem, n, i)
  BY DEF Ahead
<1>2. Place(rem, n, i) \in Nat /\ Place(rem, n, k) \in Nat
  BY PlaceType
<1> QED
  BY <1>1, <1>2, AheadIsBefore

(* No place stays empty. *)
LEMMA PlacesFilled ==
  ASSUME NEW n \in Nat, NEW rem, \A j \in 1 .. n : rem[j] \in Int, NEW t \in 0 .. n - 1
  PROVE  \E i \in 1 .. n : Place(rem, n, i) = t
<1> DEFINE f == [i \in 1 .. n |-> Place(rem, n, i)]
<1>1. /\ IsFiniteSet(1 .. n) /\ Cardinality(1 .. n) = n
      /\ IsFiniteSet(0 .. n - 1) /\ Cardinality(0 .. n - 1) = n
  BY FS_Interval
<1>2. f \in [1 .. n -> 0 .. n - 1] /\ \A a, b \in 1 .. n : f[a] = f[b] => a = b
  BY PlaceType, PlacesDiffer
<1>3. f \in Injection(1 .. n, 0 .. n - 1)
  BY <1>2, Fun_IsInj
<1>4. f \in Surjection(1 .. n, 0 .. n - 1)
  BY <1>1, <1>3, FS_Injection
<1>5. \E i \in 1 .. n : f[i] = t
  <2> HIDE DEF f
  <2> QED
    BY <1>4 DEF Surjection
<1> QED
  BY <1>5

(* As many members have one of the first c places as there are such places. *)
LEMMA PlacesTaken ==
  ASSUME NEW n \in Nat, NEW rem, \A j \in 1 .. n : rem[j] \in Int, NEW c \in 0 .. n
  PROVE  Cardinality({i \in 1 .. n : Place(rem, n, i) < c}) = c
<1> DEFINE f == [i \in 1 .. n |-> Place(rem, n, i)]
           A == {i \in 1 .. n : Place(rem, n, i) < c}
           g == [i \in A |-> Place(rem, n, i)]
<1>1. /\ IsFiniteSet(1 .. n) /\ Cardinality(1 .. n) = n
      /\ IsFiniteSet(0 .. c - 1) /\ Cardinality(0 .. c - 1) = c
  <2>1. c \in Nat /\ c - 1 \in Int
    OBVIOUS
  <2>2. IsFiniteSet(1 .. n) /\ Cardinality(1 .. n) = n
    BY FS_Interval
  <2>3. IsFiniteSet(0 .. c - 1) /\ Cardinality(0 .. c - 1) = c
    BY <2>1, FS_Interval
  <2> QED
    BY <2>2, <2>3
<1>2. f \in [1 .. n -> 0 .. n - 1] /\ \A a, b \in 1 .. n : f[a] = f[b] => a = b
  BY PlaceType, PlacesDiffer
<1>3. \A t \in 0 .. n - 1 : \E i \in 1 .. n : f[i] = t
  BY PlacesFilled
<1>4. g \in [A -> 0 .. c - 1] /\ \A a, b \in A : g[a] = g[b] => a = b
  BY <1>2, PlaceType
<1>5. \A t \in 0 .. c - 1 : \E i \in A : g[i] = t
  BY <1>3
<1>6. ExistsBijection(A, 0 .. c - 1)
  <2> HIDE DEF g, A
  <2>1. g \in Bijection(A, 0 .. c - 1)
    BY <1>4, <1>5, Fun_IsBij
  <2> QED
    BY <2>1, Fun_ExistsBij
<1>7. IsFiniteSet(A)
  BY <1>1, FS_Subset
<1> QED
  BY <1>1, <1>6, <1>7, FS_Bijection

-----------------------------------------------------------------------------
(* Allocation. *)

LEMMA LeftoverIsSmall ==
  ASSUME NEW n \in Nat, n >= 1, NEW R \in Nat, NEW T \in Nat, T >= 1,
         NEW e \in Int, NEW r \in Int, R * T = T * e + r, 0 <= r, r <= n * (T - 1)
  PROVE  R - e \in 0 .. n - 1
<1>1. PICK p \in Int, q \in Int, m \in Int : p = T * e /\ q = T * R /\ m = T * n
  OBVIOUS
<1>2. /\ R * T = q /\ T * (R + 1) = q + T /\ T * (R - e) = q - p
      /\ n * (T - 1) = m - n
  BY <1>1
<1>3. p < q + T /\ q - p < m
  BY <1>1, <1>2
<1>4. T * e < T * (R + 1) /\ T * (R - e) < T * n /\ R + 1 \in Int /\ R - e \in Int
  BY <1>1, <1>2, <1>3
<1>5. e < R + 1 /\ R - e < n
  BY <1>4, LessFactor
<1> QED
  BY <1>5

(* What the divisions leave over is less than one kangaroo for each GPU. *)
Divided(n, R, T, w, extra, rem) ==
  /\ Len(w) = n /\ Len(extra) = n /\ Len(rem) = n
  /\ \A i \in 1 .. n : /\ w[i] \in Nat /\ extra[i] \in Int /\ rem[i] \in 0 .. T - 1
                       /\ R * w[i] = T * extra[i] + rem[i]
  /\ TotalOf(w) = T

LEMMA LeftoversBounds ==
  ASSUME NEW n \in Nat, n >= 1, NEW R \in Nat, NEW T \in Nat, T >= 1,
         NEW w, NEW extra, NEW rem, Divided(n, R, T, w, extra, rem)
  PROVE  R - TotalOf(extra) \in 0 .. n - 1
<1> USE DEF Divided
<1>1. Numbers(w) /\ Numbers(extra) /\ Numbers(rem)
  BY DEF Numbers
<1>2. PICK gw : IsSum(gw, w)
  BY <1>1, SumExists
<1>3. PICK ge : IsSum(ge, extra)
  BY <1>1, SumExists
<1>4. PICK gr : IsSum(gr, rem)
  BY <1>1, SumExists
<1>5. gw[n] = T /\ TotalOf(extra) = ge[n]
  BY <1>1, <1>2, <1>3, TotalOfSum
<1> DEFINE S == {k \in Nat : k <= n =>
                   /\ gw[k] \in Int /\ ge[k] \in Int
                   /\ R * gw[k] = T * ge[k] + gr[k]
                   /\ gr[k] \in Int /\ 0 <= gr[k] /\ gr[k] <= k * (T - 1)}
<1>6. 0 \in S
  <2>1. gw[0] = 0 /\ ge[0] = 0 /\ gr[0] = 0
    BY <1>2, <1>3, <1>4 DEF IsSum
  <2>2. R * 0 = T * 0 + 0 /\ 0 <= 0 * (T - 1)
    OBVIOUS
  <2>3. /\ gw[0] \in Int /\ ge[0] \in Int /\ R * gw[0] = T * ge[0] + gr[0]
        /\ gr[0] \in Int /\ 0 <= gr[0] /\ gr[0] <= 0 * (T - 1)
    BY ONLY <2>1, <2>2
  <2> QED
    BY <2>3
<1>7. ASSUME NEW k \in Nat, k \in S PROVE k + 1 \in S
  <2> SUFFICES ASSUME k + 1 <= n
               PROVE  /\ gw[k + 1] \in Int /\ ge[k + 1] \in Int
                      /\ R * gw[k + 1] = T * ge[k + 1] + gr[k + 1]
                      /\ gr[k + 1] \in Int
                      /\ 0 <= gr[k + 1] /\ gr[k + 1] <= (k + 1) * (T - 1)
    OBVIOUS
  <2>1. k + 1 \in 1 .. n /\ (k + 1) - 1 = k
    OBVIOUS
  <2>2. /\ gw[k + 1] = gw[k] + w[k + 1] /\ ge[k + 1] = ge[k] + extra[k + 1]
        /\ gr[k + 1] = gr[k] + rem[k + 1]
    BY <1>2, <1>3, <1>4, <2>1 DEF IsSum
  <2>3. /\ gw[k] \in Int /\ ge[k] \in Int /\ R * gw[k] = T * ge[k] + gr[k]
        /\ gr[k] \in Int /\ 0 <= gr[k] /\ gr[k] <= k * (T - 1)
    BY <1>7, <2>1
  <2>4. /\ w[k + 1] \in Int /\ extra[k + 1] \in Int /\ rem[k + 1] \in 0 .. T - 1
        /\ R * w[k + 1] = T * extra[k + 1] + rem[k + 1]
    <3>1. \A i \in 1 .. n : /\ w[i] \in Nat /\ extra[i] \in Int /\ rem[i] \in 0 .. T - 1
                           /\ R * w[i] = T * extra[i] + rem[i]
      OBVIOUS
    <3>2. w[k + 1] \in Nat
      BY ONLY <2>1, <3>1
    <3> QED
      BY ONLY <2>1, <3>1, <3>2
  <2>5. PICK a \in Int, b \in Int, x \in Int : a = gw[k] /\ b = ge[k] /\ x = gr[k]
    BY <2>3
  <2>6. PICK c \in Int, d \in Int, y \in 0 .. T - 1 :
          c = w[k + 1] /\ d = extra[k + 1] /\ y = rem[k + 1]
    BY <2>4
  <2>7. R * a = T * b + x /\ R * c = T * d + y /\ 0 <= x /\ x <= k * (T - 1)
    BY <2>3, <2>4, <2>5, <2>6
  <2>8. R * (a + c) = T * (b + d) + (x + y)
    BY <2>7
  <2>9. (k + 1) * (T - 1) = k * (T - 1) + (T - 1) /\ k * (T - 1) \in Int
    OBVIOUS
  <2>10. 0 <= x + y /\ x + y <= (k + 1) * (T - 1)
    BY <2>7, <2>9
  <2>11. gw[k + 1] = a + c /\ ge[k + 1] = b + d /\ gr[k + 1] = x + y
    BY <2>2, <2>5, <2>6
  <2> QED
    BY <2>8, <2>10, <2>11
<1>8. n \in S
  BY <1>6, <1>7, SetInduction
<1>9. /\ ge[n] \in Int /\ gr[n] \in Int /\ R * T = T * ge[n] + gr[n]
      /\ 0 <= gr[n] /\ gr[n] <= n * (T - 1)
  <2>1. /\ ge[n] \in Int /\ gr[n] \in Int /\ R * gw[n] = T * ge[n] + gr[n]
        /\ 0 <= gr[n] /\ gr[n] <= n * (T - 1)
    <3>1. n <= n
      OBVIOUS
    <3> QED
      BY ONLY <1>8, <3>1
  <2> QED
    BY ONLY <1>5, <2>1
<1>10. R - ge[n] \in 0 .. n - 1
  BY <1>9, LeftoverIsSmall
<1> QED
  BY <1>5, <1>10

(* The shares add up to the budget, whatever the weights. *)
SharedOut(n, extra, rem, c, alloc) ==
  /\ Len(extra) = n /\ Len(alloc) = n
  /\ \A i \in 1 .. n :
       /\ extra[i] \in Nat /\ rem[i] \in Int
       /\ alloc[i] = 3 + extra[i] + (IF Place(rem, n, i) < c THEN 1 ELSE 0)

LEMMA SharesAddUp ==
  ASSUME NEW n \in Nat, NEW extra, NEW rem, NEW c \in 0 .. n, NEW alloc,
         SharedOut(n, extra, rem, c, alloc)
  PROVE  TotalOf(alloc) = 3 * n + TotalOf(extra) + c
<1> USE DEF SharedOut
<1> DEFINE C(k) == {i \in 1 .. k : Place(rem, n, i) < c}
<1>1. Numbers(extra) /\ Numbers(alloc)
  <2>1. \A i \in 1 .. n : alloc[i] \in Int
    <3> SUFFICES ASSUME NEW i \in 1 .. n PROVE alloc[i] \in Int
      OBVIOUS
    <3>1. PICK e \in Int : e = extra[i]
      OBVIOUS
    <3>2. alloc[i] = 3 + e + 1 \/ alloc[i] = 3 + e + 0
      BY <3>1
    <3> QED
      BY <3>2
  <2> QED
    BY <2>1 DEF Numbers
<1>2. PICK ge : IsSum(ge, extra)
  BY <1>1, SumExists
<1>3. PICK ga : IsSum(ga, alloc)
  BY <1>1, SumExists
<1>4. TotalOf(alloc) = ga[n] /\ TotalOf(extra) = ge[n]
  BY <1>1, <1>2, <1>3, TotalOfSum
<1> DEFINE S == {k \in Nat : k <= n =>
                   /\ ge[k] \in Int /\ Cardinality(C(k)) \in Nat /\ IsFiniteSet(C(k))
                   /\ ga[k] = 3 * k + ge[k] + Cardinality(C(k))}
<1>5. 0 \in S
  <2>1. C(0) = {}
    OBVIOUS
  <2>2. Cardinality(C(0)) = 0 /\ IsFiniteSet(C(0))
    BY <2>1, FS_EmptySet
  <2> HIDE DEF C
  <2> QED
    BY <1>2, <1>3, <2>2 DEF IsSum
<1>6. ASSUME NEW k \in Nat, k \in S PROVE k + 1 \in S
  <2> SUFFICES ASSUME k + 1 <= n
               PROVE  /\ ge[k + 1] \in Int /\ Cardinality(C(k + 1)) \in Nat
                      /\ IsFiniteSet(C(k + 1))
                      /\ ga[k + 1] = 3 * (k + 1) + ge[k + 1] + Cardinality(C(k + 1))
    OBVIOUS
  <2>1. k + 1 \in 1 .. n /\ (k + 1) - 1 = k
    OBVIOUS
  <2>2. ga[k + 1] = ga[k] + alloc[k + 1] /\ ge[k + 1] = ge[k] + extra[k + 1]
    BY <1>2, <1>3, <2>1 DEF IsSum
  <2>3. /\ ge[k] \in Int /\ Cardinality(C(k)) \in Nat /\ IsFiniteSet(C(k))
        /\ ga[k] = 3 * k + ge[k] + Cardinality(C(k))
    BY <1>6, <2>1
  <2>4. PICK x \in Nat : x = extra[k + 1]
    BY <2>1
  <2>5. PICK e \in Int : e = ge[k]
    BY <2>3
  <2>6. PICK m \in Nat : m = Cardinality(C(k))
    <3> HIDE DEF C
    <3> QED
      BY <2>3
  <2>7. CASE Place(rem, n, k + 1) < c
    <3>1. C(k + 1) = C(k) \cup {k + 1} /\ k + 1 \notin C(k)
      BY ONLY <2>7, k \in Nat
    <3>2. alloc[k + 1] = 3 + x + 1
      BY <2>1, <2>4, <2>7
    <3> HIDE DEF C
    <3>3. IsFiniteSet(C(k) \cup {k + 1}) /\ Cardinality(C(k) \cup {k + 1}) = m + 1
      BY <2>3, <2>6, <3>1, FS_AddElement
    <3>4. ga[k + 1] = 3 * (k + 1) + (e + x) + (m + 1) /\ ge[k + 1] = e + x
      BY ONLY <2>2, <2>3, <2>4, <2>5, <2>6, <3>2, k \in Nat
    <3>5. Cardinality(C(k + 1)) = m + 1 /\ IsFiniteSet(C(k + 1))
      BY ONLY <3>1, <3>3, Zenon
    <3> QED
      BY ONLY <2>4, <2>5, <2>6, <3>4, <3>5
  <2>8. CASE ~(Place(rem, n, k + 1) < c)
    <3>1. C(k + 1) = C(k)
      BY ONLY <2>8, k \in Nat
    <3>2. alloc[k + 1] = 3 + x + 0
      BY <2>1, <2>4, <2>8
    <3> HIDE DEF C
    <3>3. ga[k + 1] = 3 * (k + 1) + (e + x) + m /\ ge[k + 1] = e + x
      BY ONLY <2>2, <2>3, <2>4, <2>5, <2>6, <3>2, k \in Nat
    <3> QED
      BY <2>3, <2>6, <3>1, <3>3
  <2> QED
    BY <2>7, <2>8
<1>7. n \in S
  BY <1>5, <1>6, SetInduction
<1>8. Cardinality(C(n)) = c
  BY PlacesTaken
<1> HIDE DEF C
<1> QED
  BY <1>4, <1>7, <1>8

LEMMA Tabulated ==
  ASSUME NEW n \in Nat, NEW S, NEW f \in [1 .. n -> S]
  PROVE  f \in Seq(S) /\ Len(f) = n
  OBVIOUS

(* Every GPU gets enough for a kangaroo of every type, and together they get the
   budget, whatever the weights. *)
LEMMA AllocationIsWhole ==
  ASSUME NEW budget \in Nat, NEW ws \in Seq(Nat), Len(ws) >= 1, budget >= 3 * Len(ws)
  PROVE  /\ AllocateWeightedKangaroos(budget, ws) \in [1 .. Len(ws) -> Nat]
         /\ \A i \in 1 .. Len(ws) : AllocateWeightedKangaroos(budget, ws)[i] >= 3
         /\ TotalOf(AllocateWeightedKangaroos(budget, ws)) = budget
<1> DEFINE n == Len(ws)
           R == budget - MinPerGpu * n
           w == [i \in DOMAIN ws |-> IF ws[i] > 1 THEN ws[i] ELSE 1]
           T == TotalOf(w)
           extra == [i \in DOMAIN ws |-> (R * w[i]) \div T]
           rem == [i \in DOMAIN ws |-> (R * w[i]) % T]
           c == R - TotalOf(extra)
           alloc == AllocateWeightedKangaroos(budget, ws)
           even == [i \in DOMAIN ws |-> 3]
           ahead(i) == {j \in DOMAIN ws : rem[j] > rem[i] \/ (rem[j] = rem[i] /\ j < i)}
           shared == [i \in DOMAIN ws |-> 3 + extra[i]
                                            + (IF Cardinality(ahead(i)) < c THEN 1 ELSE 0)]
<1>1. n \in Nat /\ n >= 1 /\ DOMAIN ws = 1 .. n /\ R \in Nat
  BY DEF MinPerGpu
<1>2. alloc = IF R <= 0 THEN even ELSE shared
  BY DEF AllocateWeightedKangaroos, MinPerGpu
<1>3. w \in [1 .. n -> Nat \ {0}]
  BY <1>1
<1>4. Len(w) = n /\ Numbers(w)
  BY <1>1, <1>3, Tabulated DEF Numbers
<1> HIDE DEF alloc
<1>5. CASE R <= 0
  <2>1. even \in [1 .. n -> Nat] /\ \A i \in 1 .. n : even[i] = 3
    BY <1>1
  <2>2. Len(even) = n
    BY <1>1, <2>1, Tabulated
  <2>3. IsSum([k \in 0 .. n |-> 3 * k], even)
    BY <1>1, <2>1, <2>2 DEF IsSum
  <2>4. TotalOf(even) = 3 * n
    <3>1. Numbers(even)
      BY <1>1, <2>1, <2>2 DEF Numbers
    <3>2. [k \in 0 .. n |-> 3 * k][n] = 3 * n
      BY <1>1
    <3> HIDE DEF even
    <3> QED
      BY <2>2, <2>3, <3>1, <3>2, TotalOfSum
  <2>5. 3 * n = budget
    BY <1>1, <1>5 DEF MinPerGpu
  <2> HIDE DEF even
  <2> QED
    BY <1>2, <1>5, <2>1, <2>4, <2>5 DEF alloc
<1>6. CASE ~(R <= 0)
  <2>1. T \in Nat /\ T >= 1
    <3>1. PICK g : IsSum(g, w)
      BY <1>4, SumExists
    <3> DEFINE S == {k \in Nat : k <= n => g[k] \in Int /\ g[k] >= k}
    <3>2. 0 \in S
      BY <3>1 DEF IsSum
    <3>3. ASSUME NEW k \in Nat, k \in S PROVE k + 1 \in S
      <4> SUFFICES ASSUME k + 1 <= n PROVE g[k + 1] \in Int /\ g[k + 1] >= k + 1
        OBVIOUS
      <4>1. k + 1 \in 1 .. n /\ (k + 1) - 1 = k
        BY <1>1
      <4>2. g[k + 1] = g[k] + w[k + 1]
        BY <1>4, <3>1, <4>1 DEF IsSum
      <4>3. g[k] \in Int /\ g[k] >= k
        BY <1>1, <3>3
      <4>4. w[k + 1] \in Nat \ {0}
        BY <1>3, <4>1
      <4> HIDE DEF w
      <4> QED
        BY <4>2, <4>3, <4>4
    <3>4. n \in S
      BY <1>1, <3>2, <3>3, SetInduction
    <3>5. T = g[n]
      BY <1>4, <3>1, TotalOfSum
    <3> QED
      BY <1>1, <3>4, <3>5
  <2> HIDE DEF T, R
  <2>2. ASSUME NEW i \in 1 .. n
        PROVE  extra[i] \in Nat /\ rem[i] \in 0 .. T - 1 /\ R * w[i] = T * extra[i] + rem[i]
    <3>1. w[i] \in Nat
      BY <1>3
    <3> HIDE DEF w
    <3>2. PICK p \in Nat : p = R * w[i]
      BY <1>1, <3>1
    <3>3. p \div T \in Nat /\ p % T \in 0 .. T - 1 /\ p = T * (p \div T) + (p % T)
      <4>1. p \in Int /\ p >= 0 /\ T \in Nat /\ T >= 1
        BY <2>1
      <4> QED
        BY ONLY <4>1, Division
    <3> QED
      BY <1>1, <3>2, <3>3
  <2>3. extra \in [1 .. n -> Nat] /\ rem \in [1 .. n -> 0 .. T - 1]
    BY <1>1, <2>2
  <2>4. Len(extra) = n /\ Len(rem) = n
    BY <1>1, <2>3, Tabulated
  <2>5. \A i \in 1 .. n : w[i] \in Nat
    BY <1>3
  <2>6. T = TotalOf(w)
    BY DEF T
  <2> HIDE DEF extra, rem, w
  <2>7. R - TotalOf(extra) \in 0 .. n - 1
    <3>1. Divided(n, R, T, w, extra, rem)
      BY <1>4, <2>2, <2>4, <2>5, <2>6 DEF Divided
    <3> HIDE DEF n
    <3> QED
      BY <1>1, <2>1, <3>1, LeftoversBounds
  <2>8. PICK e \in Int : e = TotalOf(extra)
    <3>1. Numbers(extra)
      BY <1>1, <2>2, <2>4 DEF Numbers
    <3> QED
      BY <3>1, SumExists, TotalOfSum
  <2>9. c \in 0 .. n /\ c = R - e
    BY <1>1, <2>7, <2>8
  <2>10. \A i \in 1 .. n : Cardinality(ahead(i)) = Place(rem, n, i)
    BY <1>1 DEF Place, Ahead
  <2> HIDE DEF c, ahead
  <2>11. ASSUME NEW i \in 1 .. n
         PROVE  /\ shared[i] = 3 + extra[i] + (IF Place(rem, n, i) < c THEN 1 ELSE 0)
                /\ shared[i] \in Nat /\ shared[i] >= 3
    <3>1. shared[i] = 3 + extra[i] + (IF Place(rem, n, i) < c THEN 1 ELSE 0)
      BY <1>1, <2>10
    <3>2. PICK x \in Nat : x = extra[i]
      BY <2>2
    <3>3. shared[i] = 3 + x + 1 \/ shared[i] = 3 + x + 0
      BY <3>1, <3>2
    <3>4. shared[i] \in Nat /\ shared[i] >= 3
      BY ONLY <3>2, <3>3
    <3> QED
      BY <3>1, <3>4
  <2>12. shared \in [1 .. n -> Nat]
    BY <1>1, <2>11
  <2>13. Len(shared) = n
    BY <1>1, <2>12, Tabulated
  <2> HIDE DEF shared
  <2>14. TotalOf(shared) = 3 * n + e + c
    <3>1. \A i \in 1 .. n : rem[i] \in Int
      BY <2>1, <2>2
    <3>2. SharedOut(n, extra, rem, c, shared)
      BY <2>2, <2>4, <2>11, <2>13, <3>1 DEF SharedOut
    <3> HIDE DEF n
    <3> QED
      BY <1>1, <2>8, <2>9, <3>2, SharesAddUp
  <2>15. 3 * n + e + c = budget
    BY <1>1, <2>9 DEF R, MinPerGpu
  <2> QED
    BY <1>2, <1>6, <2>11, <2>12, <2>14, <2>15 DEF alloc
<1> QED
  BY <1>5, <1>6

(* A herd of three or more has kangaroos of every type. *)
LEMMA HerdHasAllTypes ==
  ASSUME NEW num \in Nat, num >= 3
  PROVE  {KTypeOf("both", i, num) : i \in 0 .. num - 1} = KType
<1>1. PICK t \in Nat : t = num \div 3
  OBVIOUS
<1>2. t >= 1 /\ 3 * t <= num
  BY <1>1
<1>3. \A i : KTypeOf("both", i, num) = IF i < t THEN Tame ELSE IF i < 2 * t THEN Wild1 ELSE Wild2
  BY <1>1 DEF KTypeOf
<1>4. 0 \in 0 .. num - 1 /\ t \in 0 .. num - 1 /\ 2 * t \in 0 .. num - 1
  BY <1>2
<1>5. /\ KTypeOf("both", 0, num) = Tame
      /\ KTypeOf("both", t, num) = Wild1
      /\ KTypeOf("both", 2 * t, num) = Wild2
  BY <1>2, <1>3
<1> QED
  BY <1>3, <1>4, <1>5 DEF KType

-----------------------------------------------------------------------------
(* The grid. *)

LEMMA JitterIsSmall ==
  ASSUME NEW g \in Word, NEW delta \in Nat, delta >= 1
  PROVE  Jitter(g, delta) \in 0 .. delta - 1
<1>1. PICK c \in Nat : c = AtLeastOne(delta \div 2)
  BY DEF AtLeastOne
<1>2. c >= 1 /\ c <= delta
  BY <1>1 DEF AtLeastOne
<1>3. HashSeed[g] \in Nat
  BY SeedAssumption, ModuliAssumption DEF Word
<1>4. HashSeed[g] % c \in 0 .. c - 1
  BY <1>2, <1>3
<1> QED
  BY <1>1, <1>2, <1>4 DEF Jitter

LEMMA OffsetWithin ==
  ASSUME NEW r \in Nat, NEW g \in Word, NEW count \in Nat
  PROVE  Offset(r, g, count) \in 0 .. TwoTo[r] - 1
<1>1. PICK s \in Nat : s = TwoTo[r] /\ s >= 1
  BY TwoToBounds
<1>2. PICK delta \in Nat : delta = GridDelta(r, count) /\ delta >= 1
  <2>1. PICK c \in Nat : c = AtLeastOne(count) /\ c >= 1
    BY DEF AtLeastOne
  <2>2. s \div c \in Nat
    BY <2>1
  <2> QED
    BY <1>1, <2>1, <2>2 DEF GridDelta, AtLeastOne
<1>3. Jitter(g, delta) \in Nat
  BY <1>2, JitterIsSmall
<1>4. (g * delta) % W \in Nat
  <2>1. g * delta \in Nat /\ W \in Nat /\ W >= 1
    BY ModuliAssumption DEF Word
  <2> QED
    BY <2>1
<1>5. Offset(r, g, count) = (((g * delta) % W) + Jitter(g, delta)) % s
  BY <1>1, <1>2 DEF Offset
<1> QED
  BY <1>1, <1>3, <1>4, <1>5

(* With room for all, each kangaroo stays in a cell of its own. *)
LEMMA OffsetsDiffer ==
  ASSUME NEW r \in Nat, TwoTo[r] < W, NEW count \in Nat, count <= TwoTo[r],
         NEW g \in 0 .. count - 1, NEW h \in 0 .. count - 1,
         Offset(r, g, count) = Offset(r, h, count)
  PROVE  g = h
<1>1. PICK s \in Nat : s = TwoTo[r] /\ s < W /\ count <= s
  BY TwoToBounds
<1>2. PICK delta \in Nat : delta = GridDelta(r, count) /\ delta >= 1 /\ delta * count <= s
  <2>1. AtLeastOne(count) = count /\ count >= 1
    BY DEF AtLeastOne
  <2>2. s \div count \in Nat /\ s % count \in 0 .. count - 1
        /\ s = count * (s \div count) + (s % count)
    <3>1. s \in Int /\ s >= 0 /\ count \in Nat /\ count >= 1
      BY <2>1
    <3> QED
      BY ONLY <3>1, Division
  <2>3. PICK d \in Nat, m \in 0 .. count - 1 : d = s \div count /\ s = count * d + m
    BY <2>2
  <2>4. d # 0
    BY <1>1, <2>3
  <2>5. GridDelta(r, count) = d
    BY <1>1, <2>1, <2>3, <2>4 DEF GridDelta, AtLeastOne
  <2>6. d * count <= s
    <3>1. PICK p \in Int : p = count * d
      OBVIOUS
    <3>2. d * count = p
      BY <3>1
    <3> QED
      BY <2>3, <3>1, <3>2
  <2> QED
    BY <2>4, <2>5, <2>6
<1>3. ASSUME NEW i \in 0 .. count - 1
      PROVE  /\ Jitter(i, delta) \in 0 .. delta - 1
             /\ Offset(r, i, count) = delta * i + Jitter(i, delta)
  <2>1. i \in Word
    BY <1>1, ModuliAssumption DEF Word
  <2>2. Jitter(i, delta) \in 0 .. delta - 1
    BY <1>2, <2>1, JitterIsSmall
  <2>3. PICK j \in 0 .. delta - 1 : j = Jitter(i, delta)
    BY <2>2
  <2>4. PICK p \in Nat : p = i * delta /\ p = delta * i
    OBVIOUS
  <2>5. p + delta <= s
    <3>1. \A x, y \in Nat : x <= y => delta * x <= delta * y
      OBVIOUS
    <3>2. delta * (i + 1) <= delta * count
      BY <3>1
    <3>3. delta * (i + 1) = p + delta
      BY <2>4
    <3>4. delta * count \in Nat
      OBVIOUS
    <3> QED
      BY <1>2, <3>2, <3>3, <3>4
  <2>6. p \in 0 .. W - 1 /\ p + j \in 0 .. s - 1 /\ s >= 1 /\ W \in Nat
    BY <1>1, <1>2, <2>5, ModuliAssumption
  <2>7. p % W = p /\ (p + j) % s = p + j
    BY ONLY <2>6, p \in Nat, j \in Int, s \in Nat
  <2>8. Offset(r, i, count) = (((i * delta) % W) + Jitter(i, delta)) % s
    BY <1>1, <1>2 DEF Offset
  <2> QED
    BY <2>2, <2>3, <2>4, <2>7, <2>8
<1>4. PICK j \in 0 .. delta - 1, k \in 0 .. delta - 1 : delta * g + j = delta * h + k
  BY <1>3
<1>5. (delta * g + j) \div delta = g /\ (delta * h + k) \div delta = h
  <2>1. delta \in Nat /\ delta >= 1 /\ g \in Int /\ h \in Int
    BY <1>2
  <2> QED
    BY ONLY <2>1, j \in 0 .. delta - 1, k \in 0 .. delta - 1, DivisionUnique
<1> QED
  BY <1>4, <1>5

-----------------------------------------------------------------------------
(* Points and distances. *)

LEMMA DistanceReduced ==
  ASSUME NEW a \in Int, NEW b \in Int, NEW v \in Int
  PROVE  (a + b * (v % N)) % N = (a + b * v) % N /\ v % N \in Int
<1>1. PICK q \in Int, r \in Int : r = v % N /\ v = N * q + r
  <2>1. v \div N \in Int /\ v % N \in Int /\ v = N * (v \div N) + (v % N)
    BY DivMod, ModuliAssumption DEF Scalar
  <2> QED
    BY <2>1
<1>2. N \in Int
  BY ModuliAssumption
<1>3. b * v = N * (b * q) + b * r
  BY <1>1, <1>2
<1>4. PICK x \in Int, y \in Int : x = b * q /\ y = b * r
  BY <1>1
<1>5. a + b * v = (a + y) + N * x /\ a + y \in Int
  BY <1>2, <1>3, <1>4
<1>6. (a + b * v) % N = (a + y) % N
  BY <1>5, <1>4, ModAddMultiple
<1> QED
  BY <1>1, <1>4, <1>6

(* The point is the origin's and the distance's, read one of the two ways. *)
IsNamed(log, dist, origin, base) ==
  \E d \in DistanceScalarPair(dist) : log = (origin + base * d) % N

LEMMA TameNames ==
  ASSUME NEW from \in Nat, NEW offset \in Nat, NEW base \in Nat, from + offset < W
  PROVE  IsNamed(TameAt(from, offset, base).log, TameAt(from, offset, base).dist,
                base * from, base)
<1>1. (from + offset) % W = from + offset
  BY ModuliAssumption
<1>2. base * (from + offset) = base * from + base * offset /\ base * from \in Int
  OBVIOUS
<1>3. TameAt(from, offset, base).log = (base * from + base * offset) % N
  BY <1>1, <1>2 DEF TameAt
<1>4. (base * from + base * (offset % N)) % N = (base * from + base * offset) % N
  BY <1>2, DistanceReduced
<1>5. offset % N \in DistanceScalarPair(offset) /\ TameAt(from, offset, base).dist = offset
  BY DEF DistanceScalarPair, TameAt
<1> QED
  BY <1>3, <1>4, <1>5 DEF IsNamed

LEMMA WildNames ==
  ASSUME NEW origin \in Int, NEW offset \in Nat, NEW middle \in Nat, NEW base \in Nat, middle < W
  PROVE  IsNamed(WildAt(origin, offset, middle, base).log,
                WildAt(origin, offset, middle, base).dist, origin, base)
<1>1. CASE offset >= middle
  <2>1. PICK v \in Nat : v = offset - middle
    BY <1>1
  <2>2. /\ WildAt(origin, offset, middle, base).log = (origin + base * v) % N
        /\ WildAt(origin, offset, middle, base).dist = v
    BY <1>1, <2>1 DEF WildAt
  <2>3. (origin + base * (v % N)) % N = (origin + base * v) % N
    BY DistanceReduced
  <2>4. v % N \in DistanceScalarPair(v)
    BY DEF DistanceScalarPair
  <2> QED
    BY <2>2, <2>3, <2>4 DEF IsNamed
<1>2. CASE ~(offset >= middle)
  <2>1. PICK v \in Nat : v = middle - offset /\ v >= 1 /\ v < W
    BY <1>2, ModuliAssumption
  <2>2. /\ WildAt(origin, offset, middle, base).log = (origin - base * v) % N
        /\ WildAt(origin, offset, middle, base).dist = NegateU256(v)
    BY <1>2, <2>1 DEF WildAt
  <2>3. NegateU256(NegateU256(v)) = v
    <3>1. W - v \in 0 .. W - 1 /\ W - (W - v) = v /\ v \in 0 .. W - 1 /\ W \in Nat
      BY <2>1, ModuliAssumption
    <3>2. (W - v) % W = W - v /\ v % W = v
      BY ONLY <3>1, v \in Nat
    <3> QED
      BY <3>1, <3>2 DEF NegateU256
  <2>4. (-v) % N \in DistanceScalarPair(NegateU256(v))
    BY <2>3 DEF DistanceScalarPair
  <2>5. (origin + base * ((-v) % N)) % N = (origin + base * (-v)) % N
    BY <2>1, DistanceReduced
  <2>6. origin + base * (-v) = origin - base * v
    BY <2>1
  <2> QED
    BY <2>2, <2>4, <2>5, <2>6 DEF IsNamed
<1> QED
  BY <1>1, <1>2

LEMMA StartNames ==
  ASSUME NEW p, p.base \in Nat, p.pubkey \in Nat, p.start \in Nat,
         p.rangeBits \in Nat \ {0}, TwoTo[p.rangeBits] < W,
         p.start + TwoTo[p.rangeBits] <= W,
         NEW mode, NEW num, NEW i \in Nat, NEW first \in Nat, first + i \in Word,
         NEW count \in Nat
  PROVE  LET k == Kangaroo(p, mode, i, num, first, count)
         IN IsNamed(k.log, k.dist, OriginOf(k.ktype, p.base * p.start, p.pubkey), p.base)
<1> DEFINE ktype == KTypeOf(mode, i, num)
           offset == Offset(p.rangeBits, first + i, count)
           middle == TwoTo[p.rangeBits - 1]
           origin == IF ktype = Wild1 THEN p.pubkey ELSE -p.pubkey
           k == Kangaroo(p, mode, i, num, first, count)
<1>1. PICK s \in Nat : s = TwoTo[p.rangeBits]
  BY TwoToDef
<1>2. offset \in 0 .. s - 1
  <2>1. \A g \in Word : Offset(p.rangeBits, g, count) \in 0 .. s - 1
    BY <1>1, OffsetWithin
  <2> QED
    BY <2>1
<1>3. middle \in Nat /\ middle <= s
  <2>1. PICK e \in Nat : p.rangeBits - 1 = e /\ p.rangeBits = e + 1
    OBVIOUS
  <2>2. TwoTo[e + 1] = 2 * TwoTo[e] /\ TwoTo[e] \in Nat
    BY TwoToDef
  <2> QED
    BY <1>1, <2>1, <2>2
<1>4. k.ktype = ktype
  BY DEF Kangaroo
<1>5. CASE ktype = Tame
  <2>1. k.log = TameAt(p.start, offset, p.base).log /\ k.dist = TameAt(p.start, offset, p.base).dist
    BY <1>5 DEF Kangaroo
  <2>2. OriginOf(k.ktype, p.base * p.start, p.pubkey) = p.base * p.start
    BY <1>4, <1>5 DEF OriginOf
  <2> HIDE DEF offset, k, ktype
  <2>3. offset \in Nat /\ p.start + offset < W
    BY <1>1, <1>2, ModuliAssumption
  <2>4. IsNamed(TameAt(p.start, offset, p.base).log, TameAt(p.start, offset, p.base).dist,
               p.base * p.start, p.base)
    BY <2>3, TameNames
  <2> QED
    BY <2>1, <2>2, <2>4 DEF k
<1>6. CASE ktype # Tame
  <2>1. /\ k.log = WildAt(origin, offset, middle, p.base).log
        /\ k.dist = WildAt(origin, offset, middle, p.base).dist
    BY <1>6 DEF Kangaroo
  <2>2. OriginOf(k.ktype, p.base * p.start, p.pubkey) = origin /\ origin \in Int
    BY <1>4, <1>6 DEF OriginOf
  <2> HIDE DEF offset, k, ktype, middle, origin
  <2>3. offset \in Nat /\ middle < W
    BY <1>1, <1>2, <1>3, ModuliAssumption
  <2>4. IsNamed(WildAt(origin, offset, middle, p.base).log,
               WildAt(origin, offset, middle, p.base).dist, origin, p.base)
    BY <1>3, <2>2, <2>3, WildNames
  <2> QED
    BY <2>1, <2>2, <2>4 DEF k
<1> QED
  BY <1>5, <1>6

-----------------------------------------------------------------------------
(* What a launch is asked for, and the problem it becomes. *)

LEMMA ArgumentTypes ==
  ASSUME NEW a \in Arguments
  PROVE  /\ a.kangaroos \in Nat \cup {Nothing} /\ a.mode \in {"both", "tame", "wild"}
         /\ a.target = NoTarget \/ a.target \in [first : Word, last : Word]
         /\ a.start \in Word \cup {Nothing} /\ a.range \in Nat \cup {Nothing}
         /\ a.step \in Limb /\ a.rest \in Limb /\ a.key \in Nat
         /\ a.machine \in Seq(Adapter)
<1> DEFINE M == Seq({b \in Adapter : b.id # NoDevice})
<1>1. \A m \in M : m \in Seq(Adapter)
  OBVIOUS
<1>2. a.machine \in M
  BY DEF Arguments
<1> HIDE DEF M
<1>3. a.machine \in Seq(Adapter)
  BY <1>1, <1>2
<1> QED
  BY <1>3 DEF Arguments

LEMMA BitsOfValue ==
  ASSUME NEW n \in Nat
  PROVE  BitsOf(n) \in Nat /\ n < TwoTo[BitsOf(n)]
BY BitsExist DEF BitsOf

(* Arguments that are not refused. *)
Accepted(a) == a \in Arguments /\ ~OutOfBounds(a) /\ ~Refused(a.step, a.rest)

LEMMA AcceptedRange ==
  ASSUME NEW a, Accepted(a)
  PROVE  /\ StartOf(a) \in Word /\ RangeBitsOf(a) \in Nat
         /\ a.target # NoTarget /\ a.range = Nothing =>
              a.target.last \in Word /\ a.target.last < StartOf(a) + TwoTo[RangeBitsOf(a)]
<1> DEFINE t == a.target
<1>1. /\ t = NoTarget \/ (t.first \in Word /\ t.last \in Word)
      /\ a.start \in Word \cup {Nothing} /\ a.range \in Nat \cup {Nothing}
  BY ArgumentTypes DEF Accepted
<1>2. StartOf(a) \in Word
  <2>1. 0 \in Word
    BY ModuliAssumption DEF Word
  <2> QED
    BY <1>1, <2>1 DEF StartOf
<1>3. CASE a.range # Nothing
  BY <1>1, <1>2, <1>3 DEF RangeBitsOf
<1>4. CASE a.range = Nothing /\ t = NoTarget
  BY <1>2, <1>4, LaunchAssumption DEF RangeBitsOf
<1>5. CASE a.range = Nothing /\ t # NoTarget
  <2>1. ~(StartOf(a) > t.last)
    BY <1>5 DEF Accepted, OutOfBounds
  <2>2. PICK last \in Nat, from \in Nat : last = t.last /\ from = StartOf(a)
    BY <1>1, <1>2, <1>5, ModuliAssumption DEF Word
  <2>3. PICK size \in Nat : size = last - from + 1
    BY <2>1, <2>2
  <2>4. BitsOf(size) \in Nat /\ size < TwoTo[BitsOf(size)]
    BY BitsOfValue
  <2>5. RangeBitsOf(a) = BitsOf(size)
    BY <1>5, <2>2, <2>3 DEF RangeBitsOf
  <2>6. PICK w \in Nat : w = TwoTo[RangeBitsOf(a)]
    BY <2>4, <2>5, TwoToDef
  <2>7. last < from + w
    BY <2>3, <2>4, <2>5, <2>6
  <2> QED
    BY <1>1, <1>2, <1>5, <2>2, <2>4, <2>5, <2>6, <2>7
<1> QED
  BY <1>3, <1>4, <1>5

LEMMA AcceptedConstraint ==
  ASSUME NEW a, Accepted(a)
  PROVE  a.step \in Limb /\ a.step # 0 /\ a.rest \in 0 .. a.step - 1 /\ a.key % N \in Nat
<1>1. a.step \in Limb /\ a.rest \in Limb /\ a.key \in Int
  BY ArgumentTypes DEF Accepted
<1>2. a.step # 0 /\ ~(a.rest >= a.step)
  BY DEF Accepted, Refused
<1>3. a.key % N \in Scalar
  BY <1>1, DivMod
<1> QED
  BY <1>1, <1>2, <1>3, LimbAssumption DEF Limb, Scalar

LEMMA ProblemType ==
  ASSUME NEW a, Accepted(a)
  PROVE  /\ Problem(a).base \in Nat /\ Problem(a).pubkey \in Nat
         /\ Problem(a).start \in Nat /\ Problem(a).rangeBits \in Nat
<1> DEFINE p == Transformed(a.step, a.rest, a.key % N, Limbs(StartOf(a)), RangeBitsOf(a))
<1>1. /\ p = [base |-> p.base, pubkey |-> p.pubkey, start |-> p.start, rangeBits |-> p.rangeBits]
      /\ p.base \in Nat /\ p.pubkey \in Nat /\ Value(p.start) \in Nat /\ p.rangeBits \in Nat
  BY AcceptedRange, AcceptedConstraint, TransformedType
<1>2. Problem(a) = [p EXCEPT !.start = Value(@)]
  BY DEF Problem
<1> HIDE DEF p
<1>3. PICK b, q, f, r : p = [base |-> b, pubkey |-> q, start |-> f, rangeBits |-> r]
  BY <1>1
<1> QED
  BY <1>1, <1>2, <1>3

LEMMA ProblemHolds ==
  ASSUME NEW a, Accepted(a), a.target # NoTarget, a.range = Nothing,
         NEW k \in StartOf(a) .. a.target.last, k % a.step = a.rest
  PROVE  (k - a.rest) \div a.step
           \in Problem(a).start .. Problem(a).start + TwoTo[Problem(a).rangeBits] - 1
<1> DEFINE p == Transformed(a.step, a.rest, a.key % N, Limbs(StartOf(a)), RangeBitsOf(a))
<1>1. /\ StartOf(a) \in Word /\ RangeBitsOf(a) \in Nat
      /\ a.target.last \in Word /\ a.target.last < StartOf(a) + TwoTo[RangeBitsOf(a)]
  BY AcceptedRange
<1>2. PICK w \in Nat : w = TwoTo[RangeBitsOf(a)]
  BY <1>1, TwoToDef
<1>3. k \in Nat /\ k >= StartOf(a) /\ k < StartOf(a) + TwoTo[RangeBitsOf(a)]
  <2>1. PICK from \in Nat, last \in Nat : from = StartOf(a) /\ last = a.target.last
    BY <1>1, ModuliAssumption DEF Word
  <2>2. last < from + w
    BY <1>1, <1>2, <2>1
  <2>3. k \in from .. last
    BY <2>1
  <2>4. k \in Nat /\ k >= from /\ k < from + w
    BY ONLY <2>2, <2>3, from \in Nat, last \in Nat, w \in Nat
  <2> QED
    BY <1>2, <2>1, <2>4
<1>4. a.step \in Limb /\ a.step # 0 /\ a.rest \in 0 .. a.step - 1
  BY AcceptedConstraint
<1>5. (k - a.rest) \div a.step \in Value(p.start) .. Value(p.start) + TwoTo[p.rangeBits] - 1
  BY <1>1, <1>3, <1>4, TransformedHolds
<1>6. p = [base |-> p.base, pubkey |-> p.pubkey, start |-> p.start, rangeBits |-> p.rangeBits]
  BY AcceptedRange, AcceptedConstraint, TransformedType
<1>7. Problem(a) = [p EXCEPT !.start = Value(@)]
  BY DEF Problem
<1> HIDE DEF p
<1>8. PICK b, q, f, r : p = [base |-> b, pubkey |-> q, start |-> f, rangeBits |-> r]
  BY <1>6
<1>9. Problem(a).start = Value(p.start) /\ Problem(a).rangeBits = p.rangeBits
  BY <1>7, <1>8
<1> QED
  BY <1>5, <1>9

Stages == {"off", "select", "benchmark", "openOne", "openAll", "single", "budget",
           "calibrate", "build", "search"}

(* A launch goes on with arguments that are not refused, and with their problem;
   of a benchmark nothing is asked. *)
Tasks == {<<a, Problem(a)>> : a \in {b \in Arguments : ~b.benchmark /\ Accepted(b)}}

LEMMA TaskIsAccepted ==
  ASSUME NEW a, NEW p, <<a, p>> \in Tasks
  PROVE  a \in Arguments /\ ~a.benchmark /\ Accepted(a) /\ p = Problem(a)
BY DEF Tasks

Asked ==
  /\ pc \in Stages /\ launches \in Nat
  /\ pc # "off" =>
       \/ args \in Arguments /\ args.benchmark /\ pc \in {"select", "benchmark"}
       \/ pc # "benchmark" /\ <<args, problem>> \in Tasks

LEMMA InitAsked == Init => Asked
BY DEF Init, Asked, Stages

LEMMA NextAsked == Asked /\ [Next]_vars => Asked'
<1> SUFFICES ASSUME Asked, [Next]_vars PROVE Asked'
  OBVIOUS
<1> USE DEF setup, disk, Stages
<1>1. ASSUME NoProcess, launches' \in Nat PROVE Asked'
  BY <1>1 DEF NoProcess, Asked
<1>2. CASE Start
  <2>1. launches' \in Nat /\ launches' \in 1 .. Len(Invocations)
    BY <1>2, InvocationsAssumption DEF Start, Asked, MaxLaunches
  <2>2. PICK a \in Invocations[launches'] :
          IF ~a.benchmark /\ (OutOfBounds(a) \/ Refused(a.step, a.rest))
          THEN NoProcess
          ELSE /\ pc' = "select" /\ args' = a
               /\ problem' = IF a.benchmark THEN NoProblem ELSE Problem(a)
    BY <1>2, Zenon DEF Start
  <2>3. a \in Arguments
    <3>1. Invocations[launches'] \in SUBSET Arguments
      BY <2>1, InvocationsAssumption
    <3> QED
      BY <3>1
  <2>4. CASE NoProcess
    BY <1>1, <2>1, <2>4
  <2>5. CASE a.benchmark /\ pc' = "select" /\ args' = a
    BY <2>1, <2>3, <2>5 DEF Asked
  <2>6. CASE /\ ~a.benchmark /\ ~OutOfBounds(a) /\ ~Refused(a.step, a.rest)
             /\ pc' = "select" /\ args' = a /\ problem' = Problem(a)
    <3>1. <<a, Problem(a)>> \in Tasks
      BY <2>3, <2>6 DEF Tasks, Accepted
    <3> QED
      BY <2>1, <2>6, <3>1 DEF Asked
  <2> QED
    BY <2>2, <2>4, <2>5, <2>6
<1>3. CASE UNCHANGED <<args, problem, launches>> /\ pc' \in Stages \ {"off"} /\ pc # "off"
           /\ (pc' = "benchmark" => args.benchmark)
           /\ (pc' \notin {"select", "benchmark"} => ~args.benchmark)
  BY <1>3, TaskIsAccepted DEF Asked
<1>4. CASE NoProcess /\ UNCHANGED launches
  BY <1>1, <1>4 DEF Asked
<1>5. CASE OpenDefault
  BY <1>3, <1>4, <1>5 DEF OpenDefault, Exit
<1>6. CASE Select
  <2>1. \/ Exit
        \/ /\ pc = "select" /\ UNCHANGED <<setup, disk>>
           /\ pc' = IF args.benchmark THEN "benchmark"
                    ELSE IF Len(selected') = 1 THEN "openOne" ELSE "openAll"
    BY <1>6, Zenon DEF Select
  <2> QED
    BY <1>3, <1>4, <2>1 DEF Exit, Asked
<1>7. CASE OpenForBenchmark
  BY <1>3, <1>4, <1>7 DEF OpenForBenchmark, Exit, Asked
<1>8. CASE OpenOne
  BY <1>3, <1>4, <1>8 DEF OpenOne, Exit, Asked
<1>9. CASE OpenNext
  <2>1. \/ Exit
        \/ /\ pc = "openAll" /\ UNCHANGED <<setup, disk>>
           /\ pc' = IF selected' = << >> THEN "budget" ELSE pc
    BY <1>9, Zenon DEF OpenNext
  <2> QED
    BY <1>3, <1>4, <2>1 DEF Exit, Asked
<1>10. CASE StartSingle
  BY <1>3, <1>4, <1>10 DEF StartSingle, Exit, Asked
<1>11. CASE Budget
  BY <1>3, <1>4, <1>11 DEF Budget, Exit, Asked
<1>12. CASE Calibrate
  BY <1>3, <1>4, <1>12 DEF Calibrate, Exit, Asked
<1>13. CASE SaveCalibrationCache
  BY <1>3, <1>4, <1>13 DEF SaveCalibrationCache, Exit, Asked
<1>14. CASE Build
  BY <1>3, <1>4, <1>14 DEF Build, Exit, Asked
<1>15. CASE Stop
  BY <1>4, <1>15 DEF Stop
<1>16. CASE UNCHANGED vars
  BY <1>16 DEF vars, Asked
<1> QED
  BY <1>2, <1>5, <1>6, <1>7, <1>8, <1>9, <1>10, <1>11, <1>12, <1>13, <1>14, <1>15, <1>16 DEF Next

(* The whole range of a puzzle is searched: what run() hands to the solvers, with a
   constraint or without, holds every key of the class from the start to the
   puzzle's end. *)
THEOREM PuzzlesAreCovered == Spec => []PuzzleIsCovered
<1>1. Asked => PuzzleIsCovered
  <2> SUFFICES ASSUME Asked, pc # "off", ~args.benchmark, args.target # NoTarget,
                      args.range = Nothing,
                      NEW k \in StartOf(args) .. args.target.last, k % args.step = args.rest
               PROVE  (k - args.rest) \div args.step
                        \in problem.start .. problem.start + TwoTo[problem.rangeBits] - 1
    BY DEF PuzzleIsCovered
  <2>1. Accepted(args) /\ problem = Problem(args)
    BY TaskIsAccepted DEF Asked
  <2> QED
    BY <2>1, ProblemHolds
<1> QED
  BY <1>1, InitAsked, NextAsked, PTL DEF Spec

-----------------------------------------------------------------------------
(* The contexts that are opened. *)

AnyContext(I) == [index : I, adapter : Adapter, id : Nat]

HasContexts == {"single", "budget", "calibrate", "build", "search"}

Opening ==
  /\ \E I : contexts \in Seq(AnyContext(I))
  /\ pc \in HasContexts => contexts # << >>

LEMMA OpenedType ==
  ASSUME Asked, pc # "off", NEW index, NEW id, NEW opened \in Opened(index, id)
  PROVE  \E c \in AnyContext({index}) : opened = <<c>>
<1>1. args.machine \in Seq(Adapter)
  BY ArgumentTypes, TaskIsAccepted DEF Asked
<1>2. PICK i \in DOMAIN args.machine :
        args.machine[i].id = id /\ opened = <<Context(index, args.machine[i], id)>>
  BY DEF Opened
<1>3. args.machine[i] \in Adapter
  BY <1>1
<1>4. Context(index, args.machine[i], id) \in AnyContext({index})
  BY <1>2, <1>3 DEF Context, AnyContext, Adapter
<1> QED
  BY <1>2, <1>4

LEMMA ContextsGrow ==
  ASSUME NEW I, NEW J, NEW s \in Seq(AnyContext(I)), NEW c \in AnyContext(J)
  PROVE  /\ s \o <<c>> \in Seq(AnyContext(I \cup J)) /\ s \o <<c>> # << >>
         /\ <<c>> \in Seq(AnyContext(J)) /\ <<c>> # << >>
<1>1. AnyContext(I) \subseteq AnyContext(I \cup J) /\ c \in AnyContext(I \cup J)
  BY DEF AnyContext
<1>2. \A A, B : A \subseteq B => Seq(A) \subseteq Seq(B)
  OBVIOUS
<1>3. s \in Seq(AnyContext(I \cup J))
  BY <1>1, <1>2
<1> HIDE DEF AnyContext
<1>4. s \o <<c>> \in Seq(AnyContext(I \cup J)) /\ Len(s \o <<c>>) = Len(s) + 1 /\ Len(s) \in Nat
  BY <1>1, <1>3
<1> QED
  BY <1>4

LEMMA InitOpening == Init => Opening
<1>1. << >> \in Seq(AnyContext({}))
  OBVIOUS
<1> QED
  BY <1>1 DEF Init, Opening, HasContexts

LEMMA NextOpening == Asked /\ Opening /\ [Next]_vars => Opening'
<1> SUFFICES ASSUME Asked, Opening, [Next]_vars PROVE Opening'
  OBVIOUS
<1>1. ASSUME NoProcess PROVE Opening'
  <2>1. << >> \in Seq(AnyContext({}))
    OBVIOUS
  <2> QED
    BY <1>1, <2>1 DEF NoProcess, Opening, HasContexts
<1>2. CASE /\ UNCHANGED contexts
           /\ pc' \in HasContexts => pc \in HasContexts \/ contexts # << >>
  BY <1>2 DEF Opening
<1>3. ASSUME NEW index, NEW id, contexts' \in Opened(index, id), pc # "off" PROVE Opening'
  <2>1. PICK c \in AnyContext({index}) : contexts' = <<c>>
    BY <1>3, OpenedType
  <2>2. <<c>> \in Seq(AnyContext({index})) /\ <<c>> # << >>
    OBVIOUS
  <2> QED
    BY <2>1, <2>2 DEF Opening
<1>4. CASE Start
  <2>1. NoProcess \/ (UNCHANGED contexts /\ pc' = "select")
    BY <1>4, Zenon DEF Start
  <2> QED
    BY <1>1, <1>2, <2>1 DEF HasContexts
<1>5. CASE OpenDefault
  BY <1>1, <1>3, <1>5, Zenon DEF OpenDefault, Exit
<1>6. CASE Select
  <2>1. Exit \/ (UNCHANGED contexts /\ pc' \in {"benchmark", "openOne", "openAll"})
    BY <1>6, Zenon DEF Select
  <2> QED
    BY <1>1, <1>2, <2>1 DEF HasContexts, Exit
<1>7. CASE OpenForBenchmark
  BY <1>1, <1>3, <1>7, Zenon DEF OpenForBenchmark, Exit
<1>8. CASE OpenOne
  BY <1>1, <1>3, <1>8, Zenon DEF OpenOne, Exit
<1>9. CASE OpenNext
  <2> DEFINE index == Head(selected)
             id == NewContext(args.machine, index, devices[index + 1].backend)
  <2>1. \/ Exit
        \/ pc = "openAll" /\ \E opened \in Opened(index, id) : contexts' = contexts \o opened
        \/ /\ UNCHANGED contexts /\ (contexts # << >> \/ Tail(selected) # << >>)
           /\ selected' = Tail(selected) /\ pc = "openAll"
           /\ pc' = IF selected' = << >> THEN "budget" ELSE pc
    BY <1>9, Zenon DEF OpenNext
  <2> HIDE DEF index, id
  <2>2. CASE pc = "openAll" /\ \E opened \in Opened(index, id) : contexts' = contexts \o opened
    <3>1. PICK opened \in Opened(index, id) : contexts' = contexts \o opened
      BY <2>2
    <3>2. PICK c \in AnyContext({index}) : opened = <<c>>
      BY <2>2, OpenedType
    <3>3. PICK I : contexts \in Seq(AnyContext(I))
      BY DEF Opening
    <3>4. contexts' \in Seq(AnyContext(I \cup {index})) /\ contexts' # << >>
      BY <3>1, <3>2, <3>3, ContextsGrow
    <3> QED
      BY <3>4 DEF Opening
  <2>3. CASE /\ UNCHANGED contexts /\ (contexts # << >> \/ Tail(selected) # << >>)
             /\ selected' = Tail(selected) /\ pc = "openAll"
             /\ pc' = IF selected' = << >> THEN "budget" ELSE pc
    BY <1>2, <2>3 DEF HasContexts
  <2> QED
    BY <1>1, <2>1, <2>2, <2>3 DEF Exit
<1>10. CASE StartSingle
  BY <1>1, <1>2, <1>10 DEF StartSingle, Exit, HasContexts
<1>11. CASE Budget
  BY <1>1, <1>2, <1>11 DEF Budget, Exit, HasContexts
<1>12. CASE Calibrate
  BY <1>2, <1>12 DEF Calibrate
<1>13. CASE SaveCalibrationCache
  BY <1>2, <1>13 DEF SaveCalibrationCache, HasContexts
<1>14. CASE Build
  BY <1>1, <1>2, <1>14 DEF Build, Exit, HasContexts
<1>15. CASE Stop
  BY <1>1, <1>15 DEF Stop
<1>16. CASE UNCHANGED vars
  BY <1>2, <1>16 DEF vars
<1> QED
  BY <1>4, <1>5, <1>6, <1>7, <1>8, <1>9, <1>10, <1>11, <1>12, <1>13, <1>14, <1>15, <1>16 DEF Next

-----------------------------------------------------------------------------
(* Lists of adapters. *)

(* The members of a finite set of numbers in their order. *)
LEMMA AscendingMembers ==
  ASSUME NEW n \in Nat, NEW S \in SUBSET (0 .. n - 1)
  PROVE  /\ IsFiniteSet(S) /\ Cardinality(S) \in Nat
         /\ Ascending(S) \in [1 .. Cardinality(S) -> S]
<1> DEFINE c == Cardinality(S)
           below(x) == {z \in S : z < x}
           f == [x \in S |-> Cardinality(below(x))]
<1>1. IsFiniteSet(S) /\ c \in Nat
  <2>1. IsFiniteSet(0 .. n - 1)
    BY FS_Interval
  <2> QED
    BY <2>1, FS_Subset, FS_CardinalityType
<1>2. \A x \in S : IsFiniteSet(below(x)) /\ f[x] \in 0 .. c - 1
  <2> SUFFICES ASSUME NEW x \in S PROVE IsFiniteSet(below(x)) /\ f[x] \in 0 .. c - 1
    OBVIOUS
  <2>1. IsFiniteSet(S \ {x}) /\ Cardinality(S \ {x}) = c - 1
    BY <1>1, FS_RemoveElement
  <2>2. below(x) \in SUBSET (S \ {x})
    OBVIOUS
  <2>3. IsFiniteSet(below(x)) /\ Cardinality(below(x)) <= c - 1
    BY <2>1, <2>2, FS_Subset
  <2>4. Cardinality(below(x)) \in Nat
    BY <2>3, FS_CardinalityType
  <2> QED
    BY <1>1, <2>3, <2>4
<1>3. ASSUME NEW x \in S, NEW y \in S, x < y PROVE f[x] < f[y]
  <2>1. below(x) \in SUBSET below(y) /\ x \in below(y) /\ x \notin below(x)
    <3>1. x < y /\ x \in Int /\ y \in Int /\ \A z \in S : z \in Int
      BY <1>3
    <3>2. \A z \in below(x) : z \in S /\ z < y
      BY <3>1
    <3>3. below(x) \subseteq below(y)
      BY <3>2
    <3>4. x \in below(y) /\ x \notin below(x)
      BY <3>1
    <3> QED
      BY <3>3, <3>4
  <2>2. below(x) # below(y) /\ IsFiniteSet(below(y)) /\ f[x] \in Nat /\ f[y] \in Nat
    BY <1>1, <1>2, <2>1
  <2>3. f[x] <= f[y] /\ f[x] # f[y]
    BY <2>1, <2>2, FS_Subset
  <2> QED
    BY <2>2, <2>3
<1>4. \A x, y \in S : f[x] = f[y] => x = y
  <2> SUFFICES ASSUME NEW x \in S, NEW y \in S, f[x] = f[y] PROVE x = y
    OBVIOUS
  <2>1. x < y \/ y < x \/ x = y
    OBVIOUS
  <2>2. f[x] \in Nat /\ f[y] \in Nat
    BY <1>1, <1>2
  <2> HIDE DEF f
  <2> QED
    BY <1>3, <2>1, <2>2
<1>5. f \in [S -> 0 .. c - 1]
  BY <1>2
<1>6. IsFiniteSet(0 .. c - 1) /\ Cardinality(0 .. c - 1) = c
  <2> HIDE DEF c
  <2> QED
    BY <1>1, FS_Interval
<1>7. \A t \in 0 .. c - 1 : \E x \in S : f[x] = t
  <2> HIDE DEF f, c
  <2>1. f \in Injection(S, 0 .. c - 1)
    BY <1>4, <1>5, Fun_IsInj
  <2>2. f \in Surjection(S, 0 .. c - 1)
    BY <1>1, <1>6, <2>1, FS_Injection DEF c
  <2> QED
    BY <2>2 DEF Surjection
<1>8. ASSUME NEW p \in 1 .. c
      PROVE  (CHOOSE x \in S : Cardinality({y \in S : y < x}) = p - 1) \in S
  <2>1. p - 1 \in 0 .. c - 1
    BY <1>1
  <2>2. \E x \in S : Cardinality({y \in S : y < x}) = p - 1
    BY <1>7, <2>1
  <2> QED
    BY <2>2
<1> QED
  BY <1>1, <1>8 DEF Ascending

LEMMA AscendingInterval ==
  ASSUME NEW n \in Nat
  PROVE  Cardinality(1 .. n) = n /\ Ascending(1 .. n) = [p \in 1 .. n |-> p]
<1>1. Cardinality(1 .. n) = n
  BY FS_Interval
<1>2. ASSUME NEW x \in 1 .. n PROVE Cardinality({y \in 1 .. n : y < x}) = x - 1
  <2>1. {y \in 1 .. n : y < x} = 1 .. x - 1
    OBVIOUS
  <2>2. x - 1 \in Nat
    OBVIOUS
  <2>3. Cardinality(1 .. x - 1) = x - 1
    BY <2>2, FS_Interval
  <2> QED
    BY <2>1, <2>3
<1>3. ASSUME NEW p \in 1 .. n
      PROVE  (CHOOSE x \in 1 .. n : Cardinality({y \in 1 .. n : y < x}) = p - 1) = p
  <2> DEFINE at == CHOOSE x \in 1 .. n : Cardinality({y \in 1 .. n : y < x}) = p - 1
  <2>1. at \in 1 .. n /\ Cardinality({y \in 1 .. n : y < at}) = p - 1
    BY <1>2
  <2> HIDE DEF at
  <2>2. at = p
    BY <1>2, <2>1
  <2> QED
    BY <2>2 DEF at
<1> QED
  BY <1>1, <1>3 DEF Ascending

(* Keeping the first m members. *)
LEMMA OnlyFirst ==
  ASSUME NEW m \in Nat, NEW seq
  PROVE  Only(seq, 1 .. m) = [p \in 1 .. m |-> seq[p]]
BY AscendingInterval DEF Only

LEMMA RankType ==
  ASSUME NEW a \in Adapter
  PROVE  /\ DevicePriority(a.kind) \in 0 .. 4 /\ BackendPriority(a.backend) \in 0 .. 3
         /\ Rank(a) \in Int
         /\ Rank(a) = 5 * DevicePriority(a.kind) + BackendPriority(a.backend)
         /\ a.kind = "Cpu" => DevicePriority(a.kind) = 3
<1>1. a.kind \in Kinds /\ a.backend \in Backends
  BY DEF Adapter
<1>2. DevicePriority(a.kind) \in 0 .. 4 /\ BackendPriority(a.backend) \in 0 .. 3
  BY <1>1 DEF Kinds, Backends, DevicePriority, BackendPriority
<1>3. a.kind = "Cpu" => DevicePriority(a.kind) = 3
  BY DEF DevicePriority
<1> QED
  BY <1>2, <1>3 DEF Rank

(* sort_by_key sorts. *)
LEMMA SortedMembers ==
  ASSUME NEW machine \in Seq(Adapter), NEW n \in Nat, n = Len(machine)
  PROVE  /\ SortedByRank(machine) = [p \in 1 .. n |-> SortedByRank(machine)[p]]
         /\ \A p \in 1 .. n : \E i \in 1 .. n : SortedByRank(machine)[p] = machine[i]
         /\ \A p, q \in 1 .. n :
              p < q => Rank(SortedByRank(machine)[p]) <= Rank(SortedByRank(machine)[q])
<1> DEFINE rem == [i \in 1 .. n |-> 0 - Rank(machine[i])]
           before(i) == {j \in DOMAIN machine :
                           \/ Rank(machine[j]) < Rank(machine[i])
                           \/ Rank(machine[j]) = Rank(machine[i]) /\ j < i}
           at(p) == CHOOSE i \in 1 .. n : Cardinality(before(i)) = p - 1
           sorted == SortedByRank(machine)
<1>1. DOMAIN machine = 1 .. n /\ \A i \in 1 .. n : machine[i] \in Adapter
  OBVIOUS
<1>2. \A i \in 1 .. n : Rank(machine[i]) \in Int
  BY <1>1, RankType
<1>3. \A i \in 1 .. n : rem[i] \in Int /\ rem[i] = 0 - Rank(machine[i])
  BY <1>2
<1>4. ASSUME NEW i \in 1 .. n PROVE before(i) = Ahead(rem, n, i)
  <2>1. ASSUME NEW j \in 1 .. n
        PROVE  j \in before(i) <=> j \in Ahead(rem, n, i)
    <3>1. /\ Rank(machine[j]) \in Int /\ rem[j] = 0 - Rank(machine[j])
          /\ Rank(machine[i]) \in Int /\ rem[i] = 0 - Rank(machine[i])
      BY <1>2, <1>3
    <3>2. PICK x \in Int, y \in Int : x = Rank(machine[j]) /\ y = Rank(machine[i])
      BY <3>1
    <3>3. rem[j] = 0 - x /\ rem[i] = 0 - y
      BY <3>1, <3>2
    <3>4. j \in Ahead(rem, n, i) <=> (0 - x > 0 - y \/ (0 - x = 0 - y /\ j < i))
      <4> HIDE DEF rem
      <4> QED
        BY <3>3 DEF Ahead
    <3>5. j \in before(i) <=> (x < y \/ (x = y /\ j < i))
      BY <1>1, <3>2
    <3> QED
      BY ONLY <3>4, <3>5, x \in Int, y \in Int
  <2>2. before(i) \subseteq 1 .. n /\ Ahead(rem, n, i) \subseteq 1 .. n
    BY <1>1 DEF Ahead
  <2> HIDE DEF before
  <2> QED
    BY <2>1, <2>2
<1>5. sorted = [p \in 1 .. n |-> machine[at(p)]]
  BY <1>1 DEF SortedByRank
<1>6. ASSUME NEW p \in 1 .. n PROVE at(p) \in 1 .. n /\ Place(rem, n, at(p)) = p - 1
  <2>1. p - 1 \in 0 .. n - 1
    OBVIOUS
  <2> HIDE DEF rem
  <2>2. PICK i \in 1 .. n : Place(rem, n, i) = p - 1
    BY <1>3, <2>1, PlacesFilled
  <2> HIDE DEF before
  <2>3. Cardinality(before(i)) = p - 1
    BY <1>4, <2>2 DEF Place
  <2>4. at(p) \in 1 .. n /\ Cardinality(before(at(p))) = p - 1
    BY <2>3
  <2> QED
    BY <1>4, <2>4 DEF Place
<1> HIDE DEF at
<1>7. ASSUME NEW p \in 1 .. n, NEW q \in 1 .. n, p < q
      PROVE  Rank(machine[at(p)]) <= Rank(machine[at(q)])
  <2> SUFFICES ASSUME ~(Rank(machine[at(p)]) <= Rank(machine[at(q)])) PROVE FALSE
    OBVIOUS
  <2>1. at(p) \in 1 .. n /\ at(q) \in 1 .. n
    BY <1>6
  <2>2. PICK x \in Int, y \in Int : x = Rank(machine[at(p)]) /\ y = Rank(machine[at(q)])
    BY <1>2, <2>1
  <2>3. rem[at(p)] = 0 - x /\ rem[at(q)] = 0 - y /\ y < x
    BY <2>1, <2>2
  <2> HIDE DEF rem
  <2>4. at(q) \in Ahead(rem, n, at(p))
    BY <2>1, <2>3 DEF Ahead
  <2>5. Place(rem, n, at(q)) < Place(rem, n, at(p))
    BY <1>3, <2>1, <2>4, AheadIsBefore
  <2> QED
    BY <1>6, <1>7, <2>5
<1> HIDE DEF sorted
<1>8. sorted = [p \in 1 .. n |-> sorted[p]] /\ \A p \in 1 .. n : sorted[p] = machine[at(p)]
  BY <1>5
<1> QED
  BY <1>6, <1>7, <1>8 DEF sorted

(* Of a set of the first numbers that leaves none of them out. *)
LEMMA FirstOnes ==
  ASSUME NEW n \in Nat, NEW H \in SUBSET (1 .. n),
         \A p \in 1 .. n, q \in H : p < q => p \in H
  PROVE  \E c \in 0 .. n : H = 1 .. c
<1> DEFINE T == {k \in Nat : k + 1 \notin H}
<1>1. n \in T
  OBVIOUS
<1>2. PICK c \in T : \A k \in T : c <= k
  BY <1>1, LeastNatural, T \in SUBSET Nat, T # {}
<1>3. c \in 0 .. n /\ c + 1 \notin H
  BY <1>1, <1>2
<1>4. ASSUME NEW p \in 1 .. c PROVE p \in H
  <2>1. p - 1 \in Nat /\ p - 1 < c
    BY <1>3
  <2>2. p - 1 \notin T
    BY <1>2, <1>3, <2>1
  <2>3. (p - 1) + 1 = p
    BY <1>3
  <2> QED
    BY <2>1, <2>2, <2>3
<1>5. ASSUME NEW q \in H PROVE q \in 1 .. c
  <2> SUFFICES ASSUME ~(q <= c) PROVE FALSE
    BY <1>3
  <2>1. q # c + 1 /\ c + 1 <= q /\ c + 1 < q /\ c + 1 \in 1 .. n
    BY <1>3
  <2> QED
    BY <1>3, <2>1
<1> QED
  BY <1>3, <1>4, <1>5

LEMMA OnlyNone == \A seq : Only(seq, {}) = << >>
<1>1. Cardinality({}) = 0
  BY FS_EmptySet
<1>2. \A seq : Only(seq, {}) = [p \in 1 .. 0 |-> seq[Ascending({})[p]]]
  BY <1>1 DEF Only
<1> QED
  BY <1>2

LEMMA SequenceIsItsMembers ==
  ASSUME NEW S, NEW s \in Seq(S), NEW n, n = Len(s)
  PROVE  s = [p \in 1 .. n |-> s[p]] /\ DOMAIN s = 1 .. n /\ n \in Nat
  OBVIOUS

(* A backend enumerates all adapters of such a machine or none. *)
LEMMA VisibleOnes ==
  ASSUME NEW machine \in Seq(Adapter), OneBackend(machine), NEW backend
  PROVE  \/ Visible(machine, backend) = << >>
         \/ /\ Visible(machine, backend) = machine
            /\ \A i \in DOMAIN machine : backend \in {AutoBackend, machine[i].backend}
<1> DEFINE n == Len(machine)
           places == {i \in DOMAIN machine : backend \in {AutoBackend, machine[i].backend}}
<1>1. machine = [p \in 1 .. n |-> machine[p]] /\ DOMAIN machine = 1 .. n /\ n \in Nat
  BY SequenceIsItsMembers
<1>2. places = {} \/ places = DOMAIN machine
  BY DEF OneBackend
<1>3. CASE places = {}
  BY <1>3, OnlyNone DEF Visible
<1>4. CASE places = DOMAIN machine
  <2>1. Only(machine, 1 .. n) = machine
    BY <1>1, OnlyFirst
  <2> QED
    BY <1>1, <1>4, <2>1 DEF Visible
<1> QED
  BY <1>2, <1>3, <1>4

(* What --list-gpus lists of such a machine are its first adapters in the order of
   their ranks. *)
LEMMA ListIsFirst ==
  ASSUME NEW machine \in Seq(Adapter), OneBackend(machine), NEW backend,
         Visible(machine, backend) = machine
  PROVE  \E c \in 0 .. Len(machine) :
           EnumerateGpus(machine, backend) = [p \in 1 .. c |-> SortedByRank(machine)[p]]
<1> DEFINE n == Len(machine)
           sorted == SortedByRank(machine)
           H == {i \in DOMAIN sorted : IsHardware(sorted[i])}
<1>1. machine = [p \in 1 .. n |-> machine[p]] /\ DOMAIN machine = 1 .. n /\ n \in Nat
  BY SequenceIsItsMembers
<1>2. /\ sorted = [p \in 1 .. n |-> sorted[p]]
      /\ \A p \in 1 .. n : \E i \in 1 .. n : sorted[p] = machine[i]
      /\ \A p, q \in 1 .. n : p < q => Rank(sorted[p]) <= Rank(sorted[q])
  BY <1>1, SortedMembers
<1> HIDE DEF sorted
<1>3. /\ DOMAIN sorted = 1 .. n /\ \A p \in 1 .. n : sorted[p] \in Adapter
      /\ \A p, q \in 1 .. n : sorted[p].backend = sorted[q].backend
      /\ \A p \in 1 .. n : sorted[p].software => DevicePriority(sorted[p].kind) >= 3
  BY <1>1, <1>2, SMTT(30) DEF OneBackend
<1>4. ASSUME NEW p \in 1 .. n
      PROVE  IsHardware(sorted[p]) <=> DevicePriority(sorted[p].kind) < 3
  <2>1. DevicePriority(sorted[p].kind) \in 0 .. 4
        /\ (sorted[p].kind = "Cpu" => DevicePriority(sorted[p].kind) = 3)
    BY <1>3, RankType
  <2> QED
    BY <1>3, <2>1 DEF IsHardware, IsSoftware
<1>5. ASSUME NEW p \in 1 .. n, NEW q \in H, p < q PROVE p \in H
  <2>1. q \in 1 .. n /\ Rank(sorted[p]) <= Rank(sorted[q])
        /\ sorted[p].backend = sorted[q].backend
    BY <1>2, <1>3, <1>5
  <2>2. PICK x \in 0 .. 4, y \in 0 .. 4, b \in 0 .. 3 :
          /\ x = DevicePriority(sorted[p].kind) /\ y = DevicePriority(sorted[q].kind)
          /\ b = BackendPriority(sorted[p].backend)
          /\ Rank(sorted[p]) = 5 * x + b /\ Rank(sorted[q]) = 5 * y + b
    BY <1>3, <2>1, RankType
  <2>3. y < 3
    BY <1>4, <2>1, <2>2
  <2>4. x < 3
    BY <2>1, <2>2, <2>3
  <2> QED
    BY <1>3, <1>4, <2>2, <2>4
<1>6. PICK h \in 0 .. n : H = 1 .. h
  <2>1. H \in SUBSET (1 .. n)
    BY <1>3
  <2> HIDE DEF H
  <2> QED
    BY <1>1, <1>5, <2>1, FirstOnes
<1>7. PICK c \in 0 .. n : PreferHardware(sorted) = [p \in 1 .. c |-> sorted[p]]
  <2>1. PreferHardware(sorted) = IF H = {} THEN sorted ELSE Only(sorted, H)
    BY DEF PreferHardware
  <2>2. CASE H = {}
    <3>1. n \in 0 .. n /\ PreferHardware(sorted) = sorted
      BY <1>1, <2>1, <2>2
    <3> QED
      BY <1>2, <3>1, Zenon
  <2>3. CASE H # {}
    <3>1. PreferHardware(sorted) = Only(sorted, 1 .. h)
      BY <1>6, <2>1, <2>3
    <3>2. Only(sorted, 1 .. h) = [p \in 1 .. h |-> sorted[p]]
      BY OnlyFirst
    <3> QED
      BY <3>1, <3>2, Zenon
  <2> QED
    BY <2>2, <2>3
<1> DEFINE first == [p \in 1 .. c |-> sorted[p]]
           best == {i \in DOMAIN first : \A j \in DOMAIN first :
                      first[j].name = first[i].name =>
                        BackendPriority(first[i].backend) <= BackendPriority(first[j].backend)}
<1>8. best = 1 .. c
  <2>1. ASSUME NEW i \in 1 .. c, NEW j \in 1 .. c
        PROVE  BackendPriority(first[i].backend) <= BackendPriority(first[j].backend)
    <3>1. i \in 1 .. n /\ j \in 1 .. n /\ first[i] = sorted[i] /\ first[j] = sorted[j]
      BY <1>1
    <3>2. first[i].backend = first[j].backend /\ BackendPriority(first[i].backend) \in 0 .. 3
      BY <1>3, <3>1, RankType
    <3> QED
      BY <3>2
  <2> QED
    BY <2>1
<1>9. BestBackendByName(first) = Only(first, best)
  BY DEF BestBackendByName
<1>10. Only(first, 1 .. c) = first
  <2>1. Only(first, 1 .. c) = [p \in 1 .. c |-> first[p]]
    BY OnlyFirst
  <2> QED
    BY <2>1
<1>11. EnumerateGpus(machine, backend) = first
  <2> HIDE DEF best, first
  <2>1. PreferHardware(sorted) = first
    BY <1>7 DEF first
  <2> QED
    BY <1>8, <1>9, <1>10, <2>1 DEF EnumerateGpus, sorted
<1> QED
  BY <1>11 DEF sorted

LEMMA ListOfNone ==
  ASSUME NEW machine, NEW backend, Visible(machine, backend) = << >>
  PROVE  EnumerateGpus(machine, backend) = << >>
<1>1. SortedByRank(<< >>) = << >>
  BY DEF SortedByRank
<1>2. PreferHardware(<< >>) = << >>
  BY DEF PreferHardware
<1>3. {i \in DOMAIN << >> : \A j \in DOMAIN << >> :
         << >>[j].name = << >>[i].name =>
           BackendPriority(<< >>[i].backend) <= BackendPriority(<< >>[j].backend)} = {}
  OBVIOUS
<1>4. BestBackendByName(<< >>) = << >>
  BY <1>3, OnlyNone DEF BestBackendByName
<1> QED
  BY <1>1, <1>2, <1>4 DEF EnumerateGpus

(* A context of such a machine is opened on the device that has the index in the
   list: new() makes the list once more, from all adapters of the backend. *)
LEMMA ContextIsListed ==
  ASSUME NEW machine \in Seq(Adapter), OneBackend(machine),
         NEW backend \in Backends \cup {AutoBackend},
         NEW list, list = EnumerateGpus(machine, backend)
  PROVE  /\ Len(list) \in Nat /\ list \in Seq(Adapter)
         /\ \A index \in 0 .. Len(list) - 1 :
              /\ ResolveLocalIndex(list, index) = index
              /\ NewContext(machine, index, list[index + 1].backend) = list[index + 1].id
<1> DEFINE n == Len(machine)
           sorted == SortedByRank(machine)
<1>1. CASE Visible(machine, backend) = << >>
  <2>1. list = << >>
    BY <1>1, ListOfNone
  <2> QED
    BY <2>1
<1>2. CASE Visible(machine, backend) = machine
  <2>1. PICK c \in 0 .. n : list = [p \in 1 .. c |-> sorted[p]]
    BY <1>2, ListIsFirst
  <2>2. /\ DOMAIN machine = 1 .. n /\ n \in Nat /\ machine = [p \in 1 .. n |-> machine[p]]
        /\ \A i \in 1 .. n : machine[i] \in Adapter
    BY SequenceIsItsMembers
  <2>3. /\ sorted = [p \in 1 .. n |-> sorted[p]]
        /\ \A p \in 1 .. n : \E i \in 1 .. n : sorted[p] = machine[i]
    BY <2>2, SortedMembers
  <2> HIDE DEF sorted
  <2>4. \A p \in 1 .. n : /\ sorted[p] \in Adapter
                          /\ \A i \in DOMAIN machine : sorted[p].backend = machine[i].backend
    <3> HIDE DEF n
    <3> TAKE p \in 1 .. n
    <3>1. PICK j \in 1 .. n : sorted[p] = machine[j]
      BY <2>3
    <3> QED
      BY <2>2, <3>1 DEF OneBackend
  <2>5. \A p \in 1 .. c : p \in 1 .. n /\ list[p] = sorted[p]
    BY <2>1, <2>2
  <2>6. list \in Seq(Adapter) /\ Len(list) = c /\ c \in Nat
    <3>1. list \in [1 .. c -> Adapter]
      BY <2>1, <2>4, <2>5
    <3> QED
      BY <2>2, <3>1, Tabulated
  <2>7. ASSUME NEW index \in 0 .. c - 1 PROVE ResolveLocalIndex(list, index) = index
    <3>1. {i \in 0 .. index - 1 : list[i + 1].backend = list[index + 1].backend} = 0 .. index - 1
      <4>1. ASSUME NEW i \in 0 .. index - 1 PROVE list[i + 1].backend = list[index + 1].backend
        <5>1. i + 1 \in 1 .. c /\ index + 1 \in 1 .. c
          BY <2>6
        <5>2. /\ i + 1 \in 1 .. n /\ list[i + 1] = sorted[i + 1]
              /\ index + 1 \in 1 .. n /\ list[index + 1] = sorted[index + 1]
          BY <2>5, <5>1
        <5>3. \A p \in 1 .. n, q \in 1 .. n : sorted[p].backend = sorted[q].backend
          BY <2>2, <2>3, <2>4
        <5> QED
          BY <5>2, <5>3
      <4> QED
        BY <4>1
    <3>2. Cardinality(0 .. index - 1) = index
      BY <2>6, FS_Interval
    <3> QED
      BY <3>1, <3>2 DEF ResolveLocalIndex
  <2>8. ASSUME NEW index \in 0 .. c - 1
        PROVE  NewContext(machine, index, list[index + 1].backend) = list[index + 1].id
    <3> DEFINE b == list[index + 1].backend
    <3>1. index + 1 \in 1 .. c /\ index + 1 \in 1 .. n /\ index < n
      BY <2>2
    <3>2. list[index + 1] = sorted[index + 1] /\ list[index + 1] \in Adapter
      BY <2>4, <2>5, <3>1
    <3>3. b \in Backends /\ \A i \in DOMAIN machine : machine[i].backend = b
      BY <2>4, <3>1, <3>2 DEF Adapter
    <3> HIDE DEF b
    <3>4. b # AutoBackend
      BY <3>3 DEF Backends, AutoBackend
    <3>5. Only(machine, 1 .. n) = machine
      BY <2>2, OnlyFirst
    <3>6. Visible(machine, b) = machine
      <4>1. {i \in DOMAIN machine : b \in {AutoBackend, machine[i].backend}} = 1 .. n
        BY <2>2, <3>3
      <4> QED
        BY <3>5, <4>1 DEF Visible
    <3>7. Candidates(machine, b, FALSE) = machine
      <4>1. {i \in DOMAIN machine : ~(FALSE /\ IsSoftware(machine[i]))} = 1 .. n
        BY <2>2
      <4> QED
        BY <3>5, <3>6, <4>1 DEF Candidates
    <3>8. Len(sorted) = n
      BY <2>2, <2>3
    <3>9. TryBackend(machine, index, b, FALSE) = sorted[index + 1].id
      BY <3>1, <3>7, <3>8 DEF TryBackend, sorted
    <3> QED
      BY <3>2, <3>4, <3>9 DEF NewContext, b
  <2> QED
    BY <2>6, <2>7, <2>8
<1> QED
  BY <1>1, <1>2, VisibleOnes

(* The devices that --gpu selects are listed ones, and some are selected. *)
LEMMA SelectedAreListed ==
  ASSUME NEW list \in Seq(Adapter), NEW gpu \in {All} \cup SUBSET Nat, NEW integrated,
         ~ParseFails(gpu, Len(list)),
         NEW F, F = FilterIntegrated(ParseGpuSelection(gpu, Len(list)), list, gpu, integrated)
  PROVE  F \in SUBSET (0 .. Len(list) - 1) /\ F # {}
<1> DEFINE n == Len(list)
           P == ParseGpuSelection(gpu, n)
<1>1. n \in Nat /\ n # 0
  BY DEF ParseFails
<1>2. P \in SUBSET (0 .. n - 1) /\ P # {}
  <2>1. CASE gpu = All
    <3>1. P = 0 .. n - 1 /\ 0 \in 0 .. n - 1
      BY <1>1, <2>1 DEF ParseGpuSelection
    <3> QED
      BY <3>1
  <2>2. CASE gpu # All
    <3>1. P = gpu /\ gpu # {} /\ gpu \in SUBSET Nat /\ \A i \in gpu : ~(i >= n)
      BY <2>2 DEF ParseFails, ParseGpuSelection
    <3>2. \A i \in gpu : i \in 0 .. n - 1
      BY <1>1, <3>1
    <3> QED
      BY <3>1, <3>2
  <2> QED
    BY <2>1, <2>2
<1> HIDE DEF P
<1>3. F = P \/ (/\ F = {i \in P : list[i + 1].kind # "Integrated"}
                /\ \E i \in P : list[i + 1].kind = "Discrete")
  BY DEF FilterIntegrated, P
<1> QED
  BY <1>2, <1>3

LEMMA Ordered ==
  ASSUME NEW n \in Nat, NEW F \in SUBSET (0 .. n - 1), F # {}
  PROVE  Ascending(F) \in Seq(0 .. n - 1) /\ Ascending(F) # << >>
<1> DEFINE c == Cardinality(F)
<1>1. IsFiniteSet(F) /\ c \in Nat /\ Ascending(F) \in [1 .. c -> F]
  BY AscendingMembers
<1>2. c # 0
  BY <1>1, FS_EmptySet
<1> HIDE DEF c
<1>3. Ascending(F) \in [1 .. c -> 0 .. n - 1]
  BY <1>1
<1>4. Ascending(F) \in Seq(0 .. n - 1) /\ Len(Ascending(F)) = c
  BY <1>1, <1>3, Tabulated
<1> QED
  BY <1>2, <1>4

-----------------------------------------------------------------------------
(* The devices that are opened. *)

(* While devices are opened the list is that of the machine, and the indices still to
   be opened are indices of it. *)
Listing ==
  /\ pc \in {"off", "select"} => contexts = << >>
  /\ OneBackend(args.machine) =>
       /\ OpenedIsListed
       /\ pc \in {"benchmark", "openOne", "openAll"} =>
            devices = EnumerateGpus(args.machine, args.backend)
       /\ pc \in {"openOne", "openAll"} \/ (pc = "benchmark" /\ contexts = << >>) =>
            /\ selected \in Seq(0 .. Len(devices) - 1)
            /\ pc # "openAll" => selected # << >>

LEMMA AskedArguments ==
  ASSUME Asked, pc # "off"
  PROVE  /\ args \in Arguments /\ args.machine \in Seq(Adapter)
         /\ args.backend \in Backends \cup {AutoBackend}
         /\ args.gpu \in {All} \cup SUBSET Nat
         /\ \A i \in DOMAIN args.machine : args.machine[i].id # NoDevice
<1>1. args \in Arguments
  BY TaskIsAccepted DEF Asked, Accepted
<1> DEFINE M == Seq({b \in Adapter : b.id # NoDevice})
<1>2. \A m \in M : \A i \in DOMAIN m : m[i].id # NoDevice
  OBVIOUS
<1>3. args.machine \in M /\ args.backend \in Backends \cup {AutoBackend}
      /\ args.gpu \in {All} \cup SUBSET Nat
  BY <1>1 DEF Arguments
<1> HIDE DEF M
<1> QED
  BY <1>1, <1>2, <1>3, ArgumentTypes

(* A context has the index and the id it was opened with. *)
LEMMA OpenedIs ==
  ASSUME NEW index, NEW id, NEW opened \in Opened(index, id)
  PROVE  /\ \E c : opened = <<c>> /\ c.index = index /\ c.id = id
         /\ \E i \in DOMAIN args.machine : args.machine[i].id = id
BY DEF Opened, Context

LEMMA InitListing == Init => Listing
BY DEF Init, Listing, OpenedIsListed

LEMMA NextListing == Asked /\ Opening /\ Listing /\ [Next]_vars => Listing'
<1> SUFFICES ASSUME Asked, Opening, Listing, [Next]_vars PROVE Listing'
  OBVIOUS
<1> DEFINE opens == {"benchmark", "openOne", "openAll"}
<1>1. ASSUME contexts' = << >>, pc' \notin opens PROVE Listing'
  BY <1>1 DEF Listing, OpenedIsListed
<1>2. ASSUME UNCHANGED <<args, devices, contexts>>, pc' \notin opens \cup {"off", "select"}
      PROVE  Listing'
  <2>1. OpenedIsListed => OpenedIsListed'
    BY <1>2 DEF OpenedIsListed
  <2> QED
    BY <1>2, <2>1 DEF Listing
<1>3. NoProcess => Listing'
  BY <1>1 DEF NoProcess
<1>4. Exit => Listing'
  BY <1>3 DEF Exit
<1> DEFINE machine == args.machine
           list == EnumerateGpus(machine, args.backend)
<1>5. ASSUME pc # "off", OneBackend(machine)
      PROVE  /\ Len(list) \in Nat /\ list \in Seq(Adapter)
             /\ \A index \in 0 .. Len(list) - 1 :
                  /\ ResolveLocalIndex(list, index) = index
                  /\ NewContext(machine, index, list[index + 1].backend) = list[index + 1].id
  BY <1>5, AskedArguments, ContextIsListed
<1>6. ASSUME pc # "off", NEW index, NEW id, NEW opened \in Opened(index, id)
      PROVE  id # NoDevice /\ \E c : opened = <<c>> /\ c.index = index /\ c.id = id
  BY <1>6, OpenedIs, AskedArguments
<1>7. CASE Start
  <2>1. NoProcess \/ (UNCHANGED contexts /\ pc' = "select" /\ pc = "off")
    BY <1>7, Zenon DEF Start
  <2>2. CASE UNCHANGED contexts /\ pc' = "select" /\ pc = "off"
    BY <1>1, <2>2 DEF Listing
  <2> QED
    BY <1>3, <2>1, <2>2
<1>8. CASE OpenDefault
  <2>1. \/ Exit
        \/ /\ pc = "select" /\ UNCHANGED <<args, selected>> /\ devices' = list
           /\ contexts' \in Opened(0, NewFromGlobalIndex(machine, 0, args.backend))
           /\ pc' \in {"benchmark", "single"}
    BY <1>8 DEF OpenDefault, setup
  <2>2. CASE /\ pc = "select" /\ UNCHANGED <<args, selected>> /\ devices' = list
             /\ contexts' \in Opened(0, NewFromGlobalIndex(machine, 0, args.backend))
             /\ pc' \in {"benchmark", "single"}
    <3> DEFINE id == NewFromGlobalIndex(machine, 0, args.backend)
    <3>1. id # NoDevice /\ \E c : contexts' = <<c>> /\ c.index = 0 /\ c.id = id
      BY <1>6, <2>2
    <3>2. PICK c : contexts' = <<c>> /\ c.index = 0 /\ c.id = id
      BY <3>1
    <3>3. id = list[0 + 1].id
      BY <3>1 DEF NewFromGlobalIndex
    <3> HIDE DEF id, list
    <3>4. OpenedIsListed'
      BY <2>2, <3>2, <3>3 DEF OpenedIsListed
    <3>5. contexts' # << >>
      BY <3>2
    <3> QED
      BY <2>2, <3>4, <3>5 DEF Listing, list
  <2> QED
    BY <1>4, <2>1, <2>2
<1>9. CASE Select
  <2> DEFINE F == FilterIntegrated(ParseGpuSelection(args.gpu, Len(list)), list, args.gpu,
                                   args.integrated)
  <2>1. \/ Exit
        \/ /\ pc = "select" /\ UNCHANGED <<args, contexts>> /\ devices' = list
           /\ ~ParseFails(args.gpu, Len(list)) /\ selected' = Ascending(F)
           /\ pc' \in opens
    BY <1>9, Zenon DEF Select, setup
  <2>2. CASE /\ pc = "select" /\ UNCHANGED <<args, contexts>> /\ devices' = list
             /\ ~ParseFails(args.gpu, Len(list)) /\ selected' = Ascending(F)
             /\ pc' \in opens
    <3>1. contexts' = << >>
      BY <2>2 DEF Listing
    <3>2. OpenedIsListed'
      BY <3>1 DEF OpenedIsListed
    <3>3. ASSUME OneBackend(machine)
          PROVE  selected' \in Seq(0 .. Len(list) - 1) /\ selected' # << >>
      <4>1. Len(list) \in Nat /\ list \in Seq(Adapter) /\ args.gpu \in {All} \cup SUBSET Nat
        BY <1>5, <2>2, <3>3, AskedArguments
      <4> HIDE DEF list
      <4>2. F \in SUBSET (0 .. Len(list) - 1) /\ F # {}
        BY <2>2, <4>1, SelectedAreListed
      <4> HIDE DEF F
      <4> QED
        BY <2>2, <4>1, <4>2, Ordered
    <3> HIDE DEF F
    <3> QED
      BY <2>2, <3>1, <3>2, <3>3 DEF Listing
  <2> QED
    BY <1>4, <2>1, <2>2
<1>10. CASE OpenForBenchmark
  <2> DEFINE index == selected[1]
             id == NewContext(machine, ResolveLocalIndex(devices, index),
                              devices[index + 1].backend)
  <2>1. \/ Exit
        \/ /\ pc = "benchmark" /\ contexts = << >> /\ UNCHANGED <<pc, args, devices, selected>>
           /\ contexts' \in Opened(index, id)
    BY <1>10, Zenon DEF OpenForBenchmark, setup
  <2>2. CASE /\ pc = "benchmark" /\ contexts = << >> /\ UNCHANGED <<pc, args, devices, selected>>
             /\ contexts' \in Opened(index, id)
    <3>1. PICK c : contexts' = <<c>> /\ c.index = index /\ c.id = id
      BY <1>6, <2>2
    <3>2. ASSUME OneBackend(machine) PROVE devices = list /\ id = devices[index + 1].id
      <4>1. devices = list /\ selected \in Seq(0 .. Len(list) - 1) /\ selected # << >>
        BY <2>2, <3>2 DEF Listing
      <4>2. index \in 0 .. Len(list) - 1
        BY <4>1
      <4> HIDE DEF list, index
      <4> QED
        BY <1>5, <2>2, <3>2, <4>1, <4>2
    <3> HIDE DEF id, index
    <3>3. OneBackend(machine) => OpenedIsListed'
      BY <2>2, <3>1, <3>2 DEF OpenedIsListed
    <3>4. contexts' # << >> /\ pc' = "benchmark"
      BY <2>2, <3>1
    <3>5. EnumerateGpus(args.machine, args.backend)' = list /\ machine' = machine
      BY <2>2
    <3> HIDE DEF list, machine
    <3> QED
      BY <2>2, <3>2, <3>3, <3>4, <3>5 DEF Listing, machine
  <2> QED
    BY <1>4, <2>1, <2>2
<1>11. CASE OpenOne
  <2> DEFINE index == selected[1]
             id == NewContext(machine, index, devices[index + 1].backend)
  <2>1. \/ Exit
        \/ /\ pc = "openOne" /\ UNCHANGED <<args, devices>> /\ pc' = "single"
           /\ contexts' \in Opened(index, id)
    BY <1>11, Zenon DEF OpenOne, setup
  <2>2. CASE /\ pc = "openOne" /\ UNCHANGED <<args, devices>> /\ pc' = "single"
             /\ contexts' \in Opened(index, id)
    <3>1. PICK c : contexts' = <<c>> /\ c.index = index /\ c.id = id
      BY <1>6, <2>2
    <3>2. ASSUME OneBackend(machine) PROVE id = devices[index + 1].id
      <4>1. devices = list /\ selected \in Seq(0 .. Len(list) - 1) /\ selected # << >>
        BY <2>2, <3>2 DEF Listing
      <4>2. index \in 0 .. Len(list) - 1
        BY <4>1
      <4> HIDE DEF list, index
      <4> QED
        BY <1>5, <2>2, <3>2, <4>1, <4>2
    <3> HIDE DEF id, index
    <3>3. OneBackend(machine) => OpenedIsListed'
      BY <2>2, <3>1, <3>2 DEF OpenedIsListed
    <3> QED
      BY <2>2, <3>3 DEF Listing
  <2> QED
    BY <1>4, <2>1, <2>2
<1>12. CASE OpenNext
  <2> DEFINE index == Head(selected)
             id == NewContext(machine, index, devices[index + 1].backend)
  <2>1. \/ Exit
        \/ /\ pc = "openAll" /\ selected # << >> /\ UNCHANGED <<args, devices>>
           /\ selected' = Tail(selected) /\ pc' \in {"openAll", "budget"}
           /\ UNCHANGED contexts \/ \E opened \in Opened(index, id) : contexts' = contexts \o opened
    BY <1>12, Zenon DEF OpenNext, setup
  <2>2. CASE /\ pc = "openAll" /\ selected # << >> /\ UNCHANGED <<args, devices>>
             /\ selected' = Tail(selected) /\ pc' \in {"openAll", "budget"}
             /\ \/ UNCHANGED contexts
                \/ \E opened \in Opened(index, id) : contexts' = contexts \o opened
    <3>1. ASSUME OneBackend(machine)
          PROVE  /\ devices = list /\ id = devices[index + 1].id
                 /\ selected' \in Seq(0 .. Len(devices) - 1)
      <4>1. /\ devices = list /\ selected \in Seq(0 .. Len(devices) - 1)
            /\ Len(devices) \in Nat
        BY <1>5, <2>2, <3>1 DEF Listing
      <4> DEFINE indices == 0 .. Len(devices) - 1
      <4> HIDE DEF list, indices
      <4>2. index \in indices /\ selected' \in Seq(indices)
        BY <2>2, <4>1 DEF indices
      <4> HIDE DEF index
      <4> QED
        BY <1>5, <2>2, <3>1, <4>1, <4>2 DEF indices
    <3>2. ASSUME OneBackend(machine) PROVE OpenedIsListed'
      <4>1. CASE UNCHANGED contexts
        BY <2>2, <3>2, <4>1 DEF Listing, OpenedIsListed
      <4>2. CASE \E opened \in Opened(index, id) : contexts' = contexts \o opened
        <5>0. PICK opened \in Opened(index, id) : contexts' = contexts \o opened
          BY <4>2
        <5>1. PICK c : contexts' = contexts \o <<c>> /\ c.index = index /\ c.id = id
          <6>1. pc # "off"
            BY <2>2
          <6>2. PICK c : opened = <<c>> /\ c.index = index /\ c.id = id
            BY <1>6, <5>0, <6>1
          <6> HIDE DEF index, id
          <6> QED
            BY ONLY <5>0, <6>2, Zenon
        <5>2. PICK I : contexts \in Seq(AnyContext(I))
          BY DEF Opening
        <5>3. /\ DOMAIN contexts' = 1 .. Len(contexts) + 1 /\ Len(contexts) \in Nat
              /\ DOMAIN contexts = 1 .. Len(contexts)
              /\ \A i \in 1 .. Len(contexts) : contexts'[i] = contexts[i]
              /\ contexts'[Len(contexts) + 1] = c
          <6> HIDE DEF id, index
          <6> QED
            BY <5>1, <5>2
        <5>4. \A i \in DOMAIN contexts : contexts[i].id = devices[contexts[i].index + 1].id
          BY <3>2 DEF Listing, OpenedIsListed
        <5>5. c.id = devices[c.index + 1].id
          BY <3>1, <3>2, <5>1
        <5> HIDE DEF id, index
        <5> QED
          BY <2>2, <5>3, <5>4, <5>5 DEF OpenedIsListed
      <4> QED
        BY <2>2, <4>1, <4>2
    <3> HIDE DEF id, index
    <3>3. EnumerateGpus(args.machine, args.backend)' = list /\ machine' = machine
      BY <2>2
    <3> HIDE DEF list, machine
    <3> QED
      BY <2>2, <3>1, <3>2, <3>3 DEF Listing, machine
  <2> QED
    BY <1>4, <2>1, <2>2
<1>13. CASE StartSingle
  BY <1>2, <1>4, <1>13 DEF StartSingle, setup
<1>14. CASE Budget
  BY <1>2, <1>4, <1>14 DEF Budget, setup
<1>15. CASE Calibrate
  BY <1>2, <1>15 DEF Calibrate, setup
<1>16. CASE SaveCalibrationCache
  BY <1>2, <1>16 DEF SaveCalibrationCache, setup
<1>17. CASE Build
  BY <1>2, <1>4, <1>17 DEF Build, setup
<1>18. CASE Stop
  BY <1>3, <1>18 DEF Stop
<1>19. CASE UNCHANGED vars
  BY <1>19 DEF vars, Listing, OpenedIsListed, OneBackend
<1> QED
  BY <1>7, <1>8, <1>9, <1>10, <1>11, <1>12, <1>13, <1>14, <1>15, <1>16, <1>17, <1>18, <1>19
     DEF Next

(* Each device that is opened is the one listed under the index that was asked for,
   whatever --gpu, --backend and the order of the adapters, if there is but one
   backend. *)
THEOREM ListedIsOpened == Spec => []OpenedIsListedOnOneBackend
<1>1. Listing => OpenedIsListedOnOneBackend
  BY DEF Listing, OneBackend, OpenedIsListedOnOneBackend
<1>2. Asked /\ Opening /\ Listing /\ [Next]_vars => (Asked /\ Opening /\ Listing)'
  BY NextAsked, NextOpening, NextListing
<1> QED
  BY <1>1, <1>2, InitAsked, InitOpening, InitListing, PTL DEF Spec

-----------------------------------------------------------------------------
(* What the steps of a launch have in common. *)

Preparing == {"select", "benchmark", "openOne", "openAll", "single", "budget"}

(* The program ends. *)
Quits ==
  /\ NoProcess
  /\ UNCHANGED measured
  /\ UNCHANGED file \/ (pc = "calibrate" /\ file' \in Saved)

(* It reads its arguments or opens devices. *)
Prepares ==
  /\ pc \in Preparing \cup {"off"} /\ pc' \in Preparing
  /\ UNCHANGED <<total, cache, weights, solvers, file, measured>>

Steps ==
  \/ Quits \/ Prepares \/ StartSingle \/ Budget \/ Calibrate \/ SaveCalibrationCache \/ Build
  \/ UNCHANGED vars

LEMMA NextSteps == [Next]_vars => Steps
<1> SUFFICES ASSUME [Next]_vars PROVE Steps
  OBVIOUS
<1>1. CASE Start
  <2>1. \/ NoProcess /\ UNCHANGED <<file, measured>>
        \/ /\ pc = "off" /\ pc' = "select"
           /\ UNCHANGED <<total, cache, weights, solvers, file, measured>>
    BY <1>1, Zenon DEF Start
  <2> QED
    BY <2>1 DEF Steps, Quits, Prepares, Preparing
<1>2. CASE OpenDefault
  BY <1>2 DEF OpenDefault, Exit, disk, Steps, Quits, Prepares, Preparing
<1>3. CASE Select
  <2>1. \/ Exit
        \/ /\ pc = "select" /\ pc' \in {"benchmark", "openOne", "openAll"}
           /\ UNCHANGED <<setup, contexts, total, cache, weights, solvers, disk>>
    BY <1>3, Zenon DEF Select
  <2> QED
    BY <2>1 DEF Exit, disk, Steps, Quits, Prepares, Preparing
<1>4. CASE OpenForBenchmark
  BY <1>4 DEF OpenForBenchmark, Exit, disk, Steps, Quits, Prepares, Preparing
<1>5. CASE OpenOne
  BY <1>5 DEF OpenOne, Exit, disk, Steps, Quits, Prepares, Preparing
<1>6. CASE OpenNext
  <2>1. \/ Exit
        \/ /\ pc = "openAll" /\ pc' = IF selected' = << >> THEN "budget" ELSE pc
           /\ UNCHANGED <<setup, devices, total, cache, weights, solvers, disk>>
    BY <1>6, Zenon DEF OpenNext
  <2> QED
    BY <2>1 DEF Exit, disk, Steps, Quits, Prepares, Preparing
<1>7. CASE Stop
  BY <1>7 DEF Stop, Steps, Quits
<1> QED
  BY <1>1, <1>2, <1>3, <1>4, <1>5, <1>6, <1>7 DEF Next, Steps

-----------------------------------------------------------------------------
(* Weights and the cache of them. *)

Known ==
  /\ \A m \in measured : m[3] \in MeasuredWeights
  /\ \A key \in DOMAIN file.entries : <<file.version, key, file.entries[key]>> \in measured
  /\ pc = "calibrate" =>
       \A key \in DOMAIN cache.entries : <<version, key, cache.entries[key]>> \in measured

IsWeight(i) ==
  \/ weights[i] = GpuWeight(contexts[i].adapter.kind)
  \/ <<version, CacheKey(contexts[i]), weights[i]>> \in measured

Weighed ==
  /\ pc \in Preparing \cup {"off"} => weights = << >>
  /\ pc = "calibrate" =>
       /\ weights \in Seq(Nat) /\ Len(weights) <= Len(contexts)
       /\ \A i \in 1 .. Len(weights) : IsWeight(i)
  /\ pc = "build" => weights \in Seq(Nat) /\ Len(weights) = Len(contexts)

LEMMA InitKnown == Init => Known
<1>1. DOMAIN << >> = {}
  OBVIOUS
<1> QED
  BY <1>1 DEF Init, Known, NoCache

LEMMA SavedIsKnown ==
  Known /\ pc = "calibrate" /\ file' \in Saved /\ UNCHANGED measured =>
    \A key \in DOMAIN file'.entries : <<file'.version, key, file'.entries[key]>> \in measured'
<1>1. DOMAIN << >> = {}
  OBVIOUS
<1> QED
  BY <1>1 DEF Known, Saved, Torn

LEMMA NextKnown == Known /\ [Next]_vars => Known'
<1> SUFFICES ASSUME Known, Steps PROVE Known'
  BY NextSteps
<1>1. CASE pc' # "calibrate" /\ UNCHANGED <<file, measured>>
  BY <1>1 DEF Known
<1>2. CASE pc' # "calibrate" /\ pc = "calibrate" /\ file' \in Saved /\ UNCHANGED measured
  BY <1>2, SavedIsKnown DEF Known
<1>3. CASE Quits
  BY <1>1, <1>2, <1>3 DEF Quits, NoProcess
<1>4. CASE Prepares
  BY <1>1, <1>4 DEF Prepares, Preparing
<1>5. CASE StartSingle
  BY <1>1, <1>5 DEF StartSingle, Exit, disk, NoProcess
<1>6. CASE Budget
  <2>1. CASE Exit
    BY <1>1, <2>1 DEF Exit, disk, NoProcess
  <2>2. CASE ~Exit
    <3>1. /\ cache' = [entries |-> LoadCalibrationCache, dirty |-> FALSE]
          /\ UNCHANGED <<version, file, measured>>
      BY <1>6, <2>2 DEF Budget, disk, setup
    <3>2. LoadCalibrationCache = IF file.version = version THEN file.entries ELSE << >>
      BY DEF LoadCalibrationCache, NoCache
    <3>3. DOMAIN << >> = {}
      OBVIOUS
    <3> QED
      BY <3>1, <3>2, <3>3 DEF Known
  <2> QED
    BY <2>1, <2>2
<1>7. CASE Calibrate
  <2> DEFINE key == CacheKey(contexts[Len(weights) + 1])
  <2>1. UNCHANGED <<version, file, pc>>
    BY <1>7 DEF Calibrate, setup
  <2>2. \/ UNCHANGED <<cache, measured>>
        \/ \E weight \in MeasuredWeights :
             /\ cache' = [entries |-> With(cache.entries, key, weight), dirty |-> TRUE]
             /\ measured' = measured \cup {<<version, key, weight>>}
    BY <1>7, Zenon DEF Calibrate, ProbeFails, ProbeSucceeds
  <2> HIDE DEF key
  <2>3. CASE UNCHANGED <<cache, measured>>
    BY <2>1, <2>3 DEF Known
  <2>4. ASSUME NEW weight \in MeasuredWeights,
               cache' = [entries |-> With(cache.entries, key, weight), dirty |-> TRUE],
               measured' = measured \cup {<<version, key, weight>>}
        PROVE  Known'
    <3>1. \A m \in measured' : m[3] \in MeasuredWeights
      BY <2>4 DEF Known
    <3>2. \A k \in DOMAIN file'.entries : <<file'.version, k, file'.entries[k]>> \in measured'
      BY <2>1, <2>4 DEF Known
    <3>3. ASSUME pc' = "calibrate", NEW k \in DOMAIN cache'.entries
          PROVE  <<version', k, cache'.entries[k]>> \in measured'
      <4>1. k \in DOMAIN cache.entries \cup {key}
            /\ cache'.entries[k] = IF k = key THEN weight ELSE cache.entries[k]
        BY <2>4, <3>3 DEF With
      <4> QED
        BY <2>1, <2>4, <3>3, <4>1 DEF Known
    <3> QED
      BY <3>1, <3>2, <3>3 DEF Known
  <2> QED
    BY <2>2, <2>3, <2>4
<1>8. CASE SaveCalibrationCache
  BY <1>1, <1>2, <1>8 DEF SaveCalibrationCache
<1>9. CASE Build
  BY <1>1, <1>9 DEF Build, Exit, disk, NoProcess
<1>10. CASE UNCHANGED vars
  BY <1>10 DEF vars, Known
<1> QED
  BY <1>3, <1>4, <1>5, <1>6, <1>7, <1>8, <1>9, <1>10 DEF Steps

LEMMA InitWeighed == Init => Weighed
BY DEF Init, Weighed, Preparing

LEMMA NextWeighed == Opening /\ Known /\ Weighed /\ [Next]_vars => Weighed'
<1> SUFFICES ASSUME Opening, Known, Weighed, Steps PROVE Weighed'
  BY NextSteps
<1>1. CASE pc' \in Preparing \cup {"off"} /\ weights' = << >>
  BY <1>1 DEF Weighed, Preparing
<1>2. CASE pc' \in {"search"}
  BY <1>2 DEF Weighed, Preparing
<1>3. PICK I : contexts \in Seq(AnyContext(I))
  BY DEF Opening
<1>4. Len(contexts) \in Nat
  BY <1>3
<1>5. CASE Quits
  BY <1>1, <1>5 DEF Quits, NoProcess
<1>6. CASE Prepares
  BY <1>1, <1>6 DEF Prepares, Weighed, Preparing
<1>7. CASE StartSingle
  BY <1>1, <1>2, <1>7 DEF StartSingle, Exit, NoProcess
<1>8. CASE Budget
  <2>1. CASE Exit
    BY <1>1, <2>1 DEF Exit, NoProcess
  <2>2. CASE ~Exit
    <3>1. pc' = "calibrate" /\ weights' = << >> /\ UNCHANGED contexts
      BY <1>8, <2>2 DEF Budget, Weighed, Preparing
    <3>2. << >> \in Seq(Nat) /\ Len(<< >>) = 0
      OBVIOUS
    <3> QED
      BY <1>4, <3>1, <3>2 DEF Weighed, Preparing
  <2> QED
    BY <2>1, <2>2
<1>9. CASE Calibrate
  <2> DEFINE context == contexts[Len(weights) + 1]
             key == CacheKey(context)
  <2>1. /\ pc = "calibrate" /\ UNCHANGED <<pc, args, version, problem, contexts, total>>
        /\ Len(weights) < Len(contexts)
    BY <1>9 DEF Calibrate, setup
  <2>2. measured \subseteq measured'
        /\ \E w : /\ weights' = Append(weights, w)
                 /\ \/ w = GpuWeight(context.adapter.kind)
                    \/ <<version, key, w>> \in measured'
    <3>1. CASE key \in DOMAIN cache.entries
      <4>1. weights' = Append(weights, cache.entries[key]) /\ UNCHANGED measured
        BY <1>9, <3>1, Zenon DEF Calibrate
      <4>2. <<version, key, cache.entries[key]>> \in measured
        BY <2>1, <3>1 DEF Known
      <4> QED
        BY <4>1, <4>2
    <3>2. CASE key \notin DOMAIN cache.entries
      <4>1. ProbeFails(context) \/ \E weight \in MeasuredWeights : ProbeSucceeds(context, weight)
        BY <1>9, <3>2, Zenon DEF Calibrate
      <4> QED
        BY <4>1 DEF ProbeFails, ProbeSucceeds
    <3> QED
      BY <3>1, <3>2
  <2>3. PICK w : /\ weights' = Append(weights, w)
                 /\ w = GpuWeight(context.adapter.kind) \/ <<version, key, w>> \in measured'
    BY <2>2
  <2>4. weights \in Seq(Nat) /\ w \in Nat
    <3>1. Known'
      BY <1>9, NextKnown DEF Next
    <3>2. \A kind : GpuWeight(kind) \in Nat
      BY DEF GpuWeight
    <3>3. ASSUME <<version, key, w>> \in measured' PROVE w \in Nat
      <4>1. <<version, key, w>>[3] \in MeasuredWeights
        BY <3>1, <3>3 DEF Known
      <4> QED
        BY <4>1, LaunchAssumption
    <3> QED
      BY <2>1, <2>3, <3>2, <3>3 DEF Weighed
  <2>5. /\ weights' \in Seq(Nat) /\ Len(weights') = Len(weights) + 1 /\ Len(weights) \in Nat
        /\ weights'[Len(weights) + 1] = w
        /\ \A i \in 1 .. Len(weights) : weights'[i] = weights[i]
    BY <2>3, <2>4
  <2>6. \A c : CacheKey(c)' = CacheKey(c)
    BY <2>1 DEF CacheKey
  <2>7. ASSUME NEW i \in 1 .. Len(weights') PROVE IsWeight(i)'
    <3>1. CASE i = Len(weights) + 1
      BY <2>1, <2>3, <2>5, <2>6, <3>1 DEF IsWeight
    <3>2. CASE i # Len(weights) + 1
      <4>1. i \in 1 .. Len(weights)
        BY <2>5, <3>2
      <4>2. IsWeight(i)
        BY <2>1, <4>1 DEF Weighed
      <4> QED
        BY <2>1, <2>2, <2>5, <2>6, <4>1, <4>2 DEF IsWeight
    <3> QED
      BY <3>1, <3>2
  <2> QED
    BY <1>4, <2>1, <2>5, <2>7 DEF Weighed, Preparing
<1>10. CASE SaveCalibrationCache
  BY <1>10 DEF SaveCalibrationCache, Weighed, Preparing
<1>11. CASE Build
  <2>1. \/ Exit
        \/ pc = "build" /\ pc' \in {"search", "build"} /\ UNCHANGED <<weights, contexts>>
    BY <1>11, Zenon DEF Build
  <2> QED
    BY <1>1, <2>1 DEF Exit, NoProcess, Weighed, Preparing
<1>12. CASE UNCHANGED vars
  <2>1. \A c : CacheKey(c)' = CacheKey(c)
    BY <1>12 DEF CacheKey, vars
  <2> QED
    BY <1>12, <2>1 DEF vars, Weighed, IsWeight
<1> QED
  BY <1>5, <1>6, <1>7, <1>8, <1>9, <1>10, <1>11, <1>12 DEF Steps

(* Kangaroos are shared out by what this version has measured on a GPU like it, or by
   the GPU's type: no crash while the cache is written, no other version's cache and no
   probe that failed gets in between. *)
THEOREM WeightsWereMeasured == Spec => []WeightsAreMeasured
<1>1. Known /\ Weighed => WeightsAreMeasured
  <2>1. \A s \in Seq(Nat) : DOMAIN s = 1 .. Len(s)
    OBVIOUS
  <2> QED
    BY <2>1 DEF Known, Weighed, IsWeight, WeightsAreMeasured
<1> QED
  BY <1>1, InitAsked, NextAsked, InitOpening, NextOpening, InitKnown, NextKnown, InitWeighed,
     NextWeighed, PTL DEF Spec

-----------------------------------------------------------------------------
(* The budget. *)

Budgeted ==
  pc \in {"calibrate", "build", "search"} =>
    /\ total \in Nat /\ total >= 3 /\ total <= MaxKangaroos(problem.rangeBits)
    /\ pc # "search" => total >= 3 * Len(contexts)

LEMMA MaxKangaroosType ==
  ASSUME NEW r \in Nat
  PROVE  MaxKangaroos(r) \in Nat /\ MaxKangaroos(r) >= 3
<1>1. PICK t \in Nat : t = TwoTo[r]
  BY TwoToDef
<1> QED
  BY <1>1 DEF MaxKangaroos

LEMMA CappedType ==
  ASSUME NEW n \in Int, NEW r \in Nat
  PROVE  Capped(n, r) \in Int /\ Capped(n, r) <= MaxKangaroos(r)
<1>1. PICK m \in Nat : m = MaxKangaroos(r)
  BY MaxKangaroosType
<1> QED
  BY <1>1 DEF Capped

LEMMA RecommendedType ==
  ASSUME NEW adapter \in Adapter, NEW r
  PROVE  Recommended(adapter, r) \in Nat
<1>1. PICK x \in Nat : x = OptimalKangaroos[adapter.name]
  BY LaunchAssumption DEF Adapter
<1>2. Minimum({x, AutoCap}) \in Nat
  <2>1. {x, AutoCap} \in SUBSET Nat /\ {x, AutoCap} # {}
    BY LaunchAssumption
  <2>2. \E m \in {x, AutoCap} : \A n \in {x, AutoCap} : m <= n
    BY <2>1, LeastNatural
  <2>3. Minimum({x, AutoCap}) \in {x, AutoCap}
    BY <2>2 DEF Minimum
  <2> QED
    BY <2>1, <2>3
<1> QED
  BY <1>1, <1>2 DEF Recommended

LEMMA RequestedType ==
  ASSUME NEW a \in Arguments, NEW I, NEW opened \in Seq(AnyContext(I)), NEW r
  PROVE  Requested(a, opened, r) \in Int
<1>1. CASE a.kangaroos # Nothing
  BY <1>1, ArgumentTypes DEF Requested
<1>2. CASE a.kangaroos = Nothing
  <2> DEFINE ks == [i \in DOMAIN opened |-> Recommended(opened[i].adapter, r)]
  <2>1. PICK n \in Nat : n = Len(opened) /\ DOMAIN opened = 1 .. n
    OBVIOUS
  <2>2. \A i \in 1 .. n : Recommended(opened[i].adapter, r) \in Nat
    <3>1. \A i \in 1 .. n : opened[i] \in AnyContext(I)
      BY <2>1
    <3>2. \A i \in 1 .. n : opened[i].adapter \in Adapter
      BY <3>1 DEF AnyContext
    <3> QED
      BY <3>2, RecommendedType
  <2>3. ks \in [1 .. n -> Nat]
    BY <2>1, <2>2
  <2> HIDE DEF ks
  <2>4. Numbers(ks)
    BY <2>3, Tabulated DEF Numbers
  <2>5. TotalOf(ks) \in Int
    BY <2>4, SumExists, TotalOfSum
  <2> QED
    BY <1>2, <2>5 DEF Requested, ks
<1> QED
  BY <1>1, <1>2

LEMMA InitBudgeted == Init => Budgeted
BY DEF Init, Budgeted

(* What run() asks for of the devices it has opened. *)
LEMMA RequestedNow ==
  ASSUME Asked, Opening, pc \notin {"off", "select", "benchmark"}
  PROVE  LET r == problem.rangeBits
             n == Capped(Requested(args, contexts, r), r)
         IN r \in Nat /\ n \in Int /\ n <= MaxKangaroos(r)
<1>1. args \in Arguments /\ Accepted(args) /\ problem = Problem(args)
  BY TaskIsAccepted DEF Asked
<1>2. problem.rangeBits \in Nat
  BY <1>1, ProblemType
<1>3. PICK I : contexts \in Seq(AnyContext(I))
  BY DEF Opening
<1>4. Requested(args, contexts, problem.rangeBits) \in Int
  BY <1>1, <1>3, RequestedType
<1> QED
  BY <1>2, <1>4, CappedType

LEMMA NextBudgeted == Asked /\ Opening /\ Budgeted /\ [Next]_vars => Budgeted'
<1> SUFFICES ASSUME Asked, Opening, Budgeted, Steps PROVE Budgeted'
  BY NextSteps
<1> DEFINE requested == Capped(Requested(args, contexts, problem.rangeBits), problem.rangeBits)
<1>1. CASE pc' \notin {"calibrate", "build", "search"}
  BY <1>1 DEF Budgeted
<1>2. CASE /\ UNCHANGED <<contexts, total, problem>> /\ pc \in {"calibrate", "build"}
           /\ pc' \in {"calibrate", "build", "search"}
  BY <1>2 DEF Budgeted
<1>3. CASE Quits
  BY <1>1, <1>3 DEF Quits, NoProcess
<1>4. CASE Prepares
  BY <1>1, <1>4 DEF Prepares, Preparing
<1>5. CASE StartSingle
  <2>1. CASE Exit
    BY <1>1, <2>1 DEF Exit, NoProcess
  <2>2. CASE ~Exit
    <3>1. /\ total' = requested /\ ~RefusesHerd(total', problem.rangeBits) /\ UNCHANGED problem
          /\ pc = "single" /\ pc' = "search"
      BY <1>5, <2>2 DEF StartSingle, setup
    <3>2. requested \in Int /\ requested <= MaxKangaroos(problem.rangeBits)
      BY <3>1, RequestedNow
    <3> HIDE DEF requested
    <3>3. ~(total' < 3)
      BY <3>1 DEF RefusesHerd
    <3> QED
      BY <3>1, <3>2, <3>3 DEF Budgeted
  <2> QED
    BY <2>1, <2>2
<1>6. CASE Budget
  <2>1. CASE Exit
    BY <1>1, <2>1 DEF Exit, NoProcess
  <2>2. CASE ~Exit
    <3>1. /\ total' = requested /\ ~(requested < MinPerGpu * Len(contexts))
          /\ UNCHANGED <<problem, contexts>> /\ pc = "budget" /\ pc' = "calibrate"
      BY <1>6, <2>2 DEF Budget, setup
    <3>2. requested \in Int /\ requested <= MaxKangaroos(problem.rangeBits)
      BY <3>1, RequestedNow
    <3> HIDE DEF requested
    <3>3. PICK n \in Nat : n = Len(contexts) /\ n >= 1
      BY <3>1 DEF Opening, HasContexts
    <3>4. total' >= 3 * n /\ total' >= 3
      BY <3>1, <3>2, <3>3 DEF MinPerGpu
    <3> QED
      BY <3>1, <3>2, <3>3, <3>4 DEF Budgeted
  <2> QED
    BY <2>1, <2>2
<1>7. CASE Calibrate
  BY <1>2, <1>7 DEF Calibrate, setup
<1>8. CASE SaveCalibrationCache
  BY <1>2, <1>8 DEF SaveCalibrationCache, setup
<1>9. CASE Build
  <2>1. \/ Exit
        \/ /\ pc = "build" /\ pc' \in {"search", "build"}
           /\ UNCHANGED <<setup, contexts, total>>
    BY <1>9, Zenon DEF Build
  <2> QED
    BY <1>1, <1>2, <2>1 DEF Exit, NoProcess, setup
<1>10. CASE UNCHANGED vars
  BY <1>10 DEF vars, Budgeted
<1> QED
  BY <1>3, <1>4, <1>5, <1>6, <1>7, <1>8, <1>9, <1>10 DEF Steps

-----------------------------------------------------------------------------
(* The herds of the solvers follow one another. *)

Solver == [gpu : Nat, first : Nat, num : Nat, mode : {"both", "tame", "wild"}]

End(ss, i) == ss[i].first + ss[i].num

Herds(ss) ==
  /\ ss \in Seq(Solver)
  /\ \A i \in 1 .. Len(ss) : ss[i].num >= 3
  /\ Len(ss) >= 1 => ss[1].first = 0
  /\ \A i \in 2 .. Len(ss) : ss[i].first = End(ss, i - 1)

LEMMA HerdType ==
  ASSUME NEW ss, Herds(ss), NEW i \in 1 .. Len(ss)
  PROVE  /\ ss[i].first \in Nat /\ ss[i].num \in Nat /\ ss[i].num >= 3
         /\ End(ss, i) \in Nat /\ ss[i].mode \in {"both", "tame", "wild"}
         /\ ss[i].first = IF i = 1 THEN 0 ELSE End(ss, i - 1)
<1>1. ss[i] \in Solver
  BY DEF Herds
<1>2. Len(ss) \in Nat /\ Len(ss) >= 1
  BY DEF Herds
<1>3. ss[i].first = IF i = 1 THEN 0 ELSE End(ss, i - 1)
  BY <1>2 DEF Herds
<1>4. ss[i].first \in Nat /\ ss[i].num \in Nat /\ ss[i].mode \in {"both", "tame", "wild"}
  BY <1>1 DEF Solver
<1>5. End(ss, i) \in Nat
  <2>1. PICK a \in Nat, b \in Nat : a = ss[i].first /\ b = ss[i].num
    BY <1>4
  <2>2. End(ss, i) = a + b
    BY <2>1 DEF End
  <2>3. a + b \in Nat
    OBVIOUS
  <2> QED
    BY ONLY <2>2, <2>3, Zenon
<1>6. ss[i].num >= 3
  BY DEF Herds
<1> QED
  BY <1>3, <1>4, <1>5, <1>6

(* They hold as many kangaroos as the last one's end says. *)
LEMMA HerdsSum ==
  ASSUME NEW ss, Herds(ss), Len(ss) >= 1
  PROVE  TotalOf([s \in DOMAIN ss |-> ss[s].num]) = End(ss, Len(ss))
<1> DEFINE nums == [s \in DOMAIN ss |-> ss[s].num]
           g == [k \in 0 .. Len(ss) |-> IF k = 0 THEN 0 ELSE End(ss, k)]
<1>1. PICK n \in Nat : n = Len(ss) /\ n >= 1 /\ DOMAIN ss = 1 .. n
  BY DEF Herds
<1>2. nums \in [1 .. n -> Nat] /\ \A k \in 1 .. n : nums[k] = ss[k].num
  BY <1>1, HerdType
<1>3. g \in [0 .. n -> Int] /\ g[0] = 0 /\ \A k \in 1 .. n : g[k] = End(ss, k)
  BY <1>1, HerdType
<1>4. \A k \in 1 .. n : k - 1 \in 0 .. n /\ g[k - 1] = IF k = 1 THEN 0 ELSE End(ss, k - 1)
  BY <1>1
<1> HIDE DEF nums, g
<1>5. Len(nums) = n /\ Numbers(nums)
  BY <1>2, Tabulated DEF Numbers
<1>6. ASSUME NEW k \in 1 .. n PROVE g[k] = g[k - 1] + nums[k]
  <2>1. g[k - 1] = ss[k].first /\ g[k] = ss[k].first + ss[k].num
    BY <1>1, <1>3, <1>4, HerdType DEF End
  <2> QED
    BY <1>2, <2>1
<1>7. IsSum(g, nums)
  BY <1>3, <1>5, <1>6 DEF IsSum
<1>8. TotalOf(nums) = g[n]
  BY <1>5, <1>7, TotalOfSum
<1> QED
  BY <1>1, <1>3, <1>8 DEF nums

(* Every place up to the last one's end is in one of them, and there is no other. *)
LEMMA HerdsCover ==
  ASSUME NEW ss, Herds(ss), Len(ss) >= 1
  PROVE  /\ \A j \in 1 .. Len(ss) : End(ss, j) <= End(ss, Len(ss))
         /\ \A x \in 0 .. End(ss, Len(ss)) - 1 :
              \E j \in 1 .. Len(ss) : x \in ss[j].first .. End(ss, j) - 1
<1> DEFINE P(k) == /\ \A j \in 1 .. k : End(ss, j) <= End(ss, k)
                   /\ \A x \in 0 .. End(ss, k) - 1 :
                        \E j \in 1 .. k : x \in ss[j].first .. End(ss, j) - 1
           S == {k \in Nat : k + 1 <= Len(ss) => P(k + 1)}
<1>1. PICK n \in Nat : n = Len(ss) /\ n >= 1
  BY DEF Herds
<1>2. \A i \in 1 .. n : /\ ss[i].first \in Nat /\ ss[i].num \in Nat /\ End(ss, i) \in Nat
                      /\ End(ss, i) = ss[i].first + ss[i].num
                      /\ ss[i].first = IF i = 1 THEN 0 ELSE End(ss, i - 1)
  BY <1>1, HerdType DEF End
<1>3. 0 \in S
  BY <1>1, <1>2
<1>4. ASSUME NEW k \in Nat, k \in S PROVE k + 1 \in S
  <2> SUFFICES ASSUME (k + 1) + 1 <= n PROVE P((k + 1) + 1)
    BY <1>1
  <2>1. P(k + 1)
    BY <1>1, <1>4
  <2>2. PICK p \in 1 .. n, q \in 1 .. n : p = k + 1 /\ q = (k + 1) + 1 /\ q - 1 = p /\ q # 1
    OBVIOUS
  <2>3. PICK e \in Nat, f \in Nat, m \in Nat :
          e = End(ss, p) /\ f = End(ss, q) /\ f = e + m /\ ss[q].first = e
    <3>1. ss[q].first = End(ss, p) /\ End(ss, q) = ss[q].first + ss[q].num /\ ss[q].num \in Nat
      BY <1>2, <2>2
    <3> QED
      BY <1>2, <3>1
  <2>4. \A j \in 1 .. q : End(ss, j) <= f
    <3> SUFFICES ASSUME NEW j \in 1 .. q PROVE End(ss, j) <= f
      OBVIOUS
    <3>1. CASE j = q
      <4>1. End(ss, j) = f
        BY ONLY <2>3, <3>1, Zenon
      <4>2. f <= f
        OBVIOUS
      <4> QED
        BY ONLY <4>1, <4>2, Zenon
    <3>2. CASE j # q
      <4>1. j \in 1 .. k + 1 /\ j \in 1 .. n
        BY <2>2, <3>2
      <4>2. End(ss, j) <= e
        BY <2>1, <2>2, <2>3, <4>1
      <4>3. PICK d \in Nat : d = End(ss, j)
        BY <1>2, <4>1
      <4>4. d <= e
        BY ONLY <4>2, <4>3, Zenon
      <4>5. e <= f
        BY ONLY <2>3, e \in Nat, f \in Nat, m \in Nat
      <4>6. d <= f
        BY ONLY <4>4, <4>5, d \in Nat, e \in Nat, f \in Nat
      <4> QED
        BY ONLY <4>3, <4>6, Zenon
    <3> QED
      BY <3>1, <3>2
  <2>5. ASSUME NEW x \in 0 .. f - 1
        PROVE  \E j \in 1 .. q : x \in ss[j].first .. End(ss, j) - 1
    <3>1. CASE x < e
      <4>1. x \in 0 .. End(ss, k + 1) - 1
        BY <2>2, <2>3, <3>1
      <4>2. PICK j \in 1 .. k + 1 : x \in ss[j].first .. End(ss, j) - 1
        BY <2>1, <4>1
      <4>3. j \in 1 .. q
        BY <2>2
      <4> QED
        BY <4>2, <4>3
    <3>2. CASE ~(x < e)
      <4>1. x \in ss[q].first .. End(ss, q) - 1 /\ q \in 1 .. q
        BY <2>3, <3>2
      <4> QED
        BY <4>1
    <3> QED
      BY <3>1, <3>2
  <2> QED
    BY <2>2, <2>3, <2>4, <2>5
<1>5. n - 1 \in S
  <2>1. Nat \subseteq S
    BY <1>3, <1>4, SetInduction
  <2> HIDE DEF S
  <2> QED
    BY <1>1, <2>1
<1>6. P(n)
  <2>1. (n - 1) + 1 = n
    BY <1>1
  <2>2. P((n - 1) + 1)
    BY <1>1, <1>5
  <2> HIDE DEF P
  <2> QED
    BY <2>1, <2>2
<1> QED
  BY <1>1, <1>6

LEMMA HerdsGrow ==
  ASSUME NEW ss, Herds(ss), NEW h \in Solver, h.num >= 3,
         h.first = IF ss = << >> THEN 0 ELSE End(ss, Len(ss))
  PROVE  /\ Herds(Append(ss, h)) /\ Len(Append(ss, h)) = Len(ss) + 1
         /\ Append(ss, h)[Len(ss) + 1] = h
         /\ \A i \in 1 .. Len(ss) : Append(ss, h)[i] = ss[i]
<1> DEFINE ts == Append(ss, h)
<1>1. PICK n \in Nat : n = Len(ss)
  BY DEF Herds
<1>2. /\ ts \in Seq(Solver) /\ Len(ts) = n + 1 /\ ts[n + 1] = h
      /\ \A i \in 1 .. n : ts[i] = ss[i]
  BY <1>1 DEF Herds
<1>3. n = 0 <=> ss = << >>
  BY <1>1 DEF Herds
<1> HIDE DEF ts
<1>4. \A i \in 1 .. n + 1 : ts[i].num >= 3
  BY <1>1, <1>2 DEF Herds
<1>5. ts[1].first = 0
  <2>1. CASE n = 0
    BY <1>2, <1>3, <2>1
  <2>2. CASE n # 0
    BY <1>1, <1>2, <2>2 DEF Herds
  <2> QED
    BY <2>1, <2>2
<1>6. ASSUME NEW i \in 2 .. n + 1 PROVE ts[i].first = End(ts, i - 1)
  <2>1. CASE i = n + 1
    <3>1. i - 1 = n /\ n >= 1 /\ ss # << >> /\ ts[i] = h /\ ts[n] = ss[n]
      BY <1>1, <1>2, <1>3, <2>1
    <3> QED
      BY <1>1, <3>1 DEF End
  <2>2. CASE i # n + 1
    <3>1. i \in 2 .. n /\ i - 1 \in 1 .. n
      BY <2>2
    <3>2. ts[i] = ss[i] /\ ts[i - 1] = ss[i - 1] /\ ss[i].first = End(ss, i - 1)
      BY <1>1, <1>2, <3>1 DEF Herds
    <3> QED
      BY <3>2 DEF End
  <2> QED
    BY <2>1, <2>2
<1>7. Herds(ts)
  BY <1>2, <1>4, <1>5, <1>6 DEF Herds
<1> QED
  BY <1>1, <1>2, <1>7 DEF ts

LEMMA NoHerds == Herds(<< >>)
<1>1. << >> \in Seq(Solver) /\ Len(<< >>) = 0
  OBVIOUS
<1> QED
  BY <1>1 DEF Herds

-----------------------------------------------------------------------------
(* The solvers. *)

Built ==
  /\ pc \notin {"build", "search"} => solvers = << >>
  /\ Herds(solvers)
  /\ solvers # << >> => problem.rangeBits # 0 /\ TwoTo[problem.rangeBits] < W
  /\ pc = "build" =>
       /\ Len(solvers) < Len(contexts)
       /\ \A i \in 1 .. Len(solvers) :
            solvers[i].num = AllocateWeightedKangaroos(total, weights)[i]
  /\ pc = "search" => Len(solvers) >= 1 /\ End(solvers, Len(solvers)) = total

LEMMA InitBuilt == Init => Built
BY NoHerds DEF Init, Built

LEMMA ContextId ==
  ASSUME Opening, NEW i \in 1 .. Len(contexts)
  PROVE  contexts[i].id \in Nat
<1>1. PICK I : contexts \in Seq(AnyContext(I))
  BY DEF Opening
<1>2. contexts[i] \in AnyContext(I)
  BY <1>1
<1> QED
  BY <1>2 DEF AnyContext

(* Herds as long as the shares hold the budget. *)
LEMMA HerdsHoldShares ==
  ASSUME NEW ss, Herds(ss), NEW alloc \in [1 .. Len(ss) -> Nat], Len(ss) >= 1,
         \A i \in 1 .. Len(ss) : ss[i].num = alloc[i]
  PROVE  End(ss, Len(ss)) = TotalOf(alloc)
<1>1. DOMAIN ss = 1 .. Len(ss)
  BY DEF Herds
<1>2. [s \in DOMAIN ss |-> ss[s].num] = alloc
  BY <1>1
<1>3. TotalOf([s \in DOMAIN ss |-> ss[s].num]) = End(ss, Len(ss))
  BY HerdsSum
<1> QED
  BY ONLY <1>2, <1>3, Zenon

LEMMA NextBuilt ==
  Asked /\ Opening /\ Weighed /\ Budgeted /\ Built /\ [Next]_vars => Built'
<1> SUFFICES ASSUME Asked, Opening, Weighed, Budgeted, Built, Steps PROVE Built'
  BY NextSteps
<1>1. CASE pc' \notin {"build", "search"} /\ solvers' = << >>
  BY <1>1, NoHerds DEF Built
<1>2. PICK n \in Nat : n = Len(contexts) /\ (pc \in HasContexts => n >= 1)
  BY DEF Opening
<1>3. CASE Quits
  BY <1>1, <1>3 DEF Quits, NoProcess
<1>4. CASE Prepares
  BY <1>1, <1>4 DEF Prepares, Preparing, Built
<1>5. CASE StartSingle
  <2>1. CASE Exit
    BY <1>1, <2>1 DEF Exit, NoProcess
  <2>2. CASE ~Exit
    <3> DEFINE herd == [gpu |-> contexts[1].id, first |-> 0, num |-> total', mode |-> args.mode]
    <3>1. /\ total' = Capped(Requested(args, contexts, problem.rangeBits), problem.rangeBits)
          /\ ~RefusesHerd(total', problem.rangeBits) /\ UNCHANGED problem
          /\ solvers' = <<herd>> /\ pc = "single" /\ pc' = "search"
      BY <1>5, <2>2 DEF StartSingle, setup
    <3>2. total' \in Int
      BY <3>1, RequestedNow
    <3>3. total' \in Nat /\ total' >= 3 /\ problem.rangeBits # 0 /\ TwoTo[problem.rangeBits] < W
      <4>1. ~(total' < 3) /\ problem.rangeBits # 0 /\ ~(TwoTo[problem.rangeBits] >= W)
        BY <3>1 DEF RefusesHerd
      <4>2. problem.rangeBits \in Nat
        BY <3>1, RequestedNow
      <4>3. TwoTo[problem.rangeBits] \in Nat
        BY <4>2, TwoToDef
      <4> QED
        BY <3>2, <4>1, <4>3, ModuliAssumption
    <3>4. contexts[1].id \in Nat
      BY <1>2, <3>1, ContextId DEF HasContexts
    <3>5. args.mode \in {"both", "tame", "wild"}
      BY <3>1, ArgumentTypes, TaskIsAccepted DEF Asked
    <3>6. herd \in Solver /\ herd.num >= 3 /\ herd.first = 0 /\ herd.num = total'
      BY <3>3, <3>4, <3>5 DEF Solver
    <3> HIDE DEF herd
    <3>7. Append(<< >>, herd) = <<herd>> /\ Len(<< >>) = 0
      OBVIOUS
    <3>8. Herds(solvers') /\ Len(solvers') = 1 /\ solvers'[1] = herd
      <4>1. Herds(Append(<< >>, herd))
        BY <3>6, NoHerds, HerdsGrow
      <4> QED
        BY <3>1, <3>7, <4>1
    <3>9. End(solvers', Len(solvers')) = total'
      <4>1. PICK t \in Int : t = total'
        BY <3>2
      <4>2. End(solvers', Len(solvers')) = 0 + t
        BY <3>6, <3>8, <4>1 DEF End
      <4>3. 0 + t = t
        OBVIOUS
      <4> QED
        BY ONLY <4>1, <4>2, <4>3, Zenon
    <3> QED
      BY <3>1, <3>3, <3>8, <3>9 DEF Built
  <2> QED
    BY <2>1, <2>2
<1>6. CASE Budget
  BY <1>1, <1>6 DEF Budget, Exit, NoProcess, Built
<1>7. CASE Calibrate
  BY <1>1, <1>7 DEF Calibrate, Built
<1>8. CASE SaveCalibrationCache
  <2>1. solvers' = << >> /\ pc' = "build" /\ UNCHANGED contexts /\ n >= 1
    BY <1>2, <1>8 DEF SaveCalibrationCache, Built, HasContexts
  <2>2. Len(<< >>) = 0
    OBVIOUS
  <2> QED
    BY <1>2, <2>1, <2>2, NoHerds DEF Built
<1>9. CASE Build
  <2> DEFINE alloc == AllocateWeightedKangaroos(total, weights)
             m == Len(solvers)
             num == alloc[m + 1]
             herd == [gpu |-> contexts[m + 1].id, first |-> KangarooOffset(num), num |-> num,
                      mode |-> "both"]
  <2>1. CASE Exit
    BY <1>1, <2>1 DEF Exit, NoProcess
  <2>2. CASE ~Exit
    <3>1. /\ ~RefusesHerd(num, problem.rangeBits) /\ UNCHANGED <<problem, contexts, total, weights>>
          /\ solvers' = Append(solvers, herd)
          /\ pc = "build" /\ pc' = IF Len(solvers') = n THEN "search" ELSE "build"
      BY <1>2, <1>9, <2>2 DEF Build, setup
    <3>2. /\ m \in Nat /\ m < n /\ n >= 1 /\ Herds(solvers)
          /\ \A i \in 1 .. m : solvers[i].num = alloc[i]
      BY <1>2, <3>1 DEF Built, Herds, HasContexts
    <3>3. /\ alloc \in [1 .. n -> Nat] /\ \A i \in 1 .. n : alloc[i] >= 3
          /\ TotalOf(alloc) = total
      <4>1. /\ total \in Nat /\ weights \in Seq(Nat) /\ Len(weights) = n /\ Len(weights) >= 1
            /\ total >= 3 * Len(weights)
        BY <1>2, <3>1, <3>2 DEF Budgeted, Weighed
      <4> QED
        BY <4>1, AllocationIsWhole
    <3> HIDE DEF alloc, m
    <3>4. m + 1 \in 1 .. n /\ num \in Nat /\ num >= 3
      BY <3>2, <3>3
    <3>5. problem.rangeBits # 0 /\ TwoTo[problem.rangeBits] < W
      <4>1. problem.rangeBits # 0 /\ ~(TwoTo[problem.rangeBits] >= W)
        BY <3>1 DEF RefusesHerd
      <4>2. problem.rangeBits \in Nat
        BY <3>1, RequestedNow
      <4>3. TwoTo[problem.rangeBits] \in Nat
        BY <4>2, TwoToDef
      <4> QED
        BY <4>1, <4>3, ModuliAssumption
    <3>6. KangarooOffset(num) = IF solvers = << >> THEN 0 ELSE End(solvers, m)
      BY DEF KangarooOffset, Last, End, m
    <3>7. KangarooOffset(num) \in Nat
      <4>1. CASE solvers = << >>
        BY <3>6, <4>1
      <4>2. CASE solvers # << >>
        <5>1. m \in 1 .. Len(solvers)
          BY <3>2, <4>2 DEF Herds, m
        <5>2. End(solvers, m) \in Nat
          BY <3>2, <5>1, HerdType
        <5> QED
          BY <3>6, <4>2, <5>2
      <4> QED
        BY <4>1, <4>2
    <3>8. contexts[m + 1].id \in Nat
      BY <1>2, <3>4, ContextId
    <3>9. /\ herd \in Solver /\ herd.num >= 3 /\ herd.num = num
          /\ herd.first = IF solvers = << >> THEN 0 ELSE End(solvers, Len(solvers))
      <4>1. herd.first = KangarooOffset(num) /\ herd.num = num
        OBVIOUS
      <4>2. herd \in Solver
        <5> HIDE DEF num
        <5> QED
          BY <3>4, <3>7, <3>8 DEF Solver
      <4> QED
        BY <3>4, <3>6, <4>1, <4>2 DEF m
    <3> HIDE DEF herd, num
    <3>10. /\ Herds(solvers') /\ Len(solvers') = m + 1 /\ solvers'[m + 1] = herd
           /\ \A i \in 1 .. m : solvers'[i] = solvers[i]
      BY <3>1, <3>2, <3>9, HerdsGrow DEF m
    <3>11. \A i \in 1 .. m + 1 : solvers'[i].num = alloc[i]
      <4> SUFFICES ASSUME NEW i \in 1 .. m + 1 PROVE solvers'[i].num = alloc[i]
        OBVIOUS
      <4>1. CASE i = m + 1
        BY <3>9, <3>10, <4>1 DEF num
      <4>2. CASE i # m + 1
        <5>1. i \in 1 .. m
          BY <3>2, <4>2
        <5> QED
          BY <3>2, <3>10, <5>1
      <4> QED
        BY <4>1, <4>2
    <3>12. AllocateWeightedKangaroos(total, weights)' = alloc
      BY <3>1 DEF alloc
    <3>13. CASE m + 1 = n
      <4>1. End(solvers', Len(solvers')) = TotalOf(alloc)
        <5>1. /\ Herds(solvers') /\ alloc \in [1 .. Len(solvers') -> Nat] /\ Len(solvers') >= 1
              /\ \A i \in 1 .. Len(solvers') : solvers'[i].num = alloc[i]
          BY <3>2, <3>3, <3>10, <3>11, <3>13
        <5> QED
          BY <5>1, HerdsHoldShares
      <4>2. pc' = "search" /\ Len(solvers') >= 1 /\ total' = total
        <5>1. Len(solvers') = n /\ n >= 1
          BY <3>2, <3>10, <3>13
        <5> QED
          BY <3>1, <5>1
      <4> QED
        BY <3>1, <3>3, <3>5, <3>10, <4>1, <4>2 DEF Built
    <3>14. CASE m + 1 # n
      <4>1. pc' = "build" /\ Len(solvers') < Len(contexts')
        BY <1>2, <3>1, <3>2, <3>10, <3>14
      <4> QED
        BY <3>1, <3>5, <3>10, <3>11, <3>12, <4>1 DEF Built
    <3> QED
      BY <3>13, <3>14
  <2> QED
    BY <2>1, <2>2
<1>10. CASE UNCHANGED vars
  <2>1. AllocateWeightedKangaroos(total, weights)' = AllocateWeightedKangaroos(total, weights)
    BY <1>10 DEF vars
  <2> QED
    BY <1>10, <2>1 DEF vars, Built, Herds, End
<1> QED
  BY <1>3, <1>4, <1>5, <1>6, <1>7, <1>8, <1>9, <1>10 DEF Steps

IInv == Asked /\ Opening /\ Known /\ Weighed /\ Budgeted /\ Built

LEMMA LaunchInvariant == Spec => []IInv
BY InitAsked, NextAsked, InitOpening, NextOpening, InitKnown, NextKnown, InitWeighed,
   NextWeighed, InitBudgeted, NextBudgeted, InitBuilt, NextBuilt, PTL DEF Spec, IInv

-----------------------------------------------------------------------------
(* What a search starts with. *)

LEMMA SearchStarts ==
  ASSUME IInv, Searching
  PROVE  /\ Herds(solvers) /\ Len(solvers) \in Nat /\ Len(solvers) >= 1
         /\ DOMAIN solvers = 1 .. Len(solvers) /\ End(solvers, Len(solvers)) = total
         /\ total \in Nat /\ total < W
         /\ problem.base \in Nat /\ problem.pubkey \in Nat /\ problem.start \in Nat
         /\ problem.rangeBits \in Nat \ {0} /\ TwoTo[problem.rangeBits] < W
<1>1. pc = "search" /\ Asked /\ Budgeted /\ Built
  BY DEF IInv, Searching
<1>2. /\ Herds(solvers) /\ Len(solvers) \in Nat /\ Len(solvers) >= 1 /\ solvers # << >>
      /\ DOMAIN solvers = 1 .. Len(solvers) /\ End(solvers, Len(solvers)) = total
  BY <1>1 DEF Built, Herds
<1>3. /\ problem.base \in Nat /\ problem.pubkey \in Nat /\ problem.start \in Nat
      /\ problem.rangeBits \in Nat
  BY <1>1, TaskIsAccepted, ProblemType DEF Asked
<1>4. problem.rangeBits # 0 /\ TwoTo[problem.rangeBits] < W
  BY <1>1, <1>2 DEF Built
<1>5. total \in Nat /\ total <= MaxKangaroos(problem.rangeBits)
  BY <1>1 DEF Budgeted
<1>6. total < W
  <2>1. PICK t \in Nat : t = TwoTo[problem.rangeBits]
    BY <1>3, TwoToDef
  <2>2. t < W /\ 3 < W /\ W \in Nat
    BY <1>4, <2>1, ModuliAssumption
  <2>3. total <= IF t > 3 THEN t ELSE 3
    BY <1>5, <2>1 DEF MaxKangaroos
  <2> QED
    BY <1>5, <2>2, <2>3
<1> QED
  BY <1>2, <1>3, <1>4, <1>5, <1>6

(* The budget is spent to the last kangaroo, whatever weights the probes have measured
   and whichever GPUs could be opened, and every solver that searches for both has
   kangaroos of every type. *)
THEOREM TheBudgetIsSpent == Spec => []BudgetIsSpent
<1>1. IInv => BudgetIsSpent
  <2> SUFFICES ASSUME IInv, Searching
               PROVE  /\ TotalOf([s \in DOMAIN solvers |-> solvers[s].num]) = total
                      /\ \A s \in DOMAIN solvers : solvers[s].mode = "both" =>
                           {KTypeOf("both", i, solvers[s].num) : i \in 0 .. solvers[s].num - 1}
                             = KType
    BY DEF BudgetIsSpent
  <2>1. TotalOf([s \in DOMAIN solvers |-> solvers[s].num]) = End(solvers, Len(solvers))
    BY SearchStarts, HerdsSum
  <2>2. End(solvers, Len(solvers)) = total
    BY SearchStarts
  <2>3. ASSUME NEW s \in DOMAIN solvers
        PROVE  {KTypeOf("both", i, solvers[s].num) : i \in 0 .. solvers[s].num - 1} = KType
    <3>1. s \in 1 .. Len(solvers) /\ Herds(solvers)
      BY SearchStarts
    <3>2. solvers[s].num \in Nat /\ solvers[s].num >= 3
      BY <3>1, HerdType
    <3> QED
      BY <3>2, HerdHasAllTypes
  <2> QED
    BY <2>1, <2>2, <2>3
<1> QED
  BY <1>1, LaunchInvariant, PTL

(* Every kangaroo of every GPU, with a constraint or without, starts at the point its
   distance says. *)
THEOREM StartsAreNamed == Spec => []StartsNamePoints
<1>1. IInv => StartsNamePoints
  <2> SUFFICES ASSUME IInv, Searching, problem.start + TwoTo[problem.rangeBits] <= W,
                      NEW s \in DOMAIN solvers, NEW i \in 0 .. solvers[s].num - 1
               PROVE  LET k == Kangaroo(problem, solvers[s].mode, i, solvers[s].num,
                                        solvers[s].first, total)
                      IN \E d \in DistanceScalarPair(k.dist) :
                           k.log = (OriginOf(k.ktype, problem.base * problem.start, problem.pubkey)
                                      + problem.base * d) % N
    BY DEF StartsNamePoints
  <2>1. s \in 1 .. Len(solvers) /\ Herds(solvers) /\ Len(solvers) >= 1
    BY SearchStarts
  <2>2. PICK first \in Nat, num \in Nat, e \in Nat :
          /\ first = solvers[s].first /\ num = solvers[s].num /\ e = End(solvers, s)
          /\ e = first + num
    BY <2>1, HerdType DEF End
  <2>3. e <= total
    <3>1. End(solvers, s) <= End(solvers, Len(solvers))
      BY <2>1, HerdsCover
    <3> QED
      BY <2>2, <3>1, SearchStarts
  <2>4. i \in Nat /\ first + i \in Word
    <3>1. i \in 0 .. num - 1
      BY <2>2
    <3>2. total \in Nat /\ total < W /\ W \in Nat
      BY SearchStarts, ModuliAssumption
    <3> QED
      BY <2>2, <2>3, <3>1, <3>2 DEF Word
  <2> DEFINE k == Kangaroo(problem, solvers[s].mode, i, solvers[s].num, solvers[s].first, total)
  <2>5. IsNamed(k.log, k.dist, OriginOf(k.ktype, problem.base * problem.start, problem.pubkey),
                problem.base)
    <3>1. /\ total \in Nat
          /\ problem.base \in Nat /\ problem.pubkey \in Nat /\ problem.start \in Nat
          /\ problem.rangeBits \in Nat \ {0} /\ TwoTo[problem.rangeBits] < W
      BY SearchStarts
    <3>2. solvers[s].first \in Nat /\ solvers[s].first + i \in Word
      BY <2>2, <2>4
    <3> QED
      BY <2>4, <3>1, <3>2, StartNames
  <2> HIDE DEF k
  <2>6. \E d \in DistanceScalarPair(k.dist) :
          k.log = (OriginOf(k.ktype, problem.base * problem.start, problem.pubkey)
                     + problem.base * d) % N
    BY <2>5, Zenon DEF IsNamed
  <2> QED
    BY <2>6 DEF k
<1> QED
  BY <1>1, LaunchInvariant, PTL

(* As many places as kangaroos, if no two share one. *)
Distinct(f, count, T) ==
  /\ f \in [0 .. count - 1 -> T]
  /\ \A g, h \in 0 .. count - 1 : f[g] = f[h] => g = h

LEMMA DistinctPlaces ==
  ASSUME NEW count \in Nat, NEW T, NEW f, Distinct(f, count, T)
  PROVE  Cardinality({f[g] : g \in 0 .. count - 1}) = count
<1> DEFINE D == 0 .. count - 1
           R == {f[g] : g \in D}
<1>1. IsFiniteSet(D) /\ Cardinality(D) = count
  BY FS_Interval
<1>2. f \in [D -> R] /\ \A t \in R : \E g \in D : f[g] = t
  BY DEF Distinct
<1> HIDE DEF D, R
<1>3. \A g, h \in D : f[g] = f[h] => g = h
  BY DEF D, Distinct
<1>4. ExistsBijection(D, R)
  <2>1. f \in Bijection(D, R)
    BY <1>2, <1>3, Fun_IsBij
  <2> QED
    BY <2>1, Fun_ExistsBij
<1>5. f \in Surjection(D, R)
  BY <1>2, Fun_IsSurj
<1>6. IsFiniteSet(R)
  BY <1>1, <1>5, FS_Surjection
<1> QED
  BY <1>1, <1>4, <1>6, FS_Bijection DEF D, R

(* No two kangaroos of a search start at the same place, however they are spread over
   the GPUs. *)
THEOREM StartsAreUnique == Spec => []UniqueStarts
<1>1. IInv => UniqueStarts
  <2> SUFFICES ASSUME IInv, Searching, total <= TwoTo[problem.rangeBits]
               PROVE  Cardinality(UNION {{Offset(problem.rangeBits, solvers[s].first + i, total) :
                                            i \in 0 .. solvers[s].num - 1} : s \in DOMAIN solvers})
                        = total
    BY DEF UniqueStarts
  <2>1. PICK n \in Nat : n = Len(solvers) /\ n >= 1 /\ DOMAIN solvers = 1 .. n
    BY SearchStarts
  <2> DEFINE place(g) == Offset(problem.rangeBits, g, total)
             f == [g \in 0 .. total - 1 |-> place(g)]
             starts == UNION {{place(solvers[s].first + i) : i \in 0 .. solvers[s].num - 1} :
                                s \in DOMAIN solvers}
  <2>2. /\ total \in Nat /\ problem.rangeBits \in Nat /\ TwoTo[problem.rangeBits] < W
        /\ Herds(solvers) /\ End(solvers, n) = total
    BY <2>1, SearchStarts
  <2>3. \A g, h \in 0 .. total - 1 : f[g] = f[h] => g = h
    <3> SUFFICES ASSUME NEW g \in 0 .. total - 1, NEW h \in 0 .. total - 1, place(g) = place(h)
                 PROVE  g = h
      OBVIOUS
    <3> QED
      BY <2>2, OffsetsDiffer
  <2>4. \A s \in 1 .. n : /\ solvers[s].first \in Nat /\ solvers[s].num \in Nat
                        /\ End(solvers, s) = solvers[s].first + solvers[s].num
    BY <2>1, <2>2, HerdType DEF End
  <2>5. /\ \A s \in 1 .. n : End(solvers, s) <= total
        /\ \A x \in 0 .. total - 1 :
             \E s \in 1 .. n : x \in solvers[s].first .. End(solvers, s) - 1
    <3>1. /\ \A s \in 1 .. Len(solvers) : End(solvers, s) <= End(solvers, Len(solvers))
          /\ \A x \in 0 .. End(solvers, Len(solvers)) - 1 :
               \E s \in 1 .. Len(solvers) : x \in solvers[s].first .. End(solvers, s) - 1
      BY <2>1, <2>2, HerdsCover
    <3> QED
      BY <2>1, <2>2, <3>1
  <2> HIDE DEF place
  <2>6. ASSUME NEW t \in starts PROVE t \in {f[g] : g \in 0 .. total - 1}
    <3>0. PICK s \in 1 .. n :
            \E i \in 0 .. solvers[s].num - 1 : t = place(solvers[s].first + i)
      BY <2>1
    <3>1. PICK i \in 0 .. solvers[s].num - 1 : t = place(solvers[s].first + i)
      BY <3>0
    <3>2. PICK a \in Nat, b \in Nat, e \in Nat :
            /\ a = solvers[s].first /\ b = solvers[s].num /\ e = End(solvers, s)
            /\ e = a + b /\ e <= total
      BY <2>4, <2>5
    <3>3. a + i \in 0 .. total - 1 /\ t = place(a + i)
      BY <2>2, <3>1, <3>2
    <3>4. t = f[a + i]
      BY <3>3
    <3> QED
      BY ONLY <3>3, <3>4, Zenon
  <2>7. ASSUME NEW g \in 0 .. total - 1 PROVE f[g] \in starts
    <3>1. PICK s \in 1 .. n : g \in solvers[s].first .. End(solvers, s) - 1
      BY <2>5
    <3>2. PICK a \in Nat, b \in Nat, e \in Nat :
            a = solvers[s].first /\ b = solvers[s].num /\ e = End(solvers, s) /\ e = a + b
      BY <2>4
    <3>3. PICK i \in 0 .. b - 1 : g = a + i
      <4>1. g - a \in 0 .. b - 1 /\ g = a + (g - a)
        BY <3>1, <3>2
      <4> QED
        BY <4>1
    <3>4. f[g] = place(solvers[s].first + i) /\ i \in 0 .. solvers[s].num - 1
      BY <3>2, <3>3
    <3> QED
      BY <2>1, <3>4
  <2>8. starts = {f[g] : g \in 0 .. total - 1}
    <3> HIDE DEF f, starts
    <3> QED
      BY <2>6, <2>7
  <2>9. PICK T : f \in [0 .. total - 1 -> T]
    <3>1. f \in [0 .. total - 1 -> {place(g) : g \in 0 .. total - 1}]
      OBVIOUS
    <3> HIDE DEF f
    <3> QED
      BY <3>1
  <2>10. Cardinality({f[g] : g \in 0 .. total - 1}) = total
    <3> HIDE DEF f
    <3>1. Distinct(f, total, T)
      BY <2>3, <2>9 DEF Distinct
    <3> QED
      BY <2>2, <3>1, DistinctPlaces
  <2> HIDE DEF f
  <2>11. Cardinality(starts) = total
    BY <2>8, <2>10
  <2> QED
    BY <2>11 DEF place
<1> QED
  BY <1>1, LaunchInvariant, PTL
=============================================================================
