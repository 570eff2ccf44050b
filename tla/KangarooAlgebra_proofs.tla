------------------------ MODULE KangarooAlgebra_proofs ------------------------
(***************************************************************************)
(* Facts about the arithmetic of KangarooAlgebra, for every group order    *)
(* and every word size: a distance word read both ways contains the        *)
(* distance, and the candidate formulas contain the key of every           *)
(* tame/wild meeting.  Then those of ModConstraint: its limbs compute with *)
(* the numbers they stand for, and the divided range holds the key.        *)
(***************************************************************************)
EXTENDS ModConstraint, NaturalsInduction, WellFoundedInduction, TLAPS

-----------------------------------------------------------------------------
(* Congruence modulo N. *)

LEMMA DivMod ==
  ASSUME NEW a \in Int
  PROVE  /\ a \div N \in Int
         /\ a % N \in Scalar
         /\ a = N * (a \div N) + (a % N)
  BY ModuliAssumption DEF Scalar

LEMMA ModOfSmall ==
  ASSUME NEW r \in Scalar
  PROVE  r % N = r
  BY ModuliAssumption DEF Scalar

LEMMA ModUnique ==
  ASSUME NEW q \in Int, NEW r \in Scalar
  PROVE  (N * q + r) % N = r
  BY ModuliAssumption DEF Scalar

(* Adding a multiple of the order changes nothing. *)
LEMMA ModAddMultiple ==
  ASSUME NEW a \in Int, NEW b \in Int
  PROVE  (a + N * b) % N = a % N
<1> DEFINE q == a \div N
           r == a % N
<1>1. q \in Int /\ r \in Scalar /\ a = N * q + r
  BY DivMod
<1> HIDE DEF q, r
<1>2. q + b \in Int /\ a + N * b = N * (q + b) + r
  BY <1>1, ModuliAssumption DEF Scalar
<1>3. (a + N * b) % N = r
  BY <1>1, <1>2, ModUnique
<1> QED
  BY <1>3 DEF r

(* Two integers with one remainder differ by a multiple of the order. *)
LEMMA SameModDiffer ==
  ASSUME NEW a \in Int, NEW b \in Int, a % N = b % N
  PROVE  \E z \in Int : a = b + N * z
<1> DEFINE p == a \div N
           q == b \div N
           r == b % N
<1>1. p \in Int /\ q \in Int /\ r \in Scalar /\ a = N * p + r /\ b = N * q + r
  BY DivMod
<1> HIDE DEF p, q, r
<1>2. p - q \in Int /\ a = b + N * (p - q)
  BY <1>1, ModuliAssumption DEF Scalar
<1> QED
  BY <1>2

(* Congruences add up, ... *)
LEMMA ModAdd ==
  ASSUME NEW a \in Int, NEW b \in Int, NEW c \in Int, NEW d \in Int,
         a % N = b % N, c % N = d % N
  PROVE  (a + c) % N = (b + d) % N
<1>1. PICK y \in Int : a = b + N * y
  BY SameModDiffer
<1>2. PICK z \in Int : c = d + N * z
  BY SameModDiffer
<1>3. a + c = (b + d) + N * (y + z) /\ y + z \in Int /\ b + d \in Int
  BY <1>1, <1>2, ModuliAssumption
<1> QED
  BY <1>3, ModAddMultiple

(* ... and keep under a change of sign. *)
LEMMA ModSigned ==
  ASSUME NEW a \in Int, NEW b \in Int, NEW s \in Sign, a % N = b % N
  PROVE  s * a \in Int /\ s * b \in Int /\ (s * a) % N = (s * b) % N
<1>1. PICK z \in Int : a = b + N * z
  BY SameModDiffer
<1>2. CASE s = 1
  BY <1>2
<1>3. CASE s = -1
  <2>1. -a = (-b) + N * (-z) /\ -b \in Int /\ -z \in Int
    BY <1>1, ModuliAssumption
  <2>2. (-a) % N = (-b) % N
    BY <2>1, ModAddMultiple
  <2> QED
    BY <1>3, <2>2
<1> QED
  BY <1>2, <1>3 DEF Sign

-----------------------------------------------------------------------------
(* One of the two readings of a word is the distance it came from, whether the
   distance was positive or had wrapped below zero, as long as its absolute
   value fits the word. *)
LEMMA DistanceIsRead ==
  ASSUME NEW a \in Int, -W < a, a < W
  PROVE  a % N \in DistanceScalarPair(a % W)
<1>1. CASE a >= 0
  <2>1. a % W = a
    BY <1>1, ModuliAssumption
  <2> QED
    BY <2>1 DEF DistanceScalarPair
<1>2. CASE a < 0
  <2>1. a % W = W + a
    <3>1. a = W * (-1) + (W + a) /\ W + a \in 0 .. W - 1
      BY <1>2, ModuliAssumption
    <3> QED
      BY <3>1, ModuliAssumption
  <2>2. NegateU256(W + a) = -a
    <3>1. W - (W + a) = -a /\ -a \in 0 .. W - 1
      BY <1>2, ModuliAssumption
    <3>2. (-a) % W = -a
      BY <3>1, ModuliAssumption
    <3> QED
      BY <3>1, <3>2 DEF NegateU256
  <2>3. -(-a) = a
    OBVIOUS
  <2> QED
    BY <2>1, <2>2, <2>3 DEF DistanceScalarPair
<1> QED
  BY <1>1, <1>2

(* Two points have one affine x only if they are equal or opposite. *)
LEMMA SameAffineX ==
  ASSUME NEW p \in Scalar, NEW q \in Scalar, AffineX(p) = AffineX(q)
  PROVE  p = q \/ p = N - q
  BY ModuliAssumption DEF Scalar, AffineX

(* A combination of base, tame and wild distance is among the candidates. *)
LEMMA CandidateFromSigns ==
  ASSUME NEW s \in Scalar, NEW key \in Scalar,
         NEW a \in Int, NEW b \in Int, -W < a, a < W, -W < b, b < W,
         NEW bs \in Sign, NEW t \in Sign, NEW w \in Sign,
         key % N = (bs * s + t * a + w * b) % N
  PROVE  key \in ComputeCandidateKeys(s, a % W, b % W)
<1> DEFINE td == a % N
           wd == b % N
<1>1. td \in DistanceScalarPair(a % W) /\ wd \in DistanceScalarPair(b % W)
  BY DistanceIsRead
<1>2. td \in Scalar /\ wd \in Scalar /\ td % N = a % N /\ wd % N = b % N
  BY DivMod, ModOfSmall
<1>3. s % N = s /\ key % N = key
  BY ModOfSmall
<1>4. s \in Int /\ Scalar \subseteq Int
  BY ModuliAssumption DEF Scalar
<1> HIDE DEF td, wd
<1>5. /\ bs * s \in Int /\ t * td \in Int /\ t * a \in Int /\ w * wd \in Int /\ w * b \in Int
      /\ (t * td) % N = (t * a) % N /\ (w * wd) % N = (w * b) % N
  BY <1>2, <1>4, ModSigned
<1>6. (bs * s + t * td) % N = (bs * s + t * a) % N
  BY <1>5, ModAdd
<1>7. (bs * s + t * td + w * wd) % N = (bs * s + t * a + w * b) % N
  BY <1>5, <1>6, ModAdd
<1>8. key = (bs * s + t * td + w * wd) % N
  BY <1>3, <1>7
<1>9. key \in ComputeCandidateScalars(s % N, td, wd)
  BY <1>3, <1>8 DEF ComputeCandidateScalars
<1> QED
  BY <1>1, <1>9 DEF ComputeCandidateKeys

(* If one walk left s, possibly reflected, and moved by a, another left the key or
   its opposite and moved by b, and they end at one point or at opposite points, the
   key is a combination of s, a and b under some signs. *)
LEMMA MeetingSigns ==
  ASSUME NEW s \in Scalar, NEW key \in Scalar, NEW a \in Int, NEW b \in Int,
         NEW u \in Sign, NEW v \in Sign,
         AffineX((u * s + a) % N) = AffineX((v * key + b) % N)
  PROVE  \E bs \in Sign, t \in Sign, w \in Sign : key = (bs * s + t * a + w * b) % N
<1> DEFINE p == u * s + a
           q == v * key + b
<1>1. s \in Int /\ key \in Int
  BY ModuliAssumption DEF Scalar
<1>2. p \in Int /\ q \in Int
  BY <1>1 DEF Sign
<1>3. PICK e \in Sign : p % N = (e * q) % N
  <2>1. p % N \in Scalar /\ q % N \in Scalar
    BY <1>2, DivMod
  <2>2. p % N = q % N \/ p % N = N - (q % N)
    BY <2>1, SameAffineX
  <2>3. CASE p % N = q % N
    BY <1>2, <2>3 DEF Sign
  <2>4. CASE p % N = N - (q % N)
    <3> DEFINE d == q \div N
               r == q % N
    <3>1. d \in Int /\ r \in Scalar /\ q = N * d + r /\ N - r \in Scalar
      BY <1>2, <2>1, <2>4, DivMod
    <3> HIDE DEF d, r, q
    <3>2. -q = N * ((-d) - 1) + (N - r) /\ (-d) - 1 \in Int
      BY <3>1, ModuliAssumption DEF Scalar
    <3>3. (-q) % N = N - r
      BY <3>1, <3>2, ModUnique
    <3>4. (-1) * q = -q /\ -1 \in Sign
      BY <3>1, ModuliAssumption DEF Sign, Scalar
    <3> QED
      BY <2>4, <3>3, <3>4 DEF r
  <2> QED
    BY <2>2, <2>3, <2>4
<1>4. PICK z \in Int : p = e * q + N * z
  BY <1>2, <1>3, SameModDiffer DEF Sign
<1>5. \E bs \in Sign, t \in Sign, w \in Sign, y \in Int : bs * s + t * a + w * b = key + N * y
  <2>1. CASE e = 1 /\ v = 1
    <3>1. u * s + 1 * a + (-1) * b = key + N * z
      BY <1>1, <1>4, <2>1, ModuliAssumption DEF Sign
    <3> QED
      BY <3>1 DEF Sign
  <2>2. CASE e = -1 /\ v = -1
    <3>1. u * s + 1 * a + 1 * b = key + N * z
      BY <1>1, <1>4, <2>2, ModuliAssumption DEF Sign
    <3> QED
      BY <3>1 DEF Sign
  <2>3. CASE e = 1 /\ v = -1
    <3>1. (-u) * s + (-1) * a + 1 * b = key + N * (-z)
      BY <1>1, <1>4, <2>3, ModuliAssumption DEF Sign
    <3>2. -u \in Sign /\ -z \in Int
      BY DEF Sign
    <3> QED
      BY <3>1, <3>2 DEF Sign
  <2>4. CASE e = -1 /\ v = 1
    <3>1. (-u) * s + (-1) * a + (-1) * b = key + N * (-z)
      BY <1>1, <1>4, <2>4, ModuliAssumption DEF Sign
    <3>2. -u \in Sign /\ -z \in Int
      BY DEF Sign
    <3> QED
      BY <3>1, <3>2 DEF Sign
  <2> QED
    BY <2>1, <2>2, <2>3, <2>4 DEF Sign
<1>6. PICK bs \in Sign, t \in Sign, w \in Sign, y \in Int : bs * s + t * a + w * b = key + N * y
  BY <1>5
<1>7. key % N = (bs * s + t * a + w * b) % N
  BY <1>1, <1>6, ModAddMultiple
<1>8. key = (bs * s + t * a + w * b) % N
  BY <1>7, ModOfSmall
<1> QED
  BY <1>8

(* The key of a tame/wild meeting is always among the candidates of the two stored
   words: the tame walk left s, possibly reflected, and moved by a; the wild walk left
   the key or its opposite and moved by b (compute_candidate_keys). *)
THEOREM MeetingYieldsKey ==
  ASSUME NEW s \in Scalar, NEW key \in Scalar,
         NEW a \in Int, NEW b \in Int, -W < a, a < W, -W < b, b < W,
         NEW u \in Sign, NEW v \in Sign,
         AffineX((u * s + a) % N) = AffineX((v * key + b) % N)
  PROVE  key \in ComputeCandidateKeys(s, a % W, b % W)
<1>1. PICK bs \in Sign, t \in Sign, w \in Sign : key = (bs * s + t * a + w * b) % N
  BY MeetingSigns
<1>2. key % N = (bs * s + t * a + w * b) % N
  BY <1>1, ModOfSmall
<1> QED
  BY <1>2, CandidateFromSigns

-----------------------------------------------------------------------------
(* Reducing a summand first changes nothing, for the order N as for the word
   size W. *)
LEMMA ReduceFirst ==
  ASSUME NEW m \in Nat, m > 0, NEW a \in Int, NEW b \in Int
  PROVE  /\ ((a % m) + b) % m = (a + b) % m
         /\ (-(a % m) + b) % m = (-a + b) % m
<1>1. \A x, y \in Int : (x + m * y) % m = x % m
  <2> SUFFICES ASSUME NEW x \in Int, NEW y \in Int
               PROVE  (x + m * y) % m = x % m
    OBVIOUS
  <2> DEFINE q == x \div m
             r == x % m
  <2>1. q \in Int /\ r \in 0 .. m - 1 /\ x = m * q + r
    OBVIOUS
  <2> HIDE DEF q, r
  <2>2. q + y \in Int /\ x + m * y = m * (q + y) + r
    BY <2>1
  <2>3. (m * (q + y) + r) % m = r
    <3>1. \A z \in Int : (m * z + r) % m = r
      BY <2>1
    <3> QED
      BY <2>2, <3>1
  <2> QED
    BY <2>1, <2>2, <2>3 DEF r
<1> DEFINE q == a \div m
           r == a % m
<1>2. q \in Int /\ r \in Int /\ a = m * q + r
  OBVIOUS
<1> HIDE DEF q, r
<1>3. a + b = (r + b) + m * q /\ r + b \in Int
  BY <1>2
<1>4. -a + b = (-r + b) + m * (-q) /\ -r + b \in Int /\ -q \in Int
  BY <1>2
<1>5. (a + b) % m = (r + b) % m
  BY <1>1, <1>2, <1>3
<1>6. (-a + b) % m = (-r + b) % m
  BY <1>1, <1>4
<1> QED
  BY <1>5, <1>6 DEF r

-----------------------------------------------------------------------------
(* Induction, on a set. *)
LEMMA SetInduction ==
  ASSUME NEW S, 0 \in S, \A n \in Nat : n \in S => n + 1 \in S
  PROVE  Nat \subseteq S
<1> SUFFICES ASSUME NEW x \in Nat, x \notin S PROVE FALSE
  OBVIOUS
<1> DEFINE T == Nat \ S
<1>1. IsWellFoundedOn(OpToRel(<, Nat), Nat)
  BY NatLessThanWellFounded
<1>2. T \subseteq Nat /\ T # {}
  OBVIOUS
<1>3. PICK m \in T : \A n \in T : ~(<<n, m>> \in OpToRel(<, Nat))
  BY <1>1, <1>2, WFMin
<1>4. m \in Nat /\ m # 0 /\ m - 1 \in Nat
  <2>1. m \in Nat /\ m \notin S
    OBVIOUS
  <2>2. m # 0
    BY <2>1
  <2> QED
    BY <2>1, <2>2
<1>5. m - 1 \notin S
  <2>1. (m - 1) + 1 = m
    BY <1>4
  <2> QED
    BY <1>3, <1>4, <2>1
<1>6. <<m - 1, m>> \in Nat \X Nat /\ <<m - 1, m>>[1] < <<m - 1, m>>[2]
  BY <1>4
<1>7. <<m - 1, m>> \in OpToRel(<, Nat)
  BY <1>6, Zenon DEF OpToRel
<1> QED
  BY <1>3, <1>4, <1>5, <1>7

(* The powers of two up to the n-th. *)
Doubling(g, n) ==
  g \in [0 .. n -> Nat] /\ g[0] = 1 /\ \A i \in 1 .. n : g[i] = 2 * g[i - 1]

LEMMA DoublingExists == \A n \in Nat : \E g : Doubling(g, n)
<1> DEFINE S == {n \in Nat : \E g : Doubling(g, n)}
<1>1. 0 \in S
  <2>1. Doubling([i \in 0 .. 0 |-> 1], 0)
    BY DEF Doubling
  <2> QED
    BY <2>1
<1>2. ASSUME NEW n \in Nat, n \in S PROVE n + 1 \in S
  <2>1. PICK g : Doubling(g, n)
    BY <1>2
  <2> DEFINE h == [i \in 0 .. n + 1 |-> IF i = n + 1 THEN 2 * g[n] ELSE g[i]]
  <2>2. h \in [0 .. n + 1 -> Nat]
    BY <2>1 DEF Doubling
  <2>3. h[0] = 1
    BY <2>1 DEF Doubling
  <2>4. ASSUME NEW i \in 1 .. n + 1 PROVE h[i] = 2 * h[i - 1]
    <3>1. i - 1 \in 0 .. n + 1 /\ i \in 0 .. n + 1 /\ i - 1 # n + 1
      BY <2>4
    <3>2. CASE i = n + 1
      BY <3>1, <3>2
    <3>3. CASE i # n + 1
      BY <2>1, <3>1, <3>3 DEF Doubling
    <3> QED
      BY <3>2, <3>3
  <2> HIDE DEF h
  <2>5. Doubling(h, n + 1)
    BY <2>2, <2>3, <2>4 DEF Doubling
  <2> QED
    BY <2>5
<1> HIDE DEF S
<1>3. Nat \subseteq S
  BY <1>1, <1>2, SetInduction
<1> QED
  BY <1>3 DEF S

LEMMA DoublingAgrees ==
  ASSUME NEW n \in Nat, NEW m \in Nat, NEW g, NEW h, Doubling(g, n), Doubling(h, m), n <= m
  PROVE  \A i \in 0 .. n : g[i] = h[i]
<1> DEFINE S == {i \in Nat : i <= n => g[i] = h[i]}
<1>1. 0 \in S
  BY DEF Doubling
<1>2. ASSUME NEW i \in Nat, i \in S PROVE i + 1 \in S
  <2>1. CASE i + 1 <= n
    <3>1. i + 1 \in 1 .. n /\ i + 1 \in 1 .. m /\ (i + 1) - 1 = i
      BY <2>1
    <3>2. g[i + 1] = 2 * g[i] /\ h[i + 1] = 2 * h[i]
      BY <3>1 DEF Doubling
    <3> QED
      BY <1>2, <2>1, <3>2
  <2> QED
    BY <2>1
<1> HIDE DEF S
<1>3. Nat \subseteq S
  BY <1>1, <1>2, SetInduction
<1> QED
  BY <1>3 DEF S

(* The equation that defines the powers of two has a solution. *)
LEMMA TwoToDef ==
  /\ TwoTo \in [Nat -> Nat]
  /\ TwoTo[0] = 1
  /\ \A b \in Nat : TwoTo[b + 1] = 2 * TwoTo[b]
<1> DEFINE G(n) == CHOOSE g : Doubling(g, n)
           F == [n \in Nat |-> G(n)[n]]
           eq(f) == f = [b \in Nat |-> IF b = 0 THEN 1 ELSE 2 * f[b - 1]]
<1>1. \A n \in Nat : Doubling(G(n), n)
  BY DoublingExists
<1> HIDE DEF G
<1>2. ASSUME NEW b \in Nat, b # 0 PROVE F[b] = 2 * F[b - 1]
  <2>1. b - 1 \in Nat /\ b - 1 <= b /\ b - 1 \in 0 .. b - 1 /\ b \in 1 .. b
    BY <1>2
  <2>2. G(b)[b] = 2 * G(b)[b - 1]
    BY <1>1, <2>1 DEF Doubling
  <2>3. Doubling(G(b), b) /\ Doubling(G(b - 1), b - 1)
    BY <1>1, <2>1
  <2>4. G(b - 1)[b - 1] = G(b)[b - 1]
    BY <2>1, <2>3, DoublingAgrees
  <2> QED
    BY <2>1, <2>2, <2>4
<1>3. F[0] = 1
  BY <1>1 DEF Doubling
<1>4. eq(F)
  <2>1. \A b \in Nat : F[b] = IF b = 0 THEN 1 ELSE 2 * F[b - 1]
    BY <1>2, <1>3
  <2> HIDE DEF F
  <2>2. F = [b \in Nat |-> F[b]]
    BY DEF F
  <2> QED
    BY <2>1, <2>2
<1> HIDE DEF F
<1>5. TwoTo = CHOOSE f : eq(f)
  BY DEF TwoTo
<1>6. eq(TwoTo)
  BY <1>4, <1>5
<1>7. \A b \in Nat : TwoTo[b] = IF b = 0 THEN 1 ELSE 2 * TwoTo[b - 1]
  BY <1>6
<1>8. TwoTo[0] = 1
  BY <1>7
<1>9. ASSUME NEW b \in Nat PROVE TwoTo[b + 1] = 2 * TwoTo[b]
  <2>1. b + 1 \in Nat /\ b + 1 # 0 /\ (b + 1) - 1 = b
    OBVIOUS
  <2> QED
    BY <1>7, <2>1
<1>10. \A b \in Nat : TwoTo[b] \in Nat
  <2> DEFINE S == {b \in Nat : TwoTo[b] \in Nat}
  <2>1. 0 \in S
    BY <1>8
  <2>2. \A n \in Nat : n \in S => n + 1 \in S
    BY <1>9
  <2> HIDE DEF S
  <2>3. Nat \subseteq S
    BY <2>1, <2>2, SetInduction
  <2> QED
    BY <2>3 DEF S
<1>11. TwoTo = [b \in Nat |-> TwoTo[b]]
  BY <1>6
<1> QED
  BY <1>8, <1>9, <1>10, <1>11

LEMMA LeastNatural ==
  ASSUME NEW T \in SUBSET Nat, T # {}
  PROVE  \E m \in T : \A n \in T : m <= n
<1> SUFFICES ASSUME \A m \in T : \E n \in T : ~(m <= n)
             PROVE  FALSE
  OBVIOUS
<1> DEFINE S == {n \in Nat : \A m \in T : n <= m}
<1>1. 0 \in S
  OBVIOUS
<1>2. ASSUME NEW n \in Nat, n \in S PROVE n + 1 \in S
  <2>1. n \notin T
    BY <1>2
  <2>2. \A m \in T : n <= m /\ m # n /\ m \in Nat
    BY <1>2, <2>1
  <2> QED
    BY <2>2
<1> HIDE DEF S
<1>3. Nat \subseteq S
  BY <1>1, <1>2, SetInduction
<1>4. PICK m \in T : TRUE
  OBVIOUS
<1>5. m \in Nat /\ m + 1 \in Nat /\ ~(m + 1 <= m)
  BY <1>4
<1>6. m + 1 \in S
  BY <1>3, <1>5
<1> QED
  BY <1>4, <1>5, <1>6 DEF S

LEMMA TwoToBounds ==
  \A b \in Nat : TwoTo[b] \in Nat /\ TwoTo[b] > b
<1> DEFINE S == {b \in Nat : TwoTo[b] > b}
<1>1. 0 \in S
  BY TwoToDef
<1>2. ASSUME NEW b \in Nat, b \in S PROVE b + 1 \in S
  <2>1. TwoTo[b + 1] = 2 * TwoTo[b] /\ TwoTo[b] \in Nat
    BY TwoToDef
  <2> QED
    BY <1>2, <2>1
<1> HIDE DEF S
<1>3. Nat \subseteq S
  BY <1>1, <1>2, SetInduction
<1>4. \A b \in Nat : TwoTo[b] \in Nat
  BY TwoToDef
<1> QED
  BY <1>3, <1>4 DEF S

LEMMA TwoToSum ==
  \A a, b \in Nat : TwoTo[a + b] = TwoTo[a] * TwoTo[b]
<1> SUFFICES ASSUME NEW a \in Nat
             PROVE  \A b \in Nat : TwoTo[a + b] = TwoTo[a] * TwoTo[b]
  OBVIOUS
<1> DEFINE S == {b \in Nat : TwoTo[a + b] = TwoTo[a] * TwoTo[b]}
<1>1. 0 \in S
  <2>1. a + 0 = a /\ TwoTo[a] \in Nat /\ TwoTo[0] = 1
    BY TwoToDef
  <2> QED
    BY <2>1
<1>2. ASSUME NEW b \in Nat, b \in S PROVE b + 1 \in S
  <2>1. TwoTo[b + 1] = 2 * TwoTo[b] /\ TwoTo[a] \in Nat /\ TwoTo[b] \in Nat
    BY TwoToDef
  <2>2. a + (b + 1) = (a + b) + 1 /\ a + b \in Nat
    OBVIOUS
  <2>3. TwoTo[a + (b + 1)] = 2 * TwoTo[a + b]
    BY <2>2, TwoToDef
  <2>4. TwoTo[a + b] = TwoTo[a] * TwoTo[b]
    BY <1>2
  <2>5. \A x, y \in Nat : 2 * (x * y) = x * (2 * y)
    OBVIOUS
  <2> QED
    BY <2>1, <2>3, <2>4, <2>5
<1> HIDE DEF S
<1>3. Nat \subseteq S
  BY <1>1, <1>2, SetInduction
<1> QED
  BY <1>3 DEF S

LEMMA TwoToMonotone ==
  ASSUME NEW a \in Nat, NEW b \in Nat, a <= b
  PROVE  TwoTo[a] <= TwoTo[b]
<1>1. PICK c \in Nat : b = a + c
  <2>1. b - a \in Nat /\ b = a + (b - a)
    OBVIOUS
  <2> QED
    BY <2>1
<1>2. TwoTo[b] = TwoTo[a] * TwoTo[c]
  BY <1>1, TwoToSum
<1>3. TwoTo[a] \in Nat /\ TwoTo[c] \in Nat /\ TwoTo[c] >= 1
  BY TwoToBounds
<1>4. \A x, y \in Nat : y >= 1 => x <= x * y
  OBVIOUS
<1> QED
  BY <1>2, <1>3, <1>4

(* The number of a number's bits. *)
LEMMA BitsExist ==
  ASSUME NEW n \in Nat
  PROVE  \E b \in 0 .. n : n < TwoTo[b] /\ \A c \in 0 .. b - 1 : n >= TwoTo[c]
<1> DEFINE T == {b \in Nat : n < TwoTo[b]}
<1>1. n \in T
  BY TwoToBounds
<1>2. PICK b \in T : \A c \in T : b <= c
  BY <1>1, LeastNatural
<1>3. b \in 0 .. n /\ n < TwoTo[b]
  BY <1>1, <1>2
<1>4. ASSUME NEW c \in 0 .. b - 1 PROVE n >= TwoTo[c]
  <2>1. c \in Nat /\ ~(b <= c)
    BY <1>3
  <2>2. c \notin T
    BY <1>2, <2>1
  <2>3. TwoTo[c] \in Nat
    BY <2>1, TwoToDef
  <2> QED
    BY <2>1, <2>2, <2>3
<1> QED
  BY <1>3, <1>4

(* The place of its highest bit. *)
LEMMA HighestBitExists ==
  ASSUME NEW n \in Nat, n >= 1
  PROVE  \E e \in 0 .. n : TwoTo[e] <= n /\ n < TwoTo[e + 1]
<1>1. PICK b \in 0 .. n : n < TwoTo[b] /\ \A c \in 0 .. b - 1 : n >= TwoTo[c]
  BY BitsExist
<1>2. b # 0
  BY <1>1, TwoToDef
<1>3. b - 1 \in 0 .. n /\ b - 1 \in 0 .. b - 1 /\ (b - 1) + 1 = b
  BY <1>2
<1>4. b - 1 \in Nat /\ TwoTo[b - 1] \in Nat
  BY <1>3, TwoToDef
<1>5. TwoTo[b - 1] <= n
  BY <1>1, <1>3, <1>4
<1> QED
  BY <1>1, <1>3, <1>5

-----------------------------------------------------------------------------
(* Division with remainder, by any positive number. *)
LEMMA Division ==
  ASSUME NEW d \in Nat, d >= 1, NEW a \in Int
  PROVE  /\ a \div d \in Int /\ a % d \in 0 .. d - 1
         /\ a = d * (a \div d) + (a % d)
         /\ a >= 0 => a \div d \in Nat
  OBVIOUS

LEMMA DivisionUnique ==
  ASSUME NEW d \in Nat, d >= 1, NEW q \in Int, NEW r \in 0 .. d - 1
  PROVE  (d * q + r) \div d = q /\ (d * q + r) % d = r
  OBVIOUS

LEMMA LessFactor ==
  ASSUME NEW a \in Nat, NEW b \in Int, NEW c \in Int, a * b < a * c
  PROVE  b < c
  OBVIOUS

(* The keys of a class in a window from `from` on: their multiples of the step lie
   in a window of a size that is halved as often as the step is sure to allow, from
   the rounded-up quotient of the start on. *)
Beyond(from, rest) == IF from >= rest THEN from - rest ELSE 0

RoundedUp(v, step) == IF v % step > 0 THEN (v \div step) + 1 ELSE v \div step

InWindow(step, rest, from, k, r, f) ==
  LET js == RoundedUp(Beyond(from, rest), step)
      j == (k - rest) \div step
  IN /\ j \in js .. js + TwoTo[IF r > f THEN r - f ELSE 1] - 1
     /\ k = step * j + rest

LEMMA ClassWindow ==
  ASSUME NEW step \in Nat, step >= 1, NEW rest \in 0 .. step - 1,
         NEW from \in Nat, NEW k \in Nat, k >= from, k % step = rest,
         NEW r \in Nat, k < from + TwoTo[r],
         NEW f \in Nat, TwoTo[f] <= step
  PROVE  InWindow(step, rest, from, k, r, f)
<1> DEFINE j == k \div step
           diff == Beyond(from, rest)
           js == RoundedUp(diff, step)
           t == j - js
           size == TwoTo[IF r > f THEN r - f ELSE 1]
<1>a. diff \in Nat /\ diff = IF from >= rest THEN from - rest ELSE 0
  BY DEF Beyond
<1> HIDE DEF diff
<1>b. /\ js \in Nat
      /\ js = IF diff % step > 0 THEN (diff \div step) + 1 ELSE diff \div step
  <2>1. diff \div step \in Nat
    <3>1. step \in Nat /\ step >= 1 /\ diff \in Int /\ diff >= 0
      BY <1>a
    <3> QED
      BY ONLY <3>1, Division
  <2> QED
    BY <2>1 DEF RoundedUp
<1> HIDE DEF js
<1>1. j \in Nat /\ k = step * j + rest
  BY Division
<1>2. (k - rest) \div step = j
  <2>1. k - rest = step * j + 0 /\ j \in Int /\ 0 \in 0 .. step - 1
    BY <1>1
  <2> QED
    BY <2>1, DivisionUnique
<1> HIDE DEF j
<1>3. diff <= step * j /\ step * j - diff <= k - from
  BY <1>1, <1>a
<1>4. diff <= step * js /\ step * js < diff + step
  <2> DEFINE q == diff \div step
             m == diff % step
  <2>1. q \in Nat /\ m \in 0 .. step - 1 /\ diff = step * q + m
    <3>1. step \in Nat /\ step >= 1 /\ diff \in Int /\ diff >= 0
      BY <1>a
    <3> QED
      BY ONLY <3>1, Division
  <2> HIDE DEF q, m
  <2>2. js = IF m > 0 THEN q + 1 ELSE q
    BY <1>b DEF q, m
  <2>3. step * (q + 1) = step * q + step
    BY <2>1
  <2> QED
    BY <2>1, <2>2, <2>3
<1>5. js <= j
  <2>1. step * j \in Int /\ step * js \in Int
    BY <1>1, <1>b
  <2>2. step * js < step * j + step
    BY <1>3, <1>4, <1>a, <1>b, <2>1
  <2>3. step * (j + 1) = step * j + step
    BY <1>1
  <2>4. js < j + 1
    BY <1>1, <1>b, <2>2, <2>3, LessFactor
  <2> QED
    BY <1>1, <1>b, <2>4
<1>6. t \in Nat /\ step * t = step * j - step * js
  BY <1>1, <1>5, <1>b
<1>7. step * t < TwoTo[r] /\ TwoTo[r] \in Nat /\ TwoTo[f] \in Nat
  <2>1. TwoTo[r] \in Nat /\ TwoTo[f] \in Nat
    BY TwoToDef
  <2>2. step * j \in Int /\ step * js \in Int
    BY <1>1, <1>b
  <2> QED
    BY <1>3, <1>4, <1>6, <1>a, <2>1, <2>2
<1>8. TwoTo[f] * t < TwoTo[r]
  <2>1. \A x, y, z \in Nat : x <= y => x * z <= y * z
    OBVIOUS
  <2>2. TwoTo[f] * t <= step * t
    BY <1>6, <1>7, <2>1
  <2>3. TwoTo[f] * t \in Int /\ step * t \in Int
    BY <1>6, <1>7
  <2> QED
    BY <1>7, <2>2, <2>3
<1> HIDE DEF t
<1>9. t < size /\ size \in Nat
  <2>1. CASE r > f
    <3>1. PICK e \in Nat : r - f = e /\ r = f + e
      BY <2>1
    <3>2. TwoTo[r] = TwoTo[f] * TwoTo[e] /\ TwoTo[e] \in Nat
      <4>1. TwoTo[f + e] = TwoTo[f] * TwoTo[e]
        BY TwoToSum
      <4>2. TwoTo[e] \in Nat
        BY TwoToDef
      <4> QED
        BY <3>1, <4>1, <4>2
    <3>3. t < TwoTo[e]
      BY <1>6, <1>7, <1>8, <3>2, LessFactor
    <3>4. size = TwoTo[e]
      BY <2>1, <3>1
    <3> QED
      BY <3>2, <3>3, <3>4
  <2>2. CASE ~(r > f)
    <3>1. TwoTo[r] <= TwoTo[f]
      BY <2>2, TwoToMonotone
    <3>2. TwoTo[f] * 1 = TwoTo[f] /\ TwoTo[f] * t \in Int
      BY <1>6, <1>7
    <3>3. TwoTo[f] * t < TwoTo[f] * 1
      BY <1>7, <1>8, <3>1, <3>2
    <3>4. t < 1
      BY <1>6, <1>7, <3>3, LessFactor
    <3>5. TwoTo[1] = 2
      <4>1. TwoTo[0 + 1] = 2 * TwoTo[0] /\ TwoTo[0] = 1
        BY TwoToDef
      <4> QED
        BY <4>1
    <3>6. size = 2
      BY <2>2, <3>5
    <3> QED
      BY <1>6, <3>4, <3>6
  <2> QED
    BY <2>1, <2>2
<1> HIDE DEF size
<1>10. j \in js .. js + size - 1
  BY <1>1, <1>5, <1>6, <1>9, <1>b DEF t
<1> QED
  BY <1>1, <1>2, <1>10 DEF size, InWindow, js, diff

-----------------------------------------------------------------------------
(* Numbers of four limbs, to any base. *)
Horner(B, a, b, c, d) == a + B * (b + B * (c + B * d))

(* Taking a number below the base from a limb, with a borrow. *)
LEMMA LimbMinus ==
  ASSUME NEW B \in Nat, B >= 2, NEW x \in 0 .. B - 1, NEW y \in 0 .. B - 1,
         NEW z, z = IF x >= y THEN 0 ELSE 1
  PROVE  /\ (B + x - y) % B \in 0 .. B - 1
         /\ (B + x - y) % B = x - y + B * z
<1>1. CASE x >= y
  <2>1. B + x - y = B * 1 + (x - y) /\ x - y \in 0 .. B - 1
    BY <1>1
  <2>2. (B + x - y) % B = x - y
    BY <2>1, DivisionUnique
  <2> QED
    BY <1>1, <2>1, <2>2
<1>2. CASE ~(x >= y)
  <2>1. B + x - y = B * 0 + (B + x - y) /\ B + x - y \in 0 .. B - 1
    BY <1>2
  <2>2. (B + x - y) % B = B + x - y
    BY <2>1, DivisionUnique
  <2> QED
    BY <1>2, <2>1, <2>2
<1> QED
  BY <1>1, <1>2

(* Adding a carry to a limb. *)
PlusCarry(B, x, y) == (x + y) % B
Carry(B, x, y) == IF x + y = B THEN 1 ELSE 0

LEMMA LimbPlus ==
  ASSUME NEW B \in Nat, B >= 2, NEW x \in 0 .. B - 1, NEW y \in 0 .. 1
  PROVE  /\ PlusCarry(B, x, y) \in 0 .. B - 1
         /\ PlusCarry(B, x, y) = x + y - B * Carry(B, x, y)
<1>1. CASE x + y = B
  <2>1. x + y = B * 1 + 0 /\ 0 \in 0 .. B - 1
    BY <1>1
  <2>2. (x + y) % B = 0
    BY <2>1, DivisionUnique
  <2> QED
    BY <1>1, <2>2 DEF PlusCarry, Carry
<1>2. CASE x + y # B
  <2>1. x + y = B * 0 + (x + y) /\ x + y \in 0 .. B - 1
    BY <1>2
  <2>2. (x + y) % B = x + y
    BY <2>1, DivisionUnique
  <2> QED
    BY <1>2, <2>1, <2>2 DEF PlusCarry, Carry
<1> QED
  BY <1>1, <1>2

(* Dividing a limb below a remainder. *)
LEMMA LimbDivision ==
  ASSUME NEW B \in Nat, B >= 2, NEW d \in 1 .. B - 1, NEW r \in 0 .. d - 1,
         NEW x \in 0 .. B - 1
  PROVE  /\ ((r * B + x) \div d) % B \in 0 .. B - 1
         /\ (r * B + x) % d \in 0 .. d - 1
         /\ x + B * r = d * (((r * B + x) \div d) % B) + ((r * B + x) % d)
<1> DEFINE v == r * B + x
           q == v \div d
           m == v % d
<1>1. v \in Nat /\ v = x + B * r
  OBVIOUS
<1>2. v < d * B
  <2>1. r + 1 <= d /\ \A a, b, c \in Nat : a <= b => a * c <= b * c
    OBVIOUS
  <2>2. (r + 1) * B <= d * B /\ (r + 1) * B = r * B + B
    BY <2>1
  <2>3. r * B \in Int /\ d * B \in Int
    OBVIOUS
  <2> QED
    BY <2>2, <2>3
<1> HIDE DEF v
<1>3. q \in Nat /\ m \in 0 .. d - 1 /\ v = d * q + m
  <2>1. d \in Nat /\ d >= 1 /\ v \in Int /\ v >= 0
    BY <1>1
  <2> QED
    BY ONLY <2>1, Division
<1> HIDE DEF q, m
<1>4. q < B
  <2>1. d * q < d * B
    <3>1. d * q \in Int /\ d * B \in Int
      BY <1>3
    <3> QED
      BY <1>2, <1>3, <3>1
  <2> QED
    BY <1>3, <2>1, LessFactor
<1>5. q % B = q
  <2>1. q = B * 0 + q /\ q \in 0 .. B - 1
    BY <1>3, <1>4
  <2> QED
    BY <2>1, DivisionUnique
<1> QED
  BY <1>1, <1>3, <1>4, <1>5 DEF q, m, v

LEMMA HornerBounds ==
  ASSUME NEW B \in Nat, B >= 2, NEW a \in 0 .. B - 1, NEW b \in 0 .. B - 1,
         NEW c \in 0 .. B - 1, NEW d \in 0 .. B - 1
  PROVE  Horner(B, a, b, c, d) \in 0 .. B * B * B * B - 1
<1>1. ASSUME NEW M \in Nat, M >= 1, NEW x \in 0 .. B - 1, NEW h \in 0 .. M - 1
      PROVE  x + B * h \in 0 .. M * B - 1
  <2>1. h + 1 <= M /\ \A u, v, w \in Nat : u <= v => u * w <= v * w
    OBVIOUS
  <2>2. (h + 1) * B <= M * B /\ (h + 1) * B = B * h + B
    BY <2>1
  <2>3. B * h \in Nat /\ M * B \in Nat
    OBVIOUS
  <2> QED
    BY <2>2, <2>3
<1> DEFINE h2 == c + B * d
           h1 == b + B * h2
<1>2. /\ B * B \in Nat /\ B * B >= 1
      /\ B * B * B \in Nat /\ B * B * B >= 1
  <2>1. \A u, v \in Nat : u >= 1 /\ v >= 1 => u * v \in Nat /\ u * v >= 1
    OBVIOUS
  <2> QED
    BY <2>1
<1>3. h2 \in 0 .. B * B - 1
  BY <1>1
<1> HIDE DEF h2
<1>4. h1 \in 0 .. B * B * B - 1
  BY <1>1, <1>2, <1>3
<1> HIDE DEF h1
<1>5. a + B * h1 \in 0 .. B * B * B * B - 1
  BY <1>1, <1>2, <1>4
<1> QED
  BY <1>5 DEF Horner, h1, h2

(* Limb by limb, a small number is subtracted from a number; the borrow that is left
   over tells that the number was smaller. *)
Borrow(x, y) == IF x >= y THEN 0 ELSE 1
LastBorrow(a, b, c, d, v) == Borrow(d, Borrow(c, Borrow(b, Borrow(a, v))))
Minus(B, a, b, c, d, v) ==
  Horner(B, (B + a - v) % B, (B + b - Borrow(a, v)) % B,
         (B + c - Borrow(b, Borrow(a, v))) % B,
         (B + d - Borrow(c, Borrow(b, Borrow(a, v)))) % B)

LEMMA LimbwiseMinus ==
  ASSUME NEW B \in Nat, B >= 2, NEW a \in 0 .. B - 1, NEW b \in 0 .. B - 1,
         NEW c \in 0 .. B - 1, NEW d \in 0 .. B - 1, NEW v \in 0 .. B - 1
  PROVE  IF LastBorrow(a, b, c, d, v) = 0
         THEN /\ Minus(B, a, b, c, d, v) = Horner(B, a, b, c, d) - v
              /\ Horner(B, a, b, c, d) >= v
         ELSE Horner(B, a, b, c, d) < v
<1> DEFINE b1 == Borrow(a, v)
           b2 == Borrow(b, b1)
           b3 == Borrow(c, b2)
           b4 == Borrow(d, b3)
<1>a. LastBorrow(a, b, c, d, v) = b4
  BY DEF LastBorrow
<1>b. Minus(B, a, b, c, d, v) =
        Horner(B, (B + a - v) % B, (B + b - b1) % B, (B + c - b2) % B, (B + d - b3) % B)
  BY DEF Minus
<1>c. b1 = IF a >= v THEN 0 ELSE 1
  BY DEF Borrow
<1>d. b2 = IF b >= b1 THEN 0 ELSE 1
  BY DEF Borrow
<1>e. b3 = IF c >= b2 THEN 0 ELSE 1
  BY DEF Borrow
<1>f. b4 = IF d >= b3 THEN 0 ELSE 1
  BY DEF Borrow
<1> HIDE DEF b1, b2, b3, b4
<1> DEFINE r0 == (B + a - v) % B
           r1 == (B + b - b1) % B
           r2 == (B + c - b2) % B
           r3 == (B + d - b3) % B
           R2 == r2 + B * r3
           R1 == r1 + B * R2
           R0 == r0 + B * R1
           H2 == c + B * d
           H1 == b + B * H2
           H0 == a + B * H1
<1>0. b1 \in 0 .. 1 /\ b2 \in 0 .. 1 /\ b3 \in 0 .. 1 /\ b4 \in 0 .. 1
  BY <1>c, <1>d, <1>e, <1>f
<1>1. r0 \in 0 .. B - 1 /\ r0 = a - v + B * b1
  BY <1>c, LimbMinus
<1>2. r1 \in 0 .. B - 1 /\ r1 = b - b1 + B * b2
  BY <1>0, <1>d, LimbMinus
<1>3. r2 \in 0 .. B - 1 /\ r2 = c - b2 + B * b3
  BY <1>0, <1>e, LimbMinus
<1>4. r3 \in 0 .. B - 1 /\ r3 = d - b3 + B * b4
  BY <1>0, <1>f, LimbMinus
<1> HIDE DEF r0, r1, r2, r3
<1>5. \A x, y, z, h, e, B1 \in Int : (x - y + B1 * z) + B1 * (h - z + e) = (x + B1 * h) - y + B1 * e
  OBVIOUS
<1>6. R2 = H2 - b2 + B * (B * b4) /\ R2 \in Int /\ H2 \in Nat /\ B * b4 \in Int /\ B * (B * b4) \in Int
  <2>1. B * b4 \in Int /\ B * (B * b4) \in Int /\ H2 \in Nat
    BY <1>0
  <2> QED
    BY <1>0, <1>3, <1>4, <1>5, <2>1
<1> HIDE DEF R2, H2
<1>7. R1 = H1 - b1 + B * (B * (B * b4)) /\ R1 \in Int /\ H1 \in Nat /\ B * (B * (B * b4)) \in Int
  <2>1. B * (B * (B * b4)) \in Int /\ H1 \in Nat
    BY <1>0, <1>6
  <2> QED
    BY <1>0, <1>2, <1>5, <1>6, <2>1
<1> HIDE DEF R1, H1
<1>8. R0 = H0 - v + B * (B * (B * (B * b4))) /\ R0 \in Int /\ H0 \in Nat
  <2>1. B * (B * (B * (B * b4))) \in Int /\ H0 \in Nat
    BY <1>0, <1>7
  <2> QED
    BY <1>0, <1>1, <1>5, <1>7, <2>1
<1>9. R0 \in 0 .. B * B * B * B - 1
  BY <1>1, <1>2, <1>3, <1>4, HornerBounds DEF Horner, R1, R2
<1>10. Horner(B, a, b, c, d) = H0 /\ Horner(B, r0, r1, r2, r3) = R0
  BY DEF Horner, H1, H2, R1, R2
<1> HIDE DEF R0, H0
<1>11. CASE b4 = 0
  <2>1. B * (B * (B * (B * b4))) = 0
    BY <1>11
  <2> QED
    BY <1>8, <1>9, <1>10, <1>11, <1>a, <1>b, <2>1 DEF r0, r1, r2, r3
<1>12. CASE b4 = 1
  <2>1. B * (B * (B * (B * b4))) = B * B * B * B /\ B * B * B * B \in Nat
    BY <1>12
  <2> QED
    BY <1>8, <1>9, <1>10, <1>12, <1>a, <2>1
<1> QED
  BY <1>0, <1>11, <1>12

(* Limb by limb, a number is divided by a small one. *)
Quotient(B, a, b, c, d, n) ==
  LET r3 == (0 * B + d) % n
      r2 == (r3 * B + c) % n
      r1 == (r2 * B + b) % n
  IN Horner(B, ((r1 * B + a) \div n) % B, ((r2 * B + b) \div n) % B,
            ((r3 * B + c) \div n) % B, ((0 * B + d) \div n) % B)
LastRemainder(B, a, b, c, d, n) ==
  LET r3 == (0 * B + d) % n
      r2 == (r3 * B + c) % n
      r1 == (r2 * B + b) % n
  IN (r1 * B + a) % n

LEMMA LimbwiseDivision ==
  ASSUME NEW B \in Nat, B >= 2, NEW a \in 0 .. B - 1, NEW b \in 0 .. B - 1,
         NEW c \in 0 .. B - 1, NEW d \in 0 .. B - 1, NEW n \in 1 .. B - 1
  PROVE  /\ Quotient(B, a, b, c, d, n) = Horner(B, a, b, c, d) \div n
         /\ LastRemainder(B, a, b, c, d, n) = Horner(B, a, b, c, d) % n
<1> DEFINE r3 == (0 * B + d) % n
           r2 == (r3 * B + c) % n
           r1 == (r2 * B + b) % n
           q0 == ((r1 * B + a) \div n) % B
           q1 == ((r2 * B + b) \div n) % B
           q2 == ((r3 * B + c) \div n) % B
           q3 == ((0 * B + d) \div n) % B
           r0 == (r1 * B + a) % n
           Q2 == q2 + B * q3
           Q1 == q1 + B * Q2
           Q0 == q0 + B * Q1
           H2 == c + B * d
           H1 == b + B * H2
           H0 == a + B * H1
<1>a. Quotient(B, a, b, c, d, n) = Horner(B, q0, q1, q2, q3)
  BY DEF Quotient
<1>b. LastRemainder(B, a, b, c, d, n) = r0
  BY DEF LastRemainder
<1>0. 0 \in 0 .. n - 1 /\ n \in Nat /\ B \in Int /\ n \in Int
  OBVIOUS
<1> HIDE DEF r1, r2, r3
<1>1. q3 \in 0 .. B - 1 /\ r3 \in 0 .. n - 1 /\ d + B * 0 = n * q3 + r3
  BY <1>0, LimbDivision DEF r3
<1>2. q2 \in 0 .. B - 1 /\ r2 \in 0 .. n - 1 /\ c + B * r3 = n * q2 + r2
  BY <1>1, LimbDivision DEF r2
<1>3. q1 \in 0 .. B - 1 /\ r1 \in 0 .. n - 1 /\ b + B * r2 = n * q1 + r1
  BY <1>2, LimbDivision DEF r1
<1>4. q0 \in 0 .. B - 1 /\ r0 \in 0 .. n - 1 /\ a + B * r1 = n * q0 + r0
  BY <1>3, LimbDivision
<1> HIDE DEF q0, q1, q2, q3, r0
<1>5. \A x, h, r, u, w, s, k, m \in Int :
        x + k * r = m * u + s /\ h = m * w + r => x + k * h = m * (u + k * w) + s
  OBVIOUS
<1>6. d = n * q3 + r3
  BY <1>1
<1>7. H2 = n * Q2 + r2 /\ H2 \in Int /\ Q2 \in Int
  BY <1>0, <1>1, <1>2, <1>5, <1>6
<1> HIDE DEF H2, Q2
<1>8. H1 = n * Q1 + r1 /\ H1 \in Int /\ Q1 \in Int
  BY <1>0, <1>2, <1>3, <1>5, <1>7
<1> HIDE DEF H1, Q1
<1>9. H0 = n * Q0 + r0 /\ H0 \in Int /\ Q0 \in Int
  BY <1>0, <1>3, <1>4, <1>5, <1>8
<1> HIDE DEF H0, Q0
<1>10. H0 \div n = Q0 /\ H0 % n = r0
  BY <1>0, <1>4, <1>9, DivisionUnique
<1>11. Horner(B, a, b, c, d) = H0 /\ Horner(B, q0, q1, q2, q3) = Q0
  BY DEF Horner, H0, H1, H2, Q0, Q1, Q2
<1> QED
  BY <1>10, <1>11, <1>a, <1>b

(* Limb by limb, one is added to a number that is not the largest. *)
PlusOne(B, a, b, c, d) ==
  LET c1 == Carry(B, a, 1)
      c2 == Carry(B, b, c1)
      c3 == Carry(B, c, c2)
  IN Horner(B, PlusCarry(B, a, 1), PlusCarry(B, b, c1), PlusCarry(B, c, c2),
            PlusCarry(B, d, c3))

LEMMA LimbwisePlusOne ==
  ASSUME NEW B \in Nat, B >= 2, NEW a \in 0 .. B - 1, NEW b \in 0 .. B - 1,
         NEW c \in 0 .. B - 1, NEW d \in 0 .. B - 1,
         Horner(B, a, b, c, d) + 1 < B * B * B * B
  PROVE  PlusOne(B, a, b, c, d) = Horner(B, a, b, c, d) + 1
<1> DEFINE c1 == Carry(B, a, 1)
           c2 == Carry(B, b, c1)
           c3 == Carry(B, c, c2)
           c4 == Carry(B, d, c3)
           r0 == PlusCarry(B, a, 1)
           r1 == PlusCarry(B, b, c1)
           r2 == PlusCarry(B, c, c2)
           r3 == PlusCarry(B, d, c3)
           R2 == r2 + B * r3
           R1 == r1 + B * R2
           R0 == r0 + B * R1
           H2 == c + B * d
           H1 == b + B * H2
           H0 == a + B * H1
<1>0. /\ c1 \in 0 .. 1 /\ c2 \in 0 .. 1 /\ c3 \in 0 .. 1 /\ c4 \in 0 .. 1 /\ 1 \in 0 .. 1
      /\ c1 = Carry(B, a, 1) /\ c2 = Carry(B, b, c1) /\ c3 = Carry(B, c, c2)
      /\ c4 = Carry(B, d, c3)
      /\ a \in 0 .. B - 1 /\ b \in 0 .. B - 1 /\ c \in 0 .. B - 1 /\ d \in 0 .. B - 1
      /\ B \in Nat /\ B >= 2
  BY DEF Carry
<1>t. c1 \in 0 .. 1 /\ c2 \in 0 .. 1 /\ c3 \in 0 .. 1 /\ c4 \in 0 .. 1 /\ B \in Nat
  BY <1>0
<1>u. a \in Nat /\ b \in Nat /\ c \in Nat /\ B \in Nat
  BY <1>0
<1>v. \A x, k, h \in Nat : x + k * h \in Nat
  OBVIOUS
<1>p. PlusOne(B, a, b, c, d) = Horner(B, r0, r1, r2, r3)
  BY DEF PlusOne
<1> HIDE DEF c1, c2, c3, c4
<1>1. r0 \in 0 .. B - 1 /\ r0 = a + 1 - B * c1
  BY ONLY <1>0, LimbPlus
<1>2. r1 \in 0 .. B - 1 /\ r1 = b + c1 - B * c2
  BY ONLY <1>0, LimbPlus
<1>3. r2 \in 0 .. B - 1 /\ r2 = c + c2 - B * c3
  BY ONLY <1>0, LimbPlus
<1>4. r3 \in 0 .. B - 1 /\ r3 = d + c3 - B * c4
  BY ONLY <1>0, LimbPlus
<1> HIDE DEF r0, r1, r2, r3
<1>5. \A x, y, z, h, e, k \in Int : (x + y - k * z) + k * (h + z - e) = (x + k * h) + y - k * e
  OBVIOUS
<1>6. R2 = H2 + c2 - B * (B * c4) /\ R2 \in Int /\ H2 \in Nat /\ B * c4 \in Int /\ B * (B * c4) \in Int
  <2>1. B * c4 \in Int /\ B * (B * c4) \in Int /\ H2 \in Nat
    BY <1>0
  <2> QED
    BY <1>t, <1>3, <1>4, <1>5, <2>1
<1> HIDE DEF R2, H2
<1>7. R1 = H1 + c1 - B * (B * (B * c4)) /\ R1 \in Int /\ H1 \in Nat /\ B * (B * (B * c4)) \in Int
  <2>1. B * (B * (B * c4)) \in Int
    BY ONLY <1>t, <1>6
  <2>2. H1 \in Nat
    BY ONLY <1>u, <1>v, <1>6 DEF H1
  <2> QED
    BY <1>t, <1>2, <1>5, <1>6, <2>1, <2>2
<1> HIDE DEF R1, H1
<1>8. R0 = H0 + 1 - B * (B * (B * (B * c4))) /\ R0 \in Int /\ H0 \in Nat
  <2>1. B * (B * (B * (B * c4))) \in Int
    BY ONLY <1>t, <1>7
  <2>2. H0 \in Nat
    BY ONLY <1>u, <1>v, <1>7 DEF H0
  <2> QED
    BY <1>t, <1>1, <1>5, <1>7, <2>1, <2>2
<1>9. R0 \in 0 .. B * B * B * B - 1
  <2>1. Horner(B, r0, r1, r2, r3) \in 0 .. B * B * B * B - 1
    BY ONLY <1>0, <1>1, <1>2, <1>3, <1>4, HornerBounds
  <2>2. Horner(B, r0, r1, r2, r3) = R0
    BY ONLY TRUE DEF Horner, R0, R1, R2
  <2> QED
    BY ONLY <2>1, <2>2
<1>10. Horner(B, a, b, c, d) = H0 /\ Horner(B, r0, r1, r2, r3) = R0
  BY DEF Horner, H1, H2, R1, R2
<1> HIDE DEF R0, H0
<1>11. CASE c4 = 0
  <2>1. B * (B * (B * (B * c4))) = 0
    BY <1>11
  <2> QED
    BY <1>8, <1>10, <1>p, <2>1
<1>12. CASE c4 = 1
  <2>1. B * (B * (B * (B * c4))) = B * B * B * B /\ B * B * B * B \in Nat
    BY <1>12
  <2> QED
    BY <1>8, <1>9, <1>10, <2>1
<1> QED
  BY <1>0, <1>11, <1>12

(* Taking a number apart into limbs. *)
LEMMA LimbsHorner ==
  ASSUME NEW B \in Nat, B >= 2, NEW v \in 0 .. B * B * B * B - 1,
         NEW v1, v1 = v \div B, NEW v2, v2 = v1 \div B, NEW v3, v3 = v2 \div B
  PROVE  /\ v % B \in 0 .. B - 1 /\ v1 % B \in 0 .. B - 1 /\ v2 % B \in 0 .. B - 1
         /\ v3 % B \in 0 .. B - 1
         /\ Horner(B, v % B, v1 % B, v2 % B, v3 % B) = v
<1>1. /\ B \in Nat /\ B >= 1 /\ v \in Int /\ v >= 0
      /\ v1 = v \div B /\ v2 = v1 \div B /\ v3 = v2 \div B
  OBVIOUS
<1>2. v1 \in Nat /\ v % B \in 0 .. B - 1 /\ v = B * v1 + (v % B)
  BY ONLY <1>1, Division
<1>3. v2 \in Nat /\ v1 % B \in 0 .. B - 1 /\ v1 = B * v2 + (v1 % B)
  <2>1. B \in Nat /\ B >= 1 /\ v1 \in Int /\ v1 >= 0
    BY <1>1, <1>2
  <2>2. /\ v1 \div B \in Nat /\ v1 % B \in 0 .. B - 1
        /\ v1 = B * (v1 \div B) + (v1 % B)
    BY ONLY <2>1, Division
  <2> QED
    BY <1>1, <2>2
<1>4. v3 \in Nat /\ v2 % B \in 0 .. B - 1 /\ v2 = B * v3 + (v2 % B)
  <2>1. B \in Nat /\ B >= 1 /\ v2 \in Int /\ v2 >= 0
    BY <1>1, <1>3
  <2>2. /\ v2 \div B \in Nat /\ v2 % B \in 0 .. B - 1
        /\ v2 = B * (v2 \div B) + (v2 % B)
    BY ONLY <2>1, Division
  <2> QED
    BY <1>1, <2>2
<1>5. v3 < B
  <2> DEFINE M1 == B * B * B
             M2 == B * B
  <2>1. M1 \in Nat /\ M2 \in Nat /\ B * M1 = B * B * B * B /\ B * M2 = M1 /\ B * B = M2
    OBVIOUS
  <2> HIDE DEF M1, M2
  <2>2. B * v1 \in Nat /\ B * v2 \in Nat /\ B * v3 \in Nat
    BY <1>2, <1>3, <1>4
  <2>3. v1 < M1
    <3>1. B * v1 < B * M1
      BY <1>2, <2>1, <2>2
    <3> QED
      BY <1>2, <2>1, <3>1, LessFactor
  <2>4. v2 < M2
    <3>1. B * v2 < B * M2
      BY <1>3, <2>1, <2>2, <2>3
    <3> QED
      BY <1>3, <2>1, <3>1, LessFactor
  <2>5. B * v3 < B * B
    BY <1>4, <2>1, <2>2, <2>4
  <2> QED
    BY <1>4, <2>5, LessFactor
<1>6. v3 % B = v3 /\ v3 \in 0 .. B - 1
  <2>1. v3 = B * 0 + v3 /\ v3 \in 0 .. B - 1
    BY <1>4, <1>5
  <2>2. (B * 0 + v3) % B = v3
    <3>1. B \in Nat /\ B >= 1 /\ 0 \in Int /\ v3 \in 0 .. B - 1
      BY <1>1, <2>1
    <3> QED
      BY ONLY <3>1, DivisionUnique
  <2> QED
    BY <2>1, <2>2
<1> DEFINE a == v % B
           b == v1 % B
           c == v2 % B
<1>7. Horner(B, a, b, c, v3 % B) = v
  <2>1. /\ a \in Int /\ b \in Int /\ c \in Int /\ v = B * v1 + a /\ v1 = B * v2 + b
        /\ v2 = B * v3 + c
    BY <1>2, <1>3, <1>4
  <2> HIDE DEF a, b, c
  <2>2. a + B * v1 = v /\ b + B * v2 = v1 /\ c + B * v3 = v2
    BY <1>1, <1>2, <1>3, <1>4, <2>1
  <2> QED
    BY <1>6, <2>2 DEF Horner
<1> QED
  BY <1>2, <1>3, <1>4, <1>6, <1>7

-----------------------------------------------------------------------------
(* The limb arithmetic of the constraint, on the numbers the limbs stand for. *)

LEMMA NumberValue ==
  ASSUME NEW a \in Limb, NEW b \in Limb, NEW c \in Limb, NEW d \in Limb
  PROVE  /\ Number(a, b, c, d) \in U256
         /\ Value(Number(a, b, c, d)) = Horner(LimbBase, a, b, c, d)
<1> DEFINE n == Number(a, b, c, d)
<1>1. n = [i \in 0 .. 3 |-> CASE i = 0 -> a [] i = 1 -> b [] i = 2 -> c [] OTHER -> d]
  BY DEF Number
<1>2. n[0] = a /\ n[1] = b /\ n[2] = c /\ n[3] = d
  BY <1>1
<1>3. \A i \in 0 .. 3 : n[i] \in Limb
  BY <1>2
<1>4. n = [i \in 0 .. 3 |-> n[i]]
  BY <1>1
<1> HIDE DEF n
<1>5. n \in U256
  BY <1>3, <1>4 DEF U256
<1> QED
  BY <1>2, <1>5 DEF n, Value, Horner

LEMMA LimbsOf ==
  ASSUME NEW le \in U256
  PROVE  /\ le[0] \in 0 .. LimbBase - 1 /\ le[1] \in 0 .. LimbBase - 1
         /\ le[2] \in 0 .. LimbBase - 1 /\ le[3] \in 0 .. LimbBase - 1
         /\ Value(le) = Horner(LimbBase, le[0], le[1], le[2], le[3])
         /\ Value(le) \in Word
<1>1. /\ le[0] \in 0 .. LimbBase - 1 /\ le[1] \in 0 .. LimbBase - 1
      /\ le[2] \in 0 .. LimbBase - 1 /\ le[3] \in 0 .. LimbBase - 1
  BY DEF U256, Limb
<1>2. Value(le) = Horner(LimbBase, le[0], le[1], le[2], le[3])
  BY DEF Value, Horner
<1> QED
  BY <1>1, <1>2, HornerBounds, LimbAssumption DEF Word

LEMMA LimbsValue ==
  ASSUME NEW v \in Word
  PROVE  Limbs(v) \in U256 /\ Value(Limbs(v)) = v
<1> DEFINE v1 == v \div LimbBase
           v2 == v1 \div LimbBase
           v3 == v2 \div LimbBase
<1>1. /\ v % LimbBase \in Limb /\ v1 % LimbBase \in Limb /\ v2 % LimbBase \in Limb
      /\ v3 % LimbBase \in Limb
      /\ Horner(LimbBase, v % LimbBase, v1 % LimbBase, v2 % LimbBase, v3 % LimbBase) = v
  BY LimbsHorner, LimbAssumption DEF Word, Limb
<1>2. Limbs(v) = Number(v % LimbBase, v1 % LimbBase, v2 % LimbBase, v3 % LimbBase)
  BY DEF Limbs
<1> HIDE DEF v1, v2, v3
<1> QED
  BY <1>1, <1>2, NumberValue

LEMMA SubU64Value ==
  ASSUME NEW le \in U256, NEW val \in Limb
  PROVE  /\ SubU64(le, val) \in U256
         /\ Value(SubU64(le, val)) = IF Value(le) >= val THEN Value(le) - val ELSE 0
<1> DEFINE b1 == IF le[0] >= val THEN 0 ELSE 1
           b2 == IF le[1] >= b1 THEN 0 ELSE 1
           b3 == IF le[2] >= b2 THEN 0 ELSE 1
           b4 == IF le[3] >= b3 THEN 0 ELSE 1
           r0 == (LimbBase + le[0] - val) % LimbBase
           r1 == (LimbBase + le[1] - b1) % LimbBase
           r2 == (LimbBase + le[2] - b2) % LimbBase
           r3 == (LimbBase + le[3] - b3) % LimbBase
<1>1. SubU64(le, val) = IF b4 # 0 THEN Limbs(0) ELSE Number(r0, r1, r2, r3)
  BY DEF SubU64
<1>2. /\ le[0] \in 0 .. LimbBase - 1 /\ le[1] \in 0 .. LimbBase - 1
      /\ le[2] \in 0 .. LimbBase - 1 /\ le[3] \in 0 .. LimbBase - 1
      /\ val \in 0 .. LimbBase - 1 /\ LimbBase \in Nat /\ LimbBase >= 2
      /\ Value(le) = Horner(LimbBase, le[0], le[1], le[2], le[3])
      /\ Value(le) \in Nat
  BY LimbsOf, LimbAssumption, ModuliAssumption DEF Limb, Word
<1>3. IF b4 = 0
      THEN /\ Horner(LimbBase, r0, r1, r2, r3) = Value(le) - val
           /\ Value(le) >= val
      ELSE Value(le) < val
  <2>1. IF LastBorrow(le[0], le[1], le[2], le[3], val) = 0
        THEN /\ Minus(LimbBase, le[0], le[1], le[2], le[3], val) = Value(le) - val
             /\ Value(le) >= val
        ELSE Value(le) < val
    BY ONLY <1>2, LimbwiseMinus, ZenonT(30)
  <2>2. LastBorrow(le[0], le[1], le[2], le[3], val) = b4
    BY ONLY TRUE DEF LastBorrow, Borrow
  <2>3. Minus(LimbBase, le[0], le[1], le[2], le[3], val) = Horner(LimbBase, r0, r1, r2, r3)
    BY ONLY TRUE DEF Minus, Borrow
  <2> HIDE DEF b4, r0, r1, r2, r3
  <2> QED
    BY <2>1, <2>2, <2>3
<1>4. r0 \in Limb /\ r1 \in Limb /\ r2 \in Limb /\ r3 \in Limb
  <2>1. b1 \in 0 .. LimbBase - 1 /\ b2 \in 0 .. LimbBase - 1 /\ b3 \in 0 .. LimbBase - 1
    BY <1>2
  <2> HIDE DEF b1, b2, b3
  <2> QED
    BY <1>2, <2>1 DEF Limb
<1>5. 0 \in Word
  BY ModuliAssumption DEF Word
<1> HIDE DEF b4, r0, r1, r2, r3
<1>6. CASE b4 = 0
  BY <1>1, <1>3, <1>4, <1>6, NumberValue
<1>7. CASE b4 # 0
  <2>1. ~(Value(le) >= val)
    BY <1>2, <1>3, <1>7
  <2> QED
    BY <1>1, <1>5, <1>7, <2>1, LimbsValue
<1> QED
  BY <1>6, <1>7

LEMMA DivByU64Value ==
  ASSUME NEW le \in U256, NEW d \in Limb, d # 0
  PROVE  /\ DivByU64(le, d).quotient \in U256
         /\ Value(DivByU64(le, d).quotient) = Value(le) \div d
         /\ DivByU64(le, d).remainder = Value(le) % d
<1> DEFINE r3 == (0 * LimbBase + le[3]) % d
           r2 == (r3 * LimbBase + le[2]) % d
           r1 == (r2 * LimbBase + le[1]) % d
           q0 == ((r1 * LimbBase + le[0]) \div d) % LimbBase
           q1 == ((r2 * LimbBase + le[1]) \div d) % LimbBase
           q2 == ((r3 * LimbBase + le[2]) \div d) % LimbBase
           q3 == ((0 * LimbBase + le[3]) \div d) % LimbBase
<1>1. DivByU64(le, d) = [quotient |-> Number(q0, q1, q2, q3),
                         remainder |-> (r1 * LimbBase + le[0]) % d]
  BY DEF DivByU64
<1>2. /\ le[0] \in 0 .. LimbBase - 1 /\ le[1] \in 0 .. LimbBase - 1
      /\ le[2] \in 0 .. LimbBase - 1 /\ le[3] \in 0 .. LimbBase - 1
      /\ d \in 1 .. LimbBase - 1 /\ LimbBase \in Nat /\ LimbBase >= 2
      /\ Value(le) = Horner(LimbBase, le[0], le[1], le[2], le[3])
  BY LimbsOf, LimbAssumption DEF Limb
<1>3. /\ Horner(LimbBase, q0, q1, q2, q3) = Value(le) \div d
      /\ (r1 * LimbBase + le[0]) % d = Value(le) % d
  <2>1. /\ Quotient(LimbBase, le[0], le[1], le[2], le[3], d) = Value(le) \div d
        /\ LastRemainder(LimbBase, le[0], le[1], le[2], le[3], d) = Value(le) % d
    <3>1. \A a, b, c, e \in 0 .. LimbBase - 1 :
            /\ Quotient(LimbBase, a, b, c, e, d) = Horner(LimbBase, a, b, c, e) \div d
            /\ LastRemainder(LimbBase, a, b, c, e, d) = Horner(LimbBase, a, b, c, e) % d
      <4>1. LimbBase \in Nat /\ LimbBase >= 2 /\ d \in 1 .. LimbBase - 1
        BY <1>2
      <4> QED
        BY ONLY <4>1, LimbwiseDivision
    <3> QED
      BY <1>2, <3>1
  <2>2. /\ Quotient(LimbBase, le[0], le[1], le[2], le[3], d) = Horner(LimbBase, q0, q1, q2, q3)
        /\ LastRemainder(LimbBase, le[0], le[1], le[2], le[3], d) = (r1 * LimbBase + le[0]) % d
    BY ONLY TRUE DEF Quotient, LastRemainder
  <2> HIDE DEF q0, q1, q2, q3, r1
  <2> QED
    BY <2>1, <2>2
<1>4. q0 \in Limb /\ q1 \in Limb /\ q2 \in Limb /\ q3 \in Limb
  <2>1. r3 \in Nat /\ r2 \in Nat /\ r1 \in Nat
    <3>1. \A x, y \in Nat : (x * LimbBase + y) % d \in Nat
      BY ONLY <1>2
    <3>2. le[3] \in Nat /\ le[2] \in Nat /\ le[1] \in Nat /\ 0 \in Nat
      BY <1>2
    <3>3. r3 \in Nat
      BY <3>1, <3>2
    <3> HIDE DEF r3
    <3>4. r2 \in Nat
      BY <3>1, <3>2, <3>3
    <3> HIDE DEF r2
    <3> QED
      BY <3>1, <3>2, <3>3, <3>4
  <2> HIDE DEF r1, r2, r3
  <2>2. \A x, y \in Nat : ((x * LimbBase + y) \div d) % LimbBase \in Limb
    <3>1. \A x \in Int : x % LimbBase \in Limb
      BY <1>2 DEF Limb
    <3>2. \A x, y \in Nat : (x * LimbBase + y) \div d \in Int
      BY ONLY <1>2
    <3> QED
      BY <3>1, <3>2
  <2>3. le[3] \in Nat /\ le[2] \in Nat /\ le[1] \in Nat /\ le[0] \in Nat /\ 0 \in Nat
    BY <1>2
  <2> HIDE DEF q0, q1, q2, q3
  <2>4. q0 \in Limb /\ q1 \in Limb
    BY ONLY <2>1, <2>2, <2>3 DEF q0, q1
  <2>5. q2 \in Limb /\ q3 \in Limb
    BY ONLY <2>1, <2>2, <2>3 DEF q2, q3
  <2> QED
    BY <2>4, <2>5
<1> HIDE DEF q0, q1, q2, q3
<1> QED
  BY <1>1, <1>3, <1>4, NumberValue

LEMMA AddOneValue ==
  ASSUME NEW le \in U256, Value(le) + 1 < W
  PROVE  Value(AddOne(le)) = Value(le) + 1
<1> DEFINE c1 == IF le[0] + 1 = LimbBase THEN 1 ELSE 0
           c2 == IF le[1] + c1 = LimbBase THEN 1 ELSE 0
           c3 == IF le[2] + c2 = LimbBase THEN 1 ELSE 0
           r0 == (le[0] + 1) % LimbBase
           r1 == (le[1] + c1) % LimbBase
           r2 == (le[2] + c2) % LimbBase
           r3 == (le[3] + c3) % LimbBase
<1>1. AddOne(le) = Number(r0, r1, r2, r3)
  BY DEF AddOne
<1>2. /\ le[0] \in 0 .. LimbBase - 1 /\ le[1] \in 0 .. LimbBase - 1
      /\ le[2] \in 0 .. LimbBase - 1 /\ le[3] \in 0 .. LimbBase - 1
      /\ LimbBase \in Nat /\ LimbBase >= 2
      /\ Value(le) = Horner(LimbBase, le[0], le[1], le[2], le[3])
      /\ Value(le) + 1 < LimbBase * LimbBase * LimbBase * LimbBase
  BY LimbsOf, LimbAssumption
<1>3. Horner(LimbBase, r0, r1, r2, r3) = Value(le) + 1
  <2>1. PlusOne(LimbBase, le[0], le[1], le[2], le[3]) = Value(le) + 1
    <3> HIDE DEF c1, c2, c3, r0, r1, r2, r3
    <3>1. LET sum == Horner(LimbBase, le[0], le[1], le[2], le[3])
          IN  sum + 1 < LimbBase * LimbBase * LimbBase * LimbBase
      BY ONLY <1>2
    <3>2. PlusOne(LimbBase, le[0], le[1], le[2], le[3])
            = Horner(LimbBase, le[0], le[1], le[2], le[3]) + 1
      BY ONLY <1>2, <3>1, LimbwisePlusOne, SMTT(30)
    <3> QED
      BY ONLY <1>2, <3>2
  <2>2. PlusOne(LimbBase, le[0], le[1], le[2], le[3]) = Horner(LimbBase, r0, r1, r2, r3)
    BY ONLY TRUE DEF PlusOne, Carry, PlusCarry
  <2> HIDE DEF r0, r1, r2, r3
  <2> QED
    BY <2>1, <2>2
<1>4. r0 \in Limb /\ r1 \in Limb /\ r2 \in Limb /\ r3 \in Limb
  <2>1. c1 \in Nat /\ c2 \in Nat /\ c3 \in Nat
    OBVIOUS
  <2> HIDE DEF c1, c2, c3
  <2> QED
    BY <1>2, <2>1 DEF Limb
<1> HIDE DEF r0, r1, r2, r3
<1> QED
  BY <1>1, <1>3, <1>4, NumberValue

(* j_start is the quotient of the start's distance from the remainder, rounded up. *)
LEMMA JStartValue ==
  ASSUME NEW m \in Limb, m # 0, NEW r \in Limb, NEW s \in Word
  PROVE  /\ Beyond(s, r) \in Nat
         /\ Value(JStart(m, r, Limbs(s))) = RoundedUp(Beyond(s, r), m)
<1> DEFINE diff == Beyond(s, r)
           sub == SubU64(Limbs(s), r)
           q == DivByU64(sub, m).quotient
<1>1. sub \in U256 /\ Value(sub) = diff
  BY LimbsValue, SubU64Value DEF Beyond
<1>2. diff \in Nat /\ diff < W /\ m \in Nat /\ m >= 1
  BY ModuliAssumption, LimbAssumption DEF Word, Limb, Beyond
<1>3. JStart(m, r, Limbs(s)) = IF DivByU64(sub, m).remainder > 0 THEN AddOne(q) ELSE q
  BY DEF JStart
<1> HIDE DEF sub, diff
<1>4. /\ q \in U256 /\ Value(q) = diff \div m
      /\ DivByU64(sub, m).remainder = diff % m
  BY <1>1, DivByU64Value
<1> HIDE DEF q
<1>5. ASSUME diff % m > 0 PROVE Value(q) + 1 < W
  <2> DEFINE p == diff \div m
             t == diff % m
  <2>1. p \in Nat /\ t \in 0 .. m - 1 /\ diff = m * p + t /\ t > 0
    <3>1. diff \in Int /\ diff >= 0 /\ m \in Nat /\ m >= 1
      BY <1>2
    <3>2. p \in Nat /\ t \in 0 .. m - 1 /\ diff = m * p + t
      BY ONLY <3>1, Division
    <3> QED
      BY <1>5, <3>2
  <2>2. m >= 2
    BY <2>1, <1>2
  <2> HIDE DEF p, t
  <2>3. \A x, y \in Nat : y >= 2 => y * x >= x + x
    OBVIOUS
  <2>4. m * p >= p + p /\ m * p \in Nat
    BY <1>2, <2>1, <2>2, <2>3
  <2>5. p + 1 < W
    BY <1>2, <2>1, <2>4, ModuliAssumption
  <2> QED
    BY <1>4, <2>5 DEF p
<1>6. CASE diff % m > 0
  <2>1. Value(AddOne(q)) = Value(q) + 1
    BY <1>4, <1>5, <1>6, AddOneValue
  <2>2. RoundedUp(diff, m) = (diff \div m) + 1
    BY <1>6 DEF RoundedUp
  <2>3. Value(JStart(m, r, Limbs(s))) = Value(AddOne(q))
    BY <1>3, <1>4, <1>6
  <2>4. Value(q) = diff \div m
    BY <1>4
  <2> QED
    BY ONLY <1>2, <2>1, <2>2, <2>3, <2>4 DEF diff
<1>7. CASE ~(diff % m > 0)
  <2>1. RoundedUp(diff, m) = diff \div m
    BY <1>7 DEF RoundedUp
  <2>2. Value(JStart(m, r, Limbs(s))) = Value(q)
    BY <1>3, <1>4, <1>7
  <2>3. Value(q) = diff \div m
    BY <1>4
  <2> QED
    BY ONLY <1>2, <2>1, <2>2, <2>3 DEF diff
<1> QED
  BY <1>6, <1>7

LEMMA FloorLog2Value ==
  ASSUME NEW m \in Nat, m >= 1
  PROVE  FloorLog2(m) \in Nat /\ TwoTo[FloorLog2(m)] <= m
  BY HighestBitExists DEF FloorLog2

(* A key of the class and of the range has its quotient inside the range of the
   transformed problem. *)
LEMMA TransformedHolds ==
  ASSUME NEW m \in Limb, m # 0, NEW rest \in 0 .. m - 1, NEW from \in Word, NEW r \in Nat,
         NEW k \in Nat, k >= from, k < from + TwoTo[r], k % m = rest, NEW key
  PROVE  LET p == Transformed(m, rest, key, Limbs(from), r)
         IN /\ Value(p.start) \in Nat /\ p.rangeBits \in Nat
            /\ (k - rest) \div m \in Value(p.start) .. Value(p.start) + TwoTo[p.rangeBits] - 1
            /\ k = m * ((k - rest) \div m) + rest
<1> DEFINE p == Transformed(m, rest, key, Limbs(from), r)
           f == FloorLog2(m)
           js == Value(JStart(m, rest, Limbs(from)))
<1>1. m \in Nat /\ m >= 1 /\ rest \in Nat /\ rest \in Limb /\ from \in Nat
  BY LimbAssumption, ModuliAssumption DEF Limb, Word
<1>2. CASE m = 1
  <2>1. p.start = Limbs(from) /\ p.rangeBits = r
    BY <1>2 DEF Transformed
  <2>2. rest = 0 /\ (k - rest) \div m = k
    BY <1>1, <1>2
  <2>3. Value(p.start) = from
    BY <2>1, LimbsValue
  <2> HIDE DEF p
  <2>5. k \in from .. from + TwoTo[r] - 1
    <3>1. PICK t \in Nat : t = TwoTo[r]
      BY TwoToDef
    <3>2. k \in Nat /\ from \in Nat /\ from <= k /\ k < from + t
      BY <1>1, <3>1
    <3>3. k \in from .. from + t - 1
      BY ONLY <3>1, <3>2
    <3> QED
      BY <3>1, <3>3
  <2> QED
    BY <1>1, <1>2, <2>1, <2>2, <2>3, <2>5 DEF p
<1>3. CASE m # 1
  <2>1. p.start = JStart(m, rest, Limbs(from)) /\ p.rangeBits = IF r > f THEN r - f ELSE 1
    BY <1>3 DEF Transformed, EffectiveRangeBits
  <2>2. f \in Nat /\ TwoTo[f] <= m
    BY <1>1, FloorLog2Value
  <2>3. js = RoundedUp(Beyond(from, rest), m) /\ Beyond(from, rest) \in Nat
    BY <1>1, JStartValue
  <2>4. js \in Nat
    <3>1. \A d \in Nat : RoundedUp(d, m) \in Nat
      <4>1. \A d \in Nat : d \div m \in Nat
        BY <1>1
      <4> QED
        BY <4>1 DEF RoundedUp
    <3> QED
      BY <2>3, <3>1
  <2> HIDE DEF f, js, p
  <2>6. /\ (k - rest) \div m \in js .. js + TwoTo[IF r > f THEN r - f ELSE 1] - 1
        /\ k = m * ((k - rest) \div m) + rest
    <3>1. InWindow(m, rest, from, k, r, f)
      BY <1>1, <2>2, ClassWindow
    <3> QED
      BY <2>3, <3>1 DEF InWindow
  <2>7. p.rangeBits \in Nat
    BY <2>1, <2>2
  <2>8. Value(p.start) = js
    BY <2>1 DEF js
  <2> QED
    BY <2>1, <2>4, <2>6, <2>7, <2>8 DEF p
<1> QED
  BY <1>2, <1>3

(* What a search is set to is made of numbers, with and without a constraint. *)
LEMMA TransformedType ==
  ASSUME NEW m \in Limb, m # 0, NEW rest \in 0 .. m - 1, NEW from \in Word, NEW r \in Nat,
         NEW key \in Nat
  PROVE  LET p == Transformed(m, rest, key, Limbs(from), r)
         IN /\ p = [base |-> p.base, pubkey |-> p.pubkey, start |-> p.start,
                    rangeBits |-> p.rangeBits]
            /\ p.base \in Nat /\ p.pubkey \in Nat
            /\ Value(p.start) \in Nat /\ p.rangeBits \in Nat
<1> DEFINE p == Transformed(m, rest, key, Limbs(from), r)
<1>1. m \in Nat /\ m >= 1 /\ rest \in Nat /\ rest \in Limb /\ from \in Nat
  BY LimbAssumption, ModuliAssumption DEF Limb, Word
<1>2. p = [base |-> p.base, pubkey |-> p.pubkey, start |-> p.start, rangeBits |-> p.rangeBits]
  <2>1. CASE m = 1
    BY <2>1 DEF Transformed
  <2>2. CASE m # 1
    BY <2>2 DEF Transformed
  <2> QED
    BY <2>1, <2>2
<1>3. p.base \in Nat /\ p.pubkey \in Nat
  <2>1. CASE m = 1
    BY <2>1 DEF Transformed
  <2>2. CASE m # 1
    <3>1. p.base = m % N /\ p.pubkey = (key - rest) % N
      BY <2>2 DEF Transformed
    <3>2. key - rest \in Int /\ m \in Int
      BY <1>1
    <3>3. m % N \in Scalar /\ (key - rest) % N \in Scalar
      BY <3>2, DivMod
    <3> HIDE DEF p
    <3> QED
      BY <3>1, <3>3 DEF Scalar
  <2> QED
    BY <2>1, <2>2
<1>4. Value(p.start) \in Nat /\ p.rangeBits \in Nat
  <2>1. CASE m = 1
    <3>1. p.start = Limbs(from) /\ p.rangeBits = r
      BY <2>1 DEF Transformed
    <3>2. Value(Limbs(from)) = from
      BY LimbsValue
    <3> QED
      BY <1>1, <3>1, <3>2
  <2>2. CASE m # 1
    <3>1. p.start = JStart(m, rest, Limbs(from)) /\ p.rangeBits = EffectiveRangeBits(m, r)
      BY <2>2 DEF Transformed
    <3>2. FloorLog2(m) \in Nat
      BY <1>1, FloorLog2Value
    <3>3. p.rangeBits \in Nat
      BY <3>1, <3>2 DEF EffectiveRangeBits
    <3>4. /\ Value(JStart(m, rest, Limbs(from))) = RoundedUp(Beyond(from, rest), m)
          /\ Beyond(from, rest) \in Nat
      BY <1>1, JStartValue
    <3>5. \A d \in Nat : RoundedUp(d, m) \in Nat
      <4>1. \A d \in Nat : d \div m \in Nat
        BY <1>1
      <4> QED
        BY <4>1 DEF RoundedUp
    <3> QED
      BY <3>1, <3>3, <3>4, <3>5
  <2> QED
    BY <2>1, <2>2
<1> QED
  BY <1>2, <1>3, <1>4
=============================================================================
