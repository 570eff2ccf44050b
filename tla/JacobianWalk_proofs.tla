------------------------- MODULE JacobianWalk_proofs -------------------------
(***************************************************************************)
(* The walk on Jacobian coordinates, for every prime field, every curve of *)
(* the shape y^2 = x^3 + 7 over it and every group order: the formulas of  *)
(* the shader are the chord and tangent law, so the kernels do to points   *)
(* what module Walk does to logarithms.                                    *)
(***************************************************************************)
EXTENDS JacobianWalk, KangarooAlgebra_proofs, FiniteSetTheorems, SequenceTheorems

-----------------------------------------------------------------------------
(* Congruence modulo the prime of the field. *)

a \cong b == \E k \in Int : a = b + P * k

LEMMA CongSame ==
  ASSUME NEW a \in Int
  PROVE  a \cong a
<1>1. a = a + P * 0
  BY CurveAssumption
<1> QED
  BY <1>1 DEF \cong

LEMMA CongBack ==
  ASSUME NEW a \in Int, NEW b \in Int, a \cong b
  PROVE  b \cong a
<1>1. PICK k \in Int : a = b + P * k
  BY DEF \cong
<1>2. -k \in Int /\ b = a + P * (-k)
  BY <1>1, CurveAssumption
<1> QED
  BY <1>2 DEF \cong

LEMMA CongChain ==
  ASSUME NEW a \in Int, NEW b \in Int, NEW c \in Int, a \cong b, b \cong c
  PROVE  a \cong c
<1>1. PICK k \in Int : a = b + P * k
  BY DEF \cong
<1>2. PICK l \in Int : b = c + P * l
  BY DEF \cong
<1>3. k + l \in Int /\ a = c + P * (k + l)
  BY <1>1, <1>2, CurveAssumption
<1> QED
  BY <1>3 DEF \cong

LEMMA CongAdd ==
  ASSUME NEW a \in Int, NEW b \in Int, NEW c \in Int, NEW d \in Int, a \cong b, c \cong d
  PROVE  a + c \cong b + d
<1>1. PICK k \in Int : a = b + P * k
  BY DEF \cong
<1>2. PICK l \in Int : c = d + P * l
  BY DEF \cong
<1>3. k + l \in Int /\ a + c = b + d + P * (k + l)
  BY <1>1, <1>2, CurveAssumption
<1> QED
  BY <1>3 DEF \cong

LEMMA CongSub ==
  ASSUME NEW a \in Int, NEW b \in Int, NEW c \in Int, NEW d \in Int, a \cong b, c \cong d
  PROVE  a - c \cong b - d
<1>1. PICK k \in Int : a = b + P * k
  BY DEF \cong
<1>2. PICK l \in Int : c = d + P * l
  BY DEF \cong
<1>3. k - l \in Int /\ a - c = b - d + P * (k - l)
  BY <1>1, <1>2, CurveAssumption
<1> QED
  BY <1>3 DEF \cong

LEMMA CongMul ==
  ASSUME NEW a \in Int, NEW b \in Int, NEW c \in Int, NEW d \in Int, a \cong b, c \cong d
  PROVE  a * c \cong b * d
<1>1. PICK k \in Int : a = b + P * k
  BY DEF \cong
<1>2. PICK l \in Int : c = d + P * l
  BY DEF \cong
<1>3. b * l + k * d + P * (k * l) \in Int
  BY <1>1, <1>2, CurveAssumption
<1>4. (b + P * k) * (d + P * l) = b * d + P * (b * l + k * d + P * (k * l))
  BY CurveAssumption
<1> QED
  BY <1>1, <1>2, <1>3, <1>4 DEF \cong

LEMMA TwoSame == 2 \cong 2
  BY CongSame

LEMMA FourSame == 4 \cong 4
  BY CongSame

(* A remainder is congruent to what it is the remainder of, ... *)
LEMMA CongMod ==
  ASSUME NEW a \in Int
  PROVE  a % P \in Fe /\ a % P \cong a /\ a \cong a % P
<1>1. /\ a % P \in Fe
      /\ a \div P \in Int
      /\ a = P * (a \div P) + (a % P)
  BY CurveAssumption DEF Fe
<1> DEFINE r == a % P
           q == a \div P
<1>2. r \in Int /\ q \in Int /\ a = P * q + r
  BY <1>1, CurveAssumption DEF Fe
<1> HIDE DEF r, q
<1>3. -q \in Int /\ r = a + P * (-q) /\ a = r + P * q
  BY <1>2, CurveAssumption
<1>4. r \cong a /\ a \cong r
  BY <1>2, <1>3 DEF \cong
<1> QED
  BY <1>1, <1>4 DEF r

(* ... and congruent elements of the field are equal. *)
LEMMA CongFe ==
  ASSUME NEW a \in Fe, NEW b \in Fe, a \cong b
  PROVE  a = b
<1>1. PICK k \in Int : a = b + P * k
  BY DEF \cong
<1>2. a \in 0 .. P - 1 /\ b \in 0 .. P - 1 /\ P \in Nat /\ P > 2
  BY CurveAssumption DEF Fe
<1>3. CASE k >= 1
  <2>1. P * k >= P
    BY <1>2, <1>3
  <2> QED
    BY <1>1, <1>2, <2>1
<1>4. CASE k <= -1
  <2>1. P * k <= -P
    BY <1>2, <1>4
  <2> QED
    BY <1>1, <1>2, <2>1
<1>5. CASE k = 0
  BY <1>1, <1>2, <1>5
<1> QED
  BY <1>3, <1>4, <1>5

LEMMA FeZero == 0 \in Fe /\ 1 \in Fe /\ \A a \in Fe : a \in Int
  BY CurveAssumption DEF Fe

LEMMA CongZero ==
  ASSUME NEW a \in Int
  PROVE  a % P = 0 <=> a \cong 0
<1>1. ASSUME a % P = 0
      PROVE  a \cong 0
  BY <1>1, CongMod
<1>2. ASSUME a \cong 0
      PROVE  a % P = 0
  <2>1. a % P \in Fe /\ a % P \in Int /\ a % P \cong a
    BY CongMod, FeZero
  <2>2. a % P \cong 0
    BY <1>2, <2>1, CongChain
  <2> QED
    BY <2>1, <2>2, CongFe, FeZero
<1> QED
  BY <1>1, <1>2

(* P is prime: what is not congruent to 0 has an inverse, ... *)
LEMMA InverseOf ==
  ASSUME NEW a \in Fe
  PROVE  /\ FeInv(a) \in Fe
         /\ a # 0 => a * FeInv(a) \cong 1
<1>1. CASE a = 0
  BY <1>1, FeZero DEF FeInv, Reciprocal
<1>2. CASE a # 0
  <2>1. \E b \in Fe : (a * b) % P = 1
    BY <1>2, CurveAssumption
  <2>2. FeInv(a) = CHOOSE b \in Fe : (a * b) % P = 1
    BY <1>2 DEF FeInv, Reciprocal
  <2>3. FeInv(a) \in Fe /\ (a * FeInv(a)) % P = 1
    BY <2>1, <2>2
  <2>4. a * FeInv(a) \in Int
    BY <2>3, FeZero
  <2> QED
    BY <2>3, <2>4, CongMod
<1> QED
  BY <1>1, <1>2

(* ... and can be cancelled. *)
LEMMA Cancel ==
  ASSUME NEW c \in Int, ~(c \cong 0), NEW a \in Int, NEW b \in Int, c * a \cong c * b
  PROVE  a \cong b
<1> DEFINE r == c % P
           i == FeInv(r)
<1>1. r \in Fe /\ r \cong c /\ c \cong r /\ r # 0
  BY CongMod, CongZero
<1>2. i \in Fe /\ r * i \cong 1
  BY <1>1, InverseOf
<1> HIDE DEF i, r
<1>3. r \in Int /\ i \in Int
  BY <1>1, <1>2, FeZero
<1> DEFINE u == i * c
<1>4. u \in Int /\ u \cong 1
  <2>1. i * c \cong i * r
    BY <1>1, <1>3, CongSame, CongMul
  <2>2. i * r = r * i
    BY <1>3
  <2> QED
    BY <1>2, <1>3, <2>1, <2>2, CongChain
<1>5. u * a \cong u * b
  <2>1. i * (c * a) \cong i * (c * b)
    <3>1. i \cong i /\ c * a \in Int /\ c * b \in Int
      BY <1>3, CongSame
    <3> QED
      BY <1>3, <3>1, CongMul
  <2>2. i * (c * a) = (i * c) * a /\ i * (c * b) = (i * c) * b
    BY <1>3
  <2> QED
    BY <2>1, <2>2
<1> HIDE DEF u
<1>6. u * a \cong a
  <2>1. u * a \cong 1 * a
    BY <1>4, CongSame, CongMul
  <2> QED
    BY <2>1
<1>7. u * b \cong b
  <2>1. u * b \cong 1 * b
    BY <1>4, CongSame, CongMul
  <2> QED
    BY <2>1
<1>8. a \cong u * a /\ u * a \in Int /\ u * b \in Int
  BY <1>4, <1>6, CongBack
<1>9. a \cong u * b
  BY <1>5, <1>8, CongChain
<1> QED
  BY <1>7, <1>8, <1>9, CongChain

LEMMA NoZeroDivisors ==
  ASSUME NEW a \in Int, NEW b \in Int, a * b \cong 0
  PROVE  a \cong 0 \/ b \cong 0
<1>1. a * b \cong a * 0
  OBVIOUS
<1> QED
  BY <1>1, Cancel

LEMMA NotZero ==
  ASSUME NEW a \in Fe, a # 0
  PROVE  ~(a \cong 0)
  BY CongFe, FeZero

LEMMA TwoNotZero == ~(2 \cong 0)
<1>1. 2 \in Fe
  BY CurveAssumption DEF Fe
<1> QED
  BY <1>1, NotZero

LEMMA HalfOfZero ==
  ASSUME NEW a \in Int, 2 * a \cong 0
  PROVE  a \cong 0
<1> DEFINE t == 2
<1>1. t \in Int /\ ~(t \cong 0) /\ t * a \cong 0
  BY TwoNotZero
<1> HIDE DEF t
<1> QED
  BY <1>1, NoZeroDivisors

LEMMA CongDiffer ==
  ASSUME NEW a \in Int, NEW b \in Int
  PROVE  a \cong b <=> a - b \cong 0
<1>1. ASSUME a \cong b
      PROVE  a - b \cong 0
  <2>1. a - b \cong b - b
    BY <1>1, CongSame, CongSub
  <2> QED
    BY <2>1
<1>2. ASSUME a - b \cong 0
      PROVE  a \cong b
  <2>1. (a - b) + b \cong 0 + b
    BY <1>2, CongSame, CongAdd
  <2> QED
    BY <2>1
<1> QED
  BY <1>1, <1>2

-----------------------------------------------------------------------------
(* How the formulas compute a sum: n is the new Z, s the slope, (X, Y) the first point
   and (a, b) the sum, both affine. *)
Computes(X, Y, n, s, a, b, r, w, t, x3, y3, z3) ==
  /\ r \cong s * n
  /\ w \cong X * (n * n)
  /\ t \cong Y * (n * n * n)
  /\ x3 \cong a * (n * n)
  /\ y3 \cong r * (w - x3) - t
  /\ z3 \cong n
  /\ b \cong s * (X - a) - Y

LEMMA SumFormula ==
  ASSUME NEW X \in Int, NEW Y \in Int, NEW n \in Int, NEW s \in Int, NEW a \in Int, NEW b \in Int,
         NEW r \in Int, NEW w \in Int, NEW t \in Int,
         NEW x3 \in Int, NEW y3 \in Int, NEW z3 \in Int,
         Computes(X, Y, n, s, a, b, r, w, t, x3, y3, z3)
  PROVE  x3 \cong a * (z3 * z3) /\ y3 \cong b * (z3 * z3 * z3)
<1>0. /\ r \cong s * n /\ w \cong X * (n * n) /\ t \cong Y * (n * n * n)
      /\ x3 \cong a * (n * n) /\ y3 \cong r * (w - x3) - t /\ z3 \cong n
      /\ b \cong s * (X - a) - Y
  BY DEF Computes
<1>1. n * n \cong z3 * z3 /\ n \cong z3
  <2>1. z3 * z3 \cong n * n
    BY <1>0, CongMul
  <2> QED
    BY <1>0, <2>1, CongBack
<1>2. x3 \cong a * (z3 * z3)
  <2>1. a \cong a
    BY CongSame
  <2>2. a * (n * n) \cong a * (z3 * z3)
    BY <1>1, <2>1, CongMul
  <2> QED
    BY <1>0, <2>2, CongChain
<1>3. r * (w - x3) - t \cong (s * n) * (X * (n * n) - a * (n * n)) - Y * (n * n * n)
  <2>1. w - x3 \cong X * (n * n) - a * (n * n)
    BY <1>0, CongSub
  <2>2. r * (w - x3) \cong (s * n) * (X * (n * n) - a * (n * n))
    BY <1>0, <2>1, CongMul
  <2> QED
    BY <1>0, <2>2, CongSub
<1>4. (s * n) * (X * (n * n) - a * (n * n)) - Y * (n * n * n) = (s * (X - a) - Y) * (n * n * n)
  OBVIOUS
<1>5. (s * (X - a) - Y) * (n * n * n) \cong b * (z3 * z3 * z3)
  <2>1. s * (X - a) - Y \cong b
    BY <1>0, CongBack
  <2>2. n * n * n \cong z3 * z3 * z3
    BY <1>1, CongMul
  <2> QED
    BY <2>1, <2>2, CongMul
<1>6. y3 \cong (s * (X - a) - Y) * (n * n * n)
  BY <1>0, <1>3, <1>4, CongChain
<1>7. y3 \cong b * (z3 * z3 * z3)
  BY <1>5, <1>6, CongChain
<1> QED
  BY <1>2, <1>7

AffinePoint == [x : Fe, y : Fe]

(* An affine point a Jacobian triple with Z # 0 represents, without a division. *)
IsAffine(p, a) == p.x \cong a.x * (p.z * p.z) /\ p.y \cong a.y * (p.z * p.z * p.z)

(* JacChord: the sum c of p, which stands for a, and q, which has another x. *)
LEMMA ChordFormula ==
  ASSUME NEW p \in JacobianPoint, NEW A \in AffinePoint, NEW q \in AffinePoint,
         NEW c \in AffinePoint, NEW s \in Int, IsAffine(p, A),
         s * (q.x - A.x) \cong q.y - A.y,
         c.x \cong s * s - A.x - q.x,
         c.y \cong s * (A.x - c.x) - A.y
  PROVE  /\ JacChord(p, q) \in JacobianPoint
         /\ IsAffine(JacChord(p, q), c)
         /\ JacChord(p, q).z \cong 2 * ((q.x - A.x) * (p.z * p.z * p.z))
<1> DEFINE X == A.x
           Y == A.y
           u == q.x
           v == q.y
           a == c.x
           b == c.y
           x == p.x
           y == p.y
           z == p.z
           h == (u * z * z - x) % P
           r == (2 * (v * z * z * z - y)) % P
           i == (4 * h * h) % P
           j == (h * i) % P
           w == (x * i) % P
           x3 == (r * r - j - 2 * w) % P
           y3 == (r * (w - x3) - 2 * y * j) % P
           z3 == ((z + h) * (z + h) - z * z - h * h) % P
<1>a. JacChord(p, q) = [x |-> x3, y |-> y3, z |-> z3]
  BY DEF JacChord
<1>b. /\ X \in Int /\ Y \in Int /\ u \in Int /\ v \in Int /\ a \in Int /\ b \in Int
      /\ x \in Int /\ y \in Int /\ z \in Int
  BY FeZero DEF AffinePoint, JacobianPoint
<1>c. /\ s * (u - X) \cong v - Y /\ a \cong s * s - X - u /\ b \cong s * (X - a) - Y
      /\ x \cong X * (z * z) /\ y \cong Y * (z * z * z)
  BY DEF IsAffine
<1> HIDE DEF X, Y, u, v, a, b, x, y, z
<1>d. h \in Fe /\ h \in Int /\ h \cong u * (z * z) - x
  <2>1. u * z * z - x = u * (z * z) - x /\ u * (z * z) - x \in Int
    BY <1>b
  <2> QED
    BY <2>1, CongMod, FeZero
<1>e. r \in Fe /\ r \in Int /\ r \cong 2 * (v * (z * z * z) - y)
  <2>1. /\ 2 * (v * z * z * z - y) = 2 * (v * (z * z * z) - y)
        /\ 2 * (v * (z * z * z) - y) \in Int
    BY <1>b
  <2> QED
    BY <2>1, CongMod, FeZero
<1> HIDE DEF h, r
<1>f. i \in Fe /\ i \in Int /\ i \cong 4 * (h * h)
  <2>1. 4 * h * h = 4 * (h * h) /\ 4 * (h * h) \in Int
    BY <1>d
  <2> QED
    BY <2>1, CongMod, FeZero
<1> HIDE DEF i
<1>g. j \in Fe /\ j \in Int /\ j \cong h * i
  <2>1. h * i \in Int
    BY <1>d, <1>f
  <2> QED
    BY <2>1, CongMod, FeZero
<1>h. w \in Fe /\ w \in Int /\ w \cong x * i
  <2>1. x * i \in Int
    BY <1>b, <1>f
  <2> QED
    BY <2>1, CongMod, FeZero
<1> HIDE DEF j, w
<1>i. x3 \in Fe /\ x3 \in Int /\ x3 \cong r * r - j - 2 * w
  <2>1. r * r - j - 2 * w \in Int
    BY <1>e, <1>g, <1>h
  <2> QED
    BY <2>1, CongMod, FeZero
<1> HIDE DEF x3
<1>j. y3 \in Fe /\ y3 \in Int /\ y3 \cong r * (w - x3) - 2 * (y * j)
  <2>1. /\ r * (w - x3) - 2 * y * j = r * (w - x3) - 2 * (y * j)
        /\ r * (w - x3) - 2 * (y * j) \in Int
    BY <1>b, <1>e, <1>g, <1>h, <1>i
  <2> QED
    BY <2>1, CongMod, FeZero
<1>k. z3 \in Fe /\ z3 \in Int /\ z3 \cong (z + h) * (z + h) - z * z - h * h
  <2>1. (z + h) * (z + h) - z * z - h * h \in Int
    BY <1>b, <1>d
  <2> QED
    BY <2>1, CongMod, FeZero
<1> HIDE DEF y3, z3
<1> USE <1>b, <1>c, <1>d, <1>e, <1>f, <1>g, <1>h, <1>i, <1>j, <1>k
<1> DEFINE d == u - X
           m == d * (z * z * z)
<1>1. h \cong d * (z * z)
  <2>1. u * (z * z) \in Int /\ u * (z * z) \cong u * (z * z)
    BY CongSame
  <2>2. u * (z * z) - x \cong u * (z * z) - X * (z * z)
    BY <2>1, CongSub
  <2>3. u * (z * z) - X * (z * z) = d * (z * z)
    OBVIOUS
  <2> QED
    BY <2>2, <2>3, CongChain
<1>2. r \cong 2 * (s * m)
  <2>0. v * (z * z * z) \in Int /\ v * (z * z * z) \cong v * (z * z * z)
    BY CongSame
  <2>1. v * (z * z * z) - y \cong v * (z * z * z) - Y * (z * z * z)
    BY <2>0, CongSub
  <2>2. v * (z * z * z) - Y * (z * z * z) = (v - Y) * (z * z * z)
    OBVIOUS
  <2>3. v - Y \cong s * (u - X)
    BY CongBack
  <2>4. (v - Y) * (z * z * z) \cong (s * (u - X)) * (z * z * z)
    <3>1. z * z * z \in Int /\ z * z * z \cong z * z * z
      BY CongSame
    <3> QED
      BY <2>3, <3>1, CongMul
  <2>5. v * (z * z * z) - y \cong (s * (u - X)) * (z * z * z)
    BY <2>1, <2>2, <2>4, CongChain
  <2>6. 2 * (v * (z * z * z) - y) \cong 2 * ((s * (u - X)) * (z * z * z))
    BY <2>5, TwoSame, CongMul
  <2>7. 2 * ((s * (u - X)) * (z * z * z)) = 2 * (s * m)
    OBVIOUS
  <2> QED
    BY <2>6, <2>7, CongChain
<1>3. i \cong 4 * ((d * (z * z)) * (d * (z * z)))
  <2>1. h * h \cong (d * (z * z)) * (d * (z * z))
    BY <1>1, CongMul
  <2>2. 4 * (h * h) \cong 4 * ((d * (z * z)) * (d * (z * z)))
    BY <2>1, FourSame, CongMul
  <2> QED
    BY <2>2, CongChain
<1>4. j \cong 4 * (d * (m * m))
  <2>1. h * i \cong (d * (z * z)) * (4 * ((d * (z * z)) * (d * (z * z))))
    BY <1>1, <1>3, CongMul
  <2>2. (d * (z * z)) * (4 * ((d * (z * z)) * (d * (z * z)))) = 4 * (d * (m * m))
    OBVIOUS
  <2> QED
    BY <2>1, <2>2, CongChain
<1>5. w \cong 4 * (X * (m * m))
  <2>1. x * i \cong (X * (z * z)) * (4 * ((d * (z * z)) * (d * (z * z))))
    BY <1>3, CongMul
  <2>2. (X * (z * z)) * (4 * ((d * (z * z)) * (d * (z * z)))) = 4 * (X * (m * m))
    OBVIOUS
  <2> QED
    BY <2>1, <2>2, CongChain
<1>6. 2 * (y * j) \cong 8 * (Y * (m * m * m))
  <2>1. y * j \cong (Y * (z * z * z)) * (4 * (d * (m * m)))
    BY <1>4, CongMul
  <2>2. 2 * (y * j) \cong 2 * ((Y * (z * z * z)) * (4 * (d * (m * m))))
    BY <2>1, TwoSame, CongMul
  <2>3. 2 * ((Y * (z * z * z)) * (4 * (d * (m * m)))) = 8 * (Y * (m * m * m))
    OBVIOUS
  <2> QED
    BY <2>2, <2>3
<1>7. x3 \cong 4 * (a * (m * m))
  <2>1. r * r \cong (2 * (s * m)) * (2 * (s * m))
    BY <1>2, CongMul
  <2>2. r * r - j \cong (2 * (s * m)) * (2 * (s * m)) - 4 * (d * (m * m))
    BY <1>4, <2>1, CongSub
  <2>3. 2 * w \cong 2 * (4 * (X * (m * m)))
    BY <1>5, TwoSame, CongMul
  <2>4. r * r - j - 2 * w
          \cong (2 * (s * m)) * (2 * (s * m)) - 4 * (d * (m * m)) - 2 * (4 * (X * (m * m)))
    BY <2>2, <2>3, CongSub
  <2>5. (2 * (s * m)) * (2 * (s * m)) - 4 * (d * (m * m)) - 2 * (4 * (X * (m * m)))
          = (4 * (m * m)) * (s * s - X - u)
    OBVIOUS
  <2>6. s * s - X - u \cong a
    BY CongBack
  <2>7. (4 * (m * m)) * (s * s - X - u) \cong (4 * (m * m)) * a
    <3>1. 4 * (m * m) \in Int /\ 4 * (m * m) \cong 4 * (m * m)
      BY CongSame
    <3> QED
      BY <2>6, <3>1, CongMul
  <2>8. x3 \cong (4 * (m * m)) * (s * s - X - u)
    BY <2>4, <2>5, CongChain
  <2>9. x3 \cong (4 * (m * m)) * a
    BY <2>7, <2>8, CongChain
  <2> QED
    BY <2>9
<1>8. z3 \cong 2 * m
  <2>1. (z + h) * (z + h) - z * z - h * h = (2 * z) * h
    OBVIOUS
  <2>2. (2 * z) * h \cong (2 * z) * (d * (z * z))
    <3>1. 2 * z \in Int /\ 2 * z \cong 2 * z
      BY CongSame
    <3> QED
      BY <1>1, <3>1, CongMul
  <2>3. (2 * z) * (d * (z * z)) = 2 * m
    OBVIOUS
  <2> QED
    BY <2>1, <2>2, <2>3, CongChain
<1> DEFINE t == 2 * (y * j)
           n == 2 * m
<1>9. /\ 2 * (s * m) = s * n
      /\ 4 * (X * (m * m)) = X * (n * n)
      /\ 4 * (a * (m * m)) = a * (n * n)
      /\ 8 * (Y * (m * m * m)) = Y * (n * n * n)
  OBVIOUS
<1>10. n \in Int /\ t \in Int /\ y3 \cong r * (w - x3) - t
  OBVIOUS
<1>11. Computes(X, Y, n, s, a, b, r, w, t, x3, y3, z3)
  BY <1>2, <1>5, <1>6, <1>7, <1>8, <1>9, <1>10 DEF Computes
<1> HIDE DEF t, n, m, d
<1>12. x3 \cong a * (z3 * z3) /\ y3 \cong b * (z3 * z3 * z3)
  BY <1>10, <1>11, SumFormula
<1>13. z3 \cong 2 * (d * (z * z * z))
  BY <1>8 DEF m
<1> QED
  BY <1>a, <1>12, <1>13 DEF IsAffine, JacobianPoint, X, Y, u, v, a, b, x, y, z, d

(* JacDouble: the double c of p, which stands for a. *)
LEMMA DoubleFormula ==
  ASSUME NEW p \in JacobianPoint, NEW A \in AffinePoint, NEW c \in AffinePoint, NEW s \in Int,
         IsAffine(p, A),
         s * (2 * A.y) \cong 3 * (A.x * A.x),
         c.x \cong s * s - A.x - A.x,
         c.y \cong s * (A.x - c.x) - A.y
  PROVE  /\ JacDouble(p) \in JacobianPoint
         /\ IsAffine(JacDouble(p), c)
         /\ JacDouble(p).z \cong 2 * (A.y * (p.z * p.z * p.z * p.z))
<1> DEFINE X == A.x
           Y == A.y
           a == c.x
           b == c.y
           x == p.x
           y == p.y
           z == p.z
           g == (y * y) % P
           w == (2 * ((x + g) * (x + g) - x * x - g * g)) % P
           e == 3 * (x * x)
           x3 == (e * e - 2 * w) % P
           t == 8 * (g * g)
           y3 == (e * (w - x3) - t) % P
           z3 == (2 * y * z) % P
           n == 2 * (Y * (z * z * z * z))
<1>1. JacDouble(p) = [x |-> x3, y |-> y3, z |-> z3]
  BY DEF JacDouble
<1>2. /\ X \in Int /\ Y \in Int /\ a \in Int /\ b \in Int
      /\ x \in Int /\ y \in Int /\ z \in Int
  BY FeZero DEF AffinePoint, JacobianPoint
<1>3. /\ s * (2 * Y) \cong 3 * (X * X) /\ a \cong s * s - X - X /\ b \cong s * (X - a) - Y
      /\ x \cong X * (z * z) /\ y \cong Y * (z * z * z)
  BY DEF IsAffine
<1> HIDE DEF X, Y, a, b, x, y, z
<1>4. g \in Int /\ g \cong y * y
  <2>1. y * y \in Int
    BY <1>2
  <2> QED
    BY <2>1, CongMod, FeZero
<1> HIDE DEF g
<1>5. w \in Int /\ w \cong 4 * (x * g)
  <2>1. /\ 2 * ((x + g) * (x + g) - x * x - g * g) = 4 * (x * g)
        /\ 4 * (x * g) \in Int
    BY <1>2, <1>4
  <2> QED
    BY <2>1, CongMod, FeZero
<1>6. e \in Int /\ t \in Int
  BY <1>2, <1>4
<1> HIDE DEF w
<1>7. x3 \in Fe /\ x3 \in Int /\ x3 \cong e * e - 2 * w
  <2>1. e * e - 2 * w \in Int
    BY <1>5, <1>6
  <2> QED
    BY <2>1, CongMod, FeZero
<1> HIDE DEF x3
<1>8. y3 \in Fe /\ y3 \in Int /\ y3 \cong e * (w - x3) - t
  <2>1. e * (w - x3) - t \in Int
    BY <1>5, <1>6, <1>7
  <2> QED
    BY <2>1, CongMod, FeZero
<1>9. z3 \in Fe /\ z3 \in Int /\ z3 \cong 2 * (y * z)
  <2>1. 2 * y * z = 2 * (y * z) /\ 2 * (y * z) \in Int
    BY <1>2
  <2> QED
    BY <2>1, CongMod, FeZero
<1> HIDE DEF y3, z3
<1> USE <1>2, <1>3, <1>4, <1>5, <1>6, <1>7, <1>8, <1>9
<1>10. g \cong (Y * (z * z * z)) * (Y * (z * z * z))
  <2>1. y * y \cong (Y * (z * z * z)) * (Y * (z * z * z))
    BY CongMul
  <2> QED
    BY <2>1, CongChain
<1>11. e \cong s * n
  <2>1. x * x \cong (X * (z * z)) * (X * (z * z))
    BY CongMul
  <2>2. 3 \cong 3
    BY CongSame
  <2>3. 3 * (x * x) \cong 3 * ((X * (z * z)) * (X * (z * z)))
    BY <2>1, <2>2, CongMul
  <2>4. 3 * ((X * (z * z)) * (X * (z * z))) = (3 * (X * X)) * (z * z * z * z)
    OBVIOUS
  <2>5. 3 * (X * X) \cong s * (2 * Y)
    BY CongBack
  <2>6. z * z * z * z \in Int /\ z * z * z * z \cong z * z * z * z
    BY CongSame
  <2>7. (3 * (X * X)) * (z * z * z * z) \cong (s * (2 * Y)) * (z * z * z * z)
    BY <2>5, <2>6, CongMul
  <2>8. (s * (2 * Y)) * (z * z * z * z) = s * n
    OBVIOUS
  <2> QED
    BY <2>3, <2>4, <2>7, <2>8, CongChain
<1>12. w \cong X * (n * n)
  <2>1. x * g \cong (X * (z * z)) * ((Y * (z * z * z)) * (Y * (z * z * z)))
    BY <1>10, CongMul
  <2>2. 4 * (x * g) \cong 4 * ((X * (z * z)) * ((Y * (z * z * z)) * (Y * (z * z * z))))
    BY <2>1, FourSame, CongMul
  <2>3. 4 * ((X * (z * z)) * ((Y * (z * z * z)) * (Y * (z * z * z)))) = X * (n * n)
    OBVIOUS
  <2> QED
    BY <2>2, <2>3, CongChain
<1>13. t \cong Y * (n * n * n)
  <2>1. g * g \cong ((Y * (z * z * z)) * (Y * (z * z * z))) * ((Y * (z * z * z)) * (Y * (z * z * z)))
    BY <1>10, CongMul
  <2>2. 8 \cong 8
    BY CongSame
  <2>3. 8 * (g * g)
          \cong 8 * (((Y * (z * z * z)) * (Y * (z * z * z))) * ((Y * (z * z * z)) * (Y * (z * z * z))))
    BY <2>1, <2>2, CongMul
  <2>4. 8 * (((Y * (z * z * z)) * (Y * (z * z * z))) * ((Y * (z * z * z)) * (Y * (z * z * z))))
          = Y * (n * n * n)
    OBVIOUS
  <2> QED
    BY <2>3, <2>4
<1>14. z3 \cong n
  <2>1. z \cong z
    BY CongSame
  <2>2. y * z \cong (Y * (z * z * z)) * z
    BY <2>1, CongMul
  <2>3. 2 * (y * z) \cong 2 * ((Y * (z * z * z)) * z)
    BY <2>2, TwoSame, CongMul
  <2>4. 2 * ((Y * (z * z * z)) * z) = n
    OBVIOUS
  <2> QED
    BY <2>3, <2>4, CongChain
<1>15. n \in Int
  OBVIOUS
<1> HIDE DEF e, t, n
<1>16. x3 \cong a * (n * n)
  <2> DEFINE k == s * s - X - X
  <2>1. e * e \cong (s * n) * (s * n)
    BY <1>11, <1>15, CongMul
  <2>2. 2 * w \cong 2 * (X * (n * n))
    BY <1>12, <1>15, TwoSame, CongMul
  <2>3. e * e - 2 * w \cong (s * n) * (s * n) - 2 * (X * (n * n))
    BY <1>15, <2>1, <2>2, CongSub
  <2>4. (s * n) * (s * n) - 2 * (X * (n * n)) = k * (n * n)
    BY <1>15
  <2>5. k \in Int /\ k \cong a
    BY CongBack
  <2>6. n * n \in Int /\ n * n \cong n * n
    BY <1>15, CongSame
  <2>7. x3 \cong k * (n * n)
    BY <1>15, <2>3, <2>4, CongChain
  <2> HIDE DEF k
  <2>8. k * (n * n) \cong a * (n * n)
    BY <2>5, <2>6, CongMul
  <2> QED
    BY <1>15, <2>5, <2>7, <2>8, CongChain
<1>17. Computes(X, Y, n, s, a, b, e, w, t, x3, y3, z3)
  BY <1>11, <1>12, <1>13, <1>14, <1>16 DEF Computes
<1>18. x3 \cong a * (z3 * z3) /\ y3 \cong b * (z3 * z3 * z3)
  BY <1>15, <1>17, SumFormula
<1>19. z3 \cong 2 * (Y * (z * z * z * z))
  BY <1>14 DEF n
<1> QED
  BY <1>1, <1>18, <1>19 DEF IsAffine, JacobianPoint, X, Y, a, b, x, y, z

-----------------------------------------------------------------------------
(* The chord and tangent law, and the group of the points. *)

LEMMA Divides ==
  ASSUME NEW a \in Int, NEW d \in Int, ~(d \cong 0)
  PROVE  (a * FeInv(d % P)) % P \in Int /\ ((a * FeInv(d % P)) % P) * d \cong a
<1> DEFINE r == d % P
           i == FeInv(r)
           m == a * i
           s == m % P
<1>1. r \in Fe /\ r \in Int /\ d \cong r /\ r # 0
  BY CongMod, CongZero, FeZero
<1>2. i \in Int /\ r * i \cong 1
  BY <1>1, InverseOf, FeZero
<1> HIDE DEF i, r
<1>3. i * d \cong i * r
  BY <1>1, <1>2, CongSame, CongMul
<1>4. i * r = r * i
  BY <1>1, <1>2
<1> DEFINE u == i * d
<1>5. u \in Int /\ u \cong 1
  BY <1>1, <1>2, <1>3, <1>4, CongChain
<1>6. m * d = a * u /\ m \in Int
  BY <1>2
<1> HIDE DEF u, m
<1>7. a * u \cong a * 1
  BY <1>5, CongSame, CongMul
<1>8. m * d \cong a
  BY <1>6, <1>7
<1>9. s \in Int /\ s \cong m
  BY <1>6, CongMod, FeZero
<1> HIDE DEF s
<1>10. s * d \cong m * d
  BY <1>6, <1>9, CongSame, CongMul
<1>11. s * d \cong a
  BY <1>6, <1>8, <1>9, <1>10, CongChain
<1> QED
  BY <1>9, <1>11 DEF i, r, m, s

LEMMA ChordSum ==
  ASSUME NEW p \in AffinePoint, NEW q \in AffinePoint, p # Infinity, q # Infinity, p.x # q.x
  PROVE  LET c == AffineSum(p, q)
         IN /\ c \in AffinePoint
            /\ \E s \in Int :
                 /\ s * (q.x - p.x) \cong q.y - p.y
                 /\ c.x \cong s * s - p.x - q.x
                 /\ c.y \cong s * (p.x - c.x) - p.y
<1> DEFINE d == q.x - p.x
           s == ((q.y - p.y) * FeInv(d % P)) % P
           x == (s * s - p.x - q.x) % P
           y == (s * (p.x - x) - p.y) % P
<1>1. /\ p.x \in Fe /\ p.y \in Fe /\ q.x \in Fe /\ q.y \in Fe
      /\ p.x \in Int /\ p.y \in Int /\ q.x \in Int /\ q.y \in Int
  BY FeZero DEF AffinePoint
<1>2. d \in Int /\ q.y - p.y \in Int /\ ~(d \cong 0)
  <2>1. ASSUME d \cong 0
        PROVE  FALSE
    <3>1. q.x \cong p.x
      BY <1>1, <2>1, CongDiffer
    <3> QED
      BY <1>1, <3>1, CongFe
  <2> QED
    BY <1>1, <2>1
<1>3. AffineSum(p, q) = [x |-> x, y |-> y]
  BY DEF AffineSum
<1> HIDE DEF d
<1>4. s \in Int /\ s * d \cong q.y - p.y
  BY <1>2, Divides
<1> HIDE DEF s
<1>5. x \in Fe /\ x \in Int /\ x \cong s * s - p.x - q.x
  <2>1. s * s - p.x - q.x \in Int
    BY <1>1, <1>4
  <2> QED
    BY <2>1, CongMod, FeZero
<1> HIDE DEF x
<1>6. y \in Fe /\ y \cong s * (p.x - x) - p.y
  <2>1. s * (p.x - x) - p.y \in Int
    BY <1>1, <1>4, <1>5
  <2> QED
    BY <2>1, CongMod
<1> HIDE DEF y
<1>7. s * (q.x - p.x) \cong q.y - p.y
  BY <1>4 DEF d
<1> QED
  BY <1>3, <1>4, <1>5, <1>6, <1>7 DEF AffinePoint

LEMMA TangentSum ==
  ASSUME NEW p \in AffinePoint, p.y # 0
  PROVE  LET c == AffineSum(p, p)
         IN /\ c \in AffinePoint
            /\ \E s \in Int :
                 /\ s * (2 * p.y) \cong 3 * (p.x * p.x)
                 /\ c.x \cong s * s - p.x - p.x
                 /\ c.y \cong s * (p.x - c.x) - p.y
<1> DEFINE d == 2 * p.y
           t == 3 * p.x * p.x
           s == (t * FeInv(d % P)) % P
           x == (s * s - p.x - p.x) % P
           y == (s * (p.x - x) - p.y) % P
<1>1. p.x \in Fe /\ p.y \in Fe /\ p.x \in Int /\ p.y \in Int
  BY FeZero DEF AffinePoint
<1>2. d \in Int /\ t \in Int /\ t = 3 * (p.x * p.x) /\ ~(d \cong 0)
  <2>1. ~(d \cong 0)
    BY <1>1, HalfOfZero, NotZero
  <2> QED
    BY <1>1, <2>1
<1>3. AffineSum(p, p) = [x |-> x, y |-> y]
  <2>1. p # Infinity
    BY DEF Infinity
  <2>2. p.y + p.y = d
    BY <1>1
  <2>3. (p.y + p.y) % P # 0
    BY <1>2, <2>2, CongZero
  <2> QED
    BY <2>1, <2>3 DEF AffineSum
<1> HIDE DEF d, t
<1>4. s \in Int /\ s * d \cong t
  BY <1>2, Divides
<1> HIDE DEF s
<1>5. x \in Fe /\ x \in Int /\ x \cong s * s - p.x - p.x
  <2>1. s * s - p.x - p.x \in Int
    BY <1>1, <1>4
  <2> QED
    BY <2>1, CongMod, FeZero
<1> HIDE DEF x
<1>6. y \in Fe /\ y \cong s * (p.x - x) - p.y
  <2>1. s * (p.x - x) - p.y \in Int
    BY <1>1, <1>4, <1>5
  <2> QED
    BY <2>1, CongMod
<1> HIDE DEF y
<1>7. s * (2 * p.y) \cong 3 * (p.x * p.x)
  BY <1>2, <1>4 DEF d
<1> QED
  BY <1>3, <1>4, <1>5, <1>6, <1>7 DEF AffinePoint

LEMMA PointType ==
  ASSUME NEW k \in Scalar
  PROVE  Points[k] \in AffinePoint
  BY CurveAssumption DEF AffinePoint

LEMMA PointOnCurve ==
  ASSUME NEW k \in Scalar, k # 0
  PROVE  LET p == Points[k]
         IN /\ p # Infinity /\ p.y # 0
            /\ p.x \in Int /\ p.y \in Int
            /\ p.y * p.y \cong p.x * p.x * p.x + 7
<1> DEFINE p == Points[k]
           x == p.x
           y == p.y
<1>1. p \in AffinePoint /\ x \in Int /\ y \in Int
  BY PointType, FeZero DEF AffinePoint
<1>2. p.y # 0 /\ (y * y - x * x * x - 7) % P = 0
  BY CurveAssumption
<1>3. p # Infinity
  BY <1>2 DEF Infinity
<1> HIDE DEF p, x, y
<1>4. y * y \in Int /\ x * x * x + 7 \in Int /\ y * y - x * x * x - 7 = y * y - (x * x * x + 7)
  BY <1>1
<1>5. y * y - (x * x * x + 7) \cong 0
  BY <1>2, <1>4, CongZero
<1>6. y * y \cong x * x * x + 7
  BY <1>4, <1>5, CongDiffer
<1> QED
  BY <1>1, <1>2, <1>3, <1>6 DEF p, x, y

(* The point at infinity is the multiple by 0. *)
LEMMA ZeroIsInfinity == Points[0] = Infinity
<1> DEFINE S == Points[0]
<1>1. 0 \in Scalar /\ (0 + 0) % N = 0
  BY ModuliAssumption DEF Scalar
<1>2. S \in AffinePoint /\ AffineSum(S, S) = S
  BY <1>1, PointType, CurveAssumption
<1> HIDE DEF S
<1>3. CASE S.y = 0
  <2>1. (S.y + S.y) % P = 0
    BY <1>3, CongZero, CongSame
  <2>2. AffineSum(S, S) = Infinity \/ S = Infinity
    BY <2>1 DEF AffineSum
  <2> QED
    BY <1>2, <2>2 DEF S
<1>4. CASE S.y # 0
  <2>1. S.x \in Int /\ S.y \in Int /\ S.y \in Fe
    BY <1>2, FeZero DEF AffinePoint
  <2>2. PICK s \in Int : S.y \cong s * (S.x - S.x) - S.y
    BY <1>2, <1>4, TangentSum
  <2>3. s * (S.x - S.x) - S.y = -S.y
    BY <2>1
  <2> DEFINE o == -S.y
  <2>4. S.y - o \cong 0
    <3>1. o \in Int /\ S.y \cong o
      BY <2>1, <2>2, <2>3
    <3> HIDE DEF o
    <3> QED
      BY <2>1, <3>1, CongDiffer
  <2>5. S.y - o = 2 * S.y
    BY <2>1
  <2>6. S.y \cong 0
    BY <2>1, <2>4, <2>5, HalfOfZero
  <2> QED
    BY <1>4, <2>1, <2>6, NotZero
<1> QED
  BY <1>3, <1>4

(* Different multiples of the base point are different points. *)
LEMMA PointsDiffer ==
  ASSUME NEW k \in Scalar, NEW l \in Scalar, Points[k] = Points[l]
  PROVE  k = l
<1>1. CASE l = 0
  BY <1>1, ZeroIsInfinity, PointOnCurve
<1>2. CASE l # 0
  <2> DEFINE o == N - l
             j == (k + o) % N
  <2>1. o \in Scalar /\ j \in Scalar /\ (l + o) % N = 0
    <3>1. o \in Scalar /\ l + o = N * 1 + 0 /\ 0 \in Scalar /\ k + o \in Int
      BY <1>2, ModuliAssumption DEF Scalar
    <3> QED
      BY <3>1, ModUnique, DivMod
  <2> HIDE DEF o
  <2>2. Points[j] = Points[0]
    BY <2>1, CurveAssumption
  <2>3. j = 0
    BY <2>1, <2>2, ZeroIsInfinity, PointOnCurve
  <2>4. k + o = N * ((k + o) \div N) /\ (k + o) \div N \in Int
    <3> DEFINE q == (k + o) \div N
               r == (k + o) % N
    <3>1. k + o \in Int
      BY <2>1, ModuliAssumption DEF Scalar
    <3>2. k + o = N * q + r /\ q \in Int
      BY <3>1, DivMod
    <3>3. r = 0
      BY <2>3
    <3> HIDE DEF q, r
    <3>4. N * q \in Int
      BY <3>2, ModuliAssumption
    <3>5. k + o = N * q /\ q \in Int
      BY <3>2, <3>3, <3>4
    <3> QED
      BY <3>5 DEF q
  <2>5. k - l = N * ((k + o) \div N - 1)
    BY <2>4, ModuliAssumption DEF o, Scalar
  <2> DEFINE m == (k + o) \div N - 1
  <2>6. m \in Int /\ k - l = N * m
    BY <2>4, <2>5
  <2> HIDE DEF m
  <2>7. -N < k - l /\ k - l < N /\ k - l \in Int
    BY ModuliAssumption DEF Scalar
  <2>8. CASE m >= 1
    <3>1. N * m >= N
      BY <2>6, <2>8, ModuliAssumption
    <3> QED
      BY <2>6, <2>7, <3>1, ModuliAssumption
  <2>9. CASE m <= -1
    <3>1. N * m <= -N
      BY <2>6, <2>9, ModuliAssumption
    <3> QED
      BY <2>6, <2>7, <3>1, ModuliAssumption
  <2>10. CASE m = 0
    BY <2>6, <2>10, ModuliAssumption DEF Scalar
  <2> QED
    BY <2>6, <2>8, <2>9, <2>10
<1> QED
  BY <1>1, <1>2

(* A line through the origin with slope s that meets the curve at x and u. *)
LEMMA ThroughOrigin ==
  ASSUME NEW x \in Int, NEW y \in Int, NEW u \in Int, NEW s \in Int,
         y \cong s * x, s * s \cong x + u, y * y \cong x * x * x + 7
  PROVE  u * (x * x) \cong 7
<1>1. y * y \cong (s * x) * (s * x)
  BY CongMul
<1>2. (s * x) * (s * x) = (s * s) * (x * x)
  OBVIOUS
<1>3. x * x \in Int /\ x * x \cong x * x
  BY CongSame
<1>4. (s * s) * (x * x) \cong (x + u) * (x * x)
  BY <1>3, CongMul
<1>5. y * y \cong (x + u) * (x * x)
  BY <1>1, <1>2, <1>4, CongChain
<1>6. (x + u) * (x * x) \cong y * y
  BY <1>5, CongBack
<1>7. (x + u) * (x * x) \cong x * x * x + 7
  BY <1>6, CongChain
<1>8. x * x * x \in Int /\ x * x * x \cong x * x * x
  BY CongSame
<1>9. (x + u) * (x * x) - x * x * x \cong (x * x * x + 7) - x * x * x
  BY <1>7, <1>8, CongSub
<1>10. (x + u) * (x * x) - x * x * x = u * (x * x) /\ (x * x * x + 7) - x * x * x = 7
  OBVIOUS
<1> QED
  BY <1>9, <1>10

(* Infinity = (0, 0) is never what the law computes from two points with a sum. *)
LEMMA ChordMissesOrigin ==
  ASSUME NEW x \in Fe, NEW y \in Int, NEW u \in Fe, NEW v \in Int, NEW s \in Int, x # u,
         y * y \cong x * x * x + 7, v * v \cong u * u * u + 7,
         s * (u - x) \cong v - y, 0 \cong s * s - x - u, 0 \cong s * (x - 0) - y
  PROVE  FALSE
<1>1. x \in Int /\ u \in Int /\ s * x \in Int /\ s * u \in Int /\ s * s \in Int
  BY FeZero
<1>2. y \cong s * x
  <2>1. s * (x - 0) - y = s * x - y /\ s * x - y \in Int
    BY <1>1
  <2>2. s * x - y \cong 0
    BY <2>1, CongBack
  <2> QED
    BY <1>1, <2>2, CongDiffer, CongBack
<1>3. s * s \cong x + u
  <2>1. s * s - x - u = s * s - (x + u) /\ s * s - (x + u) \in Int
    BY <1>1
  <2>2. s * s - (x + u) \cong 0
    BY <2>1, CongBack
  <2> QED
    BY <1>1, <2>2, CongDiffer
<1>4. v \cong s * u
  <2>1. v - y \cong s * (u - x)
    BY <1>1, CongBack
  <2>2. (v - y) + y \cong s * (u - x) + s * x
    BY <1>1, <1>2, <2>1, CongAdd
  <2>3. (v - y) + y = v /\ s * (u - x) + s * x = s * u
    BY <1>1
  <2> QED
    BY <2>2, <2>3
<1>5. s * s \cong u + x
  BY <1>1, <1>3
<1>6. u * (x * x) \cong 7 /\ x * (u * u) \cong 7
  BY <1>1, <1>2, <1>3, <1>4, <1>5, ThroughOrigin
<1>7. u \cong u /\ x \cong x
  BY <1>1, CongSame
<1>8. u * (u * (x * x)) \cong u * 7 /\ x * (x * (u * u)) \cong x * 7
  BY <1>1, <1>6, <1>7, CongMul
<1>9. u * (u * (x * x)) = x * (x * (u * u)) /\ u * 7 = 7 * u /\ x * 7 = 7 * x
  BY <1>1
<1>10. 7 * u \cong x * (x * (u * u))
  BY <1>1, <1>8, <1>9, CongBack
<1>11. 7 * u \cong 7 * x
  BY <1>1, <1>8, <1>9, <1>10, CongChain
<1> DEFINE c == 7
<1>12. c \in Int /\ ~(c \cong 0) /\ c * u \cong c * x
  BY <1>11, CongZero, CurveAssumption
<1> HIDE DEF c
<1>13. u \cong x
  BY <1>1, <1>12, Cancel
<1> QED
  BY <1>13, CongFe

(* Two points of the group with one x are equal or have opposite y. *)
LEMMA SameXPoints ==
  ASSUME NEW k \in Scalar, k # 0, NEW l \in Scalar, l # 0, Points[k].x = Points[l].x
  PROVE  k = l \/ Points[k].y + Points[l].y \cong 0
<1> DEFINE p == Points[k]
           q == Points[l]
           x == p.x
           y == p.y
           v == q.y
<1>1. /\ p \in AffinePoint /\ q \in AffinePoint
      /\ x \in Int /\ y \in Int /\ v \in Int
      /\ y \in Fe /\ v \in Fe
      /\ y * y \cong x * x * x + 7 /\ v * v \cong x * x * x + 7
  BY PointType, PointOnCurve DEF AffinePoint
<1>2. y = v => k = l
  <2>1. y = v => p = q
    BY <1>1 DEF AffinePoint
  <2> QED
    BY <2>1, PointsDiffer
<1> HIDE DEF p, q, x, y, v
<1>3. /\ y * y \in Int /\ v * v \in Int /\ x * x * x + 7 \in Int
      /\ y - v \in Int /\ y + v \in Int /\ (y - v) * (y + v) = y * y - v * v
  BY <1>1
<1>4. x * x * x + 7 \cong v * v
  BY <1>1, <1>3, CongBack
<1>5. y * y \cong v * v
  BY <1>1, <1>3, <1>4, CongChain
<1>6. (y - v) * (y + v) \cong 0
  BY <1>3, <1>5, CongDiffer
<1>7. y - v \cong 0 \/ y + v \cong 0
  <2> DEFINE d == y - v
             e == y + v
  <2>1. d \in Int /\ e \in Int /\ d * e \cong 0
    BY <1>3, <1>6
  <2> HIDE DEF d, e
  <2>2. d \cong 0 \/ e \cong 0
    BY <2>1, NoZeroDivisors
  <2> QED
    BY <2>2 DEF d, e
<1>8. y - v \cong 0 => y = v
  BY <1>1, CongDiffer, CongFe
<1> QED
  BY <1>2, <1>7, <1>8 DEF p, q, y, v

LEMMA OppositeScalar ==
  ASSUME NEW k \in Scalar, k # 0
  PROVE  N - k \in Scalar /\ N - k # 0 /\ N - k # k /\ (k + (N - k)) % N = 0
<1>1. N - k \in Scalar /\ N - k # 0 /\ k + (N - k) = N * 1 + 0 /\ 0 \in Scalar
  BY ModuliAssumption DEF Scalar
<1>2. N - k # k
  BY ModuliAssumption DEF Scalar
<1> QED
  BY <1>1, <1>2, ModUnique

(* The opposite of a point has the opposite y. *)
LEMMA OppositePoint ==
  ASSUME NEW k \in Scalar, k # 0
  PROVE  Points[N - k].x = Points[k].x /\ Points[k].y + Points[N - k].y \cong 0
<1> DEFINE l == N - k
           p == Points[k]
           q == Points[l]
<1>1. l \in Scalar /\ l # 0 /\ l # k /\ (k + l) % N = 0
  BY OppositeScalar
<1> HIDE DEF l
<1>2. AffineSum(p, q) = Infinity
  BY <1>1, CurveAssumption, ZeroIsInfinity
<1>3. p.x = q.x
  <2> SUFFICES ASSUME p.x # q.x
               PROVE  FALSE
    OBVIOUS
  <2>1. p \in AffinePoint /\ q \in AffinePoint /\ p # Infinity /\ q # Infinity
    BY <1>1, PointType, PointOnCurve
  <2>2. PICK s \in Int : /\ s * (q.x - p.x) \cong q.y - p.y
                         /\ 0 \cong s * s - p.x - q.x
                         /\ 0 \cong s * (p.x - 0) - p.y
    BY <1>2, <2>1, ChordSum DEF Infinity
  <2>3. /\ p.x \in Fe /\ q.x \in Fe /\ p.y \in Int /\ q.y \in Int
        /\ p.y * p.y \cong p.x * p.x * p.x + 7
        /\ q.y * q.y \cong q.x * q.x * q.x + 7
    BY <1>1, <2>1, PointOnCurve DEF AffinePoint
  <2> QED
    BY <2>2, <2>3, ChordMissesOrigin
<1> QED
  BY <1>1, <1>3, SameXPoints DEF l

(* Two multiples of the base point with one x are equal or opposite. *)
LEMMA SameXScalars ==
  ASSUME NEW k \in Scalar, k # 0, NEW l \in Scalar, l # 0, Points[k].x = Points[l].x, k # l
  PROVE  l = N - k
<1> DEFINE a == Points[k]
           q == Points[l]
           o == Points[N - k]
<1>1. N - k \in Scalar /\ N - k # 0
  BY OppositeScalar
<1>2. a \in AffinePoint /\ q \in AffinePoint /\ o \in AffinePoint
  BY <1>1, PointType
<1>3. a.y + q.y \cong 0
  BY SameXPoints
<1>4. o.x = a.x /\ a.y + o.y \cong 0
  BY OppositePoint
<1> HIDE DEF a, q, o
<1> DEFINE u == a.y
           v == q.y
           w == o.y
           s == u + v
           t == u + w
<1>5. /\ u \in Int /\ v \in Int /\ w \in Int /\ v \in Fe /\ w \in Fe
      /\ s \in Int /\ t \in Int /\ s \cong 0 /\ t \cong 0 /\ s - t = v - w /\ 0 - 0 = 0
  BY <1>2, <1>3, <1>4, FeZero DEF AffinePoint
<1> HIDE DEF u, v, w, s, t
<1>6. s - t \cong 0 - 0
  BY <1>5, CongSub
<1>7. v = w
  <2>1. v - w \cong 0
    BY <1>5, <1>6
  <2>2. v \cong w
    BY <1>5, <2>1, CongDiffer
  <2> QED
    BY <1>5, <2>2, CongFe
<1>8. q = o
  BY <1>2, <1>4, <1>7 DEF AffinePoint, a, q, v, w
<1> QED
  BY <1>1, <1>8, PointsDiffer DEF q, o

-----------------------------------------------------------------------------
(* What the Jacobian triples stand for. *)

Represents(p, k) == p.z # 0 /\ IsAffine(p, Points[k])

LEMMA PowersOfZ ==
  ASSUME NEW z \in Fe, z # 0
  PROVE  /\ z \in Int /\ z * z \in Int /\ z * z * z \in Int
         /\ ~(z \cong 0) /\ ~(z * z \cong 0) /\ ~(z * z * z \cong 0)
<1>1. z \in Int /\ ~(z \cong 0)
  BY FeZero, NotZero
<1> DEFINE t == z * z
<1>2. t \in Int /\ ~(t \cong 0)
  BY <1>1, NoZeroDivisors
<1> HIDE DEF t
<1>3. t * z \in Int /\ ~(t * z \cong 0)
  BY <1>1, <1>2, NoZeroDivisors
<1> QED
  BY <1>1, <1>2, <1>3 DEF t

LEMMA CancelFe ==
  ASSUME NEW c \in Int, ~(c \cong 0), NEW a \in Fe, NEW b \in Fe, NEW t \in Int,
         t \cong a * c, t \cong b * c
  PROVE  a = b
<1>1. a \in Int /\ b \in Int /\ a * c = c * a /\ b * c = c * b
  BY FeZero
<1>2. a * c \cong t
  BY <1>1, CongBack
<1>3. a * c \cong b * c
  BY <1>1, <1>2, CongChain
<1>4. a \cong b
  BY <1>1, <1>3, Cancel
<1> QED
  BY <1>4, CongFe

(* A triple with Z # 0 stands for one affine point. *)
LEMMA AffineIsUnique ==
  ASSUME NEW p \in JacobianPoint, p.z # 0, NEW a \in AffinePoint, NEW b \in AffinePoint,
         IsAffine(p, a), IsAffine(p, b)
  PROVE  a = b
<1>1. /\ p.z \in Fe /\ p.x \in Int /\ p.y \in Int
      /\ a.x \in Fe /\ a.y \in Fe /\ b.x \in Fe /\ b.y \in Fe
  BY FeZero DEF JacobianPoint, AffinePoint
<1> DEFINE c == p.z * p.z
           e == p.z * p.z * p.z
<1>2. c \in Int /\ ~(c \cong 0) /\ e \in Int /\ ~(e \cong 0)
  BY <1>1, PowersOfZ
<1>3. p.x \cong a.x * c /\ p.x \cong b.x * c /\ p.y \cong a.y * e /\ p.y \cong b.y * e
  BY DEF IsAffine
<1> HIDE DEF c, e
<1>4. a.x = b.x /\ a.y = b.y
  BY <1>1, <1>2, <1>3, CancelFe
<1> QED
  BY <1>4 DEF AffinePoint

LEMMA NormalizedIs ==
  ASSUME NEW p \in JacobianPoint, p.z # 0
  PROVE  LET n == Normalized(p)
         IN /\ n \in JacobianPoint /\ n.z = 1
            /\ [x |-> n.x, y |-> n.y] \in AffinePoint
            /\ IsAffine(p, [x |-> n.x, y |-> n.y])
<1> DEFINE x == p.x
           y == p.y
           z == p.z
           i == FeInv(z)
           u == (x * i * i) % P
           v == (y * i * i * i) % P
<1>1. x \in Fe /\ y \in Fe /\ z \in Fe /\ x \in Int /\ y \in Int /\ z \in Int
  BY FeZero DEF JacobianPoint
<1>2. CASE z = 1
  <2>1. Normalized(p) = p
    BY <1>2 DEF Normalized
  <2>2. z * z = 1 /\ z * z * z = 1 /\ x * 1 = x /\ y * 1 = y
    BY <1>1, <1>2
  <2>3. x \cong x * (z * z) /\ y \cong y * (z * z * z)
    BY <1>1, <2>2, CongSame
  <2> QED
    BY <1>1, <1>2, <2>1, <2>3 DEF IsAffine, AffinePoint
<1>3. CASE z # 1
  <2>1. Normalized(p) = [x |-> u, y |-> v, z |-> 1]
    BY <1>3 DEF Normalized
  <2>2. i \in Int /\ z * i \cong 1
    BY <1>1, InverseOf, FeZero
  <2> HIDE DEF x, y, z, i
  <2>3. u \in Fe /\ u \in Int /\ x * i * i \in Int /\ x * i * i \cong u
    <3>1. x * i * i \in Int
      BY <1>1, <2>2
    <3> QED
      BY <3>1, CongMod, FeZero
  <2>4. v \in Fe /\ v \in Int /\ y * i * i * i \in Int /\ y * i * i * i \cong v
    <3>1. y * i * i * i \in Int
      BY <1>1, <2>2
    <3> QED
      BY <3>1, CongMod, FeZero
  <2> HIDE DEF u, v
  <2> DEFINE t == z * i
  <2>5. t \in Int /\ t \cong 1
    BY <1>1, <2>2
  <2>6. x \cong u * (z * z)
    <3>1. z * z \in Int /\ z * z \cong z * z
      BY <1>1, CongSame
    <3>2. (x * i * i) * (z * z) \cong u * (z * z)
      BY <2>3, <3>1, CongMul
    <3>3. (x * i * i) * (z * z) = x * (t * t)
      BY <1>1, <2>2
    <3> HIDE DEF t
    <3>4. t * t \cong 1 * 1
      BY <2>5, CongMul
    <3>5. x * (t * t) \cong x * (1 * 1)
      <4>1. x \cong x /\ t * t \in Int /\ 1 * 1 \in Int
        BY <1>1, <2>5, CongSame
      <4> QED
        BY <1>1, <3>4, <4>1, CongMul
    <3>6. x \cong x * (t * t)
      BY <1>1, <2>5, <3>5, CongBack
    <3> QED
      BY <1>1, <2>3, <2>5, <3>1, <3>2, <3>3, <3>6, CongChain
  <2>7. y \cong v * (z * z * z)
    <3>1. z * z * z \in Int /\ z * z * z \cong z * z * z
      BY <1>1, CongSame
    <3>2. (y * i * i * i) * (z * z * z) \cong v * (z * z * z)
      BY <2>4, <3>1, CongMul
    <3>3. (y * i * i * i) * (z * z * z) = y * (t * t * t)
      BY <1>1, <2>2
    <3> HIDE DEF t
    <3>4. t * t * t \cong 1 * 1 * 1
      <4>1. t * t \cong 1 * 1 /\ t * t \in Int
        BY <2>5, CongMul
      <4> QED
        BY <2>5, <4>1, CongMul
    <3>5. y * (t * t * t) \cong y * (1 * 1 * 1)
      <4>1. y \cong y /\ t * t * t \in Int /\ 1 * 1 * 1 \in Int
        BY <1>1, <2>5, CongSame
      <4> QED
        BY <1>1, <3>4, <4>1, CongMul
    <3>6. y \cong y * (t * t * t)
      BY <1>1, <2>5, <3>5, CongBack
    <3> QED
      BY <1>1, <2>4, <2>5, <3>1, <3>2, <3>3, <3>6, CongChain
  <2>8. u * (z * z) = u * (p.z * p.z) /\ v * (z * z * z) = v * (p.z * p.z * p.z)
    BY DEF z
  <2> QED
    BY <2>1, <2>3, <2>4, <2>6, <2>7, <2>8, FeZero DEF IsAffine, AffinePoint, JacobianPoint, x, y
<1> QED
  BY <1>2, <1>3

LEMMA LogOfPoint ==
  ASSUME NEW a \in AffinePoint
  PROVE  /\ LogOf[a] \in Scalar
         /\ \A k \in Scalar \ {0} : LogOf[a] = k <=> Points[k] = a
<1>1. LogOf[a] = IF \E k \in Scalar \ {0} : Points[k] = a
                 THEN CHOOSE k \in Scalar \ {0} : Points[k] = a ELSE 0
  BY DEF LogOf, AffinePoint
<1>2. 0 \in Scalar
  BY ModuliAssumption DEF Scalar
<1>3. CASE \E k \in Scalar \ {0} : Points[k] = a
  <2>1. LogOf[a] \in Scalar \ {0} /\ Points[LogOf[a]] = a
    BY <1>1, <1>3
  <2> QED
    BY <2>1, PointsDiffer
<1>4. CASE ~ \E k \in Scalar \ {0} : Points[k] = a
  BY <1>1, <1>2, <1>4
<1> QED
  BY <1>3, <1>4

(* Log is what Represents says. *)
LEMMA LogRepresents ==
  ASSUME NEW p \in JacobianPoint
  PROVE  /\ Log(p) \in Scalar
         /\ \A k \in Scalar \ {0} : Log(p) = k <=> Represents(p, k)
<1>1. CASE p.z = 0
  <2>1. Log(p) = 0 /\ 0 \in Scalar
    BY <1>1, ModuliAssumption DEF Log, Scalar
  <2> QED
    BY <1>1, <2>1 DEF Represents
<1>2. CASE p.z # 0
  <2> DEFINE a == [x |-> Normalized(p).x, y |-> Normalized(p).y]
  <2>1. a \in AffinePoint /\ IsAffine(p, a)
    BY <1>2, NormalizedIs
  <2>2. Log(p) = LogOf[a]
    BY <1>2 DEF Log
  <2> HIDE DEF a
  <2>3. ASSUME NEW k \in Scalar \ {0}
        PROVE  Points[k] = a <=> Represents(p, k)
    BY <1>2, <2>1, AffineIsUnique, PointType DEF Represents
  <2> QED
    BY <2>1, <2>2, <2>3, LogOfPoint
<1> QED
  BY <1>1, <1>2

(* The even-y representative is the point or its opposite. *)
LEMMA EvenYRepresents ==
  ASSUME NEW p \in JacobianPoint, NEW k \in Scalar, k # 0, Represents(p, k)
  PROVE  /\ EvenY(p) \in JacobianPoint
         /\ Represents(EvenY(p), IF IsOdd(p) THEN N - k ELSE k)
<1>1. CASE ~IsOdd(p)
  BY <1>1 DEF EvenY
<1>2. CASE IsOdd(p)
  <2> DEFINE y == p.y
             z == p.z
             o == (-y) % P
             a == Points[k]
             b == Points[N - k]
             e == z * z * z
  <2>1. EvenY(p) = [p EXCEPT !.y = o]
    BY <1>2 DEF EvenY
  <2>2. N - k \in Scalar /\ N - k # 0
    BY OppositeScalar
  <2>3. b.x = a.x /\ a.y + b.y \cong 0
    BY OppositePoint
  <2>4. y \in Int /\ z \in Int /\ e \in Int /\ a.y \in Int /\ b.y \in Int
    BY <2>2, PointOnCurve, FeZero DEF JacobianPoint
  <2>5. y \cong a.y * e
    BY DEF Represents, IsAffine
  <2> HIDE DEF a, b, e, y
  <2>6. o \in Fe /\ o \in Int /\ o \cong -y
    BY <2>4, CongMod, FeZero
  <2>7. o \cong b.y * e
    <3>1. e \cong e
      BY <2>4, CongSame
    <3>2. (a.y + b.y) * e \cong 0 * e
      <4> DEFINE t == a.y + b.y
      <4>1. t \in Int /\ t \cong 0
        BY <2>3, <2>4
      <4> HIDE DEF t
      <4>2. t * e \cong 0 * e
        BY <2>4, <3>1, <4>1, CongMul
      <4> QED
        BY <4>2 DEF t
    <3>4. (a.y + b.y) * e - a.y * e \cong 0 * e - y
      <4>1. (a.y + b.y) * e \in Int /\ 0 * e \in Int /\ a.y * e \in Int
        BY <2>4
      <4>2. a.y * e \cong y
        BY <2>4, <2>5, <4>1, CongBack
      <4> QED
        BY <2>4, <3>2, <4>1, <4>2, CongSub
    <3>5. (a.y + b.y) * e - a.y * e = b.y * e /\ 0 * e - y = -y /\ -y \in Int /\ b.y * e \in Int
      BY <2>4
    <3>6. -y \cong b.y * e
      BY <3>4, <3>5, CongBack
    <3> QED
      BY <2>6, <3>5, <3>6, CongChain
  <2>8. [p EXCEPT !.y = o] \in JacobianPoint
    BY <2>6 DEF JacobianPoint
  <2>9. Represents([p EXCEPT !.y = o], N - k)
    BY <2>3, <2>7 DEF Represents, IsAffine, JacobianPoint, a, b, e
  <2> QED
    BY <1>2, <2>1, <2>8, <2>9
<1> QED
  BY <1>1, <1>2

(* The comparisons of jac_add_affine, across the denominators. *)
LEMMA SameCoordinate ==
  ASSUME NEW u \in Fe, NEW X \in Fe, NEW c \in Int, ~(c \cong 0), NEW t \in Int, t \cong X * c
  PROVE  (u * c - t) % P = 0 <=> u = X
<1>1. u \in Int /\ X \in Int /\ u * c \in Int /\ X * c \in Int /\ u * c - t \in Int
  BY FeZero
<1>2. ASSUME (u * c - t) % P = 0
      PROVE  u = X
  <2>1. u * c - t \cong 0
    BY <1>1, <1>2, CongZero
  <2>2. u * c \cong t
    BY <1>1, <2>1, CongDiffer
  <2>3. t \cong u * c
    BY <1>1, <2>2, CongBack
  <2> QED
    BY <2>3, CancelFe
<1>3. ASSUME u = X
      PROVE  (u * c - t) % P = 0
  <2>1. u * c \cong t
    BY <1>1, <1>3, CongBack
  <2>2. u * c - t \cong 0
    BY <1>1, <2>1, CongDiffer
  <2> QED
    BY <1>1, <2>2, CongZero
<1> QED
  BY <1>2, <1>3

LEMMA Comparisons ==
  ASSUME NEW p \in JacobianPoint, NEW k \in Scalar, k # 0, Represents(p, k),
         NEW l \in Scalar, l # 0
  PROVE  /\ SameX(p, Points[l]) <=> Points[l].x = Points[k].x
         /\ SameY(p, Points[l]) <=> Points[l].y = Points[k].y
<1> DEFINE x == p.x
           y == p.y
           z == p.z
           a == Points[k]
           q == Points[l]
           c == z * z
           e == z * z * z
<1>1. /\ x \in Int /\ y \in Int /\ z \in Fe /\ z # 0 /\ z \in Int
      /\ a.x \in Fe /\ a.y \in Fe /\ q.x \in Fe /\ q.y \in Fe
      /\ q.x \in Int /\ q.y \in Int
  BY PointType, FeZero DEF JacobianPoint, AffinePoint, Represents
<1>2. x \cong a.x * c /\ y \cong a.y * e
  BY DEF Represents, IsAffine
<1>3. c \in Int /\ ~(c \cong 0) /\ e \in Int /\ ~(e \cong 0)
  BY <1>1, PowersOfZ
<1>4. q.x * z * z - x = q.x * c - x /\ q.y * z * z * z - y = q.y * e - y
  BY <1>1
<1> HIDE DEF c, e, a, q
<1>5. (q.x * c - x) % P = 0 <=> q.x = a.x
  BY <1>1, <1>2, <1>3, SameCoordinate
<1>6. (q.y * e - y) % P = 0 <=> q.y = a.y
  BY <1>1, <1>2, <1>3, SameCoordinate
<1> QED
  BY <1>4, <1>5, <1>6 DEF SameX, SameY, a, q

LEMMA ScalarOpposite ==
  ASSUME NEW k \in Scalar, k # 0, NEW l \in Scalar, (k + l) % N = 0
  PROVE  l = N - k
<1> DEFINE q == (k + l) \div N
<1>1. k + l \in Int /\ 0 < k + l /\ k + l < 2 * N /\ N \in Nat /\ N > 0
  BY ModuliAssumption DEF Scalar
<1>2. q \in Int /\ k + l = N * q
  BY <1>1, DivMod
<1> HIDE DEF q
<1>3. CASE q >= 2
  <2>1. N * q >= N * 2
    BY <1>1, <1>2, <1>3
  <2> QED
    BY <1>1, <1>2, <2>1
<1>4. CASE q <= 0
  <2>1. N * q <= 0
    BY <1>1, <1>2, <1>4
  <2> QED
    BY <1>1, <1>2, <2>1
<1>5. CASE q = 1
  BY <1>2, <1>5, ModuliAssumption DEF Scalar
<1> QED
  BY <1>2, <1>3, <1>4, <1>5

(* A Z that is twice a product of two invertible factors is not 0. *)
LEMMA TwiceAProduct ==
  ASSUME NEW d \in Int, ~(d \cong 0), NEW e \in Int, ~(e \cong 0), NEW g \in Int,
         g \cong 2 * (d * e)
  PROVE  g # 0
<1> SUFFICES ASSUME g = 0
             PROVE  FALSE
  OBVIOUS
<1> DEFINE t == d * e
<1>1. t \in Int /\ ~(t \cong 0)
  BY NoZeroDivisors
<1>2. 2 * t \in Int /\ 0 \cong 2 * t
  BY <1>1
<1> HIDE DEF t
<1>3. 2 * t \cong 0
  BY <1>2, CongBack
<1> QED
  BY <1>1, <1>3, HalfOfZero

LEMMA CongDiffers ==
  ASSUME NEW a \in Fe, NEW b \in Fe, a # b
  PROVE  a - b \in Int /\ ~(a - b \cong 0)
<1>1. a \in Int /\ b \in Int
  BY FeZero
<1>2. ~(a \cong b)
  BY CongFe
<1> QED
  BY <1>1, <1>2, CongDiffer

(* jac_add_affine is the sum of the group, and Z = 0 marks its infinity. *)
LEMMA SumRepresents ==
  ASSUME NEW p \in JacobianPoint, NEW k \in Scalar, k # 0, Represents(p, k),
         NEW l \in Scalar, l # 0
  PROVE  /\ JacAddAffine(p, Points[l]) \in JacobianPoint
         /\ (k + l) % N # 0 => Represents(JacAddAffine(p, Points[l]), (k + l) % N)
         /\ (k + l) % N = 0 => JacAddAffine(p, Points[l]).z = 0
<1> DEFINE a == Points[k]
           q == Points[l]
           m == (k + l) % N
           c == Points[m]
<1>1. /\ a \in AffinePoint /\ q \in AffinePoint /\ a # Infinity /\ q # Infinity
      /\ a.y # 0 /\ IsAffine(p, a) /\ p.z \in Fe /\ p.z # 0
  BY PointType, PointOnCurve DEF Represents, JacobianPoint
<1>2. m \in Scalar /\ c = AffineSum(a, q)
  <2>1. k + l \in Int
    BY ModuliAssumption DEF Scalar
  <2> QED
    BY <2>1, DivMod, CurveAssumption
<1>3. /\ SameX(p, q) <=> q.x = a.x
      /\ SameY(p, q) <=> q.y = a.y
  BY Comparisons
<1>4. m = 0 <=> l = N - k
  <2>1. N - k \in Scalar /\ (k + (N - k)) % N = 0
    BY OppositeScalar
  <2>2. ASSUME m = 0
        PROVE  l = N - k
    BY <2>2, ScalarOpposite
  <2> QED
    BY <2>1, <2>2
<1>5. CASE q.x # a.x
  <2>1. JacAddAffine(p, q) = JacChord(p, q)
    BY <1>3, <1>5 DEF JacAddAffine
  <2>2. m # 0
    BY <1>4, <1>5, OppositePoint
  <2>3. c \in AffinePoint /\ \E s \in Int :
          /\ s * (q.x - a.x) \cong q.y - a.y
          /\ c.x \cong s * s - a.x - q.x
          /\ c.y \cong s * (a.x - c.x) - a.y
    BY <1>1, <1>2, <1>5, ChordSum
  <2>4. /\ JacChord(p, q) \in JacobianPoint
        /\ IsAffine(JacChord(p, q), c)
        /\ JacChord(p, q).z \cong 2 * ((q.x - a.x) * (p.z * p.z * p.z))
    BY <1>1, <2>3, ChordFormula
  <2>5. JacChord(p, q).z # 0
    <3> DEFINE d == q.x - a.x
               e == p.z * p.z * p.z
               g == JacChord(p, q).z
    <3>1. e \in Int /\ ~(e \cong 0)
      BY <1>1, PowersOfZ
    <3>2. d \in Int /\ ~(d \cong 0)
      BY <1>1, <1>5, CongDiffers DEF AffinePoint
    <3>3. g \in Int /\ g \cong 2 * (d * e)
      BY <2>4, FeZero DEF JacobianPoint
    <3> HIDE DEF d, e, g
    <3>4. g # 0
      BY <3>1, <3>2, <3>3, TwiceAProduct
    <3> QED
      BY <3>4 DEF g
  <2> QED
    BY <2>1, <2>2, <2>4, <2>5 DEF Represents
<1>6. CASE q.x = a.x /\ q.y = a.y
  <2>1. JacAddAffine(p, q) = JacDouble(p)
    BY <1>3, <1>6 DEF JacAddAffine
  <2>2. q = a /\ l = k
    <3>1. q = a
      BY <1>1, <1>6 DEF AffinePoint
    <3> QED
      BY <3>1, PointsDiffer
  <2>3. m # 0
    BY <1>4, <2>2, OppositeScalar
  <2>4. c \in AffinePoint /\ \E s \in Int :
          /\ s * (2 * a.y) \cong 3 * (a.x * a.x)
          /\ c.x \cong s * s - a.x - a.x
          /\ c.y \cong s * (a.x - c.x) - a.y
    BY <1>1, <1>2, <2>2, TangentSum
  <2>5. /\ JacDouble(p) \in JacobianPoint
        /\ IsAffine(JacDouble(p), c)
        /\ JacDouble(p).z \cong 2 * (a.y * (p.z * p.z * p.z * p.z))
    BY <1>1, <2>4, DoubleFormula
  <2>6. JacDouble(p).z # 0
    <3> DEFINE z == p.z
               d == z * z * z
               e == z * z * z * z
               y == a.y
               g == JacDouble(p).z
    <3>1. d \in Int /\ ~(d \cong 0) /\ z \in Int /\ ~(z \cong 0)
      BY <1>1, PowersOfZ
    <3>2. g \in Int /\ y \in Int /\ ~(y \cong 0)
      BY <1>1, <2>5, FeZero, NotZero DEF AffinePoint, JacobianPoint
    <3>3. g \cong 2 * (y * e)
      BY <2>5
    <3>4. e = d * z
      OBVIOUS
    <3> HIDE DEF z, d, e, y, g
    <3>5. e \in Int /\ ~(e \cong 0)
      BY <3>1, <3>4, NoZeroDivisors
    <3>6. g # 0
      BY <3>2, <3>3, <3>5, TwiceAProduct
    <3> QED
      BY <3>6 DEF g
  <2> QED
    BY <2>1, <2>3, <2>5, <2>6 DEF Represents
<1>7. CASE q.x = a.x /\ q.y # a.y
  <2>1. JacAddAffine(p, q) = JacInfinity
    BY <1>3, <1>7 DEF JacAddAffine
  <2>2. JacInfinity \in JacobianPoint /\ JacInfinity.z = 0
    BY FeZero DEF JacInfinity, JacobianPoint
  <2>3. m = 0
    <3>1. k # l
      BY <1>7
    <3> QED
      BY <1>4, <1>7, <3>1, SameXScalars
  <2> QED
    BY <2>1, <2>2, <2>3
<1> QED
  BY <1>5, <1>6, <1>7

-----------------------------------------------------------------------------
(* What the kernels do to logarithms. *)

LEMMA OnCurveIs ==
  ASSUME NEW p \in JacobianPoint, OnCurve(p)
  PROVE  p.z # 0 /\ Log(p) \in Scalar /\ Log(p) # 0 /\ Represents(p, Log(p))
<1>1. Log(p) \in Scalar /\ Log(p) # 0
  BY LogRepresents DEF OnCurve
<1>2. Represents(p, Log(p))
  BY <1>1, LogRepresents
<1> QED
  BY <1>1, <1>2 DEF Represents

(* The even-y representative plus a jump point. *)
LEMMA SumLog ==
  ASSUME NEW p \in JacobianPoint, OnCurve(p), NEW jump \in Int, jump % N # 0
  PROVE  LET sum == JacAddAffine(EvenY(p), Points[jump % N])
         IN /\ sum \in JacobianPoint
            /\ Log(sum) = ((IF IsOdd(p) THEN -Log(p) ELSE Log(p)) + jump) % N
            /\ sum.z # 0 => OnCurve(sum)
<1> DEFINE k == Log(p)
           l == jump % N
           j == IF IsOdd(p) THEN N - k ELSE k
           sum == JacAddAffine(EvenY(p), Points[l])
           m == (j + l) % N
<1>1. k \in Scalar /\ k # 0 /\ Represents(p, k) /\ l \in Scalar /\ l # 0
  BY OnCurveIs, DivMod
<1>2. EvenY(p) \in JacobianPoint /\ Represents(EvenY(p), j)
  BY <1>1, EvenYRepresents
<1>3. j \in Scalar /\ j # 0
  BY <1>1, OppositeScalar
<1>4. /\ sum \in JacobianPoint
      /\ m # 0 => Represents(sum, m)
      /\ m = 0 => sum.z = 0
  BY <1>1, <1>2, <1>3, SumRepresents
<1>5. m \in Scalar
  <2>1. j + l \in Int
    BY <1>1, <1>3, ModuliAssumption DEF Scalar
  <2> QED
    BY <2>1, DivMod
<1>6. m = ((IF IsOdd(p) THEN -k ELSE k) + jump) % N
  <2>1. k \in Int /\ l \in Int /\ j \in Int /\ -k \in Int
    BY <1>1, <1>3, ModuliAssumption DEF Scalar
  <2>2. l % N = jump % N
    BY <1>1, ModOfSmall
  <2> DEFINE u == IF IsOdd(p) THEN -k ELSE k
  <2>3. u \in Int /\ j % N = u % N
    <3>1. (-k + N * 1) % N = (-k) % N
      BY <2>1, ModAddMultiple
    <3>2. -k + N * 1 = N - k
      BY <2>1, ModuliAssumption
    <3> QED
      BY <2>1, <3>1, <3>2
  <2> HIDE DEF k, l, j, u
  <2>4. (j + l) % N = (u + jump) % N
    BY <2>1, <2>2, <2>3, ModAdd
  <2> QED
    BY <2>4 DEF u
<1>7. Log(sum) = m
  <2>1. CASE m = 0
    BY <1>4, <2>1 DEF Log
  <2>2. CASE m # 0
    BY <1>4, <1>5, <2>2, LogRepresents
  <2> QED
    BY <2>1, <2>2
<1>8. sum.z # 0 => OnCurve(sum)
  BY <1>4, <1>7 DEF OnCurve
<1> QED
  BY <1>4, <1>6, <1>7, <1>8

LEMMA NormalizedLog ==
  ASSUME NEW p \in JacobianPoint, OnCurve(p)
  PROVE  LET n == Normalized(p)
         IN n \in JacobianPoint /\ n.z = 1 /\ Log(n) = Log(p)
<1> DEFINE n == Normalized(p)
<1>1. p.z # 0
  BY OnCurveIs
<1>2. n \in JacobianPoint /\ n.z = 1
  BY <1>1, NormalizedIs
<1>3. Log(p) = LogOf[[x |-> n.x, y |-> n.y]]
  BY <1>1 DEF Log
<1>4. Normalized(n) = n
  BY <1>2 DEF Normalized
<1> HIDE DEF n
<1>5. Log(n) = LogOf[[x |-> n.x, y |-> n.y]]
  BY <1>2, <1>4 DEF Log
<1> QED
  BY <1>2, <1>3, <1>5 DEF n

(* The x that the host computes for a candidate. *)
LEMMA CandidateX ==
  ASSUME NEW p \in JacobianPoint, OnCurve(p), NEW c, c.x = p.x, c.z = p.z
  PROVE  c.z # 0 /\ AffineXOf(c) = Points[Log(p)].x
<1> DEFINE x == p.x
           z == p.z
           i == FeInv(z)
           a == Points[Log(p)].x
           m == x * i * i
<1>1. /\ z # 0 /\ x \in Int /\ z \in Fe /\ z \in Int /\ a \in Fe /\ a \in Int
      /\ x \cong a * (z * z)
  BY OnCurveIs, PointType, FeZero DEF Represents, IsAffine, JacobianPoint, AffinePoint
<1>2. i \in Int /\ z * i \cong 1
  BY <1>1, InverseOf, FeZero
<1>3. AffineXOf(c) = m % P
  BY DEF AffineXOf
<1> HIDE DEF x, z, i, a
<1>4. m \cong a
  <2> DEFINE t == z * i
             w == z * z
             b == a * w
             e == i * i
  <2>1. /\ t \in Int /\ t \cong 1 /\ b \in Int /\ e \in Int /\ x \cong b
        /\ x * e = m /\ b * e = a * (t * t)
    BY <1>1, <1>2
  <2> HIDE DEF t, b, e
  <2>2. x * e \cong b * e
    BY <1>1, <2>1, CongSame, CongMul
  <2>3. t * t \cong 1 * 1
    BY <2>1, CongMul
  <2> DEFINE q == t * t
  <2>4. q \in Int /\ q \cong 1
    BY <2>1, <2>3
  <2>5. b * e = a * q
    BY <2>1
  <2> HIDE DEF q
  <2>6. a * q \cong a * 1
    BY <1>1, <2>4, CongSame, CongMul
  <2>7. a * 1 = a
    BY <1>1
  <2>8. x * e \in Int /\ a * q \in Int
    BY <1>1, <2>1, <2>4
  <2> QED
    BY <1>1, <2>1, <2>2, <2>5, <2>6, <2>7, <2>8, CongChain
<1>5. m \in Int
  BY <1>1, <1>2
<1> HIDE DEF m
<1>6. m % P \in Fe /\ m % P \in Int /\ m % P \cong m
  BY <1>5, CongMod, FeZero
<1>7. m % P \cong a
  BY <1>1, <1>4, <1>5, <1>6, CongChain
<1>8. m % P = a
  BY <1>1, <1>6, <1>7, CongFe
<1> QED
  BY <1>1, <1>3, <1>8 DEF a, z

(* An affine x has one pair of opposite logarithms, so one name. *)
LEMMA NameOfX ==
  ASSUME NEW k \in Scalar, k # 0
  PROVE  AffineX(CHOOSE l \in LogsOfX(Points[k].x) : TRUE) = AffineX(k)
<1> DEFINE l == CHOOSE l \in LogsOfX(Points[k].x) : TRUE
<1>1. l \in LogsOfX(Points[k].x)
  BY DEF LogsOfX
<1> HIDE DEF l
<1>2. l \in Scalar /\ l # 0 /\ Points[l].x = Points[k].x
  BY <1>1 DEF LogsOfX
<1>3. l = k \/ l = N - k
  BY <1>2, SameXScalars
<1>4. AffineX(N - k) = AffineX(k)
  BY ModuliAssumption DEF AffineX, Scalar
<1> QED
  BY <1>3, <1>4 DEF l

-----------------------------------------------------------------------------
(* The inductive invariant. *)

(* The normalize pass leaves a thread's kangaroo at Z = 1, and a distinguished one
   is in the buffer unless that is full. *)
PassReports(k) ==
  thread[k] = 0 =>
    /\ kangaroo[k].z = 1
    /\ \/ ~IsDistinguished(kangaroo[k].x)
       \/ Len(buffer) = BufferSize
       \/ \E i \in DOMAIN buffer : Verified(buffer[i]) /\ Convert(buffer[i]) = Reported(k)

JacobianTypeOK ==
  /\ start \in Scalar
  /\ pubkey \in Scalar
  /\ normalize \in BOOLEAN
  /\ kangaroo \in [Kangaroos -> Kangaroo]
  /\ buffer \in Seq(Candidate)
  /\ Len(buffer) <= BufferSize
  /\ phase \in {"idle", "walk", "normalize"}
  /\ thread \in [Kangaroos -> -1 .. StepsPerCall]

IInv ==
  /\ JacobianTypeOK
  /\ \A k \in Kangaroos : kangaroo[k].z # 0 => OnCurve(Point(kangaroo[k]))
  /\ phase = "normalize" => \A k \in Kangaroos : thread[k] \in {-1, 0} /\ PassReports(k)

-----------------------------------------------------------------------------
(* One step of a thread. *)

LEMMA SameArithmetic ==
  /\ Logs!Scalar = Scalar /\ Logs!Word = Word /\ Logs!KType = KType /\ Logs!Tame = Tame
  /\ Logs!JumpIndex = 0 .. Jumps - 1
  /\ \A p : Logs!AffineX(p) = AffineX(p)
  /\ \A t, s, p : Logs!OriginOf(t, s, p) = OriginOf(t, s, p)
  BY DEF Logs!Scalar, Scalar, Logs!Word, Word, Logs!KType, KType, Logs!Tame, Tame,
         Logs!Wild1, Wild1, Logs!Wild2, Wild2, Logs!JumpIndex, Logs!AffineX, AffineX,
         Logs!OriginOf, OriginOf

LEMMA KangarooPoint ==
  ASSUME NEW g \in Kangaroo
  PROVE  /\ Point(g) \in JacobianPoint
         /\ g.x \in Fe /\ g.y \in Fe /\ g.z \in Fe
         /\ Point(g).x = g.x /\ Point(g).y = g.y /\ Point(g).z = g.z
  BY DEF Kangaroo, Point, JacobianPoint

LEMMA WordMod ==
  ASSUME NEW a \in Int
  PROVE  a % W \in Word
  BY ModuliAssumption DEF Word

LEMMA LowBitsType ==
  ASSUME NEW x \in Fe
  PROVE  LowBitsOf(x) \in LowBits
<1> DEFINE n == Cardinality(LowBits)
<1>1. n \in Nat /\ LowBits = 0 .. n - 1
  BY FS_CardinalityType, JacobianWalkAssumption
<1>2. n # 0
  BY <1>1, JacobianWalkAssumption
<1>3. x \in Int /\ LowBitsOf(x) = x % n
  BY FeZero DEF LowBitsOf
<1> HIDE DEF n
<1> QED
  BY <1>1, <1>2, <1>3

(* The index a thread takes from the table. *)
LEMMA JumpType ==
  ASSUME NEW k \in Kangaroos, NEW g \in Kangaroo, thread[k] \in 0 .. StepsPerCall - 1
  PROVE  /\ HashedJump(k, g) \in 0 .. Jumps - 1
         /\ Logs!JumpTaken(g, HashedJump(k, g)) \in 0 .. Jumps - 1
<1>1. HashedJump(k, g) \in 0 .. Jumps - 1
  <2>1. g.x \in Fe /\ g.cycle \in 0 .. CycleCap + 1
    BY DEF Kangaroo
  <2> QED
    BY <2>1, JacobianWalkAssumption DEF HashedJump
<1>2. \A h \in 0 .. Jumps - 1 : (h + 1) % Jumps \in 0 .. Jumps - 1
  BY JacobianWalkAssumption
<1> QED
  BY <1>1, <1>2 DEF Logs!JumpTaken

(* Choose sets the counters or last_jump and leaves the point and the distance. *)
LEMMA Chosen ==
  ASSUME NEW g, NEW idx,
         g = [x |-> g.x, y |-> g.y, z |-> g.z, ktype |-> g.ktype, dist |-> g.dist,
              cycle |-> g.cycle, repeat |-> g.repeat, last |-> g.last]
  PROVE  Logs!Choose(g, idx) =
           [x |-> g.x, y |-> g.y, z |-> g.z, ktype |-> g.ktype, dist |-> g.dist,
            cycle |-> IF Logs!InCycle(g) THEN 0 ELSE g.cycle,
            repeat |-> IF Logs!InCycle(g) THEN Logs!NoRepeat ELSE g.repeat,
            last |-> IF Logs!InCycle(g) THEN g.last ELSE idx]
<1>1. CASE Logs!InCycle(g)
  BY <1>1 DEF Logs!Choose
<1>2. CASE ~Logs!InCycle(g)
  BY <1>2 DEF Logs!Choose
<1> QED
  BY <1>1, <1>2

LEMMA Moved ==
  ASSUME NEW g, NEW idx,
         g = [x |-> g.x, y |-> g.y, z |-> g.z, ktype |-> g.ktype, dist |-> g.dist,
              cycle |-> g.cycle, repeat |-> g.repeat, last |-> g.last]
  PROVE  LET sum == JacAddAffine(EvenY(Point(g)), Points[JumpDistance[idx] % N])
             dist == ((IF IsOdd(Point(g)) THEN -g.dist ELSE g.dist) + JumpDistance[idx]) % W
         IN Move(g, idx) =
              [x |-> sum.x, y |-> sum.y, z |-> sum.z, ktype |-> g.ktype, dist |-> dist,
               cycle |-> g.cycle, repeat |-> g.repeat, last |-> g.last]
<1> DEFINE sum == JacAddAffine(EvenY(Point(g)), Points[JumpDistance[idx] % N])
           dist == ((IF IsOdd(Point(g)) THEN -g.dist ELSE g.dist) + JumpDistance[idx]) % W
           x == sum.x
           y == sum.y
           z == sum.z
<1>1. Move(g, idx) = [g EXCEPT !.x = x, !.y = y, !.z = z, !.dist = dist]
  BY DEF Move
<1> HIDE DEF x, y, z, dist, sum
<1>2. [g EXCEPT !.x = x, !.y = y, !.z = z, !.dist = dist] =
        [x |-> x, y |-> y, z |-> z, ktype |-> g.ktype, dist |-> dist,
         cycle |-> g.cycle, repeat |-> g.repeat, last |-> g.last]
  <2> DEFINE a == [g EXCEPT !.x = x]
             b == [a EXCEPT !.y = y]
             c == [b EXCEPT !.z = z]
  <2>1. [g EXCEPT !.x = x, !.y = y, !.z = z, !.dist = dist] = [c EXCEPT !.dist = dist]
    OBVIOUS
  <2>2. a = [x |-> x, y |-> g.y, z |-> g.z, ktype |-> g.ktype, dist |-> g.dist,
             cycle |-> g.cycle, repeat |-> g.repeat, last |-> g.last]
    OBVIOUS
  <2> HIDE DEF a
  <2>3. b = [x |-> x, y |-> y, z |-> g.z, ktype |-> g.ktype, dist |-> g.dist,
             cycle |-> g.cycle, repeat |-> g.repeat, last |-> g.last]
    BY <2>2
  <2> HIDE DEF b
  <2>4. c = [x |-> x, y |-> y, z |-> z, ktype |-> g.ktype, dist |-> g.dist,
             cycle |-> g.cycle, repeat |-> g.repeat, last |-> g.last]
    BY <2>3
  <2> HIDE DEF c
  <2> QED
    BY <2>1, <2>4
<1> QED
  BY <1>1, <1>2 DEF x, y, z, dist, sum

LEMMA Tallied ==
  ASSUME NEW g, NEW low,
         g = [x |-> g.x, y |-> g.y, z |-> g.z, ktype |-> g.ktype, dist |-> g.dist,
              cycle |-> g.cycle, repeat |-> g.repeat, last |-> g.last]
  PROVE  Logs!Tally(g, low) =
           [x |-> g.x, y |-> g.y, z |-> g.z, ktype |-> g.ktype, dist |-> g.dist,
            cycle |-> g.cycle + 1,
            repeat |-> [low |-> low, count |-> IF low = g.repeat.low THEN g.repeat.count + 1 ELSE 1],
            last |-> g.last]
<1> DEFINE cycle == g.cycle + 1
           repeat == [low |-> low, count |-> IF low = g.repeat.low THEN g.repeat.count + 1 ELSE 1]
<1>1. Logs!Tally(g, low) = [g EXCEPT !.cycle = cycle, !.repeat = repeat]
  BY DEF Logs!Tally
<1> HIDE DEF cycle, repeat
<1>2. [g EXCEPT !.cycle = cycle, !.repeat = repeat] =
        [x |-> g.x, y |-> g.y, z |-> g.z, ktype |-> g.ktype, dist |-> g.dist,
         cycle |-> cycle, repeat |-> repeat, last |-> g.last]
  <2> DEFINE a == [g EXCEPT !.cycle = cycle]
  <2>1. [g EXCEPT !.cycle = cycle, !.repeat = repeat] = [a EXCEPT !.repeat = repeat]
    OBVIOUS
  <2>2. a = [x |-> g.x, y |-> g.y, z |-> g.z, ktype |-> g.ktype, dist |-> g.dist,
             cycle |-> cycle, repeat |-> g.repeat, last |-> g.last]
    OBVIOUS
  <2> HIDE DEF a
  <2> QED
    BY <2>1, <2>2
<1> QED
  BY <1>1, <1>2 DEF cycle, repeat

(* The record after a step. *)
StepRecord(g, sum, idx) ==
  [x |-> sum.x, y |-> sum.y, z |-> sum.z, ktype |-> g.ktype,
   dist |-> ((IF IsOdd(Point(g)) THEN -g.dist ELSE g.dist) + JumpDistance[idx]) % W,
   cycle |-> (IF Logs!InCycle(g) THEN 0 ELSE g.cycle) + 1,
   repeat |->
     LET r == IF Logs!InCycle(g) THEN Logs!NoRepeat ELSE g.repeat
     IN [low |-> LowBitsOf(sum.x), count |-> IF LowBitsOf(sum.x) = r.low THEN r.count + 1 ELSE 1],
   last |-> IF Logs!InCycle(g) THEN g.last ELSE idx]

LEMMA SteppedIs ==
  ASSUME NEW k \in Kangaroos, NEW g \in Kangaroo
  PROVE  LET idx == Logs!JumpTaken(g, HashedJump(k, g))
         IN Stepped(k, g) =
              StepRecord(g, JacAddAffine(EvenY(Point(g)), Points[JumpDistance[idx] % N]), idx)
<1> DEFINE idx == Logs!JumpTaken(g, HashedJump(k, g))
           c == Logs!Choose(g, idx)
           sum == JacAddAffine(EvenY(Point(g)), Points[JumpDistance[idx] % N])
           m == Move(c, idx)
           dist == ((IF IsOdd(Point(g)) THEN -g.dist ELSE g.dist) + JumpDistance[idx]) % W
           cycle == IF Logs!InCycle(g) THEN 0 ELSE g.cycle
           repeat == IF Logs!InCycle(g) THEN Logs!NoRepeat ELSE g.repeat
           last == IF Logs!InCycle(g) THEN g.last ELSE idx
<1>1. c = [x |-> g.x, y |-> g.y, z |-> g.z, ktype |-> g.ktype, dist |-> g.dist,
           cycle |-> cycle, repeat |-> repeat, last |-> last]
  BY Chosen DEF Kangaroo
<1>2. Stepped(k, g) = Logs!Tally(m, LowBitsOf(m.x))
  BY DEF Stepped
<1>3. StepRecord(g, sum, idx) =
        [x |-> sum.x, y |-> sum.y, z |-> sum.z, ktype |-> g.ktype, dist |-> dist,
         cycle |-> cycle + 1,
         repeat |-> [low |-> LowBitsOf(sum.x),
                     count |-> IF LowBitsOf(sum.x) = repeat.low THEN repeat.count + 1 ELSE 1],
         last |-> last]
  BY DEF StepRecord
<1> HIDE DEF idx, c, cycle, repeat, last
<1>4. Point(c) = Point(g)
  BY <1>1 DEF Point
<1>5. m = [x |-> sum.x, y |-> sum.y, z |-> sum.z, ktype |-> g.ktype, dist |-> dist,
           cycle |-> cycle, repeat |-> repeat, last |-> last]
  <2>1. m = LET s == JacAddAffine(EvenY(Point(c)), Points[JumpDistance[idx] % N])
                d == ((IF IsOdd(Point(c)) THEN -c.dist ELSE c.dist) + JumpDistance[idx]) % W
            IN [x |-> s.x, y |-> s.y, z |-> s.z, ktype |-> c.ktype, dist |-> d,
                cycle |-> c.cycle, repeat |-> c.repeat, last |-> c.last]
    BY <1>1, Moved
  <2> QED
    BY <1>1, <1>4, <2>1
<1> HIDE DEF m, sum, dist
<1>6. Logs!Tally(m, LowBitsOf(m.x)) = StepRecord(g, sum, idx)
  <2>1. Logs!Tally(m, LowBitsOf(m.x)) =
          [x |-> m.x, y |-> m.y, z |-> m.z, ktype |-> m.ktype, dist |-> m.dist,
           cycle |-> m.cycle + 1,
           repeat |-> [low |-> LowBitsOf(m.x),
                       count |-> IF LowBitsOf(m.x) = m.repeat.low THEN m.repeat.count + 1 ELSE 1],
           last |-> m.last]
    BY <1>5, Tallied
  <2> QED
    BY <1>3, <1>5, <2>1
<1> QED
  BY <1>2, <1>6 DEF sum, idx

LEMMA StepFields ==
  ASSUME NEW k \in Kangaroos, NEW g \in Kangaroo, OnCurve(Point(g)),
         thread[k] \in 0 .. StepsPerCall - 1
  PROVE  LET idx == Logs!JumpTaken(g, HashedJump(k, g))
             new == Stepped(k, g)
         IN /\ new \in Kangaroo
            /\ new.z # 0 => OnCurve(Point(new))
            /\ WithLog(new) =
                 Logs!Tally(Logs!Move(Logs!Choose(WithLog(g), idx), JumpDistance[idx], IsOdd(Point(g))),
                            LowBitsOf(new.x))
<1> DEFINE idx == Logs!JumpTaken(g, HashedJump(k, g))
           jump == JumpDistance[idx]
           odd == IsOdd(Point(g))
           sum == JacAddAffine(EvenY(Point(g)), Points[jump % N])
           new == Stepped(k, g)
           cyc == Logs!InCycle(g)
           repeat == IF cyc THEN Logs!NoRepeat ELSE g.repeat
<1>1. idx \in 0 .. Jumps - 1 /\ jump \in Word /\ jump \in Int /\ jump % N # 0
  BY JumpType, JacobianWalkAssumption, ModuliAssumption DEF Word
<1>2. Point(g) \in JacobianPoint
  BY KangarooPoint
<1>3. /\ sum \in JacobianPoint
      /\ Log(sum) = ((IF odd THEN -Log(Point(g)) ELSE Log(Point(g))) + jump) % N
      /\ sum.z # 0 => OnCurve(sum)
  BY <1>1, <1>2, SumLog
<1>4. new = StepRecord(g, sum, idx)
  BY SteppedIs
<1> HIDE DEF idx, jump, sum, new
<1>5. Point(new) = sum
  BY <1>3, <1>4 DEF StepRecord, Point, JacobianPoint
<1>6. new \in Kangaroo
  <2>1. sum.x \in Fe /\ sum.y \in Fe /\ sum.z \in Fe
    BY <1>3 DEF JacobianPoint
  <2>2. g.dist \in Int /\ ((IF odd THEN -g.dist ELSE g.dist) + jump) \in Int
    BY <1>1, ModuliAssumption DEF Kangaroo, Word
  <2>3. ((IF odd THEN -g.dist ELSE g.dist) + jump) % W \in Word
    BY <2>2, WordMod
  <2>4. (IF cyc THEN 0 ELSE g.cycle) + 1 \in 0 .. CycleCap + 1
    <3>1. g.cycle \in 0 .. CycleCap + 1 /\ CycleCap \in Nat
      BY JacobianWalkAssumption DEF Kangaroo
    <3>2. CASE cyc
      BY <3>1, <3>2
    <3>3. CASE ~cyc
      BY <3>1, <3>3 DEF Logs!InCycle
    <3> QED
      BY <3>2, <3>3
  <2>5. repeat.count \in 0 .. RepeatThreshold
    BY JacobianWalkAssumption DEF Kangaroo, Logs!InCycle, Logs!NoRepeat
  <2>6. [low |-> LowBitsOf(sum.x),
         count |-> IF LowBitsOf(sum.x) = repeat.low THEN repeat.count + 1 ELSE 1]
          \in [low : LowBits, count : 0 .. RepeatThreshold + 1]
    <3> DEFINE low == LowBitsOf(sum.x)
               count == repeat.count
    <3>1. low \in LowBits /\ count \in 0 .. RepeatThreshold /\ RepeatThreshold \in Nat
      BY <2>1, <2>5, LowBitsType, JacobianWalkAssumption
    <3> HIDE DEF low, count
    <3>2. (IF low = repeat.low THEN count + 1 ELSE 1) \in 0 .. RepeatThreshold + 1
      BY <3>1
    <3> QED
      BY <3>1, <3>2 DEF low, count
  <2>7. (IF cyc THEN g.last ELSE idx) \in -1 .. Jumps - 1
    <3>1. g.last \in -1 .. Jumps - 1 /\ idx \in -1 .. Jumps - 1
      BY <1>1, JacobianWalkAssumption DEF Kangaroo
    <3> QED
      BY <3>1
  <2>8. g.ktype \in KType
    BY DEF Kangaroo
  <2> QED
    BY <1>4, <2>1, <2>3, <2>4, <2>6, <2>7, <2>8 DEF StepRecord, Kangaroo, jump
<1>7. new.z # 0 => OnCurve(Point(new))
  BY <1>3, <1>5 DEF Point
<1>8. WithLog(new) =
        Logs!Tally(Logs!Move(Logs!Choose(WithLog(g), idx), jump, odd), LowBitsOf(new.x))
  <2> DEFINE L == WithLog(g)
             C == Logs!Choose(L, idx)
             M == Logs!Move(C, jump, odd)
             low == LowBitsOf(new.x)
             log == ((IF odd THEN -Log(Point(g)) ELSE Log(Point(g))) + jump) % N
             dist == ((IF odd THEN -g.dist ELSE g.dist) + jump) % W
             cycle == IF cyc THEN 0 ELSE g.cycle
             last == IF cyc THEN g.last ELSE idx
  <2>1. Logs!InCycle(L) <=> cyc
    BY DEF WithLog, Logs!InCycle
  <2>2. C = [ktype |-> g.ktype, log |-> Log(Point(g)), dist |-> g.dist, cycle |-> cycle,
             repeat |-> repeat, last |-> last]
    <3>1. CASE cyc
      BY <2>1, <3>1 DEF WithLog, Logs!Choose
    <3>2. CASE ~cyc
      BY <2>1, <3>2 DEF WithLog, Logs!Choose
    <3> QED
      BY <3>1, <3>2
  <2> HIDE DEF C, cycle, last, repeat
  <2>3. M = [ktype |-> g.ktype, log |-> log, dist |-> dist, cycle |-> cycle,
             repeat |-> repeat, last |-> last]
    <3>1. M = [C EXCEPT !.log = log, !.dist = dist]
      BY <2>2 DEF Logs!Move, M
    <3> HIDE DEF log, dist
    <3> QED
      BY <2>2, <3>1
  <2> HIDE DEF M, log, dist
  <2>4. Logs!Tally(M, low) =
          [ktype |-> g.ktype, log |-> log, dist |-> dist, cycle |-> cycle + 1,
           repeat |-> [low |-> low, count |-> IF low = repeat.low THEN repeat.count + 1 ELSE 1],
           last |-> last]
    <3> DEFINE up == cycle + 1
               rep == [low |-> low, count |-> IF low = repeat.low THEN repeat.count + 1 ELSE 1]
    <3>1. Logs!Tally(M, low) = [M EXCEPT !.cycle = up, !.repeat = rep]
      BY <2>3 DEF Logs!Tally
    <3> HIDE DEF up, rep
    <3>2. [M EXCEPT !.cycle = up, !.repeat = rep] =
            [ktype |-> g.ktype, log |-> log, dist |-> dist, cycle |-> up, repeat |-> rep,
             last |-> last]
      <4> DEFINE a == [M EXCEPT !.cycle = up]
      <4>1. [M EXCEPT !.cycle = up, !.repeat = rep] = [a EXCEPT !.repeat = rep]
        OBVIOUS
      <4>2. a = [ktype |-> g.ktype, log |-> log, dist |-> dist, cycle |-> up, repeat |-> repeat,
                 last |-> last]
        BY <2>3
      <4> HIDE DEF a
      <4> QED
        BY <4>1, <4>2
    <3> QED
      BY <3>1, <3>2 DEF up, rep
  <2>5. Log(Point(new)) = log /\ new.x = sum.x
    BY <1>3, <1>4, <1>5 DEF log, StepRecord
  <2>6. /\ new.ktype = g.ktype /\ new.dist = dist /\ new.cycle = cycle + 1
        /\ new.repeat = [low |-> low, count |-> IF low = repeat.low THEN repeat.count + 1 ELSE 1]
        /\ new.last = last
    BY <1>4, <2>5 DEF StepRecord, dist, cycle, last, repeat, jump
  <2> QED
    BY <2>4, <2>5, <2>6 DEF WithLog, M, C
<1> QED
  BY <1>6, <1>7, <1>8 DEF new, idx, jump

-----------------------------------------------------------------------------
(* The buffer of candidates, as the host will read it. *)

ReportsOf(b) == {Convert(b[i]) : i \in {j \in DOMAIN b : Verified(b[j])}}

LEMMA ReportsCount ==
  ASSUME NEW b \in Seq(Candidate)
  PROVE  Cardinality(ReportsOf(b)) <= Len(b) /\ Cardinality(ReportsOf(b)) \in Nat
<1> DEFINE I == {j \in DOMAIN b : Verified(b[j])}
           R == ReportsOf(b)
           f == [i \in I |-> Convert(b[i])]
<1>1. Len(b) \in Nat /\ DOMAIN b = 1 .. Len(b)
  BY LenProperties
<1>2. IsFiniteSet(1 .. Len(b)) /\ Cardinality(1 .. Len(b)) = Len(b)
  BY <1>1, FS_Interval
<1>3. I \in SUBSET (1 .. Len(b))
  BY <1>1
<1>4. IsFiniteSet(I) /\ Cardinality(I) <= Len(b)
  BY <1>2, <1>3, FS_Subset
<1>5. R = {Convert(b[i]) : i \in I}
  BY DEF ReportsOf
<1> HIDE DEF I, R
<1>6. f \in Surjection(I, R)
  BY <1>5 DEF Surjection
<1>7. IsFiniteSet(R) /\ Cardinality(R) <= Cardinality(I)
  BY <1>4, <1>6, FS_Surjection
<1>8. Cardinality(R) \in Nat /\ Cardinality(I) \in Nat
  BY <1>4, <1>7, FS_CardinalityType
<1> QED
  BY <1>1, <1>4, <1>7, <1>8 DEF R

LEMMA ReportsAppended ==
  ASSUME NEW b \in Seq(Candidate), NEW c \in Candidate
  PROVE  /\ Verified(c) => ReportsOf(Append(b, c)) = ReportsOf(b) \cup {Convert(c)}
         /\ ~Verified(c) => ReportsOf(Append(b, c)) = ReportsOf(b)
<1> DEFINE d == Append(b, c)
           n == Len(b)
<1>1. /\ n \in Nat /\ DOMAIN b = 1 .. n /\ DOMAIN d = 1 .. n + 1
      /\ \A i \in 1 .. n : d[i] = b[i]
      /\ d[n + 1] = c
  BY LenProperties, AppendProperties
<1> HIDE DEF d, n
<1>2. 1 .. n + 1 = (1 .. n) \cup {n + 1}
  BY <1>1
<1>3. \A r : r \in ReportsOf(d) <=> \E i \in 1 .. n + 1 : Verified(d[i]) /\ r = Convert(d[i])
  BY <1>1 DEF ReportsOf
<1>4. \A r : r \in ReportsOf(b) <=> \E i \in 1 .. n : Verified(b[i]) /\ r = Convert(b[i])
  BY <1>1 DEF ReportsOf
<1>5. \A r : r \in ReportsOf(d) <=> r \in ReportsOf(b) \/ (Verified(c) /\ r = Convert(c))
  BY <1>1, <1>2, <1>3, <1>4
<1> QED
  BY <1>5 DEF d

LEMMA ReportsTail ==
  ASSUME NEW b \in Seq(Candidate), b # << >>
  PROVE  /\ Verified(b[1]) => ReportsOf(b) = ReportsOf(Tail(b)) \cup {Convert(b[1])}
         /\ ~Verified(b[1]) => ReportsOf(b) = ReportsOf(Tail(b))
<1> DEFINE d == Tail(b)
           n == Len(b)
<1>1. /\ n \in Nat /\ n # 0 /\ DOMAIN b = 1 .. n /\ DOMAIN d = 1 .. n - 1
      /\ \A i \in 1 .. n - 1 : d[i] = b[i + 1]
  BY LenProperties, HeadTailProperties, EmptySeq
<1> HIDE DEF d, n
<1>2. \A i : i \in 1 .. n <=> i = 1 \/ \E j \in 1 .. n - 1 : i = j + 1
  <2>1. \A i \in 1 .. n : i # 1 => i - 1 \in 1 .. n - 1 /\ i = (i - 1) + 1
    BY <1>1
  <2> QED
    BY <1>1, <2>1
<1>3. \A r : r \in ReportsOf(d) <=> \E i \in 1 .. n - 1 : Verified(d[i]) /\ r = Convert(d[i])
  BY <1>1 DEF ReportsOf
<1>4. \A r : r \in ReportsOf(b) <=> \E i \in 1 .. n : Verified(b[i]) /\ r = Convert(b[i])
  BY <1>1 DEF ReportsOf
<1>5. ASSUME NEW r
      PROVE  r \in ReportsOf(b) <=> r \in ReportsOf(d) \/ (Verified(b[1]) /\ r = Convert(b[1]))
  <2>1. ASSUME NEW i \in 1 .. n, Verified(b[i]), r = Convert(b[i]), i # 1
        PROVE  r \in ReportsOf(d)
    <3>1. PICK j \in 1 .. n - 1 : i = j + 1
      BY <1>2, <2>1
    <3>2. d[j] = b[i]
      BY <1>1, <3>1
    <3> QED
      BY <1>3, <2>1, <3>2
  <2>2. ASSUME NEW j \in 1 .. n - 1, Verified(d[j]), r = Convert(d[j])
        PROVE  r \in ReportsOf(b)
    <3>1. j + 1 \in 1 .. n /\ d[j] = b[j + 1]
      BY <1>1
    <3> QED
      BY <1>4, <2>2, <3>1
  <2>3. 1 \in 1 .. n
    BY <1>1
  <2> QED
    BY <1>3, <1>4, <2>1, <2>2, <2>3
<1>6. ASSUME Verified(b[1])
      PROVE  ReportsOf(b) = ReportsOf(d) \cup {Convert(b[1])}
  BY <1>5, <1>6
<1>7. ASSUME ~Verified(b[1])
      PROVE  ReportsOf(b) = ReportsOf(d)
  <2>1. ReportsOf(b) \subseteq ReportsOf(d) /\ ReportsOf(d) \subseteq ReportsOf(b)
    BY <1>5, <1>7
  <2> QED
    BY <2>1
<1> QED
  BY <1>6, <1>7 DEF d

(* With Z = 1 the coordinates are those of the point itself. *)
LEMMA UnitPoint ==
  ASSUME NEW p \in JacobianPoint, OnCurve(p), p.z = 1
  PROVE  Points[Log(p)] = [x |-> p.x, y |-> p.y]
<1> DEFINE a == [x |-> p.x, y |-> p.y]
<1>1. Normalized(p) = p
  BY DEF Normalized
<1>2. Log(p) = LogOf[a] /\ Log(p) # 0 /\ Log(p) \in Scalar
  BY <1>1, OnCurveIs DEF Log
<1>3. a \in AffinePoint
  BY DEF JacobianPoint, AffinePoint
<1> HIDE DEF a
<1>4. Points[Log(p)] = a
  BY <1>2, <1>3, LogOfPoint
<1> QED
  BY <1>4 DEF a

(* What is stored for a kangaroo reads as its report. *)
CandidateOf(g) == [x |-> g.x, z |-> g.z, dist |-> g.dist, ktype |-> g.ktype]
ReportOf(g) == Logs!Report(WithLog(g), WithLog(g))

LEMMA CandidateReads ==
  ASSUME NEW g \in Kangaroo, g.z # 0 => OnCurve(Point(g))
  PROVE  /\ CandidateOf(g) \in Candidate
         /\ Verified(CandidateOf(g)) =>
              Logs!IsDistinguished(WithLog(g)) /\ Convert(CandidateOf(g)) = ReportOf(g)
         /\ g.z = 1 /\ IsDistinguished(g.x) => Verified(CandidateOf(g))
<1> DEFINE c == CandidateOf(g)
           p == Point(g)
           k == Log(p)
<1>1. c \in Candidate /\ c.x = p.x /\ c.z = p.z /\ c.z = g.z /\ p.x = g.x
      /\ c.dist = g.dist /\ c.ktype = g.ktype
  BY DEF CandidateOf, Candidate, Kangaroo, Point
<1>2. p \in JacobianPoint
  BY KangarooPoint
<1>3. WithLog(g).log = k /\ WithLog(g).dist = g.dist /\ WithLog(g).ktype = g.ktype
  BY DEF WithLog
<1> HIDE DEF c, p
<1>4. ASSUME c.z # 0
      PROVE  OnCurve(p) /\ k \in Scalar /\ k # 0 /\ AffineXOf(c) = Points[k].x
  BY <1>1, <1>2, <1>4, OnCurveIs, CandidateX DEF p
<1> HIDE DEF k
<1>5. ASSUME Verified(c)
      PROVE  Logs!IsDistinguished(WithLog(g)) /\ Convert(c) = ReportOf(g)
  <2>1. c.z # 0 /\ IsDistinguished(AffineXOf(c))
    BY <1>5 DEF Verified
  <2>2. k \in Scalar /\ k # 0 /\ AffineXOf(c) = Points[k].x
    BY <1>4, <2>1
  <2>3. AffineX(k) \in DistinguishedLogs
    BY <2>1, <2>2 DEF DistinguishedLogs
  <2>4. AffineX(CHOOSE l \in LogsOfX(AffineXOf(c)) : TRUE) = AffineX(k)
    BY <2>2, NameOfX
  <2>5. Convert(c) = [x |-> AffineX(k), dist |-> g.dist, ktype |-> g.ktype]
    BY <1>1, <2>4 DEF Convert
  <2>6. ReportOf(g) = [x |-> AffineX(k), dist |-> g.dist, ktype |-> g.ktype]
    BY <1>3, SameArithmetic DEF ReportOf, Logs!Report
  <2> QED
    BY <1>3, <2>2, <2>3, <2>5, <2>6, SameArithmetic DEF Logs!IsDistinguished
<1>6. ASSUME g.z = 1, IsDistinguished(g.x)
      PROVE  Verified(c)
  <2>1. c.z # 0 /\ p.z = 1
    BY <1>1, <1>6
  <2>2. Points[k] = [x |-> p.x, y |-> p.y]
    BY <1>2, <1>4, <2>1, UnitPoint DEF k
  <2>3. AffineXOf(c) = g.x
    BY <1>1, <1>4, <2>1, <2>2
  <2> QED
    BY <1>6, <2>1, <2>3 DEF Verified
<1> QED
  BY <1>1, <1>5, <1>6 DEF c

(* What a call of store_dp_candidate does to the buffer. *)
LEMMA StoredAs ==
  ASSUME JacobianTypeOK, NEW g \in Kangaroo, g.z # 0 => OnCurve(Point(g)),
         NEW b, b = StoreIfDistinguished(g)
  PROVE  /\ b \in Seq(Candidate)
         /\ Len(b) <= BufferSize
         /\ Len(buffer) <= Len(b)
         /\ \A i \in DOMAIN buffer : i \in DOMAIN b /\ b[i] = buffer[i]
         /\ \/ ReportsOf(b) = ReportsOf(buffer)
            \/ /\ Cardinality(ReportsOf(buffer)) < BufferSize
               /\ Logs!IsDistinguished(WithLog(g))
               /\ ReportsOf(b) = ReportsOf(buffer) \cup {ReportOf(g)}
         /\ g.z = 1 /\ IsDistinguished(g.x) =>
              \/ Len(b) = BufferSize
              \/ \E i \in DOMAIN b : Verified(b[i]) /\ Convert(b[i]) = ReportOf(g)
<1> DEFINE c == CandidateOf(g)
<1>1. /\ c \in Candidate
      /\ Verified(c) => Logs!IsDistinguished(WithLog(g)) /\ Convert(c) = ReportOf(g)
      /\ g.z = 1 /\ IsDistinguished(g.x) => Verified(c)
  BY CandidateReads
<1>2. /\ buffer \in Seq(Candidate) /\ Len(buffer) <= BufferSize /\ Len(buffer) \in Nat
      /\ DOMAIN buffer = 1 .. Len(buffer) /\ BufferSize \in Nat
  BY LenProperties, JacobianWalkAssumption DEF JacobianTypeOK
<1>3. b = IF IsDistinguished(g.x) /\ Len(buffer) < BufferSize THEN Append(buffer, c) ELSE buffer
  BY DEF StoreIfDistinguished, StoreCandidate, CandidateOf
<1> HIDE DEF c
<1>4. CASE IsDistinguished(g.x) /\ Len(buffer) < BufferSize
  <2>1. b = Append(buffer, c)
    BY <1>3, <1>4
  <2>2. /\ b \in Seq(Candidate) /\ Len(b) = Len(buffer) + 1
        /\ \A i \in 1 .. Len(buffer) : b[i] = buffer[i]
        /\ b[Len(buffer) + 1] = c
    BY <1>1, <1>2, <2>1, AppendProperties
  <2>3. DOMAIN b = 1 .. Len(buffer) + 1
    BY <2>2, LenProperties
  <2>4. Cardinality(ReportsOf(buffer)) < BufferSize
    BY <1>2, <1>4, ReportsCount
  <2>5. \/ ReportsOf(b) = ReportsOf(buffer)
        \/ /\ Logs!IsDistinguished(WithLog(g))
           /\ ReportsOf(b) = ReportsOf(buffer) \cup {ReportOf(g)}
    BY <1>1, <1>2, <2>1, ReportsAppended
  <2>6. Len(buffer) + 1 \in DOMAIN b /\ \A i \in DOMAIN buffer : i \in DOMAIN b
    BY <1>2, <2>3
  <2>7. Len(b) <= BufferSize /\ Len(buffer) <= Len(b)
    BY <1>2, <1>4, <2>2
  <2>8. g.z = 1 => \E i \in DOMAIN b : Verified(b[i]) /\ Convert(b[i]) = ReportOf(g)
    BY <1>1, <1>4, <2>2, <2>6
  <2> QED
    BY <1>2, <2>2, <2>4, <2>5, <2>6, <2>7, <2>8
<1>5. CASE ~(IsDistinguished(g.x) /\ Len(buffer) < BufferSize)
  <2>1. b = buffer
    BY <1>3, <1>5
  <2>2. ASSUME IsDistinguished(g.x)
        PROVE  Len(b) = BufferSize
    <3>1. ~(Len(buffer) < BufferSize)
      BY <1>5, <2>2
    <3> DEFINE n == Len(buffer)
    <3>2. n \in Nat /\ n <= BufferSize /\ BufferSize \in Nat /\ ~(n < BufferSize) /\ Len(b) = n
      BY <1>2, <2>1, <3>1
    <3> HIDE DEF n
    <3>3. n = BufferSize
      BY <3>2
    <3> QED
      BY <3>2, <3>3
  <2>3. Len(buffer) <= Len(b) /\ Len(b) <= BufferSize
    BY <1>2, <2>1
  <2>4. /\ b \in Seq(Candidate)
        /\ \A i \in DOMAIN buffer : i \in DOMAIN b /\ b[i] = buffer[i]
        /\ ReportsOf(b) = ReportsOf(buffer)
    BY <1>2, <2>1
  <2> QED
    BY <2>2, <2>3, <2>4
<1> QED
  BY <1>4, <1>5

-----------------------------------------------------------------------------
(* The invariant holds initially and is kept. *)

(* A kangaroo as initialize_kangaroos places it. *)
LEMMA PlacedIs ==
  ASSUME start \in Scalar, pubkey \in Scalar, NEW t \in KType, NEW o \in Offsets,
         OnCurve(Point(Placed(t, o)))
  PROVE  /\ Placed(t, o) \in Kangaroo
         /\ WithLog(Placed(t, o)) = Logs!Placed(t, o)
         /\ Logs!Placed(t, o).log # 0
<1> DEFINE g == Placed(t, o)
           m == (OriginOf(t, start, pubkey) + o) % N
           p == Point(g)
<1>1. o \in Int /\ o % W \in Word
  <2>1. o \in Int
    BY JacobianWalkAssumption
  <2> QED
    BY <2>1, WordMod
<1>2. m \in Scalar
  <2>1. OriginOf(t, start, pubkey) + o \in Int
    BY <1>1, ModuliAssumption DEF OriginOf, Scalar
  <2> QED
    BY <2>1, DivMod
<1>3. Points[m] \in AffinePoint
  BY <1>2, PointType
<1>4. g = [x |-> Points[m].x, y |-> Points[m].y, z |-> 1, ktype |-> t, dist |-> o % W,
           cycle |-> 0, repeat |-> Logs!NoRepeat, last |-> Logs!NoJump]
  BY DEF Placed
<1> HIDE DEF g, m
<1>5. g \in Kangaroo
  <2>1. 0 \in LowBits
    <3>1. Cardinality(LowBits) \in Nat /\ Cardinality(LowBits) # 0
      BY JacobianWalkAssumption, FS_CardinalityType, FS_EmptySet
    <3> QED
      BY <3>1, JacobianWalkAssumption
  <2>2. Logs!NoRepeat \in [low : LowBits, count : 0 .. RepeatThreshold + 1]
    BY <2>1, JacobianWalkAssumption DEF Logs!NoRepeat
  <2>3. Logs!NoJump \in -1 .. Jumps - 1 /\ 0 \in 0 .. CycleCap + 1
    BY JacobianWalkAssumption DEF Logs!NoJump
  <2> QED
    BY <1>1, <1>3, <1>4, <2>2, <2>3, FeZero DEF Kangaroo, AffinePoint
<1>6. p \in JacobianPoint /\ p.z = 1 /\ p.x = Points[m].x /\ p.y = Points[m].y
  <2>1. g.z = 1 /\ g.x = Points[m].x /\ g.y = Points[m].y
    BY <1>4
  <2> QED
    BY <1>5, <2>1, KangarooPoint
<1>7. Log(p) = m /\ m # 0
  <2>1. Log(p) \in Scalar /\ Log(p) # 0
    BY <1>6, OnCurveIs DEF g
  <2>2. Points[Log(p)] = [x |-> p.x, y |-> p.y]
    BY <1>6, UnitPoint DEF g
  <2>3. Points[Log(p)] = Points[m]
    BY <1>3, <1>6, <2>2 DEF AffinePoint
  <2> QED
    BY <1>2, <2>1, <2>3, PointsDiffer
<1>8. WithLog(g) = [ktype |-> t, log |-> m, dist |-> o % W, cycle |-> 0,
                    repeat |-> Logs!NoRepeat, last |-> Logs!NoJump]
  BY <1>4, <1>7 DEF WithLog
<1>9. Logs!Placed(t, o) = [ktype |-> t, log |-> m, dist |-> o % W, cycle |-> 0,
                           repeat |-> Logs!NoRepeat, last |-> Logs!NoJump]
  BY SameArithmetic DEF Logs!Placed, m
<1> QED
  BY <1>5, <1>7, <1>8, <1>9 DEF g

LEMMA InitInv == Init => IInv
<1> SUFFICES ASSUME Init
             PROVE  IInv
  OBVIOUS
<1>1. PICK ktype \in Types, offset \in [Kangaroos -> Offsets] :
        kangaroo = [k \in Kangaroos |-> Placed(ktype[k], offset[k])]
  BY DEF Init
<1>2. start \in Scalar /\ pubkey \in Scalar
  BY JacobianWalkAssumption DEF Init
<1>3. \A k \in Kangaroos : OnCurve(Point(kangaroo[k]))
  BY DEF Init
<1>4. \A k \in Kangaroos : kangaroo[k] \in Kangaroo
  <2> SUFFICES ASSUME NEW k \in Kangaroos
               PROVE  kangaroo[k] \in Kangaroo
    OBVIOUS
  <2>1. ktype[k] \in KType /\ offset[k] \in Offsets
    BY JacobianWalkAssumption
  <2>2. kangaroo[k] = Placed(ktype[k], offset[k])
    BY <1>1
  <2> QED
    BY <1>2, <1>3, <2>1, <2>2, PlacedIs
<1>5. JacobianTypeOK
  <2>1. kangaroo \in [Kangaroos -> Kangaroo]
    BY <1>1, <1>4
  <2>2. buffer \in Seq(Candidate) /\ Len(buffer) <= BufferSize
    BY JacobianWalkAssumption, EmptySeq DEF Init
  <2>3. thread \in [Kangaroos -> -1 .. StepsPerCall]
    <3>1. -1 \in -1 .. StepsPerCall
      BY JacobianWalkAssumption
    <3> QED
      BY <3>1 DEF Init
  <2> QED
    BY <1>2, <2>1, <2>2, <2>3 DEF JacobianTypeOK, Init
<1>6. phase # "normalize"
  BY DEF Init
<1> QED
  BY <1>3, <1>5, <1>6 DEF IInv

LEMMA DispatchInv ==
  ASSUME IInv, Dispatch
  PROVE  IInv'
<1>1. /\ phase' = "walk"
      /\ thread' = [k \in Kangaroos |-> -1]
      /\ UNCHANGED <<start, pubkey, normalize, kangaroo, buffer, path>>
  BY DEF Dispatch
<1>2. -1 \in -1 .. StepsPerCall
  BY JacobianWalkAssumption
<1>3. JacobianTypeOK'
  BY <1>1, <1>2 DEF IInv, JacobianTypeOK
<1>4. (\A k \in Kangaroos : kangaroo[k].z # 0 => OnCurve(Point(kangaroo[k])))'
  BY <1>1 DEF IInv
<1> QED
  BY <1>1, <1>3, <1>4 DEF IInv

LEMMA LookInv ==
  ASSUME IInv, NEW k \in Kangaroos, Look(k)
  PROVE  IInv'
<1>1. /\ phase = "walk" /\ phase' = "walk"
      /\ thread' = [thread EXCEPT ![k] = 0]
      /\ buffer' = StoreIfDistinguished(kangaroo[k])
      /\ UNCHANGED <<start, pubkey, normalize, kangaroo, path>>
  BY DEF Look
<1>2. kangaroo[k] \in Kangaroo /\ (kangaroo[k].z # 0 => OnCurve(Point(kangaroo[k])))
  BY DEF IInv, JacobianTypeOK
<1>3. buffer' \in Seq(Candidate) /\ Len(buffer') <= BufferSize
  BY <1>1, <1>2, StoredAs DEF IInv
<1>4. thread' \in [Kangaroos -> -1 .. StepsPerCall]
  <2>1. 0 \in -1 .. StepsPerCall
    BY JacobianWalkAssumption
  <2> QED
    BY <1>1, <2>1 DEF IInv, JacobianTypeOK
<1>5. JacobianTypeOK'
  BY <1>1, <1>3, <1>4 DEF IInv, JacobianTypeOK
<1>6. (\A j \in Kangaroos : kangaroo[j].z # 0 => OnCurve(Point(kangaroo[j])))'
  BY <1>1 DEF IInv
<1> QED
  BY <1>1, <1>5, <1>6 DEF IInv

(* What Step does, with the facts about the kangaroo after it. *)
LEMMA StepGives ==
  ASSUME IInv, NEW k \in Kangaroos, OnCurve(Point(kangaroo[k])), Step(k)
  PROVE  LET new == Stepped(k, kangaroo[k])
         IN /\ new \in Kangaroo
            /\ new.z # 0 => OnCurve(Point(new))
            /\ thread[k] \in 0 .. StepsPerCall - 1
            /\ kangaroo' = [kangaroo EXCEPT ![k] = new]
            /\ thread' = [thread EXCEPT ![k] = @ + 1]
            /\ buffer' = StoreIfDistinguished(new)
            /\ phase = "walk"
            /\ UNCHANGED <<start, pubkey, normalize, phase>>
<1>1. kangaroo[k] \in Kangaroo
  BY DEF IInv, JacobianTypeOK
<1>2. /\ thread[k] \in 0 .. StepsPerCall - 1
      /\ kangaroo' = [kangaroo EXCEPT ![k] = Stepped(k, kangaroo[k])]
      /\ thread' = [thread EXCEPT ![k] = @ + 1]
      /\ buffer' = StoreIfDistinguished(Stepped(k, kangaroo[k]))
      /\ phase = "walk"
      /\ UNCHANGED <<start, pubkey, normalize, phase>>
  BY DEF Step
<1> QED
  BY <1>1, <1>2, StepFields

LEMMA StepInv ==
  ASSUME IInv, NEW k \in Kangaroos, OnCurve(Point(kangaroo[k])), Step(k)
  PROVE  IInv'
<1> DEFINE new == Stepped(k, kangaroo[k])
<1>1. /\ new \in Kangaroo
      /\ new.z # 0 => OnCurve(Point(new))
      /\ thread[k] \in 0 .. StepsPerCall - 1
      /\ kangaroo' = [kangaroo EXCEPT ![k] = new]
      /\ thread' = [thread EXCEPT ![k] = @ + 1]
      /\ buffer' = StoreIfDistinguished(new)
      /\ phase = "walk"
      /\ UNCHANGED <<start, pubkey, normalize, phase>>
  BY StepGives
<1> HIDE DEF new
<1>2. buffer' \in Seq(Candidate) /\ Len(buffer') <= BufferSize
  BY <1>1, StoredAs DEF IInv
<1>3. thread' \in [Kangaroos -> -1 .. StepsPerCall]
  <2>1. thread[k] + 1 \in -1 .. StepsPerCall
    BY <1>1, JacobianWalkAssumption
  <2> QED
    BY <1>1, <2>1 DEF IInv, JacobianTypeOK
<1>4. kangaroo' \in [Kangaroos -> Kangaroo]
  BY <1>1 DEF IInv, JacobianTypeOK
<1>5. JacobianTypeOK'
  BY <1>1, <1>2, <1>3, <1>4 DEF IInv, JacobianTypeOK
<1>6. \A j \in Kangaroos : kangaroo'[j].z # 0 => OnCurve(Point(kangaroo'[j]))
  <2> SUFFICES ASSUME NEW j \in Kangaroos
               PROVE  kangaroo'[j].z # 0 => OnCurve(Point(kangaroo'[j]))
    OBVIOUS
  <2>1. kangaroo'[j] = IF j = k THEN new ELSE kangaroo[j]
    BY <1>1 DEF IInv, JacobianTypeOK
  <2> QED
    BY <1>1, <2>1 DEF IInv
<1>7. (\A j \in Kangaroos : kangaroo[j].z # 0 => OnCurve(Point(kangaroo[j])))'
  BY <1>6
<1> QED
  BY <1>1, <1>5, <1>7 DEF IInv

LEMMA EndWalkPassInv ==
  ASSUME IInv, EndWalkPass
  PROVE  IInv'
<1>1. UNCHANGED <<start, pubkey, normalize, kangaroo, path>>
  BY DEF EndWalkPass
<1>2. (\A j \in Kangaroos : kangaroo[j].z # 0 => OnCurve(Point(kangaroo[j])))'
  BY <1>1 DEF IInv
<1>3. CASE normalize
  <2>1. phase' = "normalize" /\ buffer' = << >> /\ thread' = [k \in Kangaroos |-> -1]
    BY <1>3 DEF EndWalkPass
  <2>2. -1 \in -1 .. StepsPerCall /\ BufferSize \in Nat
    BY JacobianWalkAssumption
  <2>3. buffer' \in Seq(Candidate) /\ Len(buffer') <= BufferSize
    BY <2>1, <2>2, EmptySeq
  <2>4. JacobianTypeOK'
    BY <1>1, <2>1, <2>2, <2>3 DEF IInv, JacobianTypeOK
  <2>5. \A k \in Kangaroos : thread'[k] = -1
    BY <2>1
  <2> QED
    BY <1>2, <2>4, <2>5 DEF IInv, PassReports
<1>4. CASE ~normalize
  <2>1. phase' = "idle" /\ UNCHANGED <<buffer, thread>>
    BY <1>4 DEF EndWalkPass
  <2>2. JacobianTypeOK'
    BY <1>1, <2>1 DEF IInv, JacobianTypeOK
  <2> QED
    BY <1>2, <2>1, <2>2 DEF IInv
<1> QED
  BY <1>3, <1>4

(* What the normalize pass does to a kangaroo. *)
LEMMA NormalizedRecord ==
  ASSUME NEW g \in Kangaroo, NEW x, NEW y
  PROVE  [g EXCEPT !.x = x, !.y = y, !.z = 1] =
           [x |-> x, y |-> y, z |-> 1, ktype |-> g.ktype, dist |-> g.dist,
            cycle |-> g.cycle, repeat |-> g.repeat, last |-> g.last]
<1> DEFINE a == [g EXCEPT !.x = x]
           b == [a EXCEPT !.y = y]
<1>1. [g EXCEPT !.x = x, !.y = y, !.z = 1] = [b EXCEPT !.z = 1]
  OBVIOUS
<1>2. a = [x |-> x, y |-> g.y, z |-> g.z, ktype |-> g.ktype, dist |-> g.dist,
           cycle |-> g.cycle, repeat |-> g.repeat, last |-> g.last]
  BY DEF Kangaroo
<1> HIDE DEF a
<1>3. b = [x |-> x, y |-> y, z |-> g.z, ktype |-> g.ktype, dist |-> g.dist,
           cycle |-> g.cycle, repeat |-> g.repeat, last |-> g.last]
  BY <1>2
<1> HIDE DEF b
<1> QED
  BY <1>1, <1>3

LEMMA NormalizeGives ==
  ASSUME NEW g \in Kangaroo, OnCurve(Point(g))
  PROVE  LET new == [g EXCEPT !.x = Normalized(Point(g)).x, !.y = Normalized(Point(g)).y, !.z = 1]
         IN /\ new \in Kangaroo
            /\ new.z = 1
            /\ OnCurve(Point(new))
            /\ WithLog(new) = WithLog(g)
<1> DEFINE n == Normalized(Point(g))
           x == n.x
           y == n.y
           new == [g EXCEPT !.x = x, !.y = y, !.z = 1]
<1>1. n \in JacobianPoint /\ n.z = 1 /\ Log(n) = Log(Point(g))
  BY KangarooPoint, NormalizedLog
<1>2. x \in Fe /\ y \in Fe /\ n = [x |-> x, y |-> y, z |-> 1]
  BY <1>1 DEF JacobianPoint
<1> HIDE DEF n, x, y
<1>3. new = [x |-> x, y |-> y, z |-> 1, ktype |-> g.ktype, dist |-> g.dist,
             cycle |-> g.cycle, repeat |-> g.repeat, last |-> g.last]
  BY NormalizedRecord
<1> HIDE DEF new
<1>4. /\ new.x = x /\ new.y = y /\ new.z = 1 /\ new.ktype = g.ktype /\ new.dist = g.dist
      /\ new.cycle = g.cycle /\ new.repeat = g.repeat /\ new.last = g.last
  BY <1>3
<1>5. Point(new) = n
  BY <1>2, <1>4 DEF Point
<1>6. new \in Kangaroo
  BY <1>2, <1>3, FeZero DEF Kangaroo
<1>7. WithLog(new) = WithLog(g)
  BY <1>1, <1>4, <1>5 DEF WithLog
<1> QED
  BY <1>1, <1>4, <1>5, <1>6, <1>7 DEF OnCurve, new, x, y, n

LEMMA ThreadGives ==
  ASSUME IInv, NEW k \in Kangaroos, OnCurve(Point(kangaroo[k])), NormalizeThread(k)
  PROVE  \E new \in Kangaroo :
            /\ new.z = 1
            /\ OnCurve(Point(new))
            /\ WithLog(new) = WithLog(kangaroo[k])
            /\ phase = "normalize"
            /\ thread[k] = -1
            /\ thread' = [thread EXCEPT ![k] = 0]
            /\ kangaroo' = [kangaroo EXCEPT ![k] = new]
            /\ buffer' = StoreIfDistinguished(new)
            /\ UNCHANGED <<start, pubkey, normalize, phase, path>>
<1> DEFINE g == kangaroo[k]
           new == [g EXCEPT !.x = Normalized(Point(g)).x, !.y = Normalized(Point(g)).y, !.z = 1]
<1>1. /\ phase = "normalize" /\ thread[k] = -1
      /\ thread' = [thread EXCEPT ![k] = 0]
      /\ kangaroo' = [kangaroo EXCEPT ![k] = new]
      /\ buffer' = StoreIfDistinguished(new)
      /\ UNCHANGED <<start, pubkey, normalize, phase, path>>
  BY DEF NormalizeThread
<1>2. g \in Kangaroo /\ OnCurve(Point(g))
  BY DEF IInv, JacobianTypeOK
<1> HIDE DEF g
<1>3. new \in Kangaroo /\ new.z = 1 /\ OnCurve(Point(new)) /\ WithLog(new) = WithLog(g)
  BY <1>2, NormalizeGives
<1> HIDE DEF new
<1>4. WithLog(new) = WithLog(kangaroo[k])
  BY <1>3 DEF g
<1> QED
  BY <1>1, <1>3, <1>4

LEMMA NormalizeThreadInv ==
  ASSUME IInv, NEW k \in Kangaroos, OnCurve(Point(kangaroo[k])), NormalizeThread(k)
  PROVE  IInv'
<1>1. PICK new \in Kangaroo :
        /\ new.z = 1
        /\ OnCurve(Point(new))
        /\ phase = "normalize"
        /\ thread' = [thread EXCEPT ![k] = 0]
        /\ kangaroo' = [kangaroo EXCEPT ![k] = new]
        /\ buffer' = StoreIfDistinguished(new)
        /\ UNCHANGED <<start, pubkey, normalize, phase, path>>
  BY ThreadGives
<1>2. /\ buffer' \in Seq(Candidate)
      /\ Len(buffer') <= BufferSize
      /\ Len(buffer) <= Len(buffer')
      /\ \A i \in DOMAIN buffer : i \in DOMAIN buffer' /\ buffer'[i] = buffer[i]
      /\ IsDistinguished(new.x) =>
           \/ Len(buffer') = BufferSize
           \/ \E i \in DOMAIN buffer' : Verified(buffer'[i]) /\ Convert(buffer'[i]) = ReportOf(new)
  BY <1>1, StoredAs DEF IInv
<1>3. thread' \in [Kangaroos -> -1 .. StepsPerCall] /\ kangaroo' \in [Kangaroos -> Kangaroo]
  <2>1. 0 \in -1 .. StepsPerCall
    BY JacobianWalkAssumption
  <2> QED
    BY <1>1, <2>1 DEF IInv, JacobianTypeOK
<1>4. JacobianTypeOK'
  BY <1>1, <1>2, <1>3 DEF IInv, JacobianTypeOK
<1>5. \A j \in Kangaroos : /\ kangaroo'[j] = IF j = k THEN new ELSE kangaroo[j]
                           /\ thread'[j] = IF j = k THEN 0 ELSE thread[j]
  BY <1>1 DEF IInv, JacobianTypeOK
<1>6. \A j \in Kangaroos : kangaroo'[j].z # 0 => OnCurve(Point(kangaroo'[j]))
  BY <1>1, <1>5 DEF IInv
<1>7. ASSUME NEW j \in Kangaroos
      PROVE  thread'[j] \in {-1, 0} /\ PassReports(j)'
  <2>1. CASE j = k
    <3>1. thread'[j] = 0 /\ kangaroo'[j] = new
      BY <1>5, <2>1
    <3>2. Reported(j)' = ReportOf(new)
      BY <3>1 DEF Reported, ReportOf
    <3> QED
      BY <1>1, <1>2, <3>1, <3>2 DEF PassReports
  <2>2. CASE j # k
    <3>1. thread'[j] = thread[j] /\ kangaroo'[j] = kangaroo[j] /\ thread[j] \in {-1, 0}
          /\ PassReports(j)
      BY <1>1, <1>5, <2>2 DEF IInv
    <3>2. Reported(j)' = Reported(j)
      BY <3>1 DEF Reported
    <3>3. Len(buffer) = BufferSize => Len(buffer') = BufferSize
      <4>1. Len(buffer') \in Nat /\ BufferSize \in Nat
        BY <1>2, LenProperties, JacobianWalkAssumption
      <4> QED
        BY <1>2, <4>1
    <3> QED
      BY <1>2, <3>1, <3>2, <3>3 DEF PassReports
  <2> QED
    BY <2>1, <2>2
<1>8. (\A j \in Kangaroos : kangaroo[j].z # 0 => OnCurve(Point(kangaroo[j])))'
  BY <1>6
<1>9. (\A j \in Kangaroos : thread[j] \in {-1, 0} /\ PassReports(j))'
  BY <1>7
<1> QED
  BY <1>4, <1>8, <1>9 DEF IInv

LEMMA EndNormalizePassInv ==
  ASSUME IInv, EndNormalizePass
  PROVE  IInv'
<1>1. phase' = "idle" /\ UNCHANGED <<start, pubkey, normalize, kangaroo, buffer, thread, path>>
  BY DEF EndNormalizePass
<1>2. JacobianTypeOK'
  BY <1>1 DEF IInv, JacobianTypeOK
<1>3. (\A j \in Kangaroos : kangaroo[j].z # 0 => OnCurve(Point(kangaroo[j])))'
  BY <1>1 DEF IInv
<1> QED
  BY <1>1, <1>2, <1>3 DEF IInv

LEMMA CollectInv ==
  ASSUME IInv, Collect
  PROVE  IInv'
<1>1. /\ phase = "idle" /\ buffer # << >> /\ buffer' = Tail(buffer)
      /\ UNCHANGED <<start, pubkey, normalize, kangaroo, phase, thread, path>>
  BY DEF Collect
<1>2. buffer' \in Seq(Candidate) /\ Len(buffer') = Len(buffer) - 1 /\ Len(buffer) \in Nat
      /\ Len(buffer) <= BufferSize
  BY <1>1, HeadTailProperties, LenProperties DEF IInv, JacobianTypeOK
<1>3. Len(buffer') <= BufferSize
  BY <1>2, JacobianWalkAssumption
<1>4. JacobianTypeOK'
  BY <1>1, <1>2, <1>3 DEF IInv, JacobianTypeOK
<1>5. (\A j \in Kangaroos : kangaroo[j].z # 0 => OnCurve(Point(kangaroo[j])))'
  BY <1>1 DEF IInv
<1> QED
  BY <1>1, <1>4, <1>5 DEF IInv

LEMMA NextInv == IInv /\ [Next]_vars => IInv'
<1> SUFFICES ASSUME IInv, [Next]_vars
             PROVE  IInv'
  OBVIOUS
<1>1. ASSUME Next
      PROVE  IInv'
  <2>1. \A k \in Kangaroos : OnCurve(Point(kangaroo[k]))
    BY <1>1 DEF Next
  <2>2. ASSUME Dispatch \/ EndWalkPass \/ EndNormalizePass \/ Collect
        PROVE  IInv'
    BY <2>2, DispatchInv, EndWalkPassInv, EndNormalizePassInv, CollectInv
  <2>3. ASSUME NEW k \in Kangaroos, Look(k) \/ Step(k) \/ NormalizeThread(k)
        PROVE  IInv'
    BY <2>1, <2>3, LookInv, StepInv, NormalizeThreadInv
  <2> QED
    BY <1>1, <2>2, <2>3 DEF Next
<1>2. CASE UNCHANGED vars
  <2>1. /\ start' = start /\ pubkey' = pubkey /\ normalize' = normalize
        /\ kangaroo' = kangaroo /\ buffer' = buffer /\ phase' = phase /\ thread' = thread
    BY <1>2 DEF vars
  <2>2. JacobianTypeOK'
    BY <2>1 DEF IInv, JacobianTypeOK
  <2>3. \A k \in Kangaroos : PassReports(k) => PassReports(k)'
    BY <2>1 DEF PassReports, Reported
  <2> QED
    BY <2>1, <2>2, <2>3 DEF IInv
<1> QED
  BY <1>1, <1>2

LEMMA Invariance == Spec => []IInv
<1>1. Init => IInv
  BY InitInv
<1>2. IInv /\ [Next]_vars => IInv'
  BY NextInv
<1> QED
  BY <1>1, <1>2, PTL DEF Spec

-----------------------------------------------------------------------------
(* No kangaroo leaves a normalize pass on a distinguished point unreported, unless
   the buffer is full: every thread of the pass stores what it finds, at Z = 1, and
   what is stored with Z = 1 passes the exact check of the host as the report of
   that kangaroo. *)
THEOREM PassIsExact == Spec => NormalizePassReports
<1>1. IInv /\ EndNormalizePass =>
        \A k \in Kangaroos :
          \/ ~IsDistinguished(kangaroo[k].x)
          \/ Len(buffer) = BufferSize
          \/ \E i \in DOMAIN buffer : Verified(buffer[i]) /\ Convert(buffer[i]) = Reported(k)
  BY DEF IInv, EndNormalizePass, PassReports
<1> QED
  BY <1>1, Invariance, PTL DEF Spec, NormalizePassReports

-----------------------------------------------------------------------------
(* Two kangaroos at one affine x. *)

(* Of two opposite values of Y one is odd, and its even-y representative is the
   other. *)
LEMMA EvenYAgrees ==
  ASSUME NEW p \in JacobianPoint, NEW q \in JacobianPoint, OnCurve(p), OnCurve(q),
         p.z = 1, q.z = 1, p.x = q.x
  PROVE  EvenY(p) = EvenY(q)
<1> DEFINE k == Log(p)
           l == Log(q)
<1>1. /\ k \in Scalar /\ k # 0 /\ Points[k] = [x |-> p.x, y |-> p.y]
      /\ l \in Scalar /\ l # 0 /\ Points[l] = [x |-> q.x, y |-> q.y]
  BY OnCurveIs, UnitPoint
<1> HIDE DEF k, l
<1>2. /\ Points[k].x = p.x /\ Points[k].y = p.y /\ Points[l].x = q.x /\ Points[l].y = q.y
      /\ p.y # 0 /\ q.y # 0
  BY <1>1, PointOnCurve
<1>3. /\ p = [x |-> p.x, y |-> p.y, z |-> 1] /\ q = [x |-> p.x, y |-> q.y, z |-> 1]
      /\ p.y \in Fe /\ q.y \in Fe
  BY DEF JacobianPoint
<1>4. CASE p.y = q.y
  BY <1>3, <1>4
<1>5. CASE p.y # q.y
  <2> DEFINE u == p.y
             v == q.y
  <2>1. u + v \cong 0
    <3>1. k # l
      BY <1>2, <1>5
    <3>2. Points[k].y + Points[l].y \cong 0
      BY <1>1, <1>2, <3>1, SameXPoints
    <3> QED
      BY <1>2, <3>2
  <2>2. u \in Int /\ v \in Int /\ 0 < u /\ u < P /\ 0 < v /\ v < P /\ P \in Int
    BY <1>2, <1>3, CurveAssumption DEF Fe
  <2> HIDE DEF u, v
  <2>3. u + v = P
    <3>1. PICK m \in Int : u + v = 0 + P * m
      BY <2>1 DEF \cong
    <3>2. CASE m <= 0
      <4>1. P * m <= 0
        BY <2>2, <3>2
      <4> QED
        BY <2>2, <3>1, <4>1
    <3>3. CASE m >= 2
      <4>1. P * m >= P * 2
        BY <2>2, <3>3
      <4> QED
        BY <2>2, <3>1, <4>1
    <3>4. CASE m = 1
      BY <2>2, <3>1, <3>4
    <3> QED
      BY <3>1, <3>2, <3>3, <3>4
  <2>4. v = P - u /\ u = P - v
    BY <2>2, <2>3
  <2>5. P % 2 = 1
    BY CurveAssumption
  <2>6. u % 2 = 1 <=> v % 2 = 0
    BY <2>2, <2>4, <2>5
  <2>7. v % 2 \in {0, 1} /\ u % 2 \in {0, 1}
    BY <2>2
  <2>8. (-u) % P = v /\ (-v) % P = u
    <3>1. (-u) % P \in Fe /\ (-v) % P \in Fe
      BY <2>2, CongMod
    <3>2. v \in Fe /\ u \in Fe /\ -u = v + P * (-1) /\ -v = u + P * (-1)
      BY <2>2, <2>4 DEF Fe
    <3> QED
      BY <2>2, <3>2, CurveAssumption DEF Fe
  <2>9. IsOdd(p) <=> u % 2 = 1
    BY DEF IsOdd, u
  <2>10. IsOdd(q) <=> v % 2 = 1
    BY DEF IsOdd, v
  <2>11. [p EXCEPT !.y = v] = q /\ [q EXCEPT !.y = u] = p
    <3>1. u = p.y /\ v = q.y
      BY DEF u, v
    <3> QED
      BY <1>3, <3>1
  <2>12. EvenY(p) = (IF u % 2 = 1 THEN q ELSE p)
    BY <2>8, <2>9, <2>11 DEF EvenY, u
  <2>13. EvenY(q) = (IF v % 2 = 1 THEN p ELSE q)
    BY <2>8, <2>10, <2>11 DEF EvenY, v
  <2> QED
    BY <2>6, <2>7, <2>12, <2>13
<1> QED
  BY <1>4, <1>5

(* Two kangaroos that stand at one affine x when a dispatch begins, with the same
   last jump and neither about to escape, go on together, whichever of the two
   opposite points each of them is at: the even-y representative, the hash and the
   jump are the same. *)
THEOREM MergedWalks == Spec => []MergedWalksStayMerged
<1>1. IInv => MergedWalksStayMerged
  <2> SUFFICES ASSUME IInv, NEW j \in Kangaroos, NEW k \in Kangaroos,
                      kangaroo[j].z = 1, kangaroo[k].z = 1, kangaroo[j].x = kangaroo[k].x,
                      kangaroo[j].last = kangaroo[k].last,
                      ~Logs!InCycle(kangaroo[j]), ~Logs!InCycle(kangaroo[k])
               PROVE  /\ Point(Stepped(j, kangaroo[j])) = Point(Stepped(k, kangaroo[k]))
                      /\ Stepped(j, kangaroo[j]).last = Stepped(k, kangaroo[k]).last
    BY DEF MergedWalksStayMerged
  <2> DEFINE g == kangaroo[j]
             h == kangaroo[k]
             i == Logs!JumpTaken(g, HashedJump(j, g))
             sum(f) == JacAddAffine(EvenY(Point(f)), Points[JumpDistance[i] % N])
  <2>1. g \in Kangaroo /\ h \in Kangaroo
    BY DEF IInv, JacobianTypeOK
  <2>2. OnCurve(Point(g)) /\ OnCurve(Point(h))
    BY DEF IInv
  <2>3. EvenY(Point(g)) = EvenY(Point(h))
    <3>1. /\ Point(g) \in JacobianPoint /\ Point(h) \in JacobianPoint
          /\ Point(g).z = 1 /\ Point(h).z = 1 /\ Point(g).x = Point(h).x
      BY <2>1, KangarooPoint
    <3> QED
      BY <2>2, <3>1, EvenYAgrees
  <2>4. HashedJump(j, g) = HashedJump(k, h)
    BY DEF HashedJump
  <2>5. i = Logs!JumpTaken(h, HashedJump(k, h))
    BY <2>4 DEF Logs!JumpTaken
  <2>6. Stepped(j, g) = StepRecord(g, sum(g), i)
    BY <2>1, SteppedIs
  <2>7. Stepped(k, h) = StepRecord(h, sum(h), i)
    BY <2>1, <2>5, SteppedIs
  <2>8. sum(g) = sum(h)
    BY <2>3
  <2>9. \A f, s : Point(StepRecord(f, s, i)) = [x |-> s.x, y |-> s.y, z |-> s.z]
    BY DEF StepRecord, Point
  <2>10. StepRecord(g, sum(g), i).last = i /\ StepRecord(h, sum(h), i).last = i
    BY DEF StepRecord
  <2> HIDE DEF i, sum
  <2> QED
    BY <2>6, <2>7, <2>8, <2>9, <2>10
<1> QED
  BY <1>1, Invariance, PTL

-----------------------------------------------------------------------------
(* The kernels implement the walk. *)

(* The kangaroos and the reports as Walk sees them. *)
WalkKangaroos == [k \in Kangaroos |-> WithLog(kangaroo[k])]
WalkReports == ReportsOf(Readable)

(* Reports as Look and Step of Walk change them. *)
Found(g) ==
  \/ UNCHANGED WalkReports
  \/ /\ Logs!HasSpace
     /\ Logs!IsDistinguished(g)
     /\ WalkReports' = WalkReports \cup {Logs!Report(g, g)}

LEMMA SameCardinality ==
  ASSUME NEW S
  PROVE  Logs!Cardinality(S) = Cardinality(S)
  BY Zenon DEF Logs!Cardinality, Cardinality

LEMMA ReadableIs ==
  /\ WalkReports = {Convert(Readable[i]) : i \in {j \in DOMAIN Readable : Verified(Readable[j])}}
  /\ Logs!HasSpace <=> Cardinality(WalkReports) < BufferSize
<1>1. WalkReports = {Convert(Readable[i]) : i \in {j \in DOMAIN Readable : Verified(Readable[j])}}
  BY DEF WalkReports, ReportsOf
<1>2. Logs!HasSpace <=> Cardinality(WalkReports) < BufferSize
  BY SameCardinality, Zenon DEF Logs!HasSpace, WalkReports, ReportsOf
<1> QED
  BY <1>1, <1>2

(* What a thread stores is a report of Walk, or nothing the host will read. *)
LEMMA StoredIsFound ==
  ASSUME IInv, NEW g \in Kangaroo, g.z # 0 => OnCurve(Point(g)),
         buffer' = StoreIfDistinguished(g), UNCHANGED <<normalize, phase>>
  PROVE  Found(WithLog(g))
<1>1. CASE normalize /\ phase = "walk"
  BY <1>1 DEF Found, WalkReports, Readable
<1>2. CASE ~(normalize /\ phase = "walk")
  <2>1. Readable = buffer /\ Readable' = buffer'
    BY <1>2 DEF Readable
  <2>2. WalkReports = ReportsOf(buffer) /\ WalkReports' = ReportsOf(buffer')
    BY <2>1 DEF WalkReports, ReportsOf
  <2>3. \/ ReportsOf(buffer') = ReportsOf(buffer)
        \/ /\ Cardinality(ReportsOf(buffer)) < BufferSize
           /\ Logs!IsDistinguished(WithLog(g))
           /\ ReportsOf(buffer') = ReportsOf(buffer) \cup {ReportOf(g)}
    BY StoredAs DEF IInv
  <2> QED
    BY <2>2, <2>3, ReadableIs DEF Found, ReportOf
<1> QED
  BY <1>1, <1>2

LEMMA WalkInit == Init => Logs!Init
<1> SUFFICES ASSUME Init
             PROVE  Logs!Init
  OBVIOUS
<1>1. PICK ktype \in Types, offset \in [Kangaroos -> Offsets] :
        /\ \A k \in Kangaroos : ktype[k] = Tame => offset[k] >= 0
        /\ kangaroo = [k \in Kangaroos |-> Placed(ktype[k], offset[k])]
        /\ \A k \in Kangaroos : OnCurve(Point(kangaroo[k]))
        /\ path = [k \in Kangaroos |->
                     [sign |-> 1, walked |-> offset[k], turned |-> FALSE,
                      from |-> 0, twoBack |-> -1]]
  BY DEF Init
<1>2. start \in StartScalars /\ start \in Scalar /\ pubkey \in Scalar
  BY JacobianWalkAssumption DEF Init
<1>3. ASSUME NEW k \in Kangaroos
      PROVE  /\ WithLog(kangaroo[k]) = Logs!Placed(ktype[k], offset[k])
             /\ Logs!Placed(ktype[k], offset[k]).log # 0
  <2>1. ktype[k] \in KType /\ offset[k] \in Offsets /\ kangaroo[k] = Placed(ktype[k], offset[k])
    BY <1>1, JacobianWalkAssumption
  <2>2. OnCurve(Point(Placed(ktype[k], offset[k])))
    BY <1>1, <2>1
  <2> QED
    BY <1>2, <2>1, <2>2, PlacedIs
<1>4. WalkKangaroos = [k \in Kangaroos |-> Logs!Placed(ktype[k], offset[k])]
  BY <1>3 DEF WalkKangaroos
<1>5. \A k \in Kangaroos : WalkKangaroos[k].log # 0
  BY <1>3, <1>4
<1>6. WalkReports = {}
  <2>1. Readable = << >>
    BY DEF Init, Readable
  <2> QED
    BY <2>1, EmptySeq, LenProperties DEF WalkReports, ReportsOf
<1> QED
  BY <1>1, <1>2, <1>4, <1>5, <1>6, SameArithmetic
     DEF Logs!Init, WalkKangaroos, WalkReports, ReportsOf

LEMMA WalkLook ==
  ASSUME IInv, NEW k \in Kangaroos, Look(k)
  PROVE  Logs!Look(k) \/ UNCHANGED Logs!walkVars
<1>1. /\ buffer' = StoreIfDistinguished(kangaroo[k])
      /\ UNCHANGED <<start, pubkey, normalize, kangaroo, phase, path>>
  BY DEF Look
<1>2. kangaroo[k] \in Kangaroo /\ (kangaroo[k].z # 0 => OnCurve(Point(kangaroo[k])))
  BY DEF IInv, JacobianTypeOK
<1>3. Found(WithLog(kangaroo[k]))
  BY <1>1, <1>2, StoredIsFound
<1>4. WalkKangaroos[k] = WithLog(kangaroo[k]) /\ WalkKangaroos' = WalkKangaroos
  BY <1>1 DEF WalkKangaroos
<1> QED
  BY <1>1, <1>3, <1>4
     DEF Found, Logs!Look, Logs!walkVars, WalkKangaroos, WalkReports, ReportsOf

LEMMA WalkNormalize ==
  ASSUME IInv, NEW k \in Kangaroos, OnCurve(Point(kangaroo[k])), NormalizeThread(k)
  PROVE  Logs!Look(k) \/ UNCHANGED Logs!walkVars
<1>1. PICK new \in Kangaroo :
        /\ new.z = 1
        /\ OnCurve(Point(new))
        /\ WithLog(new) = WithLog(kangaroo[k])
        /\ kangaroo' = [kangaroo EXCEPT ![k] = new]
        /\ buffer' = StoreIfDistinguished(new)
        /\ UNCHANGED <<start, pubkey, normalize, phase, path>>
  BY ThreadGives
<1>2. Found(WithLog(kangaroo[k]))
  <2>1. Found(WithLog(new))
    BY <1>1, StoredIsFound
  <2> QED
    BY <1>1, <2>1
<1>3. WalkKangaroos[k] = WithLog(kangaroo[k]) /\ WalkKangaroos' = WalkKangaroos
  <2>1. \A j \in Kangaroos : kangaroo'[j] = IF j = k THEN new ELSE kangaroo[j]
    BY <1>1 DEF IInv, JacobianTypeOK
  <2>2. \A j \in Kangaroos : WithLog(kangaroo'[j]) = WithLog(kangaroo[j])
    BY <1>1, <2>1
  <2> QED
    BY <2>2 DEF WalkKangaroos, WithLog
<1> QED
  BY <1>1, <1>2, <1>3
     DEF Found, Logs!Look, Logs!walkVars, WalkKangaroos, WalkReports, ReportsOf

LEMMA WalkStep ==
  ASSUME IInv, NEW k \in Kangaroos, OnCurve(Point(kangaroo[k])), Step(k)
  PROVE  Logs!Step(k)
<1> DEFINE g == kangaroo[k]
           hash == HashedJump(k, g)
           odd == IsOdd(Point(g))
           idx == Logs!JumpTaken(g, hash)
           new == Stepped(k, g)
           low == LowBitsOf(new.x)
           L == WithLog(g)
           M == Logs!Tally(Logs!Move(Logs!Choose(L, idx), JumpDistance[idx], odd), low)
           trace == Logs!Record(path[k], L, JumpDistance[idx], odd)
<1>1. /\ new \in Kangaroo
      /\ new.z # 0 => OnCurve(Point(new))
      /\ thread[k] \in 0 .. StepsPerCall - 1
      /\ kangaroo' = [kangaroo EXCEPT ![k] = new]
      /\ buffer' = StoreIfDistinguished(new)
      /\ UNCHANGED <<start, pubkey, normalize, phase>>
  BY StepGives
<1>2. g \in Kangaroo
  BY DEF IInv, JacobianTypeOK
<1>3. trace.walked \in -Reach .. Reach /\ path' = [path EXCEPT ![k] = trace]
  BY DEF Step
<1>4. hash \in Logs!JumpIndex /\ odd \in BOOLEAN /\ low \in LowBits
  <2>1. new.x \in Fe
    BY <1>1, KangarooPoint
  <2> QED
    BY <1>1, <1>2, <2>1, JumpType, LowBitsType, SameArithmetic DEF IsOdd
<1>5. WithLog(new) = M
  BY <1>1, <1>2, StepFields
<1>6. idx = Logs!JumpTaken(L, hash)
  BY DEF WithLog, Logs!JumpTaken, Logs!InCycle
<1>7. L.log # 0
  BY DEF WithLog, OnCurve
<1>8. Found(M)
  <2>1. Found(WithLog(new))
    BY <1>1, StoredIsFound
  <2> QED
    BY <1>5, <2>1
<1>9. Logs!Report(M, M) = Logs!Report(L, M)
  BY DEF Logs!Report
<1> HIDE DEF new, low, M
<1>10. WalkKangaroos' = [WalkKangaroos EXCEPT ![k] = M]
  <2>1. \A j \in Kangaroos : kangaroo'[j] = IF j = k THEN new ELSE kangaroo[j]
    BY <1>1 DEF IInv, JacobianTypeOK
  <2>2. \A j \in Kangaroos : WithLog(kangaroo'[j]) = IF j = k THEN M ELSE WithLog(kangaroo[j])
    BY <1>5, <2>1
  <2>3. WalkKangaroos' = [j \in Kangaroos |-> WithLog(kangaroo'[j])]
    BY DEF WalkKangaroos, WithLog
  <2> QED
    BY <2>2, <2>3 DEF WalkKangaroos
<1>11. WalkKangaroos[k] = L
  BY DEF WalkKangaroos
<1> HIDE DEF L, idx, hash, odd
<1>12. \/ UNCHANGED WalkReports
       \/ /\ Logs!HasSpace
          /\ Logs!IsDistinguished(M)
          /\ WalkReports' = WalkReports \cup {Logs!Report(L, M)}
  BY <1>8, <1>9 DEF Found
<1>13. M = Logs!Tally(Logs!Move(Logs!Choose(L, Logs!JumpTaken(L, hash)),
                                JumpDistance[Logs!JumpTaken(L, hash)], odd), low)
       /\ trace = Logs!Record(path[k], L, JumpDistance[Logs!JumpTaken(L, hash)], odd)
  BY <1>6 DEF M
<1> HIDE DEF trace
<1> SUFFICES \E h \in Logs!JumpIndex, o \in BOOLEAN, w \in LowBits :
               LET i == Logs!JumpTaken(WalkKangaroos[k], h)
                   n == Logs!Tally(Logs!Move(Logs!Choose(WalkKangaroos[k], i), JumpDistance[i], o), w)
                   t == Logs!Record(path[k], WalkKangaroos[k], JumpDistance[i], o)
               IN /\ WalkKangaroos[k].log # 0
                  /\ t.walked \in -Reach .. Reach
                  /\ WalkKangaroos' = [WalkKangaroos EXCEPT ![k] = n]
                  /\ path' = [path EXCEPT ![k] = t]
                  /\ \/ UNCHANGED WalkReports
                     \/ /\ Logs!HasSpace
                        /\ Logs!IsDistinguished(n)
                        /\ WalkReports' = WalkReports \cup {Logs!Report(WalkKangaroos[k], n)}
                  /\ UNCHANGED <<start, pubkey>>
  BY DEF Logs!Step, WalkKangaroos, WalkReports, ReportsOf
<1> QED
  BY <1>1, <1>3, <1>4, <1>7, <1>10, <1>11, <1>12, <1>13

LEMMA WalkCollect ==
  ASSUME IInv, Collect
  PROVE  (\E dp \in WalkReports : Logs!Collect(dp)) \/ UNCHANGED Logs!walkVars
<1>1. /\ phase = "idle" /\ buffer # << >> /\ buffer' = Tail(buffer)
      /\ UNCHANGED <<start, pubkey, normalize, kangaroo, phase, path>>
  BY DEF Collect
<1>2. Readable = buffer /\ Readable' = Tail(buffer)
  BY <1>1 DEF Readable
<1>3. WalkReports = ReportsOf(buffer) /\ WalkReports' = ReportsOf(Tail(buffer))
  BY <1>2 DEF WalkReports, ReportsOf
<1>4. \/ WalkReports' = WalkReports
      \/ \E dp \in WalkReports : WalkReports' = WalkReports \ {dp}
  <2>1. buffer \in Seq(Candidate)
    BY DEF IInv, JacobianTypeOK
  <2>2. \/ ReportsOf(buffer) = ReportsOf(Tail(buffer)) \cup {Convert(buffer[1])}
        \/ ReportsOf(buffer) = ReportsOf(Tail(buffer))
    BY <1>1, <2>1, ReportsTail
  <2> QED
    BY <1>3, <2>2
<1>5. UNCHANGED WalkKangaroos
  BY <1>1 DEF WalkKangaroos
<1> QED
  BY <1>1, <1>4, <1>5 DEF Logs!Collect, Logs!walkVars, WalkKangaroos, WalkReports, ReportsOf

(* What the host or the queue does between the passes is nothing Walk sees. *)
LEMMA WalkStutter ==
  ASSUME IInv, Dispatch \/ EndWalkPass \/ EndNormalizePass \/ UNCHANGED vars
  PROVE  UNCHANGED Logs!walkVars
<1>1. UNCHANGED <<start, pubkey, normalize, kangaroo, path>>
  BY DEF Dispatch, EndWalkPass, EndNormalizePass, vars
<1>2. Readable' = Readable
  <2>1. CASE Dispatch
    BY <2>1 DEF Dispatch, Readable
  <2>2. CASE EndWalkPass
    BY <2>2 DEF EndWalkPass, Readable
  <2>3. CASE EndNormalizePass
    BY <2>3 DEF EndNormalizePass, Readable
  <2>4. CASE UNCHANGED vars
    BY <2>4 DEF vars, Readable
  <2> QED
    BY <2>1, <2>2, <2>3, <2>4
<1>3. WalkReports' = WalkReports
  BY <1>2 DEF WalkReports, ReportsOf
<1>4. WalkKangaroos' = WalkKangaroos
  BY <1>1 DEF WalkKangaroos
<1> QED
  BY <1>1, <1>3, <1>4 DEF Logs!walkVars, WalkKangaroos, WalkReports, ReportsOf

(* The walk pass and the normalize pass, thread by thread and in any order, the
   formulas on Jacobian coordinates, the DP buffer and the exact check of the host
   implement the walk on logarithms: every step of theirs is a step of Walk or one
   it does not see. *)
THEOREM Refinement == Spec => ImplementsWalk
<1>1. Init => Logs!Init
  BY WalkInit
<1>2. IInv /\ [Next]_vars => [Logs!Next]_(Logs!walkVars)
  <2> SUFFICES ASSUME IInv, [Next]_vars
               PROVE  [Logs!Next]_(Logs!walkVars)
    OBVIOUS
  <2>1. ASSUME Next
        PROVE  [Logs!Next]_(Logs!walkVars)
    <3>1. \A k \in Kangaroos : OnCurve(Point(kangaroo[k]))
      BY <2>1 DEF Next
    <3>2. ASSUME Dispatch \/ EndWalkPass \/ EndNormalizePass
          PROVE  UNCHANGED Logs!walkVars
      BY <3>2, WalkStutter
    <3>3. ASSUME Collect
          PROVE  [Logs!Next]_(Logs!walkVars)
      BY <3>3, WalkCollect DEF Logs!Next, WalkReports, ReportsOf
    <3>4. ASSUME NEW k \in Kangaroos, Look(k) \/ Step(k) \/ NormalizeThread(k)
          PROVE  [Logs!Next]_(Logs!walkVars)
      <4>1. Logs!Look(k) \/ Logs!Step(k) \/ UNCHANGED Logs!walkVars
        BY <3>1, <3>4, WalkLook, WalkStep, WalkNormalize
      <4> QED
        BY <4>1 DEF Logs!Next
    <3> QED
      BY <2>1, <3>2, <3>3, <3>4 DEF Next
  <2>2. ASSUME UNCHANGED vars
        PROVE  UNCHANGED Logs!walkVars
    BY <2>2, WalkStutter
  <2> QED
    BY <2>1, <2>2
<1> QED
  BY <1>1, <1>2, Invariance, PTL DEF Spec, ImplementsWalk, Logs!Spec

=============================================================================
