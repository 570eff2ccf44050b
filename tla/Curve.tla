--------------------------------- MODULE Curve ---------------------------------
(***************************************************************************)
(* src/gpu_crypto/shaders/curve.wgsl over a small field: the formulas of   *)
(* the walk shader on Jacobian coordinates, beside the chord and tangent   *)
(* law they stand for.  A Jacobian triple (X, Y, Z) with Z # 0 is the      *)
(* point (X / Z^2, Y / Z^3); Z = 0 is the point at infinity.               *)
(***************************************************************************)
EXTENDS KangarooAlgebra

CONSTANTS
  P,    \* the prime of the field
  Base  \* base point, of order N

Fe == 0 .. P - 1
JacobianPoint == [x : Fe, y : Fe, z : Fe]

(* a^(p - 2): the inverse, and 0 for 0. *)
Reciprocal == [a \in Fe |-> IF a = 0 THEN 0 ELSE CHOOSE b \in Fe : (a * b) % P = 1]
FeInv(a) == Reciprocal[a]

JacInfinity == [x |-> 1, y |-> 1, z |-> 0]

JacDouble(p) ==
  LET a == p.x * p.x
      b == (p.y * p.y) % P
      c == b * b
      d == (2 * ((p.x + b) * (p.x + b) - a - c)) % P
      e == 3 * a
      x == (e * e - 2 * d) % P
  IN [x |-> x, y |-> (e * (d - x) - 8 * c) % P, z |-> (2 * p.y * p.z) % P]

(* The formulas for two points with different x. *)
JacChord(p, q) ==
  LET h == (q.x * p.z * p.z - p.x) % P
      r == (2 * (q.y * p.z * p.z * p.z - p.y)) % P
      i == (4 * h * h) % P
      j == (h * i) % P
      v == (p.x * i) % P
      x == (r * r - j - 2 * v) % P
  IN [x |-> x,
      y |-> (r * (v - x) - 2 * p.y * j) % P,
      z |-> ((p.z + h) * (p.z + h) - p.z * p.z - h * h) % P]

SameX(p, q) == (q.x * p.z * p.z - p.x) % P = 0
SameY(p, q) == (q.y * p.z * p.z * p.z - p.y) % P = 0

(* Mutant: equal points are not doubled. *)
JacAddWithoutDoubling(p, q) == IF SameX(p, q) THEN JacInfinity ELSE JacChord(p, q)

(* p is Jacobian, q is affine. *)
JacAddAffine(p, q) ==
  IF ~SameX(p, q) THEN JacChord(p, q)
  ELSE IF SameY(p, q) THEN JacDouble(p) ELSE JacInfinity

(* The even-y representative, by the parity of the Jacobian Y. *)
IsOdd(p) == p.y % 2 = 1
EvenY(p) == IF IsOdd(p) THEN [p EXCEPT !.y = (-@) % P] ELSE p

(* The representation with Z = 1.  Nothing is left of a point at infinity. *)
Normalized(p) ==
  IF p.z = 1 THEN p
  ELSE LET i == FeInv(p.z)
       IN [x |-> (p.x * i * i) % P, y |-> (p.y * i * i * i) % P, z |-> 1]

-----------------------------------------------------------------------------
(* The group, as k256 computes it.  Infinity stands for the affine identity. *)
Infinity == [x |-> 0, y |-> 0]

AffineSum(p, q) ==
  LET slope == IF p = q THEN (3 * p.x * p.x * FeInv((2 * p.y) % P)) % P
                        ELSE ((q.y - p.y) * FeInv((q.x - p.x) % P)) % P
      x == (slope * slope - p.x - q.x) % P
  IN IF p = Infinity THEN q
     ELSE IF q = Infinity THEN p
     ELSE IF p.x = q.x /\ (p.y + q.y) % P = 0 THEN Infinity
     ELSE [x |-> x, y |-> (slope * (p.x - x) - p.y) % P]

(* k * Base *)
Multiple[k \in Nat] == IF k = 0 THEN Infinity ELSE AffineSum(Multiple[k - 1], Base)

Points == [k \in Scalar |-> Multiple[k]]

(* Logarithms of the points other than infinity, by their affine coordinates; 0
   where there is none. *)
LogOf == [a \in [x : Fe, y : Fe] |->
  IF \E k \in Scalar \ {0} : Points[k] = a THEN CHOOSE k \in Scalar \ {0} : Points[k] = a ELSE 0]

(* P is an odd prime, the curve has no singular point, and the multiples of the base
   point are a group of N of its points under the chord and tangent law. *)
ASSUME CurveAssumption ==
  /\ P \in Nat
  /\ P > 2
  /\ P % 2 = 1
  /\ \A a \in Fe \ {0} : \E b \in Fe : (a * b) % P = 1
  /\ 7 % P # 0
  /\ Points \in [Scalar -> [x : Fe, y : Fe]]
  /\ \A k \in Scalar \ {0} :
       LET p == Points[k] IN p.y # 0 /\ (p.y * p.y - p.x * p.x * p.x - 7) % P = 0
  /\ \A k, l \in Scalar : AffineSum(Points[k], Points[l]) = Points[(k + l) % N]

LogsOfX(x) == {k \in Scalar \ {0} : Points[k].x = x}

(* The logarithm of a Jacobian triple, 0 if it is none of the points of the group
   or the point at infinity. *)
Log(p) == IF p.z = 0 THEN 0 ELSE LogOf[[x |-> Normalized(p).x, y |-> Normalized(p).y]]

OnCurve(p) == Log(p) # 0
=============================================================================
