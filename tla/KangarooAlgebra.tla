--------------------------- MODULE KangarooAlgebra ---------------------------
(***************************************************************************)
(* The arithmetic that turns two meeting kangaroos into a private key.     *)
(*                                                                         *)
(* The curve group is cyclic of odd prime order n, so a point is modelled  *)
(* by its discrete logarithm in 0..N-1 and two points have the same affine *)
(* x exactly when they are equal or opposite.  A GPU distance is a 256-bit *)
(* word: an integer modulo W, where W stands for 2^256.                    *)
(***************************************************************************)
EXTENDS Integers

CONSTANTS
  N,  \* order of the group (secp256k1's n)
  W   \* number of values of a distance word (2^256)

ASSUME ModuliAssumption ==
  /\ N \in Nat
  /\ N >= 3
  /\ N % 2 = 1
  /\ W \in Nat
  /\ W > N

Scalar == 0 .. N - 1
Word == 0 .. W - 1
Sign == {1, -1}

(* One shifted left by b bits, of a wide integer. *)
TwoTo[b \in Nat] == IF b = 0 THEN 1 ELSE 2 * TwoTo[b - 1]

(* Kangaroo types: initialize_kangaroos hands out these three and no other. *)
Tame == 0
Wild1 == 1
Wild2 == 2
KType == {Tame, Wild1, Wild2}

(* The affine x of a point: one name for the point and its opposite.  The
   point at infinity has none and is never written to a DP buffer. *)
AffineX(p) == IF p <= N - p THEN p ELSE N - p
XCoord == 1 .. (N - 1) \div 2

(* A kangaroo of a type starts from the range start, from the public key or
   from the opposite of the public key. *)
OriginOf(ktype, start, pubkey) ==
  IF ktype = Tame THEN start ELSE IF ktype = Wild1 THEN pubkey ELSE -pubkey

-----------------------------------------------------------------------------
(* negate_u256_bytes: two's complement, so zero stays zero. *)
NegateU256(d) == (W - d) % W

(* distance_scalar_pair: the word read as a non-negative distance, and read as
   a distance that wrapped below zero. *)
DistanceScalarPair(d) == {d % N, (-NegateU256(d)) % N}

(* scalar_half: 2 * ScalarHalf = 1 (mod N). *)
ScalarHalf == (N + 1) \div 2

(* Mutant: the formulas with a negated base forgotten. *)
ScalarsWithoutNegatedBase(base, tame, wild) ==
  {(base + t * tame + w * wild) % N : t \in Sign, w \in Sign}

(* compute_candidate_scalars: base, tame distance and wild distance under
   every choice of signs.  Exactly one scalar verifies, so the order in which
   the code lists the eight does not matter. *)
ComputeCandidateScalars(base, tame, wild) ==
  {(b * base + t * tame + w * wild) % N : b \in Sign, t \in Sign, w \in Sign}

ComputeCandidateKeys(start, tameDist, wildDist) ==
  UNION {ComputeCandidateScalars(start % N, td, wd) :
           td \in DistanceScalarPair(tameDist), wd \in DistanceScalarPair(wildDist)}

(* Mutant: the opposite of the difference is not tried. *)
KeysOfOneDifference(dist1, dist2) ==
  {((d2 - d1) * ScalarHalf) % N :
     d1 \in DistanceScalarPair(dist1), d2 \in DistanceScalarPair(dist2)}

ComputeCandidateKeysCrossWild(dist1, dist2) ==
  {(s * (d2 - d1) * ScalarHalf) % N :
     s \in Sign, d1 \in DistanceScalarPair(dist1), d2 \in DistanceScalarPair(dist2)}
=============================================================================
