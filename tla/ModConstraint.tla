----------------------------- MODULE ModConstraint -----------------------------
(***************************************************************************)
(* src/modular.rs: a search restricted to the keys k = R (mod M), turned   *)
(* into a search for j = (k - R) / M from the base point H = M * G.        *)
(*                                                                         *)
(* A 256-bit number is four limbs, least significant first, and the        *)
(* arithmetic is the code's, limb by limb; the step M and the remainder R  *)
(* fit one limb.  Points are logarithms to the base G.                     *)
(***************************************************************************)
EXTENDS KangarooAlgebra

CONSTANT LimbBase \* number of values of a limb (2^64)

ASSUME LimbAssumption ==
  /\ LimbBase \in Nat
  /\ LimbBase >= 2
  /\ W = LimbBase * LimbBase * LimbBase * LimbBase

Limb == 0 .. LimbBase - 1
U256 == [0 .. 3 -> Limb]

Number(a, b, c, d) ==
  [i \in 0 .. 3 |-> CASE i = 0 -> a [] i = 1 -> b [] i = 2 -> c [] OTHER -> d]

Value(le) == le[0] + LimbBase * (le[1] + LimbBase * (le[2] + LimbBase * le[3]))

Limbs(v) ==
  LET v1 == v \div LimbBase
      v2 == v1 \div LimbBase
      v3 == v2 \div LimbBase
  IN Number(v % LimbBase, v1 % LimbBase, v2 % LimbBase, v3 % LimbBase)

-----------------------------------------------------------------------------
(* Mutant: what a limb lacks is not borrowed from the limbs above it. *)
SubU64WithoutBorrow(le, val) ==
  [le EXCEPT ![0] = IF @ >= val THEN @ - val ELSE LimbBase + @ - val]

(* sub_u64_from_u256_le: what is borrowed from each limb in turn; a borrow
   from beyond the last makes the result zero. *)
SubU64(le, val) ==
  LET next(i, borrow) == IF le[i] >= borrow THEN 0 ELSE 1
      b1 == next(0, val)
      b2 == next(1, b1)
      b3 == next(2, b2)
      sub(i, borrow) == (LimbBase + le[i] - borrow) % LimbBase
  IN IF next(3, b3) # 0 THEN Limbs(0)
                        ELSE Number(sub(0, val), sub(1, b1), sub(2, b2), sub(3, b3))

(* div_u256_le_by_u64: the remainder of each limb is carried to the one below. *)
DivByU64(le, d) ==
  LET combined(above, i) == above * LimbBase + le[i]
      r3 == combined(0, 3) % d
      r2 == combined(r3, 2) % d
      r1 == combined(r2, 1) % d
      div(above, i) == (combined(above, i) \div d) % LimbBase
  IN [quotient |-> Number(div(r1, 0), div(r2, 1), div(r3, 2), div(0, 3)),
      remainder |-> combined(r1, 0) % d]

(* add_one_u256_le *)
AddOne(le) ==
  LET next(i, carry) == IF le[i] + carry = LimbBase THEN 1 ELSE 0
      c1 == next(0, 1)
      c2 == next(1, c1)
      c3 == next(2, c2)
      add(i, carry) == (le[i] + carry) % LimbBase
  IN Number(add(0, 1), add(1, c1), add(2, c2), add(3, c3))

(* 63 - leading_zeros, of a number that is not zero. *)
FloorLog2(m) == CHOOSE e \in 0 .. m : TwoTo[e] <= m /\ m < TwoTo[e + 1]

(* j_start: the quotient, rounded up. *)
JStart(step, first, start) ==
  LET division == DivByU64(SubU64(start, first), step)
  IN IF division.remainder > 0 THEN AddOne(division.quotient) ELSE division.quotient

EffectiveRangeBits(step, rangeBits) ==
  IF rangeBits > FloorLog2(step) THEN rangeBits - FloorLog2(step) ELSE 1

(* ModConstraint::new refuses these. *)
Refused(step, first) == step = 0 \/ first >= step

(* The problem run() hands to a solver: base point, public key, range; that of a
   constraint, or the original one when the step is 1. *)
Transformed(step, first, pubkey, start, rangeBits) ==
  IF step = 1
  THEN [base |-> 1, pubkey |-> pubkey, start |-> start, rangeBits |-> rangeBits]
  ELSE [base |-> step % N,
        pubkey |-> (pubkey - first) % N,
        start |-> JStart(step, first, start),
        rangeBits |-> EffectiveRangeBits(step, rangeBits)]

(* Mutant: the remainder R is not added back. *)
RecoverMultiple(step, first, j) == IF step = 1 THEN j ELSE (step * j) % N

(* recover_key_from_j, or the key as it is when there is no constraint. *)
RecoverKey(step, first, j) == IF step = 1 THEN j ELSE (first + step * j) % N
=============================================================================
