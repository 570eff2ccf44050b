----------------------------- MODULE KangarooInit -----------------------------
(***************************************************************************)
(* initialize_kangaroos (src/cpu/init.rs): the type, the place on the grid *)
(* and the point of every kangaroo of a solver.                            *)
(***************************************************************************)
EXTENDS KangarooAlgebra

CONSTANT HashSeed \* hash_seed of a global index, a pseudo-random number

ASSUME SeedAssumption == HashSeed \in [Word -> Word]

(* The type depends on the kangaroo's number i within its solver. *)
KTypeOf(mode, i, num) ==
  CASE mode = "tame" -> Tame
    [] mode = "wild" -> IF i < num \div 2 THEN Wild1 ELSE Wild2
    [] OTHER -> IF i < num \div 3 THEN Tame
                ELSE IF i < 2 * (num \div 3) THEN Wild1 ELSE Wild2

AtLeastOne(v) == IF v = 0 THEN 1 ELSE v

GridDelta(rangeBits, globalCount) == AtLeastOne(TwoTo[rangeBits] \div AtLeastOne(globalCount))

(* Less than half a cell of the grid; the code masks when the span is a power of
   two, with the same result. *)
Jitter(globalIndex, delta) == HashSeed[globalIndex] % AtLeastOne(delta \div 2)

(* The offset of a kangaroo within the range. *)
Offset(rangeBits, globalIndex, globalCount) ==
  LET delta == GridDelta(rangeBits, globalCount)
  IN (((globalIndex * delta) % W) + Jitter(globalIndex, delta)) % TwoTo[rangeBits]

(* init_tame_kangaroo_at_offset: point and distance. *)
TameAt(start, offset, base) ==
  [log |-> (base * ((start + offset) % W)) % N, dist |-> offset]

(* Mutant: a negative offset is stored without its sign. *)
WildAtUnsigned(origin, offset, middle, base) ==
  IF offset >= middle
  THEN [log |-> (origin + base * (offset - middle)) % N, dist |-> offset - middle]
  ELSE [log |-> (origin - base * (middle - offset)) % N, dist |-> middle - offset]

(* init_wild_kangaroo_at_offset: offsets are counted from the middle of the range,
   a negative one is stored as its two's complement. *)
WildAt(origin, offset, middle, base) ==
  IF offset >= middle
  THEN [log |-> (origin + base * (offset - middle)) % N, dist |-> offset - middle]
  ELSE [log |-> (origin - base * (middle - offset)) % N,
        dist |-> NegateU256(middle - offset)]

(* A kangaroo of the problem run() sets the solvers (see ModConstraint). *)
Kangaroo(problem, mode, i, num, first, globalCount) ==
  LET ktype == KTypeOf(mode, i, num)
      offset == Offset(problem.rangeBits, first + i, globalCount)
      placed ==
        IF ktype = Tame THEN TameAt(problem.start, offset, problem.base)
        ELSE WildAt(IF ktype = Wild1 THEN problem.pubkey ELSE -problem.pubkey,
                    offset, TwoTo[problem.rangeBits - 1], problem.base)
  IN [ktype |-> ktype, log |-> placed.log, dist |-> placed.dist]

(* initialize_kangaroos refuses these. *)
RefusesHerd(num, rangeBits) == num < 3 \/ rangeBits = 0 \/ TwoTo[rangeBits] >= W
=============================================================================
