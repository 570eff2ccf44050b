--------------------------------- MODULE Walk ---------------------------------
(***************************************************************************)
(* src/shaders/kangaroo_jacobian.wgsl on logarithms: what one step of the  *)
(* walk shader does to a kangaroo's point, distance and cycle bookkeeping, *)
(* and which distinguished points it reports.                              *)
(*                                                                         *)
(* The hash of the coordinates that selects a jump, the parity of Y and the *)
(* low bits of X depend on the Jacobian representation of the point and not *)
(* on the point alone, so they are choices of the step; JacobianWalk        *)
(* computes them.  A kangaroo at the point at infinity has left the curve  *)
(* (see JacobianWalk) and is followed no further.                          *)
(***************************************************************************)
EXTENDS Problem, FiniteSets

CONSTANTS
  Kangaroos,       \* kangaroo ids
  Types,           \* the ways initialize_kangaroos may hand out the types
  Jumps,           \* size of the jump table
  JumpDistance,    \* jump_distances; jump_points[i] is that multiple of the base point
  CycleCap,        \* cycle_cap
  RepeatThreshold, \* REPEAT_THRESHOLD
  LowBits,         \* values of the low 16 bits of X
  Offsets,         \* distances the kangaroos may start with
  Distinguished,   \* the distinguished affine x
  BufferSize       \* candidates the DP buffer holds

JumpIndex == 0 .. Jumps - 1

ASSUME WalkAssumption ==
  /\ Types \subseteq [Kangaroos -> KType]
  /\ Jumps \in Nat \ {0, 1}
  /\ JumpDistance \in [JumpIndex -> Word]
  /\ CycleCap \in Nat
  /\ RepeatThreshold \in Nat
  /\ BufferSize \in Nat
  /\ 0 \in LowBits
  /\ Offsets \subseteq -Reach .. Reach

VARIABLES
  kangaroo,  \* the kangaroo buffer
  reports,   \* distinguished points stored and not yet collected by the host
  path       \* history of each kangaroo

walkVars == <<start, pubkey, kangaroo, reports, path>>

NoJump == -1 \* last_jump is 0xFFFFFFFF
NoRepeat == [low |-> 0, count |-> 0] \* the two halves of repeat_count, both 0

Kangaroo ==
  [ktype : KType, log : Scalar, dist : Word, cycle : 0 .. CycleCap + 1,
   repeat : [low : LowBits, count : 0 .. RepeatThreshold + 1],
   last : JumpIndex \cup {NoJump}]

(* sign, walked: the point is sign * origin + walked.
   turned: the last step was no escape and took the opposite point; from: the
   point before it, then.  twoBack: the point before the last two steps if both were
   such steps, -1 otherwise. *)
Path == [sign : Sign, walked : -Reach .. Reach, turned : BOOLEAN,
         from : Scalar, twoBack : Scalar \cup {-1}]

-----------------------------------------------------------------------------
(* Mutant: the repeat count is kept and never looked at. *)
InCycleByCounter(g) == g.cycle > CycleCap

(* in_cycle: too long since the last escape, or stuck on one X. *)
InCycle(g) == g.cycle > CycleCap \/ g.repeat.count > RepeatThreshold

(* Mutant: nothing keeps a kangaroo from taking the same jump twice in a row. *)
TakenAsHashed(g, hash) == hash

(* The jump a kangaroo takes: the hashed one, or the next if it would repeat the
   one before; an escape does not look. *)
JumpTaken(g, hash) ==
  IF ~InCycle(g) /\ hash = g.last THEN (hash + 1) % Jumps ELSE hash

Choose(g, idx) ==
  IF InCycle(g) THEN [g EXCEPT !.cycle = 0, !.repeat = NoRepeat]
                ELSE [g EXCEPT !.last = idx]

(* Mutant: the distance of a reflected step is added, not subtracted from. *)
MoveWithoutReflection(g, jump, odd) ==
  [g EXCEPT !.log = ((IF odd THEN -@ ELSE @) + jump) % N, !.dist = (@ + jump) % W]

(* The even-y representative of the point, plus the jump point; the distance
   follows in 256-bit words. *)
Move(g, jump, odd) ==
  [g EXCEPT !.log = ((IF odd THEN -@ ELSE @) + jump) % N,
            !.dist = ((IF odd THEN -@ ELSE @) + jump) % W]

Tally(g, low) ==
  [g EXCEPT !.cycle = @ + 1,
            !.repeat = [low |-> low, count |-> IF low = @.low THEN @.count + 1 ELSE 1]]

IsDistinguished(g) == g.log # 0 /\ AffineX(g.log) \in Distinguished

(* Mutant: the candidate is stored with the distance of the step before. *)
StaleReport(old, new) == [x |-> AffineX(new.log), dist |-> old.dist, ktype |-> new.ktype]

(* store_dp_candidate after a step from old to new; an exact check on the host
   computes x. *)
Report(old, new) == [x |-> AffineX(new.log), dist |-> new.dist, ktype |-> new.ktype]

HasSpace == Cardinality(reports) < BufferSize

Record(p, g, jump, odd) ==
  LET turned == odd /\ ~InCycle(g)
  IN [sign |-> IF odd THEN -p.sign ELSE p.sign,
      walked |-> (IF odd THEN -p.walked ELSE p.walked) + jump,
      turned |-> turned,
      from |-> IF turned THEN g.log ELSE 0,
      twoBack |-> IF turned /\ p.turned THEN p.from ELSE -1]

(* One iteration of the loop over the steps of a dispatch.  The approximate
   check may miss a distinguished point; what it lets through is checked exactly.
   A candidate that finds the buffer full is dropped. *)
Step(k) ==
  LET g == kangaroo[k]
  IN \E hash \in JumpIndex, odd \in BOOLEAN, low \in LowBits :
       LET idx == JumpTaken(g, hash)
           jump == JumpDistance[idx]
           new == Tally(Move(Choose(g, idx), jump, odd), low)
           trace == Record(path[k], g, jump, odd)
       IN /\ g.log # 0
          /\ trace.walked \in -Reach .. Reach
          /\ kangaroo' = [kangaroo EXCEPT ![k] = new]
          /\ path' = [path EXCEPT ![k] = trace]
          /\ \/ UNCHANGED reports
             \/ /\ HasSpace
                /\ IsDistinguished(new)
                /\ reports' = reports \cup {Report(g, new)}
          /\ UNCHANGED <<start, pubkey>>

(* The check before the first step of a dispatch, and the exact one of the
   normalize pass after its last. *)
Look(k) ==
  /\ HasSpace
  /\ IsDistinguished(kangaroo[k])
  /\ reports' = reports \cup {Report(kangaroo[k], kangaroo[k])}
  /\ UNCHANGED <<start, pubkey, kangaroo, path>>

(* The host reads a point out of the DP buffer. *)
Collect(dp) ==
  /\ reports' = reports \ {dp}
  /\ UNCHANGED <<start, pubkey, kangaroo, path>>

-----------------------------------------------------------------------------
(* initialize_kangaroos: a point at an offset from the origin of its type; a
   negative offset is stored as a two's complement.  A point at infinity has no
   coordinates: affine_to_gpu panics and the search does not start. *)
Placed(ktype, offset) ==
  [ktype |-> ktype, log |-> (OriginOf(ktype, start, pubkey) + offset) % N,
   dist |-> offset % W, cycle |-> 0, repeat |-> NoRepeat, last |-> NoJump]

Init ==
  /\ start \in StartScalars
  /\ pubkey \in Scalar
  /\ \E ktype \in Types, offset \in [Kangaroos -> Offsets] :
       /\ \A k \in Kangaroos : ktype[k] = Tame => offset[k] >= 0
       /\ kangaroo = [k \in Kangaroos |-> Placed(ktype[k], offset[k])]
       /\ \A k \in Kangaroos : kangaroo[k].log # 0
       /\ path = [k \in Kangaroos |->
                    [sign |-> 1, walked |-> offset[k], turned |-> FALSE,
                     from |-> 0, twoBack |-> -1]]
  /\ reports = {}

Next ==
  \/ \E k \in Kangaroos : Step(k) \/ Look(k)
  \/ \E dp \in reports : Collect(dp)

Spec == Init /\ [][Next]_walkVars

-----------------------------------------------------------------------------
TypeOK ==
  /\ start \in Scalar
  /\ pubkey \in Scalar
  /\ kangaroo \in [Kangaroos -> Kangaroo]
  /\ reports \in SUBSET DistinguishedPoint
  /\ path \in [Kangaroos -> Path]

(* Some reading of a distance word, under some sign of the origin, leads to p. *)
Names(dist, ktype, p) ==
  \E s \in Sign, d \in DistanceScalarPair(dist) :
    p = (s * OriginOf(ktype, start, pubkey) + d) % N

(* The distance still names the point after any number of reflections, escapes
   and wrap-arounds, from any start: one of the readings the table tries is the
   way from plus or minus the origin to where the kangaroo is. *)
DistanceNamesPoint ==
  \A k \in Kangaroos : Names(kangaroo[k].dist, kangaroo[k].ktype, kangaroo[k].log)

(* So does the distance in a report name a point with the reported x: point,
   distance and x of a candidate are of the same step. *)
ReportsNamePoint ==
  \A dp \in reports :
    \E p \in Scalar \ {0} : AffineX(p) = dp.x /\ Names(dp.dist, dp.ktype, p)

DistinctJumps ==
  \A i, j \in JumpIndex : i # j => JumpDistance[i] % N # JumpDistance[j] % N

(* No fruitless pair: two reflected steps in a row, neither an escape, never
   undo each other, as they would if they took the same jump.  (An escape does
   not set last_jump, so the step after it may undo it.) *)
NoFruitlessPair ==
  DistinctJumps => \A k \in Kangaroos : kangaroo[k].log # path[k].twoBack
=============================================================================
