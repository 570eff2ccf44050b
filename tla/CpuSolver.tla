------------------------------- MODULE CpuSolver -------------------------------
(***************************************************************************)
(* src/cpu/cpu_solver.rs: the solver that runs one tame and one wild       *)
(* kangaroo on the CPU, in turn, until their tables of distinguished       *)
(* points meet or the time is up; a small range is searched key by key.    *)
(*                                                                         *)
(* Points are logarithms.  Unlike the shaders this solver computes affine  *)
(* coordinates, so a step is a function of the point; and the point at     *)
(* infinity is a point like any other (k256 gives it the coordinates       *)
(* <<0, 0>>).  Distances are scalars.                                      *)
(***************************************************************************)
EXTENDS KangarooAlgebra

CONSTANTS
  XLow,            \* the low 128 bits of an affine x
  Odd,             \* the points with an odd y
  Jumps,           \* size of the jump table (16)
  JumpDistance,    \* jump_distances
  LowModulus,      \* number of values of the low bits that tell repeats (2^16)
  DpModulus,       \* dp_mask + 1
  CycleCap,        \* steps after which a kangaroo escapes (1024)
  RepeatThreshold, \* repeats after which it does (3)
  FallbackBits,    \* largest range_bits that is searched key by key (24)
  RangeBits        \* values of range_bits

JumpIndex == 0 .. Jumps - 1
AffineCoord == XCoord \cup {0}

ASSUME CpuAssumption ==
  /\ XLow \in [AffineCoord -> Nat]
  /\ XLow[0] = 0
  /\ Odd \subseteq Scalar \ {0}
  /\ Jumps \in Nat \ {0}
  /\ JumpDistance \in [JumpIndex -> Scalar]
  /\ LowModulus \in Nat \ {0}
  /\ DpModulus \in Nat \ {0}
  /\ CycleCap \in Nat
  /\ RepeatThreshold \in Nat
  /\ RangeBits \subseteq Nat \ {0}

VARIABLES
  pubkey,    \* logarithm of the public key
  start,     \* first scalar of the range
  rangeBits, \* range_bits
  timeout,   \* zero, or a time that may run out at any look at the clock
  pc,        \* what solve() does next
  tame,      \* the tame kangaroo
  wild,      \* the wild kangaroo
  tameTable, \* tame_table
  wildTable, \* wild_table
  ops,       \* ops, modulo the size of the jump table
  candidate, \* keys the search key by key has tried
  result,    \* what solve() returns
  since,     \* history: steps of a kangaroo since its last escape
  seen       \* history: distinguished x each kangaroo has been at

vars == <<pubkey, start, rangeBits, timeout, pc, tame, wild, tameTable, wildTable,
          ops, candidate, result, since, seen>>
inputs == <<pubkey, start, rangeBits, timeout>>

NoKey == -1
NoJump == -1 \* usize::MAX
NoPoint == -1
NoRepeat == [low |-> 0, count |-> 0]
Side == {"tame", "wild"}
LowX == {XLow[x] : x \in AffineCoord}

(* A kangaroo; cached: the affine point kept for the next step, if any. *)
Walker == [log : Scalar, dist : Scalar, cycle : 0 .. CycleCap,
           repeat : [low : 0 .. LowModulus - 1, count : 0 .. RepeatThreshold],
           last : JumpIndex \cup {NoJump}, cached : Scalar \cup {NoPoint}]

IsTable(table) == DOMAIN table \subseteq LowX /\ table \in [DOMAIN table -> Scalar]

-----------------------------------------------------------------------------
Mid == (start + TwoTo[rangeBits - 1]) % N

(* get_x_low_from_affine *)
Low(p) == XLow[AffineX(p)]

(* The point whose coordinates a step looks at. *)
AffineOf(w) == IF w.cached = NoPoint THEN w.log ELSE w.cached

HashedJump(w) == Low(AffineOf(w)) % Jumps

JumpTaken(w) ==
  IF HashedJump(w) = w.last THEN (HashedJump(w) + 1) % Jumps ELSE HashedJump(w)

(* The jump from the even-y representative; point and distance together. *)
Hop(w) ==
  LET idx == JumpTaken(w)
      sign == IF AffineOf(w) \in Odd THEN -1 ELSE 1
  IN [w EXCEPT !.log = (sign * @ + JumpDistance[idx]) % N,
               !.dist = (sign * @ + JumpDistance[idx]) % N,
               !.last = idx,
               !.cached = NoPoint]

(* cycle_counter and repeat, after a step to the point of w. *)
Cycle(w) == w.cycle + 1

Repeat(w, low) ==
  [low |-> low, count |-> IF low = w.repeat.low THEN w.repeat.count + 1 ELSE 1]

MustEscape(w) ==
  \/ Cycle(w) > CycleCap
  \/ Repeat(w, Low(w.log) % LowModulus).count > RepeatThreshold

(* One more jump, picked by the counters; last_jump keeps the hashed one. *)
Escape(w, hops) ==
  LET jump == JumpDistance[(Cycle(w) * 31 + w.last + hops) % Jumps]
  IN [w EXCEPT !.log = (@ + jump) % N, !.dist = (@ + jump) % N,
               !.cycle = 0, !.repeat = NoRepeat]

Settle(w) ==
  [w EXCEPT !.cycle = Cycle(w), !.repeat = Repeat(w, Low(w.log) % LowModulus),
            !.cached = w.log]

(* Mutant: a distinguished point starts the count of steps anew. *)
StepResetAtDistinguished(w, hops) ==
  LET h == Hop(w)
      new == IF MustEscape(h) THEN Escape(h, hops) ELSE Settle(h)
  IN IF Low(AffineOf(w)) % DpModulus = 0
     THEN [new EXCEPT !.cycle = 0, !.repeat = NoRepeat] ELSE new

(* A kangaroo's step; hops is ops after it. *)
Step(w, hops) ==
  LET h == Hop(w) IN IF MustEscape(h) THEN Escape(h, hops) ELSE Settle(h)

IsDistinguished(w) == Low(AffineOf(w)) % DpModulus = 0

(* try_candidates: the candidate that verifies, if one does. *)
TryCandidates(tameDist, wildDist) ==
  IF pubkey \in ComputeCandidateScalars(Mid, tameDist, wildDist) THEN pubkey ELSE NoKey

(* The other table's entry for the same low bits, if there is one; it is tried with
   the distance from before the step. *)
Meets(table, w) == IsDistinguished(w) /\ Low(AffineOf(w)) \in DOMAIN table

Met(table, w) == table[Low(AffineOf(w))]

(* Mutant: the distance stored is that of the step after. *)
InsertLate(table, w) ==
  [l \in DOMAIN table \cup {Low(AffineOf(w))} |->
     IF l = Low(AffineOf(w)) THEN Hop(w).dist ELSE table[l]]

(* HashMap::insert, of the distance from before the step: the later one stays. *)
Insert(table, w) ==
  [l \in DOMAIN table \cup {Low(AffineOf(w))} |->
     IF l = Low(AffineOf(w)) THEN w.dist ELSE table[l]]

Finish(key) ==
  /\ result' = key
  /\ pc' = "done"

-----------------------------------------------------------------------------
Witness(side, w, hops) ==
  /\ since' = [since EXCEPT ![side] = IF MustEscape(Hop(w)) THEN 0 ELSE @ + 1]
  /\ seen' = [seen EXCEPT ![side] =
                IF IsDistinguished(w) THEN @ \cup {AffineX(w.log)} ELSE @]

(* The first half of the loop's body. *)
TameStep ==
  /\ pc = "tame"
  /\ timeout # 0
  /\ LET hops == (ops + 1) % Jumps
         key == IF Meets(wildTable, tame)
                THEN TryCandidates(tame.dist, Met(wildTable, tame)) ELSE NoKey
     IN /\ ops' = hops
        /\ tame' = Step(tame, hops)
        /\ Witness("tame", tame, hops)
        /\ IF key # NoKey
           THEN Finish(key) /\ UNCHANGED tameTable
           ELSE /\ tameTable' = IF IsDistinguished(tame) THEN Insert(tameTable, tame)
                                                         ELSE tameTable
                /\ pc' = "wild"
                /\ UNCHANGED result
  /\ UNCHANGED <<inputs, wild, wildTable, candidate>>

(* The second half. *)
WildStep ==
  /\ pc = "wild"
  /\ LET hops == (ops + 1) % Jumps
         key == IF Meets(tameTable, wild)
                THEN TryCandidates(Met(tameTable, wild), wild.dist) ELSE NoKey
     IN /\ ops' = hops
        /\ wild' = Step(wild, hops)
        /\ Witness("wild", wild, hops)
        /\ IF key # NoKey
           THEN Finish(key) /\ UNCHANGED wildTable
           ELSE /\ wildTable' = IF IsDistinguished(wild) THEN Insert(wildTable, wild)
                                                         ELSE wildTable
                /\ pc' = "tame"
                /\ UNCHANGED result
  /\ UNCHANGED <<inputs, tame, tameTable, candidate>>

(* Mutant: the last key of the range is not tried. *)
LimitOneShort == TwoTo[rangeBits] - 1

(* bruteforce_fallback tries as many keys as the range has. *)
Limit == TwoTo[rangeBits]

(* The look at the clock at the top of either loop, when the time is up. *)
TimeIsUp ==
  /\ \/ pc = "tame"
     \/ pc = "fallback" /\ candidate < Limit
  /\ pc' = "expired"
  /\ UNCHANGED <<inputs, tame, wild, tameTable, wildTable, ops, candidate, result,
                 since, seen>>

(* bruteforce_fallback: one key of the range. *)
TryKey ==
  /\ pc = "fallback"
  /\ timeout # 0
  /\ candidate < Limit
  /\ IF (start + candidate) % N = pubkey
     THEN Finish(pubkey) /\ UNCHANGED candidate
     ELSE candidate' = candidate + 1 /\ UNCHANGED <<pc, result>>
  /\ UNCHANGED <<inputs, tame, wild, tameTable, wildTable, ops, since, seen>>

RangeExhausted ==
  /\ pc = "fallback"
  /\ candidate >= Limit
  /\ Finish(NoKey)
  /\ UNCHANGED <<inputs, tame, wild, tameTable, wildTable, ops, candidate, since, seen>>

Terminated == pc \in {"done", "expired"} /\ UNCHANGED vars

Released(log) == [log |-> log, dist |-> 0, cycle |-> 0, repeat |-> NoRepeat,
                  last |-> NoJump, cached |-> NoPoint]

(* solve() up to its loops: the tame kangaroo starts from the middle of the range,
   the wild one from the public key. *)
Begin ==
  /\ timeout \in {0, 1}
  /\ pc = IF rangeBits <= FallbackBits THEN "fallback" ELSE "tame"
  /\ tame = Released(Mid)
  /\ wild = Released(pubkey)
  /\ tameTable = << >>
  /\ wildTable = << >>
  /\ ops = 0
  /\ candidate = 0
  /\ result = NoKey
  /\ since = [side \in Side |-> 0]
  /\ seen = [side \in Side |-> {}]

(* A solver for any public key, range start and range size. *)
Init ==
  /\ pubkey \in Scalar
  /\ start \in Scalar
  /\ rangeBits \in RangeBits
  /\ Begin

Next == TameStep \/ WildStep \/ TimeIsUp \/ TryKey \/ RangeExhausted \/ Terminated

Spec == Init /\ [][Next]_vars

-----------------------------------------------------------------------------
TypeOK ==
  /\ pubkey \in Scalar
  /\ start \in Scalar
  /\ rangeBits \in Nat \ {0}
  /\ timeout \in {0, 1}
  /\ pc \in {"tame", "wild", "fallback", "done", "expired"}
  /\ tame \in Walker
  /\ wild \in Walker
  /\ IsTable(tameTable)
  /\ IsTable(wildTable)
  /\ ops \in JumpIndex
  /\ candidate \in Nat
  /\ result \in Scalar \cup {NoKey}
  /\ since \in [Side -> Nat]
  /\ seen \in [Side -> SUBSET AffineCoord]

(* The distance, under some sign of the origin, leads to a point with these low
   bits. *)
Leads(origin, dist, low) == \E s \in Sign : Low((s * origin + dist) % N) = low

(* Every entry of either table pairs the low bits of a point with a distance that
   leads to that point, whatever escapes and reflections came before: the cached
   coordinates a step looks at, the distance it stores and the point it leaves from
   are of one moment. *)
TablesNamePoints ==
  /\ \A low \in DOMAIN tameTable : Leads(Mid, tameTable[low], low)
  /\ \A low \in DOMAIN wildTable : Leads(pubkey, wildTable[low], low)

LowBitsTellPointsApart == \A x, y \in AffineCoord : XLow[x] = XLow[y] => x = y

(* Once both kangaroos have been at distinguished points with one x, in whichever
   order and with whatever reflections, the search has returned the key. *)
MeetingSolves ==
  LowBitsTellPointsApart /\ seen["tame"] \cap seen["wild"] # {} => result = pubkey

(* A kangaroo never walks more than CycleCap steps without an escape, so it leaves
   every cycle, one that holds a distinguished point too ("a cycle that happens to
   contain a distinguished point must still be detected"). *)
EscapesInTime == \A side \in Side : since[side] <= CycleCap

(* When the search key by key ends with nothing, and not for want of time, no key
   of the range is the one. *)
FallbackIsComplete ==
  pc = "done" /\ result = NoKey =>
    \A i \in 0 .. TwoTo[rangeBits] - 1 : pubkey # (start + i) % N
=============================================================================
