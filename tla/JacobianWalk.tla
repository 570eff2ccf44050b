----------------------------- MODULE JacobianWalk -----------------------------
(***************************************************************************)
(* The walk shader (src/shaders/kangaroo_jacobian.wgsl) and the normalize  *)
(* pass (src/shaders/normalize_dp.wgsl) on Jacobian coordinates, dispatch  *)
(* by dispatch.  The threads of a pass run in any order.  Seen on          *)
(* logarithms, the kangaroos behave as module Walk says.                   *)
(***************************************************************************)
EXTENDS Curve, FiniteSets, Sequences

CONSTANTS
  Kangaroos, Types, Jumps, JumpDistance, CycleCap, RepeatThreshold, Offsets,
  StartScalars, BufferSize, Reach,
  StepsPerCall,           \* steps_per_call
  LowBits,                \* values of the low bits of X that repeat_count keeps
  DpModulus,              \* 2^dp_bits
  JumpHash(_),            \* jump_index_from_x
  EscapeHash(_, _, _, _)  \* escape_index_from_state

(* The table holds no jump at infinity (affine_to_gpu panics on one), a hash is an
   index of the table, and repeat_count keeps some low bits of X. *)
ASSUME JacobianWalkAssumption ==
  /\ Types \subseteq [Kangaroos -> KType]
  /\ Jumps \in Nat \ {0, 1}
  /\ JumpDistance \in [0 .. Jumps - 1 -> {d \in Word : d % N # 0}]
  /\ CycleCap \in Nat
  /\ RepeatThreshold \in Nat
  /\ BufferSize \in Nat
  /\ Reach \in Nat
  /\ Reach < W
  /\ Offsets \subseteq -Reach .. Reach
  /\ StartScalars \subseteq Scalar
  /\ StepsPerCall \in Nat \ {0}
  /\ DpModulus \in Nat \ {0}
  /\ IsFiniteSet(LowBits)
  /\ LowBits # {}
  /\ LowBits = 0 .. Cardinality(LowBits) - 1
  /\ \A x \in Fe : JumpHash(x) \in 0 .. Jumps - 1
  /\ \A x \in Fe, k \in Kangaroos, cycle \in 0 .. CycleCap + 1, step \in 0 .. StepsPerCall - 1 :
       EscapeHash(x, k, cycle, step) \in 0 .. Jumps - 1

VARIABLES
  start, pubkey, kangaroo,
  normalize, \* whether the normalize pipeline could be built
  buffer,    \* the candidates in the DP buffer
  phase,     \* the pass the GPU is in
  thread,    \* steps the thread of a kangaroo has made in this pass, from -1
  path       \* history, as in Walk

vars == <<start, pubkey, normalize, kangaroo, buffer, phase, thread, path>>

Kangaroo ==
  [x : Fe, y : Fe, z : Fe, ktype : KType, dist : Word, cycle : 0 .. CycleCap + 1,
   repeat : [low : LowBits, count : 0 .. RepeatThreshold + 1],
   last : -1 .. Jumps - 1]

Candidate == [x : Fe, z : Fe, dist : Word, ktype : KType]

Point(g) == [x |-> g.x, y |-> g.y, z |-> g.z]

-----------------------------------------------------------------------------
(* What Walk sees. *)

(* is_distinguished_exact and is_dp_cpu on the affine x, is_distinguished_approx
   on the Jacobian X. *)
IsDistinguished(x) == x % DpModulus = 0

DistinguishedLogs == {AffineX(k) : k \in {l \in Scalar \ {0} : IsDistinguished(Points[l].x)}}

WithLog(g) ==
  [ktype |-> g.ktype, log |-> Log(Point(g)), dist |-> g.dist, cycle |-> g.cycle,
   repeat |-> g.repeat, last |-> g.last]

(* convert_candidates_to_dps: Z = 0 is dropped, the rest is checked exactly. *)
AffineXOf(c) == (c.x * FeInv(c.z) * FeInv(c.z)) % P

Verified(c) == c.z # 0 /\ IsDistinguished(AffineXOf(c))

Convert(c) ==
  [x |-> AffineX(CHOOSE k \in LogsOfX(AffineXOf(c)) : TRUE), dist |-> c.dist, ktype |-> c.ktype]

(* What the walk pass stores before a normalize pass is never read. *)
Readable == IF normalize /\ phase = "walk" THEN << >> ELSE buffer

Logs == INSTANCE Walk WITH
  kangaroo <- [k \in Kangaroos |-> WithLog(kangaroo[k])],
  reports <- {Convert(Readable[i]) : i \in {j \in DOMAIN Readable : Verified(Readable[j])}},
  Distinguished <- DistinguishedLogs

-----------------------------------------------------------------------------
(* store_dp_candidate *)
StoreCandidate(g) ==
  IF Len(buffer) < BufferSize
  THEN Append(buffer, [x |-> g.x, z |-> g.z, dist |-> g.dist, ktype |-> g.ktype])
  ELSE buffer

StoreIfDistinguished(g) == IF IsDistinguished(g.x) THEN StoreCandidate(g) ELSE buffer

(* Mutant: the point is moved as it is, without taking the even-y representative. *)
MoveUnreflected(g, idx) ==
  LET q == Points[JumpDistance[idx] % N]
      sum == JacAddAffine(Point(g), q)
  IN [g EXCEPT !.x = sum.x, !.y = sum.y, !.z = sum.z, !.dist = (@ + JumpDistance[idx]) % W]

(* The even-y representative plus the jump point; the distance follows. *)
Move(g, idx) ==
  LET q == Points[JumpDistance[idx] % N]
      sum == JacAddAffine(EvenY(Point(g)), q)
  IN [g EXCEPT !.x = sum.x, !.y = sum.y, !.z = sum.z,
               !.dist = ((IF IsOdd(Point(g)) THEN -@ ELSE @) + JumpDistance[idx]) % W]

HashedJump(k, g) ==
  IF Logs!InCycle(g) THEN EscapeHash(g.x, k, g.cycle, thread[k]) ELSE JumpHash(g.x)

LowBitsOf(x) == x % Cardinality(LowBits)

(* The kangaroo after one iteration of the loop over the steps of a dispatch. *)
Stepped(k, g) ==
  LET idx == Logs!JumpTaken(g, HashedJump(k, g))
      new == Move(Logs!Choose(g, idx), idx)
  IN Logs!Tally(new, LowBitsOf(new.x))

(* step_collect: the host has emptied the buffer and submits the next dispatch.
   (GpuPipeline models how the two overlap.) *)
Dispatch ==
  /\ phase = "idle"
  /\ buffer = << >>
  /\ phase' = "walk"
  /\ thread' = [k \in Kangaroos |-> -1]
  /\ UNCHANGED <<start, pubkey, normalize, kangaroo, buffer, path>>

(* The check before the first step. *)
Look(k) ==
  /\ phase = "walk"
  /\ thread[k] = -1
  /\ thread' = [thread EXCEPT ![k] = 0]
  /\ buffer' = StoreIfDistinguished(kangaroo[k])
  /\ UNCHANGED <<start, pubkey, normalize, kangaroo, phase, path>>

Step(k) ==
  LET g == kangaroo[k]
      idx == Logs!JumpTaken(g, HashedJump(k, g))
      new == Stepped(k, g)
      trace == Logs!Record(path[k], WithLog(g), JumpDistance[idx], IsOdd(Point(g)))
  IN /\ phase = "walk"
     /\ thread[k] \in 0 .. StepsPerCall - 1
     /\ trace.walked \in -Reach .. Reach
     /\ kangaroo' = [kangaroo EXCEPT ![k] = new]
     /\ path' = [path EXCEPT ![k] = trace]
     /\ thread' = [thread EXCEPT ![k] = @ + 1]
     /\ buffer' = StoreIfDistinguished(new)
     /\ UNCHANGED <<start, pubkey, normalize, phase>>

(* All threads are done: without a normalize pass the host may read; with one,
   the counter is cleared and the candidates so far are discarded. *)
EndWalkPass ==
  /\ phase = "walk"
  /\ \A k \in Kangaroos : thread[k] = StepsPerCall
  /\ IF normalize
     THEN phase' = "normalize" /\ buffer' = << >> /\ thread' = [k \in Kangaroos |-> -1]
     ELSE phase' = "idle" /\ UNCHANGED <<buffer, thread>>
  /\ UNCHANGED <<start, pubkey, normalize, kangaroo, path>>

(* Mutant: the exact check looks at the coordinates as they were loaded. *)
NormalizeThreadStale(k) ==
  LET a == Normalized(Point(kangaroo[k]))
  IN /\ phase = "normalize"
     /\ thread[k] = -1
     /\ thread' = [thread EXCEPT ![k] = 0]
     /\ kangaroo' = [kangaroo EXCEPT ![k].x = a.x, ![k].y = a.y, ![k].z = 1]
     /\ buffer' = StoreIfDistinguished(kangaroo[k])
     /\ UNCHANGED <<start, pubkey, normalize, phase, path>>

(* normalize_main *)
NormalizeThread(k) ==
  LET a == Normalized(Point(kangaroo[k]))
      new == [kangaroo[k] EXCEPT !.x = a.x, !.y = a.y, !.z = 1]
  IN /\ phase = "normalize"
     /\ thread[k] = -1
     /\ thread' = [thread EXCEPT ![k] = 0]
     /\ kangaroo' = [kangaroo EXCEPT ![k] = new]
     /\ buffer' = StoreIfDistinguished(new)
     /\ UNCHANGED <<start, pubkey, normalize, phase, path>>

EndNormalizePass ==
  /\ phase = "normalize"
  /\ \A k \in Kangaroos : thread[k] = 0
  /\ phase' = "idle"
  /\ UNCHANGED <<start, pubkey, normalize, kangaroo, buffer, thread, path>>

(* The host reads the next candidate. *)
Collect ==
  /\ phase = "idle"
  /\ buffer # << >>
  /\ buffer' = Tail(buffer)
  /\ UNCHANGED <<start, pubkey, normalize, kangaroo, phase, thread, path>>

-----------------------------------------------------------------------------
(* initialize_kangaroos: Z = 1; the search does not start with a kangaroo at the
   point at infinity. *)
Placed(ktype, offset) ==
  LET p == Points[(OriginOf(ktype, start, pubkey) + offset) % N]
  IN [x |-> p.x, y |-> p.y, z |-> 1, ktype |-> ktype, dist |-> offset % W,
      cycle |-> 0, repeat |-> Logs!NoRepeat, last |-> Logs!NoJump]

Init ==
  /\ start \in StartScalars
  /\ pubkey \in Scalar
  /\ \E ktype \in Types, offset \in [Kangaroos -> Offsets] :
       /\ \A k \in Kangaroos : ktype[k] = Tame => offset[k] >= 0
       /\ kangaroo = [k \in Kangaroos |-> Placed(ktype[k], offset[k])]
       /\ \A k \in Kangaroos : OnCurve(Point(kangaroo[k]))
       /\ path = [k \in Kangaroos |->
                    [sign |-> 1, walked |-> offset[k], turned |-> FALSE,
                     from |-> 0, twoBack |-> -1]]
  /\ normalize \in BOOLEAN
  /\ buffer = << >>
  /\ phase = "idle"
  /\ thread = [k \in Kangaroos |-> -1]

(* As long as no kangaroo has met the point at infinity: jac_add_affine has no case
   for it, and what it and the normalize pass make of it is no point of the curve. *)
Next ==
  /\ \A k \in Kangaroos : OnCurve(Point(kangaroo[k]))
  /\ \/ Dispatch \/ EndWalkPass \/ EndNormalizePass \/ Collect
     \/ \E k \in Kangaroos : Look(k) \/ Step(k) \/ NormalizeThread(k)

Spec == Init /\ [][Next]_vars

-----------------------------------------------------------------------------
(* The formulas, the parity of the Jacobian Y, the distance words, the passes and
   the exact check of the host do to points what Walk does to logarithms; from this
   follows all that is shown of Walk. *)
ImplementsWalk == Logs!Spec

(* Two kangaroos that stand at one affine x when a dispatch begins, with the same
   last jump and neither about to escape, go on together: after a step each of them
   is at one point, in one representation, and has the same last jump. *)
MergedWalksStayMerged ==
  \A j, k \in Kangaroos :
    LET g == kangaroo[j]
        h == kangaroo[k]
    IN ( /\ g.z = 1 /\ h.z = 1 /\ g.x = h.x /\ g.last = h.last
         /\ ~Logs!InCycle(g) /\ ~Logs!InCycle(h) )
       => /\ Point(Stepped(j, g)) = Point(Stepped(k, h))
          /\ Stepped(j, g).last = Stepped(k, h).last

Reported(k) == Logs!Report(WithLog(kangaroo[k]), WithLog(kangaroo[k]))

(* No kangaroo leaves a normalize pass on a distinguished point unreported, unless
   the buffer is full. *)
NormalizePassReports ==
  [][EndNormalizePass =>
       \A k \in Kangaroos :
         \/ ~IsDistinguished(kangaroo[k].x)
         \/ Len(buffer) = BufferSize
         \/ \E i \in DOMAIN buffer :
              Verified(buffer[i]) /\ Convert(buffer[i]) = Reported(k)]_vars

=============================================================================
