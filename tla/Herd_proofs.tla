----------------------------- MODULE Herd_proofs -----------------------------
(***************************************************************************)
(* The walk, for every group order, word size, jump table, cap and number  *)
(* of kangaroos: distances name points, reports name their x, and two      *)
(* reflected steps never undo each other.  Then walks and table together:  *)
(* the points that the walks report are the points that DPTable assumes,   *)
(* so the table that the walks feed misses no meeting.                     *)
(***************************************************************************)
EXTENDS Herd, KangarooAlgebra_proofs, FiniteSetTheorems, SequenceTheorems

-----------------------------------------------------------------------------
(* The inductive invariant. *)

(* The point is where the history says, and the distance is the way there. *)
OnPath(k) ==
  /\ kangaroo[k].log =
       (path[k].sign * OriginOf(kangaroo[k].ktype, start, pubkey) + path[k].walked) % N
  /\ kangaroo[k].dist = path[k].walked % W

(* After a reflected step that was no escape, last_jump is the jump it took. *)
Turned(k) ==
  path[k].turned =>
    /\ kangaroo[k].last \in JumpIndex
    /\ kangaroo[k].log = (-path[k].from + JumpDistance[kangaroo[k].last]) % N

IInv ==
  /\ TypeOK
  /\ \A k \in Kangaroos : OnPath(k) /\ Turned(k)
  /\ \A dp \in reports : Genuine(dp)
  /\ NoFruitlessPair

-----------------------------------------------------------------------------
LEMMA OriginType ==
  ASSUME NEW s \in Scalar, NEW p \in Scalar, NEW t
  PROVE  OriginOf(t, s, p) \in Int
  BY ModuliAssumption DEF OriginOf, Scalar

LEMMA AffineXType ==
  ASSUME NEW p \in Scalar, p # 0
  PROVE  AffineX(p) \in XCoord
  BY ModuliAssumption DEF Scalar, AffineX, XCoord

LEMMA WordMod ==
  ASSUME NEW a \in Int
  PROVE  a % W \in Word
  BY ModuliAssumption DEF Word

(* What a step makes of a kangaroo. *)
LEMMA StepFields ==
  ASSUME NEW g \in Kangaroo, NEW idx \in JumpIndex, NEW jump \in Word,
         NEW odd \in BOOLEAN, NEW low \in LowBits,
         NEW new, new = Tally(Move(Choose(g, idx), jump, odd), low)
  PROVE  /\ new \in Kangaroo
         /\ new.ktype = g.ktype
         /\ new.log = IF odd THEN (-g.log + jump) % N ELSE (g.log + jump) % N
         /\ new.dist = IF odd THEN (-g.dist + jump) % W ELSE (g.dist + jump) % W
         /\ ~InCycle(g) => new.last = idx
<1> DEFINE c == Choose(g, idx)
           v == Move(c, jump, odd)
<1>1. /\ c \in Kangaroo
      /\ c.ktype = g.ktype /\ c.log = g.log /\ c.dist = g.dist
      /\ c.cycle \in 0 .. CycleCap
      /\ c.repeat.count \in 0 .. RepeatThreshold
      /\ ~InCycle(g) => c.last = idx
  <2>1. CASE InCycle(g)
    <3>1. c = [g EXCEPT !.cycle = 0, !.repeat = NoRepeat]
      BY <2>1 DEF Choose
    <3>2. 0 \in 0 .. CycleCap /\ 0 \in 0 .. CycleCap + 1 /\ 0 \in 0 .. RepeatThreshold
      BY WalkAssumption
    <3>3. /\ NoRepeat \in [low : LowBits, count : 0 .. RepeatThreshold + 1]
          /\ NoRepeat.count = 0
      BY WalkAssumption DEF NoRepeat
    <3> HIDE DEF c
    <3> QED
      BY <2>1, <3>1, <3>2, <3>3 DEF Kangaroo
  <2>2. CASE ~InCycle(g)
    <3>1. c = [g EXCEPT !.last = idx]
      BY <2>2 DEF Choose
    <3>2. g.cycle \in 0 .. CycleCap /\ g.repeat.count \in 0 .. RepeatThreshold
      BY <2>2, WalkAssumption DEF InCycle, Kangaroo
    <3> HIDE DEF c
    <3> QED
      BY <3>1, <3>2 DEF Kangaroo
  <2> QED
    BY <2>1, <2>2
<1>2. g.log \in Int /\ g.dist \in Int /\ jump \in Int
  BY ModuliAssumption DEF Kangaroo, Scalar, Word
<1> HIDE DEF c
<1>3. /\ ((IF odd THEN -g.log ELSE g.log) + jump) % N \in Scalar
      /\ ((IF odd THEN -g.dist ELSE g.dist) + jump) % W \in Word
  BY <1>2, ModuliAssumption DEF Scalar, Word
<1>4. v = [c EXCEPT !.log = ((IF odd THEN -g.log ELSE g.log) + jump) % N,
                    !.dist = ((IF odd THEN -g.dist ELSE g.dist) + jump) % W]
  BY <1>1 DEF Move
<1> HIDE DEF v
<1>5. /\ v \in Kangaroo
      /\ v.ktype = g.ktype /\ v.cycle = c.cycle /\ v.repeat = c.repeat /\ v.last = c.last
      /\ v.log = ((IF odd THEN -g.log ELSE g.log) + jump) % N
      /\ v.dist = ((IF odd THEN -g.dist ELSE g.dist) + jump) % W
  BY <1>1, <1>3, <1>4 DEF Kangaroo
<1> DEFINE n == IF low = v.repeat.low THEN v.repeat.count + 1 ELSE 1
<1>6. new = [v EXCEPT !.cycle = v.cycle + 1, !.repeat = [low |-> low, count |-> n]]
  BY DEF Tally, v, c
<1>7. v.cycle + 1 \in 0 .. CycleCap + 1 /\ n \in 0 .. RepeatThreshold + 1
  BY <1>1, <1>5, WalkAssumption
<1> HIDE DEF n
<1>8. new \in Kangaroo /\ new.ktype = v.ktype /\ new.log = v.log /\ new.dist = v.dist
      /\ new.last = v.last
  <2> DEFINE r == [low |-> low, count |-> n]
  <2>1. r \in [low : LowBits, count : 0 .. RepeatThreshold + 1]
    BY <1>7
  <2> HIDE DEF r
  <2>2. new = [v EXCEPT !.cycle = v.cycle + 1, !.repeat = r]
    BY <1>6 DEF r
  <2> QED
    BY <1>5, <1>7, <2>1, <2>2 DEF Kangaroo
<1> QED
  BY <1>1, <1>5, <1>8

-----------------------------------------------------------------------------
(* Where a step leads, in history. *)
LEMMA StepTrace ==
  ASSUME NEW p \in Path, NEW g \in Kangaroo, NEW jump \in Word, NEW odd \in BOOLEAN,
         NEW t, t = Record(p, g, jump, odd), t.walked \in -Reach .. Reach
  PROVE  /\ t \in Path
         /\ t.sign = (IF odd THEN -p.sign ELSE p.sign)
         /\ t.walked = (IF odd THEN -p.walked ELSE p.walked) + jump
         /\ t.turned = (odd /\ ~InCycle(g))
         /\ t.from = IF odd /\ ~InCycle(g) THEN g.log ELSE 0
         /\ t.twoBack = IF odd /\ ~InCycle(g) /\ p.turned THEN p.from ELSE -1
<1>1. /\ t.sign = (IF odd THEN -p.sign ELSE p.sign)
      /\ t.walked = (IF odd THEN -p.walked ELSE p.walked) + jump
      /\ t.turned = (odd /\ ~InCycle(g))
      /\ t.from = IF odd /\ ~InCycle(g) THEN g.log ELSE 0
      /\ t.twoBack = IF odd /\ ~InCycle(g) /\ p.turned THEN p.from ELSE -1
  BY DEF Record
<1>2. t = [sign |-> t.sign, walked |-> t.walked, turned |-> t.turned, from |-> t.from,
           twoBack |-> t.twoBack]
  BY DEF Record
<1>3. t.sign \in Sign
  BY <1>1 DEF Path, Sign
<1>4. t.from \in Scalar /\ t.twoBack \in Scalar \cup {-1}
  BY <1>1, ModuliAssumption DEF Path, Kangaroo, Scalar
<1>5. t.turned \in BOOLEAN
  BY <1>1
<1> QED
  BY <1>1, <1>2, <1>3, <1>4, <1>5 DEF Path

(* The new point and the new distance are those of the new history. *)
LEMMA StepOnPath ==
  ASSUME NEW o \in Int, NEW s \in Sign, NEW w \in Int, NEW jump \in Word
  PROVE  /\ (((s * o + w) % N) + jump) % N = (s * o + (w + jump)) % N
         /\ (-((s * o + w) % N) + jump) % N = ((-s) * o + (-w + jump)) % N
         /\ ((w % W) + jump) % W = (w + jump) % W
         /\ (-(w % W) + jump) % W = (-w + jump) % W
<1>1. jump \in Int /\ N \in Nat /\ N > 0 /\ W \in Nat /\ W > 0
  BY ModuliAssumption DEF Word
<1> DEFINE a == s * o + w
<1>2. /\ a \in Int
      /\ a + jump = s * o + (w + jump)
      /\ -a + jump = (-s) * o + (-w + jump)
  BY <1>1 DEF Sign
<1> HIDE DEF a
<1>3. ((a % N) + jump) % N = (a + jump) % N /\ (-(a % N) + jump) % N = (-a + jump) % N
  BY <1>1, <1>2, ReduceFirst
<1>4. ((w % W) + jump) % W = (w + jump) % W /\ (-(w % W) + jump) % W = (-w + jump) % W
  BY <1>1, ReduceFirst
<1> QED
  BY <1>2, <1>3, <1>4 DEF a

LEMMA JumpTakenType ==
  ASSUME NEW g \in Kangaroo, NEW hash \in JumpIndex
  PROVE  /\ JumpTaken(g, hash) \in JumpIndex
         /\ ~InCycle(g) => JumpTaken(g, hash) # g.last
<1>1. /\ Jumps \in Nat /\ Jumps > 1
      /\ hash \in Nat /\ hash < Jumps
  BY WalkAssumption DEF JumpIndex
<1>2. (hash + 1) % Jumps \in JumpIndex
  BY <1>1 DEF JumpIndex
<1>3. (hash + 1) % Jumps # hash
  BY <1>1
<1> QED
  BY <1>2, <1>3 DEF JumpTaken

(* Two reflections by different jumps do not lead back: the first takes from to
   a - from, the second to b - a + from. *)
LEMMA PairMoves ==
  ASSUME NEW from \in Scalar, NEW a \in Int, NEW b \in Int, a % N # b % N
  PROVE  (-((-from + a) % N) + b) % N # from
<1> DEFINE c == -from + a
           d == from + (b - a)
<1>1. /\ N \in Nat /\ N > 0 /\ from \in Int
      /\ c \in Int /\ d \in Int /\ -c + b = d /\ b - a \in Int /\ d = from + (b - a)
  BY ModuliAssumption DEF Scalar
<1> HIDE DEF c, d
<1>2. (-(c % N) + b) % N = d % N
  <2>1. (-(c % N) + b) % N = (-c + b) % N
    BY <1>1, ReduceFirst
  <2> QED
    BY <1>1, <2>1
<1>3. ASSUME d % N = from
      PROVE  FALSE
  <2>1. d % N = from % N
    BY <1>3, ModOfSmall
  <2>2. PICK z \in Int : d = from + N * z
    BY <1>1, <2>1, SameModDiffer
  <2>3. b = a + N * z
    BY <1>1, <2>2
  <2> QED
    BY <2>3, ModAddMultiple
<1> QED
  BY <1>2, <1>3 DEF c

-----------------------------------------------------------------------------
LEMMA InitInv == Init => IInv
<1> SUFFICES ASSUME Init
             PROVE  IInv
  OBVIOUS
<1>1. start \in Scalar /\ pubkey \in Scalar /\ reports = {}
  BY ProblemAssumption DEF Init
<1>2. PICK ktype \in Types, offset \in [Kangaroos -> Offsets] :
        /\ kangaroo = [k \in Kangaroos |-> Placed(ktype[k], offset[k])]
        /\ path = [k \in Kangaroos |->
                     [sign |-> 1, walked |-> offset[k], turned |-> FALSE,
                      from |-> 0, twoBack |-> -1]]
  BY DEF Init
<1>3. ASSUME NEW k \in Kangaroos
      PROVE  /\ kangaroo[k] \in Kangaroo /\ path[k] \in Path
             /\ OnPath(k) /\ Turned(k)
             /\ kangaroo[k].log # path[k].twoBack
  <2> DEFINE o == OriginOf(ktype[k], start, pubkey)
             w == offset[k]
  <2>1. /\ w \in -Reach .. Reach /\ w \in Int
        /\ ktype[k] \in KType
    <3>1. offset[k] \in Offsets /\ ktype[k] \in KType
      BY <1>2, <1>3, WalkAssumption
    <3>2. -Reach .. Reach \subseteq Int
      BY WalkAssumption
    <3> QED
      BY <3>1, <3>2, WalkAssumption
  <2>2. o \in Int
    BY <1>1, OriginType
  <2>3. /\ kangaroo[k] = [ktype |-> ktype[k], log |-> (o + w) % N, dist |-> w % W,
                          cycle |-> 0, repeat |-> NoRepeat, last |-> NoJump]
        /\ path[k] = [sign |-> 1, walked |-> w, turned |-> FALSE, from |-> 0, twoBack |-> -1]
    BY <1>2, <1>3 DEF Placed
  <2> HIDE DEF o, w
  <2>4. (o + w) % N \in Scalar /\ w % W \in Word
    BY <2>1, <2>2, ModuliAssumption DEF Scalar, Word
  <2>5. /\ NoRepeat \in [low : LowBits, count : 0 .. RepeatThreshold + 1]
        /\ 0 \in 0 .. CycleCap + 1
    BY WalkAssumption DEF NoRepeat
  <2>6. kangaroo[k] \in Kangaroo
    BY <2>1, <2>3, <2>4, <2>5 DEF Kangaroo
  <2>7. path[k] \in Path
    BY <2>1, <2>3, ModuliAssumption DEF Path, Sign, Scalar
  <2>8. OnPath(k)
    <3>1. 1 * o = o
      BY <2>2
    <3> QED
      BY <2>3, <3>1 DEF OnPath, o, w
  <2>9. kangaroo[k].log # path[k].twoBack
    BY <2>3, <2>4, ModuliAssumption DEF Scalar
  <2> QED
    BY <2>3, <2>6, <2>7, <2>8, <2>9 DEF Turned
<1>4. kangaroo \in [Kangaroos -> Kangaroo] /\ path \in [Kangaroos -> Path]
  BY <1>2, <1>3
<1> QED
  BY <1>1, <1>3, <1>4 DEF IInv, TypeOK, NoFruitlessPair

(* What a report of a kangaroo on its path says. *)
LEMMA ReportGenuine ==
  ASSUME start \in Scalar, pubkey \in Scalar,
         NEW g \in Kangaroo, NEW old, NEW s \in Sign, NEW w \in -Reach .. Reach,
         g.log = (s * OriginOf(g.ktype, start, pubkey) + w) % N, g.dist = w % W,
         IsDistinguished(g)
  PROVE  Report(old, g) \in DistinguishedPoint /\ Genuine(Report(old, g))
<1>1. g.log \in Scalar /\ g.log # 0 /\ g.dist \in Word /\ g.ktype \in KType
  BY DEF IsDistinguished, Kangaroo
<1>2. Report(old, g) = [x |-> AffineX(g.log), dist |-> g.dist, ktype |-> g.ktype]
  BY DEF Report
<1>3. AffineX(g.log) \in XCoord
  BY <1>1, AffineXType
<1>4. Report(old, g) \in DistinguishedPoint
  BY <1>1, <1>2, <1>3 DEF DistinguishedPoint
<1> QED
  BY <1>1, <1>2, <1>4 DEF Genuine, Reports, Position, Origin

(* Reports depend on the two origins only. *)
LEMMA GenuineStays ==
  ASSUME UNCHANGED <<start, pubkey>>, NEW dp, Genuine(dp)
  PROVE  Genuine(dp)'
  BY DEF Genuine, Reports, Position, Origin, OriginOf

LEMMA StepInv ==
  ASSUME IInv, NEW k \in Kangaroos, Step(k)
  PROVE  IInv'
<1> DEFINE g == kangaroo[k]
           p == path[k]
<1>1. PICK hash \in JumpIndex, odd \in BOOLEAN, low \in LowBits :
        LET idx == JumpTaken(g, hash)
            jump == JumpDistance[idx]
            new == Tally(Move(Choose(g, idx), jump, odd), low)
            trace == Record(p, g, jump, odd)
        IN /\ trace.walked \in -Reach .. Reach
           /\ kangaroo' = [kangaroo EXCEPT ![k] = new]
           /\ path' = [path EXCEPT ![k] = trace]
           /\ \/ UNCHANGED reports
              \/ /\ IsDistinguished(new)
                 /\ reports' = reports \cup {Report(g, new)}
           /\ UNCHANGED <<start, pubkey>>
  BY DEF Step
<1> DEFINE idx == JumpTaken(g, hash)
           jump == JumpDistance[idx]
           new == Tally(Move(Choose(g, idx), jump, odd), low)
           t == Record(p, g, jump, odd)
           o == OriginOf(g.ktype, start, pubkey)
<1>2. /\ t.walked \in -Reach .. Reach
      /\ kangaroo' = [kangaroo EXCEPT ![k] = new]
      /\ path' = [path EXCEPT ![k] = t]
      /\ UNCHANGED reports \/ (IsDistinguished(new) /\ reports' = reports \cup {Report(g, new)})
      /\ start' = start /\ pubkey' = pubkey
  BY <1>1
<1>3. /\ start \in Scalar /\ pubkey \in Scalar
      /\ kangaroo \in [Kangaroos -> Kangaroo] /\ path \in [Kangaroos -> Path]
      /\ g \in Kangaroo /\ p \in Path
  BY DEF IInv, TypeOK
<1>4. /\ g.log = (p.sign * o + p.walked) % N
      /\ g.dist = p.walked % W
      /\ p.turned => /\ g.last \in JumpIndex
                     /\ g.log = (-p.from + JumpDistance[g.last]) % N
  BY DEF IInv, OnPath, Turned
<1>5. idx \in JumpIndex /\ (~InCycle(g) => idx # g.last)
  BY <1>3, JumpTakenType
<1>6. jump \in Word /\ o \in Int
  BY <1>3, <1>5, WalkAssumption, OriginType
<1>7. new = Tally(Move(Choose(g, idx), jump, odd), low) /\ t = Record(p, g, jump, odd)
      /\ jump = JumpDistance[idx]
  OBVIOUS
<1> HIDE DEF g, p, idx, jump, new, t, o
<1>8. /\ new \in Kangaroo
      /\ new.ktype = g.ktype
      /\ new.log = IF odd THEN (-g.log + jump) % N ELSE (g.log + jump) % N
      /\ new.dist = IF odd THEN (-g.dist + jump) % W ELSE (g.dist + jump) % W
      /\ ~InCycle(g) => new.last = idx
  BY <1>3, <1>5, <1>6, <1>7, StepFields
<1>9. /\ t \in Path
      /\ t.sign = (IF odd THEN -p.sign ELSE p.sign)
      /\ t.walked = (IF odd THEN -p.walked ELSE p.walked) + jump
      /\ t.turned = (odd /\ ~InCycle(g))
      /\ t.from = IF odd /\ ~InCycle(g) THEN g.log ELSE 0
      /\ t.twoBack = IF odd /\ ~InCycle(g) /\ p.turned THEN p.from ELSE -1
  BY <1>2, <1>3, <1>6, <1>7, StepTrace
<1>10. /\ kangaroo' \in [Kangaroos -> Kangaroo] /\ path' \in [Kangaroos -> Path]
       /\ kangaroo'[k] = new /\ path'[k] = t
       /\ \A j \in Kangaroos \ {k} : kangaroo'[j] = kangaroo[j] /\ path'[j] = path[j]
  BY <1>2, <1>3, <1>8, <1>9
<1>11. new.log = (t.sign * o + t.walked) % N /\ new.dist = t.walked % W
  <2>1. p.sign \in Sign /\ p.walked \in Int
    BY <1>3, WalkAssumption DEF Path
  <2> DEFINE sign == p.sign
             walked == p.walked
  <2> HIDE DEF sign, walked
  <2>2. /\ (((sign * o + walked) % N) + jump) % N = (sign * o + (walked + jump)) % N
        /\ (-((sign * o + walked) % N) + jump) % N = ((-sign) * o + (-walked + jump)) % N
        /\ ((walked % W) + jump) % W = (walked + jump) % W
        /\ (-(walked % W) + jump) % W = (-walked + jump) % W
    <3>1. sign \in Sign /\ walked \in Int
      BY <2>1 DEF sign, walked
    <3> QED
      BY <1>6, <3>1, StepOnPath, Zenon
  <2>3. /\ (g.log + jump) % N = (p.sign * o + (p.walked + jump)) % N
        /\ (-g.log + jump) % N = ((-p.sign) * o + (-p.walked + jump)) % N
        /\ (g.dist + jump) % W = (p.walked + jump) % W
        /\ (-g.dist + jump) % W = (-p.walked + jump) % W
    BY <1>4, <2>2 DEF sign, walked
  <2>4. CASE odd
    BY <1>8, <1>9, <2>3, <2>4
  <2>5. CASE ~odd
    BY <1>8, <1>9, <2>3, <2>5
  <2> QED
    BY <2>4, <2>5
<1>12. t.turned => /\ new.last \in JumpIndex
                   /\ new.log = (-t.from + JumpDistance[new.last]) % N
  BY <1>5, <1>7, <1>8, <1>9
<1>13. DistinctJumps => new.log # t.twoBack
  <2> SUFFICES ASSUME DistinctJumps
               PROVE  new.log # t.twoBack
    OBVIOUS
  <2>1. CASE odd /\ ~InCycle(g) /\ p.turned
    <3> DEFINE a == JumpDistance[g.last]
    <3>1. g.last \in JumpIndex /\ g.log = (-p.from + a) % N
      BY <1>4, <2>1
    <3>2. a % N # jump % N
      BY <1>5, <1>7, <2>1, <3>1 DEF DistinctJumps
    <3>3. a \in Int /\ jump \in Int /\ p.from \in Scalar
      BY <1>3, <1>6, <3>1, WalkAssumption DEF Word, Path
    <3> HIDE DEF a
    <3>4. (-g.log + jump) % N # p.from
      BY <3>1, <3>2, <3>3, PairMoves
    <3> QED
      BY <1>8, <1>9, <2>1, <3>4
  <2>2. CASE ~(odd /\ ~InCycle(g) /\ p.turned)
    <3>1. t.twoBack = -1
      BY <1>9, <2>2
    <3>2. new.log \in Scalar
      BY <1>8 DEF Kangaroo
    <3> QED
      BY <3>1, <3>2, ModuliAssumption DEF Scalar
  <2> QED
    BY <2>1, <2>2
<1>14. \A j \in Kangaroos : OnPath(j)'
  <2> SUFFICES ASSUME NEW j \in Kangaroos
               PROVE  OnPath(j)'
    OBVIOUS
  <2>1. CASE j = k
    <3>1. OriginOf(kangaroo'[j].ktype, start', pubkey') = o
      BY <1>2, <1>8, <1>10, <2>1 DEF o
    <3> QED
      BY <1>10, <1>11, <2>1, <3>1 DEF OnPath
  <2>2. CASE j # k
    BY <1>2, <1>10, <2>2 DEF IInv, OnPath
  <2> QED
    BY <2>1, <2>2
<1>15. \A j \in Kangaroos : Turned(j)'
  <2> SUFFICES ASSUME NEW j \in Kangaroos
               PROVE  Turned(j)'
    OBVIOUS
  <2>1. CASE j = k
    BY <1>10, <1>12, <2>1 DEF Turned
  <2>2. CASE j # k
    BY <1>10, <2>2 DEF IInv, Turned
  <2> QED
    BY <2>1, <2>2
<1>16. NoFruitlessPair'
  BY <1>10, <1>13 DEF IInv, NoFruitlessPair, DistinctJumps
<1>17. IsDistinguished(new) => Report(g, new) \in DistinguishedPoint /\ Genuine(Report(g, new))
  <2>1. new.log = (t.sign * OriginOf(new.ktype, start, pubkey) + t.walked) % N
    BY <1>8, <1>11 DEF o
  <2>2. t.sign \in Sign /\ t.walked \in -Reach .. Reach
    BY <1>9 DEF Path
  <2> QED
    BY <1>3, <1>8, <1>11, <2>1, <2>2, ReportGenuine
<1>18. reports' \in SUBSET DistinguishedPoint /\ \A dp \in reports' : Genuine(dp)
  BY <1>2, <1>17 DEF IInv, TypeOK
<1>19. \A dp \in reports' : Genuine(dp)'
  BY <1>2, <1>18, GenuineStays
<1>20. TypeOK'
  BY <1>2, <1>3, <1>10, <1>18 DEF TypeOK
<1> QED
  BY <1>14, <1>15, <1>16, <1>19, <1>20 DEF IInv

(* A step that leaves kangaroos and history alone and adds only genuine reports. *)
LEMMA SameWalkInv ==
  ASSUME IInv, UNCHANGED <<start, pubkey, kangaroo, path>>,
         \A dp \in reports' : dp \in DistinguishedPoint /\ Genuine(dp)
  PROVE  IInv'
<1>1. TypeOK'
  BY DEF IInv, TypeOK
<1>2. \A k \in Kangaroos : OnPath(k)' /\ Turned(k)'
  BY DEF IInv, OnPath, Turned, OriginOf
<1>3. \A dp \in reports' : Genuine(dp)'
  BY GenuineStays
<1>4. NoFruitlessPair'
  BY DEF IInv, NoFruitlessPair, DistinctJumps
<1> QED
  BY <1>1, <1>2, <1>3, <1>4 DEF IInv

LEMMA LookInv ==
  ASSUME IInv, NEW k \in Kangaroos, Look(k)
  PROVE  IInv'
<1> DEFINE g == kangaroo[k]
<1>1. /\ IsDistinguished(g) /\ reports' = reports \cup {Report(g, g)}
      /\ UNCHANGED <<start, pubkey, kangaroo, path>>
  BY DEF Look
<1>2. /\ g \in Kangaroo /\ path[k].sign \in Sign /\ path[k].walked \in -Reach .. Reach
      /\ start \in Scalar /\ pubkey \in Scalar
  BY DEF IInv, TypeOK, Path
<1>3. /\ g.log = (path[k].sign * OriginOf(g.ktype, start, pubkey) + path[k].walked) % N
      /\ g.dist = path[k].walked % W
  BY DEF IInv, OnPath
<1> HIDE DEF g
<1>4. Report(g, g) \in DistinguishedPoint /\ Genuine(Report(g, g))
  BY <1>1, <1>2, <1>3, ReportGenuine
<1>5. \A dp \in reports' : dp \in DistinguishedPoint /\ Genuine(dp)
  BY <1>1, <1>4 DEF IInv, TypeOK
<1> QED
  BY <1>1, <1>5, SameWalkInv

LEMMA CollectInv ==
  ASSUME IInv, NEW dp, Collect(dp)
  PROVE  IInv'
<1>1. \A d \in reports' : d \in DistinguishedPoint /\ Genuine(d)
  BY DEF Collect, IInv, TypeOK
<1> QED
  BY <1>1, SameWalkInv DEF Collect

LEMMA NextInv == IInv /\ [Next]_walkVars => IInv'
<1> SUFFICES ASSUME IInv, [Next]_walkVars
             PROVE  IInv'
  OBVIOUS
<1>1. ASSUME NEW k \in Kangaroos, Step(k)
      PROVE  IInv'
  BY <1>1, StepInv
<1>2. ASSUME NEW k \in Kangaroos, Look(k)
      PROVE  IInv'
  BY <1>2, LookInv
<1>3. ASSUME NEW dp \in reports, Collect(dp)
      PROVE  IInv'
  BY <1>3, CollectInv
<1>4. ASSUME UNCHANGED walkVars
      PROVE  IInv'
  <2>1. UNCHANGED <<start, pubkey, kangaroo, path>> /\ reports' = reports
    BY <1>4 DEF walkVars
  <2>2. \A dp \in reports' : dp \in DistinguishedPoint /\ Genuine(dp)
    BY <2>1 DEF IInv, TypeOK
  <2> QED
    BY <2>1, <2>2, SameWalkInv
<1> QED
  BY <1>1, <1>2, <1>3, <1>4 DEF Next

THEOREM Invariance == Spec => []IInv
<1>1. Init => IInv
  BY InitInv
<1>2. IInv /\ [Next]_walkVars => IInv'
  BY NextInv
<1> QED
  BY <1>1, <1>2, PTL DEF Spec

-----------------------------------------------------------------------------
(* The way of a bounded walk is one of the readings of its distance word. *)
LEMMA WayIsRead ==
  ASSUME NEW s \in Sign, NEW o \in Int, NEW w \in -Reach .. Reach
  PROVE  /\ w % N \in DistanceScalarPair(w % W)
         /\ (s * o + w) % N = (s * o + (w % N)) % N
<1>1. w \in Int /\ -W < w /\ w < W
  BY ProblemAssumption, ModuliAssumption
<1> DEFINE a == s * o
<1>2. a \in Int /\ N \in Nat /\ N > 0
  BY ModuliAssumption DEF Sign
<1> HIDE DEF a
<1>3. ((w % N) + a) % N = (w + a) % N
  BY <1>1, <1>2, ReduceFirst
<1>4. w + a = a + w /\ (w % N) + a = a + (w % N)
  BY <1>1, <1>2, ModuliAssumption
<1> QED
  BY <1>1, <1>3, <1>4, DistanceIsRead DEF a

(* The types of the walk's state: the cycle counter and the repeat count stay
   within one of their thresholds. *)
THEOREM TypeCorrect == Spec => []TypeOK
<1>1. IInv => TypeOK
  BY DEF IInv
<1> QED
  BY <1>1, Invariance, PTL

(* One of the readings of a kangaroo's distance leads to its point, after any
   number of reflections, escapes and wrap-arounds. *)
THEOREM DistancesAreRight == Spec => []DistanceNamesPoint
<1>1. IInv => DistanceNamesPoint
  <2> SUFFICES ASSUME IInv, NEW k \in Kangaroos
               PROVE  Names(kangaroo[k].dist, kangaroo[k].ktype, kangaroo[k].log)
    BY DEF DistanceNamesPoint
  <2> DEFINE s == path[k].sign
             w == path[k].walked
             o == OriginOf(kangaroo[k].ktype, start, pubkey)
  <2>1. s \in Sign /\ w \in -Reach .. Reach /\ o \in Int
    BY OriginType DEF IInv, TypeOK, Path
  <2>2. kangaroo[k].log = (s * o + w) % N /\ kangaroo[k].dist = w % W
    BY DEF IInv, OnPath
  <2> HIDE DEF s, w
  <2> QED
    BY <2>1, <2>2, WayIsRead DEF Names
<1> QED
  BY <1>1, Invariance, PTL

(* The distance in a report leads to a point with the reported x. *)
THEOREM ReportsAreRight == Spec => []ReportsNamePoint
<1>1. IInv => ReportsNamePoint
  <2> SUFFICES ASSUME IInv, NEW dp \in reports
               PROVE  \E p \in Scalar \ {0} : AffineX(p) = dp.x /\ Names(dp.dist, dp.ktype, p)
    BY DEF ReportsNamePoint
  <2> DEFINE o == OriginOf(dp.ktype, start, pubkey)
  <2>1. PICK s \in Sign, w \in -Reach .. Reach :
          dp.dist = w % W /\ (s * o + w) % N # 0 /\ dp.x = AffineX((s * o + w) % N)
    BY DEF IInv, Genuine, Reports, Position, Origin
  <2>2. o \in Int
    BY OriginType DEF IInv, TypeOK
  <2> HIDE DEF o
  <2> DEFINE p == (s * o + w) % N
  <2>3. Names(dp.dist, dp.ktype, p)
    BY <2>1, <2>2, WayIsRead DEF Names, o
  <2>4. p \in Scalar
    BY <2>2, ProblemAssumption, ModuliAssumption DEF Sign, Scalar
  <2> QED
    BY <2>1, <2>3, <2>4
<1> QED
  BY <1>1, Invariance, PTL

(* Two reflected steps in a row never undo each other, if no two jumps are equal. *)
THEOREM PairsAreFruitful == Spec => []NoFruitlessPair
<1>1. IInv => NoFruitlessPair
  BY DEF IInv
<1> QED
  BY <1>1, Invariance, PTL

LEMMA HerdInvariance == HerdSpec => []IInv
<1>1. HerdInit => IInv
  BY InitInv DEF HerdInit
<1>2. IInv /\ [HerdNext]_herdVars => IInv'
  <2> SUFFICES ASSUME IInv, [HerdNext]_herdVars
               PROVE  IInv'
    OBVIOUS
  <2>1. ASSUME Graze
        PROVE  IInv'
    BY <2>1, StepInv, LookInv DEF Graze
  <2>2. ASSUME NEW dp \in reports, Insert(dp)
        PROVE  IInv'
    BY <2>2, CollectInv DEF Insert
  <2>3. ASSUME UNCHANGED herdVars
        PROVE  IInv'
    BY <2>3, NextInv DEF herdVars
  <2> QED
    BY <2>1, <2>2, <2>3 DEF HerdNext
<1> QED
  BY <1>1, <1>2, PTL DEF HerdSpec

(* The walks and the table implement the table's specification: each insertion is
   one of a point a walk can report, and nothing else touches the table. *)
THEOREM Composition == HerdSpec => ImplementsTable
<1>1. HerdInit => TableInit
  BY DEF HerdInit
<1>2. IInv /\ [HerdNext]_herdVars => [TableNext]_tableVars
  <2> SUFFICES ASSUME IInv, [HerdNext]_herdVars
               PROVE  [TableNext]_tableVars
    OBVIOUS
  <2>1. ASSUME Graze
        PROVE  UNCHANGED tableVars
    BY <2>1 DEF Graze, Step, Look, tableVars
  <2>2. ASSUME NEW dp \in reports, Insert(dp)
        PROVE  TableNext
    <3>1. dp \in DistinguishedPoint /\ Genuine(dp)
      BY DEF IInv, TypeOK
    <3> QED
      BY <2>2, <3>1 DEF Insert, TableNext
  <2>3. ASSUME UNCHANGED herdVars
        PROVE  UNCHANGED tableVars
    BY <2>3 DEF herdVars, walkVars, tableVars
  <2> QED
    BY <2>1, <2>2, <2>3 DEF HerdNext
<1> QED
  BY <1>1, <1>2, HerdInvariance, PTL DEF HerdSpec, ImplementsTable, TableSpec

-----------------------------------------------------------------------------
(* The inductive invariant of the table. *)

(* A stored point is in the list of its own hash key. *)
InOwnBucket ==
  \A b \in Bucket : \A i \in DOMAIN table[b] : HashKey(table[b][i].x) = b

(* Every stored point was reported by a walk. *)
StoredGenuine ==
  \A b \in Bucket : \A i \in DOMAIN table[b] : Genuine(table[b][i])

(* An x that was received is stored; and as long as no key has been returned the
   walks received there are all tame or all wild, as the stored one is. *)
ReceivedIsStored ==
  \A x \in XCoord, t \in KType :
    <<x, t>> \in received =>
      \E i \in DOMAIN table[HashKey(x)] :
        /\ table[HashKey(x)][i].x = x
        /\ found = {} => (table[HashKey(x)][i].ktype = Tame <=> t = Tame)

Counted == CountersMatchTable /\ IsFiniteSet(Stored)

TableInv == InOwnBucket /\ OneEntryPerX /\ StoredGenuine /\ ReceivedIsStored

TableIInv == TableTypeOK /\ TableInv /\ OnlyTheKey /\ Counted

-----------------------------------------------------------------------------
(* Facts about the types. *)

LEMMA HashKeyType ==
  ASSUME NEW x \in XCoord
  PROVE  HashKey(x) \in Bucket
  BY DPTableAssumption, ModuliAssumption DEF XCoord, HashKey, Bucket

LEMMA ListType ==
  ASSUME TableTypeOK, NEW b \in Bucket
  PROVE  /\ table[b] \in Seq(DistinguishedPoint)
         /\ Len(table[b]) \in Nat
         /\ DOMAIN table[b] = 1 .. Len(table[b])
         /\ \A i \in DOMAIN table[b] : table[b][i] \in DistinguishedPoint
<1>1. table[b] \in Seq(DistinguishedPoint)
  BY DEF TableTypeOK
<1>2. /\ Len(table[b]) \in Nat
      /\ DOMAIN table[b] = 1 .. Len(table[b])
  BY <1>1, LenProperties
<1> QED
  BY <1>1, <1>2, ElementOfSeq

LEMMA CheckCollisionType ==
  ASSUME NEW entry, NEW dp
  PROVE  CheckCollision(entry, dp) \subseteq {pubkey}
  BY DEF CheckCollision, Verifies

(* What a genuine report says: a tame walk is at +-start moved by its distance,
   a wild walk at +-pubkey moved by its distance. *)
LEMMA TameReport ==
  ASSUME NEW dp \in DistinguishedPoint, Genuine(dp), dp.ktype = Tame
  PROVE  \E u \in Sign, a \in -Reach .. Reach :
           /\ dp.dist = a % W
           /\ (u * start + a) % N # 0
           /\ dp.x = AffineX((u * start + a) % N)
<1>1. PICK u \in Sign, a \in -Reach .. Reach : Reports(dp, u, a)
  BY DEF Genuine
<1>2. Origin(dp.ktype) = start
  BY DEF Origin, OriginOf
<1> QED
  BY <1>1, <1>2 DEF Reports, Position

LEMMA WildReport ==
  ASSUME TableTypeOK, NEW dp \in DistinguishedPoint, Genuine(dp), dp.ktype # Tame
  PROVE  \E v \in Sign, b \in -Reach .. Reach :
           /\ dp.dist = b % W
           /\ (v * pubkey + b) % N # 0
           /\ dp.x = AffineX((v * pubkey + b) % N)
<1>1. pubkey \in Int
  BY ModuliAssumption DEF TableTypeOK, Scalar
<1>2. PICK s \in Sign, b \in -Reach .. Reach : Reports(dp, s, b)
  BY DEF Genuine
<1>3. CASE dp.ktype = Wild1
  <2>1. Origin(dp.ktype) = pubkey
    BY <1>3 DEF Origin, OriginOf, Tame, Wild1, Wild2
  <2> QED
    BY <1>2, <2>1 DEF Reports, Position
<1>4. CASE dp.ktype = Wild2
  <2>1. Origin(dp.ktype) = -pubkey
    BY <1>4 DEF Origin, OriginOf, Wild1, Wild2, Tame
  <2>2. -s \in Sign /\ s * (-pubkey) = (-s) * pubkey
    BY <1>1 DEF Sign
  <2> QED
    BY <1>2, <2>1, <2>2 DEF Reports, Position
<1> QED
  BY <1>3, <1>4 DEF DistinguishedPoint, KType

(* The key is among the candidates of a tame and a wild entry with one affine x,
   whichever of the two is stored. *)
LEMMA MeetingGivesKey ==
  ASSUME TableTypeOK,
         NEW tame \in DistinguishedPoint, Genuine(tame), tame.ktype = Tame,
         NEW wild \in DistinguishedPoint, Genuine(wild), wild.ktype # Tame,
         tame.x = wild.x
  PROVE  /\ CheckCollision(tame, wild) = {pubkey}
         /\ CheckCollision(wild, tame) = {pubkey}
<1>1. PICK u \in Sign, a \in -Reach .. Reach :
        /\ tame.dist = a % W
        /\ (u * start + a) % N # 0
        /\ tame.x = AffineX((u * start + a) % N)
  BY TameReport
<1>2. PICK v \in Sign, b \in -Reach .. Reach :
        /\ wild.dist = b % W
        /\ (v * pubkey + b) % N # 0
        /\ wild.x = AffineX((v * pubkey + b) % N)
  BY WildReport
<1>3. a \in Int /\ -W < a /\ a < W /\ b \in Int /\ -W < b /\ b < W
  BY ProblemAssumption, ModuliAssumption
<1>4. start \in Scalar /\ pubkey \in Scalar
  BY DEF TableTypeOK
<1>5. pubkey \in ComputeCandidateKeys(start, tame.dist, wild.dist)
  BY <1>1, <1>2, <1>3, <1>4, MeetingYieldsKey
<1>6. Candidates(tame, wild) = ComputeCandidateKeys(start, tame.dist, wild.dist)
  BY DEF Candidates, IsWild
<1>7. Candidates(wild, tame) = ComputeCandidateKeys(start, tame.dist, wild.dist)
  BY DEF Candidates, IsWild
<1> QED
  BY <1>5, <1>6, <1>7 DEF CheckCollision, Verifies

-----------------------------------------------------------------------------
(* Facts about the lists. *)

(* With one entry per x the first match is any match, so a scan without one
   means that x is nowhere in the table. *)
LEMMA NoMatch ==
  ASSUME TableTypeOK, InOwnBucket, OneEntryPerX,
         NEW dp \in DistinguishedPoint, FirstMatch(table[HashKey(dp.x)], dp) = {}
  PROVE  \A b \in Bucket : \A i \in DOMAIN table[b] : table[b][i].x # dp.x
<1> SUFFICES ASSUME NEW b \in Bucket, NEW i \in DOMAIN table[b], table[b][i].x = dp.x
             PROVE  FALSE
  OBVIOUS
<1>1. b = HashKey(dp.x)
  BY DEF InOwnBucket
<1>2. DOMAIN table[b] = 1 .. Len(table[b]) /\ Len(table[b]) \in Nat
  BY ListType
<1>3. \A j \in 1 .. i - 1 : table[b][j].x # dp.x
  <2> SUFFICES ASSUME NEW j \in 1 .. i - 1, table[b][j].x = dp.x
               PROVE  FALSE
    OBVIOUS
  <2>1. j \in DOMAIN table[b] /\ j # i
    BY <1>2
  <2> QED
    BY <2>1 DEF OneEntryPerX
<1>4. i \in FirstMatch(table[b], dp)
  BY <1>3 DEF FirstMatch
<1> QED
  BY <1>1, <1>4

(* Store adds dp at the end of its list and leaves the rest as it is. *)
LEMMA StoreAdds ==
  ASSUME TableTypeOK, NEW dp \in DistinguishedPoint, Store(dp)
  PROVE  LET h == HashKey(dp.x)
             n == Len(table[h]) + 1
         IN /\ h \in Bucket
            /\ table' \in [Bucket -> Seq(DistinguishedPoint)]
            /\ n \in DOMAIN table'[h] /\ table'[h][n] = dp
            /\ n \notin DOMAIN table[h]
            /\ \A b \in Bucket : \A i \in DOMAIN table[b] :
                 i \in DOMAIN table'[b] /\ table'[b][i] = table[b][i]
            /\ \A b \in Bucket : \A i \in DOMAIN table'[b] :
                 i \in DOMAIN table[b] \/ (b = h /\ i = n)
<1> DEFINE h == HashKey(dp.x)
           n == Len(table[h]) + 1
<1>1. h \in Bucket
  BY HashKeyType DEF DistinguishedPoint
<1>2. table \in [Bucket -> Seq(DistinguishedPoint)]
  BY DEF TableTypeOK
<1>3. /\ table[h] \in Seq(DistinguishedPoint)
      /\ Len(table[h]) \in Nat
      /\ DOMAIN table[h] = 1 .. Len(table[h])
  BY <1>1, ListType
<1>4. /\ Append(table[h], dp) \in Seq(DistinguishedPoint)
      /\ Len(Append(table[h], dp)) = n
      /\ \A i \in 1 .. Len(table[h]) : Append(table[h], dp)[i] = table[h][i]
      /\ Append(table[h], dp)[n] = dp
  BY <1>3, AppendProperties
<1>5. DOMAIN Append(table[h], dp) = 1 .. n
  BY <1>4, LenProperties
<1>6. table' = [table EXCEPT ![h] = Append(table[h], dp)]
  BY DEF Store
<1>7. table'[h] = Append(table[h], dp) /\ \A b \in Bucket : b # h => table'[b] = table[b]
  BY <1>1, <1>2, <1>6
<1>8. table' \in [Bucket -> Seq(DistinguishedPoint)]
  BY <1>2, <1>4, <1>6
<1>9. \A b \in Bucket : \A i \in DOMAIN table[b] :
        i \in DOMAIN table'[b] /\ table'[b][i] = table[b][i]
  <2> SUFFICES ASSUME NEW b \in Bucket, NEW i \in DOMAIN table[b]
               PROVE  i \in DOMAIN table'[b] /\ table'[b][i] = table[b][i]
    OBVIOUS
  <2>1. CASE b = h
    <3>1. i \in 1 .. n
      BY <1>3, <2>1
    <3> QED
      BY <1>3, <1>4, <1>5, <1>7, <2>1, <3>1
  <2> QED
    BY <1>7, <2>1
<1>10. \A b \in Bucket : \A i \in DOMAIN table'[b] :
         i \in DOMAIN table[b] \/ (b = h /\ i = n)
  <2> SUFFICES ASSUME NEW b \in Bucket, NEW i \in DOMAIN table'[b], i \notin DOMAIN table[b]
               PROVE  b = h /\ i = n
    OBVIOUS
  <2>1. b = h
    BY <1>7
  <2>2. i \in 1 .. n /\ i \notin 1 .. Len(table[h])
    BY <1>3, <1>5, <1>7, <2>1
  <2> QED
    BY <1>3, <2>1, <2>2
<1>11. n \in DOMAIN table'[h] /\ table'[h][n] = dp /\ n \notin DOMAIN table[h]
  <2>1. n \in 1 .. n /\ n \notin 1 .. Len(table[h])
    BY <1>3
  <2> QED
    BY <1>3, <1>4, <1>5, <1>7, <2>1
<1> QED
  BY <1>1, <1>8, <1>9, <1>10, <1>11

-----------------------------------------------------------------------------
(* The invariant holds initially and is kept. *)

LEMMA TableInitInv == TableInit => TableIInv
<1> SUFFICES ASSUME TableInit
             PROVE  TableIInv
  OBVIOUS
<1>1. \A b \in Bucket : table[b] = << >> /\ DOMAIN table[b] = {}
  BY DEF TableInit
<1>2. TableTypeOK
  <2>1. table \in [Bucket -> Seq(DistinguishedPoint)]
    BY DEF TableInit
  <2>2. /\ start \in Scalar /\ pubkey \in Scalar /\ total \in 0 .. MaxDistinguishedPoints
        /\ found \in SUBSET Scalar /\ received \in SUBSET (XCoord \X KType)
    BY DPTableAssumption, ProblemAssumption DEF TableInit
  <2>3. count \in [KType -> Nat]
    BY DEF TableInit
  <2> QED
    BY <2>1, <2>2, <2>3 DEF TableTypeOK
<1>3. TableInv
  BY <1>1 DEF TableInit, TableInv, InOwnBucket, OneEntryPerX, StoredGenuine, ReceivedIsStored
<1>4. OnlyTheKey
  BY DEF TableInit, OnlyTheKey
<1>5. Counted
  <2>1. Stored = {}
    BY <1>1 DEF Stored, Entries
  <2>2. \A t \in KType : {e \in Stored : e.ktype = t} = {} /\ count[t] = 0
    BY <2>1 DEF TableInit
  <2>3. IsFiniteSet({}) /\ Cardinality({}) = 0
    BY FS_EmptySet
  <2>4. {Tame, Wild1, Wild2} \subseteq KType
    BY DEF KType
  <2> QED
    BY <2>1, <2>2, <2>3, <2>4 DEF Counted, CountersMatchTable, TableInit
<1> QED
  BY <1>2, <1>3, <1>4, <1>5 DEF TableIInv

(* A point with a stored x: only found and received change. *)
Collide(dp) ==
  \E i \in FirstMatch(table[HashKey(dp.x)], dp) :
    /\ found' = CheckCollision(table[HashKey(dp.x)][i], dp)
    /\ received' = received \cup {<<dp.x, dp.ktype>>}
    /\ UNCHANGED <<table, total, count, start, pubkey>>

LEMMA CollideInv ==
  ASSUME TableIInv, found = {}, NEW dp \in DistinguishedPoint, Genuine(dp), Collide(dp)
  PROVE  TableIInv'
<1> DEFINE h == HashKey(dp.x)
<1>1. PICK i \in FirstMatch(table[h], dp) :
        /\ found' = CheckCollision(table[h][i], dp)
        /\ received' = received \cup {<<dp.x, dp.ktype>>}
  BY DEF Collide
<1>2. UNCHANGED <<table, total, count, start, pubkey>>
  BY DEF Collide
<1> DEFINE e == table[h][i]
<1>3. dp.x \in XCoord /\ dp.ktype \in KType /\ h \in Bucket
  BY HashKeyType DEF DistinguishedPoint
<1>4. i \in DOMAIN table[h] /\ e.x = dp.x
  BY DEF FirstMatch
<1>5. e \in DistinguishedPoint /\ Genuine(e)
  BY <1>3, <1>4, ListType DEF TableIInv, TableInv, StoredGenuine
<1>6. found' \subseteq {pubkey}
  BY <1>1, CheckCollisionType
<1>7. TableTypeOK'
  BY <1>1, <1>2, <1>3, <1>6 DEF TableIInv, TableTypeOK
<1>8. (OneEntryPerX /\ InOwnBucket /\ Counted)'
  BY <1>2 DEF TableIInv, TableInv, OneEntryPerX, InOwnBucket, Counted, CountersMatchTable, Stored, Entries
<1>9. StoredGenuine'
  BY <1>2 DEF TableIInv, TableInv, StoredGenuine, Genuine, Reports, Position, Origin, OriginOf
<1>10. OnlyTheKey'
  BY <1>2, <1>6 DEF OnlyTheKey
<1>11. ReceivedIsStored'
  <2>1. found' = {} => (e.ktype = Tame <=> dp.ktype = Tame)
    <3> SUFFICES ASSUME ~(e.ktype = Tame <=> dp.ktype = Tame)
                 PROVE  found' # {}
      OBVIOUS
    <3>1. CheckCollision(e, dp) = {pubkey}
      BY <1>4, <1>5, MeetingGivesKey DEF TableIInv
    <3> QED
      BY <1>1, <3>1
  <2> SUFFICES ASSUME NEW x \in XCoord, NEW t \in KType, <<x, t>> \in received'
               PROVE  \E j \in DOMAIN table[HashKey(x)] :
                        /\ table[HashKey(x)][j].x = x
                        /\ found' = {} => (table[HashKey(x)][j].ktype = Tame <=> t = Tame)
    BY <1>2 DEF ReceivedIsStored
  <2>2. CASE x = dp.x /\ t = dp.ktype
    BY <1>4, <2>1, <2>2
  <2>3. CASE <<x, t>> \in received
    BY <2>3 DEF TableIInv, TableInv, ReceivedIsStored
  <2> QED
    BY <1>1, <2>2, <2>3
<1> QED
  BY <1>7, <1>8, <1>9, <1>10, <1>11 DEF TableIInv, TableInv

(* A point with a new x, below the cap. *)
Add(dp) ==
  /\ FirstMatch(table[HashKey(dp.x)], dp) = {}
  /\ HasRoom
  /\ Store(dp)
  /\ received' = received \cup {<<dp.x, dp.ktype>>}
  /\ UNCHANGED <<found, start, pubkey>>

LEMMA AddInv ==
  ASSUME TableIInv, found = {}, NEW dp \in DistinguishedPoint, Genuine(dp), Add(dp)
  PROVE  TableIInv'
<1> DEFINE h == HashKey(dp.x)
           n == Len(table[h]) + 1
<1>1. /\ h \in Bucket
      /\ table' \in [Bucket -> Seq(DistinguishedPoint)]
      /\ n \in DOMAIN table'[h] /\ table'[h][n] = dp
      /\ n \notin DOMAIN table[h]
      /\ \A b \in Bucket : \A i \in DOMAIN table[b] :
           i \in DOMAIN table'[b] /\ table'[b][i] = table[b][i]
      /\ \A b \in Bucket : \A i \in DOMAIN table'[b] :
           i \in DOMAIN table[b] \/ (b = h /\ i = n)
  BY StoreAdds DEF Add, TableIInv
<1>2. dp.x \in XCoord /\ dp.ktype \in KType
  BY DEF DistinguishedPoint
<1>3. \A b \in Bucket : \A i \in DOMAIN table[b] : table[b][i].x # dp.x
  BY <1>2, NoMatch DEF Add, TableIInv, TableInv
<1>4. /\ total' = total + 1
      /\ count' = [count EXCEPT ![dp.ktype] = @ + 1]
      /\ received' = received \cup {<<dp.x, dp.ktype>>}
      /\ UNCHANGED <<found, start, pubkey>>
      /\ total < MaxDistinguishedPoints
  BY DEF Add, Store, HasRoom
<1> HIDE DEF h, n
<1>5. TableTypeOK'
  <2>1. total' \in 0 .. MaxDistinguishedPoints
    BY <1>4, DPTableAssumption DEF TableIInv, TableTypeOK
  <2>2. count' \in [KType -> Nat]
    BY <1>2, <1>4 DEF TableIInv, TableTypeOK
  <2> QED
    BY <1>1, <1>2, <1>4, <2>1, <2>2 DEF TableIInv, TableTypeOK
<1>6. InOwnBucket'
  BY <1>1 DEF TableIInv, TableInv, InOwnBucket, h
<1>7. OneEntryPerX'
  <2> SUFFICES ASSUME NEW b \in Bucket, NEW c \in Bucket,
                      NEW i \in DOMAIN table'[b], NEW j \in DOMAIN table'[c],
                      table'[b][i].x = table'[c][j].x
               PROVE  b = c /\ i = j
    BY DEF OneEntryPerX
  <2>1. CASE i \in DOMAIN table[b] /\ j \in DOMAIN table[c]
    BY <1>1, <2>1 DEF TableIInv, TableInv, OneEntryPerX
  <2>2. CASE i \in DOMAIN table[b] /\ c = h /\ j = n
    BY <1>1, <1>3, <2>2
  <2>3. CASE b = h /\ i = n /\ j \in DOMAIN table[c]
    BY <1>1, <1>3, <2>3
  <2> QED
    BY <1>1, <2>1, <2>2, <2>3
<1>8. StoredGenuine'
  <2> SUFFICES ASSUME NEW b \in Bucket, NEW i \in DOMAIN table'[b]
               PROVE  Genuine(table[b][i])'
    BY DEF StoredGenuine
  <2>1. CASE i \in DOMAIN table[b]
    <3>1. Genuine(table[b][i]) /\ table'[b][i] = table[b][i]
      BY <1>1, <2>1 DEF TableIInv, TableInv, StoredGenuine
    <3> QED
      BY <1>4, <3>1 DEF Genuine, Reports, Position, Origin, OriginOf
  <2>2. CASE b = h /\ i = n
    <3>1. table'[b][i] = dp
      BY <1>1, <2>2
    <3> QED
      BY <1>4, <3>1 DEF Genuine, Reports, Position, Origin, OriginOf
  <2> QED
    BY <1>1, <2>1, <2>2
<1>9. ReceivedIsStored'
  <2> SUFFICES ASSUME NEW x \in XCoord, NEW t \in KType, <<x, t>> \in received'
               PROVE  \E j \in DOMAIN table'[HashKey(x)] :
                        /\ table'[HashKey(x)][j].x = x
                        /\ found' = {} => (table'[HashKey(x)][j].ktype = Tame <=> t = Tame)
    BY DEF ReceivedIsStored
  <2>1. CASE x = dp.x /\ t = dp.ktype
    BY <1>1, <2>1 DEF h
  <2>2. CASE <<x, t>> \in received
    <3>1. HashKey(x) \in Bucket
      BY HashKeyType
    <3>2. PICK j \in DOMAIN table[HashKey(x)] :
            /\ table[HashKey(x)][j].x = x
            /\ found = {} => (table[HashKey(x)][j].ktype = Tame <=> t = Tame)
      BY <2>2 DEF TableIInv, TableInv, ReceivedIsStored
    <3> QED
      BY <1>1, <1>4, <3>1, <3>2
  <2> QED
    BY <1>4, <2>1, <2>2
<1>10. OnlyTheKey'
  BY <1>4 DEF TableIInv, OnlyTheKey
<1>11. Counted'
  <2>1. Stored' = Stored \cup {dp}
    <3>1. \A e : e \in Stored <=> \E b \in Bucket : \E i \in DOMAIN table[b] : e = table[b][i]
      BY DEF Stored, Entries
    <3>2. \A e : e \in Stored' <=> \E b \in Bucket : \E i \in DOMAIN table'[b] : e = table'[b][i]
      BY DEF Stored, Entries
    <3>3. \A e \in Stored' : e \in Stored \cup {dp}
      BY <1>1, <3>1, <3>2
    <3>4. \A e \in Stored \cup {dp} : e \in Stored'
      BY <1>1, <3>1, <3>2
    <3> QED
      BY <3>3, <3>4
  <2>2. dp \notin Stored
    BY <1>3 DEF Stored, Entries
  <2>3. \A t \in KType : {e \in Stored' : e.ktype = t} =
          IF t = dp.ktype THEN {e \in Stored : e.ktype = t} \cup {dp}
                          ELSE {e \in Stored : e.ktype = t}
    BY <2>1
  <2>4. IsFiniteSet(Stored')
    BY <2>1, FS_AddElement DEF TableIInv, Counted
  <2>5. \A t \in KType : count'[t] = Cardinality({e \in Stored' : e.ktype = t})
    <3> SUFFICES ASSUME NEW t \in KType
                 PROVE  count'[t] = Cardinality({e \in Stored' : e.ktype = t})
      OBVIOUS
    <3> DEFINE E == {e \in Stored : e.ktype = t}
    <3>1. IsFiniteSet(E) /\ dp \notin E
      BY <2>2, FS_Subset DEF TableIInv, Counted
    <3>2. Cardinality(E \cup {dp}) = Cardinality(E) + 1
      BY <3>1, FS_AddElement
    <3>3. count[t] = Cardinality(E)
      BY DEF TableIInv, Counted, CountersMatchTable
    <3>4. count'[t] = IF t = dp.ktype THEN count[t] + 1 ELSE count[t]
      BY <1>4 DEF TableIInv, TableTypeOK
    <3> QED
      BY <2>3, <3>2, <3>3, <3>4
  <2>6. total' = count'[Tame] + count'[Wild1] + count'[Wild2]
    <3>1. total = count[Tame] + count[Wild1] + count[Wild2] /\ count \in [KType -> Nat]
      BY DEF TableIInv, Counted, CountersMatchTable, TableTypeOK
    <3> QED
      BY <1>2, <1>4, <3>1 DEF KType, Tame, Wild1, Wild2
  <2> QED
    BY <2>4, <2>5, <2>6 DEF Counted, CountersMatchTable
<1> QED
  BY <1>5, <1>6, <1>7, <1>8, <1>9, <1>10, <1>11 DEF TableIInv, TableInv

(* A stutter keeps the invariant. *)
LEMMA TableStutterInv ==
  ASSUME TableIInv, UNCHANGED tableVars
  PROVE  TableIInv'
<1>1. /\ start' = start /\ pubkey' = pubkey /\ table' = table /\ total' = total
      /\ count' = count /\ found' = found /\ received' = received
  BY DEF tableVars
<1>2. TableTypeOK'
  BY <1>1 DEF TableIInv, TableTypeOK
<1>3. InOwnBucket'
  BY <1>1 DEF TableIInv, TableInv, InOwnBucket
<1>4. OneEntryPerX'
  BY <1>1 DEF TableIInv, TableInv, OneEntryPerX
<1>5. StoredGenuine'
  <2>1. \A dp : Genuine(dp)' <=> Genuine(dp)
    BY <1>1 DEF Genuine, Reports, Position, Origin, OriginOf
  <2> QED
    BY <1>1, <2>1 DEF TableIInv, TableInv, StoredGenuine
<1>6. ReceivedIsStored'
  BY <1>1 DEF TableIInv, TableInv, ReceivedIsStored
<1>7. OnlyTheKey'
  BY <1>1 DEF TableIInv, OnlyTheKey
<1>8. Counted'
  <2>1. Stored' = Stored
    BY <1>1 DEF Stored, Entries
  <2> QED
    BY <1>1, <2>1 DEF TableIInv, Counted, CountersMatchTable
<1> QED
  BY <1>2, <1>3, <1>4, <1>5, <1>6, <1>7, <1>8 DEF TableIInv, TableInv

(* The invariant is kept by every step: a collision, a new point, a point turned
   away at the cap, a stutter. *)
LEMMA TableNextInv == TableIInv /\ [TableNext]_tableVars => TableIInv'
<1> SUFFICES ASSUME TableIInv, [TableNext]_tableVars
             PROVE  TableIInv'
  OBVIOUS
<1>1. CASE TableNext
  <2>1. PICK dp \in DistinguishedPoint : Genuine(dp) /\ InsertAndCheck(dp)
    BY <1>1 DEF TableNext
  <2>2. found = {}
    BY <2>1 DEF InsertAndCheck
  <2>3. CASE Collide(dp)
    BY <2>1, <2>2, <2>3, CollideInv
  <2>4. CASE Add(dp)
    BY <2>1, <2>2, <2>4, AddInv
  <2>5. CASE UNCHANGED tableVars
    BY <2>5, TableStutterInv
  <2>6. Collide(dp) \/ Add(dp) \/ UNCHANGED tableVars
    BY <2>1 DEF InsertAndCheck, Collide, Add, tableVars
  <2> QED
    BY <2>3, <2>4, <2>5, <2>6
<1>2. CASE UNCHANGED tableVars
  BY <1>2, TableStutterInv
<1> QED
  BY <1>1, <1>2

THEOREM TableInvariance == TableSpec => []TableIInv
<1>1. TableInit => TableIInv
  BY TableInitInv
<1>2. TableIInv /\ [TableNext]_tableVars => TableIInv'
  BY TableNextInv
<1> QED
  BY <1>1, <1>2, PTL DEF TableSpec

-----------------------------------------------------------------------------
(* The types of the table's state: total_dps stays within the cap, and what is
   returned is a scalar. *)
THEOREM TableTypeCorrect == TableSpec => []TableTypeOK
<1>1. TableIInv => TableTypeOK
  BY DEF TableIInv
<1> QED
  BY <1>1, TableInvariance, PTL

(* insert_and_check never returns a key other than the one of the public key. *)
THEOREM KeyIsRight == TableSpec => []OnlyTheKey
<1>1. TableIInv => OnlyTheKey
  BY DEF TableIInv
<1> QED
  BY <1>1, TableInvariance, PTL

(* No affine x is stored twice, in one list or in two, and total_dps and the
   three type counters count the stored entries. *)
THEOREM TableStaysConsistent == TableSpec => []TableIsConsistent
<1>1. TableIInv => TableIsConsistent
  BY DEF TableIInv, TableInv, Counted, TableIsConsistent
<1> QED
  BY <1>1, TableInvariance, PTL

(* No tame/wild meeting at a received x goes unsolved.  The stored entry of that
   x cannot agree in tameness with both walks, so the invariant says that a key
   was returned, and it is the right one. *)
THEOREM NoMeetingIsMissed == TableSpec => []TameWildMeetingSolves
<1>1. TableIInv => TameWildMeetingSolves
  <2> SUFFICES ASSUME TableIInv, NEW x \in XCoord, NEW t \in {Wild1, Wild2},
                      {<<x, Tame>>, <<x, t>>} \subseteq received
               PROVE  found = {pubkey}
    BY DEF TameWildMeetingSolves
  <2>1. Tame \in KType /\ t \in KType /\ t # Tame
    BY DEF KType, Tame, Wild1, Wild2
  <2>2. HashKey(x) \in Bucket
    BY HashKeyType
  <2>3. PICK i \in DOMAIN table[HashKey(x)] :
          /\ table[HashKey(x)][i].x = x
          /\ found = {} => table[HashKey(x)][i].ktype = Tame
    BY <2>1 DEF TableIInv, TableInv, ReceivedIsStored
  <2>4. PICK j \in DOMAIN table[HashKey(x)] :
          /\ table[HashKey(x)][j].x = x
          /\ found = {} => table[HashKey(x)][j].ktype # Tame
    BY <2>1 DEF TableIInv, TableInv, ReceivedIsStored
  <2>5. i = j
    BY <2>2, <2>3, <2>4 DEF TableIInv, TableInv, OneEntryPerX
  <2>6. found # {}
    BY <2>3, <2>4, <2>5
  <2> QED
    BY <2>6 DEF TableIInv, OnlyTheKey
<1> QED
  BY <1>1, TableInvariance, PTL

(* Once a tame and a wild kangaroo's reports of one affine x have been read out, the
   search has the key, whatever reflections, escapes and wrap-arounds of the
   distance words were on their ways: the walks guarantee what the table's theorem
   assumes of its inputs. *)
THEOREM MeetingsAreSolved == HerdSpec => []MeetingIsSolved
<1>1. TameWildMeetingSolves => MeetingIsSolved
  BY DEF MeetingIsSolved
<1> QED
  BY <1>1, Composition, NoMeetingIsMissed, PTL DEF ImplementsTable
=============================================================================
