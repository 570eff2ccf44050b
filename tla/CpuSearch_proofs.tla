--------------------------- MODULE CpuSearch_proofs ---------------------------
(***************************************************************************)
(* The CPU solver, for every group order, jump table, low part and range:  *)
(* tables name points, a meeting gives the key, no kangaroo goes on too    *)
(* long without an escape, and the search key by key misses none.  And the *)
(* key of the transformed problem gives back the private key.              *)
(***************************************************************************)
EXTENDS CpuSearch, KangarooAlgebra_proofs

-----------------------------------------------------------------------------
(* The inductive invariant. *)

(* The distance is the way from the origin to the point, under some sign, and the
   coordinates kept for the next step are those of the point. *)
OnWay(w, origin) ==
  /\ \E s \in Sign : w.log = (s * origin + w.dist) % N
  /\ w.cached \in {NoPoint, w.log}

Paths == OnWay(tame, Mid) /\ OnWay(wild, pubkey)

Counts == since["tame"] = tame.cycle /\ since["wild"] = wild.cycle

(* While the search goes on, every distinguished x a kangaroo has been at is in its
   table, and the two have none in common. *)
Recorded ==
  pc # "done" =>
    /\ \A x \in seen["tame"] : XLow[x] \in DOMAIN tameTable
    /\ \A x \in seen["wild"] : XLow[x] \in DOMAIN wildTable
    /\ LowBitsTellPointsApart => seen["tame"] \cap seen["wild"] = {}

Tried ==
  /\ \A i \in 0 .. candidate - 1 : pubkey # (start + i) % N
  /\ pc = "done" /\ result = NoKey => candidate >= Limit

IInv ==
  /\ TypeOK /\ rangeBits \in RangeBits
  /\ Paths /\ Counts /\ TablesNamePoints /\ Recorded /\ Tried /\ MeetingSolves

-----------------------------------------------------------------------------
(* A step of a kangaroo. *)

LEMMA LowType ==
  ASSUME NEW p \in Scalar
  PROVE  AffineX(p) \in AffineCoord /\ Low(p) \in Nat /\ Low(p) \in LowX
<1>1. AffineX(p) \in AffineCoord
  BY ModuliAssumption DEF AffineX, AffineCoord, XCoord, Scalar
<1> QED
  BY <1>1, CpuAssumption DEF Low, LowX

LEMMA AffineOfLog ==
  ASSUME NEW w \in Walker, w.cached \in {NoPoint, w.log}
  PROVE  AffineOf(w) = w.log /\ w.log \in Scalar /\ w.dist \in Scalar
  BY DEF AffineOf, Walker

LEMMA JumpTakenType ==
  ASSUME NEW w \in Walker, w.cached \in {NoPoint, w.log}
  PROVE  JumpTaken(w) \in JumpIndex
<1>1. Low(AffineOf(w)) \in Nat /\ Jumps \in Nat \ {0}
  BY AffineOfLog, LowType, CpuAssumption
<1>2. HashedJump(w) \in JumpIndex
  BY <1>1 DEF HashedJump, JumpIndex
<1>3. (HashedJump(w) + 1) % Jumps \in JumpIndex
  BY <1>1, <1>2 DEF JumpIndex
<1> QED
  BY <1>2, <1>3 DEF JumpTaken

(* A jump added to point and distance, reflected or not, is one more part of the way. *)
LEMMA AddJump ==
  ASSUME NEW o \in Int, NEW s \in Sign, NEW d \in Int, NEW log, log = (s * o + d) % N,
         NEW e \in Sign, NEW jump \in Scalar
  PROVE  /\ (e * log + jump) % N \in Scalar
         /\ (e * d + jump) % N \in Scalar
         /\ \E t \in Sign : (e * log + jump) % N = (t * o + ((e * d + jump) % N)) % N
<1>1. /\ N \in Nat /\ N > 0 /\ jump \in Int /\ s * o \in Int
      /\ s * o + d \in Int /\ log \in Int
  BY ModuliAssumption DEF Scalar, Sign
<1>2. CASE e = 1
  <2>1. e * log = log /\ e * d = d
    BY <1>1, <1>2
  <2>2. (log + jump) % N = ((s * o + d) + jump) % N
    BY <1>1, ReduceFirst
  <2>3. (((d + jump) % N) + s * o) % N = ((d + jump) + s * o) % N
    <3> \A c, so \in Int : ((c % N) + so) % N = (c + so) % N
      BY <1>1, ReduceFirst
    <3> d + jump \in Int
      BY <1>1
    <3> QED
      BY <1>1
  <2>4. (s * o + d) + jump = (d + jump) + s * o
    BY <1>1
  <2>5. (d + jump) % N \in Scalar /\ (log + jump) % N \in Scalar
    BY <1>1, DivMod
  <2>6. ((d + jump) % N) + s * o = s * o + ((d + jump) % N)
    BY <1>1, <2>5, ModuliAssumption DEF Scalar
  <2> QED
    BY <2>1, <2>2, <2>3, <2>4, <2>5, <2>6
<1>3. CASE e = -1
  <2>1. e * log = -log /\ e * d = -d
    BY <1>1, <1>3
  <2>2. (-log + jump) % N = (-(s * o + d) + jump) % N
    BY <1>1, ReduceFirst
  <2>3. -s \in Sign /\ (-s) * o \in Int /\ (-s) * o = -(s * o)
    BY DEF Sign
  <2>4. (((-d + jump) % N) + (-s) * o) % N = ((-d + jump) + (-s) * o) % N
    <3> \A c, so \in Int : ((c % N) + so) % N = (c + so) % N
      BY <1>1, ReduceFirst
    <3> -d + jump \in Int
      BY <1>1
    <3> QED
      BY <2>3
  <2>5. -(s * o + d) + jump = (-d + jump) + (-s) * o
    BY <1>1, <2>3
  <2>6. (-d + jump) % N \in Scalar /\ (-log + jump) % N \in Scalar
    BY <1>1, DivMod
  <2>7. ((-d + jump) % N) + (-s) * o = (-s) * o + ((-d + jump) % N)
    BY <1>1, <2>3, <2>6, ModuliAssumption DEF Scalar
  <2> QED
    BY <2>1, <2>2, <2>3, <2>4, <2>5, <2>6, <2>7
<1> QED
  BY <1>2, <1>3 DEF Sign

LEMMA HopKeeps ==
  ASSUME NEW w \in Walker, NEW o \in Int, OnWay(w, o)
  PROVE  /\ Hop(w) \in Walker /\ OnWay(Hop(w), o)
         /\ Hop(w).cached = NoPoint /\ Hop(w).cycle = w.cycle
         /\ Hop(w).last \in JumpIndex
<1> DEFINE e == IF AffineOf(w) \in Odd THEN -1 ELSE 1
           jump == JumpDistance[JumpTaken(w)]
           log == (e * w.log + jump) % N
           dist == (e * w.dist + jump) % N
<1>1. PICK s \in Sign : w.log = (s * o + w.dist) % N
  BY DEF OnWay
<1>2. w.cached \in {NoPoint, w.log} /\ w.log \in Scalar /\ w.dist \in Scalar
  BY AffineOfLog DEF OnWay
<1>3. e \in Sign /\ JumpTaken(w) \in JumpIndex /\ jump \in Scalar
  BY <1>2, JumpTakenType, CpuAssumption DEF Sign
<1>4. w.dist \in Int
  BY <1>2, ModuliAssumption DEF Scalar
<1>5. Hop(w) = [w EXCEPT !.log = log, !.dist = dist, !.last = JumpTaken(w), !.cached = NoPoint]
  BY DEF Hop
<1> HIDE DEF e, jump
<1>6. log \in Scalar /\ dist \in Scalar /\ \E t \in Sign : log = (t * o + dist) % N
  BY <1>1, <1>3, <1>4, AddJump
<1> HIDE DEF log, dist
<1> QED
  BY <1>3, <1>5, <1>6 DEF Walker, OnWay

LEMMA StepKeeps ==
  ASSUME NEW w \in Walker, NEW o \in Int, OnWay(w, o), NEW hops \in JumpIndex
  PROVE  /\ Step(w, hops) \in Walker /\ OnWay(Step(w, hops), o)
         /\ Step(w, hops).cycle = IF MustEscape(Hop(w)) THEN 0 ELSE w.cycle + 1
<1> PICK h \in Walker : h = Hop(w)
  BY HopKeeps
<1>1. /\ OnWay(h, o) /\ h.cached = NoPoint /\ h.cycle = w.cycle /\ h.last \in JumpIndex
  BY HopKeeps
<1>2. /\ h.log \in Scalar /\ h.dist \in Scalar /\ h.cycle \in 0 .. CycleCap
      /\ h.repeat \in [low : 0 .. LowModulus - 1, count : 0 .. RepeatThreshold]
      /\ CycleCap \in Nat /\ RepeatThreshold \in Nat /\ LowModulus \in Nat \ {0}
      /\ Jumps \in Nat \ {0}
  BY CpuAssumption DEF Walker
<1>3. CASE MustEscape(h)
  <2> DEFINE i == (Cycle(h) * 31 + h.last + hops) % Jumps
             jump == JumpDistance[i]
             log == (h.log + jump) % N
             dist == (h.dist + jump) % N
  <2>1. i \in JumpIndex
    <3>1. Cycle(h) * 31 + h.last + hops \in Nat
      BY <1>1, <1>2 DEF Cycle, JumpIndex
    <3> QED
      BY <1>2, <3>1 DEF JumpIndex
  <2>2. jump \in Scalar
    BY <2>1, CpuAssumption
  <2>3. Step(w, hops) = [h EXCEPT !.log = log, !.dist = dist, !.cycle = 0, !.repeat = NoRepeat]
    BY <1>3 DEF Step, Escape
  <2> HIDE DEF i, jump
  <2>4. log \in Scalar /\ dist \in Scalar /\ \E t \in Sign : log = (t * o + dist) % N
    <3>1. PICK s \in Sign : h.log = (s * o + h.dist) % N
      BY <1>1 DEF OnWay
    <3>2. 1 \in Sign /\ h.dist \in Int /\ h.log \in Int /\ 1 * h.log = h.log /\ 1 * h.dist = h.dist
      BY <1>2, ModuliAssumption DEF Sign, Scalar
    <3>3. /\ (1 * h.log + jump) % N \in Scalar
          /\ (1 * h.dist + jump) % N \in Scalar
          /\ \E t \in Sign : (1 * h.log + jump) % N = (t * o + ((1 * h.dist + jump) % N)) % N
      BY <2>2, <3>1, <3>2, AddJump
    <3> QED
      BY <3>2, <3>3
  <2>5. NoRepeat \in [low : 0 .. LowModulus - 1, count : 0 .. RepeatThreshold] /\ 0 \in 0 .. CycleCap
    BY <1>2 DEF NoRepeat
  <2> HIDE DEF log, dist
  <2> DEFINE v == Step(w, hops)
  <2>6. v = [h EXCEPT !.log = log, !.dist = dist, !.cycle = 0, !.repeat = NoRepeat]
    BY <2>3
  <2> HIDE DEF v
  <2>7. v \in Walker /\ OnWay(v, o) /\ v.cycle = 0
    BY <1>1, <2>4, <2>5, <2>6 DEF Walker, OnWay
  <2> QED
    BY <1>3, <2>7 DEF v
<1>4. CASE ~MustEscape(h)
  <2> DEFINE r == Repeat(h, Low(h.log) % LowModulus)
             v == Step(w, hops)
  <2>1. v = [h EXCEPT !.cycle = h.cycle + 1, !.repeat = r, !.cached = h.log]
    BY <1>4 DEF Step, Settle, Cycle
  <2>2. h.cycle + 1 <= CycleCap /\ r.count <= RepeatThreshold
    <3>1. r.count \in Nat /\ h.cycle + 1 \in Nat
      BY <1>2 DEF Repeat
    <3> QED
      BY <1>2, <1>4, <3>1 DEF MustEscape, Cycle
  <2>3. r \in [low : 0 .. LowModulus - 1, count : 0 .. RepeatThreshold]
    <3>1. Low(h.log) % LowModulus \in 0 .. LowModulus - 1
      BY <1>2, LowType
    <3> QED
      BY <1>2, <2>2, <3>1 DEF Repeat
  <2> HIDE DEF r, v
  <2>4. h.cycle + 1 \in 0 .. CycleCap
    BY <1>2, <2>2
  <2>5. v \in Walker /\ v.cycle = h.cycle + 1
    BY <1>2, <2>1, <2>3, <2>4 DEF Walker
  <2>6. v.log = h.log /\ v.dist = h.dist /\ v.cached = h.log
    BY <2>1 DEF Walker
  <2>7. OnWay(v, o)
    BY <1>1, <2>6 DEF OnWay
  <2> QED
    BY <1>1, <1>4, <2>5, <2>7 DEF v
<1> QED
  BY <1>3, <1>4

-----------------------------------------------------------------------------
(* The tables. *)

LEMMA RangeTypes ==
  ASSUME TypeOK, rangeBits \in RangeBits
  PROVE  Mid \in Scalar /\ Mid \in Int /\ Limit \in Nat /\ pubkey \in Int
<1>1. start \in Int /\ pubkey \in Int /\ TwoTo[rangeBits - 1] \in Nat /\ TwoTo[rangeBits] \in Nat
  BY TwoToDef, CpuAssumption, ModuliAssumption DEF TypeOK, Scalar
<1>2. start + TwoTo[rangeBits - 1] \in Int
  BY <1>1
<1>3. Mid \in Scalar
  BY <1>2, DivMod DEF Mid
<1> QED
  BY <1>1, <1>3, ModuliAssumption DEF Limit, Scalar

LEMMA InsertKeeps ==
  ASSUME NEW table, IsTable(table), NEW w \in Walker, NEW o \in Int, OnWay(w, o),
         \A low \in DOMAIN table : Leads(o, table[low], low)
  PROVE  /\ IsTable(Insert(table, w))
         /\ DOMAIN Insert(table, w) = DOMAIN table \cup {Low(w.log)}
         /\ \A low \in DOMAIN Insert(table, w) : Leads(o, Insert(table, w)[low], low)
<1>1. /\ AffineOf(w) = w.log /\ Low(w.log) \in LowX /\ w.dist \in Scalar
  BY AffineOfLog, LowType DEF OnWay
<1>2. Leads(o, w.dist, Low(w.log))
  BY DEF OnWay, Leads
<1>3. Insert(table, w) = [l \in DOMAIN table \cup {Low(w.log)} |->
                            IF l = Low(w.log) THEN w.dist ELSE table[l]]
  BY <1>1 DEF Insert
<1>4. \A l \in DOMAIN table : table[l] \in Scalar
  BY DEF IsTable
<1> QED
  BY <1>1, <1>2, <1>3, <1>4 DEF IsTable

(* A tame and a wild distance that lead to one x give the key. *)
LEMMA MeetingKey ==
  ASSUME TypeOK, rangeBits \in RangeBits, LowBitsTellPointsApart,
         NEW a \in Scalar, NEW b \in Scalar, NEW u \in Sign, NEW v \in Sign,
         Low((u * Mid + a) % N) = Low((v * pubkey + b) % N)
  PROVE  TryCandidates(a, b) = pubkey
<1>1. Mid \in Scalar /\ Mid \in Int /\ pubkey \in Scalar /\ pubkey \in Int
      /\ a \in Int /\ b \in Int
  BY RangeTypes, ModuliAssumption DEF TypeOK, Scalar
<1>2. u * Mid + a \in Int /\ v * pubkey + b \in Int
  BY <1>1 DEF Sign
<1>3. (u * Mid + a) % N \in Scalar /\ (v * pubkey + b) % N \in Scalar
  BY <1>2, DivMod
<1>4. AffineX((u * Mid + a) % N) = AffineX((v * pubkey + b) % N)
  BY <1>3, LowType DEF Low, LowBitsTellPointsApart
<1>5. PICK bs \in Sign, t \in Sign, w \in Sign : pubkey = (bs * Mid + t * a + w * b) % N
  BY <1>1, <1>4, MeetingSigns
<1>6. pubkey \in ComputeCandidateScalars(Mid, a, b)
  BY <1>5 DEF ComputeCandidateScalars
<1> QED
  BY <1>6 DEF TryCandidates

LEMMA KeyOrNone ==
  ASSUME NEW a, NEW b
  PROVE  TryCandidates(a, b) \in {pubkey, NoKey}
  BY DEF TryCandidates

LEMMA KeyIsSome == TypeOK => pubkey # NoKey
  BY ModuliAssumption DEF TypeOK, Scalar, NoKey

-----------------------------------------------------------------------------
(* The two halves of the loop's body. *)

(* A kangaroo that is where the other has been gets the key. *)
LEMMA HalfMeets ==
  ASSUME NEW w \in Walker, w.cached \in {NoPoint, w.log}, IsDistinguished(w),
         NEW other, NEW been, \A x \in been : XLow[x] \in DOMAIN other,
         AffineX(w.log) \in been
  PROVE  Meets(other, w) /\ Low(AffineOf(w)) = Low(w.log) /\ Low(w.log) \in DOMAIN other
  BY AffineOfLog DEF Meets, Low

LEMMA TameStepInv == ASSUME IInv, TameStep PROVE IInv'
<1> USE DEF IInv
<1> DEFINE hops == (ops + 1) % Jumps
           got == IF Meets(wildTable, tame)
                  THEN TryCandidates(tame.dist, Met(wildTable, tame)) ELSE NoKey
           new == IF IsDistinguished(tame) THEN Insert(tameTable, tame) ELSE tameTable
           now == IF IsDistinguished(tame) THEN seen["tame"] \cup {AffineX(tame.log)}
                                           ELSE seen["tame"]
           steps == IF MustEscape(Hop(tame)) THEN 0 ELSE since["tame"] + 1
<1>1. /\ pc = "tame" /\ ops' = hops /\ tame' = Step(tame, hops)
      /\ since' = [since EXCEPT !["tame"] = steps] /\ seen' = [seen EXCEPT !["tame"] = now]
      /\ UNCHANGED <<pubkey, start, rangeBits, timeout, wild, wildTable, candidate>>
      /\ \/ got # NoKey /\ result' = got /\ pc' = "done" /\ tameTable' = tameTable
         \/ got = NoKey /\ result' = result /\ pc' = "wild" /\ tameTable' = new
  BY DEF TameStep, Witness, Finish, inputs
<1>2. hops \in JumpIndex
  <2>1. ops \in Nat /\ Jumps \in Nat \ {0}
    BY CpuAssumption DEF TypeOK, JumpIndex
  <2> QED
    BY <2>1 DEF JumpIndex
<1>3. Mid \in Scalar /\ Mid \in Int /\ Limit \in Nat /\ pubkey \in Int
  BY RangeTypes
<1>4. Mid' = Mid /\ Limit' = Limit
  BY <1>1 DEF Mid, Limit
<1>5. got \in {pubkey, NoKey} /\ pubkey # NoKey
  BY KeyOrNone, KeyIsSome
<1> HIDE DEF hops
<1>6. /\ tame' \in Walker /\ OnWay(tame', Mid)
      /\ tame'.cycle = IF MustEscape(Hop(tame)) THEN 0 ELSE tame.cycle + 1
      /\ IsTable(new) /\ \A low \in DOMAIN new : Leads(Mid, new[low], low)
      /\ now \in SUBSET AffineCoord /\ \A x \in now : XLow[x] \in DOMAIN new
  <2>1. /\ tame \in Walker /\ OnWay(tame, Mid) /\ IsTable(tameTable)
        /\ \A low \in DOMAIN tameTable : Leads(Mid, tameTable[low], low)
        /\ seen["tame"] \in SUBSET AffineCoord
        /\ \A x \in seen["tame"] : XLow[x] \in DOMAIN tameTable
    BY <1>1 DEF TypeOK, Paths, TablesNamePoints, Recorded, Side
  <2> HIDE DEF new, now, got
  <2>2. /\ new = IF IsDistinguished(tame) THEN Insert(tameTable, tame) ELSE tameTable
        /\ now = IF IsDistinguished(tame) THEN seen["tame"] \cup {AffineX(tame.log)}
                                          ELSE seen["tame"]
    BY DEF new, now
  <2>3. /\ Step(tame, hops) \in Walker /\ OnWay(Step(tame, hops), Mid)
        /\ Step(tame, hops).cycle = IF MustEscape(Hop(tame)) THEN 0 ELSE tame.cycle + 1
    BY <1>2, <1>3, <2>1, StepKeeps
  <2>4. /\ IsTable(new) /\ \A low \in DOMAIN new : Leads(Mid, new[low], low)
        /\ now \in SUBSET AffineCoord /\ \A x \in now : XLow[x] \in DOMAIN new
    <3>1. AffineX(tame.log) \in AffineCoord /\ XLow[AffineX(tame.log)] = Low(tame.log)
      BY <2>1, LowType DEF Walker, Low
    <3>2. CASE IsDistinguished(tame)
      <4>1. /\ IsTable(Insert(tameTable, tame))
            /\ DOMAIN Insert(tameTable, tame) = DOMAIN tameTable \cup {Low(tame.log)}
            /\ \A low \in DOMAIN Insert(tameTable, tame) :
                 Leads(Mid, Insert(tameTable, tame)[low], low)
        BY <1>3, <2>1, InsertKeeps
      <4>2. new = Insert(tameTable, tame) /\ now = seen["tame"] \cup {AffineX(tame.log)}
        BY <2>2, <3>2
      <4> QED
        BY <2>1, <3>1, <4>1, <4>2
    <3>3. CASE ~IsDistinguished(tame)
      BY <2>1, <2>2, <3>3
    <3> QED
      BY <3>2, <3>3
  <2> QED
    BY <1>1, <2>3, <2>4
<1>7. got = NoKey /\ LowBitsTellPointsApart => now \cap seen["wild"] = {}
  <2> SUFFICES ASSUME LowBitsTellPointsApart, IsDistinguished(tame),
                      AffineX(tame.log) \in seen["wild"]
               PROVE  got = pubkey
    BY <1>1, <1>5 DEF Recorded
  <2>1. /\ tame \in Walker /\ tame.cached \in {NoPoint, tame.log} /\ tame.dist \in Scalar
        /\ \A x \in seen["wild"] : XLow[x] \in DOMAIN wildTable
    BY <1>1 DEF TypeOK, Paths, OnWay, Recorded, Walker
  <2>2. /\ Meets(wildTable, tame)
        /\ Low(AffineOf(tame)) = Low(tame.log) /\ Low(tame.log) \in DOMAIN wildTable
    BY <2>1, HalfMeets
  <2>3. PICK u \in Sign : tame.log = (u * Mid + tame.dist) % N
    BY DEF Paths, OnWay
  <2>4. PICK d \in Scalar : d = wildTable[Low(tame.log)]
    BY <2>2 DEF TypeOK, IsTable
  <2>5. PICK v \in Sign : Low((v * pubkey + d) % N) = Low(tame.log)
    BY <2>2, <2>4 DEF TablesNamePoints, Leads
  <2>6. TryCandidates(tame.dist, d) = pubkey
    BY <2>1, <2>3, <2>5, MeetingKey
  <2> QED
    BY <2>2, <2>4, <2>6 DEF Met
<1> HIDE DEF got, new, now
<1>8. TypeOK'
  <2>1. result' \in Scalar \cup {NoKey} /\ pc' \in {"wild", "done"} /\ IsTable(tameTable')
    BY <1>1, <1>5, <1>6 DEF TypeOK
  <2>2. since' \in [Side -> Nat]
    BY <1>1 DEF TypeOK, Side
  <2>3. seen' \in [Side -> SUBSET AffineCoord]
    BY <1>1, <1>6 DEF TypeOK, Side
  <2> QED
    BY <1>1, <1>2, <1>6, <2>1, <2>2, <2>3 DEF TypeOK
<1>9. rangeBits' \in RangeBits /\ Paths'
  BY <1>1, <1>4, <1>6 DEF Paths
<1>10. Counts'
  BY <1>1, <1>6 DEF Counts, TypeOK, Side
<1>11. TablesNamePoints'
  BY <1>1, <1>4, <1>6 DEF TablesNamePoints
<1>12. seen'["tame"] = now /\ seen'["wild"] = seen["wild"]
  BY <1>1 DEF TypeOK, Side
<1>13. Recorded'
  BY <1>1, <1>6, <1>7, <1>12 DEF Recorded, LowBitsTellPointsApart
<1>14. Tried'
  BY <1>1, <1>5 DEF Tried
<1>15. MeetingSolves'
  BY <1>1, <1>5, <1>7, <1>12 DEF MeetingSolves, LowBitsTellPointsApart
<1> QED
  BY <1>8, <1>9, <1>10, <1>11, <1>13, <1>14, <1>15

LEMMA WildStepInv == ASSUME IInv, WildStep PROVE IInv'
<1> USE DEF IInv
<1> DEFINE hops == (ops + 1) % Jumps
           got == IF Meets(tameTable, wild)
                  THEN TryCandidates(Met(tameTable, wild), wild.dist) ELSE NoKey
           new == IF IsDistinguished(wild) THEN Insert(wildTable, wild) ELSE wildTable
           now == IF IsDistinguished(wild) THEN seen["wild"] \cup {AffineX(wild.log)}
                                           ELSE seen["wild"]
           steps == IF MustEscape(Hop(wild)) THEN 0 ELSE since["wild"] + 1
<1>1. /\ pc = "wild" /\ ops' = hops /\ wild' = Step(wild, hops)
      /\ since' = [since EXCEPT !["wild"] = steps] /\ seen' = [seen EXCEPT !["wild"] = now]
      /\ UNCHANGED <<pubkey, start, rangeBits, timeout, tame, tameTable, candidate>>
      /\ \/ got # NoKey /\ result' = got /\ pc' = "done" /\ wildTable' = wildTable
         \/ got = NoKey /\ result' = result /\ pc' = "tame" /\ wildTable' = new
  BY DEF WildStep, Witness, Finish, inputs
<1>2. hops \in JumpIndex
  <2>1. ops \in Nat /\ Jumps \in Nat \ {0}
    BY CpuAssumption DEF TypeOK, JumpIndex
  <2> QED
    BY <2>1 DEF JumpIndex
<1>3. Mid \in Scalar /\ Mid \in Int /\ Limit \in Nat /\ pubkey \in Int
  BY RangeTypes
<1>4. Mid' = Mid /\ Limit' = Limit
  BY <1>1 DEF Mid, Limit
<1>5. got \in {pubkey, NoKey} /\ pubkey # NoKey
  BY KeyOrNone, KeyIsSome
<1> HIDE DEF hops
<1>6. /\ wild' \in Walker /\ OnWay(wild', pubkey)
      /\ wild'.cycle = IF MustEscape(Hop(wild)) THEN 0 ELSE wild.cycle + 1
      /\ IsTable(new) /\ \A low \in DOMAIN new : Leads(pubkey, new[low], low)
      /\ now \in SUBSET AffineCoord /\ \A x \in now : XLow[x] \in DOMAIN new
  <2>1. /\ wild \in Walker /\ OnWay(wild, pubkey) /\ IsTable(wildTable)
        /\ \A low \in DOMAIN wildTable : Leads(pubkey, wildTable[low], low)
        /\ seen["wild"] \in SUBSET AffineCoord
        /\ \A x \in seen["wild"] : XLow[x] \in DOMAIN wildTable
    BY <1>1 DEF TypeOK, Paths, TablesNamePoints, Recorded, Side
  <2> HIDE DEF new, now, got
  <2>2. /\ new = IF IsDistinguished(wild) THEN Insert(wildTable, wild) ELSE wildTable
        /\ now = IF IsDistinguished(wild) THEN seen["wild"] \cup {AffineX(wild.log)}
                                          ELSE seen["wild"]
    BY DEF new, now
  <2>3. /\ Step(wild, hops) \in Walker /\ OnWay(Step(wild, hops), pubkey)
        /\ Step(wild, hops).cycle = IF MustEscape(Hop(wild)) THEN 0 ELSE wild.cycle + 1
    BY <1>2, <1>3, <2>1, StepKeeps
  <2>4. /\ IsTable(new) /\ \A low \in DOMAIN new : Leads(pubkey, new[low], low)
        /\ now \in SUBSET AffineCoord /\ \A x \in now : XLow[x] \in DOMAIN new
    <3>1. AffineX(wild.log) \in AffineCoord /\ XLow[AffineX(wild.log)] = Low(wild.log)
      BY <2>1, LowType DEF Walker, Low
    <3>2. CASE IsDistinguished(wild)
      <4>1. /\ IsTable(Insert(wildTable, wild))
            /\ DOMAIN Insert(wildTable, wild) = DOMAIN wildTable \cup {Low(wild.log)}
            /\ \A low \in DOMAIN Insert(wildTable, wild) :
                 Leads(pubkey, Insert(wildTable, wild)[low], low)
        BY <1>3, <2>1, InsertKeeps
      <4>2. new = Insert(wildTable, wild) /\ now = seen["wild"] \cup {AffineX(wild.log)}
        BY <2>2, <3>2
      <4> QED
        BY <2>1, <3>1, <4>1, <4>2
    <3>3. CASE ~IsDistinguished(wild)
      BY <2>1, <2>2, <3>3
    <3> QED
      BY <3>2, <3>3
  <2> QED
    BY <1>1, <2>3, <2>4
<1>7. got = NoKey /\ LowBitsTellPointsApart => seen["tame"] \cap now = {}
  <2> SUFFICES ASSUME LowBitsTellPointsApart, IsDistinguished(wild),
                      AffineX(wild.log) \in seen["tame"]
               PROVE  got = pubkey
    BY <1>1, <1>5 DEF Recorded
  <2>1. /\ wild \in Walker /\ wild.cached \in {NoPoint, wild.log} /\ wild.dist \in Scalar
        /\ \A x \in seen["tame"] : XLow[x] \in DOMAIN tameTable
    BY <1>1 DEF TypeOK, Paths, OnWay, Recorded, Walker
  <2>2. /\ Meets(tameTable, wild)
        /\ Low(AffineOf(wild)) = Low(wild.log) /\ Low(wild.log) \in DOMAIN tameTable
    BY <2>1, HalfMeets
  <2>3. PICK v \in Sign : wild.log = (v * pubkey + wild.dist) % N
    BY DEF Paths, OnWay
  <2>4. PICK d \in Scalar : d = tameTable[Low(wild.log)]
    BY <2>2 DEF TypeOK, IsTable
  <2>5. PICK u \in Sign : Low((u * Mid + d) % N) = Low(wild.log)
    BY <2>2, <2>4 DEF TablesNamePoints, Leads
  <2>6. TryCandidates(d, wild.dist) = pubkey
    BY <2>1, <2>3, <2>5, MeetingKey
  <2> QED
    BY <2>2, <2>4, <2>6 DEF Met
<1> HIDE DEF got, new, now
<1>8. TypeOK'
  <2>1. result' \in Scalar \cup {NoKey} /\ pc' \in {"tame", "done"} /\ IsTable(wildTable')
    BY <1>1, <1>5, <1>6 DEF TypeOK
  <2>2. since' \in [Side -> Nat]
    BY <1>1 DEF TypeOK, Side
  <2>3. seen' \in [Side -> SUBSET AffineCoord]
    BY <1>1, <1>6 DEF TypeOK, Side
  <2> QED
    BY <1>1, <1>2, <1>6, <2>1, <2>2, <2>3 DEF TypeOK
<1>9. rangeBits' \in RangeBits /\ Paths'
  BY <1>1, <1>4, <1>6 DEF Paths
<1>10. Counts'
  BY <1>1, <1>6 DEF Counts, TypeOK, Side
<1>11. TablesNamePoints'
  BY <1>1, <1>4, <1>6 DEF TablesNamePoints
<1>12. seen'["wild"] = now /\ seen'["tame"] = seen["tame"]
  BY <1>1 DEF TypeOK, Side
<1>13. Recorded'
  BY <1>1, <1>6, <1>7, <1>12 DEF Recorded, LowBitsTellPointsApart
<1>14. Tried'
  BY <1>1, <1>5 DEF Tried
<1>15. MeetingSolves'
  BY <1>1, <1>5, <1>7, <1>12 DEF MeetingSolves, LowBitsTellPointsApart
<1> QED
  BY <1>8, <1>9, <1>10, <1>11, <1>13, <1>14, <1>15

-----------------------------------------------------------------------------
(* The clock and the search key by key. *)

LEMMA TimeIsUpInv == ASSUME IInv, TimeIsUp PROVE IInv'
<1> USE DEF IInv
<1>1. /\ pc \in {"tame", "fallback"} /\ pc' = "expired"
      /\ UNCHANGED <<pubkey, start, rangeBits, timeout, tame, wild, tameTable, wildTable, ops,
                     candidate, result, since, seen>>
  BY DEF TimeIsUp, inputs
<1>2. Mid' = Mid
  BY <1>1 DEF Mid
<1>3. TypeOK'
  BY <1>1 DEF TypeOK
<1>4. Paths' /\ Counts' /\ TablesNamePoints'
  BY <1>1, <1>2 DEF Paths, Counts, TablesNamePoints
<1>5. Recorded' /\ Tried' /\ MeetingSolves'
  BY <1>1 DEF Recorded, Tried, MeetingSolves, LowBitsTellPointsApart
<1> QED
  BY <1>1, <1>3, <1>4, <1>5

LEMMA TryKeyInv == ASSUME IInv, TryKey PROVE IInv'
<1> USE DEF IInv
<1>1. /\ pc = "fallback"
      /\ UNCHANGED <<pubkey, start, rangeBits, timeout, tame, wild, tameTable, wildTable, ops,
                     since, seen>>
      /\ \/ result' = pubkey /\ pc' = "done" /\ candidate' = candidate
         \/ /\ (start + candidate) % N # pubkey
            /\ candidate' = candidate + 1 /\ pc' = pc /\ result' = result
  BY DEF TryKey, Finish, inputs
<1>2. Mid' = Mid /\ Limit' = Limit /\ candidate \in Nat
  BY <1>1 DEF Mid, Limit, TypeOK
<1>3. TypeOK'
  BY <1>1 DEF TypeOK
<1>4. rangeBits' \in RangeBits /\ Paths' /\ Counts' /\ TablesNamePoints'
  BY <1>1, <1>2 DEF Paths, Counts, TablesNamePoints
<1>5. Tried'
  <2>1. \A i \in 0 .. (candidate + 1) - 1 : i \in 0 .. candidate - 1 \/ i = candidate
    BY <1>2
  <2> QED
    BY <1>1, <1>2, <2>1, KeyIsSome DEF Tried
<1>6. Recorded' /\ MeetingSolves'
  BY <1>1 DEF Recorded, MeetingSolves, LowBitsTellPointsApart
<1> QED
  BY <1>3, <1>4, <1>5, <1>6

LEMMA RangeExhaustedInv == ASSUME IInv, RangeExhausted PROVE IInv'
<1> USE DEF IInv
<1>1. /\ pc = "fallback" /\ candidate >= Limit /\ result' = NoKey /\ pc' = "done"
      /\ UNCHANGED <<pubkey, start, rangeBits, timeout, tame, wild, tameTable, wildTable, ops,
                     candidate, since, seen>>
  BY DEF RangeExhausted, Finish, inputs
<1>2. Mid' = Mid /\ Limit' = Limit
  BY <1>1 DEF Mid, Limit
<1>3. TypeOK'
  BY <1>1 DEF TypeOK
<1>4. rangeBits' \in RangeBits /\ Paths' /\ Counts' /\ TablesNamePoints'
  BY <1>1, <1>2 DEF Paths, Counts, TablesNamePoints
<1>5. Tried'
  BY <1>1, <1>2 DEF Tried
<1>6. Recorded' /\ MeetingSolves'
  BY <1>1 DEF Recorded, MeetingSolves, LowBitsTellPointsApart
<1> QED
  BY <1>3, <1>4, <1>5, <1>6

-----------------------------------------------------------------------------
LEMMA InitInv == Init => IInv
<1> SUFFICES ASSUME Init PROVE IInv
  OBVIOUS
<1>1. /\ pubkey \in Scalar /\ start \in Scalar /\ rangeBits \in RangeBits /\ timeout \in {0, 1}
      /\ pc \in {"fallback", "tame"} /\ ops = 0 /\ candidate = 0 /\ result = NoKey
      /\ tame = Released(Mid) /\ wild = Released(pubkey)
      /\ tameTable = << >> /\ wildTable = << >>
      /\ since = [side \in Side |-> 0] /\ seen = [side \in Side |-> {}]
  BY DEF Init, Begin
<1>2. Mid \in Scalar
  <2>1. start + TwoTo[rangeBits - 1] \in Int
    <3>1. PICK e \in Nat : rangeBits - 1 = e
      BY <1>1, CpuAssumption
    <3>2. start \in Int
      BY <1>1, ModuliAssumption DEF Scalar
    <3>3. TwoTo[e] \in Nat
      BY TwoToDef
    <3> QED
      BY <3>1, <3>2, <3>3
  <2> QED
    BY <2>1, DivMod DEF Mid
<1>3. \A log \in Scalar : Released(log) \in Walker /\ OnWay(Released(log), log)
  <2> SUFFICES ASSUME NEW log \in Scalar
               PROVE  Released(log) \in Walker /\ OnWay(Released(log), log)
    OBVIOUS
  <2>1. /\ 0 \in 0 .. CycleCap /\ 0 \in Scalar /\ 0 \in 0 .. LowModulus - 1
        /\ 0 \in 0 .. RepeatThreshold
    BY CpuAssumption, ModuliAssumption DEF Scalar
  <2>2. Released(log) \in Walker
    BY <2>1 DEF Released, Walker, NoRepeat
  <2>3. 1 \in Sign /\ log = (1 * log + 0) % N
    <3>1. 1 * log + 0 = log
      BY ModuliAssumption DEF Scalar
    <3> QED
      BY <3>1, ModOfSmall DEF Sign
  <2>4. Released(log).log = log /\ Released(log).dist = 0 /\ Released(log).cached = NoPoint
    BY DEF Released
  <2> QED
    BY <2>2, <2>3, <2>4 DEF OnWay
<1>4. IsTable(<< >>) /\ DOMAIN << >> = {}
  BY DEF IsTable
<1>5. TypeOK
  <2>1. 0 \in JumpIndex
    BY CpuAssumption DEF JumpIndex
  <2>2. since \in [Side -> Nat] /\ seen \in [Side -> SUBSET AffineCoord]
    BY <1>1
  <2>3. rangeBits \in Nat \ {0}
    BY <1>1, CpuAssumption
  <2> QED
    BY <1>1, <1>2, <1>3, <1>4, <2>1, <2>2, <2>3 DEF TypeOK
<1>6. Paths
  BY <1>1, <1>2, <1>3 DEF Paths
<1>7. Counts
  BY <1>1 DEF Counts, Released, Side
<1>8. TablesNamePoints /\ Recorded /\ MeetingSolves
  BY <1>1, <1>4 DEF TablesNamePoints, Recorded, MeetingSolves, Side
<1>9. Tried
  BY <1>1 DEF Tried
<1> QED
  BY <1>1, <1>5, <1>6, <1>7, <1>8, <1>9 DEF IInv

LEMMA NextPreserves == IInv /\ [Next]_vars => IInv'
<1> SUFFICES ASSUME IInv, [Next]_vars PROVE IInv'
  OBVIOUS
<1>1. CASE TameStep
  BY <1>1, TameStepInv
<1>2. CASE WildStep
  BY <1>2, WildStepInv
<1>3. CASE TimeIsUp
  BY <1>3, TimeIsUpInv
<1>4. CASE TryKey
  BY <1>4, TryKeyInv
<1>5. CASE RangeExhausted
  BY <1>5, RangeExhaustedInv
<1>6. CASE Terminated \/ UNCHANGED vars
  <2>1. UNCHANGED vars
    BY <1>6 DEF Terminated
  <2>2. UNCHANGED <<pubkey, start, rangeBits, timeout, pc, tame, wild, tameTable, wildTable,
                    ops, candidate, result, since, seen>>
    BY <2>1 DEF vars
  <2>3. Mid' = Mid /\ Limit' = Limit
    BY <2>2 DEF Mid, Limit
  <2>4. TypeOK' /\ Tried'
    BY <2>2, <2>3 DEF IInv, TypeOK, Tried
  <2>5. Paths' /\ Counts' /\ TablesNamePoints'
    BY <2>2, <2>3 DEF IInv, Paths, Counts, TablesNamePoints
  <2>6. Recorded' /\ MeetingSolves'
    BY <2>2 DEF IInv, Recorded, MeetingSolves, LowBitsTellPointsApart
  <2> QED
    BY <2>2, <2>4, <2>5, <2>6 DEF IInv
<1> QED
  BY <1>1, <1>2, <1>3, <1>4, <1>5, <1>6 DEF Next

LEMMA Invariance == Spec => []IInv
  BY InitInv, NextPreserves, PTL DEF Spec

-----------------------------------------------------------------------------
(* What follows from it. *)

(* Every entry of either table pairs the low bits of a point with a distance that leads
   to it, whatever reflections, escapes and cached coordinates came before
   (kangaroo_step, check_and_insert). *)
THEOREM TablesAreRight == Spec => []TablesNamePoints
<1>1. IInv => TablesNamePoints
  BY DEF IInv
<1> QED
  BY <1>1, Invariance, PTL

(* When the low bits tell points apart, two kangaroos that have been at one
   distinguished x have given the key (solve, try_candidates). *)
THEOREM MeetingGivesKey == Spec => []MeetingSolves
<1>1. IInv => MeetingSolves
  BY DEF IInv
<1> QED
  BY <1>1, Invariance, PTL

(* No kangaroo takes more than CycleCap steps without an escape, so it does not stay
   in a cycle (kangaroo_step). *)
THEOREM CyclesAreLeft == Spec => []EscapesInTime
<1>1. IInv => EscapesInTime
  <2> SUFFICES ASSUME IInv PROVE EscapesInTime
    OBVIOUS
  <2>1. tame.cycle \in 0 .. CycleCap /\ wild.cycle \in 0 .. CycleCap
    BY DEF IInv, TypeOK, Walker
  <2>2. since["tame"] <= CycleCap /\ since["wild"] <= CycleCap
    BY <2>1 DEF IInv, Counts
  <2> QED
    BY <2>2 DEF EscapesInTime, Side
<1> QED
  BY <1>1, Invariance, PTL

(* The search key by key that ends with nothing has tried every key of the range
   (bruteforce_fallback). *)
THEOREM EveryKeyIsTried == Spec => []FallbackIsComplete
<1>1. IInv => FallbackIsComplete
  <2> SUFFICES ASSUME IInv, pc = "done", result = NoKey, NEW i \in 0 .. TwoTo[rangeBits] - 1
               PROVE  pubkey # (start + i) % N
    BY DEF FallbackIsComplete
  <2>1. candidate >= Limit /\ candidate \in Nat /\ TwoTo[rangeBits] \in Nat
    BY TwoToDef, CpuAssumption DEF IInv, Tried, TypeOK
  <2>2. i \in 0 .. candidate - 1
    BY <2>1 DEF Limit
  <2> QED
    BY <2>2 DEF IInv, Tried
<1> QED
  BY <1>1, Invariance, PTL

-----------------------------------------------------------------------------
(* The key of the transformed problem. *)

LEMMA ProductMod ==
  ASSUME NEW a \in Nat, NEW b \in Nat
  PROVE  ((a % N) * b) % N = (a * b) % N
<1> DEFINE q == a \div N
           r == a % N
<1>1. q \in Int /\ r \in Scalar /\ a = N * q + r
  BY DivMod
<1> HIDE DEF q, r
<1>2. N \in Int /\ r \in Int
  BY <1>1, ModuliAssumption DEF Scalar
<1>3. a * b = r * b + N * (q * b)
  BY <1>1, <1>2
<1>4. r * b \in Int /\ q * b \in Int
  BY <1>1, <1>2
<1> QED
  BY <1>3, <1>4, ModAddMultiple DEF r

(* The solver is given the logarithm it is to find. *)
Given ==
  /\ key \in Scalar /\ step \in Nat /\ first \in Nat /\ pubkey \in Scalar
  /\ IF step = 1 THEN pubkey = key ELSE (step * pubkey) % N = (key - first) % N
  /\ result \in {pubkey, NoKey}

LEMMA SearchInitGiven == SearchInit => Given
<1> SUFFICES ASSUME SearchInit PROVE Given
  OBVIOUS
<1>1. PICK c \in Constraints : ~Refused(c[1], c[2]) /\ step = c[1] /\ first = c[2]
  BY DEF SearchInit
<1>2. /\ step \in Nat /\ first \in Nat /\ key \in Scalar /\ result = NoKey
      /\ LimbBase \in Nat
  BY <1>1, ConstraintAssumption, LimbAssumption DEF SearchInit, Begin, Limb
<1>3. \A p \in Scalar : \E j \in Scalar : (step * j) % N = p
  BY <1>1, ConstraintAssumption
<1>4. key \in Int /\ key % N = key
  BY <1>2, ModOfSmall, ModuliAssumption DEF Scalar
<1>5. CASE step = 1
  <2>1. pubkey = LogTo(1, key)
    BY <1>5 DEF SearchInit, Transformed
  <2>2. \E j \in Scalar : (1 * j) % N = key
    BY <1>2, <1>3, <1>5
  <2>3. pubkey \in Scalar /\ (1 * pubkey) % N = key
    BY <2>1, <2>2 DEF LogTo
  <2>4. 1 * pubkey = pubkey /\ pubkey % N = pubkey
    BY <2>3, ModOfSmall, ModuliAssumption DEF Scalar
  <2> QED
    BY <1>2, <1>5, <2>3, <2>4 DEF Given
<1>6. CASE step # 1
  <2> DEFINE p == (key - first) % N
  <2>1. pubkey = LogTo(step % N, p)
    BY <1>6 DEF SearchInit, Transformed
  <2>2. p \in Scalar
    <3>1. key - first \in Int
      BY <1>2, <1>4
    <3> QED
      BY <3>1, DivMod
  <2> HIDE DEF p
  <2>3. \A j \in Scalar : ((step % N) * j) % N = (step * j) % N
    <3>1. Scalar \subseteq Nat
      BY ModuliAssumption DEF Scalar
    <3> QED
      BY <1>2, <3>1, ProductMod
  <2>4. \E j \in Scalar : ((step % N) * j) % N = p
    BY <1>3, <2>2, <2>3
  <2>5. pubkey \in Scalar /\ ((step % N) * pubkey) % N = p
    BY <2>1, <2>4 DEF LogTo
  <2>6. (step * pubkey) % N = p
    BY <2>3, <2>5
  <2> QED
    BY <1>2, <1>6, <2>5, <2>6 DEF Given, p
<1> QED
  BY <1>5, <1>6

LEMMA SearchNextGiven == Given /\ [SearchNext]_searchVars => Given'
<1> SUFFICES ASSUME Given, [SearchNext]_searchVars PROVE Given'
  OBVIOUS
<1>1. UNCHANGED <<key, step, first>>
  BY DEF SearchNext, searchVars, arguments
<1>2. pubkey' = pubkey
  BY DEF SearchNext, searchVars, vars, Next, TameStep, WildStep, TimeIsUp, TryKey,
         RangeExhausted, Terminated, inputs
<1>3. result' \in {pubkey, NoKey}
  <2>1. result \in {pubkey, NoKey}
    BY DEF Given
  <2>2. CASE TameStep
    BY <2>1, <2>2, KeyOrNone DEF TameStep, Finish
  <2>3. CASE WildStep
    BY <2>1, <2>3, KeyOrNone DEF WildStep, Finish
  <2>4. CASE TryKey \/ RangeExhausted
    BY <2>1, <2>4 DEF TryKey, RangeExhausted, Finish
  <2>5. CASE TimeIsUp \/ Terminated \/ UNCHANGED searchVars
    BY <2>1, <2>5 DEF TimeIsUp, Terminated, searchVars, vars
  <2> QED
    BY <2>2, <2>3, <2>4, <2>5 DEF SearchNext, Next
<1> QED
  BY <1>1, <1>2, <1>3 DEF Given

(* What the solver returns for the transformed problem gives back the private key, for
   every constraint whose step has an inverse modulo the order (recover_key_from_j). *)
THEOREM ConstraintIsUndone == SearchSpec => []KeyIsRecovered
<1>1. Given => KeyIsRecovered
  <2> SUFFICES ASSUME Given, result = pubkey PROVE RecoverKey(step, first, pubkey) = key
    BY DEF Given, KeyIsRecovered
  <2>1. /\ key \in Scalar /\ key \in Int /\ step \in Nat /\ first \in Nat
        /\ pubkey \in Nat /\ key % N = key
    BY ModOfSmall, ModuliAssumption DEF Given, Scalar
  <2>2. CASE step = 1
    BY <2>2 DEF Given, RecoverKey
  <2>3. CASE step # 1
    <3>1. (step * pubkey) % N = (key - first) % N
      BY <2>3 DEF Given
    <3>2. step * pubkey \in Int /\ key - first \in Int
      BY <2>1
    <3>3. (first + step * pubkey) % N = (first + (key - first)) % N
      <4> DEFINE a == step * pubkey
                 b == key - first
      <4>1. a \in Int /\ b \in Int /\ first \in Int /\ a % N = b % N
        BY <2>1, <3>1, <3>2
      <4> HIDE DEF a, b
      <4>2. (first + a) % N = (first + b) % N
        BY <4>1, ModAdd
      <4> QED
        BY <4>2 DEF a, b
    <3>4. first + (key - first) = key
      BY <2>1
    <3> QED
      BY <2>1, <2>3, <3>3, <3>4 DEF RecoverKey
  <2> QED
    BY <2>2, <2>3
<1> QED
  BY <1>1, SearchInitGiven, SearchNextGiven, PTL DEF SearchSpec

-----------------------------------------------------------------------------
(* The range of the transformed problem. *)

(* The solver is given the start and the size that run() derives from the arguments. *)
Posed ==
  /\ <<step, first>> \in Constraints /\ ~Refused(step, first)
  /\ from \in Word /\ bits \in Nat
  /\ LET problem == Transformed(step, first, key, Limbs(from), bits)
     IN start = Value(problem.start) % N /\ rangeBits = problem.rangeBits

LEMMA SearchInitPosed == SearchInit => Posed
<1> SUFFICES ASSUME SearchInit PROVE Posed
  OBVIOUS
<1>1. PICK c \in Constraints : ~Refused(c[1], c[2]) /\ step = c[1] /\ first = c[2]
  BY DEF SearchInit
<1>2. c = <<step, first>>
  BY <1>1, ConstraintAssumption
<1> QED
  BY <1>1, <1>2, ConstraintAssumption, CpuAssumption DEF SearchInit, Posed

LEMMA SearchNextPosed == Posed /\ [SearchNext]_searchVars => Posed'
<1> SUFFICES ASSUME Posed, [SearchNext]_searchVars PROVE Posed'
  OBVIOUS
<1>1. UNCHANGED <<key, step, first, from, bits>>
  BY DEF SearchNext, searchVars, arguments
<1>2. UNCHANGED <<start, rangeBits>>
  BY DEF SearchNext, searchVars, vars, Next, TameStep, WildStep, TimeIsUp, TryKey,
         RangeExhausted, Terminated, inputs
<1> QED
  BY <1>1, <1>2 DEF Posed

(* Two logarithms to a base that reaches every point are the same. *)
LEMMA LogIsUnique ==
  ASSUME NEW m \in Nat, \A p \in Scalar : \E j \in Scalar : (m * j) % N = p,
         NEW i \in Scalar, NEW j \in Scalar, (m * i) % N = (m * j) % N
  PROVE  i = j
<1>1. i \in Int /\ j \in Int /\ 1 \in Scalar /\ i % N = i /\ j % N = j
  BY ModOfSmall, ModuliAssumption DEF Scalar
<1>2. PICK u \in Scalar : (m * u) % N = 1
  BY <1>1
<1>3. u \in Nat /\ m * u \in Int
  BY ModuliAssumption DEF Scalar
<1>4. PICK y \in Int : m * u = 1 + N * y
  <2>1. 1 % N = 1
    BY <1>1, ModOfSmall
  <2> QED
    BY <1>2, <1>3, <2>1, SameModDiffer
<1>5. PICK z \in Int : m * i = m * j + N * z
  <2>1. m * i \in Int /\ m * j \in Int
    BY <1>1
  <2> QED
    BY <2>1, SameModDiffer
<1>6. u * (m * i) = i + N * (y * i) /\ u * (m * j) = j + N * (y * j)
  <2>1. \A x \in Int : u * (m * x) = (m * u) * x
    BY <1>3
  <2>2. \A x \in Int : (1 + N * y) * x = x + N * (y * x)
    BY ModuliAssumption
  <2> QED
    BY <1>1, <1>4, <2>1, <2>2
<1>7. u * (m * i) = u * (m * j) + N * (u * z)
  BY <1>1, <1>3, <1>5, ModuliAssumption
<1>8. i = j + N * (y * j + u * z - y * i)
  BY <1>1, <1>3, <1>6, <1>7, ModuliAssumption
<1>9. y * j + u * z - y * i \in Int
  BY <1>1, <1>3
<1>10. i % N = j % N
  BY <1>1, <1>8, <1>9, ModAddMultiple
<1> QED
  BY <1>1, <1>10

(* A key of the range and of the class has its j inside the range the solver is given
   (ModConstraint::new, effective_range_bits). *)
THEOREM WindowIsKept == SearchSpec => []WindowHoldsKey
<1>1. Given /\ Posed => WindowHoldsKey
  <2> SUFFICES ASSUME Given, Posed, key \in from .. from + TwoTo[bits] - 1,
                      from + TwoTo[bits] <= N, key % step = first
               PROVE  (pubkey - start) % N < TwoTo[rangeBits]
    BY DEF WindowHoldsKey
  <2> DEFINE problem == Transformed(step, first, key, Limbs(from), bits)
             low == Value(problem.start)
             j == (key - first) \div step
  <2>1. /\ step \in Limb /\ step # 0 /\ first \in 0 .. step - 1 /\ step \in Nat
        /\ first \in Nat /\ key \in Nat /\ from \in Word /\ bits \in Nat
        /\ key >= from /\ key < from + TwoTo[bits]
        /\ \A p \in Scalar : \E i \in Scalar : (step * i) % N = p
    <3>1. /\ step \in Limb /\ first \in Limb /\ step # 0 /\ ~(first >= step)
          /\ \A p \in Scalar : \E i \in Scalar : (step * i) % N = p
      BY ConstraintAssumption DEF Posed, Refused
    <3>2. step \in Nat /\ first \in Nat /\ key \in Nat /\ from \in Nat /\ TwoTo[bits] \in Nat
      BY <3>1, LimbAssumption, ModuliAssumption, TwoToDef DEF Limb, Given, Posed, Scalar, Word
    <3> QED
      BY <3>1, <3>2 DEF Posed
  <2>2. /\ low \in Nat /\ problem.rangeBits \in Nat
        /\ j \in low .. low + TwoTo[problem.rangeBits] - 1
        /\ key = step * j + first
    BY <2>1, TransformedHolds
  <2>3. start = low % N /\ rangeBits = problem.rangeBits
    BY DEF Posed
  <2> HIDE DEF problem, low, j
  <2>4. TwoTo[rangeBits] \in Nat
    BY <2>2, <2>3, TwoToDef
  <2>5. j \in Scalar /\ low \in Scalar
    <3>1. j \in Nat
      BY <2>2, <2>3, <2>4
    <3>2. step * j >= j /\ step * j \in Nat
      BY <2>1, <3>1
    <3> QED
      BY <2>1, <2>2, <2>3, <2>4, <3>1, <3>2, ModuliAssumption DEF Given, Scalar
  <2>6. pubkey = j
    <3>1. key - first = step * j /\ pubkey \in Scalar
      BY <2>1, <2>2, <2>5, ModuliAssumption DEF Scalar, Given
    <3>2. CASE step = 1
      BY <2>1, <2>2, <2>5, <3>2, ModuliAssumption DEF Given, Scalar
    <3>3. CASE step # 1
      <4>1. (step * pubkey) % N = (step * j) % N
        BY <3>1, <3>3 DEF Given
      <4> QED
        BY <2>1, <2>5, <3>1, <4>1, LogIsUnique
    <3> QED
      BY <3>2, <3>3
  <2>7. pubkey - start \in Scalar /\ pubkey - start < TwoTo[rangeBits]
    <3>1. start = low
      BY <2>3, <2>5, ModOfSmall
    <3> QED
      BY <2>2, <2>3, <2>4, <2>5, <2>6, <3>1, ModuliAssumption DEF Scalar
  <2> QED
    BY <2>7, ModOfSmall
<1> QED
  BY <1>1, SearchInitGiven, SearchNextGiven, SearchInitPosed, SearchNextPosed, PTL
     DEF SearchSpec
=============================================================================
