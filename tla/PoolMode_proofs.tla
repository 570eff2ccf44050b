---------------------------- MODULE PoolMode_proofs ----------------------------
(***************************************************************************)
(* The single-GPU loop, its file and the pool bridge, for any meetings, any *)
(* number and size of batches and records, any limits and any number of    *)
(* starts.                                                                 *)
(***************************************************************************)
EXTENDS PoolMode, SequenceTheorems, FiniteSetTheorems, WellFoundedInduction, TLAPS

-----------------------------------------------------------------------------
(* The inductive invariant of the solver. *)

Pieces == [dp : Nat, half : {1, 2}]

SolverTypes ==
  /\ at \in {"step", "read", "write", "half", "end", "off"}
  /\ ops \in Nat
  /\ pending \in Seq(Nat) /\ lastDps \in Seq(Nat) /\ toWrite \in Seq(Nat)
  /\ key \in {"none", "good", "wrong"}
  /\ found \in 0 .. MaxPoints /\ born \in Nat
  /\ outcome \in {"running", "found", "limit", "failed"}
  /\ torn \in BOOLEAN
  /\ file \in Seq(Pieces)
  /\ at = "half" => toWrite # << >>

(* The points from m on, one after the other. *)
Consecutive(seq, m) == \A i \in 1 .. Len(seq) : seq[i] = m + i

(* The points of this and earlier processes before those that wait to be written. *)
Waiting == IF at = "read" THEN lastDps ELSE toWrite
Mark == found - Len(pending) - Len(Waiting)

BatchInv ==
  /\ born <= Mark
  /\ Consecutive(pending, found - Len(pending))
  /\ Consecutive(Waiting, Mark)
  /\ at \in {"step", "read", "end", "off"} => toWrite = << >>

(* The table holds points of this process that were read back, and the outcome is
   that of the table. *)
OutcomeInv ==
  /\ at # "end" <=> outcome = "running"
  /\ at \in {"step", "read"} => ~Search!Solved(table)
  /\ at \in {"write", "half"} => (key = "good" <=> Search!Solved(table))
  /\ outcome = "found" <=> (at = "end" /\ Search!Solved(table))

SolverInv == SolverTypes /\ BatchInv /\ OutcomeInv

-----------------------------------------------------------------------------
(* Facts about numbers and sequences. *)

LEMMA LeastElement ==
  ASSUME NEW S \in SUBSET Nat, S # {}
  PROVE  \E m \in S : \A n \in S : m <= n
<1>1. IsWellFoundedOn(OpToRel(<, Nat), Nat)
  BY NatLessThanWellFounded
<1>2. PICK m \in S : \A n \in S : ~(<<n, m>> \in OpToRel(<, Nat))
  BY <1>1, WFMin
<1>3. ASSUME NEW n \in S PROVE m <= n
  <2>1. m \in Nat /\ n \in Nat /\ <<n, m>> \in Nat \X Nat
    BY <1>3
  <2>2. <<n, m>>[1] = n /\ <<n, m>>[2] = m
    OBVIOUS
  <2>3. ~(n < m)
    BY <1>2, <1>3, <2>1, <2>2, Zenon DEF OpToRel
  <2> QED
    BY <2>1, <2>3
<1> QED
  BY <1>3

LEMMA Between ==
  \A b \in Nat, m \in Int : \A n \in b + 1 .. m : ~(m <= b)
  OBVIOUS

LEMMA Tails ==
  ASSUME NEW s \in Seq(Nat), s # << >>, NEW m \in Int, Consecutive(s, m)
  PROVE  /\ Head(s) = m + 1 /\ Head(s) \in Nat
         /\ Tail(s) \in Seq(Nat)
         /\ Len(s) \in Nat \ {0} /\ Len(Tail(s)) = Len(s) - 1
         /\ Consecutive(Tail(s), m + 1)
<1>1. /\ Head(s) \in Nat /\ Tail(s) \in Seq(Nat) /\ Len(Tail(s)) = Len(s) - 1
      /\ \A i \in 1 .. Len(Tail(s)) : Tail(s)[i] = s[i + 1]
  BY HeadTailProperties
<1>2. Len(s) \in Nat \ {0}
  BY EmptySeq
<1>3. Head(s) = s[1]
  OBVIOUS
<1>4. s[1] = m + 1
  BY <1>2 DEF Consecutive
<1>5. Consecutive(Tail(s), m + 1)
  BY <1>1, <1>2 DEF Consecutive
<1> QED
  BY <1>1, <1>2, <1>3, <1>4, <1>5

LEMMA EmptyRun ==
  /\ << >> \in Seq(Nat) /\ Len(<< >>) = 0
  /\ \A m : Consecutive(<< >>, m)
  BY EmptySeq DEF Consecutive

LEMMA Lengths ==
  ASSUME SolverTypes
  PROVE  Len(pending) \in Nat /\ Len(lastDps) \in Nat /\ Len(toWrite) \in Nat
  BY LenProperties DEF SolverTypes

-----------------------------------------------------------------------------
(* Every step of the solver keeps its invariant. *)

LEMMA SolverStarts ==
  ASSUME file = << >>, SolverInit
  PROVE  SolverInv
<1>1. SolverTypes
  <2>1. << >> \in Seq(Pieces)
    OBVIOUS
  <2>2. 0 \in 0 .. MaxPoints
    BY SingleAssumption
  <2> QED
    BY <2>1, <2>2, EmptyRun DEF SolverInit, SolverTypes
<1>2. BatchInv
  BY EmptyRun DEF SolverInit, BatchInv, Mark, Waiting
<1>3. OutcomeInv
  BY SingleAssumption DEF SolverInit, OutcomeInv, Search!Solved
<1> QED
  BY <1>1, <1>2, <1>3 DEF SolverInv

LEMMA StepCollectKeeps ==
  ASSUME SolverInv, StepCollect
  PROVE  SolverInv' /\ Mark' = Mark
<1> USE DEF SolverInv
<1>1. PICK n \in 0 .. MaxBatch :
        found + n <= MaxPoints /\ found' = found + n /\ pending' = [i \in 1 .. n |-> found + i]
  BY DEF StepCollect
<1>2. /\ found \in Nat /\ n \in Nat /\ MaxPoints \in Nat
      /\ Len(pending) \in Nat /\ Len(lastDps) \in Nat /\ Len(toWrite) \in Nat
  BY Lengths, SingleAssumption DEF SolverTypes
<1>3. pending' \in Seq(Nat) /\ Len(pending') = n /\ Consecutive(pending', found)
  <2>1. pending' \in [1 .. n -> Nat]
    BY <1>1, <1>2
  <2>2. pending' \in Seq(Nat) /\ Len(pending') = n
    BY <2>1, <1>2
  <2> QED
    BY <2>2, <1>1, <1>2 DEF Consecutive
<1>4. /\ at = "step" /\ at' = "read" /\ toWrite' = toWrite /\ lastDps' = pending
      /\ toWrite = << >> /\ UNCHANGED <<file, table, key, toWrite, born, starts, outcome, torn>>
  BY DEF StepCollect, BatchInv
<1>5. SolverTypes'
  BY <1>1, <1>2, <1>3, <1>4 DEF SolverTypes, StepCollect
<1>6. Mark = found - Len(pending) /\ Waiting' = pending
  BY <1>2, <1>4, EmptyRun DEF Mark, Waiting
<1>7. Mark' = Mark
  <2>1. Mark' = found' - Len(pending') - Len(Waiting')
    BY DEF Mark
  <2> QED
    BY <2>1, <1>1, <1>2, <1>3, <1>6
<1>8. BatchInv'
  <2>1. Consecutive(pending, Mark)
    BY <1>6 DEF BatchInv
  <2>2. found' - Len(pending') = found
    BY <1>1, <1>2, <1>3
  <2> QED
    BY <2>1, <2>2, <1>3, <1>4, <1>6, <1>7 DEF BatchInv
<1>9. OutcomeInv'
  BY <1>4 DEF OutcomeInv
<1> QED
  BY <1>5, <1>7, <1>8, <1>9

LEMMA ReadFailsKeeps ==
  ASSUME SolverInv, ReadFails
  PROVE  SolverInv' /\ Mark <= Mark'
<1> USE DEF SolverInv
<1>1. /\ at = "read" /\ at' = "end" /\ outcome' = "failed" /\ toWrite = << >>
      /\ UNCHANGED <<file, ops, pending, lastDps, table, key, toWrite, found, born, starts, torn>>
  BY DEF ReadFails, BatchInv
<1>2. SolverTypes'
  BY <1>1 DEF SolverTypes
<1>3. Mark \in Int /\ Mark <= Mark'
  BY <1>1, Lengths, EmptyRun DEF Mark, Waiting, SolverTypes
<1>4. BatchInv'
  <2>1. Waiting' = << >>
    BY <1>1 DEF Waiting
  <2>2. born <= Mark'
    BY <1>1, <1>3, Lengths, EmptyRun DEF BatchInv, SolverTypes, Mark, Waiting
  <2> QED
    BY <1>1, <2>1, <2>2, EmptyRun DEF BatchInv
<1>5. OutcomeInv'
  BY <1>1 DEF OutcomeInv
<1> QED
  BY <1>2, <1>3, <1>4, <1>5

(* The points of a batch up to the i-th. *)
UpTo(i) == {lastDps[j] : j \in 1 .. i}

(* If some prefix of the batch completes a meeting, the first that does ends with a
   point of it. *)
LEMMA FirstCompletion ==
  ASSUME lastDps \in Seq(Nat), ~Search!Solved(table),
         NEW m \in Meetings, NEW k \in 1 .. Len(lastDps), m \subseteq table \cup UpTo(k)
  PROVE  \E i \in 1 .. k : Completes(i, Meetings)
<1> DEFINE S == {n \in Nat : m \subseteq table \cup UpTo(n)}
<1>1. k \in Nat /\ k \in S
  OBVIOUS
<1>2. PICK i \in S : \A n \in S : i <= n
  <2>1. S \in SUBSET Nat /\ S # {}
    BY <1>1
  <2> HIDE DEF S
  <2> QED
    BY <2>1, LeastElement
<1>3. i \in Nat /\ i <= k /\ m \subseteq table \cup UpTo(i)
  BY <1>1, <1>2
<1>4. i # 0
  <2>1. UpTo(0) = {}
    BY DEF UpTo
  <2> QED
    BY <1>3, <2>1 DEF Search!Solved
<1>5. i - 1 \in Nat /\ i \in 1 .. k /\ i - 1 \notin S
  BY <1>2, <1>3, <1>4
<1>6. PICK dp \in m : dp \notin table \cup UpTo(i - 1)
  BY <1>5
<1>7. PICK j \in 1 .. i : dp = lastDps[j]
  BY <1>3, <1>6 DEF UpTo
<1>8. j = i
  <2>1. ~(j \in 1 .. i - 1)
    BY <1>6, <1>7 DEF UpTo
  <2> QED
    BY <2>1, <1>3, <1>5, <1>7
<1>9. lastDps[i] \in m
  BY <1>6, <1>7, <1>8
<1>10. Completes(i, Meetings)
  BY <1>3, <1>9 DEF Completes, UpTo
<1> QED
  BY <1>5, <1>10

LEMMA StepInsertKeeps ==
  ASSUME SolverInv, StepInsert
  PROVE  SolverInv' /\ Mark' = Mark
<1> USE DEF SolverInv
<1> DEFINE hits == {i \in DOMAIN lastDps : Yields(i)}
           upTo == IF hits = {} THEN Len(lastDps)
                   ELSE CHOOSE i \in hits : \A j \in hits : i <= j
<1>1. /\ at = "read" /\ at' = "write" /\ toWrite' = lastDps
      /\ table' = table \cup UpTo(upTo)
      /\ key' = IF hits = {} THEN "none"
                ELSE IF Completes(upTo, Meetings) THEN "good" ELSE "wrong"
      /\ UNCHANGED <<file, ops, pending, lastDps, found, born, starts, outcome, torn>>
  BY DEF StepInsert, UpTo
<1>2. lastDps \in Seq(Nat) /\ Len(lastDps) \in Nat /\ DOMAIN lastDps = 1 .. Len(lastDps)
  BY LenProperties DEF SolverTypes
<1>3. hits # {} => upTo \in hits /\ \A j \in hits : upTo <= j
  <2>1. hits \in SUBSET Nat
    BY <1>2
  <2> HIDE DEF hits
  <2>2. hits # {} => \E i \in hits : \A j \in hits : i <= j
    BY <2>1, LeastElement
  <2> QED
    BY <2>2
<1>4. ~Search!Solved(table)
  BY <1>1 DEF OutcomeInv
<1>5. key' = "good" => Search!Solved(table')
  BY <1>1 DEF Search!Solved, Completes, UpTo
<1>6. Search!Solved(table') => key' = "good"
  <2> SUFFICES ASSUME NEW m \in Meetings, m \subseteq table'
               PROVE  key' = "good"
    BY DEF Search!Solved
  <2>1. upTo \in Nat /\ upTo <= Len(lastDps)
    <3> HIDE DEF hits
    <3>1. hits \subseteq 1 .. Len(lastDps)
      BY <1>2 DEF hits
    <3>2. hits = {} => upTo = Len(lastDps)
      OBVIOUS
    <3>3. hits # {} => upTo \in hits
      BY <1>3
    <3> HIDE DEF upTo, hits
    <3>4. upTo = Len(lastDps) \/ upTo \in 1 .. Len(lastDps)
      BY <3>1, <3>2, <3>3
    <3> QED
      BY <1>2, <3>4
  <2>2. upTo # 0
    <3>1. UpTo(0) = {}
      BY DEF UpTo
    <3>2. ~(m \subseteq table)
      BY <1>4 DEF Search!Solved
    <3> HIDE DEF upTo
    <3> QED
      BY <1>1, <3>1, <3>2
  <2> HIDE DEF hits, upTo
  <2>3. upTo \in 1 .. Len(lastDps)
    BY <2>1, <2>2, <1>2
  <2>4. PICK i \in 1 .. upTo : Completes(i, Meetings)
    <3>1. m \subseteq table \cup UpTo(upTo)
      BY <1>1
    <3> QED
      BY <3>1, <2>3, <1>2, <1>4, FirstCompletion
  <2>5. i \in hits
    BY <2>3, <2>4, <1>2 DEF hits, Yields
  <2>6. i = upTo
    BY <2>3, <2>4, <2>5, <1>3
  <2> QED
    BY <1>1, <2>4, <2>5, <2>6
<1> HIDE DEF hits, upTo
<1>7. SolverTypes'
  BY <1>1 DEF SolverTypes
<1>8. Waiting' = Waiting /\ Mark' = Mark
  <2>1. Waiting' = Waiting
    BY <1>1 DEF Waiting
  <2>2. Mark' = found' - Len(pending') - Len(Waiting')
    BY DEF Mark
  <2> QED
    BY <2>1, <2>2, <1>1 DEF Mark
<1>9. BatchInv'
  BY <1>1, <1>8 DEF BatchInv
<1>10. OutcomeInv'
  BY <1>1, <1>5, <1>6 DEF OutcomeInv
<1> QED
  BY <1>7, <1>8, <1>9, <1>10

(* A record more is written, or given up. *)
LEMMA RecordGoes ==
  ASSUME SolverInv, at \in {"write", "half"}, at' \in {"write", "half"}, toWrite # << >>,
         \/ toWrite' = Tail(toWrite) /\ at' = "write"
         \/ toWrite' = toWrite,
         file' \in Seq(Pieces), torn' \in BOOLEAN,
         UNCHANGED <<ops, pending, lastDps, table, key, found, born, starts, outcome>>
  PROVE  SolverInv' /\ Mark' = Mark + (IF toWrite' = toWrite THEN 0 ELSE 1)
<1> USE DEF SolverInv
<1>1. /\ found \in Nat /\ born \in Nat /\ toWrite \in Seq(Nat)
      /\ Len(pending) \in Nat /\ Len(toWrite) \in Nat
  BY Lengths DEF SolverTypes
<1>2. Waiting = toWrite /\ Waiting' = toWrite'
  BY DEF Waiting
<1>3. Mark = found - Len(pending) - Len(toWrite) /\ Mark' = found - Len(pending) - Len(toWrite')
  <2>1. Mark' = found' - Len(pending') - Len(Waiting')
    BY DEF Mark
  <2> QED
    BY <1>2, <2>1 DEF Mark
<1>4. Consecutive(toWrite, Mark) /\ Mark \in Int
  BY <1>1, <1>2, <1>3 DEF BatchInv
<1>5. /\ Tail(toWrite) \in Seq(Nat) /\ Len(Tail(toWrite)) = Len(toWrite) - 1
      /\ Consecutive(Tail(toWrite), Mark + 1)
  BY <1>1, <1>4, Tails
<1>6. Mark' = Mark + (IF toWrite' = toWrite THEN 0 ELSE 1)
  <2>1. CASE toWrite' = toWrite
    BY <2>1, <1>3, <1>4
  <2>2. CASE toWrite' # toWrite
    <3>1. Len(toWrite') = Len(toWrite) - 1
      BY <2>2, <1>5
    <3> QED
      BY <2>2, <3>1, <1>1, <1>3
  <2> QED
    BY <2>1, <2>2
<1>7. SolverTypes'
  BY <1>5 DEF SolverTypes
<1>8. BatchInv'
  <2>1. Consecutive(toWrite', Mark')
    <3>1. CASE toWrite' = toWrite
      BY <3>1, <1>1, <1>4, <1>6
    <3>2. CASE toWrite' # toWrite
      BY <3>2, <1>1, <1>5, <1>6
    <3> QED
      BY <3>1, <3>2
  <2>2. born <= Mark'
    BY <1>1, <1>4, <1>6 DEF BatchInv
  <2> QED
    BY <1>2, <2>1, <2>2 DEF BatchInv
<1>9. OutcomeInv'
  BY DEF OutcomeInv
<1> QED
  BY <1>6, <1>7, <1>8, <1>9

LEMMA WriteRecordKeeps ==
  ASSUME SolverInv, WriteRecord
  PROVE  SolverInv' /\ Mark' = Mark + (IF at' = "half" THEN 0 ELSE 1)
<1>1. /\ at = "write" /\ toWrite # << >> /\ toWrite \in Seq(Nat) /\ file \in Seq(Pieces)
      /\ torn \in BOOLEAN
      /\ UNCHANGED <<ops, pending, lastDps, table, key, found, born, starts, outcome>>
  BY DEF WriteRecord, SolverInv, SolverTypes
<1>2. Head(toWrite) \in Nat /\ Tail(toWrite) # toWrite
  BY <1>1, HeadTailProperties, LenProperties
<1>3. /\ Append(file, Piece(Head(toWrite), 1)) \in Seq(Pieces)
      /\ file \o Record(Head(toWrite)) \in Seq(Pieces)
  <2>1. Piece(Head(toWrite), 1) \in Pieces /\ Piece(Head(toWrite), 2) \in Pieces
    BY <1>2 DEF Piece, Pieces
  <2>2. Record(Head(toWrite)) \in Seq(Pieces)
    BY <2>1 DEF Record
  <2> QED
    BY <1>1, <2>1, <2>2
<1>4. CASE file' = file \o Record(Head(toWrite)) /\ toWrite' = Tail(toWrite) /\ UNCHANGED <<at, torn>>
  BY <1>1, <1>2, <1>3, <1>4, RecordGoes
<1>5. CASE file' = Append(file, Piece(Head(toWrite), 1)) /\ at' = "half" /\ UNCHANGED <<toWrite, torn>>
  BY <1>1, <1>2, <1>3, <1>5, RecordGoes
<1>6. CASE ~torn /\ torn' = TRUE /\ toWrite' = Tail(toWrite) /\ UNCHANGED <<file, at>>
  BY <1>1, <1>2, <1>3, <1>6, RecordGoes
<1> QED
  BY <1>4, <1>5, <1>6 DEF WriteRecord

LEMMA WriteRestKeeps ==
  ASSUME SolverInv, WriteRest
  PROVE  SolverInv' /\ Mark' = Mark + 1
<1>1. /\ at = "half" /\ at' = "write" /\ toWrite # << >> /\ toWrite \in Seq(Nat)
      /\ toWrite' = Tail(toWrite) /\ file \in Seq(Pieces) /\ torn \in BOOLEAN
      /\ UNCHANGED <<ops, pending, lastDps, table, key, found, born, starts, outcome>>
  BY DEF WriteRest, SolverInv, SolverTypes
<1>2. Head(toWrite) \in Nat /\ Tail(toWrite) # toWrite
  BY <1>1, HeadTailProperties, LenProperties
<1>3. Append(file, Piece(Head(toWrite), 2)) \in Seq(Pieces)
  BY <1>1, <1>2 DEF Piece, Pieces
<1>4. file' \in Seq(Pieces) /\ torn' \in BOOLEAN
  BY <1>1, <1>3 DEF WriteRest
<1> QED
  BY <1>1, <1>2, <1>4, RecordGoes

LEMMA VerdictKeeps ==
  ASSUME SolverInv, Verdict
  PROVE  SolverInv' /\ Mark' = Mark
<1> USE DEF SolverInv
<1>1. /\ at = "write" /\ at' \in {"step", "end"} /\ toWrite = << >>
      /\ UNCHANGED <<file, ops, pending, lastDps, table, key, toWrite, found, born, starts, torn>>
  BY DEF Verdict
<1>2. Waiting' = Waiting /\ Mark' = Mark
  <2>1. Waiting' = toWrite' /\ Waiting = toWrite
    BY <1>1 DEF Waiting
  <2>2. Mark' = found' - Len(pending') - Len(Waiting')
    BY DEF Mark
  <2> QED
    BY <1>1, <2>1, <2>2 DEF Mark
<1>3. SolverTypes'
  BY <1>1 DEF SolverTypes, Verdict
<1>4. BatchInv'
  BY <1>1, <1>2 DEF BatchInv
<1>5. OutcomeInv'
  BY <1>1 DEF OutcomeInv, Verdict
<1> QED
  BY <1>2, <1>3, <1>4, <1>5

(* A process without a past. *)
LEMMA FreshKeeps ==
  ASSUME SolverInv, Fresh, at' \in {"step", "off"}, UNCHANGED <<file, found>>,
         torn' \in BOOLEAN
  PROVE  SolverInv' /\ Mark' = found /\ Mark <= Mark'
<1> USE DEF SolverInv
<1>1. found \in Nat /\ Len(pending) \in Nat /\ Len(Waiting) \in Nat
  BY Lengths DEF SolverTypes, Waiting
<1>2. Waiting' = << >> /\ pending' = << >>
  BY DEF Fresh, Waiting
<1>3. Mark' = found /\ Mark <= found
  <2>1. Mark' = found' - Len(pending') - Len(Waiting')
    BY DEF Mark
  <2> QED
    BY <2>1, <1>1, <1>2, EmptyRun DEF Mark
<1>4. SolverTypes'
  BY <1>1, EmptyRun DEF SolverTypes, Fresh
<1>5. BatchInv'
  BY <1>1, <1>2, <1>3, EmptyRun DEF BatchInv, Fresh
<1>6. OutcomeInv'
  BY SingleAssumption DEF OutcomeInv, Fresh, Search!Solved
<1> QED
  BY <1>3, <1>4, <1>5, <1>6

LEMMA KillSolverKeeps ==
  ASSUME SolverInv, KillSolver
  PROVE  SolverInv' /\ Mark' = found /\ Mark <= Mark'
<1>1. torn' \in BOOLEAN
  BY DEF KillSolver, SolverInv, SolverTypes
<1> QED
  BY <1>1, FreshKeeps DEF KillSolver

LEMMA RestartSolverKeeps ==
  ASSUME SolverInv, RestartSolver
  PROVE  SolverInv' /\ Mark' = found /\ Mark <= Mark'
<1>1. torn' \in BOOLEAN
  BY DEF RestartSolver, SolverInv, SolverTypes
<1> QED
  BY <1>1, FreshKeeps DEF RestartSolver

LEMMA SolverKeeps ==
  ASSUME SolverInv, [Next]_vars
  PROVE  SolverInv'
<1>1. CASE UNCHANGED <<file, solverVars>>
  BY <1>1 DEF SolverInv, SolverTypes, BatchInv, OutcomeInv, Mark, Waiting, solverVars
<1>2. CASE SolverNext
  BY <1>2, StepCollectKeeps, ReadFailsKeeps, StepInsertKeeps, WriteRecordKeeps, WriteRestKeeps,
     VerdictKeeps, KillSolverKeeps, RestartSolverKeeps DEF SolverNext
<1> QED
  BY <1>1, <1>2 DEF Next, BridgeNext, vars

-----------------------------------------------------------------------------
(* Each life of the solver is a Search. *)

LEMMA StepIsSearchStep ==
  ASSUME SolverInv, [Next]_vars
  PROVE  [Search!Next \/ (born' = found /\ Search!Init')]_<<born + 1 .. found, table, outcome>>
<1> USE DEF SolverInv
<1> DEFINE produced == born + 1 .. found
           verdict == IF outcome = "failed" THEN "stopped" ELSE outcome
<1>1. found \in 0 .. MaxPoints /\ MaxPoints \in Nat /\ born \in Nat
      /\ Len(pending) \in Nat /\ Len(lastDps) \in Nat /\ Len(toWrite) \in Nat
  BY Lengths, SingleAssumption DEF SolverTypes
<1>2. CASE StepCollect
  <2>1. PICK n \in 0 .. MaxBatch : found + n <= MaxPoints /\ found' = found + n
    BY <1>2 DEF StepCollect
  <2>2. at = "step" /\ UNCHANGED <<born, table, outcome>>
    BY <1>2 DEF StepCollect
  <2>3. verdict = "running"
    BY <2>2 DEF OutcomeInv
  <2>4. (born + 1 .. found)' = produced \cup (found + 1 .. found + n)
    <3>1. born <= found
      <4>1. born <= Mark /\ Mark <= found
        BY <1>1 DEF BatchInv, Mark, Waiting
      <4> QED
        BY <4>1, <1>1 DEF Mark, Waiting
    <3> QED
      BY <3>1, <2>1, <2>2, <1>1
  <2>5. (found + 1 .. found + n) \in SUBSET (1 .. MaxPoints)
    BY <2>1, <1>1
  <2>6. Search!Produce
    BY <2>2, <2>3, <2>4, <2>5 DEF Search!Produce
  <2> QED
    BY <2>6 DEF Search!Next
<1>3. CASE ReadFails
  <2>1. /\ at = "read" /\ outcome' = "failed" /\ UNCHANGED <<born, found, table>>
    BY <1>3 DEF ReadFails
  <2>2. verdict = "running" /\ ~Search!Solved(table)
    BY <2>1 DEF OutcomeInv
  <2>3. Search!Conclude
    BY <2>1, <2>2 DEF Search!Conclude
  <2> QED
    BY <2>3 DEF Search!Next
<1>4. CASE StepInsert
  <2>1. PICK k \in 0 .. Len(lastDps) : table' = table \cup UpTo(k)
    <3> DEFINE hits == {i \in DOMAIN lastDps : Yields(i)}
               upTo == IF hits = {} THEN Len(lastDps)
                       ELSE CHOOSE i \in hits : \A j \in hits : i <= j
    <3>1. table' = table \cup UpTo(upTo)
      BY <1>4 DEF StepInsert, UpTo
    <3>2. hits \subseteq 1 .. Len(lastDps)
      BY LenProperties DEF SolverTypes
    <3>3. hits # {} => upTo \in hits
      <4>1. hits \in SUBSET Nat
        BY <3>2, <1>1
      <4> HIDE DEF hits
      <4>2. hits # {} => \E i \in hits : \A j \in hits : i <= j
        BY <4>1, LeastElement
      <4> QED
        BY <4>2
    <3>4. hits = {} => upTo = Len(lastDps)
      OBVIOUS
    <3> HIDE DEF hits, upTo
    <3>5. upTo = Len(lastDps) \/ upTo \in 1 .. Len(lastDps)
      BY <3>2, <3>3, <3>4
    <3>6. upTo \in 0 .. Len(lastDps)
      BY <3>5, <1>1
    <3> QED
      BY <3>1, <3>6
  <2>2. /\ at = "read" /\ UNCHANGED <<born, found, outcome>>
    BY <1>4 DEF StepInsert
  <2>3. verdict = "running" /\ ~Search!Solved(table)
    BY <2>2 DEF OutcomeInv
  <2>4. UpTo(k) \in SUBSET produced
    <3> SUFFICES ASSUME NEW j \in 1 .. k PROVE lastDps[j] \in produced
      BY DEF UpTo
    <3>1. born <= Mark /\ Mark = found - Len(pending) - Len(lastDps)
      BY <2>2 DEF BatchInv, Mark, Waiting
    <3>2. lastDps[j] = Mark + j
      BY <2>1, <2>2, <1>1 DEF BatchInv, Waiting, Consecutive
    <3> QED
      BY <3>1, <3>2, <2>1, <1>1
  <2>5. Search!Check
    BY <2>1, <2>2, <2>3, <2>4 DEF Search!Check
  <2> QED
    BY <2>5 DEF Search!Next
<1>5. CASE Verdict
  <2>1. /\ at = "write" /\ UNCHANGED <<born, found, table>>
    BY <1>5 DEF Verdict
  <2>2. verdict = "running" /\ (key = "good" <=> Search!Solved(table))
    BY <2>1 DEF OutcomeInv
  <2>3. \/ UNCHANGED outcome
        \/ outcome' = "found" /\ Search!Solved(table)
        \/ outcome' = "limit" /\ ~Search!Solved(table)
    BY <1>5, <2>2 DEF Verdict
  <2>4. UNCHANGED outcome \/ Search!Conclude
    BY <2>1, <2>2, <2>3 DEF Search!Conclude
  <2> QED
    BY <2>1, <2>4 DEF Search!Next
<1>6. CASE KillSolver \/ RestartSolver
  <2>1. found' = found /\ born' = found /\ table' = {} /\ outcome' = "running"
    BY <1>6 DEF KillSolver, RestartSolver, Fresh
  <2>2. (born + 1 .. found)' = {}
    BY <2>1, <1>1
  <2> QED
    BY <2>1, <2>2 DEF Search!Init
<1>7. CASE WriteRecord \/ WriteRest \/ UNCHANGED <<file, solverVars>>
  BY <1>7 DEF WriteRecord, WriteRest, solverVars
<1>8. CASE BridgeNext /\ UNCHANGED solverVars
  BY <1>8 DEF solverVars
<1> QED
  BY <1>2, <1>3, <1>4, <1>5, <1>6, <1>7, <1>8 DEF Next, SolverNext, vars

(* The loop is a Search in every life of the process: the key is found exactly if the
   points checked hold a meeting, whatever fails, is killed or comes too late. *)
THEOREM LivesAreSearches == Spec => EachLifeImplementsSearch
<1>1. Init => SolverInv
  BY SolverStarts DEF Init
<1>2. SolverInv /\ [Next]_vars => SolverInv'
  BY SolverKeeps
<1>3. Init => Search!Init
  BY DEF Init, SolverInit, Search!Init
<1>4. SolverInv /\ [Next]_vars =>
        [Search!Next \/ (born' = found /\ Search!Init')]_<<born + 1 .. found, table, outcome>>
  BY StepIsSearchStep
<1> QED
  BY <1>1, <1>2, <1>3, <1>4, PTL DEF Spec, Safety, EachLifeImplementsSearch

-----------------------------------------------------------------------------
(* The file. *)

Count == Len(file) \div RecordSize
Dp(k) == file[RecordSize * k - 1].dp

(* The k-th record is whole. *)
Whole(k) ==
  file[RecordSize * k - 1] = Piece(Dp(k), 1) /\ file[RecordSize * k] = Piece(Dp(k), 2)

(* As long as no record was cut short the file is made of records, with at most the
   one being written half there, in the order of their points; and whatever this
   process has read back and does not hold any more is in it. *)
FileInv ==
  ~torn =>
    /\ Len(file) = RecordSize * Count + (IF at = "half" THEN 1 ELSE 0)
    /\ \A k \in 1 .. Count : Whole(k) /\ Dp(k) <= Mark
    /\ \A k, l \in 1 .. Count : k < l => Dp(k) < Dp(l)
    /\ at = "half" => file[Len(file)] = Piece(Head(toWrite), 1)
    /\ outcome # "failed" => \A dp \in born + 1 .. Mark : \E k \in 1 .. Count : Dp(k) = dp

LEMMA Halves ==
  ASSUME NEW n \in Nat
  PROVE  /\ n \div RecordSize \in Nat
         /\ RecordSize * (n \div RecordSize) <= n
         /\ n < RecordSize * (n \div RecordSize) + RecordSize
         /\ \A c \in Nat : n \in {RecordSize * c, RecordSize * c + 1} => n \div RecordSize = c
  BY DEF RecordSize

LEMMA FileLength ==
  ASSUME SolverTypes
  PROVE  /\ Len(file) \in Nat /\ Count \in Nat /\ RecordSize * Count <= Len(file)
         /\ \A i \in 1 .. Len(file) : file[i] \in Pieces
         /\ \A k \in 1 .. Count : /\ RecordSize * k \in 1 .. Len(file)
                                  /\ RecordSize * k - 1 \in 1 .. Len(file)
                                  /\ Dp(k) \in Nat
<1>1. Len(file) \in Nat /\ \A i \in 1 .. Len(file) : file[i] \in Pieces
  BY LenProperties, ElementOfSeq DEF SolverTypes
<1>2. Count \in Nat /\ RecordSize * Count <= Len(file)
  BY <1>1, Halves DEF Count
<1>3. ASSUME NEW k \in 1 .. Count
      PROVE  /\ RecordSize * k \in 1 .. Len(file) /\ RecordSize * k - 1 \in 1 .. Len(file)
             /\ Dp(k) \in Nat
  <2>1. RecordSize * k \in 1 .. Len(file) /\ RecordSize * k - 1 \in 1 .. Len(file)
    BY <1>1, <1>2 DEF RecordSize
  <2>2. file[RecordSize * k - 1] \in Pieces
    BY <2>1, <1>1
  <2> QED
    BY <2>1, <2>2 DEF Dp, Pieces
<1> QED
  BY <1>1, <1>2, <1>3

LEMMA MarkType ==
  ASSUME SolverInv
  PROVE  Mark \in Int /\ born \in Nat /\ found \in Nat /\ born <= Mark /\ Mark <= found
  BY Lengths DEF SolverInv, SolverTypes, BatchInv, Mark, Waiting

LEMMA NextMarkType ==
  ASSUME SolverInv'
  PROVE  Mark' \in Int /\ born' \in Nat /\ found' \in Nat /\ born' <= Mark' /\ Mark' <= found'
<1>1. /\ Len(pending') \in Nat /\ Len(lastDps') \in Nat /\ Len(toWrite') \in Nat
      /\ found' \in Nat /\ born' \in Nat
  BY LenProperties DEF SolverInv, SolverTypes
<1> QED
  BY <1>1 DEF SolverInv, BatchInv, Mark, Waiting

(* What the file holds stays there. *)
FileGrows ==
  /\ Len(file) <= Len(file')
  /\ \A i \in 1 .. Len(file) : file'[i] = file[i]

LEMMA FileStays ==
  ASSUME SolverInv, SolverInv', FileInv, UNCHANGED file, Mark <= Mark', torn => torn',
         ~torn' => /\ at = "half" <=> at' = "half"
                   /\ at = "half" => UNCHANGED toWrite,
         \/ outcome' = "failed" \/ Mark' <= born'
         \/ born' = born /\ Mark' = Mark /\ outcome # "failed"
  PROVE  FileInv'
<1> SUFFICES ASSUME ~torn' PROVE FileInv'
  BY DEF FileInv
<1>1. ~torn
  OBVIOUS
<1>2. Count' = Count /\ (\A k : Dp(k)' = Dp(k)) /\ (\A k : Whole(k)' <=> Whole(k))
  BY DEF Count, Dp, Whole
<1>3. Mark \in Int /\ Mark' \in Int /\ born' \in Nat
  BY MarkType, NextMarkType
<1>4. \A k \in 1 .. Count : Dp(k) <= Mark'
  <2>1. Count \in Nat /\ \A k \in 1 .. Count : Dp(k) \in Nat
    BY FileLength DEF SolverInv
  <2> QED
    BY <2>1, <1>1, <1>3 DEF FileInv
<1>5. ASSUME outcome' # "failed", NEW dp \in born' + 1 .. Mark'
      PROVE  \E k \in 1 .. Count : Dp(k) = dp
  <2>1. ~(Mark' <= born')
    BY <1>3, Between, Zenon
  <2>2. born' = born /\ Mark' = Mark /\ outcome # "failed"
    BY <1>5, <2>1
  <2> QED
    BY <2>2, <1>1 DEF FileInv
<1> QED
  BY <1>1, <1>2, <1>4, <1>5 DEF FileInv

LEMMA RecordAdded ==
  ASSUME SolverInv, SolverInv', FileInv, ~torn, NEW dp \in Nat, dp = Mark + 1,
         Mark' = Mark + 1, at' = "write", born' = born, outcome' = outcome,
         FileGrows, Len(file') = RecordSize * Count + RecordSize,
         file'[RecordSize * Count + 1] = Piece(dp, 1),
         file'[RecordSize * Count + 2] = Piece(dp, 2)
  PROVE  FileInv'
<1> PICK c : c = Count
  OBVIOUS
<1>1. /\ c \in Nat /\ Len(file) \in Nat /\ RecordSize * c <= Len(file)
      /\ Mark \in Int /\ born \in Nat
      /\ \A k \in 1 .. c : /\ RecordSize * k \in 1 .. Len(file)
                               /\ RecordSize * k - 1 \in 1 .. Len(file)
                               /\ Dp(k) \in Nat
  BY MarkType, FileLength DEF SolverInv
<1>2. Count' = c + 1
  <2>1. Len(file') \in Nat /\ Len(file') = RecordSize * (c + 1) /\ c + 1 \in Nat
    BY <1>1 DEF RecordSize
  <2> QED
    BY <2>1, Halves DEF Count
<1>3. ASSUME NEW k \in 1 .. c
      PROVE  Dp(k)' = Dp(k) /\ Whole(k)'
  <2>1. /\ file'[RecordSize * k - 1] = file[RecordSize * k - 1]
        /\ file'[RecordSize * k] = file[RecordSize * k]
    BY <1>1 DEF FileGrows
  <2>2. Whole(k)
    BY DEF FileInv
  <2> QED
    BY <2>1, <2>2 DEF Dp, Whole
<1>4. Dp(c + 1)' = dp /\ Whole(c + 1)'
  <2>1. /\ RecordSize * (c + 1) - 1 = RecordSize * c + 1
        /\ RecordSize * (c + 1) = RecordSize * c + 2
    BY <1>1 DEF RecordSize
  <2> QED
    BY <2>1 DEF Dp, Whole, Piece
<1>5. \A k \in 1 .. c + 1 : k \in 1 .. c \/ k = c + 1
  BY <1>1
<1>6. \A k \in 1 .. c + 1 : Whole(k)' /\ Dp(k)' <= Mark'
  <2> TAKE k \in 1 .. c + 1
  <2>1. CASE k \in 1 .. c
    <3>1. Dp(k) <= Mark
      BY <2>1 DEF FileInv
    <3> QED
      BY <2>1, <3>1, <1>1, <1>3
  <2>2. CASE k = c + 1
    BY <2>2, <1>1, <1>4
  <2> QED
    BY <2>1, <2>2, <1>5
<1>7. \A k, l \in 1 .. c + 1 : k < l => Dp(k)' < Dp(l)'
  <2> SUFFICES ASSUME NEW k \in 1 .. c + 1, NEW l \in 1 .. c + 1, k < l
               PROVE  Dp(k)' < Dp(l)'
    OBVIOUS
  <2>1. k \in 1 .. c
    BY <1>1
  <2>2. CASE l \in 1 .. c
    <3>1. Dp(k) < Dp(l)
      BY <2>1, <2>2 DEF FileInv
    <3> QED
      BY <2>1, <2>2, <3>1, <1>3
  <2>3. CASE l = c + 1
    <3>1. Dp(k) <= Mark
      BY <2>1 DEF FileInv
    <3> QED
      BY <2>1, <2>3, <3>1, <1>1, <1>3, <1>4
  <2> QED
    BY <2>2, <2>3, <1>5
<1>8. ASSUME outcome # "failed", NEW d \in born + 1 .. Mark + 1
      PROVE  \E k \in 1 .. c + 1 : Dp(k)' = d
  <2>1. CASE d = Mark + 1
    <3>1. c + 1 \in 1 .. c + 1
      BY <1>1
    <3> QED
      BY <2>1, <3>1, <1>4
  <2>2. CASE d # Mark + 1
    <3>1. d \in born + 1 .. Mark
      BY <2>2, <1>1
    <3>2. PICK k \in 1 .. c : Dp(k) = d
      BY <3>1, <1>8 DEF FileInv
    <3>3. k \in 1 .. c + 1
      BY <1>1
    <3> QED
      BY <3>2, <3>3, <1>3
  <2> QED
    BY <2>1, <2>2
<1>9. Len(file') = RecordSize * Count' + 0
  BY <1>1, <1>2 DEF RecordSize
<1> QED
  BY <1>2, <1>6, <1>7, <1>8, <1>9 DEF FileInv

LEMMA WriteRecordFile ==
  ASSUME SolverInv, FileInv, WriteRecord
  PROVE  FileInv'
<1> SUFFICES ASSUME ~torn' PROVE FileInv'
  BY DEF FileInv
<1> PICK d : d = Head(toWrite)
  OBVIOUS
<1>1. SolverInv' /\ Mark' = Mark + (IF at' = "half" THEN 0 ELSE 1)
  BY WriteRecordKeeps
<1>2. /\ at = "write" /\ toWrite # << >> /\ toWrite \in Seq(Nat) /\ file \in Seq(Pieces)
      /\ UNCHANGED <<born, outcome>> /\ ~torn
  BY DEF WriteRecord, SolverInv, SolverTypes
<1>3. Mark \in Int /\ Len(file) \in Nat /\ Count \in Nat /\ Len(file) = RecordSize * Count
  <2>1. Len(file) = RecordSize * Count + 0
    BY <1>2 DEF FileInv
  <2> QED
    BY <2>1, MarkType, FileLength DEF SolverInv, RecordSize
<1>4. d = Mark + 1 /\ d \in Nat
  <2>1. Consecutive(toWrite, Mark)
    BY <1>2 DEF SolverInv, BatchInv, Waiting
  <2> QED
    BY <2>1, <1>2, <1>3, Tails
<1>5. Piece(d, 1) \in Pieces /\ Piece(d, 2) \in Pieces
  BY <1>4 DEF Piece, Pieces
<1>6. CASE file' = file \o Record(d) /\ toWrite' = Tail(toWrite) /\ at' = at
  <2>1. /\ Record(d) \in Seq(Pieces) /\ Len(Record(d)) = 2
        /\ Record(d)[1] = Piece(d, 1) /\ Record(d)[2] = Piece(d, 2)
    BY <1>5 DEF Record
  <2>2. /\ Len(file') = Len(file) + 2
        /\ \A i \in 1 .. Len(file) + 2 :
             file'[i] = IF i <= Len(file) THEN file[i] ELSE Record(d)[i - Len(file)]
    <3> PICK r : r = Record(d)
      OBVIOUS
    <3>1. r \in Seq(Pieces) /\ Len(r) = 2 /\ file' = file \o r
      BY <1>6, <2>1
    <3>2. /\ Len(file \o r) = Len(file) + Len(r)
          /\ \A i \in 1 .. Len(file) + Len(r) :
               (file \o r)[i] = IF i <= Len(file) THEN file[i] ELSE r[i - Len(file)]
      BY <3>1, <1>2, ConcatProperties
    <3> QED
      BY <3>1, <3>2
  <2>3. FileGrows
    BY <2>2, <1>3 DEF FileGrows
  <2>4. file'[Len(file) + 1] = Piece(d, 1) /\ file'[Len(file) + 2] = Piece(d, 2)
    BY <2>1, <2>2, <1>3
  <2>5. Mark' = Mark + 1
    BY <1>1, <1>2, <1>6
  <2> QED
    BY <2>2, <2>3, <2>4, <2>5, <1>1, <1>2, <1>3, <1>4, <1>6, RecordAdded DEF RecordSize
<1>7. CASE file' = Append(file, Piece(d, 1)) /\ at' = "half" /\ toWrite' = toWrite
  <2>1. /\ Len(file') = Len(file) + 1
        /\ \A i \in 1 .. Len(file) : file'[i] = file[i]
        /\ file'[Len(file) + 1] = Piece(d, 1)
    BY <1>2, <1>5, <1>7, AppendProperties
  <2>2. Mark' = Mark
    BY <1>1, <1>3, <1>7
  <2>3. Count' = Count
    <3>1. Len(file') \in Nat /\ Len(file') = RecordSize * Count + 1
      BY <2>1, <1>3
    <3> QED
      BY <3>1, <1>3, Halves DEF Count
  <2> PICK c : c = Count
    OBVIOUS
  <2>4. ASSUME NEW k \in 1 .. c
        PROVE  /\ Dp(k)' = Dp(k) /\ (Whole(k)' <=> Whole(k))
    <3>1. RecordSize * k \in 1 .. Len(file) /\ RecordSize * k - 1 \in 1 .. Len(file)
      BY FileLength DEF SolverInv
    <3> QED
      BY <3>1, <2>1 DEF Dp, Whole
  <2>5. Len(file') = RecordSize * c + 1 /\ file'[Len(file')] = Piece(Head(toWrite'), 1)
    BY <2>1, <1>3, <1>7
  <2>6. /\ \A k \in 1 .. c : Whole(k) /\ Dp(k) <= Mark
        /\ \A k, l \in 1 .. c : k < l => Dp(k) < Dp(l)
        /\ outcome # "failed" => \A dp \in born + 1 .. Mark : \E k \in 1 .. c : Dp(k) = dp
    BY <1>2 DEF FileInv
  <2>7. /\ \A k \in 1 .. c : Whole(k)' /\ Dp(k)' <= Mark'
        /\ \A k, l \in 1 .. c : k < l => Dp(k)' < Dp(l)'
        /\ outcome' # "failed" => \A dp \in born' + 1 .. Mark' : \E k \in 1 .. c : Dp(k)' = dp
    BY <2>2, <2>4, <2>6, <1>2
  <2> QED
    BY <2>3, <2>5, <2>7, <1>7 DEF FileInv
<1> QED
  BY <1>6, <1>7 DEF WriteRecord

LEMMA WriteRestFile ==
  ASSUME SolverInv, FileInv, WriteRest
  PROVE  FileInv'
<1> SUFFICES ASSUME ~torn' PROVE FileInv'
  BY DEF FileInv
<1> PICK d : d = Head(toWrite)
  OBVIOUS
<1>1. SolverInv' /\ Mark' = Mark + 1
  BY WriteRestKeeps
<1>2. /\ at = "half" /\ at' = "write" /\ toWrite # << >> /\ toWrite \in Seq(Nat)
      /\ file \in Seq(Pieces) /\ UNCHANGED <<born, outcome>> /\ ~torn
      /\ file' = Append(file, Piece(d, 2))
  BY DEF WriteRest, SolverInv, SolverTypes
<1>3. /\ Mark \in Int /\ Len(file) \in Nat /\ Count \in Nat
      /\ Len(file) = RecordSize * Count + 1 /\ file[Len(file)] = Piece(d, 1)
  BY <1>2, MarkType, FileLength DEF FileInv, SolverInv
<1>4. d = Mark + 1 /\ d \in Nat
  <2>1. Consecutive(toWrite, Mark)
    BY <1>2 DEF SolverInv, BatchInv, Waiting
  <2> QED
    BY <2>1, <1>2, <1>3, Tails
<1>5. Piece(d, 2) \in Pieces
  BY <1>4 DEF Piece, Pieces
<1>6. /\ Len(file') = Len(file) + 1
      /\ \A i \in 1 .. Len(file) : file'[i] = file[i]
      /\ file'[Len(file) + 1] = Piece(d, 2)
  BY <1>2, <1>5, AppendProperties
<1>7. FileGrows
  BY <1>3, <1>6 DEF FileGrows
<1>8. /\ Len(file') = RecordSize * Count + RecordSize
      /\ file'[RecordSize * Count + 1] = Piece(d, 1) /\ file'[RecordSize * Count + 2] = Piece(d, 2)
  <2>1. Len(file) \in 1 .. Len(file)
    BY <1>3 DEF RecordSize
  <2> QED
    BY <2>1, <1>3, <1>6 DEF RecordSize
<1> QED
  BY <1>1, <1>2, <1>4, <1>7, <1>8, RecordAdded

LEMMA FileKeeps ==
  ASSUME SolverInv, FileInv, [Next]_vars
  PROVE  FileInv'
<1>1. CASE UNCHANGED <<file, solverVars>>
  BY <1>1 DEF FileInv, Count, Dp, Whole, Mark, Waiting, solverVars
<1>2. SolverInv'
  BY SolverKeeps
<1>3. CASE StepCollect
  <2>1. /\ at = "step" /\ at' = "read" /\ outcome # "failed"
        /\ UNCHANGED <<file, born, outcome, torn>>
    BY <1>3 DEF StepCollect, SolverInv, OutcomeInv
  <2>2. Mark' = Mark
    BY <1>3, StepCollectKeeps
  <2>3. Mark \in Int
    BY MarkType
  <2> QED
    BY <2>1, <2>2, <2>3, <1>2, FileStays
<1>4. CASE ReadFails
  <2>1. /\ at = "read" /\ at' = "end" /\ outcome' = "failed" /\ UNCHANGED <<file, torn>>
    BY <1>4 DEF ReadFails
  <2>2. Mark <= Mark'
    BY <1>4, ReadFailsKeeps
  <2> QED
    BY <2>1, <2>2, <1>2, FileStays
<1>5. CASE StepInsert
  <2>1. /\ at = "read" /\ at' = "write" /\ outcome # "failed"
        /\ UNCHANGED <<file, born, outcome, torn>>
    BY <1>5 DEF StepInsert, SolverInv, OutcomeInv
  <2>2. Mark' = Mark /\ Mark \in Int
    BY <1>5, StepInsertKeeps, MarkType
  <2> QED
    BY <2>1, <2>2, <1>2, FileStays
<1>6. CASE Verdict
  <2>1. /\ at = "write" /\ at' \in {"step", "end"} /\ outcome # "failed"
        /\ UNCHANGED <<file, born, torn>>
    BY <1>6 DEF Verdict, SolverInv, OutcomeInv
  <2>2. Mark' = Mark /\ Mark \in Int
    BY <1>6, VerdictKeeps, MarkType
  <2> QED
    BY <2>1, <2>2, <1>2, FileStays
<1>7. CASE KillSolver \/ RestartSolver
  <2>1. /\ UNCHANGED file /\ born' = found /\ at' # "half" /\ (torn => torn')
        /\ ~torn' => at # "half"
    <3>1. torn \in BOOLEAN
      BY DEF SolverInv, SolverTypes
    <3>2. CASE KillSolver
      BY <3>1, <3>2 DEF KillSolver, Fresh
    <3>3. CASE RestartSolver
      BY <3>1, <3>3 DEF RestartSolver, Fresh
    <3> QED
      BY <3>2, <3>3, <1>7
  <2>2. Mark' = found /\ Mark <= Mark'
    BY <1>7, KillSolverKeeps, RestartSolverKeeps
  <2>3. Mark' <= born'
    BY <2>1, <2>2, MarkType
  <2> QED
    BY <2>1, <2>2, <2>3, <1>2, FileStays
<1> QED
  BY <1>1, <1>3, <1>4, <1>5, <1>6, <1>7, WriteRecordFile, WriteRestFile
  DEF Next, SolverNext, BridgeNext, vars

-----------------------------------------------------------------------------
(* The file against the pipeline. *)

(* A reader who cuts the file from its beginning gets its records. *)
LEMMA RecordAt ==
  ASSUME SolverTypes, NEW k \in 1 .. Count
  PROVE  SubSeq(file, RecordSize * (k - 1) + 1, RecordSize * k)
           = <<file[RecordSize * k - 1], file[RecordSize * k]>>
<1> DEFINE a == RecordSize * k - 1
<1>1. /\ a \in Int /\ a + 1 \in Int /\ RecordSize * (k - 1) + 1 = a /\ RecordSize * k = a + 1
      /\ \A i \in a .. a + 1 : file[i] \in Pieces
  BY FileLength DEF RecordSize
<1> HIDE DEF a
<1>2. /\ SubSeq(file, a, a + 1) \in Seq(Pieces) /\ Len(SubSeq(file, a, a + 1)) = 2
      /\ \A i \in 1 .. 2 : SubSeq(file, a, a + 1)[i] = file[a + i - 1]
  <2>1. /\ SubSeq(file, a, a + 1) \in Seq(Pieces)
        /\ Len(SubSeq(file, a, a + 1)) = IF a <= a + 1 THEN a + 1 - a + 1 ELSE 0
        /\ \A i \in 1 .. a + 1 - a + 1 : SubSeq(file, a, a + 1)[i] = file[a + i - 1]
    BY <1>1, SubSeqProperties
  <2> QED
    BY <2>1, <1>1
<1>3. SubSeq(file, a, a + 1)[1] = file[a] /\ SubSeq(file, a, a + 1)[2] = file[a + 1]
  BY <1>1, <1>2
<1>4. <<file[a], file[a + 1]>> \in Seq(Pieces)
  BY <1>1
<1>5. SubSeq(file, a, a + 1) = <<file[a], file[a + 1]>>
  <2> DEFINE t == <<file[a], file[a + 1]>>
  <2>1. t \in Seq(Pieces) /\ Len(t) = 2 /\ t[1] = file[a] /\ t[2] = file[a + 1]
    BY <1>4
  <2>2. \A i \in 1 .. 2 : SubSeq(file, a, a + 1)[i] = t[i]
    <3>1. \A i \in 1 .. 2 : i = 1 \/ i = 2
      OBVIOUS
    <3> HIDE DEF t
    <3> QED
      BY <3>1, <1>3, <2>1
  <2> HIDE DEF t
  <2>3. SubSeq(file, a, a + 1) = t
    BY <1>2, <2>1, <2>2, SeqEqual
  <2> QED
    BY <2>3 DEF t
<1> QED
  BY <1>1, <1>5 DEF a

LEMMA RecordedWhenRead ==
  ASSUME SolverInv, FileInv
  PROVE  BatchesAreRecorded
<1> SUFFICES ASSUME at = "step" \/ outcome \in {"found", "limit"}, ~torn,
                    NEW dp \in (born + 1 .. found) \ AllOf(pending)
             PROVE  Record(dp) \in AllOf(Records)
  BY DEF BatchesAreRecorded
<1>1. at \in {"step", "end"} /\ outcome # "failed"
  BY DEF SolverInv, OutcomeInv
<1>2. /\ found \in Nat /\ born \in Nat /\ Len(pending) \in Nat /\ DOMAIN pending = 1 .. Len(pending)
      /\ toWrite = << >>
  BY <1>1, LenProperties DEF SolverInv, SolverTypes, BatchInv
<1>3. Mark = found - Len(pending)
  BY <1>1, <1>2, EmptyRun DEF Mark, Waiting
<1>4. dp \in born + 1 .. Mark
  <2> SUFFICES ASSUME ~(dp <= Mark) PROVE FALSE
    BY <1>2, <1>3
  <2>1. dp - Mark \in 1 .. Len(pending)
    BY <1>2, <1>3
  <2>2. pending[dp - Mark] = dp
    BY <2>1, <1>2, <1>3 DEF SolverInv, BatchInv, Consecutive
  <2> QED
    BY <2>1, <2>2, <1>2 DEF AllOf
<1>5. PICK k \in 1 .. Count : Dp(k) = dp /\ Whole(k)
  BY <1>1, <1>4 DEF FileInv
<1>6. Records[k] = Record(dp) /\ k \in DOMAIN Records
  BY <1>5, RecordAt DEF Records, Count, Whole, Record, SolverInv
<1> QED
  BY <1>6 DEF AllOf

LEMMA PoolStarts ==
  ASSUME Init
  PROVE  SolverInv /\ FileInv
<1>1. SolverInv
  BY SolverStarts DEF Init
<1>2. Count = 0 /\ Mark = 0
  <2>1. Len(file) = 0
    BY EmptyRun DEF Init
  <2>2. Count = 0
    <3>1. 0 \in Nat /\ 0 \in {RecordSize * 0, RecordSize * 0 + 1}
      BY DEF RecordSize
    <3> QED
      BY <2>1, <3>1, Halves DEF Count
  <2>3. found = 0 /\ pending = << >> /\ Waiting = << >>
    BY DEF Waiting, Init, SolverInit
  <2>4. Mark = 0
    <3>1. Len(pending) = 0 /\ Len(Waiting) = 0
      BY <2>3, EmptyRun
    <3>2. found = 0
      BY <2>3
    <3> QED
      BY <3>1, <3>2 DEF Mark
  <2> QED
    BY <2>2, <2>4
<1>3. FileInv
  BY <1>2, EmptyRun DEF FileInv, Init, SolverInit, RecordSize
<1> QED
  BY <1>1, <1>3

(* Nothing the table has seen is missing from the file, however batches, keys, limits
   and restarts follow each other, unless a record was cut short. *)
THEOREM ReadBatchesAreRecorded == Spec => []BatchesAreRecorded
<1>1. Init => SolverInv /\ FileInv
  BY PoolStarts
<1>2. SolverInv /\ FileInv /\ [Next]_vars => (SolverInv /\ FileInv)'
  BY SolverKeeps, FileKeeps
<1>3. SolverInv /\ FileInv => BatchesAreRecorded
  BY RecordedWhenRead
<1> QED
  BY <1>1, <1>2, <1>3, PTL DEF Spec, Safety

-----------------------------------------------------------------------------
(* The bridge: types and what reaches the pool. *)

Submissions == [record : Seq(Pieces), work : Nat, sequence : Nat, life : Nat]

BridgeTypes ==
  /\ offset \in Nat /\ offset <= Len(file)
  /\ dps \in Seq(Seq(Pieces))
  /\ received \in Seq(Submissions)
  /\ work \in Nat /\ sequence \in Nat /\ assignments \in Nat /\ life \in Nat

LEMMA BatchFacts ==
  ASSUME BridgeTypes
  PROVE  /\ Len(dps) \in Nat /\ Len(received) \in Nat
         /\ Len(Batch) \in Nat /\ Len(Batch) <= Len(dps)
         /\ DOMAIN Batch = 1 .. Len(Batch)
         /\ \A i \in 1 .. Len(Batch) : Batch[i] = dps[i] /\ dps[i] \in Seq(Pieces)
<1> DEFINE n == IF Len(dps) < MaxDpsPerBatch THEN Len(dps) ELSE MaxDpsPerBatch
<1>1. /\ Len(dps) \in Nat /\ Len(received) \in Nat
      /\ \A i \in 1 .. Len(dps) : dps[i] \in Seq(Pieces)
  BY LenProperties, ElementOfSeq DEF BridgeTypes
<1>2. n \in Nat /\ n <= Len(dps)
  BY <1>1, BridgeAssumption
<1>3. Batch = SubSeq(dps, 1, n)
  BY DEF Batch
<1> HIDE DEF n
<1>4. /\ Batch \in Seq(Seq(Pieces))
      /\ Len(Batch) = IF 1 <= n THEN n - 1 + 1 ELSE 0
      /\ \A i \in 1 .. n - 1 + 1 : Batch[i] = dps[1 + i - 1]
  <2>1. \A i \in 1 .. n : dps[i] \in Seq(Pieces)
    BY <1>1, <1>2
  <2> QED
    BY <1>2, <1>3, <2>1, SubSeqProperties
<1>5. Len(Batch) = n /\ DOMAIN Batch = 1 .. n
  BY <1>2, <1>4, LenProperties
<1> QED
  BY <1>1, <1>2, <1>4, <1>5

LEMMA SentFacts ==
  ASSUME BridgeTypes, NEW q \in 0 .. Len(Batch), received' = received \o SubSeq(Entries, 1, q)
  PROVE  /\ received' \in Seq(Submissions)
         /\ Len(received') = Len(received) + q
         /\ \A j \in 1 .. Len(received) : received'[j] = received[j]
         /\ \A i \in 1 .. q : received'[Len(received) + i] = Entry(dps[i], sequence + i - 1)
<1> PICK s : s = SubSeq(Entries, 1, q)
  OBVIOUS
<1>1. /\ Len(received) \in Nat /\ Len(Batch) \in Nat /\ q \in Nat /\ q <= Len(Batch)
      /\ received \in Seq(Submissions)
  BY BatchFacts DEF BridgeTypes
<1>2. \A i \in 1 .. Len(Batch) :
        Entries[i] = Entry(dps[i], sequence + i - 1) /\ Entries[i] \in Submissions
  <2> TAKE i \in 1 .. Len(Batch)
  <2>1. Entries[i] = Entry(dps[i], sequence + i - 1)
    BY BatchFacts DEF Entries
  <2>2. sequence + i - 1 \in Nat
    BY <1>1 DEF BridgeTypes
  <2> QED
    BY <2>1, <2>2, BatchFacts DEF BridgeTypes, Submissions, Entry
<1>3. /\ s \in Seq(Submissions) /\ Len(s) = q
      /\ \A i \in 1 .. q : s[i] = Entry(dps[i], sequence + i - 1)
  <2>1. \A i \in 1 .. q : i \in 1 .. Len(Batch) /\ Entries[i] \in Submissions
    BY <1>1, <1>2
  <2>2. /\ SubSeq(Entries, 1, q) \in Seq(Submissions)
        /\ Len(SubSeq(Entries, 1, q)) = IF 1 <= q THEN q - 1 + 1 ELSE 0
        /\ \A i \in 1 .. q - 1 + 1 : SubSeq(Entries, 1, q)[i] = Entries[1 + i - 1]
    BY <1>1, <2>1, SubSeqProperties
  <2>3. Len(s) = q /\ \A i \in 1 .. q : s[i] = Entries[i]
    BY <1>1, <2>2
  <2> QED
    BY <2>1, <2>2, <2>3, <1>2
<1>4. /\ received' \in Seq(Submissions) /\ Len(received') = Len(received) + q
      /\ \A i \in 1 .. Len(received) + q :
           received'[i] = IF i <= Len(received) THEN received[i] ELSE s[i - Len(received)]
  <2>1. received' = received \o s
    OBVIOUS
  <2>2. /\ received \o s \in Seq(Submissions) /\ Len(received \o s) = Len(received) + Len(s)
        /\ \A i \in 1 .. Len(received) + Len(s) :
             (received \o s)[i] = IF i <= Len(received) THEN received[i] ELSE s[i - Len(received)]
    BY <1>1, <1>3, ConcatProperties
  <2> QED
    BY <2>1, <2>2, <1>3
<1>5. \A j \in 1 .. Len(received) : received'[j] = received[j]
  BY <1>1, <1>4
<1>6. ASSUME NEW i \in 1 .. q
      PROVE  received'[Len(received) + i] = Entry(dps[i], sequence + i - 1)
  <2>1. Len(received) + i \in 1 .. Len(received) + q /\ ~(Len(received) + i <= Len(received))
        /\ Len(received) + i - Len(received) = i
    BY <1>1
  <2> QED
    BY <2>1, <1>3, <1>4
<1> QED
  BY <1>4, <1>5, <1>6

LEMMA SubmittedFacts ==
  ASSUME BridgeTypes, dps' = SubSeq(dps, Len(Batch) + 1, Len(dps))
  PROVE  /\ dps' \in Seq(Seq(Pieces))
         /\ Len(dps') = Len(dps) - Len(Batch)
         /\ \A i \in 1 .. Len(dps') : dps'[i] = dps[Len(Batch) + i]
<1> PICK a, n : a = Len(Batch) + 1 /\ n = Len(dps)
  OBVIOUS
<1>1. /\ Len(dps) \in Nat /\ Len(Batch) \in Nat /\ Len(Batch) <= Len(dps)
      /\ \A i \in 1 .. Len(dps) : dps[i] \in Seq(Pieces)
  BY BatchFacts, LenProperties, ElementOfSeq DEF BridgeTypes
<1>2. a \in Int /\ n \in Int /\ \A i \in a .. n : dps[i] \in Seq(Pieces)
  BY <1>1
<1>3. /\ SubSeq(dps, a, n) \in Seq(Seq(Pieces))
      /\ Len(SubSeq(dps, a, n)) = IF a <= n THEN n - a + 1 ELSE 0
      /\ \A i \in 1 .. n - a + 1 : SubSeq(dps, a, n)[i] = dps[a + i - 1]
  BY <1>2, SubSeqProperties
<1>4. dps' = SubSeq(dps, a, n)
  OBVIOUS
<1>5. Len(dps') = Len(dps) - Len(Batch) /\ n - a + 1 = Len(dps) - Len(Batch)
  BY <1>1, <1>3, <1>4
<1>6. \A i \in 1 .. Len(dps') : dps'[i] = dps[a + i - 1] /\ a + i - 1 = Len(Batch) + i
  BY <1>1, <1>3, <1>4, <1>5
<1> QED
  BY <1>3, <1>4, <1>5, <1>6

(* The reader takes the whole records behind its offset. *)
LEMMA ReadFacts ==
  ASSUME SolverTypes, BridgeTypes, ReadNewDps
  PROVE  \E fresh \in Nat :
           /\ offset' = offset + RecordSize * fresh
           /\ offset' <= Len(file)
           /\ dps' \in Seq(Seq(Pieces)) /\ Len(dps') = fresh
           /\ \A i \in 1 .. fresh :
                dps'[i] = SubSeq(file, offset + RecordSize * (i - 1) + 1, offset + RecordSize * i)
<1> DEFINE fresh == (Len(file) - offset) \div RecordSize
<1>1. Len(file) \in Nat /\ offset \in Nat /\ offset <= Len(file)
  BY FileLength DEF BridgeTypes
<1>2. fresh \in Nat /\ RecordSize * fresh <= Len(file) - offset
  <2>1. Len(file) - offset \in Nat
    BY <1>1
  <2> QED
    BY <2>1, Halves
<1>3. /\ dps' = [i \in 1 .. fresh |-> SubSeq(file, offset + RecordSize * (i - 1) + 1,
                                             offset + RecordSize * i)]
      /\ offset' = offset + RecordSize * fresh
  BY DEF ReadNewDps
<1> HIDE DEF fresh
<1>4. \A i \in 1 .. fresh :
        SubSeq(file, offset + RecordSize * (i - 1) + 1, offset + RecordSize * i) \in Seq(Pieces)
  <2> TAKE i \in 1 .. fresh
  <2> PICK a, b : a = offset + RecordSize * (i - 1) + 1 /\ b = offset + RecordSize * i
    OBVIOUS
  <2>1. a \in Int /\ b \in Int /\ 1 <= a /\ b <= Len(file)
    BY <1>1, <1>2 DEF RecordSize
  <2>2. \A j \in a .. b : file[j] \in Pieces
    BY <2>1, <1>1, FileLength
  <2>3. SubSeq(file, a, b) \in Seq(Pieces)
    BY <2>1, <2>2, SubSeqProperties
  <2> QED
    BY <2>3
<1>5. dps' \in [1 .. fresh -> Seq(Pieces)]
  BY <1>3, <1>4
<1>6. dps' \in Seq(Seq(Pieces)) /\ Len(dps') = fresh
  BY <1>2, <1>5
<1>7. offset' <= Len(file)
  BY <1>1, <1>2, <1>3 DEF RecordSize
<1> QED
  BY <1>2, <1>3, <1>6, <1>7

(* The file only grows. *)
LEMMA FileOnlyGrows ==
  ASSUME SolverTypes, [Next]_vars
  PROVE  /\ Len(file) <= Len(file') /\ Len(file') \in Nat
         /\ \A i \in 1 .. Len(file) : file'[i] = file[i]
<1>1. Len(file) \in Nat /\ file \in Seq(Pieces)
  BY FileLength DEF SolverTypes
<1>2. CASE UNCHANGED file
  BY <1>1, <1>2
<1>3. CASE WriteRecord \/ WriteRest
  <2>1. toWrite # << >> /\ toWrite \in Seq(Nat)
    BY <1>3 DEF WriteRecord, WriteRest, SolverTypes
  <2>2. Piece(Head(toWrite), 1) \in Pieces /\ Piece(Head(toWrite), 2) \in Pieces
    BY <2>1, HeadTailProperties DEF Piece, Pieces
  <2>3. PICK r \in Seq(Pieces) : r = Record(Head(toWrite))
    <3>1. Record(Head(toWrite)) \in Seq(Pieces)
      BY <2>2 DEF Record
    <3> QED
      BY <3>1, Zenon
  <2>4. CASE file' = file \o r
    <3>1. /\ Len(file \o r) = Len(file) + Len(r) /\ Len(r) \in Nat
          /\ \A i \in 1 .. Len(file) + Len(r) :
               (file \o r)[i] = IF i <= Len(file) THEN file[i] ELSE r[i - Len(file)]
      BY <1>1, ConcatProperties, LenProperties
    <3> QED
      BY <2>4, <3>1, <1>1
  <2>5. ASSUME NEW e \in Pieces, file' = Append(file, e)
        PROVE  /\ Len(file) <= Len(file') /\ Len(file') \in Nat
               /\ \A i \in 1 .. Len(file) : file'[i] = file[i]
    <3>1. /\ Len(file') = Len(file) + 1
          /\ \A i \in 1 .. Len(file) : file'[i] = file[i]
      BY <2>5, <1>1, AppendProperties
    <3> QED
      BY <3>1, <1>1
  <2>6. \/ UNCHANGED file \/ file' = file \o r
        \/ file' = Append(file, Piece(Head(toWrite), 1))
        \/ file' = Append(file, Piece(Head(toWrite), 2))
    BY <1>3, <2>3 DEF WriteRecord, WriteRest
  <2> QED
    BY <1>2, <2>2, <2>4, <2>5, <2>6
<1> QED
  BY <1>2, <1>3 DEF Next, SolverNext, BridgeNext, vars, StepCollect, ReadFails, StepInsert, Verdict,
                    KillSolver, RestartSolver

(* What a step of the bridge may do to what it has read and what the pool has. *)
Sends(q) ==
  /\ received' = received \o SubSeq(Entries, 1, q)
  /\ dps' \in {<< >>, SubSeq(dps, Len(Batch) + 1, Len(dps))}
  /\ UNCHANGED <<offset, life>>

LEMMA NothingSent ==
  ASSUME BridgeTypes
  PROVE  0 \in 0 .. Len(Batch) /\ received \o SubSeq(Entries, 1, 0) = received
<1>1. SubSeq(Entries, 1, 0) = << >>
  BY SubSeqEmpty
<1>2. received \o << >> = received
  BY ConcatEmptySeq DEF BridgeTypes
<1>3. 0 \in 0 .. Len(Batch)
  BY BatchFacts
<1>4. received \o SubSeq(Entries, 1, 0) = received
  BY <1>1, <1>2, Zenon
<1> QED
  BY <1>3, <1>4

LEMMA ReachesPoolSends ==
  ASSUME BridgeTypes, NEW n \in 0 .. Len(Batch), ReachesPool(n),
         dps' \in {<< >>, SubSeq(dps, Len(Batch) + 1, Len(dps))}, UNCHANGED <<offset, life>>
  PROVE  \E q \in 0 .. Len(Batch) : Sends(q) /\ (q = n \/ link # "up")
<1>1. CASE link = "up"
  BY <1>1 DEF ReachesPool, Sends
<1>2. CASE link # "up"
  BY <1>2, NothingSent DEF ReachesPool, Sends
<1> QED
  BY <1>1, <1>2

LEMMA BridgeShape ==
  ASSUME BridgeTypes, BridgeNext
  PROVE  \/ ReadNewDps
         \/ RestartBridge
         \/ UNCHANGED <<offset, dps, received, life>>
         \/ \E q \in 0 .. Len(Batch) : Sends(q)
<1>1. CASE ConnectFirst \/ Reconnect
  BY <1>1 DEF ConnectFirst, Reconnect, Connects, FailsToConnect
<1>2. CASE CheckNothing \/ CheckNewWork \/ CheckHalfAFrame \/ Break
  BY <1>2 DEF CheckNothing, CheckNewWork, CheckHalfAFrame, Break, poolVars
<1>3. CASE CheckRaises
  <2>1. UNCHANGED <<offset, received, life>> /\ dps' = << >>
    BY <1>3 DEF CheckRaises, Raises
  <2>2. Sends(0)
    BY <2>1, NothingSent DEF Sends
  <2> QED
    BY <2>2, NothingSent
<1>4. CASE SubmitDps
  <2>1. CASE dps' = dps
    BY <1>4, <2>1, BatchFacts, ReachesPoolSends DEF SubmitDps, Submitted, SendFails, poolVars
  <2>2. CASE ~connected /\ Submitted /\ UNCHANGED <<attempts, offset, life, poolVars>>
    <3>1. Sends(0)
      BY <2>2, NothingSent DEF Sends, Submitted, poolVars
    <3> QED
      BY <3>1, NothingSent
  <2>3. ASSUME NEW n \in 0 .. Len(Batch), ReachesPool(n), UNCHANGED <<offset, life>>,
               Submitted \/ dps' = << >>
        PROVE  \E q \in 0 .. Len(Batch) : Sends(q)
    <3>1. dps' \in {<< >>, SubSeq(dps, Len(Batch) + 1, Len(dps))}
      BY <2>3 DEF Submitted
    <3> QED
      BY <2>3, <3>1, ReachesPoolSends
  <2>4. Len(Batch) \in 0 .. Len(Batch)
    BY BatchFacts
  <2>5. CASE connected /\ Len(Batch) <= MaxPacked /\ SendFails
    BY <2>3, <2>5 DEF SendFails
  <2>6. CASE /\ Submitted /\ UNCHANGED <<offset, life>>
             /\ ReachesPool(Len(Batch)) \/ \E n \in 0 .. Len(Batch) : ReachesPool(n)
    BY <2>3, <2>4, <2>6
  <2> QED
    BY <1>4, <2>1, <2>2, <2>5, <2>6 DEF SubmitDps
<1> QED
  BY <1>1, <1>2, <1>3, <1>4 DEF BridgeNext, MainLoop

LEMMA BridgeTypesKeep ==
  ASSUME SolverTypes, BridgeTypes, [Next]_vars
  PROVE  BridgeTypes'
<1>1. Len(file) \in Nat /\ Len(file') \in Nat /\ Len(file) <= Len(file')
  BY FileLength, FileOnlyGrows
<1>2. work' \in Nat /\ sequence' \in Nat /\ assignments' \in Nat /\ life' \in Nat
  <2>1. CASE UNCHANGED <<work, sequence, assignments, life>>
    BY <2>1 DEF BridgeTypes
  <2>2. CASE UNCHANGED bridgeVars
    BY <2>1, <2>2 DEF bridgeVars, poolVars
  <2>3. CASE UNCHANGED life /\ (Connects \/ FailsToConnect)
    BY <2>3 DEF Connects, FailsToConnect, BridgeTypes, Nothing
  <2>4. CASE ConnectFirst \/ Reconnect
    BY <2>3, <2>4 DEF ConnectFirst, Reconnect
  <2>5. CASE CheckNewWork \/ RestartBridge
    BY <2>5 DEF CheckNewWork, RestartBridge, BridgeTypes, Nothing
  <2>6. CASE ReadNewDps \/ CheckNothing \/ CheckHalfAFrame \/ CheckRaises \/ Break
    BY <2>1, <2>6 DEF ReadNewDps, CheckNothing, CheckHalfAFrame, CheckRaises, Raises, Break, poolVars
  <2>7. CASE SubmitDps
    <3>1. CASE sequence' = SequenceAfter /\ UNCHANGED <<work, assignments, life>>
      BY <3>1, BatchFacts DEF BridgeTypes, SequenceAfter
    <3> QED
      BY <2>1, <2>7, <3>1 DEF SubmitDps, SendFails, poolVars
  <2> QED
    BY <2>2, <2>4, <2>5, <2>6, <2>7 DEF Next, BridgeNext, MainLoop, vars
<1>3. /\ offset' \in Nat /\ offset' <= Len(file')
      /\ dps' \in Seq(Seq(Pieces)) /\ received' \in Seq(Submissions)
  <2>1. CASE UNCHANGED <<offset, dps, received, life>>
    BY <1>1, <2>1 DEF BridgeTypes
  <2>2. CASE ReadNewDps
    <3>1. /\ offset' \in Nat /\ offset' <= Len(file)
          /\ dps' \in Seq(Seq(Pieces)) /\ received' = received
      BY <2>2, ReadFacts DEF ReadNewDps, poolVars, BridgeTypes, RecordSize
    <3> QED
      BY <1>1, <3>1 DEF BridgeTypes
  <2>3. CASE RestartBridge
    BY <1>1, <2>3, EmptySeq DEF RestartBridge, BridgeTypes
  <2>4. ASSUME NEW q \in 0 .. Len(Batch), Sends(q)
        PROVE  /\ offset' \in Nat /\ offset' <= Len(file')
               /\ dps' \in Seq(Seq(Pieces)) /\ received' \in Seq(Submissions)
    <3>1. received' \in Seq(Submissions)
      BY <2>4, SentFacts DEF Sends
    <3>2. dps' \in Seq(Seq(Pieces))
      <4>1. CASE dps' = << >>
        BY <4>1
      <4>2. CASE dps' = SubSeq(dps, Len(Batch) + 1, Len(dps))
        BY <4>2, SubmittedFacts
      <4> QED
        BY <2>4, <4>1, <4>2 DEF Sends
    <3> QED
      BY <1>1, <2>4, <3>1, <3>2 DEF Sends, BridgeTypes
  <2>5. CASE UNCHANGED bridgeVars
    BY <2>1, <2>5 DEF bridgeVars, poolVars
  <2> QED
    BY <2>1, <2>2, <2>3, <2>4, <2>5, BridgeShape DEF Next, vars
<1> QED
  BY <1>2, <1>3 DEF BridgeTypes

-----------------------------------------------------------------------------
(* The numbers of the submissions of one assignment. *)

(* The first n submissions, those for one assignment. *)
OfWork(subs, w, n) == {i \in 1 .. n : subs[i].work = w}

(* The bridge counts what it has sent on a connection that lasts. *)
SequenceInv ==
  /\ work <= assignments
  /\ \A j \in 1 .. Len(received) :
       /\ received[j].work \in 1 .. assignments
       /\ received[j].sequence = Cardinality(OfWork(received, received[j].work, j - 1))
  /\ link = "up" =>
       /\ work \in 1 .. assignments
       /\ sequence = Cardinality(OfWork(received, work, Len(received)))

LEMMA OfWorkNone ==
  ASSUME NEW s, NEW m \in Nat, NEW w, \A j \in 1 .. m : s[j].work # w
  PROVE  Cardinality(OfWork(s, w, m)) = 0
<1>1. OfWork(s, w, m) = {}
  BY DEF OfWork
<1> QED
  BY <1>1, FS_EmptySet

LEMMA OfWorkRun ==
  ASSUME NEW s, NEW t, NEW m \in Nat, \A j \in 1 .. m : t[j] = s[j],
         NEW w, NEW n \in Nat, m <= n, \A i \in m + 1 .. n : t[i].work = w
  PROVE  Cardinality(OfWork(t, w, n)) = Cardinality(OfWork(s, w, m)) + (n - m)
<1> DEFINE old == OfWork(s, w, m)
           new == m + 1 .. n
<1>1. IsFiniteSet(old) /\ Cardinality(old) \in Nat
  <2>1. IsFiniteSet(1 .. m)
    BY FS_Interval
  <2>2. old \in SUBSET (1 .. m)
    BY DEF OfWork
  <2> HIDE DEF old
  <2> QED
    BY <2>1, <2>2, FS_Subset, FS_CardinalityType
<1>2. IsFiniteSet(new) /\ Cardinality(new) = n - m
  <2>1. m + 1 \in Int /\ n \in Int
    OBVIOUS
  <2>2. /\ IsFiniteSet(new)
        /\ Cardinality(new) = IF m + 1 > n THEN 0 ELSE n - (m + 1) + 1
    BY <2>1, FS_Interval
  <2> QED
    BY <2>2
<1>3. OfWork(t, w, n) = old \cup new
  <2>1. \A i \in new : t[i].work = w
    OBVIOUS
  <2>2. \A i : i \in 1 .. n <=> i \in 1 .. m \/ i \in new
    OBVIOUS
  <2> HIDE DEF new
  <2> QED
    BY <2>1, <2>2 DEF OfWork
<1>4. old \cap new = {}
  BY DEF OfWork
<1> HIDE DEF old, new
<1>5. Cardinality(old \cup new) = Cardinality(old) + Cardinality(new) - Cardinality({})
  BY <1>1, <1>2, <1>4, FS_Union
<1>6. Cardinality(old \cup new) = Cardinality(old) + (n - m)
  BY <1>1, <1>2, <1>5, FS_EmptySet
<1> QED
  BY <1>3, <1>6 DEF old

LEMMA NotUpKeeps ==
  ASSUME BridgeTypes, SequenceInv, UNCHANGED <<received, assignments>>,
         work' \in {work, Nothing},
         link' = "up" => link = "up" /\ UNCHANGED <<work, sequence>>
  PROVE  SequenceInv'
  BY DEF SequenceInv, BridgeTypes, Nothing

LEMMA NewWorkKeeps ==
  ASSUME BridgeTypes, SequenceInv, UNCHANGED received,
         assignments' = assignments + 1, work' = assignments', sequence' = 0
  PROVE  SequenceInv'
<1>1. Len(received) \in Nat
  BY BatchFacts
<1>2. assignments' \in Nat /\ work' \in 1 .. assignments' /\ assignments \in Nat
  BY DEF BridgeTypes
<1>3. \A j \in 1 .. Len(received) : received[j].work # work'
  BY <1>1, <1>2 DEF SequenceInv
<1>4. Cardinality(OfWork(received, work', Len(received))) = 0
  BY <1>1, <1>3, OfWorkNone
<1> QED
  BY <1>1, <1>2, <1>4 DEF SequenceInv

LEMMA SentKeeps ==
  ASSUME BridgeTypes, SequenceInv, UNCHANGED <<work, assignments>>,
         NEW q \in 0 .. Len(Batch), link = "up" \/ q = 0,
         received' = received \o SubSeq(Entries, 1, q),
         link' = "up" => link = "up" /\ sequence' = sequence + q
  PROVE  SequenceInv'
<1> PICK m, subs : m = Len(received) /\ subs = received'
  OBVIOUS
<1>1. q \in Nat /\ m \in Nat /\ sequence \in Nat
  BY BatchFacts DEF BridgeTypes
<1>2. /\ Len(subs) = m + q
      /\ \A j \in 1 .. m : subs[j] = received[j]
      /\ \A i \in 1 .. q : subs[m + i] = Entry(dps[i], sequence + i - 1)
  BY SentFacts
<1>3. \A i \in 1 .. q : subs[m + i].work = work /\ subs[m + i].sequence = sequence + i - 1
  <2> TAKE i \in 1 .. q
  <2>1. subs[m + i] = Entry(dps[i], sequence + i - 1)
    BY <1>2
  <2>2. /\ Entry(dps[i], sequence + i - 1).work = work
        /\ Entry(dps[i], sequence + i - 1).sequence = sequence + i - 1
    BY DEF Entry
  <2> QED
    BY <2>1, <2>2, Zenon
<1>4. ASSUME NEW n \in m .. m + q, link = "up"
      PROVE  Cardinality(OfWork(subs, work, n)) = sequence + (n - m)
  <2>1. \A i \in m + 1 .. n : subs[i].work = work
    <3> TAKE i \in m + 1 .. n
    <3>1. i - m \in 1 .. q /\ m + (i - m) = i
      BY <1>1
    <3> QED
      BY <3>1, <1>3
  <2>2. n \in Nat /\ m <= n /\ \A j \in 1 .. m : subs[j] = received[j]
    BY <1>1, <1>2
  <2>3. Cardinality(OfWork(subs, work, n)) = Cardinality(OfWork(received, work, m)) + (n - m)
    BY ONLY <1>1, <2>1, <2>2, OfWorkRun
  <2> QED
    BY <1>4, <2>3 DEF SequenceInv
<1>5. ASSUME NEW j \in 1 .. Len(subs)
      PROVE  /\ subs[j].work \in 1 .. assignments
             /\ subs[j].sequence = Cardinality(OfWork(subs, subs[j].work, j - 1))
  <2>1. CASE j <= m
    <3>1. j \in 1 .. m /\ subs[j] = received[j] /\ j - 1 \in 0 .. m
      BY <1>1, <1>2, <2>1
    <3> PICK w : w = received[j].work
      OBVIOUS
    <3>2. OfWork(subs, w, j - 1) = OfWork(received, w, j - 1)
      BY <1>1, <1>2, <3>1 DEF OfWork
    <3> QED
      BY <3>1, <3>2 DEF SequenceInv
  <2>2. CASE ~(j <= m)
    <3> PICK i \in 1 .. q : j = m + i
      <4>1. j - m \in 1 .. q /\ j = m + (j - m)
        BY <1>1, <1>2, <2>2
      <4> QED
        BY <4>1
    <3>1. link = "up" /\ j - 1 \in m .. m + q
      BY <1>1
    <3>2. subs[j].work = work /\ subs[j].sequence = sequence + i - 1
      BY <1>3
    <3>3. Cardinality(OfWork(subs, work, j - 1)) = sequence + (j - 1 - m)
      BY <3>1, <1>4
    <3>4. sequence + (j - 1 - m) = sequence + i - 1
      BY <1>1
    <3> QED
      BY <3>1, <3>2, <3>3, <3>4 DEF SequenceInv
  <2> QED
    BY <2>1, <2>2
<1>6. ASSUME link' = "up"
      PROVE  /\ work \in 1 .. assignments
             /\ sequence' = Cardinality(OfWork(subs, work, Len(subs)))
  <2>1. m + q \in m .. m + q /\ m + q - m = q /\ link = "up" /\ sequence' = sequence + q
    BY <1>1, <1>6
  <2> QED
    BY <1>2, <1>4, <2>1 DEF SequenceInv
<1> QED
  BY <1>5, <1>6 DEF SequenceInv

LEMMA SubmitKeepsSequence ==
  ASSUME BridgeTypes, SequenceInv, SubmitDps
  PROVE  SequenceInv'
<1>1. CASE UNCHANGED poolVars
  BY <1>1, NotUpKeeps DEF poolVars
<1>2. ASSUME NEW n \in 0 .. Len(Batch), ReachesPool(n), UNCHANGED <<work, assignments>>,
             link' = "up" => link = "up" /\ sequence' = sequence + n
      PROVE  SequenceInv'
  <2>1. CASE link = "up"
    <3>1. received' = received \o SubSeq(Entries, 1, n)
      BY <1>2, <2>1 DEF ReachesPool
    <3> QED
      BY <1>2, <2>1, <3>1, SentKeeps
  <2>2. CASE link # "up"
    <3>1. received' = received
      BY <1>2, <2>2, NothingSent DEF ReachesPool
    <3> QED
      BY <1>2, <2>2, <3>1, NotUpKeeps
  <2> QED
    BY <2>1, <2>2
<1>3. CASE SendFails
  BY <1>2, <1>3 DEF SendFails, CloseSocket
<1>4. CASE /\ sequence' = SequenceAfter /\ UNCHANGED <<work, assignments>>
           /\ ReachesPool(Len(Batch)) /\ UNCHANGED link
  <2>1. Len(Batch) \in 0 .. Len(Batch)
    BY BatchFacts
  <2> QED
    BY <1>2, <1>4, <2>1 DEF SequenceAfter
<1>5. CASE /\ UNCHANGED <<work, assignments>> /\ link' = "broken"
           /\ \E n \in 0 .. Len(Batch) : ReachesPool(n)
  BY <1>2, <1>5
<1> QED
  BY <1>1, <1>3, <1>4, <1>5 DEF SubmitDps

LEMMA SequenceKeeps ==
  ASSUME BridgeTypes, SequenceInv, [Next]_vars
  PROVE  SequenceInv'
<1>1. CASE UNCHANGED poolVars
  BY <1>1, NotUpKeeps DEF poolVars
<1>2. CASE Connects \/ CheckNewWork
  BY <1>2, NewWorkKeeps DEF Connects, CheckNewWork
<1>3. CASE FailsToConnect
  BY <1>3, NotUpKeeps DEF FailsToConnect
<1>4. CASE CheckHalfAFrame \/ CheckRaises \/ Break \/ RestartBridge
  BY <1>4, NotUpKeeps DEF CheckHalfAFrame, CheckRaises, Raises, CloseSocket, Break, RestartBridge
<1>5. CASE ConnectFirst \/ Reconnect
  BY <1>2, <1>3, <1>5 DEF ConnectFirst, Reconnect
<1>6. CASE ReadNewDps \/ CheckNothing \/ UNCHANGED bridgeVars
  BY <1>1, <1>6 DEF ReadNewDps, CheckNothing, bridgeVars
<1> QED
  BY <1>2, <1>4, <1>5, <1>6, SubmitKeepsSequence DEF Next, BridgeNext, MainLoop, vars

LEMMA BridgeStarts ==
  ASSUME Init
  PROVE  BridgeTypes /\ SequenceInv
<1>1. Len(file) \in Nat /\ Len(received) = 0 /\ received \in Seq(Submissions)
      /\ dps \in Seq(Seq(Pieces)) /\ offset <= Len(file)
  BY EmptyRun, EmptySeq DEF Init, BridgeInit
<1> QED
  BY <1>1 DEF Init, BridgeInit, BridgeTypes, SequenceInv, Nothing

(* However batches, new work and broken connections follow each other, the pool never
   sees a gap or a repetition in the numbers of an assignment. *)
THEOREM SubmissionsAreNumbered == Spec => []SequenceIsConsecutive
<1>1. Init => SolverInv /\ BridgeTypes /\ SequenceInv
  BY SolverStarts, BridgeStarts DEF Init
<1>2. SolverInv /\ BridgeTypes /\ SequenceInv /\ [Next]_vars
        => (SolverInv /\ BridgeTypes /\ SequenceInv)'
  BY SolverKeeps, BridgeTypesKeep, SequenceKeeps DEF SolverInv
<1>3. BridgeTypes /\ SequenceInv => SequenceIsConsecutive
  <2> SUFFICES ASSUME BridgeTypes, SequenceInv, NEW j \in DOMAIN received
               PROVE  received[j].sequence
                        = Cardinality({i \in 1 .. j - 1 : received[i].work = received[j].work})
    BY DEF SequenceIsConsecutive
  <2>1. j \in 1 .. Len(received)
    BY LenProperties DEF BridgeTypes
  <2> QED
    BY <2>1 DEF SequenceInv, OfWork
<1> QED
  BY <1>1, <1>2, <1>3, PTL DEF Spec, Safety

-----------------------------------------------------------------------------
(* The records the pool gets and their order. *)

At(k) == <<file[RecordSize * k - 1], file[RecordSize * k]>>

(* The reader holds the records behind the b-th; what the pool has from this start
   of the bridge are some of those before. *)
ReadUpTo(b) ==
  /\ offset = RecordSize * (b + Len(dps))
  /\ \A i \in 1 .. Len(dps) : dps[i] = At(b + i)
  /\ \A j \in 1 .. Len(received) :
       received[j].life = life => \E k \in 1 .. b : received[j].record = At(k)

InOrder(subs) ==
  \A i, j \in 1 .. Len(subs) :
    /\ subs[i].record = Record(subs[i].record[1].dp)
    /\ i < j /\ subs[i].life = subs[j].life => subs[i].record[1].dp < subs[j].record[1].dp

RecordsInv ==
  /\ \A j \in 1 .. Len(received) : received[j].life <= life
  /\ ~torn => InOrder(received)
  /\ \E b \in Nat : ReadUpTo(b)

LEMMA FileRecord ==
  ASSUME SolverInv, FileInv, ~torn, NEW k \in 1 .. Count
  PROVE  At(k) = Record(Dp(k)) /\ At(k)[1].dp = Dp(k) /\ Dp(k) \in Nat
<1>1. Whole(k) /\ Dp(k) \in Nat
  BY FileLength DEF FileInv, SolverInv
<1>2. At(k) = Record(Dp(k))
  BY <1>1 DEF Whole, At, Record
<1>3. Record(Dp(k))[1].dp = Dp(k)
  BY DEF Record, Piece
<1> QED
  BY <1>1, <1>2, <1>3

(* What lies before the reader's offset is whole records of the file. *)
LEMMA BeforeOffset ==
  ASSUME SolverTypes, BridgeTypes, NEW b \in Nat, ReadUpTo(b)
  PROVE  b + Len(dps) \in Nat /\ b + Len(dps) <= Count
<1>1. Len(dps) \in Nat /\ Len(file) \in Nat /\ offset <= Len(file)
  BY BatchFacts, FileLength DEF BridgeTypes
<1>2. Count \in Nat /\ Len(file) < RecordSize * Count + RecordSize
  BY <1>1, Halves DEF Count
<1>3. offset = 2 * (b + Len(dps)) /\ Len(file) < 2 * Count + 2
  BY <1>2 DEF ReadUpTo, RecordSize
<1> QED
  BY <1>1, <1>2, <1>3

LEMMA SameRecords ==
  ASSUME SolverTypes, BridgeTypes, RecordsInv, [Next]_vars,
         UNCHANGED <<offset, dps, received, life>>, torn => torn'
  PROVE  RecordsInv'
<1> PICK b \in Nat : ReadUpTo(b)
  BY DEF RecordsInv
<1>1. b + Len(dps) \in Nat /\ b + Len(dps) <= Count /\ Len(dps) \in Nat
  BY BeforeOffset, BatchFacts
<1>2. ASSUME NEW k \in 1 .. b + Len(dps)
      PROVE  At(k)' = At(k)
  <2>1. k \in 1 .. Count
    BY <1>1, FileLength
  <2>2. RecordSize * k \in 1 .. Len(file) /\ RecordSize * k - 1 \in 1 .. Len(file)
    BY <2>1, FileLength
  <2> QED
    BY <2>2, FileOnlyGrows DEF At
<1>3. ReadUpTo(b)'
  <2>1. \A i \in 1 .. Len(dps) : dps[i] = At(b + i)'
    <3> TAKE i \in 1 .. Len(dps)
    <3>1. b + i \in 1 .. b + Len(dps)
      BY <1>1
    <3> QED
      BY <3>1, <1>2 DEF ReadUpTo
  <2>2. ASSUME NEW j \in 1 .. Len(received), received[j].life = life
        PROVE  \E k \in 1 .. b : received[j].record = At(k)'
    <3> PICK k \in 1 .. b : received[j].record = At(k)
      BY <2>2 DEF ReadUpTo
    <3>1. k \in 1 .. b + Len(dps)
      BY <1>1
    <3> QED
      BY <3>1, <1>2
  <2> QED
    BY <2>1, <2>2 DEF ReadUpTo
<1> QED
  BY <1>3 DEF RecordsInv

LEMMA ReadKeepsRecords ==
  ASSUME SolverTypes, BridgeTypes, RecordsInv, ReadNewDps, UNCHANGED <<file, torn>>
  PROVE  RecordsInv'
<1> PICK b \in Nat : ReadUpTo(b)
  BY DEF RecordsInv
<1> PICK c : c = b + Len(dps)
  OBVIOUS
<1>1. c \in Nat /\ c <= Count /\ Len(dps) \in Nat /\ offset = RecordSize * c /\ b <= c
  BY BeforeOffset, BatchFacts DEF ReadUpTo
<1> PICK fresh \in Nat :
      /\ offset' = offset + RecordSize * fresh
      /\ offset' <= Len(file)
      /\ dps' \in Seq(Seq(Pieces)) /\ Len(dps') = fresh
      /\ \A i \in 1 .. fresh :
           dps'[i] = SubSeq(file, offset + RecordSize * (i - 1) + 1, offset + RecordSize * i)
  BY ReadFacts
<1>2. UNCHANGED <<received, life>>
  BY DEF ReadNewDps, poolVars
<1>3. ASSUME NEW i \in 1 .. fresh
      PROVE  dps'[i] = At(c + i)
  <2>1. c + i \in 1 .. Count
    <3>1. Len(file) \in Nat /\ Count \in Nat /\ Len(file) < RecordSize * Count + RecordSize
      BY FileLength, Halves DEF Count
    <3>2. offset' = 2 * (c + fresh) /\ Len(file) < 2 * Count + 2
      BY <1>1, <3>1 DEF RecordSize
    <3> QED
      BY <1>1, <3>1, <3>2
  <2>2. /\ offset + RecordSize * (i - 1) + 1 = RecordSize * (c + i - 1) + 1
        /\ offset + RecordSize * i = RecordSize * (c + i)
    BY <1>1 DEF RecordSize
  <2>3. SubSeq(file, RecordSize * (c + i - 1) + 1, RecordSize * (c + i)) = At(c + i)
    BY <2>1, RecordAt DEF At
  <2> QED
    BY <2>2, <2>3
<1>4. ReadUpTo(c)'
  <2>1. offset' = RecordSize * (c + fresh)
    BY <1>1 DEF RecordSize
  <2>2. \A k : At(k)' = At(k)
    BY DEF At
  <2>3. \A i \in 1 .. Len(dps') : dps'[i] = At(c + i)'
    BY <1>3, <2>2
  <2>4. ASSUME NEW j \in 1 .. Len(received), received[j].life = life
        PROVE  \E k \in 1 .. c : received[j].record = At(k)'
    <3> PICK k \in 1 .. b : received[j].record = At(k)
      BY <2>4 DEF ReadUpTo
    <3>1. k \in 1 .. c
      BY <1>1
    <3> QED
      BY <3>1, <2>2
  <2> QED
    BY <1>2, <2>1, <2>3, <2>4 DEF ReadUpTo
<1> QED
  BY <1>1, <1>2, <1>4 DEF RecordsInv

LEMMA RestartKeepsRecords ==
  ASSUME SolverTypes, BridgeTypes, RecordsInv, RestartBridge, UNCHANGED <<file, torn>>
  PROVE  RecordsInv'
<1>1. /\ life' = life + 1 /\ offset' = 0 /\ dps' = << >> /\ UNCHANGED received
      /\ Len(received) \in Nat /\ life \in Nat
  BY BatchFacts DEF RestartBridge, BridgeTypes
<1>2. \A j \in 1 .. Len(received) : received[j].life <= life'
                                   /\ received[j].life # life'
  <2> TAKE j \in 1 .. Len(received)
  <2>1. received[j].life \in Nat /\ received[j].life <= life
    <3>1. received[j] \in Submissions
      BY ElementOfSeq DEF BridgeTypes
    <3> QED
      BY <3>1 DEF RecordsInv, Submissions
  <2> QED
    BY <2>1, <1>1
<1>3. ReadUpTo(0)'
  <2>1. Len(dps') = 0
    BY <1>1, EmptyRun
  <2> QED
    BY <2>1, <1>1, <1>2 DEF ReadUpTo, RecordSize
<1> QED
  BY <1>1, <1>2, <1>3 DEF RecordsInv

LEMMA SendsKeepsRecords ==
  ASSUME SolverInv, FileInv, BridgeTypes, RecordsInv, NEW q \in 0 .. Len(Batch), Sends(q),
         UNCHANGED <<file, torn>>
  PROVE  RecordsInv'
<1> PICK b \in Nat : ReadUpTo(b)
  BY DEF RecordsInv
<1> PICK m, n, subs : m = Len(received) /\ n = Len(Batch) /\ subs = received'
  OBVIOUS
<1>1. /\ m \in Nat /\ n \in Nat /\ n <= Len(dps) /\ Len(dps) \in Nat
      /\ q \in Nat /\ q <= n /\ life \in Nat
  BY BatchFacts DEF BridgeTypes
<1>2. b + Len(dps) \in Nat /\ b + Len(dps) <= Count /\ Count \in Nat
  BY BeforeOffset, FileLength DEF SolverInv
<1>3. /\ Len(subs) = m + q
      /\ \A j \in 1 .. m : subs[j] = received[j]
      /\ \A i \in 1 .. q : subs[m + i] = Entry(dps[i], sequence + i - 1)
  BY SentFacts DEF Sends
<1>4. UNCHANGED <<offset, life>> /\ \A k : At(k)' = At(k)
  BY DEF Sends, At
<1>5. ASSUME NEW i \in 1 .. q
      PROVE  /\ b + i \in 1 .. Count
             /\ subs[m + i].record = At(b + i) /\ subs[m + i].life = life
  <2>1. b + i \in 1 .. Count /\ i \in 1 .. Len(dps)
    BY <1>1, <1>2
  <2>2. dps[i] = At(b + i)
    BY <2>1 DEF ReadUpTo
  <2>3. /\ Entry(dps[i], sequence + i - 1).record = dps[i]
        /\ Entry(dps[i], sequence + i - 1).life = life
    BY DEF Entry
  <2> QED
    BY <2>1, <2>2, <2>3, <1>3, Zenon
<1>6. \A j \in 1 .. m + q : j \in 1 .. m \/ (j - m \in 1 .. q /\ j = m + (j - m))
  BY <1>1
<1>7. ASSUME NEW j \in 1 .. m + q
      PROVE  subs[j].life <= life
  <2>1. CASE j \in 1 .. m
    BY <2>1, <1>3 DEF RecordsInv
  <2>2. ASSUME NEW k \in 1 .. q, j = m + k
        PROVE  subs[j].life <= life
    <3>1. subs[j].life = life
      BY <2>2, <1>5
    <3> QED
      BY <3>1, <1>1
  <2> QED
    BY <2>1, <2>2, <1>6
<1>8. ASSUME ~torn, NEW i \in 1 .. m + q
      PROVE  subs[i].record = Record(subs[i].record[1].dp)
  <2>1. CASE i \in 1 .. m
    BY <2>1, <1>3, <1>8 DEF RecordsInv, InOrder
  <2>2. ASSUME NEW k \in 1 .. q, i = m + k
        PROVE  subs[i].record = Record(subs[i].record[1].dp)
    <3> PICK p \in 1 .. Count : p = b + k /\ subs[i].record = At(p)
      BY <2>2, <1>5
    <3>1. At(p) = Record(Dp(p)) /\ At(p)[1].dp = Dp(p)
      BY <1>8, FileRecord
    <3> QED
      BY <3>1, Zenon
  <2> QED
    BY <2>1, <2>2, <1>6
<1>9. ASSUME ~torn, NEW i \in 1 .. m + q, NEW j \in 1 .. m + q, i < j,
             subs[i].life = subs[j].life
      PROVE  subs[i].record[1].dp < subs[j].record[1].dp
  <2>1. CASE j \in 1 .. m
    <3>1. i \in 1 .. m
      BY <1>1, <1>9, <2>1
    <3> QED
      BY <2>1, <3>1, <1>3, <1>9 DEF RecordsInv, InOrder
  <2>2. ASSUME NEW l \in 1 .. q, j = m + l
        PROVE  subs[i].record[1].dp < subs[j].record[1].dp
    <3> PICK p \in 1 .. Count : p = b + l /\ subs[j].record = At(p) /\ subs[j].life = life
      BY <2>2, <1>5
    <3>1. PICK o \in 1 .. Count : o < p /\ subs[i].record = At(o)
      <4>1. CASE i \in 1 .. m
        <5>1. received[i] = subs[i] /\ received[i].life = life
          BY <4>1, <1>3, <1>9
        <5>2. PICK o \in 1 .. b : received[i].record = At(o)
          BY <5>1, <4>1 DEF ReadUpTo
        <5>3. o \in 1 .. Count /\ o < p
          BY <1>1, <1>2
        <5> QED
          BY <5>1, <5>2, <5>3
      <4>2. ASSUME NEW k \in 1 .. q, i = m + k
            PROVE  \E o \in 1 .. Count : o < p /\ subs[i].record = At(o)
        <5>1. subs[i].record = At(b + k) /\ b + k \in 1 .. Count
          BY <4>2, <1>5
        <5>2. b + k < p
          BY <1>1, <1>9, <2>2, <4>2
        <5> QED
          BY <5>1, <5>2
      <4> QED
        BY <4>1, <4>2, <1>6
    <3>2. At(o)[1].dp = Dp(o) /\ At(p)[1].dp = Dp(p)
      BY <1>9, FileRecord
    <3>3. Dp(o) < Dp(p)
      BY <1>9, <3>1 DEF FileInv
    <3> QED
      BY <3>1, <3>2, <3>3
  <2> QED
    BY <2>1, <2>2, <1>6
<1>10. ~torn => InOrder(subs)
  BY <1>3, <1>8, <1>9 DEF InOrder
<1>11. \E c \in Nat : ReadUpTo(c)'
  <2>1. ASSUME NEW c \in Nat, b + q <= c, offset = RecordSize * (c + Len(dps')),
               \A i \in 1 .. Len(dps') : dps'[i] = At(c + i)
        PROVE  ReadUpTo(c)'
    <3>1. ASSUME NEW j \in 1 .. m + q, subs[j].life = life
          PROVE  \E k \in 1 .. c : subs[j].record = At(k)
      <4>1. CASE j \in 1 .. m
        <5>1. received[j] = subs[j] /\ received[j].life = life
          BY <4>1, <1>3, <3>1
        <5>2. PICK k \in 1 .. b : received[j].record = At(k)
          BY <5>1, <4>1 DEF ReadUpTo
        <5>3. k \in 1 .. c
          BY <1>1, <2>1
        <5> QED
          BY <5>1, <5>2, <5>3
      <4>2. ASSUME NEW k \in 1 .. q, j = m + k
            PROVE  \E o \in 1 .. c : subs[j].record = At(o)
        <5>1. b + k \in 1 .. c /\ subs[j].record = At(b + k)
          BY <1>1, <1>5, <2>1, <4>2
        <5> QED
          BY <5>1
      <4> QED
        BY <4>1, <4>2, <1>6
    <3> QED
      BY <2>1, <3>1, <1>3, <1>4 DEF ReadUpTo
  <2>2. CASE dps' = << >>
    <3> PICK c : c = b + Len(dps)
      OBVIOUS
    <3>1. c \in Nat /\ b + q <= c /\ Len(dps') = 0 /\ offset = RecordSize * c
      BY <1>1, <2>2, EmptyRun DEF ReadUpTo
    <3>2. c + 0 = c
      BY <3>1
    <3> QED
      BY <2>1, <3>1, <3>2
  <2>3. CASE dps' = SubSeq(dps, Len(Batch) + 1, Len(dps))
    <3>1. Len(dps') = Len(dps) - n /\ \A i \in 1 .. Len(dps) - n : dps'[i] = dps[n + i]
      BY <2>3, SubmittedFacts
    <3>2. \A i \in 1 .. Len(dps') : dps'[i] = At(b + n + i)
      <4> TAKE i \in 1 .. Len(dps')
      <4>1. n + i \in 1 .. Len(dps) /\ b + (n + i) = b + n + i
        BY <1>1, <3>1
      <4>2. dps[n + i] = At(b + (n + i))
        BY <4>1 DEF ReadUpTo
      <4> QED
        BY <3>1, <4>1, <4>2
    <3>3. b + n \in Nat /\ b + q <= b + n /\ b + n + Len(dps') = b + Len(dps)
      BY <1>1, <3>1
    <3>4. offset = RecordSize * (b + n + Len(dps'))
      BY <3>3 DEF ReadUpTo
    <3> QED
      BY <2>1, <3>2, <3>3, <3>4
  <2> QED
    BY <2>2, <2>3 DEF Sends
<1> QED
  BY <1>3, <1>4, <1>7, <1>10, <1>11 DEF RecordsInv

LEMMA RecordsKeep ==
  ASSUME SolverInv, FileInv, BridgeTypes, RecordsInv, [Next]_vars
  PROVE  RecordsInv'
<1>1. SolverTypes
  BY DEF SolverInv
<1>2. torn => torn'
  BY <1>1 DEF Next, SolverNext, BridgeNext, vars, solverVars, StepCollect, ReadFails, StepInsert,
              WriteRecord, WriteRest, Verdict, KillSolver, RestartSolver, SolverTypes
<1>3. CASE UNCHANGED <<offset, dps, received, life>>
  BY <1>1, <1>2, <1>3, SameRecords
<1>4. CASE UNCHANGED bridgeVars
  BY <1>3, <1>4 DEF bridgeVars, poolVars
<1>5. CASE BridgeNext /\ UNCHANGED solverVars
  <2>1. UNCHANGED <<file, torn>>
    BY <1>5 DEF BridgeNext, solverVars
  <2>2. BridgeNext
    BY <1>5
  <2> QED
    BY <1>1, <1>3, <2>1, <2>2, BridgeShape, ReadKeepsRecords, RestartKeepsRecords,
       SendsKeepsRecords
<1> QED
  BY <1>4, <1>5 DEF Next, vars

(* However records, half records, broken connections and restarts follow each other,
   the pool gets from each start of the bridge records as they were written, in the
   order of the file and none twice. *)
THEOREM RecordsArriveInOrder == Spec => []RecordsArriveOnce
<1>1. Init => SolverInv /\ FileInv /\ BridgeTypes /\ RecordsInv
  <2> SUFFICES ASSUME Init PROVE RecordsInv
    BY PoolStarts, BridgeStarts
  <2>1. Len(received) = 0 /\ Len(dps) = 0 /\ offset = RecordSize * (0 + 0) /\ 0 \in Nat
    BY EmptyRun DEF Init, BridgeInit, RecordSize
  <2>2. ReadUpTo(0)
    BY <2>1 DEF ReadUpTo
  <2> QED
    BY <2>1, <2>2 DEF RecordsInv, InOrder
<1>2. SolverInv /\ FileInv /\ BridgeTypes /\ RecordsInv /\ [Next]_vars
        => (SolverInv /\ FileInv /\ BridgeTypes /\ RecordsInv)'
  BY SolverKeeps, FileKeeps, BridgeTypesKeep, RecordsKeep DEF SolverInv
<1>3. BridgeTypes /\ RecordsInv => RecordsArriveOnce
  <2> SUFFICES ASSUME BridgeTypes, RecordsInv, ~torn,
                      NEW i \in DOMAIN received, NEW j \in DOMAIN received
               PROVE  /\ received[i].record = Record(received[i].record[1].dp)
                      /\ i < j /\ received[i].life = received[j].life =>
                           received[i].record[1].dp < received[j].record[1].dp
    BY DEF RecordsArriveOnce
  <2>1. i \in 1 .. Len(received) /\ j \in 1 .. Len(received)
    BY LenProperties DEF BridgeTypes
  <2> QED
    BY <2>1 DEF RecordsInv, InOrder
<1> QED
  BY <1>1, <1>2, <1>3, PTL DEF Spec, Safety

=============================================================================
