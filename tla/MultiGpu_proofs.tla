---------------------------- MODULE MultiGpu_proofs ----------------------------
(***************************************************************************)
(* The multi-GPU search, for any finite number of GPUs, any points, any     *)
(* batches and any operation limit: no point goes missing while the main   *)
(* thread listens, "stopped" is said only when everything was checked, and *)
(* the whole system is a Search.                                           *)
(***************************************************************************)
EXTENDS MultiGpu, FiniteSetTheorems, SequenceTheorems, TLAPS

-----------------------------------------------------------------------------
(* The inductive invariant. *)

(* What a worker holds, by where it is. *)
WorkerInv ==
  \A w \in Workers :
    /\ wpc[w] \in {"check", "step", "flush", "done"} => hand[w] = {}
    /\ wpc[w] \in {"flushSend", "done"} => pending[w] = NoBatch

(* Points come from the GPUs and nowhere else. *)
FromGpus == seen \cup Queued \cup InHand \cup InFlight \subseteq produced

AllDone == \A w \in Workers : ~Alive(w)

(* The main thread listens until it has dropped the receiver, and it has a
   reason to leave the loop: the key, the limit, or nobody left to listen to
   and everything checked. *)
MainInv ==
  /\ mpc \in {"recv", "limit", "stop", "drop"} => rxAlive
  /\ mpc \in {"recv", "limit"} => ~Solved(seen)
  /\ mpc \in {"stop", "drop", "join", "done"} =>
       Solved(seen) \/ LimitReached \/ (AllDone /\ produced \subseteq seen \cup lost)
  /\ mpc = "done" <=> outcome # "running"
  /\ mpc = "done" => AllDone
  /\ outcome = "stopped" => ~Solved(seen) /\ ~LimitReached

IInv == TypeOK /\ WorkerInv /\ NothingDropped /\ FromGpus /\ MainInv

-----------------------------------------------------------------------------
(* Facts about the channel and the unions. *)

LEMMA CapacityType == QueueCapacity \in Nat
  BY MultiGpuAssumption, FS_CardinalityType DEF QueueCapacity

LEMMA ConvertType == \A c : Convert(c) \subseteq DP
  BY DEF Convert

LEMMA SendQueue ==
  ASSUME TypeOK, NEW dps \in SUBSET DP, queue' = Append(queue, dps)
  PROVE  /\ queue' \in Seq(SUBSET DP)
         /\ Len(queue') = Len(queue) + 1
         /\ Queued' = Queued \cup dps
<1>1. queue \in Seq(SUBSET DP) /\ Len(queue) \in Nat /\ DOMAIN queue = 1 .. Len(queue)
  BY LenProperties DEF TypeOK
<1>2. /\ queue' \in Seq(SUBSET DP)
      /\ Len(queue') = Len(queue) + 1
      /\ \A i \in 1 .. Len(queue) : queue'[i] = queue[i]
      /\ queue'[Len(queue) + 1] = dps
  BY <1>1, AppendProperties
<1>3. DOMAIN queue' = 1 .. Len(queue) + 1
  BY <1>2, LenProperties
<1>4. \A p : p \in Queued <=> \E i \in 1 .. Len(queue) : p \in queue[i]
  BY <1>1 DEF Queued
<1>5. \A p : p \in Queued' <=> \E i \in 1 .. Len(queue) + 1 : p \in queue'[i]
  BY <1>3 DEF Queued
<1>6. \A p : p \in Queued' <=> p \in Queued \/ p \in dps
  <2>1. \A i \in 1 .. Len(queue) + 1 : i \in 1 .. Len(queue) \/ i = Len(queue) + 1
    BY <1>1
  <2>2. Len(queue) + 1 \in 1 .. Len(queue) + 1 /\ 1 .. Len(queue) \subseteq 1 .. Len(queue) + 1
    BY <1>1
  <2> QED
    BY <1>2, <1>4, <1>5, <2>1, <2>2
<1> QED
  BY <1>2, <1>6

LEMMA ReceiveQueue ==
  ASSUME TypeOK, queue # << >>, queue' = Tail(queue)
  PROVE  /\ Head(queue) \in SUBSET DP
         /\ queue' \in Seq(SUBSET DP)
         /\ Len(queue') = Len(queue) - 1
         /\ Queued = Head(queue) \cup Queued'
<1>1. queue \in Seq(SUBSET DP) /\ Len(queue) \in Nat /\ DOMAIN queue = 1 .. Len(queue)
  BY LenProperties DEF TypeOK
<1>2. Len(queue) # 0
  BY <1>1, EmptySeq
<1>3. /\ Head(queue) \in SUBSET DP
      /\ Tail(queue) \in Seq(SUBSET DP)
      /\ Len(Tail(queue)) = Len(queue) - 1
      /\ \A i \in 1 .. Len(Tail(queue)) : Tail(queue)[i] = queue[i + 1]
  BY <1>1, HeadTailProperties
<1>4. Head(queue) = queue[1]
  BY <1>1, <1>2
<1>5. DOMAIN queue' = 1 .. Len(queue) - 1
  BY <1>3, LenProperties
<1>6. \A p : p \in Queued <=> \E i \in 1 .. Len(queue) : p \in queue[i]
  BY <1>1 DEF Queued
<1>7. \A p : p \in Queued' <=> \E i \in 1 .. Len(queue) - 1 : p \in queue[i + 1]
  BY <1>3, <1>5 DEF Queued
<1>8. \A p : p \in Queued <=> p \in Head(queue) \/ p \in Queued'
  <2>1. \A i \in 1 .. Len(queue) : i = 1 \/ (i - 1 \in 1 .. Len(queue) - 1 /\ (i - 1) + 1 = i)
    BY <1>1
  <2>2. 1 \in 1 .. Len(queue) /\ \A i \in 1 .. Len(queue) - 1 : i + 1 \in 1 .. Len(queue)
    BY <1>1, <1>2
  <2> QED
    BY <1>4, <1>6, <1>7, <2>1, <2>2
<1> QED
  BY <1>3, <1>8

(* What a worker gives back or takes on is a set of points, a batch or nothing. *)
LEMMA PipelineType ==
  ASSUME TypeOK, NEW w \in Workers
  PROVE  /\ pending[w] \in SUBSET Batches
         /\ Convert(InPipeline(w)) \in SUBSET DP
         /\ hand[w] \in SUBSET DP
         /\ \A batch \in Batches : {batch} \in SUBSET Batches /\ Convert(batch) \in SUBSET DP
  BY ConvertType DEF TypeOK

LEMMA TypeStep == TypeOK /\ [Next]_vars => TypeOK'
<1> SUFFICES ASSUME TypeOK, [Next]_vars
             PROVE  TypeOK'
  OBVIOUS
<1> USE DEF TypeOK
<1>1. ASSUME NEW w \in Workers, CheckStop(w)
      PROVE  TypeOK'
  BY <1>1 DEF CheckStop, Goto, mainVars
<1>2. ASSUME NEW w \in Workers, StepCollect(w)
      PROVE  TypeOK'
  BY <1>2, PipelineType, MultiGpuAssumption DEF StepCollect, Goto, Count, mainVars
<1>3. ASSUME NEW w \in Workers, StepFails(w)
      PROVE  TypeOK'
  BY <1>3, PipelineType DEF StepFails, Goto, NoBatch, mainVars
<1>4. ASSUME NEW w \in Workers, Panic(w)
      PROVE  TypeOK'
  BY <1>4, PipelineType DEF Panic, Goto, NoBatch, mainVars
<1>5. ASSUME NEW w \in Workers, Send(w)
      PROVE  TypeOK'
  <2>1. wpc' \in [Workers -> {"check", "step", "send", "flush", "flushSend", "done"}]
    BY <1>5 DEF Send, Goto
  <2>2. hand' \in [Workers -> SUBSET DP]
    BY <1>5 DEF Send
  <2>3. queue' \in Seq(SUBSET DP) /\ Len(queue') <= QueueCapacity
    <3>1. CASE queue' = queue
      BY <3>1
    <3>2. CASE queue' = Append(queue, hand[w]) /\ Len(queue) < QueueCapacity
      <4>1. Len(queue) \in Nat
        BY LenProperties
      <4> QED
        BY <3>2, <4>1, PipelineType, SendQueue, CapacityType
    <3> QED
      BY <1>5, <3>1, <3>2 DEF Send
  <2> QED
    BY <1>5, <2>1, <2>2, <2>3 DEF Send, mainVars
<1>6. ASSUME NEW w \in Workers, Flush(w)
      PROVE  TypeOK'
  BY <1>6, PipelineType DEF Flush, Goto, NoBatch, mainVars
<1>7. CASE Receive
  <2>1. Head(queue) \in SUBSET DP /\ queue' \in Seq(SUBSET DP) /\ Len(queue') = Len(queue) - 1
    BY <1>7, ReceiveQueue DEF Receive
  <2>2. Len(queue) \in Nat
    BY LenProperties
  <2>3. Len(queue') <= QueueCapacity
    BY <2>1, <2>2, CapacityType
  <2> QED
    BY <1>7, <2>1, <2>3 DEF Receive, workerVars
<1>8. CASE DropReceiver
  <2>1. << >> \in Seq(SUBSET DP) /\ Len(<< >>) <= QueueCapacity
    BY EmptySeq, CapacityType
  <2> QED
    BY <1>8, <2>1 DEF DropReceiver, workerVars
<1>9. CASE ReceiveTimeout \/ Disconnected \/ CheckLimit \/ StopWorkers
  BY <1>9 DEF ReceiveTimeout, Disconnected, CheckLimit, StopWorkers, workerVars
<1>10. CASE Join
  BY <1>10 DEF Join, workerVars
<1>11. CASE UNCHANGED vars
  BY <1>11 DEF vars, workerVars, mainVars
<1> QED
  BY <1>1, <1>2, <1>3, <1>4, <1>5, <1>6, <1>7, <1>8, <1>9, <1>10, <1>11
     DEF Next, Main, Worker, Terminated

-----------------------------------------------------------------------------
(* Where the points are. *)

LEMMA HandSet ==
  ASSUME TypeOK, NEW w \in Workers, NEW dps, hand' = [hand EXCEPT ![w] = dps]
  PROVE  /\ InHand \subseteq InHand' \cup hand[w]
         /\ dps \subseteq InHand'
         /\ InHand' \subseteq InHand \cup dps
<1>1. hand'[w] = dps /\ \A v \in Workers : v # w => hand'[v] = hand[v]
  BY DEF TypeOK
<1> QED
  BY <1>1 DEF InHand

LEMMA PendingSet ==
  ASSUME TypeOK, NEW w \in Workers, NEW batches, pending' = [pending EXCEPT ![w] = batches]
  PROVE  /\ InFlight \subseteq InFlight' \cup Convert(InPipeline(w))
         /\ Convert(UNION batches) \subseteq InFlight'
         /\ InFlight' \subseteq InFlight \cup Convert(UNION batches)
<1>1. pending'[w] = batches /\ \A v \in Workers : v # w => pending'[v] = pending[v]
  BY DEF TypeOK
<1>2. Convert(InPipeline(w))' = Convert(UNION batches)
  BY <1>1 DEF Convert, InPipeline
<1>3. \A v \in Workers : v # w => Convert(InPipeline(v))' = Convert(InPipeline(v))
  BY <1>1 DEF Convert, InPipeline
<1>4. InFlight' = UNION {Convert(InPipeline(v))' : v \in Workers}
  BY DEF InFlight
<1> QED
  BY <1>2, <1>3, <1>4 DEF InFlight

LEMMA PendingEmptied ==
  ASSUME TypeOK, NEW w \in Workers, pending' = [pending EXCEPT ![w] = NoBatch]
  PROVE  /\ InFlight \subseteq InFlight' \cup Convert(InPipeline(w))
         /\ InFlight' \subseteq InFlight
<1>1. Convert(UNION NoBatch) = {}
  BY DEF Convert, NoBatch
<1> QED
  BY <1>1, PendingSet

LEMMA WorkerStep == IInv /\ [Next]_vars => WorkerInv'
<1> SUFFICES ASSUME IInv, [Next]_vars
             PROVE  WorkerInv'
  OBVIOUS
<1>1. TypeOK /\ WorkerInv
  BY DEF IInv
<1>2. ASSUME NEW w \in Workers, CheckStop(w)
      PROVE  WorkerInv'
  BY <1>1, <1>2 DEF TypeOK, WorkerInv, CheckStop, Goto
<1>3. ASSUME NEW w \in Workers, StepCollect(w)
      PROVE  WorkerInv'
  BY <1>1, <1>3 DEF TypeOK, WorkerInv, StepCollect, Goto
<1>4. ASSUME NEW w \in Workers, StepFails(w)
      PROVE  WorkerInv'
  BY <1>1, <1>4 DEF TypeOK, WorkerInv, StepFails, Goto
<1>5. ASSUME NEW w \in Workers, Panic(w)
      PROVE  WorkerInv'
  BY <1>1, <1>5 DEF TypeOK, WorkerInv, Panic, Goto
<1>6. ASSUME NEW w \in Workers, Send(w)
      PROVE  WorkerInv'
  BY <1>1, <1>6 DEF TypeOK, WorkerInv, Send, Goto
<1>7. ASSUME NEW w \in Workers, Flush(w)
      PROVE  WorkerInv'
  BY <1>1, <1>7 DEF TypeOK, WorkerInv, Flush, Goto
<1>8. CASE Main
  BY <1>1, <1>8 DEF WorkerInv, Main, Receive, ReceiveTimeout, Disconnected, CheckLimit,
                    StopWorkers, DropReceiver, Join, workerVars
<1>9. CASE UNCHANGED vars
  BY <1>1, <1>9 DEF WorkerInv, vars, workerVars
<1> QED
  BY <1>2, <1>3, <1>4, <1>5, <1>6, <1>7, <1>8, <1>9 DEF Next, Worker, Terminated

(* Every action keeps the points it moves, or accounts for them in lost. *)
PointsInv == NothingDropped /\ FromGpus

LEMMA PointsStep == IInv /\ [Next]_vars => PointsInv'
<1> SUFFICES ASSUME IInv, [Next]_vars
             PROVE  PointsInv'
  OBVIOUS
<1>1. TypeOK /\ WorkerInv /\ NothingDropped /\ FromGpus /\ MainInv
  BY DEF IInv
<1> USE DEF PointsInv, NothingDropped, FromGpus
<1>2. ASSUME NEW w \in Workers, CheckStop(w)
      PROVE  PointsInv'
  <2>1. UNCHANGED <<rxAlive, seen, produced, lost>>
    BY <1>2 DEF CheckStop, mainVars
  <2>2. Queued' = Queued /\ InHand' = InHand /\ InFlight' = InFlight
    BY <1>2 DEF CheckStop, Queued, InHand, InFlight, InPipeline
  <2> QED
    BY <1>1, <2>1, <2>2
<1>3. ASSUME NEW w \in Workers, StepCollect(w)
      PROVE  PointsInv'
  <2>1. PICK batch \in Batches : /\ pending' = [pending EXCEPT ![w] = {batch}]
                                 /\ produced' = produced \cup Convert(batch)
    BY <1>3 DEF StepCollect
  <2>2. hand' = [hand EXCEPT ![w] = Convert(InPipeline(w))] /\ hand[w] = {}
    BY <1>1, <1>3 DEF StepCollect, WorkerInv
  <2>3. UNCHANGED <<rxAlive, seen, lost>> /\ Queued' = Queued
    BY <1>3 DEF StepCollect, mainVars, Queued
  <2>4. /\ InFlight \subseteq InFlight' \cup Convert(InPipeline(w))
        /\ Convert(batch) \subseteq InFlight'
        /\ InFlight' \subseteq InFlight \cup Convert(batch)
    <3>1. UNION {batch} = batch
      OBVIOUS
    <3> QED
      BY <1>1, <2>1, <3>1, PendingSet
  <2>5. /\ InHand \subseteq InHand'
        /\ Convert(InPipeline(w)) \subseteq InHand'
        /\ InHand' \subseteq InHand \cup Convert(InPipeline(w))
    BY <1>1, <2>2, HandSet
  <2>6. Convert(InPipeline(w)) \subseteq InFlight
    BY DEF InFlight
  <2> QED
    BY <1>1, <2>1, <2>3, <2>4, <2>5, <2>6
<1>4. ASSUME NEW w \in Workers, StepFails(w)
      PROVE  PointsInv'
  <2>1. PICK batch \in Batches :
          /\ produced' = produced \cup Convert(batch)
          /\ lost' = lost \cup Convert(batch) \cup Convert(InPipeline(w))
    BY <1>4 DEF StepFails
  <2>2. pending' = [pending EXCEPT ![w] = NoBatch]
    BY <1>4 DEF StepFails
  <2>3. UNCHANGED <<rxAlive, seen>> /\ Queued' = Queued /\ InHand' = InHand
    BY <1>4 DEF StepFails, mainVars, Queued, InHand
  <2>4. /\ InFlight \subseteq InFlight' \cup Convert(InPipeline(w))
        /\ InFlight' \subseteq InFlight
    BY <1>1, <2>2, PendingEmptied
  <2> QED
    BY <1>1, <2>1, <2>3, <2>4
<1>5. ASSUME NEW w \in Workers, Panic(w)
      PROVE  PointsInv'
  <2>1. lost' = lost \cup Convert(InPipeline(w)) /\ pending' = [pending EXCEPT ![w] = NoBatch]
    BY <1>5 DEF Panic
  <2>2. UNCHANGED <<rxAlive, seen, produced>> /\ Queued' = Queued /\ InHand' = InHand
    BY <1>5 DEF Panic, mainVars, Queued, InHand
  <2>3. /\ InFlight \subseteq InFlight' \cup Convert(InPipeline(w))
        /\ InFlight' \subseteq InFlight
    BY <1>1, <2>1, PendingEmptied
  <2> QED
    BY <1>1, <2>1, <2>2, <2>3
<1>6. ASSUME NEW w \in Workers, Send(w)
      PROVE  PointsInv'
  <2>1. UNCHANGED <<rxAlive, seen, produced, lost>> /\ InFlight' = InFlight
    BY <1>6 DEF Send, mainVars, InFlight, InPipeline
  <2>2. /\ InHand \subseteq InHand' \cup hand[w]
        /\ InHand' \subseteq InHand
        /\ hand[w] \subseteq InHand
    <3>1. hand' = [hand EXCEPT ![w] = {}]
      BY <1>6 DEF Send
    <3> QED
      BY <1>1, <3>1, HandSet DEF InHand
  <2>3. CASE rxAlive
    <3>1. queue' = Append(queue, hand[w])
      BY <1>6, <2>3 DEF Send
    <3>2. Queued' = Queued \cup hand[w]
      BY <1>1, <3>1, SendQueue, PipelineType
    <3> QED
      BY <1>1, <2>1, <2>2, <3>2
  <2>4. CASE ~rxAlive
    <3>1. Queued' = Queued
      BY <1>6, <2>4 DEF Send, Queued
    <3> QED
      BY <1>1, <2>1, <2>2, <2>4, <3>1
  <2> QED
    BY <2>3, <2>4
<1>7. ASSUME NEW w \in Workers, Flush(w)
      PROVE  PointsInv'
  <2>1. UNCHANGED <<rxAlive, seen, produced>> /\ Queued' = Queued
    BY <1>7 DEF Flush, mainVars, Queued
  <2>2. /\ InFlight \subseteq InFlight' \cup Convert(InPipeline(w))
        /\ InFlight' \subseteq InFlight
        /\ Convert(InPipeline(w)) \subseteq InFlight
    <3>1. pending' = [pending EXCEPT ![w] = NoBatch]
      BY <1>7 DEF Flush
    <3>2. Convert(InPipeline(w)) \subseteq InFlight
      BY DEF InFlight
    <3> QED
      BY <1>1, <3>1, <3>2, PendingEmptied
  <2>3. CASE hand' = [hand EXCEPT ![w] = Convert(InPipeline(w))] /\ UNCHANGED lost
    <3>1. hand[w] = {}
      BY <1>1, <1>7 DEF Flush, WorkerInv
    <3>2. /\ InHand \subseteq InHand'
          /\ Convert(InPipeline(w)) \subseteq InHand'
          /\ InHand' \subseteq InHand \cup Convert(InPipeline(w))
      BY <1>1, <2>3, <3>1, HandSet
    <3> QED
      BY <1>1, <2>1, <2>2, <2>3, <3>2
  <2>4. CASE lost' = lost \cup Convert(InPipeline(w)) /\ UNCHANGED hand
    <3>1. InHand' = InHand
      BY <2>4 DEF InHand
    <3> QED
      BY <1>1, <2>1, <2>2, <2>4, <3>1
  <2> QED
    BY <1>7, <2>3, <2>4 DEF Flush
<1>8. CASE Receive
  <2>1. UNCHANGED <<rxAlive, produced, lost>> /\ InHand' = InHand /\ InFlight' = InFlight
    BY <1>8 DEF Receive, workerVars, InHand, InFlight, InPipeline
  <2>2. Queued = Head(queue) \cup Queued' /\ seen' = seen \cup Head(queue)
    BY <1>1, <1>8, ReceiveQueue DEF Receive
  <2> QED
    BY <1>1, <2>1, <2>2
<1>9. CASE DropReceiver
  <2>1. ~rxAlive' /\ Queued' = {}
    BY <1>9 DEF DropReceiver, Queued
  <2>2. UNCHANGED <<seen, produced>> /\ InHand' = InHand /\ InFlight' = InFlight
    BY <1>9 DEF DropReceiver, workerVars, InHand, InFlight, InPipeline
  <2> QED
    BY <1>1, <2>1, <2>2
<1>10. CASE ReceiveTimeout \/ Disconnected \/ CheckLimit \/ StopWorkers \/ Join \/ UNCHANGED vars
  <2>1. UNCHANGED <<rxAlive, seen, produced, lost, queue, hand, pending>>
    BY <1>10 DEF ReceiveTimeout, Disconnected, CheckLimit, StopWorkers, Join, vars,
                 workerVars, mainVars
  <2>2. Queued' = Queued /\ InHand' = InHand /\ InFlight' = InFlight
    BY <2>1 DEF Queued, InHand, InFlight, InPipeline
  <2> QED
    BY <1>1, <2>1, <2>2
<1> QED
  BY <1>2, <1>3, <1>4, <1>5, <1>6, <1>7, <1>8, <1>9, <1>10 DEF Next, Main, Worker, Terminated

-----------------------------------------------------------------------------
(* The main thread. *)

LEMMA LimitStays == TypeOK /\ [Next]_vars => (LimitReached => LimitReached')
<1> SUFFICES ASSUME TypeOK, [Next]_vars, LimitReached
             PROVE  LimitReached'
  OBVIOUS
<1>1. ops' = ops \/ Count
  BY DEF Next, Main, Worker, Terminated, CheckStop, StepCollect, StepFails, Panic, Send, Flush,
         Receive, ReceiveTimeout, Disconnected, CheckLimit, StopWorkers, DropReceiver, Join, vars
<1> QED
  BY <1>1, MultiGpuAssumption DEF Count, LimitReached, TypeOK

(* A worker that has ended does nothing any more. *)
LEMMA DoneIsDone ==
  ASSUME AllDone, NEW w \in Workers
  PROVE  ~Worker(w)
  BY DEF AllDone, Alive, Worker, CheckStop, StepCollect, StepFails, Panic, Send, Flush

(* With all workers done and the channel empty, nothing is on its way. *)
LEMMA NothingOnItsWay ==
  ASSUME TypeOK, WorkerInv, NothingDropped, rxAlive, AllDone, queue = << >>
  PROVE  produced \subseteq seen \cup lost
<1>1. \A w \in Workers : hand[w] = {} /\ pending[w] = {}
  BY DEF AllDone, Alive, WorkerInv, NoBatch
<1>2. InHand = {}
  BY <1>1 DEF InHand
<1>3. InFlight = {}
  <2>1. \A w \in Workers : InPipeline(w) = {}
    BY <1>1 DEF InPipeline
  <2> QED
    BY <2>1 DEF InFlight, Convert
<1>4. Queued = {}
  BY DEF Queued
<1> QED
  BY <1>2, <1>3, <1>4 DEF NothingDropped

LEMMA MainStep == IInv /\ [Next]_vars => MainInv'
<1> SUFFICES ASSUME IInv, [Next]_vars
             PROVE  MainInv'
  OBVIOUS
<1>1. TypeOK /\ WorkerInv /\ NothingDropped /\ MainInv
  BY DEF IInv
<1>2. LimitReached => LimitReached'
  BY <1>1, LimitStays
<1>3. ASSUME NEW w \in Workers, Worker(w)
      PROVE  MainInv'
  <2>1. UNCHANGED <<mpc, seen, outcome, rxAlive>>
    BY <1>3 DEF Worker, CheckStop, StepCollect, StepFails, Panic, Send, Flush, mainVars
  <2>2. ~AllDone
    BY <1>3, DoneIsDone
  <2> QED
    BY <1>1, <1>2, <2>1, <2>2 DEF MainInv, Solved, TypeOK
<1>4. CASE Receive
  BY <1>1, <1>4 DEF Receive, MainInv, Solved, workerVars
<1>5. CASE ReceiveTimeout
  BY <1>1, <1>5 DEF ReceiveTimeout, MainInv, Solved, workerVars
<1>6. CASE Disconnected
  <2>1. AllDone /\ produced \subseteq seen \cup lost
    BY <1>1, <1>6, NothingOnItsWay DEF Disconnected, MainInv, AllDone
  <2> QED
    BY <1>1, <1>6, <2>1 DEF Disconnected, MainInv, AllDone, Alive, workerVars
<1>7. CASE CheckLimit
  BY <1>1, <1>2, <1>7 DEF CheckLimit, MainInv, Solved, workerVars
<1>8. CASE StopWorkers
  BY <1>1, <1>2, <1>8 DEF StopWorkers, MainInv, Solved, AllDone, Alive, workerVars
<1>9. CASE DropReceiver
  BY <1>1, <1>2, <1>9 DEF DropReceiver, MainInv, Solved, AllDone, Alive, workerVars
<1>10. CASE Join
  BY <1>1, <1>2, <1>10 DEF Join, MainInv, Solved, AllDone, Alive, LimitReached, workerVars
<1>11. CASE UNCHANGED vars
  BY <1>1, <1>2, <1>11 DEF vars, MainInv, Solved, AllDone, Alive, LimitReached, workerVars, mainVars
<1> QED
  BY <1>3, <1>4, <1>5, <1>6, <1>7, <1>8, <1>9, <1>10, <1>11 DEF Next, Main, Terminated

-----------------------------------------------------------------------------
LEMMA InitInv == Init => IInv
<1> SUFFICES ASSUME Init
             PROVE  IInv
  OBVIOUS
<1> USE DEF Init
<1>1. /\ produced = {} /\ seen = {}
      /\ InHand = {} /\ Queued = {}
  BY DEF InHand, Queued
<1>2. InFlight = {}
  <2>1. \A w \in Workers : InPipeline(w) = {}
    BY DEF InPipeline, NoBatch
  <2> QED
    BY <2>1 DEF InFlight, Convert
<1>3. TypeOK
  <2>1. << >> \in Seq(SUBSET DP) /\ Len(<< >>) <= QueueCapacity
    BY EmptySeq, CapacityType
  <2>2. 0 \in 0 .. MaxOps
    BY MultiGpuAssumption
  <2>3. ops \in 0 .. MaxOps \cup {Unlimited}
    BY <2>2
  <2> QED
    BY <2>1, <2>2, <2>3 DEF TypeOK, NoBatch
<1>4. WorkerInv
  BY DEF WorkerInv
<1>5. NothingDropped /\ FromGpus
  BY <1>1, <1>2 DEF NothingDropped, FromGpus
<1>6. MainInv
  BY MultiGpuAssumption DEF MainInv, Solved
<1> QED
  BY <1>3, <1>4, <1>5, <1>6 DEF IInv

THEOREM Invariance == Spec => []IInv
<1>1. Init => IInv
  BY InitInv
<1>2. IInv /\ [Next]_vars => IInv'
  BY TypeStep, WorkerStep, PointsStep, MainStep DEF IInv, PointsInv
<1> QED
  BY <1>1, <1>2, PTL DEF Spec

(* The types of the system's state; the channel never holds more than its
   capacity. *)
THEOREM TypeCorrect == Spec => []TypeOK
<1>1. IInv => TypeOK
  BY DEF IInv
<1> QED
  BY <1>1, Invariance, PTL

(* Between the GPUs and the DP table no point goes missing while the main thread
   listens, whatever the workers' interleaving and failures. *)
THEOREM NoPointIsDropped == Spec => []NothingDropped
<1>1. IInv => NothingDropped
  BY DEF IInv
<1> QED
  BY <1>1, Invariance, PTL

(* "All GPU workers stopped before finding key" is true when it is said. *)
THEOREM StoppedIsComplete == Spec => []StoppedMeansAllChecked
<1>1. IInv => StoppedMeansAllChecked
  BY DEF IInv, MainInv, StoppedMeansAllChecked
<1> QED
  BY <1>1, Invariance, PTL

(* Every behaviour of the threads is a behaviour of the abstract search: points
   are produced before they are checked, nothing is checked after a meeting, and
   the outcome is "found" exactly if the checked points hold one. *)
THEOREM Refinement == Spec => ImplementsSearch
<1>1. Init => S!Init
  BY DEF Init, S!Init
<1>2. IInv /\ [Next]_vars => [S!Next]_S!vars
  <2> SUFFICES ASSUME IInv, [Next]_vars
               PROVE  [S!Next]_S!vars
    OBVIOUS
  <2>1. TypeOK /\ FromGpus /\ MainInv
    BY DEF IInv
  <2>2. ASSUME NEW w \in Workers, Worker(w)
        PROVE  [S!Next]_S!vars
    <3>1. outcome = "running" /\ UNCHANGED <<seen, outcome>>
      BY <2>1, <2>2, DoneIsDone
         DEF MainInv, Worker, CheckStop, StepCollect, StepFails, Panic, Send, Flush, mainVars
    <3>2. produced' = produced \/ \E batch \in Batches : produced' = produced \cup Convert(batch)
      BY <2>2 DEF Worker, CheckStop, StepCollect, StepFails, Panic, Send, Flush
    <3>3. CASE produced' = produced
      BY <3>1, <3>3 DEF S!vars
    <3>4. CASE \E batch \in Batches : produced' = produced \cup Convert(batch)
      <4>1. S!Produce
        BY <3>1, <3>4, ConvertType DEF S!Produce
      <4> QED
        BY <4>1 DEF S!Next
    <3> QED
      BY <3>2, <3>3, <3>4
  <2>3. CASE Receive
    <3>1. Head(queue) \subseteq produced
      BY <2>1, <2>3, ReceiveQueue DEF Receive, FromGpus
    <3>2. outcome = "running" /\ ~S!Solved(seen) /\ seen' = seen \cup Head(queue)
      BY <2>1, <2>3 DEF Receive, MainInv, Solved, S!Solved
    <3>3. S!Check
      BY <2>3, <3>1, <3>2 DEF S!Check, Receive
    <3> QED
      BY <3>3 DEF S!Next
  <2>4. CASE Join
    <3>1. outcome = "running" /\ UNCHANGED <<produced, seen>>
      BY <2>1, <2>4 DEF Join, MainInv
    <3>2. outcome' \in IF S!Solved(seen) THEN {"found"} ELSE {"limit", "stopped"}
      BY <2>4 DEF Join, Solved, S!Solved
    <3>3. S!Conclude
      BY <3>1, <3>2 DEF S!Conclude
    <3> QED
      BY <3>3 DEF S!Next
  <2>5. CASE ReceiveTimeout \/ Disconnected \/ CheckLimit \/ StopWorkers \/ DropReceiver
             \/ UNCHANGED vars
    BY <2>5 DEF ReceiveTimeout, Disconnected, CheckLimit, StopWorkers, DropReceiver, vars,
                mainVars, S!vars
  <2> QED
    BY <2>2, <2>3, <2>4, <2>5 DEF Next, Main, Terminated
<1> QED
  BY <1>1, <1>2, Invariance, PTL DEF Spec, ImplementsSearch, S!Spec
=============================================================================
