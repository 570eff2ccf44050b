------------------------- MODULE GpuPipeline_proofs -------------------------
(***************************************************************************)
(* The readback of distinguished points, for any buffer, any number of     *)
(* dispatches and of candidates: whatever the GPU's progress and whichever *)
(* readback fails, candidates arrive in order and complete, no dispatch    *)
(* meets unread ones, and each has the length the host counts.             *)
(***************************************************************************)
EXTENDS GpuPipeline, SequenceTheorems, TLAPS

-----------------------------------------------------------------------------
(* The inductive invariant. *)

(* Settled(ok, q, good, bad, n): when the first n - 1 commands of q have been executed,
   what is so now (ok) or what a command of `good` makes so still is: nothing of
   `bad` comes after it. *)
Settled(ok, q, good, bad, n) ==
  \/ ok /\ \A k \in 1 .. n - 1 : q[k] \notin bad
  \/ \E j \in 1 .. n - 1 : q[j] \in good /\ \A k \in j + 1 .. n - 1 : q[k] \notin bad

Fillers(slot) == {Dispatch(slot)} \cup (IF slot = 0 THEN {Calibration} ELSE {})

(* The counter of the slot is zero when the n-th command is executed. *)
Clear(slot, n) ==
  Settled(dpCount[slot] = 0, queue, {ResetDpCount(slot)}, Fillers(slot), n)

(* The GPU's length is the host's when the n-th command is executed. *)
LengthSet(n) ==
  Settled(config = steps, queue, {SetLength(steps)},
          {SetLength(length) : length \in 0 .. Lengths}, n)

Calibrating == pc \in {"calibrate", "warmup", "timed"}

(* Every dispatch finds an empty slot and the right length. *)
QueueInv ==
  /\ \A i \in 1 .. Len(queue) : queue[i].op = "dispatch" =>
       ~Calibrating /\ Clear(queue[i].slot, i) /\ LengthSet(i)
  /\ ~Calibrating => LengthSet(Len(queue) + 1)

(* ... and so will the next. *)
NextInv ==
  pc = "idle" /\ failed = "no" =>
    /\ Clear(currentSlot, Len(queue) + 1)
    /\ prevSub = None => Clear(1 - currentSlot, Len(queue) + 1)

(* Where the host is, and which submissions it remembers. *)
HostInv ==
  /\ Calibrating => failed = "no"
  /\ pc \in {"count", "payload"} => failed = "no" /\ prevSub # None
  /\ failed # "no" => prevSub = None
  /\ newSub # None <=> pc \in {"count", "payload"} /\ ~flushing
  /\ newSub # None => prevSub < newSub
  /\ prevSub <= submitted /\ newSub <= submitted
  /\ pc \in {"idle", "warmup", "timed", "calibrate"} => ~flushing
  /\ Calibrating => prevSub = None
  /\ pc \in {"warmup", "timed"} => probe <= Lengths
  /\ pc = "payload" => Executed(prevSub)
  /\ Len(queue) <= submitted

Live == failed = "no" /\ pc # "done"

Number(i) == submitted - Len(queue) + i

(* What is on the queue of a host that has met no error. *)
OrderInv ==
  Live => \A i \in 1 .. Len(queue) :
    /\ queue[i].op = "dispatch" => Number(i) \in {prevSub, newSub}
    /\ Number(i) = prevSub => queue[i] = Dispatch(ReadSlot)
    /\ Number(i) = newSub => queue[i] = Dispatch(currentSlot)
    /\ queue[i].op = "copyDps" => pc = "payload" /\ i = Len(queue)
    /\ prevSub # None /\ Number(i) > prevSub => queue[i].op \notin {"calibration", "config"}
    /\ prevSub # None /\ Number(i) > prevSub /\ queue[i].op = "reset" =>
         queue[i].slot = currentSlot
    /\ newSub # None /\ Number(i) > newSub => queue[i].op = "copyDps"

(* The slot holds the candidates that follow the first k. *)
Holds(slot, k) == \A i \in 1 .. InSlot(slot) : dpBuffer[slot][i] = k + i

PrevDone == prevSub # None /\ Executed(prevSub)
NewDone == newSub # None /\ Executed(newSub)

(* What the two slots hold for a host that has met no error. *)
DataInv ==
  Live =>
    /\ PrevDone => Holds(ReadSlot, Len(delivered))
    /\ PrevDone /\ pc # "payload" => staged[ReadSlot] = <<dpCount[ReadSlot]>>
    /\ NewDone => /\ Holds(currentSlot, Len(delivered) + InSlot(ReadSlot))
                  /\ staged[currentSlot] = <<dpCount[currentSlot]>>
    /\ stored = Len(delivered) + (IF PrevDone THEN InSlot(ReadSlot) ELSE 0)
                  + (IF NewDone THEN InSlot(currentSlot) ELSE 0)
    /\ pc = "payload" =>
         IF queue = << >>
         THEN staged[ReadSlot] = SubSeq(dpBuffer[ReadSlot], 1, InSlot(ReadSlot))
         ELSE queue[Len(queue)] = CopyDps(ReadSlot, InSlot(ReadSlot))

IInv ==
  /\ TypeOK /\ HostInv /\ QueueInv /\ NextInv /\ OrderInv /\ DataInv
  /\ DeliveredInOrder

-----------------------------------------------------------------------------
(* Facts about commands and the queue. *)

LEMMA Shapes ==
  \A c \in Command :
    /\ c.op = "dispatch" => c.slot \in Slot /\ c = Dispatch(c.slot)
    /\ c.op = "reset" => c.slot \in Slot /\ c = ResetDpCount(c.slot)
    /\ c.op = "copyDps" => c.slot \in Slot /\ c.n \in 0 .. BufferSize /\ c = CopyDps(c.slot, c.n)
    /\ c.op = "config" => c.n \in 0 .. Lengths /\ c = SetLength(c.n)
    /\ c.op = "calibration" => c = Calibration
  BY DEF Command, Dispatch, ResetDpCount, CopyDps, SetLength, Calibration

LEMMA Execute ==
  ASSUME NEW q \in Seq(Command), q # << >>
  PROVE  /\ Len(q) \in Nat \ {0}
         /\ Head(q) \in Command /\ Head(q) = q[1]
         /\ Tail(q) \in Seq(Command)
         /\ Len(Tail(q)) = Len(q) - 1
         /\ \A i \in 1 .. Len(q) - 1 : Tail(q)[i] = q[i + 1]
<1>1. Len(q) \in Nat \ {0}
  BY EmptySeq
<1>2. Head(q) = q[1]
  BY <1>1
<1> QED
  BY <1>1, <1>2, HeadTailProperties

LEMMA Enqueue ==
  ASSUME NEW q \in Seq(Command), NEW cmds \in Seq(Command)
  PROVE  /\ q \o cmds \in Seq(Command)
         /\ Len(q) \in Nat /\ Len(cmds) \in Nat
         /\ Len(q \o cmds) = Len(q) + Len(cmds)
         /\ \A i \in 1 .. Len(q) : (q \o cmds)[i] = q[i]
         /\ \A i \in 1 .. Len(cmds) : (q \o cmds)[Len(q) + i] = cmds[i]
<1>1. Len(q) \in Nat /\ Len(cmds) \in Nat
  BY LenProperties
<1>2. \A i \in 1 .. Len(q) + Len(cmds) : (q \o cmds)[i] =
         IF i <= Len(q) THEN q[i] ELSE cmds[i - Len(q)]
  BY ConcatProperties
<1>3. \A i \in 1 .. Len(q) : (q \o cmds)[i] = q[i]
  BY <1>1, <1>2
<1>4. ASSUME NEW i \in 1 .. Len(cmds) PROVE (q \o cmds)[Len(q) + i] = cmds[i]
  <2>1. Len(q) + i \in 1 .. Len(q) + Len(cmds) /\ ~(Len(q) + i <= Len(q))
    BY <1>1
  <2>2. (Len(q) + i) - Len(q) = i
    BY <1>1
  <2> QED
    BY <1>2, <2>1, <2>2
<1> QED
  BY <1>1, <1>3, <1>4, ConcatProperties

(* What is settled stays so when the GPU executes a command ... *)
LEMMA SettledExecute ==
  ASSUME NEW q \in Seq(Command), q # << >>, NEW n \in 2 .. Len(q) + 1,
         NEW good, NEW bad, NEW ok \in BOOLEAN, NEW now \in BOOLEAN,
         Settled(ok, q, good, bad, n),
         q[1] \in good => now,
         ok /\ q[1] \notin bad => now
  PROVE  Settled(now, Tail(q), good, bad, n - 1)
<1>1. /\ Len(q) \in Nat \ {0}
      /\ \A i \in 1 .. Len(q) - 1 : Tail(q)[i] = q[i + 1]
  BY Execute
<1>2. ASSUME NEW k \in 1 .. n - 2 PROVE Tail(q)[k] = q[k + 1] /\ k + 1 \in 1 .. n - 1
  BY <1>1
<1>3. CASE ok /\ \A k \in 1 .. n - 1 : q[k] \notin bad
  <2>1. now
    <3>1. 1 \in 1 .. n - 1
      OBVIOUS
    <3> QED
      BY <1>3, <3>1
  <2>2. \A k \in 1 .. n - 2 : Tail(q)[k] \notin bad
    BY <1>2, <1>3
  <2>3. (n - 1) - 1 = n - 2
    OBVIOUS
  <2> QED
    BY <2>1, <2>2, <2>3 DEF Settled
<1>4. CASE \E j \in 1 .. n - 1 : q[j] \in good /\ \A k \in j + 1 .. n - 1 : q[k] \notin bad
  <2>1. PICK j \in 1 .. n - 1 : q[j] \in good /\ \A k \in j + 1 .. n - 1 : q[k] \notin bad
    BY <1>4
  <2>2. CASE j = 1
    <3>1. now
      BY <2>1, <2>2
    <3>2. \A k \in 1 .. n - 2 : Tail(q)[k] \notin bad
      <4>1. ASSUME NEW k \in 1 .. n - 2 PROVE k + 1 \in j + 1 .. n - 1
        BY <2>2
      <4> QED
        BY <2>1, <1>2, <4>1
    <3>3. (n - 1) - 1 = n - 2
      OBVIOUS
    <3> QED
      BY <3>1, <3>2, <3>3 DEF Settled
  <2>3. CASE j # 1
    <3>1. j - 1 \in 1 .. n - 2 /\ (j - 1) + 1 = j
      BY <2>3
    <3>2. Tail(q)[j - 1] \in good
      BY <2>1, <1>2, <3>1
    <3>3. \A k \in (j - 1) + 1 .. n - 2 : Tail(q)[k] \notin bad
      <4>1. ASSUME NEW k \in (j - 1) + 1 .. n - 2 PROVE k + 1 \in j + 1 .. n - 1 /\ k \in 1 .. n - 2
        OBVIOUS
      <4> QED
        BY <2>1, <1>2, <4>1
    <3>4. (n - 1) - 1 = n - 2
      OBVIOUS
    <3> QED
      BY <3>1, <3>2, <3>3, <3>4 DEF Settled
  <2> QED
    BY <2>2, <2>3
<1> QED
  BY <1>3, <1>4 DEF Settled

(* ... and when the host submits more, ... *)
LEMMA SettledEnqueue ==
  ASSUME NEW q \in Seq(Command), NEW cmds \in Seq(Command), NEW n \in 1 .. Len(q) + 1,
         NEW good, NEW bad, NEW ok \in BOOLEAN
  PROVE  Settled(ok, q \o cmds, good, bad, n) <=> Settled(ok, q, good, bad, n)
<1>1. \A i \in 1 .. Len(q) : (q \o cmds)[i] = q[i]
  BY Enqueue
<1>2. Len(q) \in Nat
  BY Enqueue
<1>3. \A i \in 1 .. n - 1 : (q \o cmds)[i] = q[i]
  BY <1>1, <1>2
<1>4. \A j \in 1 .. n - 1 : \A k \in j + 1 .. n - 1 : k \in 1 .. n - 1
  BY <1>2
<1> QED
  BY <1>3, <1>4 DEF Settled

(* ... for the command behind it too, if none of it spoils it ... *)
LEMMA SettledBehind ==
  ASSUME NEW q \in Seq(Command), NEW cmd \in Command,
         NEW good, NEW bad, NEW ok \in BOOLEAN,
         Settled(ok, q, good, bad, Len(q) + 1), cmd \notin bad
  PROVE  Settled(ok, q \o <<cmd>>, good, bad, Len(q) + 2)
<1> DEFINE r == q \o <<cmd>>
<1>1. /\ Len(q) \in Nat
      /\ \A i \in 1 .. Len(q) : r[i] = q[i]
      /\ r[Len(q) + 1] = cmd
  <2>1. <<cmd>> \in Seq(Command) /\ Len(<<cmd>>) = 1 /\ <<cmd>>[1] = cmd
    OBVIOUS
  <2>2. /\ Len(q) \in Nat
        /\ \A i \in 1 .. Len(q) : r[i] = q[i]
        /\ \A i \in 1 .. 1 : r[Len(q) + i] = <<cmd>>[i]
    BY <2>1, Enqueue
  <2>3. 1 \in 1 .. 1
    OBVIOUS
  <2> QED
    BY <2>1, <2>2, <2>3
<1> HIDE DEF r
<1>2. (Len(q) + 1) - 1 = Len(q) /\ (Len(q) + 2) - 1 = Len(q) + 1
  BY <1>1
<1>3. \A k \in 1 .. Len(q) + 1 : k \in 1 .. Len(q) \/ k = Len(q) + 1
  BY <1>1
<1>4. CASE ok /\ \A k \in 1 .. Len(q) : q[k] \notin bad
  <2>1. \A k \in 1 .. Len(q) + 1 : r[k] \notin bad
    BY <1>1, <1>3, <1>4
  <2> QED
    BY <1>2, <1>4, <2>1 DEF Settled, r
<1>5. CASE \E j \in 1 .. Len(q) : q[j] \in good /\ \A k \in j + 1 .. Len(q) : q[k] \notin bad
  <2>1. PICK j \in 1 .. Len(q) : q[j] \in good /\ \A k \in j + 1 .. Len(q) : q[k] \notin bad
    BY <1>5
  <2>2. j \in 1 .. Len(q) + 1 /\ r[j] \in good
    BY <1>1, <2>1
  <2>3. \A k \in j + 1 .. Len(q) + 1 : r[k] \notin bad
    <3>1. \A k \in j + 1 .. Len(q) + 1 :
             (k \in j + 1 .. Len(q) /\ k \in 1 .. Len(q)) \/ k = Len(q) + 1
      BY <1>1
    <3> QED
      BY <1>1, <2>1, <3>1
  <2> QED
    BY <1>2, <2>2, <2>3 DEF Settled, r
<1> QED
  BY <1>2, <1>4, <1>5 DEF Settled

(* ... and a command of the good kind settles it, if nothing behind it spoils it. *)
LEMMA SettledBy ==
  ASSUME NEW q \in Seq(Command), NEW cmds \in Seq(Command), NEW j \in 1 .. Len(cmds),
         NEW good, NEW bad, NEW ok \in BOOLEAN,
         cmds[j] \in good, \A k \in j + 1 .. Len(cmds) : cmds[k] \notin bad
  PROVE  Settled(ok, q \o cmds, good, bad, Len(q \o cmds) + 1)
<1>1. /\ Len(q) \in Nat /\ Len(cmds) \in Nat
      /\ Len(q \o cmds) = Len(q) + Len(cmds)
      /\ \A i \in 1 .. Len(cmds) : (q \o cmds)[Len(q) + i] = cmds[i]
  BY Enqueue
<1>2. /\ Len(q) + j \in 1 .. (Len(q \o cmds) + 1) - 1
      /\ (q \o cmds)[Len(q) + j] \in good
  BY <1>1
<1>3. ASSUME NEW k \in (Len(q) + j) + 1 .. (Len(q \o cmds) + 1) - 1
      PROVE  (q \o cmds)[k] \notin bad
  <2>1. k - Len(q) \in j + 1 .. Len(cmds) /\ Len(q) + (k - Len(q)) = k
    BY <1>1
  <2>2. k - Len(q) \in 1 .. Len(cmds)
    BY <1>1, <2>1
  <2> QED
    BY <1>1, <2>1, <2>2
<1> QED
  BY <1>2, <1>3 DEF Settled

LEMMA SettledNow ==
  ASSUME NEW q, NEW good, NEW bad, NEW ok \in BOOLEAN, Settled(ok, q, good, bad, 1)
  PROVE  ok
  BY DEF Settled

LEMMA CommandTypes ==
  /\ \A s \in Slot : Dispatch(s) \in Command /\ ResetDpCount(s) \in Command
  /\ \A s \in Slot : \A n \in 0 .. BufferSize : CopyDps(s, n) \in Command
  /\ \A length \in 0 .. Lengths : SetLength(length) \in Command
  /\ Calibration \in Command
  BY DEF Command

LEMMA Fields ==
  /\ \A s : Dispatch(s).op = "dispatch" /\ Dispatch(s).slot = s
  /\ \A s : ResetDpCount(s).op = "reset" /\ ResetDpCount(s).slot = s
  /\ \A s, n : CopyDps(s, n).op = "copyDps" /\ CopyDps(s, n).slot = s /\ CopyDps(s, n).n = n
  /\ \A length : SetLength(length).op = "config" /\ SetLength(length).n = length
  /\ Calibration.op = "calibration"
  BY DEF Dispatch, ResetDpCount, CopyDps, SetLength, Calibration

LEMMA SlotFacts == \A s \in Slot : 1 - s \in Slot /\ 1 - s # s /\ 1 - (1 - s) = s
  BY DEF Slot

LEMMA LeastFacts ==
  \A a, b \in Nat : /\ Least(a, b) \in Nat /\ Least(a, b) <= a /\ Least(a, b) <= b
                    /\ a = 0 => Least(a, b) = 0
  BY DEF Least

-----------------------------------------------------------------------------
(* The GPU executes a command. *)

LEMMA GpuEffect ==
  ASSUME TypeOK, GpuStep
  PROVE  /\ Len(queue) \in Nat \ {0}
         /\ queue[1] \in Command
         /\ queue' = Tail(queue)
         /\ UNCHANGED <<normalize, calibrationVars, submitted, hostVars>>
         /\ \/ \E s \in Slot, found \in 0 .. MaxEmit :
                 queue[1] = Dispatch(s) /\ RunDispatch(s, found)
            \/ \E s \in Slot, n \in 0 .. BufferSize :
                 queue[1] = CopyDps(s, n) /\ RunCopyDps(s, n)
            \/ \E s \in Slot : queue[1] = ResetDpCount(s) /\ RunReset(s)
            \/ \E length \in 0 .. Lengths :
                 queue[1] = SetLength(length) /\ RunSetLength(length)
            \/ \E found \in 0 .. MaxEmit : queue[1] = Calibration /\ RunCalibration(found)
<1>1. queue \in Seq(Command) /\ queue # << >>
  BY DEF TypeOK, GpuStep
<1>2. Len(queue) \in Nat \ {0} /\ Head(queue) \in Command /\ Head(queue) = queue[1]
  BY <1>1, Execute
<1>3. \/ queue[1].op = "dispatch" /\ \E found \in 0 .. MaxEmit : RunDispatch(queue[1].slot, found)
      \/ queue[1].op = "copyDps" /\ RunCopyDps(queue[1].slot, queue[1].n)
      \/ queue[1].op = "reset" /\ RunReset(queue[1].slot)
      \/ queue[1].op = "config" /\ RunSetLength(queue[1].n)
      \/ queue[1].op = "calibration" /\ \E found \in 0 .. MaxEmit : RunCalibration(found)
  BY <1>2 DEF GpuStep
<1>4. \/ \E s \in Slot, found \in 0 .. MaxEmit :
           queue[1] = Dispatch(s) /\ RunDispatch(s, found)
      \/ \E s \in Slot, n \in 0 .. BufferSize :
           queue[1] = CopyDps(s, n) /\ RunCopyDps(s, n)
      \/ \E s \in Slot : queue[1] = ResetDpCount(s) /\ RunReset(s)
      \/ \E length \in 0 .. Lengths :
           queue[1] = SetLength(length) /\ RunSetLength(length)
      \/ \E found \in 0 .. MaxEmit : queue[1] = Calibration /\ RunCalibration(found)
  BY <1>2, <1>3, Shapes, Zenon
<1> QED
  BY <1>2, <1>4 DEF GpuStep

(* What a dispatch stores: the next candidates, as many as fit behind the counter. *)
LEMMA DispatchType ==
  ASSUME TypeOK, NEW s \in Slot, NEW found \in 0 .. MaxEmit, RunDispatch(s, found)
  PROVE  /\ dpCount' \in [Slot -> Nat]
         /\ dpBuffer' \in [Slot -> [1 .. BufferSize -> Nat]]
         /\ staged' \in [Slot -> Seq(Nat)]
         /\ stored' \in Nat
         /\ config' = config
<1> DEFINE first == IF normalize THEN 0 ELSE dpCount[s]
           kept == Least(found, BufferSize - Least(first, BufferSize))
           buffer == [i \in 1 .. BufferSize |->
                        IF i > first /\ i <= first + kept THEN stored + (i - first)
                                                          ELSE dpBuffer[s][i]]
<1>1. /\ first \in Nat /\ found \in Nat /\ BufferSize \in Nat
      /\ stored \in Nat /\ dpCount \in [Slot -> Nat] /\ staged \in [Slot -> Seq(Nat)]
      /\ dpBuffer \in [Slot -> [1 .. BufferSize -> Nat]]
  BY PipelineAssumption, SMTT(30) DEF TypeOK
<1>2. Least(first, BufferSize) \in Nat /\ Least(first, BufferSize) <= BufferSize
  BY <1>1, LeastFacts
<1>3. BufferSize - Least(first, BufferSize) \in Nat
  BY <1>1, <1>2
<1>4. kept \in Nat
  BY <1>1, <1>3, LeastFacts
<1>5. /\ dpCount' = [dpCount EXCEPT ![s] = first + found]
      /\ dpBuffer' = [dpBuffer EXCEPT ![s] = buffer]
      /\ staged' = [staged EXCEPT ![s] = <<first + found>>]
      /\ stored' = stored + kept
      /\ config' = config
  BY DEF RunDispatch
<1> HIDE DEF first, kept
<1>6. buffer \in [1 .. BufferSize -> Nat]
  BY <1>1, <1>4
<1>7. <<first + found>> \in Seq(Nat)
  BY <1>1
<1> HIDE DEF buffer
<1> QED
  BY <1>1, <1>4, <1>5, <1>6, <1>7

LEMMA GpuType ==
  ASSUME TypeOK, GpuStep
  PROVE  TypeOK'
<1> USE PipelineAssumption
<1>1. /\ queue' \in Seq(Command)
      /\ UNCHANGED <<normalize, steps, probe, submitted, dispatches, currentSlot, prevSub,
                     newSub, pc, flushing, failed, delivered>>
  <2>1. queue \in Seq(Command) /\ queue # << >>
    BY DEF TypeOK, GpuStep
  <2>2. queue' \in Seq(Command)
    BY <2>1, GpuEffect, Execute
  <2> QED
    BY <2>2, GpuEffect DEF hostVars, callVars, calibrationVars
<1>2. /\ dpCount' \in [Slot -> Nat]
      /\ dpBuffer' \in [Slot -> [1 .. BufferSize -> Nat]]
      /\ staged' \in [Slot -> Seq(Nat)]
      /\ stored' \in Nat
      /\ config' \in 0 .. Lengths
  <2>1. CASE \E s \in Slot, found \in 0 .. MaxEmit : RunDispatch(s, found)
    BY <2>1, DispatchType DEF TypeOK
  <2>2. CASE \E s \in Slot, n \in 0 .. BufferSize : RunCopyDps(s, n)
    <3>1. PICK s \in Slot, n \in 0 .. BufferSize : RunCopyDps(s, n)
      BY <2>2
    <3>2. n \in Int /\ \A i \in 1 .. n : i \in 1 .. BufferSize /\ dpBuffer[s][i] \in Nat
      BY DEF TypeOK
    <3>3. SubSeq(dpBuffer[s], 1, n) \in Seq(Nat)
      BY <3>2, SubSeqProperties
    <3> QED
      BY <3>1, <3>3 DEF TypeOK, RunCopyDps
  <2>3. CASE \E s \in Slot : RunReset(s)
    BY <2>3, SMTT(30) DEF TypeOK, RunReset
  <2>4. CASE \E length \in 0 .. Lengths : RunSetLength(length)
    BY <2>4 DEF TypeOK, RunSetLength
  <2>5. CASE \E found \in 0 .. MaxEmit : RunCalibration(found)
    <3>1. PICK found \in 0 .. MaxEmit : RunCalibration(found)
      BY <2>5
    <3>2. 0 \in Slot /\ dpCount[0] \in Nat /\ dpBuffer[0] \in [1 .. BufferSize -> Nat]
      BY DEF TypeOK, Slot
    <3>3. [i \in 1 .. BufferSize |-> IF i > dpCount[0] /\ i <= dpCount[0] + found
                                     THEN 0 ELSE dpBuffer[0][i]] \in [1 .. BufferSize -> Nat]
      BY <3>2
    <3> QED
      BY <3>1, <3>2, <3>3, SMTT(30) DEF TypeOK, RunCalibration
  <2> QED
    BY <2>1, <2>2, <2>3, <2>4, <2>5, GpuEffect
<1> QED
  BY <1>1, <1>2 DEF TypeOK

(* What is settled about a slot's counter and about the length stays settled. *)
LEMMA GpuClear ==
  ASSUME TypeOK, GpuStep, NEW s \in Slot, NEW n \in 1 .. Len(queue), Clear(s, n + 1)
  PROVE  Clear(s, n)'
<1> DEFINE ok == dpCount[s] = 0
           now == dpCount'[s] = 0
           good == {ResetDpCount(s)}
           bad == Fillers(s)
<1>1. queue \in Seq(Command) /\ queue # << >> /\ queue' = Tail(queue)
  BY GpuEffect DEF TypeOK, GpuStep
<1>2. (queue[1] \in good => now) /\ (ok /\ queue[1] \notin bad => now)
  <2> USE DEF Dispatch, CopyDps, ResetDpCount, SetLength, Calibration
  <2>1. CASE \E t \in Slot, found \in 0 .. MaxEmit : queue[1] = Dispatch(t) /\ RunDispatch(t, found)
    BY <2>1, SMTT(30) DEF RunDispatch, TypeOK, Fillers
  <2>2. CASE \E t \in Slot, k \in 0 .. BufferSize : queue[1] = CopyDps(t, k) /\ RunCopyDps(t, k)
    BY <2>2 DEF RunCopyDps
  <2>3. CASE \E t \in Slot : queue[1] = ResetDpCount(t) /\ RunReset(t)
    BY <2>3 DEF RunReset, TypeOK
  <2>4. CASE \E length \in 0 .. Lengths : queue[1] = SetLength(length) /\ RunSetLength(length)
    BY <2>4 DEF RunSetLength
  <2>5. CASE \E found \in 0 .. MaxEmit : queue[1] = Calibration /\ RunCalibration(found)
    BY <2>5, SMTT(30) DEF RunCalibration, TypeOK, Fillers, Slot
  <2> QED
    BY <2>1, <2>2, <2>3, <2>4, <2>5, GpuEffect
<1>3. Settled(ok, queue, good, bad, n + 1)
  BY DEF Clear
<1>4. /\ ok \in BOOLEAN /\ now \in BOOLEAN
      /\ n + 1 \in 2 .. Len(queue) + 1 /\ (n + 1) - 1 = n
  BY GpuEffect
<1>5. Clear(s, n)' <=> Settled(now, Tail(queue), good, bad, n)
  BY <1>1 DEF Clear
<1> HIDE DEF ok, now, good, bad
<1> QED
  BY <1>1, <1>2, <1>3, <1>4, <1>5, SettledExecute

LEMMA GpuLength ==
  ASSUME TypeOK, GpuStep, NEW n \in 1 .. Len(queue), LengthSet(n + 1)
  PROVE  LengthSet(n)'
<1> DEFINE ok == config = steps
           now == config' = steps
           good == {SetLength(steps)}
           bad == {SetLength(length) : length \in 0 .. Lengths}
<1>1. queue \in Seq(Command) /\ queue # << >> /\ queue' = Tail(queue) /\ steps' = steps
  BY GpuEffect DEF TypeOK, GpuStep, calibrationVars
<1>2. (queue[1] \in good => now) /\ (ok /\ queue[1] \notin bad => now)
  <2> USE DEF Dispatch, CopyDps, ResetDpCount, SetLength, Calibration
  <2>1. CASE \E t \in Slot, found \in 0 .. MaxEmit : queue[1] = Dispatch(t) /\ RunDispatch(t, found)
    BY <2>1 DEF RunDispatch
  <2>2. CASE \E t \in Slot, k \in 0 .. BufferSize : queue[1] = CopyDps(t, k) /\ RunCopyDps(t, k)
    BY <2>2 DEF RunCopyDps
  <2>3. CASE \E t \in Slot : queue[1] = ResetDpCount(t) /\ RunReset(t)
    BY <2>3 DEF RunReset
  <2>4. CASE \E length \in 0 .. Lengths : queue[1] = SetLength(length) /\ RunSetLength(length)
    BY <2>4 DEF RunSetLength
  <2>5. CASE \E found \in 0 .. MaxEmit : queue[1] = Calibration /\ RunCalibration(found)
    BY <2>5 DEF RunCalibration
  <2> QED
    BY <2>1, <2>2, <2>3, <2>4, <2>5, GpuEffect
<1>3. Settled(ok, queue, good, bad, n + 1)
  BY DEF LengthSet
<1>4. /\ ok \in BOOLEAN /\ now \in BOOLEAN
      /\ n + 1 \in 2 .. Len(queue) + 1 /\ (n + 1) - 1 = n
  BY GpuEffect
<1>5. LengthSet(n)' <=> Settled(now, Tail(queue), good, bad, n)
  BY <1>1 DEF LengthSet
<1> HIDE DEF ok, now, good, bad
<1> QED
  BY <1>1, <1>2, <1>3, <1>4, <1>5, SettledExecute

LEMMA GpuShift ==
  ASSUME TypeOK, GpuStep
  PROVE  /\ Len(queue) \in Nat \ {0} /\ Len(queue') = Len(queue) - 1
         /\ \A i \in 1 .. Len(queue') : i + 1 \in 1 .. Len(queue) /\ queue'[i] = queue[i + 1]
         /\ submitted' = submitted
         /\ UNCHANGED <<prevSub, newSub, currentSlot, pc, flushing, failed, delivered, probe>>
<1>1. queue \in Seq(Command) /\ queue # << >> /\ queue' = Tail(queue)
  BY GpuEffect DEF TypeOK, GpuStep
<1>2. /\ Len(queue) \in Nat \ {0} /\ Len(queue') = Len(queue) - 1
      /\ \A i \in 1 .. Len(queue) - 1 : queue'[i] = queue[i + 1]
  BY <1>1, Execute
<1>3. \A i \in 1 .. Len(queue') : i \in 1 .. Len(queue) - 1 /\ i + 1 \in 1 .. Len(queue)
  BY <1>2
<1>4. /\ submitted' = submitted
      /\ UNCHANGED <<prevSub, newSub, currentSlot, pc, flushing, failed, delivered, probe>>
  BY GpuEffect DEF hostVars, callVars, calibrationVars
<1> QED
  BY <1>2, <1>3, <1>4

LEMMA GpuQueue ==
  ASSUME IInv, GpuStep
  PROVE  HostInv' /\ QueueInv' /\ NextInv' /\ OrderInv'
<1> USE DEF IInv
<1> submitted \in Nat /\ prevSub \in Nat /\ newSub \in Nat /\ currentSlot \in Slot
  BY DEF TypeOK
<1>1. HostInv'
  BY GpuShift DEF HostInv, Calibrating, Executed
<1>2. QueueInv'
  <2>1. ASSUME NEW i \in 1 .. Len(queue'), queue'[i].op = "dispatch"
        PROVE  ~Calibrating' /\ Clear(queue[i].slot, i)' /\ LengthSet(i)'
    <3>1. i + 1 \in 1 .. Len(queue) /\ i \in 1 .. Len(queue)
      BY GpuShift
    <3>2. queue'[i] = queue[i + 1] /\ queue[i + 1] \in Command
      BY <3>1, GpuShift, ElementOfSeq DEF TypeOK
    <3>3. ~Calibrating /\ Clear(queue[i + 1].slot, i + 1) /\ LengthSet(i + 1)
      BY <2>1, <3>1, <3>2 DEF QueueInv
    <3>4. PICK s \in Slot : s = queue[i + 1].slot
      BY <2>1, <3>2, Shapes
    <3>5. LengthSet(i)' /\ Clear(s, i)'
      BY <3>1, <3>3, <3>4, GpuLength, GpuClear
    <3>6. s = queue[i].slot'
      BY <3>2, <3>4
    <3> QED
      BY <3>3, <3>5, <3>6, GpuShift DEF Calibrating
  <2>2. ASSUME ~Calibrating' PROVE LengthSet(Len(queue) + 1)'
    <3>1. PICK n \in 1 .. Len(queue) : n = Len(queue) /\ n = Len(queue') + 1
      BY GpuShift
    <3>2. LengthSet(n + 1)
      BY <2>2, <3>1, GpuShift DEF QueueInv, Calibrating
    <3>3. LengthSet(n)'
      BY <3>2, GpuLength
    <3> QED
      BY <3>1, <3>3
  <2> QED
    BY <2>1, <2>2 DEF QueueInv
<1>3. NextInv'
  <2>1. PICK n \in 1 .. Len(queue) : n = Len(queue) /\ n = Len(queue') + 1
    BY GpuShift
  <2>2. \A s \in Slot : Clear(s, n + 1) => Clear(s, n)'
    BY GpuClear
  <2>3. PICK s \in Slot, t \in Slot : s = currentSlot /\ t = 1 - currentSlot
    BY SlotFacts
  <2>4. ASSUME pc = "idle", failed = "no"
        PROVE  Clear(s, n)' /\ (prevSub = None => Clear(t, n)')
    BY <2>1, <2>2, <2>3, <2>4 DEF NextInv
  <2>5. s = currentSlot' /\ t = 1 - currentSlot'
    BY <2>3, GpuShift
  <2> QED
    BY <2>1, <2>4, <2>5, GpuShift DEF NextInv
<1>4. OrderInv'
  <2> SUFFICES ASSUME Live, NEW i \in 1 .. Len(queue')
      PROVE
        /\ queue'[i].op = "dispatch" => Number(i)' \in {prevSub, newSub}
        /\ Number(i)' = prevSub => queue'[i] = Dispatch(ReadSlot)
        /\ Number(i)' = newSub => queue'[i] = Dispatch(currentSlot)
        /\ queue'[i].op = "copyDps" => pc = "payload" /\ i = Len(queue')
        /\ prevSub # None /\ Number(i)' > prevSub => queue'[i].op \notin {"calibration", "config"}
        /\ prevSub # None /\ Number(i)' > prevSub /\ queue'[i].op = "reset" =>
             queue'[i].slot = currentSlot
        /\ newSub # None /\ Number(i)' > newSub => queue'[i].op = "copyDps"
    BY GpuShift DEF OrderInv, Live, ReadSlot
  <2>1. i + 1 \in 1 .. Len(queue) /\ queue'[i] = queue[i + 1] /\ Len(queue') = Len(queue) - 1
    BY GpuShift
  <2>2. Number(i)' = Number(i + 1)
    BY <2>1, GpuShift DEF Number
  <2>3. i = Len(queue') <=> i + 1 = Len(queue)
    BY <2>1, GpuShift
  <2> QED
    BY <2>1, <2>2, <2>3 DEF OrderInv
<1> QED
  BY <1>1, <1>2, <1>3, <1>4

Untouched(s) ==
  /\ dpCount'[s] = dpCount[s]
  /\ dpBuffer'[s] = dpBuffer[s]
  /\ staged'[s] = staged[s]

(* A dispatch that finds its slot empty leaves what it stores from the first place on. *)
LEMMA DispatchFills ==
  ASSUME TypeOK, NEW s \in Slot, NEW found \in 0 .. MaxEmit, RunDispatch(s, found),
         dpCount[s] = 0
  PROVE  /\ Untouched(1 - s)
         /\ staged'[s] = <<dpCount'[s]>>
         /\ InSlot(s)' \in Nat
         /\ stored' = stored + InSlot(s)'
         /\ \A i \in 1 .. InSlot(s)' : dpBuffer'[s][i] = stored + i
<1> DEFINE kept == Least(found, BufferSize)
<1>1. /\ found \in Nat /\ BufferSize \in Nat \ {0} /\ stored \in Nat
      /\ dpCount \in [Slot -> Nat] /\ staged \in [Slot -> Seq(Nat)]
      /\ dpBuffer \in [Slot -> [1 .. BufferSize -> Nat]]
  BY PipelineAssumption, SMTT(30) DEF TypeOK
<1>2. /\ (IF normalize THEN 0 ELSE dpCount[s]) = 0
      /\ Least(0, BufferSize) = 0
      /\ BufferSize - 0 = BufferSize
      /\ 0 + found = found /\ 0 + kept = kept
      /\ kept \in Nat /\ kept <= BufferSize
  BY <1>1, LeastFacts DEF Least
<1>3. /\ dpCount' = [dpCount EXCEPT ![s] = found]
      /\ dpBuffer' = [dpBuffer EXCEPT ![s] =
           [i \in 1 .. BufferSize |-> IF i > 0 /\ i <= kept THEN stored + (i - 0)
                                                            ELSE dpBuffer[s][i]]]
      /\ staged' = [staged EXCEPT ![s] = <<found>>]
      /\ stored' = stored + kept
  BY <1>2 DEF RunDispatch
<1>4. Untouched(1 - s)
  BY <1>1, <1>3, SlotFacts DEF Untouched
<1>5. dpCount'[s] = found /\ staged'[s] = <<found>> /\ InSlot(s)' = kept
  BY <1>1, <1>3 DEF InSlot
<1>6. ASSUME NEW i \in 1 .. kept PROVE dpBuffer'[s][i] = stored + i
  <2>1. i \in 1 .. BufferSize /\ i > 0 /\ i <= kept /\ i - 0 = i
    BY <1>1, <1>2
  <2> QED
    BY <1>1, <1>3, <2>1
<1> QED
  BY <1>2, <1>3, <1>4, <1>5, <1>6

LEMMA InSlotType == ASSUME TypeOK, NEW s \in Slot PROVE InSlot(s) \in 0 .. BufferSize
<1>1. dpCount[s] \in Nat /\ BufferSize \in Nat
  BY PipelineAssumption DEF TypeOK
<1> QED
  BY <1>1, LeastFacts DEF InSlot

LEMMA GpuData ==
  ASSUME IInv, GpuStep
  PROVE  DataInv'
<1> USE DEF IInv
<1> SUFFICES ASSUME Live PROVE DataInv'
  BY GpuShift DEF DataInv, Live
<1>0. PICK r \in Slot, c \in Slot, D \in Nat :
        r = ReadSlot /\ c = currentSlot /\ D = Len(delivered)
  <2>1. Len(delivered) \in Nat
    BY DEF TypeOK
  <2> QED
    BY <2>1, SlotFacts DEF ReadSlot, TypeOK
<1>1. /\ r # c /\ 1 - r = c /\ 1 - c = r
      /\ submitted \in Nat /\ prevSub \in Nat /\ newSub \in Nat /\ stored \in Nat
      /\ InSlot(r) \in Nat /\ InSlot(c) \in Nat
  BY <1>0, SlotFacts, InSlotType DEF ReadSlot, TypeOK
<1>2a. r = ReadSlot' /\ c = currentSlot' /\ D = Len(delivered)'
  BY <1>0, GpuShift DEF ReadSlot
<1>2b. Len(queue) \in Nat \ {0} /\ Len(queue') = Len(queue) - 1 /\ submitted' = submitted
  BY GpuShift
<1>2c. Number(1) = submitted - Len(queue) + 1
  BY DEF Number
<1>2. /\ r = ReadSlot' /\ c = currentSlot' /\ D = Len(delivered)'
      /\ Number(1) = submitted - Len(queue) + 1
      /\ submitted' - Len(queue') = Number(1)
      /\ Len(queue) \in Nat \ {0} /\ 1 \in 1 .. Len(queue)
  BY <1>1, <1>2a, <1>2b, <1>2c
<1>3. /\ PrevDone <=> prevSub # None /\ prevSub < Number(1)
      /\ PrevDone' <=> prevSub # None /\ prevSub <= Number(1)
      /\ NewDone <=> newSub # None /\ newSub < Number(1)
      /\ NewDone' <=> newSub # None /\ newSub <= Number(1)
  BY <1>1, <1>2, GpuShift DEF PrevDone, NewDone, Executed
<1>4. NewDone => PrevDone
  BY <1>1, <1>2, <1>3 DEF HostInv, None
<1>5. /\ PrevDone => Holds(r, D)
      /\ PrevDone /\ pc # "payload" => staged[r] = <<dpCount[r]>>
      /\ NewDone => Holds(c, D + InSlot(r)) /\ staged[c] = <<dpCount[c]>>
      /\ stored = D + (IF PrevDone THEN InSlot(r) ELSE 0) + (IF NewDone THEN InSlot(c) ELSE 0)
      /\ pc = "payload" =>
           IF queue = << >>
           THEN staged[r] = SubSeq(dpBuffer[r], 1, InSlot(r))
           ELSE queue[Len(queue)] = CopyDps(r, InSlot(r))
  BY <1>0 DEF DataInv
<1>6. queue # << >> /\ queue \in Seq(Command)
  BY DEF GpuStep, TypeOK
<1>7. queue' = << >> <=> Len(queue) = 1
  <2>1. queue' \in Seq(Command)
    BY GpuType DEF TypeOK
  <2> QED
    BY <2>1, <1>2, GpuShift, EmptySeq
<1>8. pc = "payload" /\ queue' # << >> => queue'[Len(queue')] = CopyDps(r, InSlot(r))
  <2> SUFFICES ASSUME pc = "payload", queue' # << >>
               PROVE  queue'[Len(queue')] = CopyDps(r, InSlot(r))
    OBVIOUS
  <2>1. Len(queue') \in 1 .. Len(queue') /\ Len(queue') + 1 = Len(queue)
    BY <1>2, <1>7, GpuShift
  <2> QED
    BY <2>1, <1>5, <1>6, GpuShift
<1>9. pc = "payload" => PrevDone
  BY DEF HostInv, PrevDone
<1> SUFFICES
      /\ PrevDone' => Holds(r, D)'
      /\ PrevDone' /\ pc # "payload" => staged'[r] = <<dpCount'[r]>>
      /\ NewDone' => Holds(c, D + InSlot(r))' /\ staged'[c] = <<dpCount'[c]>>
      /\ stored' = D + (IF PrevDone' THEN InSlot(r)' ELSE 0) + (IF NewDone' THEN InSlot(c)' ELSE 0)
      /\ pc = "payload" /\ queue' = << >> =>
           staged'[r] = SubSeq(dpBuffer'[r], 1, InSlot(r)')
      /\ pc = "payload" /\ queue' # << >> => InSlot(r)' = InSlot(r)
  BY <1>2, <1>8, GpuShift DEF DataInv
<1>10. \A s \in Slot : Untouched(s) => InSlot(s)' = InSlot(s)
  BY DEF Untouched, InSlot
<1>11. \A s \in Slot : \A k : Untouched(s) /\ Holds(s, k) =>
         \A i \in 1 .. InSlot(s)' : dpBuffer'[s][i] = k + i
  BY DEF Untouched, InSlot, Holds
<1>a. CASE \E s \in Slot, found \in 0 .. MaxEmit : queue[1] = Dispatch(s) /\ RunDispatch(s, found)
  <2>1. PICK s \in Slot, found \in 0 .. MaxEmit : queue[1] = Dispatch(s) /\ RunDispatch(s, found)
    BY <1>a
  <2>2. queue[1].op = "dispatch" /\ queue[1].slot = s
    BY <2>1 DEF Dispatch
  <2>3. dpCount[s] = 0
    BY <2>2, <1>2, SettledNow DEF QueueInv, Clear
  <2>4. /\ Untouched(1 - s)
        /\ staged'[s] = <<dpCount'[s]>>
        /\ InSlot(s)' \in Nat
        /\ stored' = stored + InSlot(s)'
        /\ \A i \in 1 .. InSlot(s)' : dpBuffer'[s][i] = stored + i
    BY <2>1, <2>3, DispatchFills
  <2>5. Number(1) \in {prevSub, newSub} /\ Number(1) \in Nat \ {0}
    BY <2>2, <1>1, <1>2 DEF OrderInv, HostInv
  <2>6. CASE Number(1) = prevSub
    <3>1. s = r
      BY <2>2, <2>6, <1>0, <1>2 DEF OrderInv, Dispatch
    <3>2. ~PrevDone /\ ~NewDone /\ PrevDone' /\ ~NewDone'
      BY <2>5, <2>6, <1>1, <1>3, <1>4 DEF HostInv, None
    <3>3. stored = D
      BY <3>2, <1>5, <1>1
    <3>4. Holds(r, D)'
      BY <2>4, <3>1, <3>3, <1>2 DEF Holds
    <3> QED
      BY <2>4, <3>1, <3>2, <3>3, <3>4, <1>1, <1>9
  <2>7. CASE Number(1) # prevSub
    <3>1. s = c /\ Number(1) = newSub
      BY <2>2, <2>5, <2>7, <1>0, <1>2 DEF OrderInv, Dispatch
    <3>2. PrevDone /\ ~NewDone /\ PrevDone' /\ NewDone'
      BY <2>5, <3>1, <1>1, <1>3 DEF HostInv, None
    <3>3. stored = D + InSlot(r) /\ Untouched(r)
      BY <2>4, <3>1, <3>2, <1>5, <1>1
    <3>4. InSlot(r)' = InSlot(r)
      BY <3>3, <1>1, <1>10
    <3>5. Holds(c, D + InSlot(r))'
      BY <2>4, <3>1, <3>3, <3>4, <1>2 DEF Holds
    <3>6. Holds(r, D)'
      <4>1. Holds(r, D)
        BY <3>2, <1>5
      <4>2. \A i \in 1 .. InSlot(r)' : dpBuffer'[r][i] = D + i
        BY <3>3, <4>1, <1>1, <1>11
      <4> QED
        BY <4>2, <1>2 DEF Holds
    <3>7. pc = "payload" => queue' # << >>
      BY <2>2, <1>2, <1>5, <1>6, <1>7 DEF CopyDps
    <3> QED
      BY <2>4, <3>1, <3>2, <3>3, <3>4, <3>5, <3>6, <3>7, <1>1, <1>5 DEF Untouched
  <2> QED
    BY <2>6, <2>7
<1>b. CASE \E s \in Slot, n \in 0 .. BufferSize : queue[1] = CopyDps(s, n) /\ RunCopyDps(s, n)
  <2>1. PICK s \in Slot, n \in 0 .. BufferSize : queue[1] = CopyDps(s, n) /\ RunCopyDps(s, n)
    BY <1>b
  <2>2. queue[1].op = "copyDps" /\ queue[1].slot = s /\ queue[1].n = n
    BY <2>1 DEF CopyDps
  <2>3. pc = "payload" /\ Len(queue) = 1 /\ queue' = << >> /\ PrevDone
    BY <2>2, <1>2, <1>7, <1>9 DEF OrderInv
  <2>4. s = r /\ n = InSlot(r)
    BY <2>2, <2>3, <1>5, <1>6 DEF CopyDps
  <2>5. /\ dpCount' = dpCount /\ dpBuffer' = dpBuffer /\ stored' = stored
        /\ staged' = [staged EXCEPT ![r] = SubSeq(dpBuffer[r], 1, InSlot(r))]
        /\ staged \in [Slot -> Seq(Nat)]
    BY <2>1, <2>4 DEF RunCopyDps, TypeOK
  <2>6. InSlot(r)' = InSlot(r) /\ InSlot(c)' = InSlot(c)
    BY <2>5 DEF InSlot
  <2>7. PrevDone' /\ (NewDone' <=> NewDone)
    <3>1. newSub # Number(1)
      BY <2>2, <1>2 DEF OrderInv, Dispatch
    <3> QED
      BY <3>1, <2>3, <1>1, <1>2, <1>3
  <2> QED
    BY <2>3, <2>5, <2>6, <2>7, <1>1, <1>2, <1>5 DEF Holds
<1>c. CASE \/ \E s \in Slot : queue[1] = ResetDpCount(s) /\ RunReset(s)
           \/ \E length \in 0 .. Lengths : queue[1] = SetLength(length) /\ RunSetLength(length)
           \/ \E found \in 0 .. MaxEmit : queue[1] = Calibration /\ RunCalibration(found)
  <2>1. queue[1].op \notin {"dispatch", "copyDps"}
    BY <1>c, Fields, Zenon
  <2>2. Number(1) # prevSub /\ Number(1) # newSub
    BY <2>1, <1>2 DEF OrderInv, Dispatch
  <2>3. (PrevDone' <=> PrevDone) /\ (NewDone' <=> NewDone)
    BY <2>2, <1>1, <1>2, <1>3
  <2>4. ~NewDone
    BY <2>1, <1>1, <1>2, <1>3 DEF OrderInv
  <2>5. PrevDone => Untouched(r)
    <3> SUFFICES ASSUME PrevDone PROVE Untouched(r)
      OBVIOUS
    <3>1. /\ queue[1].op \notin {"calibration", "config"}
          /\ queue[1].op = "reset" => queue[1].slot = c
      BY <1>0, <1>1, <1>2, <1>3 DEF OrderInv
    <3>2. PICK s \in Slot : queue[1] = ResetDpCount(s) /\ RunReset(s)
      BY <3>1, <1>c, Fields, Zenon
    <3>3. s # r
      BY <3>1, <3>2, <1>1 DEF ResetDpCount
    <3> QED
      BY <3>2, <3>3, <1>1 DEF RunReset, TypeOK, Untouched
  <2>6. stored' = stored
    BY <1>c DEF RunReset, RunSetLength, RunCalibration
  <2>7. PrevDone => InSlot(r)' = InSlot(r) /\ Holds(r, D)'
    BY <2>5, <1>1, <1>2, <1>5, <1>10, <1>11 DEF Holds
  <2>8. pc = "payload" => queue' # << >>
    BY <2>1, <1>2, <1>5, <1>6, <1>7 DEF CopyDps
  <2> QED
    BY <2>3, <2>4, <2>5, <2>6, <2>7, <2>8, <1>1, <1>5, <1>9 DEF Untouched
<1> QED
  BY <1>a, <1>b, <1>c, GpuEffect

LEMMA GpuStepInv == ASSUME IInv, GpuStep PROVE IInv'
<1>1. TypeOK'
  BY GpuType DEF IInv
<1>2. DeliveredInOrder'
  BY GpuShift DEF IInv, DeliveredInOrder
<1> QED
  BY <1>1, <1>2, GpuQueue, GpuData DEF IInv

-----------------------------------------------------------------------------
(* The host submits commands. *)

LEMMA Submits ==
  ASSUME TypeOK, NEW cmds \in Seq(Command), Submit(cmds)
  PROVE  /\ queue' \in Seq(Command)
         /\ Len(queue) \in Nat /\ Len(cmds) \in Nat /\ submitted \in Nat
         /\ Len(queue') = Len(queue) + Len(cmds)
         /\ submitted' = submitted + Len(cmds)
         /\ submitted' - Len(queue') = submitted - Len(queue)
         /\ \A i \in 1 .. Len(queue) : queue'[i] = queue[i]
         /\ \A i \in 1 .. Len(queue') :
              \/ i \in 1 .. Len(queue) /\ queue'[i] = queue[i]
              \/ \E j \in 1 .. Len(cmds) : i = Len(queue) + j /\ queue'[i] = cmds[j]
<1>1. queue \in Seq(Command) /\ submitted \in Nat /\ queue' = queue \o cmds
  BY DEF TypeOK, Submit
<1>2. /\ queue' \in Seq(Command)
      /\ Len(queue) \in Nat /\ Len(cmds) \in Nat
      /\ Len(queue') = Len(queue) + Len(cmds)
      /\ \A i \in 1 .. Len(queue) : queue'[i] = queue[i]
      /\ \A i \in 1 .. Len(cmds) : queue'[Len(queue) + i] = cmds[i]
  BY <1>1, Enqueue
<1>3. submitted' = submitted + Len(cmds) /\ submitted' - Len(queue') = submitted - Len(queue)
  BY <1>1, <1>2 DEF Submit
<1>4. ASSUME NEW i \in 1 .. Len(queue'), i \notin 1 .. Len(queue)
      PROVE  \E j \in 1 .. Len(cmds) : i = Len(queue) + j /\ queue'[i] = cmds[j]
  <2>1. i - Len(queue) \in 1 .. Len(cmds) /\ Len(queue) + (i - Len(queue)) = i
    BY <1>2, <1>4
  <2> QED
    BY <1>2, <2>1
<1> QED
  BY <1>1, <1>2, <1>3, <1>4

LEMMA OneCommand ==
  ASSUME NEW cmd \in Command
  PROVE  /\ <<cmd>> \in Seq(Command) /\ Len(<<cmd>>) = 1 /\ <<cmd>>[1] = cmd
         /\ \A j : j \in 1 .. Len(<<cmd>>) <=> j = 1
  OBVIOUS

(* The places in front of it are not touched, ... *)
LEMMA SubmitKeeps ==
  ASSUME TypeOK, NEW cmds \in Seq(Command), Submit(cmds), UNCHANGED gpuVars,
         NEW n \in 1 .. Len(queue) + 1
  PROVE  /\ \A s \in Slot : Clear(s, n) => Clear(s, n)'
         /\ steps' = steps /\ LengthSet(n) => LengthSet(n)'
<1>1. queue \in Seq(Command) /\ queue' = queue \o cmds /\ dpCount' = dpCount /\ config' = config
  BY DEF TypeOK, Submit, gpuVars
<1>2. ASSUME NEW s \in Slot, Clear(s, n) PROVE Clear(s, n)'
  <2> DEFINE ok == dpCount[s] = 0
             good == {ResetDpCount(s)}
             bad == Fillers(s)
  <2>1. Settled(ok, queue, good, bad, n) /\ ok \in BOOLEAN
    BY <1>2 DEF Clear
  <2>2. Clear(s, n)' <=> Settled(ok, queue \o cmds, good, bad, n)
    BY <1>1 DEF Clear
  <2> HIDE DEF ok, good, bad
  <2> QED
    BY <1>1, <2>1, <2>2, SettledEnqueue
<1>3. ASSUME steps' = steps, LengthSet(n) PROVE LengthSet(n)'
  <2> DEFINE ok == config = steps
             good == {SetLength(steps)}
             bad == {SetLength(length) : length \in 0 .. Lengths}
  <2>1. Settled(ok, queue, good, bad, n) /\ ok \in BOOLEAN
    BY <1>3 DEF LengthSet
  <2>2. LengthSet(n)' <=> Settled(ok, queue \o cmds, good, bad, n)
    BY <1>1, <1>3 DEF LengthSet
  <2> HIDE DEF ok, good, bad
  <2> QED
    BY <1>1, <2>1, <2>2, SettledEnqueue
<1> QED
  BY <1>2, <1>3

(* ... and a command that spoils nothing can be followed by a dispatch as well as the
   one before it. *)
LEMMA SubmitBehind ==
  ASSUME TypeOK, NEW cmd \in Command, Submit(<<cmd>>), UNCHANGED <<gpuVars, steps>>
  PROVE  /\ \A s \in Slot : cmd \notin Fillers(s) /\ Clear(s, Len(queue) + 1)
                              => Clear(s, Len(queue) + 1)'
         /\ cmd.op # "config" /\ LengthSet(Len(queue) + 1) => LengthSet(Len(queue) + 1)'
<1>1. /\ queue \in Seq(Command) /\ queue' = queue \o <<cmd>>
      /\ dpCount' = dpCount /\ config' = config /\ steps' = steps
  BY DEF TypeOK, Submit, gpuVars
<1>2. Len(queue') + 1 = Len(queue) + 2
  <2>1. Len(queue) \in Nat /\ Len(queue') = Len(queue) + 1
    BY <1>1, Enqueue, OneCommand
  <2> QED
    BY <2>1
<1>3. ASSUME NEW s \in Slot, cmd \notin Fillers(s), Clear(s, Len(queue) + 1)
      PROVE  Clear(s, Len(queue) + 1)'
  <2> DEFINE ok == dpCount[s] = 0
             good == {ResetDpCount(s)}
             bad == Fillers(s)
  <2>1. Settled(ok, queue, good, bad, Len(queue) + 1) /\ ok \in BOOLEAN /\ cmd \notin bad
    BY <1>3 DEF Clear
  <2>2. Clear(s, Len(queue) + 1)' <=> Settled(ok, queue \o <<cmd>>, good, bad, Len(queue) + 2)
    BY <1>1, <1>2 DEF Clear
  <2> HIDE DEF ok, good, bad
  <2> QED
    BY <1>1, <2>1, <2>2, SettledBehind
<1>4. ASSUME cmd.op # "config", LengthSet(Len(queue) + 1) PROVE LengthSet(Len(queue) + 1)'
  <2> DEFINE ok == config = steps
             good == {SetLength(steps)}
             bad == {SetLength(length) : length \in 0 .. Lengths}
  <2>1. Settled(ok, queue, good, bad, Len(queue) + 1) /\ ok \in BOOLEAN /\ cmd \notin bad
    BY <1>4, Fields DEF LengthSet
  <2>2. LengthSet(Len(queue) + 1)' <=> Settled(ok, queue \o <<cmd>>, good, bad, Len(queue) + 2)
    BY <1>1, <1>2 DEF LengthSet
  <2> HIDE DEF ok, good, bad
  <2> QED
    BY <1>1, <2>1, <2>2, SettledBehind
<1> QED
  BY <1>3, <1>4

LEMMA SubmitReset ==
  ASSUME TypeOK, NEW s \in Slot, Submit(<<ResetDpCount(s)>>)
  PROVE  Clear(s, Len(queue) + 1)'
<1> DEFINE cmds == <<ResetDpCount(s)>>
<1>1. queue \in Seq(Command) /\ queue' = queue \o cmds
  BY DEF TypeOK, Submit
<1>2. /\ cmds \in Seq(Command) /\ 1 \in 1 .. Len(cmds) /\ cmds[1] = ResetDpCount(s)
      /\ \A k \in 2 .. Len(cmds) : FALSE
  BY CommandTypes
<1> DEFINE ok == dpCount'[s] = 0
           good == {ResetDpCount(s)}
           bad == Fillers(s)
<1>3. Clear(s, Len(queue) + 1)' <=> Settled(ok, queue \o cmds, good, bad, Len(queue \o cmds) + 1)
  BY <1>1 DEF Clear
<1>4. ok \in BOOLEAN /\ cmds[1] \in good
  BY <1>2
<1>5. \A k \in 1 + 1 .. Len(cmds) : cmds[k] \notin bad
  BY <1>2
<1> HIDE DEF cmds, ok, good, bad
<1> QED
  BY <1>1, <1>2, <1>3, <1>4, <1>5, SettledBy

-----------------------------------------------------------------------------
(* Calibration. *)

LEMMA CalibrationQueue ==
  ASSUME IInv, Calibrating
  PROVE  /\ Live /\ prevSub = None /\ newSub = None /\ ~flushing
         /\ pc \notin {"idle", "count", "payload", "done"}
         /\ \A i \in 1 .. Len(queue) : queue[i].op \notin {"dispatch", "copyDps"}
  BY DEF IInv, HostInv, QueueInv, OrderInv, Live, Calibrating

LEMMA CalibrationType == Calibrating /\ TypeOK => Best \in 0 .. Lengths
<1> SUFFICES ASSUME TypeOK PROVE Best \in 0 .. Lengths
  OBVIOUS
<1>1. probe \in 1 .. Lengths + 1 /\ Lengths \in Nat \ {0}
  BY PipelineAssumption DEF TypeOK
<1> QED
  BY <1>1 DEF Best

(* While the host calibrates nothing it submits is read, and nothing is stored. *)
LEMMA ProbeInv ==
  ASSUME IInv, Calibrating, Calibrating', NEW cmds \in Seq(Command), Submit(cmds),
         \A j \in 1 .. Len(cmds) : cmds[j].op \notin {"dispatch", "copyDps"},
         UNCHANGED <<normalize, calibrationVars, gpuVars, callVars>>,
         pc' \in {"warmup", "timed"} => probe <= Lengths
  PROVE  IInv'
<1> USE DEF IInv
<1>1. /\ Live /\ prevSub = None /\ newSub = None /\ ~flushing
      /\ pc \notin {"idle", "count", "payload", "done"}
      /\ \A i \in 1 .. Len(queue) : queue[i].op \notin {"dispatch", "copyDps"}
  BY CalibrationQueue
<1>2. /\ queue' \in Seq(Command)
      /\ Len(queue') \in Nat
      /\ submitted \in Nat /\ submitted' = submitted + Len(cmds) /\ Len(cmds) \in Nat
      /\ submitted' - Len(queue') = submitted - Len(queue)
      /\ \A i \in 1 .. Len(queue') : queue'[i].op \notin {"dispatch", "copyDps"}
  <2>1. /\ queue' \in Seq(Command) /\ Len(queue) \in Nat /\ Len(cmds) \in Nat
        /\ Len(queue') = Len(queue) + Len(cmds)
        /\ submitted \in Nat /\ submitted' = submitted + Len(cmds)
        /\ submitted' - Len(queue') = submitted - Len(queue)
    BY Submits
  <2>2. \A i \in 1 .. Len(queue') :
          \/ i \in 1 .. Len(queue) /\ queue'[i] = queue[i]
          \/ \E j \in 1 .. Len(cmds) : i = Len(queue) + j /\ queue'[i] = cmds[j]
    BY Submits
  <2>3. \A i \in 1 .. Len(queue') : queue'[i].op \notin {"dispatch", "copyDps"}
    BY <1>1, <2>2, Zenon
  <2> QED
    BY <2>1, <2>3
<1>3. /\ UNCHANGED <<prevSub, newSub, currentSlot, flushing, failed, delivered, probe, dispatches,
                     steps, normalize, dpCount, dpBuffer, staged, stored, config>>
      /\ pc' \in {"calibrate", "warmup", "timed"} /\ failed = "no"
  BY <1>1 DEF calibrationVars, gpuVars, callVars, Calibrating, Live
<1>4. TypeOK'
  BY <1>2, <1>3 DEF TypeOK
<1>5. HostInv'
  <2>1. Len(queue') <= submitted'
    BY <1>2, Submits DEF HostInv
  <2> QED
    BY <1>1, <1>2, <1>3, <2>1 DEF HostInv, Calibrating, None
<1>6. QueueInv' /\ NextInv'
  BY <1>2, <1>3 DEF QueueInv, NextInv, Calibrating
<1>7. OrderInv'
  <2>1. \A i \in 1 .. Len(queue') : Number(i)' \in Nat /\ Number(i)' # None
    BY <1>2, <1>5 DEF HostInv, Number, None
  <2> QED
    BY <1>1, <1>2, <1>3, <2>1 DEF OrderInv
<1>8. DataInv'
  <2>1. ~PrevDone /\ ~NewDone /\ ~PrevDone' /\ ~NewDone'
    BY <1>1, <1>3 DEF PrevDone, NewDone
  <2> QED
    BY <1>1, <1>3, <2>1 DEF DataInv, Live
<1>9. DeliveredInOrder'
  BY <1>3 DEF DeliveredInOrder
<1> QED
  BY <1>4, <1>5, <1>6, <1>7, <1>8, <1>9

(* Calibration is over: the length is set and both counters are cleared behind
   whatever the GPU has still to do. *)
LEMMA ReadyInv ==
  ASSUME IInv, Calibrating, NEW length \in 0 .. Lengths, Ready(length)
  PROVE  IInv'
<1> USE DEF IInv
<1> DEFINE cmds == <<SetLength(length), ResetDpCount(0), ResetDpCount(1)>>
<1>0. /\ cmds \in Seq(Command) /\ Len(cmds) = 3
      /\ cmds[1] = SetLength(length) /\ cmds[2] = ResetDpCount(0) /\ cmds[3] = ResetDpCount(1)
  BY CommandTypes DEF Slot
<1>0a. /\ \A j \in 1 .. Len(cmds) : j \in {1, 2, 3}
       /\ \A j \in 1 .. Len(cmds) : cmds[j].op \notin {"dispatch", "copyDps"}
  <2>1. \A j \in 1 .. Len(cmds) : j = 1 \/ j = 2 \/ j = 3
    BY <1>0
  <2> QED
    BY <1>0, <2>1, Fields
<1>0b. Submit(cmds)
  BY DEF Ready
<1> HIDE DEF cmds
<1>1. /\ Live /\ prevSub = None /\ newSub = None /\ ~flushing
      /\ \A i \in 1 .. Len(queue) : queue[i].op \notin {"dispatch", "copyDps"}
  BY CalibrationQueue
<1>2. /\ queue' \in Seq(Command) /\ queue \in Seq(Command) /\ queue' = queue \o cmds
      /\ Len(queue') \in Nat
      /\ submitted \in Nat /\ submitted' = submitted + 3
      /\ submitted' - Len(queue') = submitted - Len(queue)
      /\ \A i \in 1 .. Len(queue') : queue'[i].op \notin {"dispatch", "copyDps"}
  <2>1. /\ queue' \in Seq(Command) /\ Len(queue) \in Nat
        /\ Len(queue') = Len(queue) + Len(cmds)
        /\ submitted \in Nat /\ submitted' = submitted + Len(cmds)
        /\ submitted' - Len(queue') = submitted - Len(queue)
    BY <1>0, <1>0b, Submits
  <2>2. \A i \in 1 .. Len(queue') :
          \/ i \in 1 .. Len(queue) /\ queue'[i] = queue[i]
          \/ \E j \in 1 .. Len(cmds) : i = Len(queue) + j /\ queue'[i] = cmds[j]
    BY <1>0, <1>0b, Submits
  <2>3. \A i \in 1 .. Len(queue') : queue'[i].op \notin {"dispatch", "copyDps"}
    BY <1>0a, <1>1, <2>2, Zenon
  <2>4. queue \in Seq(Command) /\ queue' = queue \o cmds
    BY <1>0b DEF TypeOK, Submit
  <2> QED
    BY <1>0, <2>1, <2>3, <2>4
<1>3. /\ UNCHANGED <<prevSub, newSub, currentSlot, flushing, failed, delivered, probe, dispatches,
                     normalize, dpCount, dpBuffer, staged, stored, config>>
      /\ steps' = length /\ pc' = "idle" /\ failed = "no"
  BY <1>1 DEF Ready, gpuVars, callVars, Live
<1>4. TypeOK'
  BY <1>2, <1>3 DEF TypeOK
<1>5. HostInv'
  <2>1. Len(queue') <= submitted'
    BY <1>2 DEF HostInv, TypeOK
  <2> QED
    BY <1>1, <1>2, <1>3, <2>1 DEF HostInv, Calibrating, None
<1>6. QueueInv'
  <2> DEFINE ok == config' = steps'
             good == {SetLength(steps')}
             bad == {SetLength(l) : l \in 0 .. Lengths}
  <2>1. LengthSet(Len(queue) + 1)' <=>
           Settled(ok, queue \o cmds, good, bad, Len(queue \o cmds) + 1)
    BY <1>2 DEF LengthSet
  <2>2. ok \in BOOLEAN /\ cmds[1] \in good /\ 1 \in 1 .. Len(cmds)
    BY <1>0, <1>3
  <2>3. \A k \in 1 + 1 .. Len(cmds) : cmds[k] \notin bad
    <3>1. \A k \in 1 + 1 .. Len(cmds) : k = 2 \/ k = 3
      BY <1>0
    <3>2. \A k \in 1 + 1 .. Len(cmds) : cmds[k].op = "reset"
      BY <1>0, <3>1, Fields
    <3>3. \A k \in 1 + 1 .. Len(cmds) : \A l \in 0 .. Lengths : cmds[k] # SetLength(l)
      BY <3>2, Fields
    <3> QED
      BY <3>3
  <2> HIDE DEF ok, good, bad
  <2>4. LengthSet(Len(queue) + 1)'
    BY <1>0, <1>2, <2>1, <2>2, <2>3, SettledBy
  <2> QED
    BY <1>2, <2>4 DEF QueueInv
<1>7. NextInv'
  <2>1. ASSUME NEW s \in Slot PROVE Clear(s, Len(queue) + 1)'
    <3> DEFINE ok == dpCount'[s] = 0
               good == {ResetDpCount(s)}
               bad == Fillers(s)
    <3>1. Clear(s, Len(queue) + 1)' <=>
             Settled(ok, queue \o cmds, good, bad, Len(queue \o cmds) + 1)
      BY <1>2 DEF Clear
    <3>2. PICK j \in 1 .. Len(cmds) : cmds[j] = ResetDpCount(s) /\ j \in {2, 3}
      BY <1>0 DEF Slot
    <3>3. ok \in BOOLEAN /\ cmds[j] \in good
      BY <3>2
    <3>4. \A k \in j + 1 .. Len(cmds) : cmds[k] \notin bad
      <4>1. \A k \in j + 1 .. Len(cmds) : k = 3
        BY <1>0, <3>2
      <4>2. cmds[3].op = "reset"
        BY <1>0, Fields
      <4>3. \A cmd \in bad : cmd.op # "reset"
        BY Fields DEF Fillers
      <4> QED
        BY <4>1, <4>2, <4>3
    <3> HIDE DEF ok, good, bad
    <3> QED
      BY <1>2, <3>1, <3>2, <3>3, <3>4, <1>0, SettledBy
  <2>2. PICK s \in Slot, t \in Slot : s = currentSlot' /\ t = 1 - currentSlot'
    BY <1>3, SlotFacts DEF TypeOK
  <2>3. Clear(s, Len(queue) + 1)' /\ Clear(t, Len(queue) + 1)'
    BY <2>1
  <2> QED
    BY <2>2, <2>3 DEF NextInv
<1>8. OrderInv'
  <2>1. \A i \in 1 .. Len(queue') : Number(i)' \in Nat /\ Number(i)' # None
    BY <1>2, <1>5 DEF HostInv, Number, None
  <2> QED
    BY <1>1, <1>2, <1>3, <2>1 DEF OrderInv
<1>9. DataInv'
  <2>1. ~PrevDone /\ ~NewDone /\ ~PrevDone' /\ ~NewDone'
    BY <1>1, <1>3 DEF PrevDone, NewDone
  <2> QED
    BY <1>1, <1>3, <2>1 DEF DataInv, Live
<1>10. DeliveredInOrder'
  BY <1>3 DEF DeliveredInOrder
<1> QED
  BY <1>4, <1>5, <1>6, <1>7, <1>8, <1>9, <1>10

LEMMA CalibrateInv == ASSUME IInv, Calibrate PROVE IInv'
<1> USE DEF IInv
<1>1. Calibrating
  BY DEF Calibrate, CalibrateFixed, CalibrateEnds, WarmUp, TimedDispatch, FastEnough,
         CloseEnough, TooSlow, ProbeTimesOut, Calibrating
<1>2. Best \in 0 .. Lengths /\ 0 \in 0 .. Lengths
  BY <1>1, CalibrationType, PipelineAssumption
<1>3. probe \in 1 .. Lengths + 1
  BY DEF TypeOK
<1>4. CASE CalibrateFixed
  BY <1>1, <1>2, <1>4, ReadyInv DEF CalibrateFixed
<1>5. CASE CalibrateEnds \/ TooSlow \/ ProbeTimesOut
  BY <1>1, <1>2, <1>5, ReadyInv DEF CalibrateEnds, TooSlow, ProbeTimesOut
<1>6. CASE CloseEnough
  <2>1. probe \in 0 .. Lengths
    BY <1>3, <1>6 DEF CloseEnough, HostInv
  <2> QED
    BY <1>1, <1>6, <2>1, ReadyInv DEF CloseEnough
<1>7. CASE WarmUp
  <2> DEFINE cmds == <<SetLength(probe), ResetDpCount(0), Calibration>>
  <2>1. probe \in 0 .. Lengths
    BY <1>3, <1>7 DEF WarmUp
  <2>2. /\ cmds \in Seq(Command)
        /\ \A j \in 1 .. Len(cmds) : j = 1 \/ j = 2 \/ j = 3
        /\ cmds[1] = SetLength(probe) /\ cmds[2] = ResetDpCount(0) /\ cmds[3] = Calibration
    BY <2>1, CommandTypes DEF Slot
  <2>3. Submit(cmds) /\ pc' = "warmup"
    BY <1>7 DEF WarmUp
  <2> HIDE DEF cmds
  <2>4. \A j \in 1 .. Len(cmds) : cmds[j].op \notin {"dispatch", "copyDps"}
    BY <2>2, Fields
  <2> QED
    BY <1>1, <1>7, <2>1, <2>2, <2>3, <2>4, ProbeInv DEF WarmUp, Calibrating
<1>8. CASE TimedDispatch
  <2> DEFINE cmds == <<ResetDpCount(0), Calibration>>
  <2>1. probe <= Lengths
    BY <1>8 DEF TimedDispatch, HostInv
  <2>2. /\ cmds \in Seq(Command)
        /\ \A j \in 1 .. Len(cmds) : j = 1 \/ j = 2
        /\ cmds[1] = ResetDpCount(0) /\ cmds[2] = Calibration
    BY CommandTypes DEF Slot
  <2>3. Submit(cmds) /\ pc' = "timed"
    BY <1>8 DEF TimedDispatch
  <2> HIDE DEF cmds
  <2>4. \A j \in 1 .. Len(cmds) : cmds[j].op \notin {"dispatch", "copyDps"}
    BY <2>2, Fields
  <2> QED
    BY <1>1, <1>8, <2>1, <2>2, <2>3, <2>4, ProbeInv DEF TimedDispatch, Calibrating
<1>9. CASE FastEnough
  <2>1. /\ UNCHANGED <<normalize, steps, gpuVars, queue, submitted, callVars>>
        /\ probe' = probe + 1 /\ pc' = "calibrate"
    BY <1>9 DEF FastEnough
  <2>2. probe' \in 1 .. Lengths + 1
    <3>1. probe <= Lengths
      BY <1>9 DEF FastEnough, HostInv
    <3> QED
      BY <1>3, <2>1, <3>1, PipelineAssumption
  <2>3. /\ Live /\ prevSub = None /\ newSub = None /\ ~flushing
        /\ pc \notin {"idle", "count", "payload", "done"}
        /\ \A i \in 1 .. Len(queue) : queue[i].op \notin {"dispatch", "copyDps"}
    BY <1>1, CalibrationQueue
  <2>4. TypeOK'
    BY <2>1, <2>2 DEF TypeOK, gpuVars, callVars
  <2>5. HostInv'
    BY <2>1, <2>3 DEF HostInv, Calibrating, gpuVars, callVars, Live
  <2>6. QueueInv' /\ NextInv'
    BY <2>1, <2>3 DEF QueueInv, NextInv, Calibrating
  <2>7. OrderInv' /\ DataInv'
    BY <2>1, <2>3 DEF OrderInv, DataInv, Live, callVars, gpuVars, Number, PrevDone, NewDone,
                      Executed, Holds, InSlot, ReadSlot
  <2>8. DeliveredInOrder'
    BY <2>1 DEF DeliveredInOrder, callVars
  <2> QED
    BY <2>4, <2>5, <2>6, <2>7, <2>8
<1> QED
  BY <1>4, <1>5, <1>6, <1>7, <1>8, <1>9 DEF Calibrate

-----------------------------------------------------------------------------
(* The calls of the caller: each submits one command that is not a length. *)

(* Whatever is behind the command finds the right length. *)
LEMMA SubmitQueue ==
  ASSUME IInv, ~Calibrating, ~Calibrating', NEW cmd \in Command, Submit(<<cmd>>),
         UNCHANGED <<gpuVars, steps>>, cmd.op # "config",
         cmd.op = "dispatch" => Clear(cmd.slot, Len(queue) + 1)
  PROVE  QueueInv'
<1> USE DEF IInv
<1>1. <<cmd>> \in Seq(Command) /\ Len(<<cmd>>) = 1 /\ <<cmd>>[1] = cmd
  BY OneCommand
<1>2. /\ Len(queue) \in Nat /\ Len(queue') = Len(queue) + 1
      /\ \A i \in 1 .. Len(queue) : queue'[i] = queue[i]
  BY <1>1, Submits
<1>3. queue'[Len(queue) + 1] = cmd
  <2>1. queue \in Seq(Command) /\ queue' = queue \o <<cmd>>
    BY DEF Submit, TypeOK
  <2>2. \A i \in 1 .. 1 : (queue \o <<cmd>>)[Len(queue) + i] = <<cmd>>[i]
    BY <1>1, <2>1, Enqueue
  <2> QED
    BY <1>1, <2>1, <2>2
<1>4. \A n \in 1 .. Len(queue) + 1 :
        /\ \A s \in Slot : Clear(s, n) => Clear(s, n)'
        /\ LengthSet(n) => LengthSet(n)'
  <2> SUFFICES ASSUME NEW n \in 1 .. Len(queue) + 1
               PROVE  /\ \A s \in Slot : Clear(s, n) => Clear(s, n)'
                      /\ LengthSet(n) => LengthSet(n)'
    OBVIOUS
  <2>1. steps' = steps
    OBVIOUS
  <2> QED
    BY <1>1, <2>1, SubmitKeeps
<1>5. LengthSet(Len(queue) + 1)
  BY DEF QueueInv
<1>6. LengthSet(Len(queue) + 1)'
  BY <1>5, SubmitBehind
<1>7. ASSUME NEW i \in 1 .. Len(queue'), queue'[i].op = "dispatch"
      PROVE  Clear(queue[i].slot, i)' /\ LengthSet(i)'
  <2>1. PICK cm \in Command, s \in Slot :
          /\ queue'[i] = cm /\ s = cm.slot
          /\ Clear(s, i) /\ LengthSet(i)
    <3>1. CASE i \in 1 .. Len(queue)
      <4>1. queue'[i] = queue[i] /\ queue[i] \in Command
        BY <1>2, <3>1, ElementOfSeq DEF TypeOK
      <4>2. Clear(queue[i].slot, i) /\ LengthSet(i)
        BY <1>7, <3>1, <4>1 DEF QueueInv
      <4> QED
        BY <1>7, <4>1, <4>2, Shapes
    <3>2. CASE i \notin 1 .. Len(queue)
      <4>1. i = Len(queue) + 1
        BY <1>2, <3>2
      <4> QED
        BY <1>3, <1>5, <1>7, <4>1, Shapes
    <3> QED
      BY <3>1, <3>2
  <2>2. i \in 1 .. Len(queue) + 1
    BY <1>2
  <2>3. Clear(s, i)' /\ LengthSet(i)'
    BY <1>4, <2>1, <2>2
  <2>4. s = queue[i].slot'
    BY <2>1
  <2> QED
    BY <2>3, <2>4
<1> QED
  BY <1>6, <1>7 DEF QueueInv

LEMMA SubmitLast ==
  ASSUME TypeOK, NEW cmd \in Command, Submit(<<cmd>>)
  PROVE  /\ queue' \in Seq(Command)
         /\ submitted \in Nat /\ submitted' = submitted + 1
         /\ Len(queue) \in Nat /\ Len(queue') = Len(queue) + 1
         /\ submitted' - Len(queue') = submitted - Len(queue)
         /\ \A i \in 1 .. Len(queue') :
              \/ /\ i \in 1 .. Len(queue) /\ queue'[i] = queue[i]
                 /\ Number(i)' = Number(i) /\ Number(i) <= submitted /\ Number(i) \in Int
              \/ i = Len(queue) + 1 /\ queue'[i] = cmd /\ Number(i)' = submitted + 1
<1>1. <<cmd>> \in Seq(Command) /\ Len(<<cmd>>) = 1 /\ <<cmd>>[1] = cmd
      /\ \A j : j \in 1 .. Len(<<cmd>>) <=> j = 1
  BY OneCommand
<1>2. /\ queue' \in Seq(Command)
      /\ submitted \in Nat /\ submitted' = submitted + 1
      /\ Len(queue) \in Nat /\ Len(queue') = Len(queue) + 1
      /\ submitted' - Len(queue') = submitted - Len(queue)
  BY <1>1, Submits
<1>3. \A i \in 1 .. Len(queue') :
        \/ i \in 1 .. Len(queue) /\ queue'[i] = queue[i]
        \/ \E j \in 1 .. Len(<<cmd>>) : i = Len(queue) + j /\ queue'[i] = <<cmd>>[j]
  BY <1>1, Submits
<1>4. \A i \in 1 .. Len(queue') :
        \/ i \in 1 .. Len(queue) /\ queue'[i] = queue[i]
        \/ i = Len(queue) + 1 /\ queue'[i] = cmd
  BY <1>1, <1>3
<1>5. ASSUME NEW i \in 1 .. Len(queue')
      PROVE /\ Number(i)' = Number(i) /\ Number(i) \in Int
            /\ i \in 1 .. Len(queue) => Number(i) <= submitted
            /\ i = Len(queue) + 1 => Number(i) = submitted + 1
  BY <1>2 DEF Number
<1> QED
  BY <1>2, <1>4, <1>5

(* A command executes after those submitted before it. *)
LEMMA Numbers ==
  ASSUME TypeOK, HostInv, NEW i \in 1 .. Len(queue)
  PROVE  Number(i) \in Nat \ {0} /\ Number(i) > submitted - Len(queue)
<1>1. submitted \in Nat /\ Len(queue) \in Nat /\ Len(queue) <= submitted
  BY DEF TypeOK, HostInv
<1> QED
  BY <1>1 DEF Number

LEMMA StepCollectInv == ASSUME IInv, StepCollect PROVE IInv'
<1> USE DEF IInv
<1>0. PICK c \in Slot, r \in Slot : c = currentSlot /\ r = 1 - currentSlot
  BY SlotFacts DEF TypeOK
<1>1. /\ pc = "idle" /\ failed = "no" /\ ~flushing /\ newSub = None /\ Live
      /\ dispatches' = dispatches + 1 /\ dispatches < MaxDispatch
      /\ Submit(<<Dispatch(c)>>)
      /\ UNCHANGED <<normalize, steps, probe, config, dpCount, dpBuffer, staged, stored,
                     flushing, failed, delivered>>
  BY <1>0 DEF StepCollect, HostInv, Live, calibrationVars, gpuVars
<1>2. \/ /\ prevSub = None /\ prevSub' = submitted + 1 /\ newSub' = None
         /\ pc' = "idle" /\ currentSlot' = r
      \/ /\ prevSub # None /\ prevSub' = prevSub /\ newSub' = submitted + 1
         /\ pc' = "count" /\ currentSlot' = c
  BY <1>0, <1>1 DEF StepCollect
<1>3. Dispatch(c) \in Command /\ Dispatch(c).op = "dispatch" /\ Dispatch(c).slot = c
  BY CommandTypes, Fields
<1>4. /\ queue' \in Seq(Command)
      /\ submitted \in Nat /\ submitted' = submitted + 1
      /\ Len(queue) \in Nat /\ Len(queue') = Len(queue) + 1
      /\ submitted' - Len(queue') = submitted - Len(queue)
  BY <1>1, <1>3, SubmitLast
<1>5. \A i \in 1 .. Len(queue') :
        \/ /\ i \in 1 .. Len(queue) /\ queue'[i] = queue[i]
           /\ Number(i)' = Number(i) /\ Number(i) <= submitted /\ Number(i) \in Nat \ {0}
        \/ i = Len(queue) + 1 /\ queue'[i] = Dispatch(c) /\ Number(i)' = submitted + 1
  BY <1>1, <1>3, SubmitLast, Numbers
<1>6. r # c /\ 1 - r = c /\ 1 - c = r
  BY <1>0, SlotFacts
<1>7. TypeOK'
  <2>1. dispatches' \in 0 .. MaxDispatch
    BY <1>1, PipelineAssumption DEF TypeOK
  <2>2. prevSub' \in Nat /\ newSub' \in Nat /\ currentSlot' \in Slot /\ submitted' \in Nat
    BY <1>2, <1>4, SMTT(30) DEF TypeOK, None
  <2>3. pc' \in {"idle", "count"}
    BY <1>2
  <2> QED
    BY <1>1, <1>4, <2>1, <2>2, <2>3 DEF TypeOK
<1>8. HostInv'
  <2>1. prevSub \in Nat /\ prevSub <= submitted /\ Len(queue) <= submitted
    BY DEF TypeOK, HostInv
  <2> QED
    BY <1>1, <1>2, <1>4, <2>1 DEF HostInv, Calibrating, None
<1>9. QueueInv'
  <2>1. ~Calibrating /\ ~Calibrating'
    BY <1>1, <1>2 DEF Calibrating
  <2>2. Clear(c, Len(queue) + 1)
    BY <1>0, <1>1 DEF NextInv
  <2>3. UNCHANGED <<gpuVars, steps>>
    BY <1>1 DEF gpuVars
  <2> QED
    BY <1>1, <1>3, <2>1, <2>2, <2>3, SubmitQueue
<1>10. NextInv'
  <2> SUFFICES ASSUME prevSub = None, prevSub' = submitted + 1, currentSlot' = r
               PROVE  NextInv'
    BY <1>2 DEF NextInv
  <2>1. Clear(r, Len(queue) + 1)
    BY <1>0, <1>1 DEF NextInv
  <2>2. Dispatch(c) \notin Fillers(r)
    <3>1. \A cmd \in Fillers(r) : cmd = Dispatch(r) \/ cmd = Calibration
      BY DEF Fillers
    <3>2. Dispatch(c) # Dispatch(r)
      <4>1. Dispatch(c).slot # Dispatch(r).slot
        BY <1>6 DEF Dispatch
      <4> QED
        BY <4>1
    <3>3. Dispatch(c) # Calibration
      <4>1. Dispatch(c).op # Calibration.op
        BY DEF Dispatch, Calibration
      <4> QED
        BY <4>1
    <3> QED
      BY <3>1, <3>2, <3>3
  <2>3. UNCHANGED <<gpuVars, steps>>
    BY <1>1 DEF gpuVars
  <2>4. Clear(r, Len(queue) + 1)'
    BY <1>1, <1>3, <2>1, <2>2, <2>3, SubmitBehind
  <2>5. prevSub' # None
    BY <1>4 DEF None
  <2> QED
    BY <2>4, <2>5 DEF NextInv
<1>11. ReadSlot = r /\ (prevSub = None => ReadSlot' = c) /\ (prevSub # None => ReadSlot' = r)
  BY <1>0, <1>2, <1>6 DEF ReadSlot
<1>12. OrderInv'
  <2>1. \A i \in 1 .. Len(queue) :
          /\ queue[i].op = "dispatch" => Number(i) \in {prevSub, newSub}
          /\ Number(i) = prevSub => queue[i] = Dispatch(r)
          /\ queue[i].op # "copyDps"
          /\ prevSub # None /\ Number(i) > prevSub =>
               queue[i].op \notin {"calibration", "config"}
          /\ prevSub # None /\ Number(i) > prevSub /\ queue[i].op = "reset" =>
               queue[i].slot = c
    BY <1>0, <1>1, <1>11 DEF OrderInv
  <2>2. prevSub \in Nat /\ prevSub <= submitted
    BY DEF TypeOK, HostInv
  <2>3. ASSUME prevSub = None PROVE OrderInv'
    <3>1. prevSub' = submitted + 1 /\ newSub' = None /\ ReadSlot' = c
      BY <1>2, <1>11, <2>3
    <3> SUFFICES ASSUME NEW i \in 1 .. Len(queue')
        PROVE  /\ queue'[i].op = "dispatch" => Number(i)' = prevSub'
               /\ Number(i)' = prevSub' => queue'[i] = Dispatch(c)
               /\ Number(i)' # None
               /\ queue'[i].op # "copyDps"
               /\ ~(Number(i)' > prevSub')
      BY <3>1 DEF OrderInv
    <3> QED
      BY <1>1, <1>3, <1>4, <1>5, <2>1, <2>3, <3>1 DEF None
  <2>4. ASSUME prevSub # None PROVE OrderInv'
    <3>1. prevSub' = prevSub /\ newSub' = submitted + 1 /\ ReadSlot' = r /\ currentSlot' = c
      BY <1>2, <1>11, <2>4
    <3> SUFFICES ASSUME NEW i \in 1 .. Len(queue')
        PROVE  /\ queue'[i].op = "dispatch" => Number(i)' \in {prevSub, newSub'}
               /\ Number(i)' = prevSub => queue'[i] = Dispatch(r)
               /\ Number(i)' = newSub' => queue'[i] = Dispatch(c)
               /\ queue'[i].op # "copyDps"
               /\ Number(i)' > prevSub =>
                    /\ queue'[i].op \notin {"calibration", "config"}
                    /\ queue'[i].op = "reset" => queue'[i].slot = c
               /\ ~(Number(i)' > newSub')
      BY <3>1 DEF OrderInv
    <3>2. CASE i \in 1 .. Len(queue)
      <4>1. /\ queue'[i] = queue[i] /\ Number(i)' = Number(i)
            /\ Number(i) <= submitted /\ Number(i) \in Nat \ {0}
        BY <1>4, <1>5, <3>2
      <4>2. Number(i) # newSub'
        BY <1>4, <3>1, <4>1
      <4> QED
        BY <1>1, <1>4, <2>1, <2>4, <3>1, <3>2, <4>1, <4>2 DEF None
    <3>3. CASE i \notin 1 .. Len(queue)
      <4>1. queue'[i] = Dispatch(c) /\ Number(i)' = submitted + 1
        BY <1>5, <3>3
      <4> QED
        BY <1>3, <1>4, <2>2, <3>1, <4>1
    <3> QED
      BY <3>2, <3>3
  <2> QED
    BY <2>3, <2>4
<1>13. DataInv'
  <2>1. ~NewDone /\ ~NewDone'
    BY <1>1, <1>2, <1>4 DEF NewDone, Executed
  <2>2. /\ PrevDone => Holds(r, Len(delivered)) /\ staged[r] = <<dpCount[r]>>
        /\ stored = Len(delivered) + (IF PrevDone THEN InSlot(r) ELSE 0)
    BY <1>1, <1>11, <2>1, InSlotType, SMTT(30) DEF DataInv, TypeOK
  <2>3. ASSUME prevSub = None PROVE DataInv'
    <3>1. ~PrevDone /\ ~PrevDone'
      BY <1>2, <1>4, <2>3 DEF PrevDone, Executed
    <3>2. stored' = Len(delivered)' /\ pc' = "idle" /\ Len(delivered)' \in Nat
      BY <1>1, <1>2, <2>2, <2>3, <3>1 DEF TypeOK
    <3> QED
      BY <2>1, <3>1, <3>2 DEF DataInv
  <2>4. ASSUME prevSub # None PROVE DataInv'
    <3>1. PrevDone' <=> PrevDone
      BY <1>2, <1>4, <2>4 DEF PrevDone, Executed
    <3>2. /\ InSlot(r)' = InSlot(r) /\ InSlot(r)' \in Nat
          /\ Holds(r, Len(delivered))' <=> Holds(r, Len(delivered))
      BY <1>1, InSlotType DEF InSlot, Holds
    <3>3. stored' = Len(delivered)' + (IF PrevDone' THEN InSlot(r)' ELSE 0)
      BY <1>1, <2>2, <3>1, <3>2
    <3>4. stored' = Len(delivered)' + (IF PrevDone' THEN InSlot(r)' ELSE 0) + 0
      BY <1>1, <3>2, <3>3 DEF TypeOK
    <3>5. r = ReadSlot' /\ pc' # "payload"
      BY <1>2, <1>11, <2>4
    <3>6. PrevDone' => Holds(ReadSlot, Len(delivered))' /\ staged'[r] = <<dpCount'[r]>>
      BY <1>1, <2>2, <3>1, <3>2, <3>5 DEF Holds
    <3> QED
      BY <2>1, <3>4, <3>5, <3>6 DEF DataInv
  <2> QED
    BY <2>3, <2>4
<1>14. DeliveredInOrder'
  BY <1>1 DEF DeliveredInOrder
<1> QED
  BY <1>7, <1>8, <1>9, <1>10, <1>12, <1>13, <1>14

(* The host that waits for the submission it read the counter of. *)
LEMMA Waiting ==
  ASSUME IInv, pc \in {"count", "payload"}
  PROVE  /\ Live /\ failed = "no" /\ prevSub # None /\ ~Calibrating
         /\ flushing => newSub = None
         /\ ~flushing => newSub # None
  BY DEF IInv, HostInv, Live, Calibrating

(* The readback ends: what it returns are the next candidates. *)
LEMMA ReturnInv ==
  ASSUME IInv, pc \in {"count", "payload"}, PrevDone,
         \A i \in 1 .. Len(queue) : queue[i].op # "copyDps",
         NEW dps \in Seq(Nat), Len(dps) = InSlot(ReadSlot),
         \A i \in 1 .. Len(dps) : dps[i] = Len(delivered) + i,
         Submit(<<ResetDpCount(ReadSlot)>>), Return(dps),
         UNCHANGED <<normalize, calibrationVars, gpuVars>>
  PROVE  IInv'
<1> USE DEF IInv
<1>0. PICK c \in Slot, r \in Slot, D \in Nat, n \in Nat :
        c = currentSlot /\ r = ReadSlot /\ D = Len(delivered) /\ n = InSlot(ReadSlot)
  <2>1. ReadSlot \in Slot
    BY SlotFacts DEF TypeOK, ReadSlot
  <2>2. InSlot(ReadSlot) \in Nat /\ Len(delivered) \in Nat
    BY <2>1, InSlotType DEF TypeOK
  <2> QED
    BY <2>1, <2>2 DEF TypeOK
<1>1. /\ r # c /\ 1 - r = c /\ 1 - c = r
  BY <1>0, SlotFacts DEF ReadSlot
<1>2. /\ Live /\ failed = "no" /\ prevSub # None /\ ~Calibrating
      /\ flushing => newSub = None
      /\ ~flushing => newSub # None
  BY Waiting
<1>3. /\ UNCHANGED <<normalize, steps, probe, config, dpCount, dpBuffer, staged, stored,
                     dispatches, flushing, failed>>
      /\ delivered' = delivered \o dps
      /\ \/ /\ flushing /\ pc' = "done"
            /\ UNCHANGED <<prevSub, newSub, currentSlot>>
         \/ /\ ~flushing /\ pc' = "idle" /\ prevSub' = newSub /\ newSub' = None
            /\ currentSlot' = r
  BY <1>0, <1>1 DEF Return, calibrationVars, gpuVars
<1>4. /\ ResetDpCount(r) \in Command
      /\ ResetDpCount(r).op = "reset" /\ ResetDpCount(r).slot = r
      /\ Submit(<<ResetDpCount(r)>>)
  BY <1>0, CommandTypes, Fields
<1>5. /\ queue' \in Seq(Command)
      /\ submitted \in Nat /\ submitted' = submitted + 1
      /\ Len(queue) \in Nat /\ Len(queue') = Len(queue) + 1
      /\ submitted' - Len(queue') = submitted - Len(queue)
  BY <1>4, SubmitLast
<1>6. \A i \in 1 .. Len(queue') :
        \/ /\ i \in 1 .. Len(queue) /\ queue'[i] = queue[i]
           /\ Number(i)' = Number(i) /\ Number(i) \in Nat \ {0}
           /\ Number(i) > submitted - Len(queue)
        \/ i = Len(queue) + 1 /\ queue'[i] = ResetDpCount(r) /\ Number(i)' = submitted + 1
  BY <1>4, SubmitLast, Numbers
<1>7. prevSub \in Nat /\ newSub \in Nat /\ prevSub <= submitted /\ newSub <= submitted
  BY DEF TypeOK, HostInv
<1>8. /\ delivered' \in Seq(Nat)
      /\ Len(delivered') = D + n
      /\ \A i \in 1 .. D + n : delivered'[i] = i
  <2>1. delivered \in Seq(Nat) /\ Len(dps) = n
    BY <1>0 DEF TypeOK
  <2>2. /\ delivered \o dps \in Seq(Nat) /\ Len(delivered \o dps) = D + n
        /\ \A i \in 1 .. D + n : (delivered \o dps)[i] = IF i <= D THEN delivered[i] ELSE dps[i - D]
    <3>1. /\ delivered \o dps \in Seq(Nat)
          /\ Len(delivered \o dps) = Len(delivered) + Len(dps)
          /\ \A i \in 1 .. Len(delivered) + Len(dps) : (delivered \o dps)[i] =
               IF i <= Len(delivered) THEN delivered[i] ELSE dps[i - Len(delivered)]
      BY <2>1, ConcatProperties
    <3> QED
      BY <1>0, <2>1, <3>1
  <2>3. \A i \in 1 .. D : delivered[i] = i
    BY <1>0 DEF DeliveredInOrder
  <2>4. ASSUME NEW i \in 1 .. D + n PROVE (delivered \o dps)[i] = i
    <3>1. CASE i <= D
      BY <2>2, <2>3, <3>1
    <3>2. CASE ~(i <= D)
      <4>1. i - D \in 1 .. Len(dps) /\ D + (i - D) = i
        BY <2>1, <3>2
      <4> QED
        BY <1>0, <2>2, <3>2, <4>1
    <3> QED
      BY <3>1, <3>2
  <2> QED
    BY <1>3, <2>2, <2>4
<1>9. DeliveredInOrder'
  <2>1. delivered' = [i \in 1 .. Len(delivered') |-> delivered'[i]]
    BY <1>8
  <2> QED
    BY <1>8, <2>1 DEF DeliveredInOrder
<1>10. TypeOK'
  <2>1. prevSub' \in Nat /\ newSub' \in Nat /\ currentSlot' \in Slot /\ submitted' \in Nat
    <3>1. 0 \in Nat /\ currentSlot \in Slot /\ submitted' \in Nat
      BY <1>5, SMTT(30) DEF TypeOK
    <3>2. CASE flushing
      BY <1>3, <1>7, <3>1, <3>2
    <3>3. CASE ~flushing
      BY <1>3, <1>7, <3>1, <3>3 DEF None
    <3> QED
      BY <3>2, <3>3
  <2>2. pc' \in {"idle", "done"}
    BY <1>3
  <2> QED
    BY <1>3, <1>5, <1>8, <2>1, <2>2 DEF TypeOK
<1>11. HostInv'
  <2>1. Len(queue) <= submitted
    BY DEF HostInv
  <2>2. Len(queue') <= submitted' /\ prevSub <= submitted' /\ newSub <= submitted'
        /\ 0 <= submitted'
    BY <1>5, <1>7, <2>1
  <2>3. CASE flushing
    <3>1. pc' = "done" /\ prevSub' = prevSub /\ newSub' = None /\ newSub = None /\ failed' = "no"
      BY <1>2, <1>3, <2>3
    <3> QED
      BY <2>2, <3>1 DEF HostInv, Calibrating, None
  <2>4. CASE ~flushing
    <3>1. pc' = "idle" /\ prevSub' = newSub /\ newSub' = None /\ failed' = "no" /\ ~flushing'
      BY <1>2, <1>3, <2>4
    <3> QED
      BY <2>2, <3>1 DEF HostInv, Calibrating, None
  <2> QED
    BY <2>3, <2>4
<1>12. QueueInv'
  <2>1. ~Calibrating' /\ UNCHANGED <<gpuVars, steps>>
    BY <1>3 DEF Calibrating, gpuVars
  <2> QED
    BY <1>2, <1>4, <2>1, SubmitQueue
<1>13. NextInv'
  <2>1. Clear(r, Len(queue) + 1)'
    BY <1>4, SubmitReset
  <2>2. pc' = "idle" => r = currentSlot' /\ prevSub' # None
    BY <1>2, <1>3
  <2> QED
    BY <2>1, <2>2 DEF NextInv
<1>14. OrderInv'
  <2> SUFFICES ASSUME ~flushing PROVE OrderInv'
    BY <1>3 DEF OrderInv, Live
  <2>1. prevSub' = newSub /\ newSub' = None /\ ReadSlot' = c /\ currentSlot' = r
    BY <1>1, <1>3 DEF ReadSlot
  <2>2. ASSUME NEW i \in 1 .. Len(queue)
        PROVE  /\ Number(i) # prevSub
               /\ queue[i].op = "dispatch" => Number(i) = newSub
               /\ Number(i) = newSub => queue[i] = Dispatch(c)
               /\ ~(Number(i) > newSub)
    <3>1. Number(i) > submitted - Len(queue)
      BY Numbers
    <3>2. prevSub <= submitted - Len(queue)
      BY DEF PrevDone, Executed
    <3>3. Number(i) # prevSub
      BY <1>5, <1>7, <3>1, <3>2 DEF Number
    <3> QED
      BY <1>0, <1>2, <3>3 DEF OrderInv
  <2> SUFFICES ASSUME NEW i \in 1 .. Len(queue')
      PROVE  /\ queue'[i].op = "dispatch" => Number(i)' = newSub
             /\ Number(i)' = newSub => queue'[i] = Dispatch(c)
             /\ Number(i)' # None
             /\ queue'[i].op # "copyDps"
             /\ Number(i)' > newSub =>
                  /\ queue'[i].op \notin {"calibration", "config"}
                  /\ queue'[i].op = "reset" => queue'[i].slot = r
    BY <2>1 DEF OrderInv
  <2>3. CASE i \in 1 .. Len(queue)
    <3>1. /\ queue'[i] = queue[i] /\ Number(i)' = Number(i) /\ Number(i) \in Nat \ {0}
      BY <1>5, <1>6, <2>3
    <3> QED
      BY <2>2, <2>3, <3>1 DEF None
  <2>4. CASE i \notin 1 .. Len(queue)
    <3>1. queue'[i] = ResetDpCount(r) /\ Number(i)' = submitted + 1
      BY <1>6, <2>4
    <3> QED
      BY <1>4, <1>5, <1>7, <3>1 DEF None
  <2> QED
    BY <2>3, <2>4
<1>15. DataInv'
  <2> SUFFICES ASSUME ~flushing PROVE DataInv'
    BY <1>3 DEF DataInv, Live
  <2>1. c = ReadSlot' /\ pc' = "idle" /\ ~NewDone' /\ (PrevDone' <=> NewDone)
    BY <1>1, <1>2, <1>3, <1>5 DEF ReadSlot, NewDone, PrevDone, Executed
  <2>2. /\ NewDone => Holds(c, D + n) /\ staged[c] = <<dpCount[c]>>
        /\ stored = D + n + (IF NewDone THEN InSlot(c) ELSE 0)
    BY <1>0, <1>2 DEF DataInv
  <2>3. /\ InSlot(c)' = InSlot(c) /\ InSlot(c) \in Nat
        /\ Holds(c, D + n)' <=> Holds(c, D + n)
    BY <1>3, InSlotType DEF InSlot, Holds
  <2>4. stored' = Len(delivered)' + (IF PrevDone' THEN InSlot(c)' ELSE 0) + 0
    BY <1>3, <1>8, <2>1, <2>2, <2>3
  <2>5. PrevDone' => Holds(ReadSlot, Len(delivered))' /\ staged'[c] = <<dpCount'[c]>>
    BY <1>3, <1>8, <2>1, <2>2, <2>3 DEF Holds
  <2> QED
    BY <2>1, <2>4, <2>5 DEF DataInv
<1> QED
  BY <1>9, <1>10, <1>11, <1>12, <1>13, <1>14, <1>15

LEMMA ReadCountInv == ASSUME IInv, ReadCount PROVE IInv'
<1> USE DEF IInv
<1>0. PICK c \in Slot, r \in Slot : c = currentSlot /\ r = ReadSlot
  BY SlotFacts DEF TypeOK, ReadSlot
<1>1. /\ Live /\ failed = "no" /\ prevSub # None /\ ~Calibrating
      /\ flushing => newSub = None
      /\ ~flushing => newSub # None
      /\ pc = "count" /\ PrevDone
  BY Waiting DEF ReadCount, PrevDone
<1>2. staged[r] = <<dpCount[r]>> /\ staged[r][1] = dpCount[r] /\ dpCount[r] \in Nat
  BY <1>0, <1>1 DEF DataInv, TypeOK
<1>3. \A i \in 1 .. Len(queue) : queue[i].op # "copyDps"
  BY <1>1 DEF OrderInv
<1>4. Clamped(dpCount[r]) = InSlot(r) /\ InSlot(r) \in 0 .. BufferSize
  BY InSlotType DEF Clamped, InSlot
<1>5. UNCHANGED <<normalize, calibrationVars, gpuVars>>
  BY DEF ReadCount
<1>6. CASE dpCount[r] = 0
  <2>1. Submit(<<ResetDpCount(r)>>) /\ Return(<< >>)
    BY <1>0, <1>2, <1>6 DEF ReadCount
  <2>2. InSlot(r) = 0
    BY <1>6, PipelineAssumption, LeastFacts DEF InSlot
  <2>3. << >> \in Seq(Nat) /\ Len(<< >>) = 0
    OBVIOUS
  <2> QED
    <3> DEFINE dps == << >>
    <3>1. /\ pc \in {"count", "payload"} /\ dps \in Seq(Nat) /\ Len(dps) = InSlot(ReadSlot)
          /\ \A i \in 1 .. Len(dps) : dps[i] = Len(delivered) + i
      BY <1>0, <1>1, <2>2, <2>3
    <3>2. Submit(<<ResetDpCount(ReadSlot)>>) /\ Return(dps)
      BY <1>0, <2>1
    <3> HIDE DEF dps
    <3> QED
      BY <1>1, <1>3, <1>5, <3>1, <3>2, ReturnInv
<1>7. CASE dpCount[r] # 0
  <2>1. Submit(<<CopyDps(r, InSlot(r))>>) /\ pc' = "payload" /\ UNCHANGED callVars
    BY <1>0, <1>2, <1>4, <1>7 DEF ReadCount
  <2>2. PICK n \in 0 .. BufferSize : n = InSlot(r)
    BY <1>4
  <2>3. /\ CopyDps(r, n) \in Command /\ CopyDps(r, n).op = "copyDps"
        /\ Submit(<<CopyDps(r, n)>>)
    BY <2>1, <2>2, CommandTypes, Fields
  <2>4. UNCHANGED <<normalize, steps, probe, config, dpCount, dpBuffer, staged, stored,
                    dispatches, currentSlot, prevSub, newSub, flushing, failed, delivered>>
    BY <1>5, <2>1 DEF calibrationVars, gpuVars, callVars
  <2>5. /\ queue' \in Seq(Command)
        /\ submitted \in Nat /\ submitted' = submitted + 1
        /\ Len(queue) \in Nat /\ Len(queue') = Len(queue) + 1
        /\ submitted' - Len(queue') = submitted - Len(queue)
    BY <2>3, SubmitLast
  <2>6. \A i \in 1 .. Len(queue') :
          \/ i \in 1 .. Len(queue) /\ queue'[i] = queue[i] /\ Number(i)' = Number(i)
          \/ i = Len(queue) + 1 /\ queue'[i] = CopyDps(r, n) /\ Number(i)' = submitted + 1
    BY <2>3, SubmitLast
  <2>7. prevSub \in Nat /\ newSub \in Nat /\ prevSub <= submitted /\ newSub <= submitted
    BY DEF TypeOK, HostInv
  <2>8. TypeOK'
    BY <2>1, <2>4, <2>5 DEF TypeOK
  <2>9. HostInv'
    <3>1. Len(queue) <= submitted
      BY DEF HostInv
    <3>2. Executed(prevSub)'
      BY <1>1, <2>4, <2>5 DEF PrevDone, Executed
    <3> QED
      BY <1>1, <2>1, <2>4, <2>5, <2>7, <3>1, <3>2 DEF HostInv, Calibrating
  <2>10. QueueInv'
    <3>1. ~Calibrating' /\ UNCHANGED <<gpuVars, steps>>
      BY <2>1, <2>4 DEF Calibrating, gpuVars
    <3> QED
      BY <1>1, <2>3, <3>1, SubmitQueue
  <2>11. NextInv'
    BY <2>1 DEF NextInv
  <2>12. OrderInv'
    <3>1. /\ prevSub' = prevSub /\ newSub' = newSub /\ ReadSlot' = r /\ currentSlot' = c
          /\ pc' = "payload"
      BY <1>0, <2>1, <2>4 DEF ReadSlot
    <3> SUFFICES ASSUME NEW i \in 1 .. Len(queue')
        PROVE  /\ queue'[i].op = "dispatch" => Number(i)' \in {prevSub, newSub}
               /\ Number(i)' = prevSub => queue'[i] = Dispatch(r)
               /\ Number(i)' = newSub => queue'[i] = Dispatch(c)
               /\ queue'[i].op = "copyDps" => i = Len(queue')
               /\ Number(i)' > prevSub =>
                    /\ queue'[i].op \notin {"calibration", "config"}
                    /\ queue'[i].op = "reset" => queue'[i].slot = c
               /\ newSub # None /\ Number(i)' > newSub => queue'[i].op = "copyDps"
      BY <3>1 DEF OrderInv
    <3>2. CASE i \in 1 .. Len(queue)
      <4>1. queue'[i] = queue[i] /\ Number(i)' = Number(i)
        BY <2>5, <2>6, <3>2
      <4> QED
        BY <1>0, <1>1, <1>3, <3>2, <4>1 DEF OrderInv
    <3>3. CASE i \notin 1 .. Len(queue)
      <4>1. i = Len(queue) + 1 /\ queue'[i] = CopyDps(r, n) /\ Number(i)' = submitted + 1
        BY <2>6, <3>3
      <4> QED
        BY <2>3, <2>5, <2>7, <4>1
    <3> QED
      BY <3>2, <3>3
  <2>13. DataInv'
    <3>1. ReadSlot' = r /\ currentSlot' = c /\ pc' = "payload"
      BY <1>0, <2>1, <2>4 DEF ReadSlot
    <3>2. (PrevDone' <=> PrevDone) /\ (NewDone' <=> NewDone)
      BY <2>4, <2>5 DEF PrevDone, NewDone, Executed
    <3>3. InSlot(r)' = InSlot(r) /\ InSlot(c)' = InSlot(c)
      BY <2>4 DEF InSlot
    <3>4. /\ Holds(r, Len(delivered))
          /\ NewDone => Holds(c, Len(delivered) + InSlot(r)) /\ staged[c] = <<dpCount[c]>>
          /\ stored = Len(delivered) + InSlot(r) + (IF NewDone THEN InSlot(c) ELSE 0)
      BY <1>0, <1>1 DEF DataInv
    <3>5. /\ Holds(r, Len(delivered))'
          /\ NewDone' => Holds(c, Len(delivered) + InSlot(r))' /\ staged'[c] = <<dpCount'[c]>>
          /\ stored' = Len(delivered)' + InSlot(r)' + (IF NewDone' THEN InSlot(c)' ELSE 0)
      BY <2>4, <3>2, <3>3, <3>4 DEF Holds
    <3>6. queue' # << >> /\ queue'[Len(queue')] = CopyDps(r, InSlot(r)')
      <4>1. Len(queue') \in 1 .. Len(queue') /\ Len(queue') \notin 1 .. Len(queue)
        BY <2>5
      <4> QED
        BY <2>2, <2>5, <2>6, <3>3, <4>1, EmptySeq
    <3> QED
      BY <1>1, <3>1, <3>2, <3>5, <3>6 DEF DataInv
  <2>14. DeliveredInOrder'
    BY <2>4 DEF DeliveredInOrder
  <2> QED
    BY <2>8, <2>9, <2>10, <2>11, <2>12, <2>13, <2>14
<1> QED
  BY <1>6, <1>7

LEMMA ReadPayloadInv == ASSUME IInv, ReadPayload PROVE IInv'
<1> USE DEF IInv
<1>0. PICK r \in Slot : r = ReadSlot
  BY SlotFacts DEF TypeOK, ReadSlot
<1>1. /\ Live /\ failed = "no" /\ prevSub # None
      /\ pc = "payload" /\ PrevDone /\ queue = << >> /\ Len(queue) = 0
  BY Waiting DEF ReadPayload, PrevDone, HostInv
<1>2. /\ staged[r] = SubSeq(dpBuffer[r], 1, InSlot(r))
      /\ Holds(r, Len(delivered))
  BY <1>0, <1>1 DEF DataInv
<1>3. PICK n \in 0 .. BufferSize : n = InSlot(r)
  BY InSlotType
<1>4. /\ staged[r] \in Seq(Nat) /\ Len(staged[r]) = n
      /\ \A i \in 1 .. n : staged[r][i] = dpBuffer[r][i]
  <2>1. n \in Nat /\ \A i \in 1 .. n : i \in 1 .. BufferSize /\ dpBuffer[r][i] \in Nat
    BY PipelineAssumption DEF TypeOK
  <2>2. SubSeq(dpBuffer[r], 1, n) = [i \in 1 .. n |-> dpBuffer[r][i]]
    <3>1. (n - 1) + 1 = n /\ \A i \in 1 .. n : (i + 1) - 1 = i
      BY <2>1
    <3> QED
      BY <2>1, <3>1, SubSeqProperties
  <2> QED
    BY <1>2, <1>3, <2>1, <2>2
<1>5. \A i \in 1 .. n : staged[r][i] = Len(delivered) + i
  BY <1>2, <1>3, <1>4 DEF Holds
<1>6. /\ Submit(<<ResetDpCount(r)>>) /\ Return(staged[r])
      /\ UNCHANGED <<normalize, calibrationVars, gpuVars>>
  BY <1>0 DEF ReadPayload
<1>7. \A i \in 1 .. Len(queue) : queue[i].op # "copyDps"
  BY <1>1
<1> QED
  BY <1>0, <1>1, <1>3, <1>4, <1>5, <1>6, <1>7, ReturnInv

(* A readback that fails: the call forgets both submissions, the host stops stepping. *)
LEMMA ReadFailsInv == ASSUME IInv, ReadFails PROVE IInv'
<1> USE DEF IInv
<1>1. /\ Live /\ ~Calibrating
      /\ pc \in {"count", "payload"}
  BY Waiting DEF ReadFails
<1>2. /\ failed' \in {"step", "flush"} /\ prevSub' = None /\ newSub' = None
      /\ pc' = (IF flushing THEN "done" ELSE "idle")
      /\ UNCHANGED <<normalize, steps, probe, config, dpCount, dpBuffer, staged, stored, queue,
                     submitted, dispatches, currentSlot, flushing, delivered>>
  BY DEF ReadFails, calibrationVars, gpuVars
<1>3. TypeOK'
  BY <1>2 DEF TypeOK, None
<1>4. HostInv'
  <2>1. submitted \in Nat /\ Len(queue) <= submitted
    BY DEF HostInv, TypeOK
  <2> QED
    BY <1>2, <2>1 DEF HostInv, Calibrating, None
<1>5. QueueInv'
  <2>1. ~Calibrating'
    BY <1>2 DEF Calibrating
  <2> QED
    BY <1>1, <1>2, <2>1 DEF QueueInv, Clear, LengthSet
<1>6. NextInv' /\ OrderInv' /\ DataInv'
  BY <1>2 DEF NextInv, OrderInv, DataInv, Live
<1>7. DeliveredInOrder'
  BY <1>2 DEF DeliveredInOrder
<1> QED
  BY <1>3, <1>4, <1>5, <1>6, <1>7

LEMMA FlushPendingInv == ASSUME IInv, FlushPending PROVE IInv'
<1> USE DEF IInv
<1>1. /\ pc = "idle" /\ flushing' = TRUE /\ newSub = None
      /\ pc' = (IF prevSub = None THEN "done" ELSE "count")
      /\ UNCHANGED <<normalize, steps, probe, config, dpCount, dpBuffer, staged, stored, queue,
                     submitted, dispatches, currentSlot, prevSub, newSub, failed, delivered>>
  BY DEF FlushPending, HostInv, calibrationVars, gpuVars
<1>2. TypeOK'
  BY <1>1 DEF TypeOK
<1>3. HostInv'
  BY <1>1 DEF HostInv, Calibrating
<1>4. QueueInv'
  <2>1. ~Calibrating /\ ~Calibrating'
    BY <1>1 DEF Calibrating
  <2> QED
    BY <1>1, <2>1 DEF QueueInv, Clear, LengthSet
<1>5. NextInv'
  BY <1>1 DEF NextInv
<1>6. OrderInv' /\ DataInv'
  <2> SUFFICES ASSUME prevSub # None PROVE OrderInv' /\ DataInv'
    BY <1>1 DEF OrderInv, DataInv, Live
  <2>1. Live' <=> Live
    BY <1>1 DEF Live
  <2>2. ReadSlot' = ReadSlot /\ \A i : Number(i)' = Number(i)
    BY <1>1 DEF ReadSlot, Number
  <2>3. OrderInv'
    BY <1>1, <2>1, <2>2 DEF OrderInv
  <2>4. (PrevDone' <=> PrevDone) /\ (NewDone' <=> NewDone)
    BY <1>1 DEF PrevDone, NewDone, Executed
  <2>5. DataInv'
    BY <1>1, <2>1, <2>2, <2>4 DEF DataInv, Holds, InSlot
  <2> QED
    BY <2>3, <2>5
<1>7. DeliveredInOrder'
  BY <1>1 DEF DeliveredInOrder
<1> QED
  BY <1>2, <1>3, <1>4, <1>5, <1>6, <1>7

-----------------------------------------------------------------------------
(* Where it starts, and every step. *)

LEMMA InitInv == Init => IInv
<1> SUFFICES ASSUME Init PROVE IInv
  OBVIOUS
<1>1. /\ queue = << >> /\ Len(queue) = 0 /\ submitted = 0 /\ stored = 0 /\ dispatches = 0
      /\ pc = "calibrate" /\ ~flushing /\ failed = "no" /\ prevSub = None /\ newSub = None
      /\ delivered = << >> /\ Len(delivered) = 0
  BY DEF Init
<1>2. TypeOK
  <2>1. /\ dpCount \in [Slot -> Nat]
        /\ dpBuffer \in [Slot -> [1 .. BufferSize -> Nat]]
        /\ staged \in [Slot -> Seq(Nat)]
    BY DEF Init
  <2>2. steps \in 0 .. Lengths /\ probe \in 1 .. Lengths + 1 /\ config \in 0 .. Lengths
        /\ dispatches \in 0 .. MaxDispatch
    BY PipelineAssumption DEF Init
  <2>3. queue \in Seq(Command) /\ delivered \in Seq(Nat) /\ currentSlot \in Slot
    BY DEF Init, Slot
  <2> QED
    BY <1>1, <2>1, <2>2, <2>3 DEF TypeOK, Init, None
<1>3. HostInv
  BY <1>1 DEF HostInv, Calibrating, None, Executed
<1>4. QueueInv /\ NextInv /\ OrderInv
  BY <1>1 DEF QueueInv, NextInv, OrderInv, Calibrating
<1>5. DataInv
  BY <1>1 DEF DataInv, PrevDone, NewDone
<1>6. DeliveredInOrder
  BY <1>1 DEF DeliveredInOrder
<1> QED
  BY <1>2, <1>3, <1>4, <1>5, <1>6 DEF IInv

LEMMA StutterInv == IInv /\ UNCHANGED vars => IInv'
<1> SUFFICES ASSUME IInv, UNCHANGED vars PROVE IInv'
  OBVIOUS
<1>1. UNCHANGED <<normalize, steps, probe, config, dpCount, dpBuffer, staged, stored, queue,
                  submitted, dispatches, currentSlot, prevSub, newSub, pc, flushing, failed,
                  delivered>>
  BY DEF vars, calibrationVars, gpuVars, hostVars, callVars
<1>2. TypeOK' /\ DeliveredInOrder'
  BY <1>1 DEF IInv, TypeOK, DeliveredInOrder
<1>3. HostInv'
  BY <1>1 DEF IInv, HostInv, Calibrating, Executed
<1>4. QueueInv' /\ NextInv'
  BY <1>1 DEF IInv, QueueInv, NextInv, Clear, LengthSet, Calibrating
<1>5. OrderInv'
  BY <1>1 DEF IInv, OrderInv, Number, Live, ReadSlot
<1>6. DataInv'
  BY <1>1 DEF IInv, DataInv, Live, PrevDone, NewDone, Executed, Holds, InSlot, ReadSlot
<1> QED
  BY <1>2, <1>3, <1>4, <1>5, <1>6 DEF IInv

LEMMA NextPreserves == IInv /\ [Next]_vars => IInv'
<1> SUFFICES ASSUME IInv, [Next]_vars PROVE IInv'
  OBVIOUS
<1>1. CASE GpuStep
  BY <1>1, GpuStepInv
<1>2. CASE Calibrate
  BY <1>2, CalibrateInv
<1>3. CASE StepCollect
  BY <1>3, StepCollectInv
<1>4. CASE ReadCount
  BY <1>4, ReadCountInv
<1>5. CASE ReadPayload
  BY <1>5, ReadPayloadInv
<1>6. CASE ReadFails
  BY <1>6, ReadFailsInv
<1>7. CASE FlushPending
  BY <1>7, FlushPendingInv
<1>8. CASE Terminated \/ UNCHANGED vars
  BY <1>8, StutterInv DEF Terminated
<1> QED
  BY <1>1, <1>2, <1>3, <1>4, <1>5, <1>6, <1>7, <1>8 DEF Next, Host

LEMMA Invariance == Spec => []IInv
  BY InitInv, NextPreserves, PTL DEF Spec

-----------------------------------------------------------------------------
(* What follows from it. *)

(* Every value the pipeline keeps has its type. *)
THEOREM TypeCorrect == Spec => []TypeOK
<1>1. IInv => TypeOK
  BY DEF IInv
<1> QED
  BY <1>1, Invariance, PTL

(* For any buffer size and any number of dispatches, candidates reach the caller in
   the order the GPU stored them, none twice and none skipped, whatever the GPU's
   progress and whichever readback fails (step_collect and read_pending). *)
THEOREM OrderedDelivery == Spec => []DeliveredInOrder
<1>1. IInv => DeliveredInOrder
  BY DEF IInv
<1> QED
  BY <1>1, Invariance, PTL

LEMMA FirstDispatch ==
  ASSUME IInv, queue # << >>, Head(queue).op = "dispatch"
  PROVE  Head(queue).slot \in Slot /\ dpCount[Head(queue).slot] = 0 /\ config = steps
<1>1. queue \in Seq(Command) /\ queue # << >>
  BY DEF IInv, TypeOK
<1>2. Len(queue) \in Nat \ {0} /\ Head(queue) = queue[1] /\ queue[1] \in Command
  BY <1>1, Execute
<1>3. 1 \in 1 .. Len(queue) /\ queue[1].op = "dispatch" /\ queue[1].slot \in Slot
  BY <1>2, Shapes
<1>4. Clear(queue[1].slot, 1) /\ LengthSet(1)
  BY <1>3 DEF IInv, QueueInv
<1>5. dpCount[queue[1].slot] = 0
  BY <1>4 DEF Clear, Settled
<1>6. config = steps
  BY <1>4 DEF LengthSet, Settled
<1> QED
  BY <1>2, <1>3, <1>5, <1>6

(* No dispatch starts on a slot that holds candidates nobody has read: the counter
   of its slot is zero, whatever calibration left there and whether or not the
   normalize pass would clear it (new_internal, read_pending). *)
THEOREM NothingUnreadIsLost == Spec => []NoOverwriteOfUnread
<1>1. IInv => NoOverwriteOfUnread
  <2> SUFFICES ASSUME IInv, queue # << >>, Head(queue).op = "dispatch",
                      NEW i \in 1 .. InSlot(Head(queue).slot)
               PROVE  FALSE
    BY DEF NoOverwriteOfUnread
  <2>1. InSlot(Head(queue).slot) = 0
    BY FirstDispatch, PipelineAssumption, LeastFacts DEF InSlot
  <2> QED
    BY <2>1
<1> QED
  BY <1>1, Invariance, PTL

(* The operations the host counts for a dispatch are those the GPU executes, however
   calibration ended and however far behind the GPU was when it did (calibrate,
   step_collect). *)
THEOREM CountedSteps == Spec => []StepsAreCounted
<1>1. IInv => StepsAreCounted
  BY FirstDispatch DEF StepsAreCounted
<1> QED
  BY <1>1, Invariance, PTL

(* Between two calls the caller misses nothing but what the last dispatch stored: no
   candidate is lost in the swap of the slots (step_collect). *)
THEOREM OneBehind == Spec => []OneDispatchBehind
<1>1. IInv => OneDispatchBehind
  <2> SUFFICES ASSUME IInv, pc = "idle", failed = "no" PROVE
        stored - Len(delivered) =
          IF prevSub # None /\ Executed(prevSub) THEN InSlot(1 - currentSlot) ELSE 0
    BY DEF OneDispatchBehind
  <2>1. Live /\ ~NewDone
    BY DEF IInv, HostInv, Live, NewDone
  <2>2. PICK r \in Slot : r = ReadSlot /\ r = 1 - currentSlot
    BY SlotFacts DEF IInv, TypeOK, ReadSlot
  <2>3. InSlot(r) \in Nat /\ Len(delivered) \in Nat
    BY InSlotType DEF IInv, TypeOK
  <2>4. stored = Len(delivered) + (IF PrevDone THEN InSlot(r) ELSE 0) + 0
    BY <2>1, <2>2 DEF IInv, DataInv
  <2> QED
    BY <2>2, <2>3, <2>4 DEF PrevDone
<1> QED
  BY <1>1, Invariance, PTL

=============================================================================
