----------------------------- MODULE GpuPipeline -----------------------------
(***************************************************************************)
(* src/solver.rs: the double-buffered readback of distinguished points.    *)
(*                                                                         *)
(* The host calibrates: it probes dispatches of growing length on slot 0,  *)
(* discards what they find and settles on a length.  Then it submits a     *)
(* dispatch that writes one DP slot and, while the GPU runs it, reads back *)
(* the slot of the dispatch before.  The GPU is its own process: it        *)
(* executes, one at a time and in order, what the host put on the wgpu     *)
(* queue.  A caller runs step_collect until it is told to stop or a step   *)
(* fails, then calls flush_pending once and drops the solver, as the       *)
(* multi-GPU worker thread does.                                           *)
(*                                                                         *)
(* A candidate is a number: the rank at which the GPU stored it, and 0 for *)
(* a candidate of a calibration dispatch.  The walk that finds it, and the *)
(* approximate candidates of the walk pass that the normalize pass         *)
(* discards, are left out.                                                 *)
(***************************************************************************)
EXTENDS Integers, Sequences

CONSTANTS
  BufferSize,   \* GPU_DP_BUFFER_SIZE
  Lengths,      \* number of dispatch lengths calibrate can probe
  MaxEmit,      \* bound: candidates found in one dispatch
  MaxDispatch   \* bound: calls of step_collect

ASSUME PipelineAssumption ==
  /\ BufferSize \in Nat \ {0}
  /\ Lengths \in Nat \ {0}
  /\ MaxEmit \in Nat
  /\ MaxDispatch \in Nat

Slot == {0, 1}
None == 0
Least(a, b) == IF a <= b THEN a ELSE b

VARIABLES
  normalize,   \* whether normalize_pipeline is Some
  steps,       \* steps_per_call: the length calibrate chose, by its place in its
               \* list of candidates; 0 for a length it took without a probe
  probe,       \* the length calibrate tries next
  config,      \* the length in the GPU's config buffer
  dpCount,     \* per slot: the atomic counter of the DP buffer
  dpBuffer,    \* per slot: the candidates in the DP buffer
  staged,      \* per slot: the staging buffer, a count or a list of candidates
  queue,       \* what was submitted and not executed yet
  submitted,   \* number of commands ever put on the queue
  stored,      \* number of candidates the GPU has stored
  dispatches,  \* number of dispatches submitted
  currentSlot, \* slot the next dispatch writes
  prevSub,     \* prev_submission: number of the submission, or None; while a
               \* readback is in progress, the number it took from there
  newSub,      \* submission of the step in progress
  pc,          \* where the host is
  flushing,    \* whether the call in progress is flush_pending
  failed,      \* the call that returned an error: "no", "step" or "flush"
  delivered    \* every candidate returned to the caller, in order

gpuVars == <<config, dpCount, dpBuffer, staged, stored>>
calibrationVars == <<steps, probe>>
callVars == <<dispatches, currentSlot, prevSub, newSub, flushing, failed, delivered>>
hostVars == <<pc, callVars>>
vars == <<normalize, calibrationVars, gpuVars, queue, submitted, hostVars>>

Executed(sub) == sub <= submitted - Len(queue)

(* The slot the call in progress reads: the one that is not being written. *)
ReadSlot == 1 - currentSlot

-----------------------------------------------------------------------------
(* Commands.  A dispatch walks, and with a normalize pipeline clears the
   counter before the exact check; it ends by copying the counter to staging. *)
Dispatch(slot) == [op |-> "dispatch", slot |-> slot, n |-> 0]
CopyDps(slot, n) == [op |-> "copyDps", slot |-> slot, n |-> n]
ResetDpCount(slot) == [op |-> "reset", slot |-> slot, n |-> 0]
SetLength(length) == [op |-> "config", slot |-> 0, n |-> length]
Calibration == [op |-> "calibration", slot |-> 0, n |-> 0]

(* `found` candidates are appended after what the counter says is there; the
   counter counts those beyond the buffer, the buffer drops them. *)
RunDispatch(slot, found) ==
  LET first == IF normalize THEN 0 ELSE dpCount[slot]
      kept == Least(found, BufferSize - Least(first, BufferSize))
  IN /\ dpCount' = [dpCount EXCEPT ![slot] = first + found]
     /\ dpBuffer' = [dpBuffer EXCEPT ![slot] =
          [i \in 1 .. BufferSize |-> IF i > first /\ i <= first + kept
                                     THEN stored + (i - first) ELSE @[i]]]
     /\ staged' = [staged EXCEPT ![slot] = <<first + found>>]
     /\ stored' = stored + kept
     /\ UNCHANGED config

(* A calibration dispatch is the walk alone: it appends on slot 0, whether or
   not there is a normalize pipeline, and copies nothing to staging. *)
RunCalibration(found) ==
  LET first == dpCount[0]
  IN /\ dpCount' = [dpCount EXCEPT ![0] = first + found]
     /\ dpBuffer' = [dpBuffer EXCEPT ![0] =
          [i \in 1 .. BufferSize |-> IF i > first /\ i <= first + found THEN 0 ELSE @[i]]]
     /\ UNCHANGED <<config, staged, stored>>

RunSetLength(length) ==
  /\ config' = length
  /\ UNCHANGED <<dpCount, dpBuffer, staged, stored>>

RunCopyDps(slot, n) ==
  /\ staged' = [staged EXCEPT ![slot] = SubSeq(dpBuffer[slot], 1, n)]
  /\ UNCHANGED <<config, dpCount, dpBuffer, stored>>

RunReset(slot) ==
  /\ dpCount' = [dpCount EXCEPT ![slot] = 0]
  /\ UNCHANGED <<config, dpBuffer, staged, stored>>

GpuStep ==
  /\ queue # << >>
  /\ LET cmd == Head(queue)
     IN \/ /\ cmd.op = "dispatch"
           /\ \E found \in 0 .. MaxEmit : RunDispatch(cmd.slot, found)
        \/ /\ cmd.op = "copyDps"
           /\ RunCopyDps(cmd.slot, cmd.n)
        \/ /\ cmd.op = "reset"
           /\ RunReset(cmd.slot)
        \/ /\ cmd.op = "config"
           /\ RunSetLength(cmd.n)
        \/ /\ cmd.op = "calibration"
           /\ \E found \in 0 .. MaxEmit : RunCalibration(found)
  /\ queue' = Tail(queue)
  /\ UNCHANGED <<normalize, calibrationVars, submitted, hostVars>>

-----------------------------------------------------------------------------
Submit(cmds) ==
  /\ queue' = queue \o cmds
  /\ submitted' = submitted + Len(cmds)

(* new_internal up to the first step.  best_steps is the last length whose
   timed dispatch was fast enough, or the first of the list if none was. *)
Best == IF probe = 1 THEN 1 ELSE probe - 1

(* Mutant: the length is not written again when calibration is over. *)
ReadyWithoutConfig(length) ==
  /\ steps' = length
  /\ Submit(<<ResetDpCount(0), ResetDpCount(1)>>)
  /\ pc' = "idle"
  /\ UNCHANGED <<normalize, probe, gpuVars, callVars>>

(* Mutant: the counter of the calibration slot is left as it is. *)
ReadyWithoutReset(length) ==
  /\ steps' = length
  /\ Submit(<<SetLength(length), ResetDpCount(1)>>)
  /\ pc' = "idle"
  /\ UNCHANGED <<normalize, probe, gpuVars, callVars>>

(* End of calibrate and of new_internal: the length goes to the config buffer
   and both counters are reset, behind whatever the GPU has not finished. *)
Ready(length) ==
  /\ steps' = length
  /\ Submit(<<SetLength(length), ResetDpCount(0), ResetDpCount(1)>>)
  /\ pc' = "idle"
  /\ UNCHANGED <<normalize, probe, gpuVars, callVars>>

(* Small workgroups and herds take a length without a probe. *)
CalibrateFixed == pc = "calibrate" /\ probe = 1 /\ Ready(0)

(* The next length would overflow the DP buffer, or there is none. *)
CalibrateEnds == pc = "calibrate" /\ Ready(Best)

(* dispatch_once on slot 0, to warm up and then against the clock. *)
WarmUp ==
  /\ pc = "calibrate" /\ probe <= Lengths
  /\ Submit(<<SetLength(probe), ResetDpCount(0), Calibration>>)
  /\ pc' = "warmup"
  /\ UNCHANGED <<normalize, calibrationVars, gpuVars, callVars>>

TimedDispatch ==
  /\ pc = "warmup" /\ queue = << >>
  /\ Submit(<<ResetDpCount(0), Calibration>>)
  /\ pc' = "timed"
  /\ UNCHANGED <<normalize, calibrationVars, gpuVars, callVars>>

(* The timed dispatch is done: fast enough to try the next length, too close to
   the target to try another, or too slow. *)
FastEnough ==
  /\ pc = "timed" /\ queue = << >>
  /\ probe' = probe + 1
  /\ pc' = "calibrate"
  /\ UNCHANGED <<normalize, steps, gpuVars, queue, submitted, callVars>>

CloseEnough == pc = "timed" /\ queue = << >> /\ Ready(probe)

TooSlow == pc = "timed" /\ queue = << >> /\ Ready(Best)

(* The poll of a calibration dispatch times out: calibrate settles for the
   length before while the GPU is still at work on the one that was probed. *)
ProbeTimesOut == pc \in {"warmup", "timed"} /\ Ready(Best)

Calibrate ==
  \/ CalibrateFixed \/ CalibrateEnds \/ WarmUp \/ TimedDispatch
  \/ FastEnough \/ CloseEnough \/ TooSlow \/ ProbeTimesOut

-----------------------------------------------------------------------------
(* Mutant: step_collect records its submission but stays on the same slot. *)
ReturnWithoutSwap(dps) ==
  /\ delivered' = delivered \o dps
  /\ IF flushing
     THEN pc' = "done" /\ UNCHANGED <<prevSub, newSub>>
     ELSE pc' = "idle" /\ prevSub' = newSub /\ newSub' = None
  /\ UNCHANGED <<currentSlot, dispatches, flushing, failed>>

(* Mutant: step_collect forgets to record its submission. *)
ReturnWithoutRecord(dps) ==
  /\ delivered' = delivered \o dps
  /\ IF flushing
     THEN pc' = "done" /\ UNCHANGED currentSlot
     ELSE pc' = "idle" /\ currentSlot' = 1 - currentSlot
  /\ prevSub' = None /\ newSub' = None
  /\ UNCHANGED <<dispatches, flushing, failed>>

(* End of read_pending, and of the call around it: step_collect records its
   submission and swaps the slots, flush_pending has nothing more to do. *)
Return(dps) ==
  /\ delivered' = delivered \o dps
  /\ IF flushing
     THEN pc' = "done" /\ UNCHANGED <<prevSub, newSub, currentSlot>>
     ELSE /\ pc' = "idle"
          /\ prevSub' = newSub
          /\ newSub' = None
          /\ currentSlot' = 1 - currentSlot
  /\ UNCHANGED <<dispatches, flushing, failed>>

(* step_collect up to the readback: prev_submission.take() empties the field. *)
StepCollect ==
  /\ pc = "idle" /\ failed = "no"
  /\ dispatches < MaxDispatch
  /\ dispatches' = dispatches + 1
  /\ Submit(<<Dispatch(currentSlot)>>)
  /\ IF prevSub = None
     THEN /\ prevSub' = submitted + 1
          /\ currentSlot' = 1 - currentSlot
          /\ UNCHANGED <<newSub, pc>>
     ELSE /\ newSub' = submitted + 1
          /\ pc' = "count"
          /\ UNCHANGED <<prevSub, currentSlot>>
  /\ UNCHANGED <<normalize, calibrationVars, gpuVars, flushing, failed, delivered>>

(* The number of candidates to copy. *)
Clamped(count) == Least(count, BufferSize)

(* read_pending once the awaited submission is done and the counter is mapped. *)
ReadCount ==
  /\ pc = "count" /\ Executed(prevSub)
  /\ LET count == staged[ReadSlot][1]
     IN IF count = 0
        THEN /\ Submit(<<ResetDpCount(ReadSlot)>>)
             /\ Return(<< >>)
        ELSE /\ Submit(<<CopyDps(ReadSlot, Clamped(count))>>)
             /\ pc' = "payload"
             /\ UNCHANGED callVars
  /\ UNCHANGED <<normalize, calibrationVars, gpuVars>>

(* Mutant: the payload is read without waiting for the copy. *)
ReadPayloadEarly ==
  /\ pc = "payload"
  /\ Submit(<<ResetDpCount(ReadSlot)>>)
  /\ Return(staged[ReadSlot])
  /\ UNCHANGED <<normalize, calibrationVars, gpuVars>>

(* ... and once the copy is done and the payload is mapped.  The copy was the
   last thing submitted. *)
ReadPayload ==
  /\ pc = "payload" /\ queue = << >>
  /\ Submit(<<ResetDpCount(ReadSlot)>>)
  /\ Return(staged[ReadSlot])
  /\ UNCHANGED <<normalize, calibrationVars, gpuVars>>

(* A poll times out or a mapping fails: read_pending returns with `?` before the
   reset, step_collect before it records its own submission. *)
ReadFails ==
  /\ pc \in {"count", "payload"}
  /\ failed' = IF flushing THEN "flush" ELSE "step"
  /\ prevSub' = None
  /\ newSub' = None
  /\ pc' = IF flushing THEN "done" ELSE "idle"
  /\ UNCHANGED <<normalize, calibrationVars, gpuVars, queue, submitted, dispatches,
                 currentSlot, flushing, delivered>>

(* flush_pending, when the caller has seen the stop flag or an error. *)
FlushPending ==
  /\ pc = "idle"
  /\ flushing' = TRUE
  /\ pc' = IF prevSub = None THEN "done" ELSE "count"
  /\ UNCHANGED <<normalize, calibrationVars, gpuVars, queue, submitted, dispatches,
                 currentSlot, prevSub, newSub, failed, delivered>>

Terminated == pc = "done" /\ UNCHANGED vars

-----------------------------------------------------------------------------
(* The solver when calibrate is called: the normalize pipeline may have failed
   to build, and the config buffer holds a length nobody has tried. *)
Init ==
  /\ normalize \in BOOLEAN
  /\ steps = 0 /\ probe = 1 /\ config = 0
  /\ dpCount = [s \in Slot |-> 0]
  /\ dpBuffer = [s \in Slot |-> [i \in 1 .. BufferSize |-> 0]]
  /\ staged = [s \in Slot |-> <<0>>]
  /\ queue = << >> /\ submitted = 0 /\ stored = 0 /\ dispatches = 0
  /\ currentSlot = 0 /\ prevSub = None /\ newSub = None
  /\ pc = "calibrate" /\ flushing = FALSE /\ failed = "no"
  /\ delivered = << >>

Host == Calibrate \/ StepCollect \/ ReadCount \/ ReadPayload \/ ReadFails \/ FlushPending

Next == GpuStep \/ Host \/ Terminated

Spec == Init /\ [][Next]_vars

(* The GPU executes what is submitted, calibration and a blocked host go on, and the
   caller's loop either steps again or leaves for flush_pending. *)
Fairness ==
  /\ WF_vars(GpuStep)
  /\ WF_vars(Calibrate)
  /\ WF_vars(ReadCount) /\ WF_vars(ReadPayload)
  /\ WF_vars(StepCollect \/ FlushPending)

FairSpec == Spec /\ Fairness

-----------------------------------------------------------------------------
Command ==
  {Dispatch(s) : s \in Slot} \cup {ResetDpCount(s) : s \in Slot}
    \cup {CopyDps(s, n) : s \in Slot, n \in 0 .. BufferSize}
    \cup {SetLength(length) : length \in 0 .. Lengths} \cup {Calibration}

TypeOK ==
  /\ normalize \in BOOLEAN
  /\ steps \in 0 .. Lengths /\ probe \in 1 .. Lengths + 1 /\ config \in 0 .. Lengths
  /\ dpCount \in [Slot -> Nat]
  /\ dpBuffer \in [Slot -> [1 .. BufferSize -> Nat]]
  /\ staged \in [Slot -> Seq(Nat)]
  /\ queue \in Seq(Command)
  /\ submitted \in Nat /\ stored \in Nat
  /\ dispatches \in 0 .. MaxDispatch
  /\ currentSlot \in Slot
  /\ prevSub \in Nat /\ newSub \in Nat
  /\ pc \in {"calibrate", "warmup", "timed", "idle", "count", "payload", "done"}
  /\ flushing \in BOOLEAN
  /\ failed \in {"no", "step", "flush"}
  /\ delivered \in Seq(Nat)

(* What the counter of a slot says is in its buffer. *)
InSlot(slot) == Least(dpCount[slot], BufferSize)

(* Candidates reach the caller in the order the GPU stored them, none twice, none
   skipped and none of calibration, although they alternate between two buffers
   that are reused, counters are reset behind the GPU's back and any readback may
   fail. *)
DeliveredInOrder == delivered = [i \in 1 .. Len(delivered) |-> i]

(* The GPU never starts a dispatch on a slot that still holds candidates nobody
   has read: the pass that overwrites them is two submissions behind the one
   that wrote them, and the readback in between is complete. *)
NoOverwriteOfUnread ==
  queue # << >> /\ Head(queue).op = "dispatch" =>
    \A i \in 1 .. InSlot(Head(queue).slot) :
      dpBuffer[Head(queue).slot][i] <= Len(delivered)

(* Between two calls the caller is exactly one dispatch behind: all that is
   missing is what the last submitted dispatch has stored so far. *)
OneDispatchBehind ==
  pc = "idle" /\ failed = "no" =>
    stored - Len(delivered) =
      IF prevSub # None /\ Executed(prevSub) THEN InSlot(1 - currentSlot) ELSE 0

(* The operations the host counts for a dispatch, num_kangaroos *
   steps_per_call, are those the GPU executes, however calibration ended and
   however far behind the GPU was when it did. *)
StepsAreCounted ==
  queue # << >> /\ Head(queue).op = "dispatch" => config = steps

(* A stored candidate is returned to the caller, unless a readback fails. *)
StoredIsDelivered ==
  \A k \in 1 .. MaxDispatch * BufferSize :
    stored >= k ~> (Len(delivered) >= k \/ failed # "no")
=============================================================================
