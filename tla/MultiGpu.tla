------------------------------- MODULE MultiGpu -------------------------------
(***************************************************************************)
(* src/lib.rs, the multi-GPU search: one worker thread per GPU runs        *)
(* batches and sends the distinguished points over a bounded channel to the *)
(* main thread, which owns the DP table, watches the operation limit and   *)
(* shuts the workers down.                                                 *)
(*                                                                         *)
(* A worker's solver is what GpuPipeline shows it to be: each step_collect *)
(* starts a dispatch and returns the candidates of the dispatch before.    *)
(* The DP table is what DPTable shows it to be: it returns the key once all *)
(* the points of a meeting are in.                                         *)
(***************************************************************************)
EXTENDS Integers, Sequences, FiniteSets

CONSTANTS
  Workers,    \* GPUs whose solver was initialised
  Candidate,  \* candidates the shader can store
  Batches,    \* the sets of candidates one dispatch can find
  DP,         \* those of them whose affine x is distinguished
  Meetings,   \* the sets of points that yield the key
  MaxOps      \* --max-ops of a search with a limit, counted in batches

ASSUME MultiGpuAssumption ==
  /\ IsFiniteSet(Workers) /\ Workers # {}
  /\ DP \subseteq Candidate
  /\ Batches \subseteq SUBSET Candidate
  /\ Meetings \subseteq SUBSET DP
  /\ {} \notin Meetings
  /\ MaxOps \in Nat \ {0}

VARIABLES
  wpc,       \* where each worker is
  pending,   \* the batch each solver has dispatched and not read back, if any
  hand,      \* the points each worker is about to send
  queue,     \* the channel
  rxAlive,   \* the receiver has not been dropped
  stop,      \* stop_flag
  ops,       \* total_ops in batches, which stops counting at MaxOps, or Unlimited
  mpc,       \* where the main thread is
  seen,      \* points handed to the DP table
  outcome,   \* how the search ended
  produced,  \* history: the points of all batches dispatched
  lost       \* history: those lost with a call that failed or a panic

workerVars == <<wpc, pending, hand>>
mainVars == <<mpc, seen, outcome>>
vars == <<workerVars, queue, rxAlive, stop, ops, mainVars, produced, lost>>

(* prev_submission is None, or the batch of the last dispatch is to be read. *)
NoBatch == {}
InPipeline(w) == UNION pending[w]
QueueCapacity == 2 * Cardinality(Workers)
Solved(dps) == \E m \in Meetings : m \subseteq dps
Alive(w) == wpc[w] # "done"

(* In a search without --max-ops the count decides nothing. *)
Unlimited == -1

LimitReached == ops >= MaxOps

Count == ops' = IF ops # Unlimited /\ ops < MaxOps THEN ops + 1 ELSE ops

(* convert_candidates_to_dps: the exact check on the affine x. *)
Convert(candidates) == candidates \cap DP

-----------------------------------------------------------------------------
(* Worker thread *)
Goto(w, label) == wpc' = [wpc EXCEPT ![w] = label]

(* Mutant: the worker loop does not look at the stop flag. *)
CheckNothing(w) ==
  /\ wpc[w] = "check"
  /\ Goto(w, "step")
  /\ UNCHANGED <<pending, hand, queue, rxAlive, stop, ops, mainVars, produced, lost>>

CheckStop(w) ==
  /\ wpc[w] = "check"
  /\ Goto(w, IF stop THEN "flush" ELSE "step")
  /\ UNCHANGED <<pending, hand, queue, rxAlive, stop, ops, mainVars, produced, lost>>

(* step_collect returns: the points of the batch before go to the channel, if
   there are any. *)
StepCollect(w) ==
  /\ wpc[w] = "step"
  /\ \E batch \in Batches :
       /\ pending' = [pending EXCEPT ![w] = {batch}]
       /\ produced' = produced \cup Convert(batch)
  /\ LET dps == Convert(InPipeline(w))
     IN /\ hand' = [hand EXCEPT ![w] = dps]
        /\ Goto(w, IF dps = {} THEN "check" ELSE "send")
  /\ Count
  /\ UNCHANGED <<queue, rxAlive, stop, mainVars, lost>>

(* step_collect fails while it reads the batch before: neither that batch nor
   the one it has just dispatched can be read any more. *)
StepFails(w) ==
  /\ wpc[w] = "step"
  /\ pending[w] # NoBatch
  /\ \E batch \in Batches :
       /\ produced' = produced \cup Convert(batch)
       /\ lost' = lost \cup Convert(batch) \cup Convert(InPipeline(w))
  /\ pending' = [pending EXCEPT ![w] = NoBatch]
  /\ Goto(w, "flush")
  /\ UNCHANGED <<hand, queue, rxAlive, stop, ops, mainVars>>

(* A wgpu error that is not returned panics the thread. *)
Panic(w) ==
  /\ wpc[w] \in {"step", "flush"}
  /\ lost' = lost \cup Convert(InPipeline(w))
  /\ pending' = [pending EXCEPT ![w] = NoBatch]
  /\ Goto(w, "done")
  /\ UNCHANGED <<hand, queue, rxAlive, stop, ops, mainVars, produced>>

(* Mutant: try_send, which drops the batch when the channel is full. *)
TrySend(w) ==
  /\ wpc[w] \in {"send", "flushSend"}
  /\ \/ /\ rxAlive
        /\ queue' = IF Len(queue) < QueueCapacity THEN Append(queue, hand[w]) ELSE queue
        /\ Goto(w, IF wpc[w] = "send" THEN "check" ELSE "done")
     \/ /\ ~rxAlive
        /\ Goto(w, IF wpc[w] = "send" THEN "flush" ELSE "done")
        /\ UNCHANGED queue
  /\ hand' = [hand EXCEPT ![w] = {}]
  /\ UNCHANGED <<pending, rxAlive, stop, ops, mainVars, produced, lost>>

(* tx.send: blocks while the channel is full, fails once the receiver is gone. *)
Send(w) ==
  /\ wpc[w] \in {"send", "flushSend"}
  /\ \/ /\ rxAlive
        /\ Len(queue) < QueueCapacity
        /\ queue' = Append(queue, hand[w])
        /\ Goto(w, IF wpc[w] = "send" THEN "check" ELSE "done")
     \/ /\ ~rxAlive
        /\ Goto(w, IF wpc[w] = "send" THEN "flush" ELSE "done")
        /\ UNCHANGED queue
  /\ hand' = [hand EXCEPT ![w] = {}]
  /\ UNCHANGED <<pending, rxAlive, stop, ops, mainVars, produced, lost>>

(* flush_pending, after the loop: reads the batch in flight, or fails. *)
Flush(w) ==
  /\ wpc[w] = "flush"
  /\ \/ /\ hand' = [hand EXCEPT ![w] = Convert(InPipeline(w))]
        /\ Goto(w, IF Convert(InPipeline(w)) = {} THEN "done" ELSE "flushSend")
        /\ UNCHANGED lost
     \/ /\ pending[w] # NoBatch
        /\ lost' = lost \cup Convert(InPipeline(w))
        /\ Goto(w, "done")
        /\ UNCHANGED hand
  /\ pending' = [pending EXCEPT ![w] = NoBatch]
  /\ UNCHANGED <<queue, rxAlive, stop, ops, mainVars, produced>>

Worker(w) ==
  CheckStop(w) \/ StepCollect(w) \/ StepFails(w) \/ Panic(w) \/ Send(w) \/ Flush(w)

-----------------------------------------------------------------------------
(* Main thread *)

(* Mutant: the loop goes on after the key. *)
ReceiveWithoutBreak ==
  /\ mpc = "recv"
  /\ queue # << >>
  /\ queue' = Tail(queue)
  /\ seen' = seen \cup Head(queue)
  /\ mpc' = "limit"
  /\ UNCHANGED <<workerVars, rxAlive, stop, ops, outcome, produced, lost>>

(* A batch arrives and its points are inserted one by one, up to the key.  A key
   the table returns passes verify_key, so that check has no failing case. *)
Receive ==
  /\ mpc = "recv"
  /\ queue # << >>
  /\ queue' = Tail(queue)
  /\ seen' = seen \cup Head(queue)
  /\ mpc' = IF Solved(seen') THEN "stop" ELSE "limit"
  /\ UNCHANGED <<workerVars, rxAlive, stop, ops, outcome, produced, lost>>

(* recv_timeout: nothing came within 100 ms. *)
ReceiveTimeout ==
  /\ mpc = "recv"
  /\ queue = << >>
  /\ \E w \in Workers : Alive(w)
  /\ mpc' = "limit"
  /\ UNCHANGED <<workerVars, queue, rxAlive, stop, ops, seen, outcome, produced, lost>>

(* Mutant: the senders are looked at before the channel. *)
DisconnectedWithBacklog ==
  /\ mpc = "recv"
  /\ \A w \in Workers : ~Alive(w)
  /\ mpc' = "stop"
  /\ UNCHANGED <<workerVars, queue, rxAlive, stop, ops, seen, outcome, produced, lost>>

(* recv_timeout: the channel is empty and every sender is gone. *)
Disconnected ==
  /\ mpc = "recv"
  /\ queue = << >>
  /\ \A w \in Workers : ~Alive(w)
  /\ mpc' = "stop"
  /\ UNCHANGED <<workerVars, queue, rxAlive, stop, ops, seen, outcome, produced, lost>>

CheckLimit ==
  /\ mpc = "limit"
  /\ mpc' = IF LimitReached THEN "stop" ELSE "recv"
  /\ UNCHANGED <<workerVars, queue, rxAlive, stop, ops, seen, outcome, produced, lost>>

StopWorkers ==
  /\ mpc = "stop"
  /\ stop' = TRUE
  /\ mpc' = "drop"
  /\ UNCHANGED <<workerVars, queue, rxAlive, ops, seen, outcome, produced, lost>>

(* Mutant: the receiver lives until the end of the function. *)
KeepReceiver ==
  /\ mpc = "drop"
  /\ mpc' = "join"
  /\ UNCHANGED <<workerVars, queue, rxAlive, stop, ops, seen, outcome, produced, lost>>

(* drop(rx): what is in the channel is dropped with it. *)
DropReceiver ==
  /\ mpc = "drop"
  /\ rxAlive' = FALSE
  /\ queue' = << >>
  /\ mpc' = "join"
  /\ UNCHANGED <<workerVars, stop, ops, seen, outcome, produced, lost>>

(* Mutant: the limit is looked at before the key. *)
JoinLimitFirst ==
  /\ mpc = "join"
  /\ \A w \in Workers : ~Alive(w)
  /\ outcome' = IF LimitReached THEN "limit" ELSE IF Solved(seen) THEN "found" ELSE "stopped"
  /\ mpc' = "done"
  /\ UNCHANGED <<workerVars, queue, rxAlive, stop, ops, seen, produced, lost>>

(* All threads joined: the result of the search. *)
Join ==
  /\ mpc = "join"
  /\ \A w \in Workers : ~Alive(w)
  /\ outcome' = IF Solved(seen) THEN "found" ELSE IF LimitReached THEN "limit" ELSE "stopped"
  /\ mpc' = "done"
  /\ UNCHANGED <<workerVars, queue, rxAlive, stop, ops, seen, produced, lost>>

Main ==
  \/ Receive \/ ReceiveTimeout \/ Disconnected \/ CheckLimit
  \/ StopWorkers \/ DropReceiver \/ Join

Terminated == mpc = "done" /\ UNCHANGED vars

-----------------------------------------------------------------------------
Init ==
  /\ wpc = [w \in Workers |-> "check"]
  /\ pending = [w \in Workers |-> NoBatch]
  /\ hand = [w \in Workers |-> {}]
  /\ queue = << >>
  /\ rxAlive = TRUE
  /\ stop = FALSE
  /\ ops \in {0, Unlimited}
  /\ mpc = "recv"
  /\ seen = {}
  /\ outcome = "running"
  /\ produced = {}
  /\ lost = {}

Next == Main \/ (\E w \in Workers : Worker(w)) \/ Terminated

Spec == Init /\ [][Next]_vars

(* Every thread runs: a step's polls time out after 5 s, so it returns, and a
   sender that finds room again and again is not passed over for ever.  No
   worker has to fail. *)
Fairness ==
  /\ WF_vars(Main)
  /\ \A w \in Workers :
       /\ WF_vars(CheckStop(w)) /\ WF_vars(StepCollect(w)) /\ WF_vars(Flush(w))
       /\ SF_vars(Send(w))

FairSpec == Spec /\ Fairness

-----------------------------------------------------------------------------
TypeOK ==
  /\ wpc \in [Workers -> {"check", "step", "send", "flush", "flushSend", "done"}]
  /\ pending \in [Workers -> SUBSET Batches]
  /\ hand \in [Workers -> SUBSET DP]
  /\ queue \in Seq(SUBSET DP)
  /\ Len(queue) <= QueueCapacity
  /\ rxAlive \in BOOLEAN
  /\ stop \in BOOLEAN
  /\ ops \in 0 .. MaxOps \cup {Unlimited}
  /\ mpc \in {"recv", "limit", "stop", "drop", "join", "done"}
  /\ seen \in SUBSET DP
  /\ outcome \in {"running", "found", "limit", "stopped"}
  /\ produced \in SUBSET DP
  /\ lost \in SUBSET DP

Queued == UNION {queue[i] : i \in DOMAIN queue}
InHand == UNION {hand[w] : w \in Workers}
InFlight == UNION {Convert(InPipeline(w)) : w \in Workers}

(* While the main thread is listening no point goes missing between the GPUs and
   the table: what was not lost with a failing call or a panicking thread is in
   the table, in the channel, with a blocked sender or in a pipeline. *)
NothingDropped ==
  rxAlive => produced \subseteq lost \cup seen \cup Queued \cup InHand \cup InFlight

(* "All GPU workers stopped before finding key" is said only when everything
   the workers produced, save what the failures took along, has been checked:
   a dying worker does not overtake its own or another worker's last batch. *)
StoppedMeansAllChecked == outcome = "stopped" => produced \subseteq seen \cup lost

(* The multi-GPU search is a search: points are checked after they are produced,
   the outcome is "found" exactly if the points in the table hold a meeting, even
   if the limit is reached or the workers die meanwhile, and it is final. *)
S == INSTANCE Search WITH checked <- seen
ImplementsSearch == S!Spec

(* With an operation limit the search ends, whatever the workers are doing when
   the limit is reached: blocked on the full channel, in a step, or dead. *)
Terminates == ops # Unlimited => <>(outcome # "running")

(* Once the main thread has decided to stop, the program ends: no worker blocks
   the join. *)
ShutdownCompletes == stop ~> (outcome # "running")

(* Without a limit, a meeting whose points were all read back from the GPUs is
   reported, even if workers fail in the meantime. *)
MeetingIsReported ==
  ops = Unlimited =>
    \A m \in Meetings : (m \subseteq seen \cup Queued \cup InHand) ~> (outcome = "found")

(* "Maximum operations reached without finding key", with a drain of the last
   pipelined batch at the end of every worker: the points of the operations
   counted, and not lost to an error, do not hold a meeting. *)
LimitMeansNotFound == outcome = "limit" => ~Solved(produced \ lost)
=============================================================================
