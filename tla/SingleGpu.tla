------------------------------- MODULE SingleGpu -------------------------------
(***************************************************************************)
(* The loop of run_single_gpu_solver (src/lib.rs) around KangarooSolver::step *)
(* (src/solver.rs): every step dispatches a batch, gets the one before, puts *)
(* it in the DP table and appends it to the file for the pool.  The process  *)
(* may be killed and started again; it appends to the same file.            *)
(*                                                                         *)
(* Distinguished points are numbers, in the order in which the GPU finds    *)
(* them.  The key comes out of the table when the last point of a Meeting   *)
(* goes in; the key of a Wrong one does not pass verify_key.               *)
(***************************************************************************)
EXTENDS DpFile, FiniteSets

CONSTANTS
  Meetings,   \* sets of points that yield the key
  Wrong,      \* sets of points that yield something else
  MaxOps,     \* --max-ops, in dispatches
  MaxPoints,  \* bound: points found altogether
  MaxBatch,   \* bound: points found by one dispatch
  MaxStarts   \* bound: starts of the solver

ASSUME SingleAssumption ==
  /\ MaxOps \in Nat /\ MaxPoints \in Nat /\ MaxBatch \in Nat
  /\ Meetings \subseteq SUBSET (1 .. MaxPoints) /\ {} \notin Meetings
  /\ Wrong \subseteq SUBSET (1 .. MaxPoints)

VARIABLES
  at,       \* where the loop is: "step", "read", "write", "half", "end", "off"
  ops,      \* total_ops: dispatches submitted
  pending,  \* the batch of the dispatch submitted last
  lastDps,  \* last_dps: the batch this step reads back
  table,    \* points in the DP table
  key,      \* result of the step: "none", "good" or "wrong"
  toWrite,  \* points of lastDps not yet written to the file
  found,    \* number of points found so far, by this process and those before it
  born,     \* value of found when this process started
  starts,   \* how often the solver was started
  outcome,  \* "running", "found", "limit" or "failed"
  torn      \* history: whether a record was ever cut short

solverVars == <<at, ops, pending, lastDps, table, key, toWrite, found, born, starts, outcome,
                torn>>

AllOf(seq) == {seq[i] : i \in DOMAIN seq}

-----------------------------------------------------------------------------
(* step_collect: the new dispatch is counted, the one before is to be read; ... *)
StepCollect ==
  /\ at = "step"
  /\ at' = "read"
  /\ ops' = ops + 1
  /\ \E n \in 0 .. MaxBatch :
       /\ found + n <= MaxPoints
       /\ found' = found + n
       /\ pending' = [i \in 1 .. n |-> found + i]
  /\ lastDps' = pending
  /\ UNCHANGED <<file, table, key, toWrite, born, starts, outcome, torn>>

(* ... that readback may fail, and the error ends the program. *)
ReadFails ==
  /\ at = "read"
  /\ at' = "end"
  /\ outcome' = "failed"
  /\ UNCHANGED <<file, ops, pending, lastDps, table, key, toWrite, found, born, starts, torn>>

Completes(i, sets) ==
  \E m \in sets : lastDps[i] \in m /\ m \subseteq table \cup {lastDps[j] : j \in 1 .. i}

Yields(i) == Completes(i, Meetings) \/ Completes(i, Wrong)

(* Mutant: the points a step leaves unchecked when it has a key are not kept. *)
StepInsertDropsRest ==
  /\ at = "read"
  /\ at' = "write"
  /\ LET hits == {i \in DOMAIN lastDps : Yields(i)}
         upTo == IF hits = {} THEN Len(lastDps) ELSE CHOOSE i \in hits : \A j \in hits : i <= j
     IN /\ table' = table \cup {lastDps[i] : i \in 1 .. upTo}
        /\ key' = IF hits = {} THEN "none"
                  ELSE IF Completes(upTo, Meetings) THEN "good" ELSE "wrong"
        /\ toWrite' = SubSeq(lastDps, 1, upTo)
  /\ UNCHANGED <<file, ops, pending, lastDps, found, born, starts, outcome, torn>>

(* The rest of step: the points go into the table up to the first that yields a
   key; all of them stay in last_dps. *)
StepInsert ==
  /\ at = "read"
  /\ at' = "write"
  /\ LET hits == {i \in DOMAIN lastDps : Yields(i)}
         upTo == IF hits = {} THEN Len(lastDps) ELSE CHOOSE i \in hits : \A j \in hits : i <= j
     IN /\ table' = table \cup {lastDps[i] : i \in 1 .. upTo}
        /\ key' = IF hits = {} THEN "none"
                  ELSE IF Completes(upTo, Meetings) THEN "good" ELSE "wrong"
  /\ toWrite' = lastDps
  /\ UNCHANGED <<file, ops, pending, lastDps, found, born, starts, outcome, torn>>

(* A record is written at once, or in two calls between which the bridge may read;
   errors are ignored, so what the first call wrote may be all.  (Bound: one error,
   or as many as the process is killed within a record.) *)
WriteRecord ==
  /\ at = "write"
  /\ toWrite # << >>
  /\ \/ /\ file' = file \o Record(Head(toWrite))
        /\ toWrite' = Tail(toWrite)
        /\ UNCHANGED <<at, torn>>
     \/ /\ file' = Append(file, Piece(Head(toWrite), 1))
        /\ at' = "half"
        /\ UNCHANGED <<toWrite, torn>>
     \/ /\ ~torn
        /\ torn' = TRUE
        /\ toWrite' = Tail(toWrite)
        /\ UNCHANGED <<file, at>>
  /\ UNCHANGED <<ops, pending, lastDps, table, key, found, born, starts, outcome>>

WriteRest ==
  /\ at = "half"
  /\ \/ file' = Append(file, Piece(Head(toWrite), 2)) /\ UNCHANGED torn
     \/ ~torn /\ torn' = TRUE /\ UNCHANGED file
  /\ toWrite' = Tail(toWrite)
  /\ at' = "write"
  /\ UNCHANGED <<ops, pending, lastDps, table, key, found, born, starts, outcome>>

(* Mutant: the limit is looked at before the key. *)
VerdictLimitFirst ==
  /\ at = "write"
  /\ toWrite = << >>
  /\ \/ MaxOps # 0 /\ ops >= MaxOps /\ at' = "end" /\ outcome' = "limit"
     \/ /\ MaxOps = 0 \/ ops < MaxOps
        /\ IF key = "good" THEN at' = "end" /\ outcome' = "found"
                           ELSE at' = "step" /\ UNCHANGED outcome
  /\ UNCHANGED <<file, ops, pending, lastDps, table, key, toWrite, found, born, starts, torn>>

(* A key is verified; one that fails goes round again without a look at the limit. *)
Verdict ==
  /\ at = "write"
  /\ toWrite = << >>
  /\ \/ key = "good" /\ at' = "end" /\ outcome' = "found"
     \/ key = "wrong" /\ at' = "step" /\ UNCHANGED outcome
     \/ key = "none" /\ MaxOps # 0 /\ ops >= MaxOps /\ at' = "end" /\ outcome' = "limit"
     \/ key = "none" /\ (MaxOps = 0 \/ ops < MaxOps) /\ at' = "step" /\ UNCHANGED outcome
  /\ UNCHANGED <<file, ops, pending, lastDps, table, key, toWrite, found, born, starts, torn>>

Fresh ==
  /\ ops' = 0 /\ pending' = << >> /\ lastDps' = << >> /\ table' = {}
  /\ key' = "none" /\ toWrite' = << >> /\ born' = found /\ outcome' = "running"

(* The process is killed, perhaps within a record: what it had in memory is gone. *)
KillSolver ==
  /\ at \notin {"end", "off"}
  /\ at' = "off"
  /\ torn' = (torn \/ at = "half")
  /\ Fresh
  /\ UNCHANGED <<file, found, starts>>

(* Another one starts, with an empty table. *)
RestartSolver ==
  /\ at \in {"end", "off"}
  /\ starts < MaxStarts
  /\ starts' = starts + 1
  /\ at' = "step"
  /\ Fresh
  /\ UNCHANGED <<file, found, torn>>

SolverInit ==
  /\ at = "step" /\ ops = 0 /\ pending = << >> /\ lastDps = << >> /\ table = {}
  /\ key = "none" /\ toWrite = << >> /\ found = 0 /\ born = 0
  /\ outcome = "running" /\ torn = FALSE /\ starts = 1

SolverNext ==
  \/ StepCollect \/ ReadFails \/ StepInsert \/ WriteRecord \/ WriteRest \/ Verdict
  \/ KillSolver \/ RestartSolver
=============================================================================
