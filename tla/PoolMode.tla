-------------------------------- MODULE PoolMode --------------------------------
(***************************************************************************)
(* A solver that writes its distinguished points to a file and the bridge   *)
(* that reads them from there: two processes and a pool, which share        *)
(* nothing else.                                                            *)
(***************************************************************************)
EXTENDS SingleGpu, PoolBridge

vars == <<file, solverVars, bridgeVars>>

Init == file = << >> /\ SolverInit /\ BridgeInit

Next ==
  \/ SolverNext /\ UNCHANGED bridgeVars
  \/ BridgeNext /\ UNCHANGED solverVars

Safety == Init /\ [][Next]_vars

(* The bridge's loop goes round, with a sleep of half a second. *)
Spec == Safety /\ WF_vars(MainLoop /\ UNCHANGED <<file, solverVars>>)

-----------------------------------------------------------------------------
(* One life of the solver's loop is a Search: a step's points are checked one batch
   behind, a key ends the loop even at the limit, and a key that is none does not. *)
Search == INSTANCE Search WITH
  DP <- 1 .. MaxPoints,
  produced <- born + 1 .. found,
  checked <- table,
  outcome <- IF outcome = "failed" THEN "stopped" ELSE outcome

EachLifeImplementsSearch ==
  Search!Init /\ [][Search!Next \/ (born' = found /\ Search!Init')]_<<born + 1 .. found, table, outcome>>

(* When a step begins and when the loop has ended with a key or at the limit, every
   point the GPU has found for this process is a record of the file, but for those of
   the dispatch submitted last (unless a write failed). *)
BatchesAreRecorded ==
  (at = "step" \/ outcome \in {"found", "limit"}) /\ ~torn =>
    \A dp \in (born + 1 .. found) \ AllOf(pending) : Record(dp) \in AllOf(Records)

(* Within one start of the bridge the pool receives records as the solver wrote
   them, none twice, in the order of the file, whatever breaks between: the reader
   never takes half a record for a whole one nor goes back (unless a write failed). *)
RecordsArriveOnce ==
  ~torn =>
    \A i, j \in DOMAIN received :
      /\ received[i].record = Record(received[i].record[1].dp)
      /\ i < j /\ received[i].life = received[j].life =>
           received[i].record[1].dp < received[j].record[1].dp

(* The submissions of one assignment are numbered 0, 1, 2 ... without a gap, also
   across batches and when the connection is lost in the middle of one: each has as
   many before it as its number says. *)
SequenceIsConsecutive ==
  \A j \in DOMAIN received :
    received[j].sequence = Cardinality({i \in 1 .. j - 1 : received[i].work = received[j].work})

Healthy == connected /\ link = "up" /\ loop # "dead"

Unread(i) == RecordSize * i <= Len(file) /\ offset < RecordSize * i

(* A record is received by the pool if the connection lasts (and the bridge with
   it). *)
RecordsAreReceived ==
  \A i \in 1 .. MaxPoints :
    Unread(i) ~> \/ ~Healthy
                 \/ i <= Len(Records) /\ \E j \in DOMAIN received :
                      received[j].life = life /\ received[j].record = Records[i]
=============================================================================
