------------------------------ MODULE PoolBridge ------------------------------
(***************************************************************************)
(* bridge/pool_bridge.py: reads the records the solver appends to the file  *)
(* and submits them to a pool, over a connection that may break at any      *)
(* time.  The bridge may be killed and started again.                       *)
(*                                                                         *)
(* Assignments of work are numbered as the bridge learns of them; Nothing is *)
(* an assignment not there yet.  A link that is "half" open is a socket     *)
(* that is connected but on which connect() got no work.  What is still on  *)
(* its way when the connection breaks is lost: that is decided when it is   *)
(* sent, and the bridge learns of the break later.                          *)
(***************************************************************************)
EXTENDS DpFile, FiniteSets

CONSTANTS
  MaxDpsPerBatch,   \* MAX_DPS_PER_BATCH (10000)
  MaxPacked,        \* points that fit a payload whose size is a u16 (840)
  InitialAttempts,  \* attempts to connect at the start (10) ...
  Retries,          \* ... and after an error (5)
  MaxAssignments,   \* bound: assignments of work
  MaxLives          \* bound: starts of the bridge

ASSUME BridgeAssumption ==
  /\ MaxDpsPerBatch \in Nat \ {0} /\ MaxPacked \in Nat
  /\ InitialAttempts \in Nat \ {0} /\ Retries \in Nat \ {0}

VARIABLES
  loop,        \* "connect", "read", "submit", "check", "reconnect" or "dead"
  attempts,    \* attempts made in the loop that is connecting
  offset,      \* DPFileReader.offset
  dps,         \* records read and not yet submitted
  connected,   \* PoolConnection.connected
  work,        \* PoolConnection.work
  sequence,    \* PoolConnection.sequence
  link,        \* the socket: "up", "half", "broken" (the peer is gone) or "down"
  garbled,     \* the next bytes of the socket are the middle of a frame
  received,    \* history: submissions that reach the pool, in order
  assignments, \* how many assignments of work there were
  life         \* which start of the bridge this is

poolVars == <<connected, work, sequence, link, garbled, received, assignments>>
bridgeVars == <<loop, attempts, offset, dps, life, poolVars>>

Nothing == 0

(* DP_BATCH_V2's record, the record of the file in it, and who sent it. *)
Entry(record, seq) == [record |-> record, work |-> work, sequence |-> seq, life |-> life]

-----------------------------------------------------------------------------
(* connect(): work has been received, ... *)
Connects ==
  /\ assignments < MaxAssignments
  /\ assignments' = assignments + 1
  /\ work' = assignments'
  /\ connected' = TRUE
  /\ sequence' = 0
  /\ link' = "up"
  /\ garbled' = FALSE
  /\ UNCHANGED received

(* ... or not: there is no connection, or one on which no work came in, so that
   there may be no work any more. *)
FailsToConnect ==
  /\ \/ link' = "down" /\ UNCHANGED work
     \/ link' = "half" /\ work' \in {work, Nothing}
  /\ garbled' = FALSE
  /\ UNCHANGED <<connected, sequence, received, assignments>>

(* The first connection; without one there is no work whose type can be shown. *)
ConnectFirst ==
  /\ loop = "connect"
  /\ \/ Connects /\ loop' = "read" /\ attempts' = 0
     \/ /\ FailsToConnect
        /\ attempts' = attempts + 1
        /\ loop' = IF attempts' = InitialAttempts THEN "dead" ELSE loop
  /\ UNCHANGED <<offset, dps, life>>

(* reconnect() closes the socket before it waits. *)
CloseSocket ==
  /\ connected' = FALSE
  /\ link' = "down"
  /\ garbled' = FALSE

(* An error the main loop catches; what was read is forgotten. *)
Raises ==
  /\ loop' = "reconnect"
  /\ attempts' = 0
  /\ dps' = << >>
  /\ CloseSocket
  /\ UNCHANGED <<offset, work, sequence, received, assignments, life>>

Reconnect ==
  /\ loop = "reconnect"
  /\ \/ Connects /\ loop' = "read" /\ attempts' = 0
     \/ /\ FailsToConnect
        /\ attempts' = (attempts + 1) % Retries
        /\ loop' = IF attempts' = 0 THEN "read" ELSE loop
  /\ UNCHANGED <<offset, dps, life>>

(* Mutant: the reader goes on at the end of the file, also behind half a record. *)
ReadToTheEnd ==
  /\ loop = "read"
  /\ LET fresh == (Len(file) - offset) \div RecordSize
     IN /\ dps' = [i \in 1 .. fresh |-> SubSeq(file, offset + RecordSize * (i - 1) + 1,
                                               offset + RecordSize * i)]
        /\ offset' = Len(file)
  /\ loop' = IF dps' = << >> THEN "check" ELSE "submit"
  /\ UNCHANGED <<file, attempts, life, poolVars>>

(* read_new_dps: whole records only, and the offset moves behind them. *)
ReadNewDps ==
  /\ loop = "read"
  /\ LET fresh == (Len(file) - offset) \div RecordSize
     IN /\ dps' = [i \in 1 .. fresh |-> SubSeq(file, offset + RecordSize * (i - 1) + 1,
                                               offset + RecordSize * i)]
        /\ offset' = offset + RecordSize * fresh
  /\ loop' = IF dps' = << >> THEN "check" ELSE "submit"
  /\ UNCHANGED <<file, attempts, life, poolVars>>

Batch == SubSeq(dps, 1, IF Len(dps) < MaxDpsPerBatch THEN Len(dps) ELSE MaxDpsPerBatch)

Entries == [i \in DOMAIN Batch |-> Entry(Batch[i], sequence + i - 1)]

(* What of the batch reaches the pool when the connection breaks meanwhile. *)
ReachesPool(n) == received' = received \o SubSeq(Entries, 1, IF link = "up" THEN n ELSE 0)

(* Mutant: what was read is read again after an error. *)
SendFailsAndRewinds ==
  /\ loop' = "reconnect"
  /\ attempts' = 0
  /\ offset' = offset - RecordSize * Len(dps)
  /\ dps' = << >>
  /\ CloseSocket
  /\ \E n \in 0 .. Len(Batch) : ReachesPool(n)
  /\ UNCHANGED <<work, sequence, assignments, life>>

(* sendall fails, perhaps after some of the batch.  (The sequence numbers are used
   up, but connect() starts again from zero.) *)
SendFails ==
  /\ loop' = "reconnect"
  /\ attempts' = 0
  /\ dps' = << >>
  /\ CloseSocket
  /\ \E n \in 0 .. Len(Batch) : ReachesPool(n)
  /\ UNCHANGED <<offset, work, sequence, assignments, life>>

SequenceAfter == sequence + Len(Batch)

Submitted ==
  /\ dps' = SubSeq(dps, Len(Batch) + 1, Len(dps))
  /\ loop' = IF dps' = << >> THEN "check" ELSE loop

(* submit_dps for the next batch; without a connection the batch is forgotten. *)
SubmitDps ==
  /\ loop = "submit"
  /\ \/ /\ ~connected
        /\ Submitted
        /\ UNCHANGED <<attempts, offset, life, poolVars>>
     \/ /\ connected /\ Len(Batch) > MaxPacked
        /\ loop' = "dead"
        /\ UNCHANGED <<attempts, offset, dps, life, poolVars>>
     \/ /\ connected /\ Len(Batch) <= MaxPacked
        /\ Submitted
        /\ sequence' = SequenceAfter
        /\ \/ ReachesPool(Len(Batch)) /\ UNCHANGED link
           \/ /\ \E n \in 0 .. Len(Batch) : ReachesPool(n)
              /\ link' = "broken"
        /\ garbled' = (garbled /\ link' = link)
        /\ UNCHANGED <<attempts, offset, life, connected, work, assignments>>
     \/ connected /\ Len(Batch) <= MaxPacked /\ SendFails

(* check_messages: nothing, or a message that changes nothing; ... *)
CheckNothing ==
  /\ loop = "check"
  /\ link \in {"up", "half"} /\ ~garbled
  /\ loop' = "read"
  /\ UNCHANGED <<attempts, offset, dps, life, poolVars>>

(* Mutant: new work, old sequence. *)
CheckNewWorkOnly ==
  /\ loop = "check"
  /\ link \in {"up", "half"} /\ ~garbled
  /\ assignments < MaxAssignments
  /\ assignments' = assignments + 1
  /\ work' = assignments'
  /\ loop' = "read"
  /\ UNCHANGED <<attempts, offset, dps, life, connected, link, garbled, received, sequence>>

(* ... new work; connected stays as it is; ... *)
CheckNewWork ==
  /\ loop = "check"
  /\ link \in {"up", "half"} /\ ~garbled
  /\ assignments < MaxAssignments
  /\ assignments' = assignments + 1
  /\ work' = assignments'
  /\ sequence' = 0
  /\ loop' = "read"
  /\ UNCHANGED <<attempts, offset, dps, life, connected, link, garbled, received>>

(* ... the first bytes of a frame when the time is over: they are thrown away, and
   what follows has a bad magic: a ValueError, which nobody catches; ... *)
CheckHalfAFrame ==
  /\ loop = "check"
  /\ link \in {"up", "half"}
  /\ IF garbled THEN loop' = "dead" /\ UNCHANGED garbled
                ELSE loop' = "read" /\ garbled' = TRUE
  /\ UNCHANGED <<attempts, offset, dps, life, connected, work, sequence, link, received,
                 assignments>>

(* ... or an error of the socket. *)
CheckRaises == loop = "check" /\ link \in {"broken", "down"} /\ Raises

(* The peer closes the connection or the network loses it, and with it the rest of
   a frame; of importance only to a bridge that is in its loop. *)
Break ==
  /\ loop \in {"read", "submit", "check"}
  /\ link \in {"up", "half"}
  /\ link' = "broken"
  /\ garbled' = FALSE
  /\ UNCHANGED <<loop, attempts, offset, dps, life, connected, work, sequence, received,
                 assignments>>

(* Killed or dead, the bridge starts from the beginning of the file. *)
RestartBridge ==
  /\ life < MaxLives
  /\ life' = life + 1
  /\ loop' = "connect" /\ attempts' = 0 /\ offset' = 0 /\ dps' = << >>
  /\ connected' = FALSE /\ work' = Nothing /\ sequence' = 0 /\ link' = "down"
  /\ garbled' = FALSE
  /\ UNCHANGED <<received, assignments>>

BridgeInit ==
  /\ loop = "connect" /\ attempts = 0 /\ offset = 0 /\ dps = << >> /\ life = 1
  /\ connected = FALSE /\ work = Nothing /\ sequence = 0 /\ link = "down"
  /\ garbled = FALSE /\ received = << >> /\ assignments = 0

MainLoop ==
  \/ ConnectFirst \/ Reconnect \/ ReadNewDps \/ SubmitDps
  \/ CheckNothing \/ CheckNewWork \/ CheckHalfAFrame \/ CheckRaises

BridgeNext == (MainLoop \/ Break \/ RestartBridge) /\ UNCHANGED file
=============================================================================
