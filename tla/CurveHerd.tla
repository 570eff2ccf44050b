------------------------------ MODULE CurveHerd ------------------------------
(***************************************************************************)
(* The two passes of the GPU on Jacobian coordinates (JacobianWalk) and the *)
(* table (DPTable) together, as KangarooSolver::step of src/solver.rs joins *)
(* them: parities, jumps and reports are the ones the formulas yield on the *)
(* curve, so a meeting in this module is one the shaders can produce.       *)
(***************************************************************************)
EXTENDS JacobianWalk

CONSTANTS MaxDistinguishedPoints, Buckets \* of DPTable

VARIABLES
  table, total, count, found, received, \* of DPTable
  ways  \* history: how kangaroos came to the distinguished points they stood on

Table == INSTANCE DPTable

tableVars == <<table, total, count, found, received>>

herdVars == <<vars, tableVars, ways>>

(* The report of the point a kangaroo stands on, and how it came there. *)
Way(k) ==
  [dp |-> Reported(k), sign |-> path[k].sign, walked |-> path[k].walked,
   log |-> Log(Point(kangaroo[k]))]

Ways == {Way(k) : k \in {j \in Kangaroos : Logs!IsDistinguished(WithLog(kangaroo[j]))}}

-----------------------------------------------------------------------------
(* The host takes the next candidate; what the exact check lets through goes to
   the table. *)
Insert ==
  /\ Collect
  /\ IF Verified(Head(buffer)) THEN Table!InsertAndCheck(Convert(Head(buffer)))
                               ELSE UNCHANGED tableVars
  /\ UNCHANGED ways

(* The GPU; the search ends with the key. *)
Graze ==
  /\ \A k \in Kangaroos : OnCurve(Point(kangaroo[k]))
  /\ \/ Dispatch \/ EndWalkPass \/ EndNormalizePass
     \/ \E k \in Kangaroos : Look(k) \/ Step(k) \/ NormalizeThread(k)
  /\ ways' = ways \cup Ways'
  /\ UNCHANGED tableVars

HerdInit == Init /\ Table!TableInit /\ ways = Ways

HerdNext == found = {} /\ (Graze \/ Insert)

HerdSpec == HerdInit /\ [][HerdNext]_herdVars

-----------------------------------------------------------------------------
(* The table hears of a wild1 and a wild2 kangaroo at one affine x: the report of b
   is stored, the one of a comes now. *)
WildsMeet(a, b) ==
  /\ {a.dp.ktype, b.dp.ktype} = {Wild1, Wild2}
  /\ a.dp.x = b.dp.x
  /\ b.dp \in Table!Stored
  /\ buffer # << >>
  /\ Verified(Head(buffer))
  /\ a.dp = Convert(Head(buffer))
  /\ Insert

(* The two ways tell the key: the key does not cancel out of the equation between
   the two points, sign * origin + walked and sign' * origin' + walked', which are
   equal or opposite. *)
TellsKey(a, b) == a.log = (a.sign * b.sign * b.log) % N

(* Every meeting of two wild kangaroos of opposite types that tells the key returns
   it: with the same sign they are at one point, with different signs at opposite
   ones, and k = (walked + walked') / 2 or its negation. *)
CrossWildMeetingSolves ==
  [][\A a, b \in ways : WildsMeet(a, b) /\ TellsKey(a, b) => found' = {pubkey}]_herdVars
=============================================================================
