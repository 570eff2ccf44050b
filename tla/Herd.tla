--------------------------------- MODULE Herd ---------------------------------
(***************************************************************************)
(* The walks of module Walk and the table of module DPTable together: the  *)
(* host takes the reported points out of the DP buffer one by one, in any  *)
(* order, and inserts them (KangarooSolver::step, src/solver.rs).          *)
(***************************************************************************)
EXTENDS Walk, DPTable

herdVars == <<walkVars, tableVars>>

Insert(dp) == Collect(dp) /\ InsertAndCheck(dp)

(* The search ends with the key, so the herd is followed no further. *)
Graze ==
  /\ found = {}
  /\ \E k \in Kangaroos : Step(k) \/ Look(k)
  /\ UNCHANGED tableVars

HerdInit == Init /\ TableInit

HerdNext == Graze \/ \E dp \in reports : Insert(dp)

HerdSpec == HerdInit /\ [][HerdNext]_herdVars

-----------------------------------------------------------------------------
(* The table is used as DPTable expects it: whatever the walks report, after any
   number of reflections and escapes, is a point the table can resolve. *)
ImplementsTable == TableSpec

(* Whatever a tame and a wild kangaroo went through on their ways, the search has
   the key once their reports of one affine x have been read out. *)
MeetingIsSolved == TameWildMeetingSolves

(* Two wild kangaroos of opposite types that stand on one point, having taken the
   opposite point with the same parity on their ways: k = (walked - walked') / 2 or
   its negation, and the search has it when the second report is read out, whatever
   reflections, escapes and wrapped words there were on the two ways. *)
SameSignMeetingSolves ==
  [][\A a, b \in Kangaroos :
       LET at(k) == Report(kangaroo[k], kangaroo[k])
       IN ( /\ {kangaroo[a].ktype, kangaroo[b].ktype} = {Wild1, Wild2}
            /\ kangaroo[a].log = kangaroo[b].log
            /\ path[a].sign = path[b].sign
            /\ at(a) \in reports
            /\ at(b) \in Stored
            /\ Insert(at(a)) )
          => found' = {pubkey}]_herdVars
=============================================================================
