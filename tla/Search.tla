-------------------------------- MODULE Search --------------------------------
(***************************************************************************)
(* What a solve loop of src/lib.rs promises, whatever runs the kangaroos:  *)
(* distinguished points are produced and checked, and the search ends with *)
(* the key exactly when the points checked contain a meeting that gives it. *)
(***************************************************************************)
CONSTANTS
  DP,       \* distinguished points the walks can report
  Meetings  \* the sets of points that yield the key once all are in the DP table

VARIABLES produced, checked, outcome

vars == <<produced, checked, outcome>>

Solved(dps) == \E m \in Meetings : m \subseteq dps

Init ==
  /\ produced = {}
  /\ checked = {}
  /\ outcome = "running"

Produce ==
  /\ outcome = "running"
  /\ produced' \in {produced \cup dps : dps \in SUBSET DP}
  /\ UNCHANGED <<checked, outcome>>

Check ==
  /\ outcome = "running"
  /\ ~Solved(checked)
  /\ checked' \in {checked \cup dps : dps \in SUBSET produced}
  /\ UNCHANGED <<produced, outcome>>

Conclude ==
  /\ outcome = "running"
  /\ outcome' \in IF Solved(checked) THEN {"found"} ELSE {"limit", "stopped"}
  /\ UNCHANGED <<produced, checked>>

Next == Produce \/ Check \/ Conclude

Spec == Init /\ [][Next]_vars
=============================================================================
