----------------------------- MODULE MCJacobianWalk -----------------------------
(* The curve y^2 = x^3 + 7 over 43 elements, of order 31, with four jumps. *)
EXTENDS JacobianWalk

CONSTANTS k1, k2

MCBase == [x |-> 2, y |-> 12]
MCJumpDistance == [i \in 0 .. Jumps - 1 |-> <<1, 2, 5, 9>>[i + 1]]
MCJumpHash(x) == (x * 5 + 1) % Jumps
MCEscapeHash(x, k, cycle, step) ==
  (x * 3 + (IF k = k1 THEN 0 ELSE 2) + cycle + step) % Jumps
MCTameAndWild == {[k \in Kangaroos |-> IF k = k1 THEN Tame ELSE t] : t \in {Wild1, Wild2}}
MCOffsets == {-2, 0}
MCStill == {0}
=============================================================================
