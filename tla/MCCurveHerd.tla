------------------------------ MODULE MCCurveHerd ------------------------------
(* CurveHerd with two wild kangaroos, on the curve of MCJacobianWalk. *)
EXTENDS CurveHerd, MCJacobianWalk

MCWildOffsets == {-3, -2, 0, 1, 3}
MCTwoWilds == {[k \in Kangaroos |-> IF k = k1 THEN Wild1 ELSE Wild2]}
=============================================================================
