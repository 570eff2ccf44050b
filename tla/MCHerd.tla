-------------------------------- MODULE MCHerd --------------------------------
(* A tame kangaroo and a wild one of either type, or two wild ones. *)
EXTENDS Herd

CONSTANTS k1, k2

MCJumpDistance == [i \in JumpIndex |-> <<1, 2>>[i + 1]]
MCTypes == {[k \in Kangaroos |-> pair[IF k = k1 THEN 1 ELSE 2]] :
              pair \in {<<Tame, Wild1>>, <<Tame, Wild2>>, <<Wild1, Wild2>>}}
MCOffsets == {0}
=============================================================================
