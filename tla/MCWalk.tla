-------------------------------- MODULE MCWalk --------------------------------
(* Walk over a group of order 7 with three jumps. *)
EXTENDS Walk

MCJumpDistance == [i \in JumpIndex |-> <<1, 2, 4>>[i + 1]]
MCTypes == [Kangaroos -> KType]
MCOffsets == {-2, 0, 1}
=============================================================================
