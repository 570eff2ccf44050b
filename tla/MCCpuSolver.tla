------------------------------ MODULE MCCpuSolver ------------------------------
(* CpuSearch over a group of order 61 with limbs of base 4: four jumps, every
   eighth of the low parts distinguished, low parts that tell all x apart. *)
EXTENDS CpuSearch

MCXLow == [x \in AffineCoord |-> (x * 7) % 31]
MCOdd == {p \in Scalar \ {0} : AffineX(p) % 3 = 1 <=> p < N - p}
MCJumpDistance == [i \in JumpIndex |-> <<3, 1, 4, 6>>[i + 1]]
MCConstraints == {<<m, r>> : m \in 0 .. 3, r \in 0 .. 3}
=============================================================================
