------------------------------- MODULE Problem -------------------------------
(***************************************************************************)
(* What the walks and the table have in common: the problem of a search,   *)
(* and the points that walks report and the table stores                   *)
(* (GpuDistinguishedPoint of src/gpu/mod.rs).                              *)
(***************************************************************************)
EXTENDS KangarooAlgebra

CONSTANTS
  Reach,        \* bound on the length of a walk, in either direction
  StartScalars  \* range starts

ASSUME ProblemAssumption ==
  /\ Reach \in Nat
  /\ Reach < W
  /\ StartScalars \subseteq Scalar

VARIABLES
  start,  \* first scalar of the search range
  pubkey  \* logarithm of the public key: the secret

DistinguishedPoint == [x : XCoord, dist : Word, ktype : KType]
=============================================================================
