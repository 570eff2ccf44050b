----------------------------- MODULE MCDPTable -----------------------------
(* DPTable over a group of order 7, with every secret. *)
EXTENDS DPTable
=============================================================================
