------------------------------ MODULE MCMultiGpu ------------------------------
(* MultiGpu with a tame and a wild point that meet, and a false candidate. *)
EXTENDS MultiGpu

CONSTANTS tame, wild, bogus

MCCandidate == {tame, wild, bogus}
MCDP == {tame, wild}
MCBatches == {{}, {tame, bogus}, {wild}}
MCMeetings == {{tame, wild}}
=============================================================================
