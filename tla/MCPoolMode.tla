------------------------------ MODULE MCPoolMode ------------------------------
(* Points 1 and 2 make the key, 2 and 3 (when 1 is not there, as after a restart) a
   key that is none. *)
EXTENDS PoolMode

MCMeetings == {{1, 2}}
MCWrong == {{2, 3}}
=============================================================================
