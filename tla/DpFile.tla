-------------------------------- MODULE DpFile --------------------------------
(***************************************************************************)
(* The file through which the solver hands distinguished points to the pool *)
(* bridge: records of 66 bytes, one behind the other, no separator.  Here a *)
(* record is two pieces, its x and its distance (with type and dp_bits).    *)
(***************************************************************************)
EXTENDS Integers, Sequences

VARIABLE file

RecordSize == 2

Piece(dp, half) == [dp |-> dp, half |-> half]

Record(dp) == <<Piece(dp, 1), Piece(dp, 2)>>

(* The records of the file as a reader who starts at its beginning cuts it. *)
Records == [i \in 1 .. Len(file) \div RecordSize |->
              SubSeq(file, RecordSize * (i - 1) + 1, RecordSize * i)]
=============================================================================
