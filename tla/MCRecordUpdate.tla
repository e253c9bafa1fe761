--------------------------- MODULE MCRecordUpdate ---------------------------
(***************************************************************************)
(* Instances of RecordUpdate for TLC.                                      *)
(***************************************************************************)
EXTENDS RecordUpdate, TLC

CONSTANTS r1, r2, v1, v2

Same == Permutations({r1, r2}) \cup Permutations({v1, v2})
=============================================================================
