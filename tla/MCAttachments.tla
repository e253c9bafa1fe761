---------------------------- MODULE MCAttachments ----------------------------
(***************************************************************************)
(* An instance of Attachments for TLC.                                     *)
(***************************************************************************)
EXTENDS Attachments, TLC

Alike == Permutations(Sessions) \cup Permutations(Replicas) \cup Permutations(Uploads)
=============================================================================
