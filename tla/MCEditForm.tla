----------------------------- MODULE MCEditForm -----------------------------
(***************************************************************************)
(* Two records, so that a component can stay on the screen from one to the *)
(* other.                                                                  *)
(***************************************************************************)
EXTENDS EditForm, TLC

Symmetry == Permutations(Targets)

=============================================================================
