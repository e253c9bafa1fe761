--------------------------- MODULE MCPreferences ---------------------------
(***************************************************************************)
(* The columns of two lists, the layout density, which earlier versions    *)
(* kept in the browser, and two users: one with a choice of his own, and   *)
(* one who at most resets a setting.                                       *)
(***************************************************************************)
EXTENDS Preferences, TLC

CONSTANTS a, b, x

MCOwnOf == (a :> {x}) @@ (b :> {})

Symmetry == Permutations(Tables)

=============================================================================
