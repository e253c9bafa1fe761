--------------------------- MODULE MCCmdbRegistry ---------------------------
(***************************************************************************)
(* Instances of CmdbRegistry for TLC: cmdb_ci, a built-in class below it,  *)
(* and a class that does not exist at first.                               *)
(***************************************************************************)
EXTENDS CmdbRegistry, TLC

CONSTANTS root, server, a, p1, q1, q2

MCBuiltin == [c \in Classes |-> CASE c = root -> None [] c = server -> root [] OTHER -> Absent]

\* extra directories: one adds a class, the other hangs the built-in one below it
Extras == {[MCBuiltin EXCEPT ![a] = server], [MCBuiltin EXCEPT ![a] = root, ![server] = a]}

OneProcess == [q \in Requests |-> p1]

Interchangeable == Permutations({q1, q2})
=============================================================================
