--------------------------- MODULE MCAccessControl ---------------------------
(***************************************************************************)
(* An instance of AccessControl for TLC.                                   *)
(***************************************************************************)
EXTENDS AccessControl

CONSTANTS u1, u2, admins, staff, team

RolePermissions ==
  [g \in Groups |-> CASE g = admins -> {"records.*.write", "groups.manage"}
                      [] g = staff  -> {"records.*.read"}
                      [] g = team   -> {}]

Owners == [g \in Groups |-> IF g = team THEN u1 ELSE Nobody]
=============================================================================
