SPECIFICATION AccessSpec
CONSTANTS
  u1 = u1
  u2 = u2
  admins = admins
  staff = staff
  team = team
  Users = {u1, u2}
  Groups = {admins, staff, team}
  PermissionsOf <- RolePermissions
  GroupOwner <- Owners
  MaxTime = 1
  MaxGrants = 1
  Nobody = Nobody
INVARIANTS ListMatchesDecision
