---------------------------- MODULE AccessControl ----------------------------
(***************************************************************************)
(* Who may see and change a record (backend/app/auth/rbac.py): the         *)
(* decision on one record, resolve_record_permissions, and the filter of   *)
(* lists, filter_record_list_query, which says the same in SQL.            *)
(*                                                                         *)
(* One record of a table that has owners is enough: nothing here relates   *)
(* two.  Reading memberships, grants and the record is one step.  Several   *)
(* rows that say the same are one here: one of them may go without effect. *)
(***************************************************************************)
EXTENDS Naturals, FiniteSets

CONSTANTS
  Users, Groups,
  PermissionsOf,  \* the permissions of every group, through its roles
  GroupOwner,     \* the owner of every group, or Nobody
  MaxTime,        \* bound on the clock
  MaxGrants,      \* bound on the grants there are at a time
  Nobody

Permissions == {"records.*.read", "records.*.write", "groups.manage"}

ASSUME AccessAssumption ==
  /\ Nobody \notin Users \cup Groups
  /\ Users \cap Groups = {}
  /\ PermissionsOf \in [Groups -> SUBSET Permissions]
  /\ GroupOwner \in [Groups -> Users \cup {Nobody}]
  /\ MaxTime \in Nat /\ MaxGrants \in Nat

VARIABLES
  members,  \* sys_user_grmember: <<user, group>>
  record,   \* its owner, owner_group and assigned_to
  grants,   \* record_access_grant of the record
  now       \* the clock

accessVars == <<members, record, grants, now>>

Record == [owner : Users \cup {Nobody}, owner_group : Groups \cup {Nobody}, assigned_to : Users \cup {Nobody}]
Never == 0

\* a row of record_access_grant may name a user, a group, both or neither, and
\* its level is a string: "other" stands for all that no decision asks for
Grant == [user : Users \cup {Nobody}, group : Groups \cup {Nobody}, level : {"view", "comment", "other"},
          until : 0 .. MaxTime]

AccessTypeOK ==
  /\ members \subseteq Users \X Groups
  /\ record \in Record
  /\ grants \subseteq Grant /\ Cardinality(grants) <= MaxGrants
  /\ now \in 0 .. MaxTime

-----------------------------------------------------------------------------
(***************************************************************************)
(* The decision on the record.                                             *)
(***************************************************************************)

GroupsOf(u) == {g \in Groups : <<u, g>> \in members}

PermissionsOfUser(u) == UNION {PermissionsOf[g] : g \in GroupsOf(u)}

Everything == {"read", "write", "comment", "delete"}

\* the grant has no end, or not reached it
Active(a) == a.until = Never \/ a.until > now

\* it names the user or a group of his
IsTo(a, u) == a.user = u \/ a.group \in GroupsOf(u)

\* _active_grants_for_record: the levels of the grants a user has
Levels(u) == {a.level : a \in {b \in grants : Active(b) /\ IsTo(b, u)}}

\* resolve_record_permissions
Rights(u) ==
  LET wide == IF "records.*.read" \in PermissionsOfUser(u) THEN {"read"} ELSE {}
      own  == IF record.assigned_to = u THEN {"read", "write", "comment"} ELSE {}
      lent == (IF "comment" \in Levels(u) THEN {"read", "comment"} ELSE {})
              \cup (IF "view" \in Levels(u) THEN {"read"} ELSE {})
  IN  IF \/ "records.*.write" \in PermissionsOfUser(u)
         \/ record.owner = u
         \/ record.owner_group \in GroupsOf(u)
      THEN Everything
      ELSE wide \cup own \cup lent

\* assert_record_action
Allowed(u, action) == action \in Rights(u) \/ (action = "comment" /\ "write" \in Rights(u))

-----------------------------------------------------------------------------
(***************************************************************************)
(* The filter of lists.                                                    *)
(***************************************************************************)

\* variant: any grant counts
ListedByAnyGrant(u) ==
  \/ "records.*.read" \in PermissionsOfUser(u)
  \/ record.owner = u
  \/ record.owner_group \in GroupsOf(u)
  \/ \E a \in grants : IsTo(a, u)

\* filter_record_list_query: the record is in the lists of u
Listed(u) ==
  \/ "records.*.read" \in PermissionsOfUser(u)
  \/ record.owner = u
  \/ record.owner_group \in GroupsOf(u)
  \/ \E a \in grants : Active(a) /\ IsTo(a, u)

-----------------------------------------------------------------------------
(***************************************************************************)
(* What changes either.                                                    *)
(***************************************************************************)

AccessInit ==
  /\ members \in SUBSET (Users \X Groups)
  /\ record \in [owner : {Nobody}, owner_group : {Nobody}, assigned_to : Users \cup {Nobody}]
  /\ grants = {}
  /\ now = 0

\* somebody who may write the record, or whom the permission or the group lets
\* change its members
Writers == {u \in Users : Allowed(u, "write")}
Managers == {u \in Users : "groups.manage" \in PermissionsOfUser(u)}
OwnersOf(g) == {GroupOwner[g]} \cap Users

\* update_record
Edit ==
  /\ Writers # {}
  /\ record' \in Record
  /\ UNCHANGED <<members, grants, now>>

\* create_grant, and create_record on record_access_grant, which takes any row
CreateGrant ==
  /\ Writers # {}
  /\ \E a \in Grant : Cardinality(grants \cup {a}) <= MaxGrants /\ grants' = grants \cup {a}
  /\ UNCHANGED <<members, record, now>>

\* update_record on it, which reads nothing of the record the grant is for
UpdateGrant ==
  /\ \E a \in grants, b \in Grant : grants' = (grants \ {a}) \cup {b}
  /\ UNCHANGED <<members, record, now>>

\* delete_grant, and delete_record on record_access_grant
DeleteGrant ==
  /\ Writers # {}
  /\ \E a \in grants : grants' = grants \ {a}
  /\ UNCHANGED <<members, record, now>>

\* create_record on sys_user_grmember: assert_platform_action without a record
Join(v, g) ==
  /\ Managers # {}
  /\ members' = members \cup {<<v, g>>}
  /\ UNCHANGED <<record, grants, now>>

\* delete_record on it: the owner of the group may as well
Leave(v, g) ==
  /\ Managers \cup OwnersOf(g) # {}
  /\ members' = members \ {<<v, g>>}
  /\ UNCHANGED <<record, grants, now>>

\* update_record on it: the same check, whatever it is changed to
Move(v, g) ==
  /\ <<v, g>> \in members
  /\ Managers \cup OwnersOf(g) # {}
  /\ \E m \in Users \X Groups : members' = (members \ {<<v, g>>}) \cup {m}
  /\ UNCHANGED <<record, grants, now>>

Tick ==
  /\ now < MaxTime
  /\ now' = now + 1
  /\ UNCHANGED <<members, record, grants>>

AccessNext ==
  \/ Edit
  \/ CreateGrant \/ UpdateGrant \/ DeleteGrant
  \/ \E v \in Users, g \in Groups : Join(v, g) \/ Leave(v, g) \/ Move(v, g)
  \/ Tick

AccessSpec == AccessInit /\ [][AccessNext]_accessVars

-----------------------------------------------------------------------------
(***************************************************************************)
(* Properties.                                                             *)
(***************************************************************************)

\* What a list shows can be opened, but for who has only a grant of a level the
\* decision does not know; what can be opened is listed, except for who is
\* assigned to it only, or may write every record and not read them.
ListMatchesDecision ==
  \A u \in Users :
    /\ Listed(u) /\ ~ Allowed(u, "read") => \E a \in grants : Active(a) /\ IsTo(a, u) /\ a.level = "other"
    /\ Allowed(u, "read") /\ ~ Listed(u) =>
         \/ record.assigned_to = u
         \/ "records.*.write" \in PermissionsOfUser(u)
=============================================================================
