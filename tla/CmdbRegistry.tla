---------------------------- MODULE CmdbRegistry ----------------------------
(***************************************************************************)
(* The CMDB class hierarchy of OpenFlake: the sys_db_object rows, and the  *)
(* snapshot of them that every backend process keeps in memory             *)
(* (backend/app/domain/cmdb/registry.py, ci_service.py and                 *)
(* api/flake/admin_tables.py).                                             *)
(*                                                                         *)
(* A request checks the snapshot, not the database, and then writes the    *)
(* database: an administrator creates, extends or deletes a class, a       *)
(* client creates a configuration item and so registers its class when it  *)
(* is new. The requests of a process are coroutines: one runs from one     *)
(* await to the next, and these stretches are the steps here. A process    *)
(* that starts first imports its catalogue of classes (importer.py),       *)
(* beside whatever others are doing.                                       *)
(*                                                                         *)
(* The snapshot holds the ORM objects of the request that loaded it.  When *)
(* that request's transaction rolls back, SQLAlchemy expires them, and any *)
(* later read of one (class.super_class) raises DetachedInstanceError.     *)
(***************************************************************************)
EXTENDS Naturals

CONSTANTS
  Classes,        \* class names
  CmdbRoot,       \* cmdb_ci
  BuiltinSuper,   \* the built-in classes, each with its super_class or None
  Catalogues,     \* what a start may import: the built-in classes and those
                  \* of an extra directory, each with its super_class
  Cis,            \* sys_ids of configuration items
  Replicas,       \* backend processes
  Requests,       \* requests that may be running at the same time
  ReplicaOf,      \* the process that serves a request
  LostAfterCommit,\* may a request fail between its commit and its refresh?
  None, Absent

ASSUME RegistryAssumption ==
  /\ None \notin Classes /\ Absent \notin Classes \cup {None}
  /\ None \notin Requests
  /\ CmdbRoot \in Classes
  /\ BuiltinSuper \in [Classes -> Classes \cup {None, Absent}]
  /\ BuiltinSuper[CmdbRoot] # Absent
  /\ ReplicaOf \in [Requests -> Replicas]
  /\ LostAfterCommit \in BOOLEAN

VARIABLES
  super,   \* committed super_class of every class; Absent: no such row
  admin,   \* committed classes with user_defined = true
  ci,      \* committed class of every configuration item, or None
  snap,    \* the snapshot of every process
  req,     \* the request each client has running
  inverted, \* history: an import hung a class that was there below an
           \* administrator's, which it had to leave where it was
  displaced\* history: an import hung a built-in class below one that is not

vars == <<super, admin, ci, snap, req, inverted, displaced>>

Trees == [Classes -> Classes \cup {None, Absent}]
Registered(sup) == {c \in Classes : sup[c] # Absent}
Children(sup, c) == {d \in Classes : sup[d] = c}

Idle == [pc |-> "idle", op |-> "none", class |-> None, parent |-> None, ci |-> None,
         new |-> FALSE, readSuper |-> [c \in Classes |-> Absent], readAdmin |-> {}]

Snapshot == [super : Trees, admin : SUBSET Classes,
             owner : Requests \cup {None},    \* whose transaction loaded it, while that runs
             expired : BOOLEAN]               \* the transaction was rolled back

Request == [pc : {"idle", "lookup", "insert", "commit", "read", "assign", "count",
                  "remove", "done"},
            op : {"none", "create", "field", "delete", "ci"},
            class : Classes \cup {None}, parent : Classes \cup {None},
            ci : Cis \cup {None},
            new : BOOLEAN,                    \* an uncommitted INSERT of class
            readSuper : Trees, readAdmin : SUBSET Classes]

TypeOK ==
  /\ super \in Trees
  /\ admin \subseteq Classes
  /\ ci \in [Cis -> Classes \cup {None}]
  /\ snap \in [Replicas -> Snapshot]
  /\ req \in [Requests -> Request]
  /\ inverted \in BOOLEAN
  /\ displaced \in BOOLEAN

-----------------------------------------------------------------------------
(***************************************************************************)
(* Trees.                                                                  *)
(***************************************************************************)

\* get_descendants, and what ON DELETE CASCADE takes: the least set that
\* holds c, if it is there, and every class whose super_class it holds
Subtree(sup, c) ==
  {d \in Registered(sup) :
     \A S \in SUBSET Registered(sup) :
       (/\ {c} \cap Registered(sup) \subseteq S
        /\ \A e \in Registered(sup) : sup[e] \in S => e \in S) => d \in S}

\* get_ancestors: the walk from c upwards does not come to an end
Looped(sup, c) ==
  \E S \in SUBSET Registered(sup) : c \in S /\ \A d \in S : sup[d] \in S

\* every super_class is a registered class, and no class is its own ancestor:
\* get_ancestors ends at a root and get_descendants does not recurse for ever
Forest(sup) ==
  /\ \A c \in Registered(sup) : sup[c] = None \/ sup[c] \in Registered(sup)
  /\ \A S \in SUBSET Registered(sup) : S # {} => \E c \in S : sup[c] \notin S

\* the catalogue the startup import leaves behind
ASSUME BuiltinAssumption == Forest(BuiltinSuper)

\* an extra directory adds classes to the shipped ones and may move those; a
\* file says where a class is from the root down, so that the last word of all
\* files is a forest again
ASSUME CatalogueAssumption ==
  \A e \in Catalogues :
    /\ e \in Trees /\ Forest(e)
    /\ Registered(BuiltinSuper) \subseteq Registered(e)

Init ==
  /\ super = BuiltinSuper
  /\ admin = {}
  /\ ci = [x \in Cis |-> None]
  /\ snap = [p \in Replicas |-> [super |-> BuiltinSuper, admin |-> {}, owner |-> None,
                                 expired |-> FALSE]]
  /\ req = [q \in Requests |-> Idle]
  /\ inverted = FALSE
  /\ displaced = FALSE

\* the snapshot a request reads and replaces
Own(q) == snap[ReplicaOf[q]]

-----------------------------------------------------------------------------
(***************************************************************************)
(* The checks a request makes on the snapshot, up to its next await.  A    *)
(* request they turn away changes nothing and is not modelled.             *)
(***************************************************************************)

\* create_table: the name is free, the parent is known and below cmdb_ci
BeginCreate(q, c, p) ==
  /\ req[q].pc = "idle"
  /\ c \notin Registered(Own(q).super)
  /\ p \in Subtree(Own(q).super, CmdbRoot)
  /\ ~Own(q).expired
  /\ req' = [req EXCEPT ![q] = [Idle EXCEPT !.pc = "lookup", !.op = "create",
                                            !.class = c, !.parent = p]]
  /\ UNCHANGED <<super, admin, ci, snap, inverted, displaced>>

\* add_table_field: the class is known; the row goes to sys_dictionary, whose
\* foreign key wants the class in the database
AddField(q, c) ==
  /\ req[q].pc = "idle"
  /\ c \in Registered(Own(q).super) \cap Registered(super)
  /\ req' = [req EXCEPT ![q] = [Idle EXCEPT !.pc = "read", !.op = "field"]]
  /\ UNCHANGED <<super, admin, ci, snap, inverted, displaced>>

\* variant: is_user_defined is not looked at
BeginDeleteBuiltin(q, c) ==
  /\ req[q].pc = "idle"
  /\ c \in Registered(Own(q).super)
  /\ ~Own(q).expired
  /\ Children(Own(q).super, c) = {}
  /\ req' = [req EXCEPT ![q] = [Idle EXCEPT !.pc = "count", !.op = "delete", !.class = c]]
  /\ UNCHANGED <<super, admin, ci, snap, inverted, displaced>>

\* delete_table: a user-defined class without subclasses
BeginDelete(q, c) ==
  /\ req[q].pc = "idle"
  /\ c \in Registered(Own(q).super)
  /\ ~Own(q).expired
  /\ c \in Own(q).admin
  /\ Children(Own(q).super, c) = {}
  /\ req' = [req EXCEPT ![q] = [Idle EXCEPT !.pc = "count", !.op = "delete", !.class = c]]
  /\ UNCHANGED <<super, admin, ci, snap, inverted, displaced>>

\* create_cmdb_ci: a registered class goes straight on to its path, which
\* reads the snapshot's objects, and never returns from a loop; an unknown one
\* is registered under cmdb_ci
BeginCi(q, x, c) ==
  /\ req[q].pc = "idle"
  /\ ci[x] = None
  /\ \A p \in Requests : req[p].ci # x
  /\ LET known == c \in Registered(Own(q).super)
     IN  /\ known => ~Own(q).expired /\ ~Looped(Own(q).super, c)
         /\ req' = [req EXCEPT ![q] = [Idle EXCEPT !.pc = IF known THEN "commit" ELSE "lookup",
                                                   !.op = "ci", !.class = c, !.ci = x,
                                                   !.parent = CmdbRoot]]
  /\ UNCHANGED <<super, admin, ci, snap, inverted, displaced>>

-----------------------------------------------------------------------------
(***************************************************************************)
(* ensure_class, commit and refresh_cache.                                 *)
(***************************************************************************)

\* the row that is there is used as it is; without it the parent must be there
Lookup(q) ==
  /\ req[q].pc = "lookup"
  /\ LET r == req[q]
         next == IF r.op = "ci" THEN "read" ELSE "commit"
     IN  \/ /\ r.class \in Registered(super)
            /\ req' = [req EXCEPT ![q].pc = next]
         \/ /\ r.class \notin Registered(super)
            /\ r.parent \in Registered(super)
            /\ req' = [req EXCEPT ![q].pc = "insert"]
  /\ UNCHANGED <<super, admin, ci, snap, inverted, displaced>>

\* variant: the foreign key on super_class is not there
InsertUnchecked(q) ==
  /\ req[q].pc = "insert"
  /\ LET r == req[q]
     IN  /\ r.class \notin Registered(super)
         /\ \A p \in Requests : ~(req[p].new /\ req[p].class = r.class)
         /\ req' = [req EXCEPT ![q].pc = IF r.op = "ci" THEN "read" ELSE "commit",
                               ![q].new = TRUE]
  /\ UNCHANGED <<super, admin, ci, snap, inverted, displaced>>

\* INSERT: waits for another INSERT of the same name, fails when the name is
\* taken or the parent is gone
Insert(q) ==
  /\ req[q].pc = "insert"
  /\ LET r == req[q]
     IN  /\ r.class \notin Registered(super)
         /\ r.parent \in Registered(super)
         /\ \A p \in Requests : ~(req[p].new /\ req[p].class = r.class)
         /\ req' = [req EXCEPT ![q].pc = IF r.op = "ci" THEN "read" ELSE "commit",
                               ![q].new = TRUE]
  /\ UNCHANGED <<super, admin, ci, snap, inverted, displaced>>

\* the class, and the configuration item of a client's request; what is left
\* of a client's request runs in get_db
Commit(q) ==
  LET r == req[q]
  IN  /\ r.pc = "commit"
      /\ super' = IF r.new THEN [super EXCEPT ![r.class] = r.parent] ELSE super
      /\ admin' = IF r.new /\ r.op = "create" THEN admin \cup {r.class} ELSE admin
      /\ IF r.op = "ci"
         THEN /\ ci' = [ci EXCEPT ![r.ci] = r.class]
              /\ req' = [req EXCEPT ![q] = Idle]
              /\ snap' = [snap EXCEPT ![ReplicaOf[q]].owner = IF @ = q THEN None ELSE @]
         ELSE /\ req' = [req EXCEPT ![q].pc = "read", ![q].new = FALSE,
                                    ![q].class = None, ![q].parent = None]
              /\ UNCHANGED <<ci, snap>>
      /\ UNCHANGED <<inverted, displaced>>

\* refresh_cache, the SELECT: committed rows and the request's own INSERT
RefreshRead(q) ==
  LET r == req[q]
  IN  /\ r.pc = "read"
      /\ req' = [req EXCEPT ![q].pc = "assign",
                            ![q].readSuper = IF r.new THEN [super EXCEPT ![r.class] = r.parent]
                                                      ELSE super,
                            ![q].readAdmin = admin]
      /\ UNCHANGED <<super, admin, ci, snap, inverted, displaced>>

\* variant: the cache is patched, not replaced, when a class goes
RefreshAssignPatch(q) ==
  LET r == req[q]
  IN  /\ r.pc = "assign"
      /\ snap' = [snap EXCEPT ![ReplicaOf[q]] =
           IF r.op = "delete"
           THEN [@ EXCEPT !.super = [@ EXCEPT ![r.class] = Absent], !.owner = q]
           ELSE [super |-> r.readSuper, admin |-> r.readAdmin, owner |-> q, expired |-> FALSE]]
      /\ req' = [req EXCEPT ![q].pc = IF r.op = "ci" THEN "commit" ELSE "done",
                            ![q].readSuper = Idle.readSuper, ![q].readAdmin = {}]
      /\ UNCHANGED <<super, admin, ci, inverted, displaced>>

\* refresh_cache, the assignment of _snapshot; a client's request goes on to
\* the path of its class
RefreshAssign(q) ==
  LET r == req[q]
  IN  /\ r.pc = "assign"
      /\ r.op = "ci" => ~Looped(r.readSuper, r.class)
      /\ snap' = [snap EXCEPT ![ReplicaOf[q]] =
           [super |-> r.readSuper, admin |-> r.readAdmin, owner |-> q, expired |-> FALSE]]
      /\ req' = [req EXCEPT ![q].pc = IF r.op = "ci" THEN "commit" ELSE "done",
                            ![q].readSuper = Idle.readSuper, ![q].readAdmin = {}]
      /\ UNCHANGED <<super, admin, ci, inverted, displaced>>

\* delete_table: SELECT count(*) of the records of the class
Count(q) ==
  /\ req[q].pc = "count"
  /\ \A x \in Cis : ci[x] # req[q].class
  /\ req' = [req EXCEPT ![q].pc = "remove"]
  /\ UNCHANGED <<super, admin, ci, snap, inverted, displaced>>

\* DELETE and commit: takes the subclasses along, waits for an uncommitted
\* INSERT below a class it deletes
Remove(q) ==
  LET gone == Subtree(super, req[q].class)
  IN  /\ req[q].pc = "remove"
      /\ \A p \in Requests : ~(req[p].new /\ req[p].parent \in gone)
      /\ super' = [c \in Classes |-> IF c \in gone THEN Absent ELSE super[c]]
      /\ admin' = admin \ gone
      /\ req' = [req EXCEPT ![q].pc = "read"]
      /\ UNCHANGED <<ci, snap, inverted, displaced>>

\* the response: nothing is left to roll back
Finish(q) ==
  /\ req[q].pc = "done"
  /\ req' = [req EXCEPT ![q] = Idle]
  /\ snap' = [snap EXCEPT ![ReplicaOf[q]].owner = IF @ = q THEN None ELSE @]
  /\ UNCHANGED <<super, admin, ci, inverted, displaced>>

MayFail(q) ==
  \/ req[q].pc \in {"lookup", "insert", "commit", "count", "remove", "done"}
  \/ req[q].pc \in {"read", "assign"} /\ (req[q].op = "ci" \/ LostAfterCommit)

\* an invalid field name, a violated constraint, a 400, a lost connection:
\* get_db rolls back, and the objects the request loaded expire
Fail(q) ==
  /\ MayFail(q)
  /\ req' = [req EXCEPT ![q] = Idle]
  /\ snap' = [snap EXCEPT ![ReplicaOf[q]] =
                IF @.owner = q THEN [@ EXCEPT !.owner = None, !.expired = TRUE] ELSE @]
  /\ UNCHANGED <<super, admin, ci, inverted, displaced>>

\* delete_record of a configuration item
DeleteCi(x) ==
  /\ ci[x] # None
  /\ ci' = [ci EXCEPT ![x] = None]
  /\ UNCHANGED <<super, admin, snap, req, inverted, displaced>>

\* the classes an import hangs under another super_class
Moved(e) == {c \in Registered(super) \ admin : e[c] \notin {Absent, super[c]}}

\* ensure_cmdb_hierarchy, up to its commit: a process that starts registers the
\* classes of its catalogue, moves those that are elsewhere, and leaves an
\* administrator's alone; it waits for an uncommitted INSERT of the same name
Import(e) ==
  /\ \A q \in Requests : req[q].new => req[q].class \notin Registered(e)
  /\ super' = [c \in Classes |-> IF e[c] = Absent \/ c \in admin \cap Registered(super)
                                THEN super[c] ELSE e[c]]
  /\ inverted' = (inverted \/ \E u \in admin : Subtree(e, u) \cap Moved(e) # {})
  /\ displaced' = (displaced \/ \E c \in Registered(BuiltinSuper) :
                                 e[c] \notin Registered(BuiltinSuper) \cup {None, Absent})
  /\ UNCHANGED <<admin, ci, snap, req>>

\* ... and then loads its snapshot, before it serves requests
Restart(p) ==
  /\ snap' = [snap EXCEPT ![p] = [super |-> super, admin |-> admin, owner |-> None,
                                  expired |-> FALSE]]
  /\ req' = [q \in Requests |-> IF ReplicaOf[q] = p THEN Idle ELSE req[q]]
  /\ UNCHANGED <<super, admin, ci, inverted, displaced>>

Step(q) ==
  \/ \E c, p \in Classes : BeginCreate(q, c, p)
  \/ \E c \in Classes : AddField(q, c) \/ BeginDelete(q, c)
  \/ \E x \in Cis, c \in Classes : BeginCi(q, x, c)
  \/ Lookup(q) \/ Insert(q) \/ Commit(q) \/ RefreshRead(q) \/ RefreshAssign(q)
  \/ Count(q) \/ Remove(q) \/ Finish(q) \/ Fail(q)

Next ==
  \/ \E q \in Requests : Step(q)
  \/ \E x \in Cis : DeleteCi(x)
  \/ \E p \in Replicas : Restart(p)
  \/ \E e \in Catalogues : Import(e)

Spec == Init /\ [][Next]_vars

-----------------------------------------------------------------------------
(***************************************************************************)
(* Properties.                                                             *)
(***************************************************************************)

\* Whatever administrators, clients and imports do at the same time, the
\* committed classes form a forest: no super_class is dangling, none is
\* circular.  Unless an import, which skips an administrator's class but not
\* those below it in the catalogue, has turned two classes round.
ClassForest == inverted \/ Forest(super)

\* So does every snapshot, including one loaded inside a transaction that has
\* not committed or will not: walks up and down the snapshot end.
SnapshotForest == inverted \/ \A p \in Replicas : Forest(snap[p].super)

\* No class of the catalogue OpenFlake ships is ever removed, by a request
\* that decided on a stale snapshot or by a cascade either.  Unless an import
\* has hung one below a class that is not of that catalogue, and so can go.
BuiltinsStay == displaced \/ Registered(BuiltinSuper) \subseteq Registered(super)

\* delete_table: "Remove a user-defined class with no subclasses and no
\* existing records."  A class that goes is user-defined and unused.
DeletesUnusedOnly ==
  [][\A c \in Classes :
       (c \in Registered(super) /\ c \notin Registered(super)')
       => /\ c \in admin
          /\ Children(super, c) = {}
          /\ \A x \in Cis : ci[x] # c]_vars

Quiet(p) == \A q \in Requests : ReplicaOf[q] = p => req[q].pc = "idle"

\* admin_tables.py: writes "immediately call refresh_cache() so the in-memory
\* registry ... reflects the change".  Once its requests are over, the process
\* knows every class there is.
ChangesAreVisible ==
  \A p \in Replicas : Quiet(p) => Registered(super) \subseteq Registered(snap[p].super)
=============================================================================
