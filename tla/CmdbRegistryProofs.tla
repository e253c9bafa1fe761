------------------------- MODULE CmdbRegistryProofs -------------------------
(***************************************************************************)
(* Proofs about CmdbRegistry, for every set of classes, of processes and   *)
(* of requests.                                                            *)
(***************************************************************************)
EXTENDS CmdbRegistry, TLAPS

\* where a request still needs the class it was sent for
Naming == {"lookup", "insert", "count", "remove"}

\* an uncommitted INSERT: its name is free, its parent stays, and no other
\* request inserts the same name
Pending ==
  /\ \A q \in Requests : req[q].pc \in Naming => req[q].class \in Classes
  /\ \A q \in Requests : req[q].new => /\ req[q].class \in Classes \ Registered(super)
                                       /\ req[q].parent \in Registered(super)
  /\ \A q, p \in Requests : (q # p /\ req[q].new /\ req[p].new) => req[q].class # req[p].class

\* what a request has read and not yet put into the snapshot
ReadForest ==
  inverted \/ \A q \in Requests : req[q].pc = "assign" => Forest(req[q].readSuper)

RInv ==
  /\ TypeOK
  /\ ClassForest
  /\ SnapshotForest
  /\ Pending
  /\ ReadForest

-----------------------------------------------------------------------------
(***************************************************************************)
(* Forests.                                                                *)
(***************************************************************************)

LEMMA ForestAdd ==
  ASSUME NEW sup \in Trees, Forest(sup),
         NEW c \in Classes \ Registered(sup), NEW p \in Registered(sup)
  PROVE  Forest([sup EXCEPT ![c] = p])
<1> DEFINE new == [sup EXCEPT ![c] = p]
<1> USE RegistryAssumption
<1>1. /\ Registered(new) = Registered(sup) \cup {c}
      /\ new[c] = p /\ \A d \in Registered(sup) : new[d] = sup[d]
      /\ c # p /\ \A d \in Registered(sup) : sup[d] # c
  BY DEF Registered, Trees, Forest
<1> HIDE DEF new
<1>2. \A d \in Registered(new) : new[d] = None \/ new[d] \in Registered(new)
  BY <1>1 DEF Forest
<1>3. ASSUME NEW S \in SUBSET Registered(new), S # {}
      PROVE  \E d \in S : new[d] \notin S
  <2> DEFINE T == S \ {c}
  <2>1. CASE T = {}
    BY <1>1, <1>3, <2>1
  <2>2. CASE T # {}
    <3>1. PICK d \in T : sup[d] \notin T
      BY <1>1, <2>2 DEF Forest
    <3> QED
      BY <1>1, <3>1
  <2> QED
    BY <2>1, <2>2
<1> QED
  BY <1>2, <1>3 DEF Forest, new

LEMMA SubtreeClosed ==
  ASSUME NEW sup, NEW c
  PROVE  \A e \in Registered(sup) : sup[e] \in Subtree(sup, c) => e \in Subtree(sup, c)
<1> SUFFICES ASSUME NEW e \in Registered(sup), sup[e] \in Subtree(sup, c),
                    NEW S \in SUBSET Registered(sup), {c} \cap Registered(sup) \subseteq S,
                    \A d \in Registered(sup) : sup[d] \in S => d \in S
             PROVE  e \in S
  BY DEF Subtree
<1>1. sup[e] \in S
  BY DEF Subtree
<1> QED
  BY <1>1

LEMMA ForestPrune ==
  ASSUME NEW sup \in Trees, Forest(sup), NEW gone \in SUBSET Registered(sup),
         \A e \in Registered(sup) : sup[e] \in gone => e \in gone
  PROVE  Forest([c \in Classes |-> IF c \in gone THEN Absent ELSE sup[c]])
<1> DEFINE new == [c \in Classes |-> IF c \in gone THEN Absent ELSE sup[c]]
<1>1. /\ Registered(new) = Registered(sup) \ gone
      /\ \A d \in Registered(new) : new[d] = sup[d]
  BY DEF Registered
<1> HIDE DEF new
<1> QED
  BY <1>1 DEF Forest, new

LEMMA ImportRegisters ==
  ASSUME TypeOK, NEW e \in Catalogues, Import(e)
  PROVE  Registered(super') = Registered(super) \cup Registered(e)
BY DEF Import, Registered

\* An import keeps the forest unless it has turned classes round.  Of the
\* classes of a catalogue, those above and beside every administrator's are
\* where it says, a forest that is closed upwards; everything else that was
\* there has stayed where it was, and what is new hangs below the rest.
LEMMA ForestImport ==
  ASSUME TypeOK, NEW e \in Catalogues, Import(e), Forest(super), ~inverted'
  PROVE  Forest(super')
<1> DEFINE below == UNION {Subtree(e, u) : u \in admin}
           free == Registered(e) \ below
           new == Registered(e) \ (free \cup Registered(super))
<1> USE RegistryAssumption
<1>1. e \in Trees /\ Forest(e) /\ super \in Trees
  BY CatalogueAssumption DEF TypeOK
<1>2. /\ \A c \in Classes : super'[c] = IF e[c] = Absent \/ c \in admin \cap Registered(super)
                                        THEN super[c] ELSE e[c]
      /\ \A u \in admin : Subtree(e, u) \cap Moved(e) = {}
  BY DEF Import
<1>3. \A c \in Registered(e) : e[c] \in below => c \in below
  BY SubtreeClosed
<1>4. \A u \in admin \cap Registered(e) : u \in below
  <2> TAKE u \in admin \cap Registered(e)
  <2>1. u \in Subtree(e, u)
    BY DEF Subtree
  <2> QED
    BY <2>1
<1>5. Registered(super') = Registered(super) \cup Registered(e)
  BY ImportRegisters
<1>6. below \cap Moved(e) = {}
  BY <1>2
<1> HIDE DEF below
<1>7. \A c \in free : super'[c] = e[c] /\ e[c] \in free \cup {None}
  BY <1>1, <1>2, <1>3, <1>4 DEF Forest, Registered
<1>8. \A c \in Registered(super) \ free : super'[c] = super[c]
  BY <1>2, <1>4, <1>6 DEF Registered, Moved
<1>9. \A c \in new : super'[c] = e[c]
  BY <1>2 DEF Registered
<1>10. Registered(super') = free \cup (Registered(super) \ free) \cup new
  BY <1>5
<1> HIDE DEF free
<1>11. \A c \in Registered(super') : super'[c] = None \/ super'[c] \in Registered(super')
  BY <1>1, <1>5, <1>7, <1>8, <1>9, <1>10 DEF Forest
<1>12. ASSUME NEW S \in SUBSET Registered(super'), S # {}
       PROVE  \E c \in S : super'[c] \notin S
  <2>1. CASE S \cap free # {}
    <3>1. S \cap free \subseteq Registered(e)
      BY DEF free
    <3>2. PICK c \in S \cap free : e[c] \notin S \cap free
      BY <1>1, <2>1, <3>1 DEF Forest
    <3> QED
      BY <1>5, <1>7, <3>2 DEF Registered
  <2>2. CASE S \cap free = {} /\ S \cap Registered(super) # {}
    <3>1. PICK c \in S \cap Registered(super) : super[c] \notin S \cap Registered(super)
      BY <1>1, <2>2 DEF Forest
    <3>2. super[c] \notin S
      BY <1>1, <3>1 DEF Forest, Registered
    <3> QED
      BY <1>8, <2>2, <3>1, <3>2
  <2>3. CASE S \subseteq new
    <3>1. PICK c \in S : e[c] \notin S
      BY <1>1, <1>12, <2>3 DEF Forest
    <3> QED
      BY <1>9, <2>3, <3>1
  <2> QED
    BY <1>10, <2>1, <2>2, <2>3
<1> QED
  BY <1>11, <1>12 DEF Forest

-----------------------------------------------------------------------------
(***************************************************************************)
(* Types.                                                                  *)
(***************************************************************************)

LEMMA IdleType == Idle \in Request
BY RegistryAssumption DEF Idle, Request, Trees

\* a step that moves one request on, to a record of the right type
LEMMA RequestType ==
  ASSUME TypeOK, NEW q \in Requests, NEW r \in Request, req' = [req EXCEPT ![q] = r]
  PROVE  req' \in [Requests -> Request]
BY DEF TypeOK

LEMMA SnapshotType ==
  ASSUME TypeOK, NEW p \in Replicas, NEW t \in Snapshot, snap' = [snap EXCEPT ![p] = t]
  PROVE  snap' \in [Replicas -> Snapshot]
BY DEF TypeOK

LEMMA BeginType ==
  ASSUME TypeOK, NEW q \in Requests,
         \/ \E c, p \in Classes : BeginCreate(q, c, p)
         \/ \E c \in Classes : AddField(q, c) \/ BeginDelete(q, c)
         \/ \E x \in Cis, c \in Classes : BeginCi(q, x, c)
  PROVE  /\ req' \in [Requests -> Request]
         /\ req[q].pc = "idle"
         /\ \A p \in Requests \ {q} : req'[p] = req[p]
         /\ req'[q].new = FALSE /\ (req'[q].pc \in Naming => req'[q].class \in Classes)
         /\ req'[q].pc # "assign"
         /\ UNCHANGED <<super, admin, ci, snap, inverted, displaced>>
<1> USE IdleType, RegistryAssumption
<1>1. ASSUME NEW c \in Classes, NEW p \in Classes, BeginCreate(q, c, p)
      PROVE  \E r \in Request : /\ req' = [req EXCEPT ![q] = r]
                                /\ r.new = FALSE /\ (r.pc \in Naming => r.class \in Classes) /\ r.pc # "assign"
  <2> DEFINE r == [Idle EXCEPT !.pc = "lookup", !.op = "create", !.class = c, !.parent = p]
  <2>1. r \in Request /\ r.new = FALSE /\ (r.pc \in Naming => r.class \in Classes) /\ r.pc # "assign"
    BY DEF Request, Idle, Naming
  <2> QED
    BY <1>1, <2>1 DEF BeginCreate
<1>2. ASSUME NEW c \in Classes, AddField(q, c)
      PROVE  \E r \in Request : /\ req' = [req EXCEPT ![q] = r]
                                /\ r.new = FALSE /\ (r.pc \in Naming => r.class \in Classes) /\ r.pc # "assign"
  <2> DEFINE r == [Idle EXCEPT !.pc = "read", !.op = "field"]
  <2>1. r \in Request /\ r.new = FALSE /\ (r.pc \in Naming => r.class \in Classes) /\ r.pc # "assign"
    BY DEF Request, Idle, Naming
  <2> QED
    BY <1>2, <2>1 DEF AddField
<1>3. ASSUME NEW c \in Classes, BeginDelete(q, c)
      PROVE  \E r \in Request : /\ req' = [req EXCEPT ![q] = r]
                                /\ r.new = FALSE /\ (r.pc \in Naming => r.class \in Classes) /\ r.pc # "assign"
  <2> DEFINE r == [Idle EXCEPT !.pc = "count", !.op = "delete", !.class = c]
  <2>1. r \in Request /\ r.new = FALSE /\ (r.pc \in Naming => r.class \in Classes) /\ r.pc # "assign"
    BY DEF Request, Idle, Naming
  <2> QED
    BY <1>3, <2>1 DEF BeginDelete
<1>4. ASSUME NEW x \in Cis, NEW c \in Classes, BeginCi(q, x, c)
      PROVE  \E r \in Request : /\ req' = [req EXCEPT ![q] = r]
                                /\ r.new = FALSE /\ (r.pc \in Naming => r.class \in Classes) /\ r.pc # "assign"
  <2> DEFINE known == c \in Registered(Own(q).super)
             r == [Idle EXCEPT !.pc = IF known THEN "commit" ELSE "lookup", !.op = "ci",
                               !.class = c, !.ci = x, !.parent = CmdbRoot]
  <2>1. r \in Request /\ r.new = FALSE /\ (r.pc \in Naming => r.class \in Classes) /\ r.pc # "assign"
    BY DEF Request, Idle, Naming
  <2> QED
    BY <1>4, <2>1 DEF BeginCi
<1>5. \E r \in Request : /\ req' = [req EXCEPT ![q] = r]
                         /\ r.new = FALSE /\ (r.pc \in Naming => r.class \in Classes) /\ r.pc # "assign"
  BY <1>1, <1>2, <1>3, <1>4
<1>6. /\ req[q].pc = "idle" /\ UNCHANGED <<super, admin, ci, snap, inverted, displaced>>
  BY DEF BeginCreate, AddField, BeginDelete, BeginCi
<1> QED
  BY <1>5, <1>6 DEF TypeOK

\* a step that moves a request on and changes at most its INSERT
LEMMA MoveEffect ==
  ASSUME TypeOK, NEW q \in Requests,
         NEW pc \in {"insert", "commit", "read", "remove"}, NEW b \in BOOLEAN,
         \/ req' = [req EXCEPT ![q].pc = pc] /\ b = req[q].new
         \/ req' = [req EXCEPT ![q].pc = pc, ![q].new = b]
  PROVE  /\ req' \in [Requests -> Request]
         /\ \A p \in Requests \ {q} : req'[p] = req[p]
         /\ req'[q].pc = pc /\ req'[q].new = b
         /\ req'[q].class = req[q].class /\ req'[q].parent = req[q].parent
<1> DEFINE r == [req[q] EXCEPT !.pc = pc, !.new = b]
<1>1. req[q] \in Request
  BY DEF TypeOK
<1>2. /\ r \in Request
      /\ r.pc = pc /\ r.new = b /\ r.class = req[q].class /\ r.parent = req[q].parent
  BY <1>1 DEF Request
<1>3. CASE req' = [req EXCEPT ![q].pc = pc] /\ b = req[q].new
  <2>1. [req[q] EXCEPT !.pc = pc] = r
    BY <1>1, <1>3 DEF Request
  <2> QED
    BY <1>2, <1>3, <2>1 DEF TypeOK
<1>4. CASE req' = [req EXCEPT ![q].pc = pc, ![q].new = b]
  <2>1. req' = [req EXCEPT ![q] = r]
    BY <1>4 DEF TypeOK
  <2> QED
    BY <1>2, <2>1 DEF TypeOK
<1> QED
  BY <1>3, <1>4

LEMMA ReadEffect ==
  ASSUME TypeOK, NEW q \in Requests, RefreshRead(q)
  PROVE  /\ req' \in [Requests -> Request]
         /\ \A p \in Requests \ {q} : req'[p] = req[p]
         /\ req'[q].pc = "assign" /\ req'[q].new = req[q].new
         /\ req'[q].class = req[q].class /\ req'[q].parent = req[q].parent
         /\ req'[q].readSuper = IF req[q].new
                                THEN [super EXCEPT ![req[q].class] = req[q].parent] ELSE super
         /\ req[q].pc = "read"
         /\ UNCHANGED <<super, admin, ci, snap, inverted, displaced>>
<1> DEFINE sup == IF req[q].new THEN [super EXCEPT ![req[q].class] = req[q].parent] ELSE super
           r == [req[q] EXCEPT !.pc = "assign", !.readSuper = sup, !.readAdmin = admin]
<1>1. req[q] \in Request
  BY DEF TypeOK
<1>2. sup \in Trees
  BY <1>1 DEF TypeOK, Trees, Request
<1>3. req' = [req EXCEPT ![q] = r]
  BY DEF RefreshRead, TypeOK
<1>4. UNCHANGED <<super, admin, ci, snap, inverted, displaced>> /\ req[q].pc = "read"
  BY DEF RefreshRead
<1> HIDE DEF sup
<1>5. /\ r \in Request
      /\ r.pc = "assign" /\ r.new = req[q].new /\ r.class = req[q].class
      /\ r.parent = req[q].parent /\ r.readSuper = sup
  BY <1>1, <1>2 DEF Request, TypeOK
<1> HIDE DEF r
<1> QED
  BY <1>3, <1>4, <1>5 DEF TypeOK, sup

LEMMA AssignEffect ==
  ASSUME TypeOK, NEW q \in Requests, RefreshAssign(q)
  PROVE  /\ req' \in [Requests -> Request] /\ snap' \in [Replicas -> Snapshot]
         /\ \A p \in Requests \ {q} : req'[p] = req[p]
         /\ req'[q].pc \in {"commit", "done"} /\ req'[q].new = req[q].new
         /\ req'[q].class = req[q].class /\ req'[q].parent = req[q].parent
         /\ snap'[ReplicaOf[q]].super = req[q].readSuper
         /\ \A p \in Replicas \ {ReplicaOf[q]} : snap'[p] = snap[p]
         /\ req[q].pc = "assign"
         /\ UNCHANGED <<super, admin, ci, inverted, displaced>>
<1> USE RegistryAssumption
<1> DEFINE pc == IF req[q].op = "ci" THEN "commit" ELSE "done"
           r == [req[q] EXCEPT !.pc = pc, !.readSuper = Idle.readSuper, !.readAdmin = {}]
           t == [super |-> req[q].readSuper, admin |-> req[q].readAdmin, owner |-> q,
                 expired |-> FALSE]
<1>1. req[q] \in Request /\ Idle.readSuper \in Trees /\ ReplicaOf[q] \in Replicas
  BY IdleType DEF TypeOK, Request
<1>2. /\ req' = [req EXCEPT ![q] = r] /\ snap' = [snap EXCEPT ![ReplicaOf[q]] = t]
      /\ req[q].pc = "assign" /\ UNCHANGED <<super, admin, ci, inverted, displaced>>
  BY DEF RefreshAssign, TypeOK
<1>3. t \in Snapshot /\ t.super = req[q].readSuper
  BY <1>1 DEF Snapshot, Request
<1>4. /\ r \in Request /\ r.pc \in {"commit", "done"} /\ r.new = req[q].new
      /\ r.class = req[q].class /\ r.parent = req[q].parent
  BY <1>1 DEF Request
<1> HIDE DEF r, t
<1> QED
  BY <1>1, <1>2, <1>3, <1>4 DEF TypeOK

\* Finish and Fail: the request is over, no snapshot changes its classes
LEMMA OverEffect ==
  ASSUME TypeOK, NEW q \in Requests, Finish(q) \/ Fail(q)
  PROVE  /\ req' \in [Requests -> Request] /\ snap' \in [Replicas -> Snapshot]
         /\ \A p \in Requests \ {q} : req'[p] = req[p]
         /\ req'[q] = Idle
         /\ \A p \in Replicas : snap'[p].super = snap[p].super
         /\ UNCHANGED <<super, admin, ci, inverted, displaced>>
<1> USE RegistryAssumption
<1>1. req' = [req EXCEPT ![q] = Idle] /\ UNCHANGED <<super, admin, ci, inverted, displaced>>
  BY DEF Finish, Fail
<1> DEFINE old == snap[ReplicaOf[q]]
<1>2. old \in Snapshot /\ ReplicaOf[q] \in Replicas
  BY DEF TypeOK
<1>3. \E t \in Snapshot : t.super = old.super /\ snap' = [snap EXCEPT ![ReplicaOf[q]] = t]
  <2>1. CASE Finish(q)
    <3> DEFINE t == [old EXCEPT !.owner = IF @ = q THEN None ELSE @]
    <3>1. t \in Snapshot /\ t.super = old.super
      BY <1>2 DEF Snapshot
    <3>2. snap' = [snap EXCEPT ![ReplicaOf[q]] = t]
      BY <2>1, <1>2 DEF Finish, TypeOK
    <3> QED
      BY <3>1, <3>2
  <2>2. CASE Fail(q)
    <3> DEFINE t == IF old.owner = q THEN [old EXCEPT !.owner = None, !.expired = TRUE] ELSE old
    <3>1. t \in Snapshot /\ t.super = old.super
      BY <1>2 DEF Snapshot
    <3>2. snap' = [snap EXCEPT ![ReplicaOf[q]] = t]
      BY <2>2, <1>2 DEF Fail, TypeOK
    <3> QED
      BY <3>1, <3>2
  <2> QED
    BY <2>1, <2>2
<1> HIDE DEF old
<1> QED
  BY <1>1, <1>2, <1>3, IdleType DEF TypeOK, old

\* what a committing request publishes
LEMMA CommitEffect ==
  ASSUME TypeOK, NEW q \in Requests, Commit(q), req[q].new => req[q].class \in Classes,
         req[q].new => req[q].parent \in Classes
  PROVE  /\ TypeOK'
         /\ super' = IF req[q].new THEN [super EXCEPT ![req[q].class] = req[q].parent] ELSE super
         /\ \A p \in Requests \ {q} : req'[p] = req[p]
         /\ req'[q].new = FALSE /\ req'[q].pc \in {"idle", "read"}
         /\ \A p \in Replicas : snap'[p].super = snap[p].super
         /\ req[q].pc = "commit" /\ UNCHANGED <<inverted, displaced>>
<1> USE RegistryAssumption
<1>1. req[q] \in Request /\ snap[ReplicaOf[q]] \in Snapshot /\ ReplicaOf[q] \in Replicas
  BY DEF TypeOK
<1>2. /\ super' = IF req[q].new THEN [super EXCEPT ![req[q].class] = req[q].parent] ELSE super
      /\ admin' \subseteq Classes /\ req[q].pc = "commit" /\ UNCHANGED <<inverted, displaced>>
  BY DEF Commit, TypeOK
<1>3. super' \in Trees
  BY <1>2 DEF TypeOK, Trees
<1>4. CASE req[q].op = "ci"
  <2> DEFINE old == snap[ReplicaOf[q]]
             t == [old EXCEPT !.owner = IF @ = q THEN None ELSE @]
  <2>1. t \in Snapshot /\ t.super = old.super
    BY <1>1 DEF Snapshot
  <2>2. /\ snap' = [snap EXCEPT ![ReplicaOf[q]] = t] /\ req' = [req EXCEPT ![q] = Idle]
        /\ ci' = [ci EXCEPT ![req[q].ci] = req[q].class]
    BY <1>1, <1>4 DEF Commit, TypeOK
  <2>3. ci' \in [Cis -> Classes \cup {None}]
    BY <1>1, <2>2 DEF TypeOK, Request
  <2>4. Idle.new = FALSE /\ Idle.pc = "idle"
    BY DEF Idle
  <2> HIDE DEF t
  <2> QED
    BY <1>1, <1>2, <1>3, <2>1, <2>2, <2>3, <2>4, IdleType DEF TypeOK
<1>5. CASE req[q].op # "ci"
  <2> DEFINE r == [req[q] EXCEPT !.pc = "read", !.new = FALSE, !.class = None, !.parent = None]
  <2>1. req' = [req EXCEPT ![q] = r] /\ UNCHANGED <<ci, snap>>
    BY <1>5 DEF Commit, TypeOK
  <2>2. r \in Request /\ r.pc = "read" /\ r.new = FALSE
    BY <1>1 DEF Request
  <2> HIDE DEF r
  <2> QED
    BY <1>2, <1>3, <2>1, <2>2 DEF TypeOK
<1> QED
  BY <1>4, <1>5

-----------------------------------------------------------------------------
(***************************************************************************)
(* The invariant.                                                          *)
(***************************************************************************)

LEMMA InvInit == Init => RInv
<1> SUFFICES ASSUME Init PROVE RInv
  OBVIOUS
<1> USE RegistryAssumption, BuiltinAssumption
<1>1. Idle.pc = "idle" /\ Idle.new = FALSE
  BY DEF Idle
<1>2. TypeOK
  BY IdleType DEF Init, TypeOK, Snapshot, Trees
<1> QED
  BY <1>1, <1>2 DEF Init, RInv, ClassForest, SnapshotForest, Pending, ReadForest, Naming

\* a step of one request that publishes nothing
LEMMA PrivateStep ==
  ASSUME RInv, NEW q \in Requests,
         req' \in [Requests -> Request],
         \A p \in Requests \ {q} : req'[p] = req[p],
         req'[q].pc \in Naming => req'[q].class \in Classes,
         req'[q].new => /\ req[q].new
                        /\ req'[q].class = req[q].class /\ req'[q].parent = req[q].parent,
         inverted \/ (req'[q].pc = "assign" => Forest(req'[q].readSuper)),
         snap' \in [Replicas -> Snapshot], inverted \/ \A p \in Replicas : Forest(snap'[p].super),
         UNCHANGED <<super, admin, ci, inverted, displaced>>
  PROVE  RInv'
<1> USE DEF RInv
<1>1. TypeOK' /\ ClassForest' /\ SnapshotForest'
  BY DEF TypeOK, ClassForest, SnapshotForest
<1>2. Pending'
  BY DEF Pending
<1>3. ReadForest'
  BY DEF ReadForest
<1> QED
  BY <1>1, <1>2, <1>3

LEMMA InvNext == RInv /\ [Next]_vars => RInv'
<1> SUFFICES ASSUME RInv, [Next]_vars PROVE RInv'
  OBVIOUS
<1> USE RegistryAssumption
<1>0. TypeOK /\ Idle.pc = "idle" /\ Idle.new = FALSE
  BY DEF RInv, Idle
<1>1. ASSUME NEW q \in Requests, Step(q)
      PROVE  RInv'
  <2>1. CASE \/ \E c, p \in Classes : BeginCreate(q, c, p)
             \/ \E c \in Classes : AddField(q, c) \/ BeginDelete(q, c)
             \/ \E x \in Cis, c \in Classes : BeginCi(q, x, c)
    BY <1>0, <2>1, BeginType, PrivateStep DEF RInv, TypeOK, SnapshotForest
  <2>2. CASE Lookup(q) \/ Count(q)
    <3>1. PICK pc \in {"insert", "commit", "read", "remove"} : req' = [req EXCEPT ![q].pc = pc]
      BY <2>2 DEF Lookup, Count
    <3>2. /\ UNCHANGED <<super, admin, ci, snap, inverted, displaced>> /\ req[q].class \in Classes
          /\ req[q].new \in BOOLEAN
      BY <1>0, <2>2 DEF Lookup, Count, RInv, Pending, TypeOK, Request, Naming
    <3>3. /\ req' \in [Requests -> Request]
          /\ \A p \in Requests \ {q} : req'[p] = req[p]
          /\ req'[q].pc = pc /\ req'[q].new = req[q].new
          /\ req'[q].class = req[q].class /\ req'[q].parent = req[q].parent
      BY <1>0, <3>1, <3>2, MoveEffect
    <3> QED
      BY <1>0, <3>2, <3>3, PrivateStep DEF RInv, TypeOK, SnapshotForest
  <2>3. CASE Insert(q)
    <3>1. /\ req[q].class \in Classes \ Registered(super) /\ req[q].parent \in Registered(super)
          /\ \A p \in Requests : ~(req[p].new /\ req[p].class = req[q].class)
          /\ UNCHANGED <<super, admin, ci, snap, inverted, displaced>>
      BY <2>3 DEF Insert, RInv, Pending, Naming
    <3>2. \E pc \in {"commit", "read"} : req' = [req EXCEPT ![q].pc = pc, ![q].new = TRUE]
      BY <2>3 DEF Insert
    <3>3. /\ req' \in [Requests -> Request]
          /\ \A p \in Requests \ {q} : req'[p] = req[p]
          /\ req'[q].pc \in {"commit", "read"} /\ req'[q].new = TRUE
          /\ req'[q].class = req[q].class /\ req'[q].parent = req[q].parent
      BY <1>0, <3>2, MoveEffect
    <3>4. TypeOK' /\ ClassForest' /\ SnapshotForest'
      BY <3>1, <3>3 DEF RInv, TypeOK, ClassForest, SnapshotForest
    <3>5. Pending'
      BY <3>1, <3>3 DEF RInv, Pending
    <3>6. ReadForest'
      BY <3>1, <3>3 DEF RInv, ReadForest
    <3> QED
      BY <3>4, <3>5, <3>6 DEF RInv
  <2>4. CASE Commit(q)
    <3>1. req[q].new => /\ req[q].class \in Classes \ Registered(super)
                        /\ req[q].parent \in Registered(super)
                        /\ req[q].parent \in Classes
      BY DEF RInv, Pending, Registered
    <3>2. /\ TypeOK'
          /\ super' = IF req[q].new THEN [super EXCEPT ![req[q].class] = req[q].parent] ELSE super
          /\ \A p \in Requests \ {q} : req'[p] = req[p]
          /\ req'[q].new = FALSE /\ req'[q].pc \in {"idle", "read"}
          /\ \A p \in Replicas : snap'[p].super = snap[p].super
          /\ req[q].pc = "commit" /\ UNCHANGED <<inverted, displaced>>
      BY <1>0, <2>4, <3>1, CommitEffect
    <3>3. ClassForest'
      BY <1>0, <3>1, <3>2, ForestAdd DEF RInv, ClassForest, TypeOK
    <3>4. Registered(super') = Registered(super) \cup (IF req[q].new THEN {req[q].class} ELSE {})
      BY <1>0, <3>1, <3>2 DEF Registered, TypeOK, Trees
    <3>5. Pending'
      <4>1. \A p \in Requests : req'[p].pc \in Naming => req'[p].class \in Classes
        BY <3>2 DEF RInv, Pending, Naming
      <4>2. \A p \in Requests : req'[p].new => p # q /\ req[p].new /\ req'[p] = req[p]
        BY <3>2
      <4>3. \A p \in Requests : req'[p].new => /\ req'[p].class \in Classes \ Registered(super')
                                               /\ req'[p].parent \in Registered(super')
        BY <3>4, <4>2 DEF RInv, Pending
      <4> QED
        BY <4>1, <4>2, <4>3 DEF RInv, Pending
    <3>6. SnapshotForest' /\ ReadForest'
      BY <3>2 DEF RInv, SnapshotForest, ReadForest
    <3> QED
      BY <3>2, <3>3, <3>5, <3>6 DEF RInv
  <2>5. CASE RefreshRead(q)
    <3>1. inverted \/ Forest(IF req[q].new THEN [super EXCEPT ![req[q].class] = req[q].parent] ELSE super)
      BY <1>0, ForestAdd DEF RInv, Pending, ClassForest, TypeOK
    <3> QED
      BY <1>0, <2>5, <3>1, ReadEffect, PrivateStep DEF RInv, TypeOK, SnapshotForest, Naming
  <2>6. CASE RefreshAssign(q)
    <3>1. inverted \/ (req[q].pc = "assign" => Forest(req[q].readSuper))
      BY DEF RInv, ReadForest
    <3> QED
      BY <1>0, <2>6, <3>1, AssignEffect, PrivateStep DEF RInv, SnapshotForest, Naming
  <2>7. CASE Remove(q)
    <3> DEFINE gone == Subtree(super, req[q].class)
    <3>1. /\ \A p \in Requests : ~(req[p].new /\ req[p].parent \in gone)
          /\ super' = [c \in Classes |-> IF c \in gone THEN Absent ELSE super[c]]
          /\ admin' = admin \ gone
          /\ req' = [req EXCEPT ![q].pc = "read"]
          /\ UNCHANGED <<ci, snap, inverted, displaced>>
          /\ req[q].class \in Classes
          /\ req[q].new \in BOOLEAN
      BY <1>0, <2>7 DEF Remove, RInv, Pending, TypeOK, Request, Naming
    <3>2. \A e \in Registered(super) : super[e] \in gone => e \in gone
      BY SubtreeClosed
    <3>3. gone \subseteq Registered(super)
      BY DEF Subtree
    <3> HIDE DEF gone
    <3>4. /\ req' \in [Requests -> Request]
          /\ \A p \in Requests \ {q} : req'[p] = req[p]
          /\ req'[q].pc = "read" /\ req'[q].new = req[q].new
          /\ req'[q].class = req[q].class /\ req'[q].parent = req[q].parent
      BY <1>0, <3>1, MoveEffect
    <3>5. ClassForest'
      BY <1>0, <3>1, <3>2, <3>3, ForestPrune DEF RInv, ClassForest, TypeOK
    <3>6. Registered(super') = Registered(super) \ gone
      BY <3>1 DEF Registered
    <3>7. TypeOK'
      BY <1>0, <3>1, <3>4 DEF TypeOK, Trees
    <3>8. \A p \in Requests : req'[p].new = req[p].new /\ req'[p].class = req[p].class
                              /\ req'[p].parent = req[p].parent
      BY <3>4
    <3>9. Pending'
      <4>1. \A p \in Requests : req'[p].pc \in Naming => req'[p].class \in Classes
        BY <3>1, <3>4 DEF RInv, Pending
      <4> QED
        BY <3>1, <3>6, <3>8, <4>1 DEF RInv, Pending
    <3>10. SnapshotForest' /\ ReadForest'
      BY <3>1, <3>4 DEF RInv, SnapshotForest, ReadForest
    <3> QED
      BY <3>5, <3>7, <3>9, <3>10 DEF RInv
  <2>8. CASE Finish(q) \/ Fail(q)
    BY <1>0, <2>8, OverEffect, PrivateStep DEF RInv, SnapshotForest, Naming
  <2> QED
    BY <1>1, <2>1, <2>2, <2>3, <2>4, <2>5, <2>6, <2>7, <2>8 DEF Step
<1>2. ASSUME NEW x \in Cis, DeleteCi(x)
      PROVE  RInv'
  <2>1. UNCHANGED <<super, admin, snap, req, inverted, displaced>> /\ ci' \in [Cis -> Classes \cup {None}]
    BY <1>0, <1>2 DEF DeleteCi, TypeOK
  <2> QED
    BY <1>0, <2>1 DEF RInv, TypeOK, ClassForest, SnapshotForest, Pending, ReadForest
<1>3. ASSUME NEW p \in Replicas, Restart(p)
      PROVE  RInv'
  <2> DEFINE t == [super |-> super, admin |-> admin, owner |-> None, expired |-> FALSE]
  <2>1. t \in Snapshot /\ t.super = super
    BY <1>0 DEF TypeOK, Snapshot
  <2>2. /\ snap' = [snap EXCEPT ![p] = t] /\ UNCHANGED <<super, admin, ci, inverted, displaced>>
        /\ req' = [q \in Requests |-> IF ReplicaOf[q] = p THEN Idle ELSE req[q]]
    BY <1>3 DEF Restart
  <2> HIDE DEF t
  <2>3. TypeOK'
    BY <1>0, <2>1, <2>2, IdleType DEF TypeOK
  <2>4. \A q \in Requests : req'[q] = Idle \/ req'[q] = req[q]
    BY <2>2
  <2>5. Pending' /\ ReadForest'
    BY <1>0, <2>2, <2>4 DEF RInv, Pending, ReadForest, Naming
  <2>6. ClassForest' /\ SnapshotForest'
    BY <1>0, <2>1, <2>2 DEF RInv, TypeOK, ClassForest, SnapshotForest
  <2> QED
    BY <2>3, <2>5, <2>6 DEF RInv
<1>4. ASSUME NEW e \in Catalogues, Import(e)
      PROVE  RInv'
  <2>0. inverted' \in BOOLEAN /\ (inverted => inverted')
    BY <1>4, Zenon DEF Import
  <2>1. /\ UNCHANGED <<admin, ci, snap, req>> /\ super' \in Trees /\ displaced' \in BOOLEAN
        /\ \A q \in Requests : req[q].new => req[q].class \notin Registered(e)
    BY <1>0, <1>4, CatalogueAssumption DEF Import, TypeOK, Trees
  <2>2. TypeOK'
    BY <1>0, <2>0, <2>1 DEF TypeOK
  <2>3. Registered(super') = Registered(super) \cup Registered(e)
    BY <1>0, <1>4, ImportRegisters
  <2>4. ClassForest'
    BY <1>0, <1>4, <2>0, ForestImport, Zenon DEF RInv, ClassForest
  <2>5. Pending'
    BY <2>1, <2>3 DEF RInv, Pending
  <2>6. SnapshotForest' /\ ReadForest'
    BY <2>0, <2>1, Zenon DEF RInv, SnapshotForest, ReadForest
  <2> QED
    BY <2>2, <2>4, <2>5, <2>6 DEF RInv
<1>5. CASE UNCHANGED vars
  BY <1>5 DEF vars, RInv, TypeOK, ClassForest, SnapshotForest, Pending, ReadForest
<1> QED
  BY <1>1, <1>2, <1>3, <1>4, <1>5 DEF Next

LEMMA Invariance == Spec => []RInv
BY InvInit, InvNext, PTL DEF Spec

\* The committed classes are a forest, however creations, registrations and
\* cascading deletes of any number of processes overlap.
THEOREM HierarchyIsAForest == Spec => []ClassForest
BY Invariance, PTL DEF RInv

\* Every snapshot is a forest, also one read inside a transaction that rolls
\* back: get_ancestors and get_descendants end.
THEOREM SnapshotsAreForests == Spec => []SnapshotForest
BY Invariance, PTL DEF RInv

-----------------------------------------------------------------------------
(***************************************************************************)
(* The built-in classes, as long as none hangs below another class.        *)
(* Nothing a request carries from one step to the next names one as        *)
(* something to insert, to delete, or as user-defined.                     *)
(***************************************************************************)
Builtin == Registered(BuiltinSuper)

Harmless(r) ==
  /\ r.readAdmin \cap Builtin = {}
  /\ r.pc \in {"count", "remove"} => r.class \notin Builtin
  /\ r.new => r.class \notin Builtin

BInv ==
  /\ \A c \in Builtin : super[c] \in Builtin \cup {None}
  /\ admin \cap Builtin = {}
  /\ \A p \in Replicas : snap[p].admin \cap Builtin = {}
  /\ \A q \in Requests : Harmless(req[q])

LEMMA BuiltinsRegistered == BInv => Builtin \subseteq Registered(super)
BY RegistryAssumption DEF BInv, Builtin, Registered

LEMMA IdleHarmless == Harmless(Idle)
BY DEF Harmless, Idle

\* the subtree of a class that is not built in holds no built-in class
LEMMA SubtreeOfUserClass ==
  ASSUME TypeOK, BInv, NEW c \in Classes \ Builtin
  PROVE  Subtree(super, c) \cap Builtin = {}
<1> DEFINE S == Registered(super) \ Builtin
<1>1. ASSUME NEW e \in Registered(super), super[e] \in S
      PROVE  e \in S
  <2>1. SUFFICES ASSUME e \in Builtin PROVE FALSE
    OBVIOUS
  <2>2. super[e] \in Builtin \cup {None}
    BY <2>1 DEF BInv
  <2> QED
    BY <1>1, <2>2, RegistryAssumption DEF Registered
<1>2. {c} \cap Registered(super) \subseteq S
  OBVIOUS
<1>3. S \in SUBSET Registered(super)
  OBVIOUS
<1> HIDE DEF S
<1>4. Subtree(super, c) \subseteq S
  BY <1>1, <1>2, <1>3 DEF Subtree
<1> QED
  BY <1>4 DEF S

LEMMA BuiltinInit == Init => BInv
<1> SUFFICES ASSUME Init PROVE BInv
  OBVIOUS
<1> QED
  BY IdleHarmless, BuiltinAssumption DEF Init, BInv, Builtin, Forest

LEMMA BuiltinBegin ==
  ASSUME TypeOK, BInv, NEW q \in Requests,
         \/ \E c, p \in Classes : BeginCreate(q, c, p)
         \/ \E c \in Classes : AddField(q, c) \/ BeginDelete(q, c)
         \/ \E x \in Cis, c \in Classes : BeginCi(q, x, c)
  PROVE  BInv'
<1>1. /\ req' \in [Requests -> Request]
      /\ \A p \in Requests \ {q} : req'[p] = req[p]
      /\ req'[q].new = FALSE
      /\ UNCHANGED <<super, admin, ci, snap, inverted, displaced>>
  BY BeginType
<1>2. ASSUME NEW c \in Classes, NEW p \in Classes, BeginCreate(q, c, p)
      PROVE  req'[q].pc = "lookup" /\ req'[q].readAdmin = {}
  BY <1>2 DEF BeginCreate, TypeOK, Idle
<1>3. ASSUME NEW c \in Classes, AddField(q, c)
      PROVE  req'[q].pc = "read" /\ req'[q].readAdmin = {}
  BY <1>3 DEF AddField, TypeOK, Idle
<1>4. ASSUME NEW c \in Classes, BeginDelete(q, c)
      PROVE  req'[q].class \notin Builtin /\ req'[q].readAdmin = {}
  <2>1. c \in snap[ReplicaOf[q]].admin /\ ReplicaOf[q] \in Replicas
    BY <1>4, RegistryAssumption DEF BeginDelete, Own
  <2>2. req'[q].class = c /\ req'[q].readAdmin = {}
    BY <1>4 DEF BeginDelete, TypeOK, Idle
  <2> QED
    BY <2>1, <2>2 DEF BInv
<1>5. ASSUME NEW x \in Cis, NEW c \in Classes, BeginCi(q, x, c)
      PROVE  req'[q].pc \in {"lookup", "commit"} /\ req'[q].readAdmin = {}
  BY <1>5 DEF BeginCi, TypeOK, Idle
<1>6. Harmless(req'[q])
  BY <1>1, <1>2, <1>3, <1>4, <1>5 DEF Harmless
<1> QED
  BY <1>1, <1>6 DEF BInv

\* a step that changes no table, with the request harmless after it
LEMMA PrivateBuiltin ==
  ASSUME BInv, NEW q \in Requests, UNCHANGED <<super, admin, snap>>,
         \A p \in Requests \ {q} : req'[p] = req[p], Harmless(req'[q])
  PROVE  BInv'
BY DEF BInv

LEMMA DisplacedStays == displaced /\ [Next]_vars => displaced'
BY DEF Next, vars, Step, BeginCreate, AddField, BeginDelete, BeginCi, Lookup, Insert, Commit, RefreshRead,
       RefreshAssign, Count, Remove, Finish, Fail, DeleteCi, Restart, Import

LEMMA BuiltinNext ==
  ASSUME RInv, BInv, ~ displaced', [Next]_vars
  PROVE  BInv'
<1>0. TypeOK
  BY DEF RInv
<1> USE RegistryAssumption
<1>1. ASSUME NEW q \in Requests, Step(q)
      PROVE  BInv'
  <2>0. req[q] \in Request /\ Harmless(req[q]) /\ ReplicaOf[q] \in Replicas
    BY <1>0 DEF TypeOK, BInv
  <2>1. CASE \/ \E c, p \in Classes : BeginCreate(q, c, p)
             \/ \E c \in Classes : AddField(q, c) \/ BeginDelete(q, c)
             \/ \E x \in Cis, c \in Classes : BeginCi(q, x, c)
    BY <1>0, <2>1, BuiltinBegin
  <2>2. CASE Lookup(q)
    <3>1. /\ \/ req' = [req EXCEPT ![q].pc = "read"]
             \/ req' = [req EXCEPT ![q].pc = "commit"]
             \/ req' = [req EXCEPT ![q].pc = "insert"]
          /\ UNCHANGED <<super, admin, snap>>
      BY <2>2 DEF Lookup
    <3>2. /\ \A p \in Requests \ {q} : req'[p] = req[p]
          /\ Harmless(req'[q])
      <4>1. PICK pc \in {"read", "commit", "insert"} : req' = [req EXCEPT ![q].pc = pc]
        BY <3>1
      <4>2. /\ req'[q].pc = pc /\ req'[q].new = req[q].new
            /\ req'[q].class = req[q].class /\ req'[q].readAdmin = req[q].readAdmin
        BY <1>0, <2>0, <4>1 DEF TypeOK, Request
      <4> QED
        BY <1>0, <2>0, <4>1, <4>2 DEF Harmless, TypeOK
    <3> QED
      BY <3>1, <3>2, PrivateBuiltin
  <2>3. CASE Insert(q)
    <3>1. /\ \/ req' = [req EXCEPT ![q].pc = "read", ![q].new = TRUE]
             \/ req' = [req EXCEPT ![q].pc = "commit", ![q].new = TRUE]
          /\ UNCHANGED <<super, admin, snap>>
          /\ req[q].class \notin Registered(super)
      BY <2>3 DEF Insert
    <3>2. req[q].class \notin Builtin
      BY <3>1, BuiltinsRegistered
    <3>3. /\ \A p \in Requests \ {q} : req'[p] = req[p]
          /\ Harmless(req'[q])
      BY <1>0, <2>0, <3>1, <3>2 DEF Harmless, TypeOK, Request
    <3> QED
      BY <3>1, <3>3, PrivateBuiltin
  <2>4. CASE Commit(q)
    <3>1. /\ super' = IF req[q].new THEN [super EXCEPT ![req[q].class] = req[q].parent] ELSE super
          /\ admin' \subseteq IF req[q].new THEN admin \cup {req[q].class} ELSE admin
      BY <2>4 DEF Commit
    <3>2. \A c \in Builtin : super'[c] = super[c]
      BY <1>0, <2>0, <3>1 DEF Harmless, TypeOK, Trees, Builtin, Registered
    <3>3. admin' \cap Builtin = {}
      BY <2>0, <3>1 DEF Harmless, BInv
    <3>4. \A p \in Replicas : snap'[p].admin = snap[p].admin
      <4>1. snap' = snap \/ snap' = [snap EXCEPT ![ReplicaOf[q]].owner = IF @ = q THEN None ELSE @]
        BY <2>4 DEF Commit
      <4> QED
        BY <1>0, <4>1 DEF TypeOK, Snapshot
    <3>5. /\ \A p \in Requests \ {q} : req'[p] = req[p]
          /\ Harmless(req'[q])
      <4>1. \/ req' = [req EXCEPT ![q] = Idle]
            \/ req' = [req EXCEPT ![q].pc = "read", ![q].new = FALSE]
        BY <2>4 DEF Commit
      <4> QED
        BY <1>0, <2>0, <4>1, IdleHarmless DEF Harmless, TypeOK, Request
    <3> QED
      BY <3>2, <3>3, <3>4, <3>5 DEF BInv
  <2>5. CASE RefreshRead(q)
    <3>1. /\ \A p \in Requests \ {q} : req'[p] = req[p]
          /\ req'[q].pc = "assign" /\ req'[q].new = req[q].new
          /\ req'[q].class = req[q].class
          /\ UNCHANGED <<super, admin, snap>>
      BY <1>0, <2>5, ReadEffect
    <3>2. req'[q].readAdmin = admin
      BY <1>0, <2>0, <2>5 DEF RefreshRead, TypeOK, Request
    <3>3. Harmless(req'[q])
      BY <2>0, <3>1, <3>2 DEF Harmless, BInv
    <3> QED
      BY <3>1, <3>3, PrivateBuiltin
  <2>6. CASE RefreshAssign(q)
    <3>1. /\ \A p \in Requests \ {q} : req'[p] = req[p]
          /\ req'[q].pc \in {"commit", "done"} /\ req'[q].new = req[q].new
          /\ req'[q].class = req[q].class
          /\ \A p \in Replicas \ {ReplicaOf[q]} : snap'[p] = snap[p]
          /\ UNCHANGED <<super, admin, ci, inverted, displaced>>
      BY <1>0, <2>6, AssignEffect
    <3>2. /\ req'[q].readAdmin = {}
          /\ snap'[ReplicaOf[q]].admin = req[q].readAdmin
      BY <1>0, <2>0, <2>6 DEF RefreshAssign, TypeOK, Request
    <3>3. Harmless(req'[q])
      BY <2>0, <3>1, <3>2 DEF Harmless
    <3> QED
      BY <2>0, <3>1, <3>2, <3>3 DEF BInv, Harmless
  <2>7. CASE Count(q)
    <3>1. /\ req' = [req EXCEPT ![q].pc = "remove"] /\ req[q].pc = "count"
          /\ UNCHANGED <<super, admin, snap>>
      BY <2>7 DEF Count
    <3>2. /\ \A p \in Requests \ {q} : req'[p] = req[p]
          /\ Harmless(req'[q])
      BY <1>0, <2>0, <3>1 DEF Harmless, TypeOK, Request
    <3> QED
      BY <3>1, <3>2, PrivateBuiltin
  <2>8. CASE Remove(q)
    <3> DEFINE gone == Subtree(super, req[q].class)
    <3>1. /\ super' = [c \in Classes |-> IF c \in gone THEN Absent ELSE super[c]]
          /\ admin' = admin \ gone
          /\ req' = [req EXCEPT ![q].pc = "read"] /\ req[q].pc = "remove"
          /\ UNCHANGED snap
      BY <2>8 DEF Remove
    <3>2. req[q].class \in Classes
      BY <2>8 DEF RInv, Pending, Remove, Naming
    <3>3. gone \cap Builtin = {}
      BY <1>0, <2>0, <3>1, <3>2, SubtreeOfUserClass DEF Harmless
    <3> HIDE DEF gone
    <3>4. \A c \in Builtin : super'[c] = super[c]
      BY <3>1, <3>3 DEF Builtin, Registered
    <3>5. /\ \A p \in Requests \ {q} : req'[p] = req[p]
          /\ Harmless(req'[q])
      BY <1>0, <2>0, <3>1 DEF Harmless, TypeOK, Request
    <3> QED
      BY <3>1, <3>4, <3>5 DEF BInv
  <2>9. CASE Finish(q) \/ Fail(q)
    <3>1. /\ req' = [req EXCEPT ![q] = Idle] /\ UNCHANGED <<super, admin, ci, inverted, displaced>>
      BY <2>9 DEF Finish, Fail
    <3>2. \A p \in Replicas : snap'[p].admin = snap[p].admin
      <4>1. CASE Finish(q)
        BY <1>0, <2>0, <4>1 DEF Finish, TypeOK, Snapshot
      <4>2. CASE Fail(q)
        BY <1>0, <2>0, <4>2 DEF Fail, TypeOK, Snapshot
      <4> QED
        BY <2>9, <4>1, <4>2
    <3> QED
      BY <1>0, <3>1, <3>2, IdleHarmless DEF BInv, TypeOK
  <2> QED
    BY <1>1, <2>1, <2>2, <2>3, <2>4, <2>5, <2>6, <2>7, <2>8, <2>9 DEF Step
<1>2. ASSUME NEW x \in Cis, DeleteCi(x)
      PROVE  BInv'
  BY <1>2 DEF DeleteCi, BInv
<1>3. ASSUME NEW p \in Replicas, Restart(p)
      PROVE  BInv'
  <2>1. /\ snap' = [snap EXCEPT ![p] = [super |-> super, admin |-> admin, owner |-> None,
                                        expired |-> FALSE]]
        /\ req' = [q \in Requests |-> IF ReplicaOf[q] = p THEN Idle ELSE req[q]]
        /\ UNCHANGED <<super, admin>>
    BY <1>3 DEF Restart
  <2>2. \A r \in Replicas : snap'[r].admin = snap[r].admin \/ snap'[r].admin = admin
    BY <1>0, <2>1 DEF TypeOK
  <2> QED
    BY <2>1, <2>2, IdleHarmless DEF BInv
<1>4. ASSUME NEW e \in Catalogues, Import(e)
      PROVE  BInv'
  <2>1. \A c \in Builtin : c \in Classes /\ e[c] \in Builtin \cup {None}
    BY <1>4, CatalogueAssumption DEF Import, Builtin, Registered
  <2>2. /\ UNCHANGED <<admin, snap, req>>
        /\ \A c \in Classes : super'[c] \in {super[c], e[c]}
    BY <1>4 DEF Import
  <2> QED
    BY <2>1, <2>2 DEF BInv
<1>5. CASE UNCHANGED vars
  BY <1>5 DEF vars, BInv
<1> QED
  BY <1>1, <1>2, <1>3, <1>4, <1>5 DEF Next

\* The classes OpenFlake ships are never removed, not by a delete that decided
\* on a stale snapshot, not by the cascade of another delete, as long as no
\* import has hung one of them below a class that is not of that catalogue.
THEOREM BuiltinClassesStay == Spec => []BuiltinsStay
<1> DEFINE I == RInv /\ (displaced \/ BInv)
<1>1. Init => I
  BY InvInit, BuiltinInit
<1>2. I /\ [Next]_vars => I'
  BY InvNext, BuiltinNext, DisplacedStays
<1>3. I => BuiltinsStay
  BY BuiltinsRegistered DEF BuiltinsStay, Builtin
<1> QED
  BY <1>1, <1>2, <1>3, PTL DEF Spec
-----------------------------------------------------------------------------
(***************************************************************************)
(* Refreshes apart: what makes a snapshot miss a class is that a refresh   *)
(* that is older is assigned last.  All other steps of requests may        *)
(* overlap.                                                                *)
(***************************************************************************)

\* from the SELECT of a refresh until its result is in place, for a client's
\* request until its class is committed
InRefresh(r) == r.pc \in {"read", "assign"} \/ (r.op = "ci" /\ r.new)

RefreshesApart == \A q, p \in Requests : q # p => ~ (InRefresh(req[q]) /\ InRefresh(req[p]))

SingleProcess == \A p, r \in Replicas : p = r

\* a request that has committed and not yet refreshed
Owing(r) == r.pc \in {"read", "assign"} /\ r.op # "ci"

Known == \A p \in Replicas : Registered(super) \subseteq Registered(snap[p].super)

\* what a request has read, or has put in place before its commit
Ready(q) ==
  /\ req[q].pc \in {"count", "remove"} => req[q].op = "delete"
  /\ req[q].pc = "assign" => /\ Registered(super) \subseteq Registered(req[q].readSuper)
                             /\ req[q].new => req[q].class \in Registered(req[q].readSuper)
  /\ (req[q].pc = "commit" /\ req[q].op = "ci" /\ req[q].new)
       => req[q].class \in Registered(snap[ReplicaOf[q]].super)

VInv ==
  /\ \A q \in Requests : Ready(q)
  /\ (\E q \in Requests : Owing(req[q])) \/ Known

LEMMA IdleReady == Idle.pc = "idle" /\ Idle.new = FALSE
BY DEF Idle

\* a step of q that leaves the others and what they rely on in place
LEMMA ReadyStep ==
  ASSUME VInv, NEW q \in Requests, \A p \in Requests \ {q} : req'[p] = req[p],
         Ready(q)', Owing(req[q])' \/ Known' \/ (UNCHANGED super /\ ~ Owing(req[q])),
         \A p \in Requests \ {q} : req[p].pc = "assign" => Registered(super') \subseteq Registered(super),
         \A p \in Replicas : snap'[p].super = snap[p].super
                             \/ (Known' /\ \A r \in Requests \ {q} : ~ InRefresh(req[r]))
  PROVE  VInv'
<1>1. ASSUME NEW p \in Requests PROVE Ready(p)'
  <2>1. CASE p # q
    <3>1. req'[p] = req[p] /\ Ready(p) /\ ReplicaOf[p] \in Replicas
      BY <2>1, RegistryAssumption DEF VInv
    <3>2. InRefresh(req[p]) => snap'[ReplicaOf[p]].super = snap[ReplicaOf[p]].super
      BY <2>1, <3>1
    <3> QED
      BY <2>1, <3>1, <3>2 DEF Ready, InRefresh
  <2> QED
    BY <2>1
<1>2. (\E p \in Requests : Owing(req[p])') \/ Known'
  <2>1. CASE UNCHANGED super /\ ~ Owing(req[q]) /\ \A p \in Replicas : snap'[p].super = snap[p].super
    <3>1. CASE Known
      BY <2>1, <3>1 DEF Known, Registered
    <3>2. CASE ~ Known
      <4>1. PICK p \in Requests : Owing(req[p])
        BY <3>2 DEF VInv
      <4>2. req'[p] = req[p]
        BY <2>1, <4>1
      <4> QED
        BY <4>1, <4>2
    <3> QED
      BY <3>1, <3>2
  <2> QED
    BY <2>1
<1> QED
  BY <1>1, <1>2 DEF VInv

LEMMA VisibleStep ==
  ASSUME ~ LostAfterCommit, SingleProcess, RInv, VInv, RefreshesApart, RefreshesApart',
         NEW q \in Requests, Step(q)
  PROVE  VInv'
<1> USE RegistryAssumption
<1>0. TypeOK /\ Pending /\ req[q] \in Request /\ Ready(q) /\ ReplicaOf[q] \in Replicas
  BY DEF RInv, TypeOK, VInv
<1>1. CASE \/ \E c, p \in Classes : BeginCreate(q, c, p)
           \/ \E c \in Classes : AddField(q, c) \/ BeginDelete(q, c)
           \/ \E x \in Cis, c \in Classes : BeginCi(q, x, c)
  <2>1. /\ req[q].pc = "idle" /\ \A p \in Requests \ {q} : req'[p] = req[p]
        /\ req'[q].new = FALSE /\ req'[q].pc # "assign" /\ UNCHANGED <<super, snap>>
    BY <1>0, <1>1, BeginType
  <2>2. req'[q].pc \in {"count", "remove"} => req'[q].op = "delete"
    <3>1. ASSUME NEW c \in Classes, NEW p \in Classes, BeginCreate(q, c, p) PROVE req'[q].pc = "lookup"
      BY <1>0, <3>1 DEF BeginCreate, TypeOK, Idle
    <3>2. ASSUME NEW c \in Classes, AddField(q, c) PROVE req'[q].pc = "read"
      BY <1>0, <3>2 DEF AddField, TypeOK, Idle
    <3>3. ASSUME NEW c \in Classes, BeginDelete(q, c) PROVE req'[q].op = "delete"
      BY <1>0, <3>3 DEF BeginDelete, TypeOK, Idle
    <3>4. ASSUME NEW x \in Cis, NEW c \in Classes, BeginCi(q, x, c) PROVE req'[q].pc \in {"commit", "lookup"}
      BY <1>0, <3>4 DEF BeginCi, TypeOK, Idle
    <3> QED
      BY <1>1, <3>1, <3>2, <3>3, <3>4
  <2> QED
    BY <2>1, <2>2, ReadyStep DEF Ready, Owing
<1>2. CASE Lookup(q) \/ Insert(q)
  <2>1. /\ req'[q].pc \in {"insert", "read"} \/ (req'[q].pc = "commit" /\ req'[q].op # "ci")
        /\ req[q].pc \in {"lookup", "insert"} /\ UNCHANGED <<super, snap>>
        /\ \A p \in Requests \ {q} : req'[p] = req[p]
    BY <1>0, <1>2 DEF Lookup, Insert, TypeOK, Request
  <2> QED
    BY <2>1, ReadyStep DEF Ready, Owing
<1>3. CASE Count(q)
  <2>1. /\ req[q].pc = "count" /\ req'[q].pc = "remove" /\ req'[q].op = req[q].op
        /\ \A p \in Requests \ {q} : req'[p] = req[p]
        /\ UNCHANGED <<super, snap>>
    BY <1>0, <1>3 DEF Count, TypeOK, Request
  <2> QED
    BY <1>0, <2>1, ReadyStep DEF Ready, Owing
<1>4. CASE Commit(q)
  <2>1. /\ super' = IF req[q].new THEN [super EXCEPT ![req[q].class] = req[q].parent] ELSE super
        /\ \A p \in Requests \ {q} : req'[p] = req[p]
        /\ req'[q].new = FALSE /\ req'[q].pc \in {"idle", "read"}
        /\ \A p \in Replicas : snap'[p].super = snap[p].super
        /\ req[q].pc = "commit"
    BY <1>0, <1>4, CommitEffect, Zenon DEF Pending, Registered
  <2>2. Ready(q)'
    BY <2>1 DEF Ready
  <2>3. req[q].op # "ci" => req'[q].pc = "read" /\ req'[q].op = req[q].op
    BY <1>0, <1>4 DEF Commit, TypeOK, Request
  <2>4. req[q].new => /\ req[q].class \in Classes
                      /\ Registered(super') \subseteq Registered(super) \cup {req[q].class}
    BY <1>0, <2>1 DEF Pending, Registered, TypeOK, Trees
  <2>5. ~ Owing(req[q])
    BY <2>1 DEF Owing
  <2>6. Owing(req[q])' \/ Known' \/ UNCHANGED super
    <3>1. CASE req[q].op # "ci"
      BY <2>3, <3>1 DEF Owing
    <3>2. CASE req[q].op = "ci" /\ req[q].new
      <4>1. \A p \in Requests : ~ Owing(req[p])
        BY <2>5, <3>2 DEF RefreshesApart, InRefresh, Owing
      <4>2. Known
        BY <4>1 DEF VInv
      <4>3. \A p \in Replicas : req[q].class \in Registered(snap[p].super)
        BY <1>0, <2>1, <3>2 DEF Ready, SingleProcess
      <4> QED
        BY <2>1, <2>4, <3>2, <4>2, <4>3 DEF Known
    <3>3. CASE ~ req[q].new
      BY <2>1, <3>3
    <3> QED
      BY <1>0, <3>1, <3>2, <3>3 DEF Request
  <2>7. ASSUME NEW p \in Requests \ {q}, req[p].pc = "assign"
        PROVE  Registered(super') \subseteq Registered(super)
    <3>1. ~ (InRefresh(req[q])') /\ ~ InRefresh(req[q])
      BY <2>1, <2>7 DEF RefreshesApart, InRefresh
    <3>2. ~ req[q].new
      BY <2>3, <3>1 DEF InRefresh
    <3> QED
      BY <1>0, <2>1, <3>2 DEF Request
  <2> QED
    BY <2>1, <2>2, <2>5, <2>6, <2>7, ReadyStep
<1>5. CASE RefreshRead(q)
  <2>1. /\ \A p \in Requests \ {q} : req'[p] = req[p]
        /\ req'[q].pc = "assign" /\ req'[q].new = req[q].new
        /\ req'[q].class = req[q].class
        /\ req'[q].readSuper = IF req[q].new THEN [super EXCEPT ![req[q].class] = req[q].parent] ELSE super
        /\ req[q].pc = "read" /\ UNCHANGED <<super, snap>>
    BY <1>0, <1>5, ReadEffect
  <2>2. req'[q].op = req[q].op
    BY <1>0, <1>5 DEF RefreshRead, TypeOK, Request
  <2>3. req[q].new => /\ req[q].class \in Classes \ Registered(super)
                      /\ req[q].parent # Absent
    BY <1>0 DEF Pending, Registered
  <2>4. /\ Registered(super) \subseteq Registered(req'[q].readSuper)
        /\ req[q].new => req[q].class \in Registered(req'[q].readSuper)
    BY <1>0, <2>1, <2>3 DEF TypeOK, Trees, Registered
  <2>5. Ready(q)'
    BY <2>1, <2>4 DEF Ready
  <2>6. Owing(req[q])' <=> Owing(req[q])
    BY <2>1, <2>2 DEF Owing
  <2> QED
    BY <2>1, <2>5, <2>6, ReadyStep
<1>6. CASE RefreshAssign(q)
  <2>1. /\ \A p \in Requests \ {q} : req'[p] = req[p]
        /\ req'[q].pc \in {"commit", "done"} /\ req'[q].new = req[q].new
        /\ req'[q].class = req[q].class
        /\ snap'[ReplicaOf[q]].super = req[q].readSuper
        /\ req[q].pc = "assign" /\ UNCHANGED super
    BY <1>0, <1>6, AssignEffect
  <2>2. Ready(q)'
    BY <1>0, <2>1 DEF Ready
  <2>3. Known'
    BY <1>0, <2>1 DEF Ready, Known, SingleProcess, Registered
  <2>4. \A r \in Requests \ {q} : ~ InRefresh(req[r])
    BY <2>1 DEF RefreshesApart, InRefresh
  <2> QED
    BY <2>1, <2>2, <2>3, <2>4, ReadyStep
<1>7. CASE Remove(q)
  <2>1. /\ req'[q].pc = "read" /\ req'[q].op = req[q].op /\ req[q].pc = "remove"
        /\ \A p \in Requests \ {q} : req'[p] = req[p]
        /\ Registered(super') \subseteq Registered(super) /\ UNCHANGED snap
    BY <1>0, <1>7 DEF Remove, TypeOK, Request, Registered
  <2>2. Ready(q)' /\ Owing(req[q])'
    BY <1>0, <2>1 DEF Ready, Owing
  <2> QED
    BY <2>1, <2>2, ReadyStep
<1>8. CASE Finish(q) \/ Fail(q)
  <2>1. /\ \A p \in Requests \ {q} : req'[p] = req[p]
        /\ req'[q] = Idle /\ UNCHANGED super
        /\ \A p \in Replicas : snap'[p].super = snap[p].super
    BY <1>0, <1>8, OverEffect
  <2>2. ~ Owing(req[q])
    BY <1>8 DEF Finish, Fail, MayFail, Owing
  <2>3. Ready(q)'
    BY <2>1, IdleReady DEF Ready
  <2> QED
    BY <2>1, <2>2, <2>3, ReadyStep
<1> QED
  BY <1>1, <1>2, <1>3, <1>4, <1>5, <1>6, <1>7, <1>8 DEF Step

LEMMA VisibleNext ==
  ASSUME ~ LostAfterCommit, Catalogues = {}, SingleProcess, RInv, VInv, RefreshesApart, RefreshesApart',
         [Next]_vars
  PROVE  VInv'
<1>0. TypeOK
  BY DEF RInv
<1>1. ASSUME NEW x \in Cis, DeleteCi(x) PROVE VInv'
  BY <1>1 DEF DeleteCi, VInv, Ready, Known
<1>2. ASSUME NEW p \in Replicas, Restart(p) PROVE VInv'
  <2>1. /\ \A q \in Requests : req'[q] = Idle
        /\ snap'[p].super = super /\ UNCHANGED super /\ \A r \in Replicas : r = p
    BY <1>0, <1>2, RegistryAssumption DEF Restart, TypeOK, SingleProcess
  <2> QED
    BY <2>1, IdleReady DEF VInv, Ready, Known
<1>3. CASE UNCHANGED vars
  BY <1>3 DEF vars, VInv, Ready, Known
<1> QED
  BY <1>1, <1>2, <1>3, VisibleStep DEF Next

\* In one process that loses no request between its commit and its refresh,
\* the snapshot has every committed class once the requests are over: the
\* promise of admin_tables.py:5.  The checks, inserts, deletes and failures of
\* requests overlap as they may; only two refreshes do not.
THEOREM ChangesVisibleApart ==
  ASSUME ~ LostAfterCommit, Catalogues = {}, SingleProcess
  PROVE  Spec /\ []RefreshesApart => []ChangesAreVisible
<1> DEFINE I == RInv /\ VInv
<1>1. Init => I
  <2> SUFFICES ASSUME Init PROVE VInv
    BY InvInit
  <2> QED
    BY IdleReady DEF Init, VInv, Ready, Known
<1>2. I /\ RefreshesApart /\ RefreshesApart' /\ [Next]_vars => I'
  BY InvNext, VisibleNext
<1>3. I => ChangesAreVisible
  <2> SUFFICES ASSUME VInv, NEW p \in Replicas, Quiet(p)
               PROVE  Registered(super) \subseteq Registered(snap[p].super)
    BY DEF ChangesAreVisible
  <2>1. \A q \in Requests : ReplicaOf[q] = p
    BY RegistryAssumption DEF SingleProcess
  <2> QED
    BY <2>1 DEF VInv, Quiet, Owing, Known
<1> QED
  BY <1>1, <1>2, <1>3, PTL DEF Spec
=============================================================================
