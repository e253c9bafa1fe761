----------------------------- MODULE RecordStore -----------------------------
(***************************************************************************)
(* The records of OpenFlake and the delete operation of the table service  *)
(* (backend/app/domain/table_service.py, domain/registry.py and the        *)
(* attachment helpers it calls).                                           *)
(*                                                                         *)
(* A record is a row with reference columns.  The schema sorts a reference *)
(* column into one of four classes:                                        *)
(*   - FkFields: a real foreign key, ON DELETE CASCADE                     *)
(*     (PARENT_CHILD_RELATIONS);                                           *)
(*   - NullableFields, RequiredFields: a "loose" reference, a plain column *)
(*     holding a sys_id, found through REVERSE_REFERENCE_MAP;              *)
(*   - UnmappedFields: a sys_id column the registry does not list.         *)
(* Beside its columns a record owns rows keyed by (table_name,             *)
(* record_sys_id): comments, audit entries, grants and attachments; the    *)
(* files of the attachments are in module Attachments.                     *)
(*                                                                         *)
(* Every HTTP request is one database transaction at READ COMMITTED (see   *)
(* app/db.py get_db).  Deletes are long, so their transactions run step by *)
(* step: what a delete has done so far is private to tx[s] and becomes     *)
(* visible when it commits.  The other writers are single statements here  *)
(* and commit at once.                                                     *)
(***************************************************************************)
EXTENDS Naturals

CONSTANTS
  Records,        \* sys_ids; one is never used for a second record
  Tables,         \* table names
  TableOf,        \* the table of a record
  FkFields, NullableFields, RequiredFields, UnmappedFields,
  FieldTable,     \* the table a reference column belongs to
  FieldTarget,    \* the table its values point into (ref_table)
  AuditedTables,  \* RBAC_RECORD_TABLES: update_record audits these
  Comments,       \* comment and grant rows, each of one record at a time
  Uploads,        \* attachments, likewise
  Audit,          \* the audit rows of a record, taken together
  Sessions,       \* requests that may be deleting at the same time
  None

Registered == NullableFields \cup RequiredFields
Fields == FkFields \cup Registered \cup UnmappedFields
Kinds == Comments \cup Uploads \cup {Audit}

ASSUME SchemaAssumption ==
  /\ \A r \in Records : TableOf[r] \in Tables
  /\ \A f \in Fields : FieldTable[f] \in Tables /\ FieldTarget[f] \in Tables
  /\ FkFields \cap (Registered \cup UnmappedFields) = {}
  /\ NullableFields \cap RequiredFields = {}
  /\ UnmappedFields \cap Registered = {}
  /\ Uploads \cap (Comments \cup {Audit}) = {}
  /\ Audit \notin Comments
  /\ None \notin Records

VARIABLES
  status,   \* "unborn", "live", or how the row went: see Status
  val,      \* committed value of every reference column
  own,      \* committed rows owned by a record: <<record, kind>>
  tx,       \* the delete each session is running
  late,     \* history: references written when a running delete of the record
            \* they name had passed their column, or the record was gone
  raced,    \* history: rows added to a record that was emptied or gone
  moved     \* history: references another request changed after a running
            \* delete had selected their row and before it handled the row

data == <<status, val, own>>
history == <<late, raced, moved>>
vars == <<status, val, own, tx, late, raced, moved>>

(***************************************************************************)
(* A row that was deleted by a request keeps the ref_mode the request gave *)
(* ("keep" when it gave none, as for every nested delete); "fk" is a row   *)
(* the database removed because its parent went.                           *)
(***************************************************************************)
Modes == {"keep", "clear", "cascade"}
Status == {"unborn", "live", "fk"} \cup Modes

live == {r \in Records : status[r] = "live"}

NoTx == [mode |-> "keep", target |-> None, todo |-> {}, field |-> None,
         work |-> {}, emptied |-> None, killed |-> {}, gone |-> {}, cleared |-> {},
         dropped |-> {}, closing |-> FALSE, removed |-> FALSE]

Tx == [mode : Modes, target : Records \cup {None}, todo : SUBSET Registered,
       field : Registered \cup {None}, work : SUBSET Records,
       emptied : Records \cup {None},       \* emptied, its DELETE is next
       killed : SUBSET Records,             \* emptied by delete_record
       gone : SUBSET Records,               \* rows deleted, cascades included
       cleared : SUBSET (Records \X Fields),\* references set to NULL
       dropped : SUBSET (Records \X Kinds), \* owned rows deleted
       closing : BOOLEAN,                   \* the references are settled
       removed : BOOLEAN]                   \* the target itself was deleted

TypeOK ==
  /\ status \in [Records -> Status]
  /\ val \in [Records -> [Fields -> Records \cup {None}]]
  /\ own \subseteq Records \X Kinds
  /\ tx \in [Sessions -> Tx]
  /\ late \subseteq Records \X Fields
  /\ raced \subseteq Records \X Kinds
  /\ moved \subseteq Records \X Fields

Active(s) == tx[s].target # None

-----------------------------------------------------------------------------
(***************************************************************************)
(* Reference columns and row locks.                                        *)
(***************************************************************************)

\* variant: parent-child pairs are kept
ReverseReferencesWithFk(t) == {f \in Registered \cup FkFields : FieldTarget[f] = TableOf[t]}

\* REVERSE_REFERENCE_MAP.get(table): the loose references into t's table
ReverseReferences(t) == {f \in Registered : FieldTarget[f] = TableOf[t]}

ColumnsOf(r) == {f \in Fields : FieldTable[f] = TableOf[r]}

\* what a session sees of the committed columns plus its own updates
Seen(s, r, f) == IF <<r, f>> \in tx[s].cleared THEN None ELSE val[r][f]

\* variant: the UPDATE of a cleared row is left to the commit
UpdatedAtCommit(s) == {}

\* rows with an uncommitted DELETE or UPDATE, which are locked: every cleared
\* row is flushed with its audit entry before the next one is handled
Updated(s) == {r \in Records : \E f \in Fields : <<r, f>> \in tx[s].cleared}
HeldByOther(s) == UNION {tx[q].gone \cup Updated(q) : q \in Sessions \ {s}}
Held == UNION {tx[q].gone \cup Updated(q) : q \in Sessions}
Deleting == UNION {tx[q].gone : q \in Sessions}

\* the rows a DELETE of D takes with it: the least set of rows that holds D
\* and every row whose foreign key points into the set
ClosedUnderFk(S) == \A r \in live, f \in FkFields : val[r][f] \in S => r \in S
Under(D) == {r \in live : \A S \in SUBSET live :
                            (D \cap live \subseteq S /\ ClosedUnderFk(S)) => r \in S}

Init ==
  /\ status = [r \in Records |-> "unborn"]
  /\ val = [r \in Records |-> [f \in Fields |-> None]]
  /\ own = {}
  /\ tx = [s \in Sessions |-> NoTx]
  /\ late = {}
  /\ raced = {}
  /\ moved = {}

-----------------------------------------------------------------------------
(***************************************************************************)
(* The other requests.  A client refers to the records it was shown, which *)
(* may be gone when its request arrives.  PostgreSQL checks a foreign key: *)
(* the write waits for a transaction that is deleting the parent and fails *)
(* once that one commits.  Nothing checks a loose reference.               *)
(***************************************************************************)
Allowed(f) ==
  LET shown == {x \in Records : status[x] # "unborn" /\ TableOf[x] = FieldTarget[f]}
  IN  IF f \in FkFields THEN ((shown \cap live) \ Deleting) \cup {None}
      ELSE IF f \in RequiredFields THEN shown
      ELSE shown \cup {None}

\* some running delete of x has already looked at column f
Passed(f, x) == \E s \in Sessions : /\ Active(s)
                                    /\ tx[s].target = x
                                    /\ f \notin tx[s].todo

\* a reference to x written now is one no delete of x will find
TooLate(f, x) == x # None /\ (x \notin live \/ Passed(f, x))

\* a running delete has selected r for its reference f and not handled it yet
Selected(r, f) == \E s \in Sessions : tx[s].field = f /\ r \in tx[s].work

\* a running delete has emptied r, or r is gone
EmptiedByOther(s, r) == \E q \in Sessions \ {s} : r \in tx[q].killed
Emptied(r) == r \notin live \/ \E s \in Sessions : r \in tx[s].killed

\* create_record: insert the row with its columns
Create(r, row) ==
  /\ status[r] = "unborn"
  /\ \A f \in Fields : IF f \in ColumnsOf(r) THEN row[f] \in Allowed(f)
                                             ELSE row[f] = None
  /\ status' = [status EXCEPT ![r] = "live"]
  /\ val' = [val EXCEPT ![r] = row]
  /\ late' = late \cup {<<r, f>> : f \in {g \in ColumnsOf(r) : TooLate(g, row[g])}}
  /\ UNCHANGED <<own, tx, raced, moved>>

\* update_record of one reference column, with its audit entry
SetReference(r, f, x) ==
  /\ r \in live \ Held
  /\ f \in ColumnsOf(r)
  /\ x \in Allowed(f) \ {val[r][f]}
  /\ val' = [val EXCEPT ![r][f] = x]
  /\ LET audited == IF TableOf[r] \in AuditedTables THEN {<<r, Audit>>} ELSE {}
     IN  /\ own' = own \cup audited
         /\ raced' = IF Emptied(r) THEN raced \cup audited ELSE raced
  /\ late' = IF TooLate(f, x) THEN late \cup {<<r, f>>} ELSE late \ {<<r, f>>}
  /\ moved' = IF Selected(r, f) THEN moved \cup {<<r, f>>} ELSE moved \ {<<r, f>>}
  /\ UNCHANGED <<status, tx>>

\* a comment, a grant or an attachment of r: what the caller may do with the
\* parent is checked when the request begins, if the parent is found; the row
\* is inserted in any case, and no lock is taken
AddRow(r, k) ==
  /\ status[r] # "unborn"
  /\ \A q \in Records : <<q, k>> \notin own
  /\ own' = own \cup {<<r, k>>}
  /\ raced' = IF Emptied(r) THEN raced \cup {<<r, k>>} ELSE raced
  /\ UNCHANGED <<status, val, tx, late, moved>>

-----------------------------------------------------------------------------
(***************************************************************************)
(* delete_record(table, t, ref_mode), step by step.                        *)
(***************************************************************************)

\* variant: only ref_mode=clear looks for references
BeginDeleteClearOnly(s, t, m) ==
  /\ ~Active(s)
  /\ t \in live
  /\ tx' = [tx EXCEPT ![s] =
              [NoTx EXCEPT !.mode = m, !.target = t,
                           !.todo = IF m = "clear" THEN ReverseReferences(t) ELSE {}]]
  /\ UNCHANGED <<data, history>>

\* db.get finds the row; the checks of the caller's rights pass
BeginDelete(s, t, m) ==
  /\ ~Active(s)
  /\ t \in live
  /\ tx' = [tx EXCEPT ![s] =
              [NoTx EXCEPT !.mode = m, !.target = t,
                           !.todo = IF m = "keep" THEN {} ELSE ReverseReferences(t)]]
  /\ UNCHANGED <<data, history>>

\* clear_loose_references, cascade_loose_references: SELECT the rows of the
\* next column; the order of the columns is that of a Python set
ScanColumn(s, f) ==
  /\ tx[s].work = {} /\ tx[s].emptied = None
  /\ f \in tx[s].todo
  /\ tx' = [tx EXCEPT ![s].todo = @ \ {f},
                      ![s].field = f,
                      ![s].work = {r \in live \ tx[s].gone : Seen(s, r, f) = tx[s].target}]
  /\ UNCHANGED <<data, history>>

\* a nullable reference is set to NULL, whatever it names by now, and the
\* UPDATE is flushed with an audit entry on its record
ClearReference(s, r) ==
  /\ tx[s].mode = "clear" /\ tx[s].emptied = None
  /\ tx[s].field \in NullableFields
  /\ r \in tx[s].work
  /\ r \in live \ HeldByOther(s)
  /\ tx' = [tx EXCEPT ![s].work = @ \ {r},
                      ![s].cleared = @ \cup {<<r, tx[s].field>>}]
  /\ UNCHANGED <<data, history>>

\* the row to update is gone: StaleDataError, the request rolls back
StaleReference(s, r) ==
  /\ tx[s].mode = "clear" /\ tx[s].emptied = None
  /\ tx[s].field \in NullableFields
  /\ r \in tx[s].work \ live
  /\ tx' = [tx EXCEPT ![s] = NoTx]
  /\ UNCHANGED <<data, history>>

\* variant: attachments are removed, the polymorphic children are not
EmptyAttachmentsOnly(s, r, isTarget) ==
  /\ tx[s].emptied = None
  /\ tx' = [tx EXCEPT ![s].work = @ \ {r},
                      ![s].emptied = r,
                      ![s].killed = @ \cup {r},
                      ![s].dropped = @ \cup {o \in own : o[1] = r /\ o[2] \in Uploads},
                      ![s].closing = isTarget]
  /\ UNCHANGED <<status, val, own, history>>

\* what delete_record does to a record once the references to it are settled:
\* its polymorphic children and attachments go; no lock keeps others from adding
\* some until the row is deleted
Empty(s, r, isTarget) ==
  /\ tx[s].emptied = None
  /\ tx' = [tx EXCEPT ![s].work = @ \ {r},
                      ![s].emptied = r,
                      ![s].killed = @ \cup {r},
                      ![s].dropped = @ \cup {o \in own : o[1] = r},
                      ![s].closing = isTarget]
  /\ UNCHANGED <<status, val, own, history>>

\* a required reference (clear), or any loose reference (cascade): the
\* referring record is deleted by a nested delete_record without a ref_mode
EmptyReferrer(s, r) ==
  /\ tx[s].mode = "cascade" \/ tx[s].field \in RequiredFields
  /\ r \in tx[s].work
  /\ Empty(s, r, FALSE)

EmptyTarget(s) ==
  /\ Active(s)
  /\ ~tx[s].removed
  /\ tx[s].todo = {} /\ tx[s].work = {}
  /\ Empty(s, tx[s].target, TRUE)

\* DELETE of the emptied row, which takes its foreign-key children along and
\* waits for the transactions that hold one of them.  A row that is no longer
\* there only makes the DELETE match nothing.
DeleteRow(s) ==
  LET rows == Under({tx[s].emptied}) \ tx[s].gone
  IN  /\ tx[s].emptied # None
      /\ rows \cap HeldByOther(s) = {}
      /\ tx' = [tx EXCEPT ![s].emptied = None,
                          ![s].gone = @ \cup rows,
                          ![s].removed = tx[s].closing]
      /\ UNCHANGED <<data, history>>

\* get_db commits after the handler returned
Commit(s) ==
  LET t == tx[s]
      audited == {<<r, Audit>> : r \in Updated(s) \ t.killed}
  IN  /\ t.removed
      /\ status' = [r \in Records |->
                      IF r \in t.gone
                      THEN IF r = t.target THEN t.mode
                           ELSE IF r \in t.killed THEN "keep" ELSE "fk"
                      ELSE status[r]]
      /\ val' = [r \in Records |-> [f \in Fields |-> Seen(s, r, f)]]
      /\ own' = (own \ t.dropped) \cup audited
      /\ tx' = [tx EXCEPT ![s] = NoTx]
      /\ raced' = (raced \ t.dropped) \cup {o \in audited : EmptiedByOther(s, o[1])}
      /\ moved' = moved \cup {c \in t.cleared : Selected(c[1], c[2])}
      /\ UNCHANGED late

\* any statement may fail (403 on a nested delete, a deadlock victim, a lost
\* connection): the transaction rolls back
Rollback(s) ==
  /\ Active(s)
  /\ tx' = [tx EXCEPT ![s] = NoTx]
  /\ UNCHANGED <<data, history>>

\* the process dies and starts again: purge_orphan_attachments
Restart ==
  /\ tx' = [s \in Sessions |-> NoTx]
  /\ own' = {o \in own : o[2] \in Uploads => o[1] \in live}
  /\ raced' = raced \cap own'
  /\ UNCHANGED <<status, val, late, moved>>

DeleteStep(s) ==
  \/ \E t \in Records, m \in Modes : BeginDelete(s, t, m)
  \/ \E f \in Registered : ScanColumn(s, f)
  \/ \E r \in Records : ClearReference(s, r) \/ StaleReference(s, r) \/ EmptyReferrer(s, r)
  \/ EmptyTarget(s)
  \/ DeleteRow(s)
  \/ Commit(s)
  \/ Rollback(s)

Next ==
  \/ \E r \in Records, row \in [Fields -> Records \cup {None}] : Create(r, row)
  \/ \E r \in Records, f \in Fields, x \in Records \cup {None} : SetReference(r, f, x)
  \/ \E r \in Records, k \in Comments \cup Uploads : AddRow(r, k)
  \/ \E s \in Sessions : DeleteStep(s)
  \/ Restart

Spec == Init /\ [][Next]_vars

-----------------------------------------------------------------------------
(***************************************************************************)
(* Properties.                                                             *)
(***************************************************************************)

\* A delete with a ref_mode settles every registered reference to its target:
\* what still names the deleted record was written by a request that came
\* behind the scan of its column, or that arrived when the record was gone
\* (create_record and update_record look up no reference).
NoLooseEnds ==
  \A r \in live, f \in Registered :
    (val[r][f] # None /\ status[val[r][f]] \in {"clear", "cascade"}) => <<r, f>> \in late

\* A record that went through delete_record leaves no comment, audit entry,
\* grant or attachment behind, except one that was added after it had been
\* emptied: no request that adds one locks or requires its parent.
OwnRowsRemoved ==
  \A o \in own : status[o[1]] \in Modes => o \in raced

\* clear_loose_references takes from a record only a reference to its target:
\* what a delete has set to NULL, and has locked, names the target in the
\* committed data, unless another request changed the reference between the
\* SELECT that found the row and the UPDATE.
ClearsOnlyItsOwn ==
  \A s \in Sessions, c \in Records \X Fields :
    c \in tx[s].cleared => val[c[1]][c[2]] = tx[s].target \/ c \in moved

\* registry.py: "Deleting any record must also delete its own rows in these
\* tables."  Here of every record that goes, by request or by the database.
OwnRowsGoWithRecord ==
  \A o \in own : o[2] \notin Uploads => status[o[1]] = "live" \/ o \in raced
=============================================================================
