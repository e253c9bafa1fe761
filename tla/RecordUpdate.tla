---------------------------- MODULE RecordUpdate ----------------------------
(***************************************************************************)
(* Updating one record (update_record in                                   *)
(* backend/app/domain/table_service.py, update_cmdb_ci in                  *)
(* domain/cmdb/ci_service.py).                                             *)
(*                                                                         *)
(* An update reads the row without a lock, lays the client's fields over   *)
(* what it read, and writes it back.  SQLAlchemy writes the columns whose  *)
(* value changed since the read.  A field with a column of its own (state, *)
(* assigned_to) is one such column; the JSON document with the remaining   *)
(* fields (other, attributes) is one column as a whole, and sys_mod_count  *)
(* is another.                                                             *)
(***************************************************************************)
EXTENDS Naturals, FiniteSets, Sequences

CONSTANTS
  Columns,    \* fields with a column of their own
  Keys,       \* fields kept in the JSON document
  Values,     \* NULL may be one of them
  Requests,   \* requests that may be running at the same time
  MaxUpdates, \* bound on the updates begun
  None        \* the document has no such key; the payload has no such field

Fields == Columns \cup Keys

ASSUME UpdateAssumption ==
  /\ None \notin Values
  /\ Columns \cap Keys = {}
  /\ MaxUpdates \in Nat

VARIABLES
  row,    \* the committed fields of the record
  count,  \* its committed sys_mod_count
  audit,  \* the committed sys_audit entries, a batch for every update
  req,    \* the update every client has running
  done,   \* history: updates committed
  begun   \* history: updates begun

vars == <<row, count, audit, req, done, begun>>

Row == [Fields -> Values \cup {None}]
Change == [field : Fields, old : Values \cup {None}, new : Values \cup {None}]

NoPayload == [f \in Fields |-> None]

Idle == [pc |-> "idle", payload |-> NoPayload, read |-> NoPayload, readCount |-> 0,
         readDone |-> 0, new |-> NoPayload, changes |-> {}]

Request == [pc : {"idle", "read", "written"},
            payload : Row,
            read : Row, readCount : Nat,   \* the ORM object, as it was loaded
            readDone : Nat,                \* history: the updates committed by then
            new : Row,                     \* the row after this request's UPDATE
            changes : SUBSET Change]       \* its audit entries

TypeOK ==
  /\ row \in Row
  /\ count \in Nat
  /\ audit \in Seq(SUBSET Change)
  /\ req \in [Requests -> Request]
  /\ done \in Nat /\ begun \in Nat

Init ==
  /\ \E v \in Values : row = [f \in Fields |-> IF f \in Columns THEN v ELSE None]
  /\ count = 0
  /\ audit = <<>>
  /\ req = [r \in Requests |-> Idle]
  /\ done = 0
  /\ begun = 0

\* the ORM object: the payload laid over what was read; current.update(other)
Laid(q) == [f \in Fields |-> IF q.payload[f] # None THEN q.payload[f] ELSE q.read[f]]

Changed(q) == {f \in Fields : Laid(q)[f] # q.read[f]}

\* the UPDATE: columns that changed, and the document if one of its keys did
Written(q) == (Changed(q) \cap Columns) \cup (IF Changed(q) \cap Keys = {} THEN {} ELSE Keys)

-----------------------------------------------------------------------------
\* db.get
Read(r, payload) ==
  /\ req[r].pc = "idle"
  /\ begun < MaxUpdates
  /\ payload # NoPayload
  /\ req' = [req EXCEPT ![r] = [Idle EXCEPT !.pc = "read", !.payload = payload,
                                            !.read = row, !.readCount = count,
                                            !.readDone = done]]
  /\ begun' = begun + 1
  /\ UNCHANGED <<row, count, audit, done>>

\* variant: every column is written back
WriteAll(r) ==
  LET q == req[r]
  IN  /\ q.pc = "read"
      /\ \A p \in Requests : req[p].pc # "written"
      /\ req' = [req EXCEPT ![r].pc = "written",
                            ![r].new = Laid(q),
                            ![r].changes = {[field |-> f, old |-> q.read[f], new |-> Laid(q)[f]] :
                                              f \in Changed(q)}]
      /\ UNCHANGED <<row, count, audit, done, begun>>

\* the first flush, which waits for the lock of another UPDATE, and the
\* audit entries of _record_field_audit
Write(r) ==
  LET q == req[r]
  IN  /\ q.pc = "read"
      /\ \A p \in Requests : req[p].pc # "written"
      /\ req' = [req EXCEPT ![r].pc = "written",
                            ![r].new = [f \in Fields |-> IF f \in Written(q) THEN Laid(q)[f]
                                                                             ELSE row[f]],
                            ![r].changes = {[field |-> f, old |-> q.read[f], new |-> Laid(q)[f]] :
                                              f \in Changed(q)}]
      /\ UNCHANGED <<row, count, audit, done, begun>>

\* variant: the count is written in a transaction of its own
FailKeepsCount(r) ==
  /\ req[r].pc # "idle"
  /\ count' = IF req[r].pc = "written" THEN req[r].readCount + 1 ELSE count
  /\ req' = [req EXCEPT ![r] = Idle]
  /\ UNCHANGED <<row, audit, done, begun>>

\* get_db commits; sys_mod_count is one more than the one that was read
Commit(r) ==
  LET q == req[r]
  IN  /\ q.pc = "written"
      /\ row' = q.new
      /\ count' = q.readCount + 1
      /\ audit' = IF q.changes = {} THEN audit ELSE Append(audit, q.changes)
      /\ done' = done + 1
      /\ req' = [req EXCEPT ![r] = Idle]
      /\ UNCHANGED begun

\* variant: the audit entries are written in a transaction of their own
FailKeepsAudit(r) ==
  /\ req[r].pc # "idle"
  /\ req' = [req EXCEPT ![r] = Idle]
  /\ audit' = IF req[r].changes = {} THEN audit ELSE Append(audit, req[r].changes)
  /\ UNCHANGED <<row, count, done, begun>>

\* a 403, a value the column does not take, a lost connection
Fail(r) ==
  /\ req[r].pc # "idle"
  /\ req' = [req EXCEPT ![r] = Idle]
  /\ UNCHANGED <<row, count, audit, done, begun>>

Next ==
  \E r \in Requests :
    \/ \E payload \in Row : Read(r, payload)
    \/ Write(r) \/ Commit(r) \/ Fail(r)

Spec == Init /\ [][Next]_vars

-----------------------------------------------------------------------------
(***************************************************************************)
(* Properties.                                                             *)
(***************************************************************************)

\* An update leaves alone what its client did not send, whatever has been
\* committed since it read the row; but a key of the document, which it writes
\* whole, goes back to what it read if another update has been committed.
FieldsKept ==
  [][\A f \in Fields : row'[f] # row[f]
       => \E r \in Requests :
            /\ req[r].pc = "written" /\ req'[r].pc = "idle"
            /\ \/ req[r].payload[f] # None /\ row'[f] = req[r].payload[f]
               \/ /\ f \in Keys /\ req[r].payload[f] = None /\ row'[f] = req[r].read[f]
                  /\ req[r].readDone < done]_vars

\* The newest audit entry of a column shows the value the column has.
AuditEndsAtColumn ==
  \A c \in Columns, n \in 1 .. Len(audit) :
    \A h \in audit[n] :
      (h.field = c /\ \A m \in n + 1 .. Len(audit) : \A g \in audit[m] : g.field # c)
      => h.new = row[c]

\* sys_mod_count may miss updates that overlapped (it may even fall), but it
\* never counts one that was not committed, nor is it zero after an update.
CountsNoPhantoms == count <= done /\ (done > 0 => count > 0)

\* CHANGELOG.md: "CI updates merge other JSON payloads into existing stored
\* properties instead of replacing the whole object": an update leaves alone
\* every key its client did not send.  Not when two overlap.
DocumentMerged ==
  [][\A k \in Keys : row'[k] # row[k]
       => \E r \in Requests : /\ req[r].pc = "written" /\ req'[r].pc = "idle"
                              /\ req[r].payload[k] # None
                              /\ row'[k] = req[r].payload[k]]_vars
=============================================================================
