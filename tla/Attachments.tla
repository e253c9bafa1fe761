----------------------------- MODULE Attachments -----------------------------
(***************************************************************************)
(* Attachments and their files (backend/app/api/flake/attachment.py), the  *)
(* deletes of records that take theirs along, and the purges of start-up   *)
(* (startup.py).                                                           *)
(*                                                                         *)
(* Several replicas of the backend share one database and one directory.   *)
(* A request is a transaction: what it inserts and deletes is its own      *)
(* until it commits, and a row it deleted is locked.  The directory knows  *)
(* no transactions: a file is there or gone for everyone at once, and a    *)
(* rollback does not bring it back.                                        *)
(***************************************************************************)
EXTENDS Naturals, FiniteSets

CONSTANTS
  Replicas,  \* processes of the backend
  Sessions,  \* database connections
  Parents,   \* records that have attachments
  Names,     \* file names
  Uploads,   \* uploads, each made once: the sys_id of an attachment
  None

Keys == Parents \X Names

ASSUME AttachmentAssumption ==
  None \notin Replicas \cup Parents \cup Names \cup Uploads \cup Keys

VARIABLES
  parents,  \* committed records
  rows,     \* committed sys_attachment rows
  files,    \* files in the directory, named by the sys_id
  phase,    \* what every replica is doing
  req,      \* the request every session is running
  key,      \* the record and the file name of an upload
  before,   \* history: the attachments committed when an upload looked
  server,   \* history: the replica an upload was sent to
  lost,     \* history: attachments whose removal was rolled back
  swept     \* history: what the purge of a replica found in no row, and who

history == <<before, server, lost, swept>>
vars == <<parents, rows, files, phase, req, key, history>>

Idle == [kind |-> "none", pc |-> "none", at |-> None, id |-> None, todo |-> {},
         cur |-> None, gone |-> {}, seen |-> {}]

Request == [kind : {"none", "upload", "delete", "parent", "purge"},
            pc : {"none", "select", "remove", "sweep", "commit"},
            at : Replicas \cup {None},           \* the replica that runs it
            id : Uploads \cup Parents \cup {None}, \* what it adds or deletes
            todo : SUBSET Uploads,               \* rows still to remove
            cur : Uploads \cup {None},           \* its file is unlinked, its row is not deleted yet
            gone : SUBSET Uploads,               \* rows deleted and not committed
            seen : SUBSET Uploads]               \* rows a purge read, once it did

TypeOK ==
  /\ parents \subseteq Parents
  /\ rows \subseteq Uploads /\ files \subseteq Uploads
  /\ phase \in [Replicas -> {"down", "starting", "up"}]
  /\ req \in [Sessions -> Request]
  /\ key \in [Uploads -> Keys \cup {None}]
  /\ before \in [Uploads -> SUBSET Uploads]
  /\ server \in [Uploads -> Replicas \cup {None}]
  /\ lost \subseteq Uploads /\ swept \subseteq Uploads \X Replicas

Init ==
  /\ parents = Parents
  /\ rows = {} /\ files = {}
  /\ phase = [r \in Replicas |-> "down"]
  /\ req = [s \in Sessions |-> Idle]
  /\ key = [u \in Uploads |-> None]
  /\ before = [u \in Uploads |-> {}]
  /\ server = [u \in Uploads |-> None]
  /\ lost = {} /\ swept = {}

-----------------------------------------------------------------------------
(***************************************************************************)
(* Requests begin.                                                         *)
(***************************************************************************)

Begin(s, r, kind, pc, id, todo) ==
  /\ req[s] = Idle
  /\ req' = [req EXCEPT ![s] = [Idle EXCEPT !.kind = kind, !.pc = pc, !.at = r, !.id = id, !.todo = todo]]

\* variant: requests are served while the start-up is still purging
BeginUploadEarly(s, r, u, k) ==
  /\ phase[r] # "down"
  /\ key[u] = None /\ k[1] \in parents
  /\ Begin(s, r, "upload", "select", u, {})
  /\ key' = [key EXCEPT ![u] = k]
  /\ server' = [server EXCEPT ![u] = r]
  /\ UNCHANGED <<parents, rows, files, phase, before, lost, swept>>

\* upload_attachment: the record is there
BeginUpload(s, r, u, k) ==
  /\ phase[r] = "up"
  /\ key[u] = None /\ k[1] \in parents
  /\ Begin(s, r, "upload", "select", u, {})
  /\ key' = [key EXCEPT ![u] = k]
  /\ server' = [server EXCEPT ![u] = r]
  /\ UNCHANGED <<parents, rows, files, phase, before, lost, swept>>

\* delete_attachment, and delete_record on sys_attachment: the record is there
BeginDelete(s, r, x) ==
  /\ phase[r] = "up"
  /\ x \in rows /\ key[x][1] \in parents
  /\ Begin(s, r, "delete", "remove", x, {x})
  /\ UNCHANGED <<parents, rows, files, phase, key, history>>

\* delete_record on a record, up to delete_attachments_for_parent
BeginParent(s, r, p) ==
  /\ phase[r] = "up"
  /\ p \in parents
  /\ Begin(s, r, "parent", "select", p, {})
  /\ UNCHANGED <<parents, rows, files, phase, key, history>>

\* lifespan: the two purges, in one transaction, before the first request
Start(s, r) ==
  /\ phase[r] = "down"
  /\ Begin(s, r, "purge", "select", None, {})
  /\ phase' = [phase EXCEPT ![r] = "starting"]
  /\ UNCHANGED <<parents, rows, files, key, history>>

-----------------------------------------------------------------------------
(***************************************************************************)
(* Rows are removed one by one, each after its file.                       *)
(***************************************************************************)

\* the rows a request has to remove, as far as they are committed
Found(s) ==
  CASE req[s].kind = "upload" -> {x \in rows : key[x] = key[req[s].id]}
    [] req[s].kind = "parent" -> {x \in rows : key[x][1] = req[s].id}
    [] OTHER -> rows

\* variant: an upload leaves the attachments of other uploads of a record alone
SelectNone(s) ==
  /\ req[s].pc = "select"
  /\ req' = [req EXCEPT ![s].pc = "remove", ![s].todo = IF req[s].kind = "upload" THEN {} ELSE Found(s)]
  /\ before' = IF req[s].kind = "upload" THEN [before EXCEPT ![req[s].id] = rows] ELSE before
  /\ UNCHANGED <<parents, rows, files, phase, key, server, lost, swept>>

\* _remove_existing_by_name, delete_attachments_for_parent and
\* purge_orphan_attachments: SELECT
Select(s) ==
  /\ req[s].pc = "select"
  /\ req' = [req EXCEPT ![s].pc = "remove", ![s].todo = Found(s)]
  /\ before' = IF req[s].kind = "upload" THEN [before EXCEPT ![req[s].id] = rows] ELSE before
  /\ UNCHANGED <<parents, rows, files, phase, key, server, lost, swept>>

\* purge_orphan_attachments: the record is there, the attachment stays
Keep(s, x) ==
  /\ req[s].kind = "purge" /\ req[s].pc = "remove" /\ req[s].cur = None
  /\ x \in req[s].todo
  /\ key[x][1] \in parents
  /\ req' = [req EXCEPT ![s].todo = @ \ {x}]
  /\ UNCHANGED <<parents, rows, files, phase, key, history>>

\* variant: the rows only
UnlinkNothing(s, x) ==
  /\ req[s].pc = "remove" /\ req[s].cur = None
  /\ x \in req[s].todo
  /\ req[s].kind = "purge" => key[x][1] \notin parents
  /\ req' = [req EXCEPT ![s].cur = x]
  /\ UNCHANGED <<parents, rows, files, phase, key, history>>

\* remove_attachment: first the file
Unlink(s, x) ==
  /\ req[s].pc = "remove" /\ req[s].cur = None
  /\ x \in req[s].todo
  /\ req[s].kind = "purge" => key[x][1] \notin parents
  /\ files' = files \ {x}
  /\ req' = [req EXCEPT ![s].cur = x]
  /\ UNCHANGED <<parents, rows, phase, key, history>>

\* q has deleted what s is about to delete, and not committed
Waits(s, q) ==
  /\ s # q
  /\ \/ req[s].cur # None /\ req[s].cur \in req[q].gone
     \/ /\ req[s].kind = "parent" /\ req[s].pc = "remove" /\ req[s].todo = {} /\ req[s].cur = None
        /\ req[q].kind = "parent" /\ req[q].pc = "commit" /\ req[q].id = req[s].id

\* ... then the row: DELETE waits for its lock; a row that is gone by then is
\* a warning and nothing else
DeleteRow(s) ==
  /\ req[s].cur # None
  /\ \A q \in Sessions : ~ Waits(s, q)
  /\ req' = [req EXCEPT ![s].gone = @ \cup {req[s].cur}, ![s].todo = @ \ {req[s].cur}, ![s].cur = None]
  /\ UNCHANGED <<parents, rows, files, phase, key, history>>

Removed(s) == req[s].pc = "remove" /\ req[s].todo = {} /\ req[s].cur = None

\* _save_attachment: the file is written, then the row
Save(s) ==
  /\ req[s].kind = "upload" /\ Removed(s)
  /\ files' = files \cup {req[s].id}
  /\ req' = [req EXCEPT ![s].pc = "commit"]
  /\ UNCHANGED <<parents, rows, phase, key, history>>

\* the attachment is removed; or the record's own row is deleted
Finish(s) ==
  /\ req[s].kind \in {"delete", "parent"} /\ Removed(s)
  /\ \A q \in Sessions : ~ Waits(s, q)
  /\ req' = [req EXCEPT ![s].pc = "commit"]
  /\ UNCHANGED <<parents, rows, files, phase, key, history>>

\* purge_stale_attachment_files: the rows are read ...
ReadRows(s) ==
  /\ req[s].kind = "purge" /\ Removed(s)
  /\ req' = [req EXCEPT ![s].pc = "sweep", ![s].seen = rows \ req[s].gone]
  /\ UNCHANGED <<parents, rows, files, phase, key, history>>

\* ... and every file of none of them is unlinked
Sweep(s) ==
  /\ req[s].pc = "sweep"
  /\ files' = files \cap req[s].seen
  /\ swept' = swept \cup ((files \ req[s].seen) \X {req[s].at})
  /\ req' = [req EXCEPT ![s].pc = "commit"]
  /\ UNCHANGED <<parents, rows, phase, key, before, server, lost>>

-----------------------------------------------------------------------------
(***************************************************************************)
(* Requests end.                                                           *)
(***************************************************************************)

\* get_db, or lifespan, commits
Commit(s) ==
  LET q == req[s]
  IN  /\ q.pc = "commit"
      /\ rows' = (rows \ q.gone) \cup (IF q.kind = "upload" THEN {q.id} ELSE {})
      /\ parents' = IF q.kind = "parent" THEN parents \ {q.id} ELSE parents
      /\ phase' = IF q.kind = "purge" THEN [phase EXCEPT ![q.at] = "up"] ELSE phase
      /\ req' = [req EXCEPT ![s] = Idle]
      /\ UNCHANGED <<files, key, history>>

\* the attachments a request has unlinked without committing it
Unlinked(s) == req[s].gone \cup ({req[s].cur} \ {None})

\* any statement may fail, as the victim of a deadlock too: the rows come
\* back, the files do not; a replica whose purge fails does not come up
Fail(s) ==
  /\ req[s] # Idle
  /\ req' = [req EXCEPT ![s] = Idle]
  /\ lost' = lost \cup Unlinked(s)
  /\ phase' = IF req[s].kind = "purge" THEN [phase EXCEPT ![req[s].at] = "down"] ELSE phase
  /\ UNCHANGED <<parents, rows, files, key, before, server, swept>>

\* a replica dies, and its transactions with it
Crash(r) ==
  LET dead == {s \in Sessions : req[s].at = r}
  IN  /\ phase[r] # "down"
      /\ phase' = [phase EXCEPT ![r] = "down"]
      /\ req' = [s \in Sessions |-> IF s \in dead THEN Idle ELSE req[s]]
      /\ lost' = lost \cup UNION {Unlinked(s) : s \in dead}
      /\ UNCHANGED <<parents, rows, files, key, before, server, swept>>

\* what a request does next
Advance(s) ==
  \/ Select(s)
  \/ \E x \in Uploads : Keep(s, x) \/ Unlink(s, x)
  \/ DeleteRow(s) \/ Save(s) \/ Finish(s) \/ ReadRows(s) \/ Sweep(s)
  \/ Commit(s)

Next ==
  \/ \E s \in Sessions, r \in Replicas :
       \/ \E u \in Uploads, k \in Keys : BeginUpload(s, r, u, k)
       \/ \E x \in Uploads : BeginDelete(s, r, x)
       \/ \E p \in Parents : BeginParent(s, r, p)
       \/ Start(s, r)
  \/ \E s \in Sessions : Advance(s) \/ Fail(s)
  \/ \E r \in Replicas : Crash(r)

Spec == Init /\ [][Next]_vars

-----------------------------------------------------------------------------
(***************************************************************************)
(* Properties.                                                             *)
(***************************************************************************)

\* An upload replaces the attachment of the same name on the same record
\* (_remove_existing_by_name): two of one name overlapped.
ReplacedByName ==
  \A x, y \in rows : x # y /\ key[x] = key[y] => x \notin before[y]

\* "Upload replaces an existing attachment with the same file name": not when
\* two uploads overlap.  Stated, not run.
OnePerName == \A x, y \in rows : key[x] = key[y] => x = y

UnderWay(x) == \E s \in Sessions : x \in Unlinked(s)

\* An attachment has its file, or a request that is removing it has unlinked
\* it or has failed, or the purge of another replica ran beside its upload: a
\* replica never takes a file from itself, whatever crashed before.
FileAccounted ==
  \A x \in rows \ files :
    UnderWay(x) \/ x \in lost \/ \E r \in Replicas \ {server[x]} : <<x, r>> \in swept

\* After the purge no file is left that belongs to no attachment, but those
\* of uploads still to come.
CleanStart == [][\A s \in Sessions : Sweep(s) => files' \subseteq rows]_vars
=============================================================================
