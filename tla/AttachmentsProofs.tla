-------------------------- MODULE AttachmentsProofs --------------------------
(***************************************************************************)
(* Proofs about Attachments, for any number of replicas, connections,      *)
(* records, file names and uploads.                                        *)
(*                                                                         *)
(* The invariants follow an upload from its request to its row: its sys_id *)
(* is known to no other request before it is committed, the rows it        *)
(* replaces are deleted when it commits, and the replica it runs on is up, *)
(* so that the purge which may take its file runs on another one.          *)
(***************************************************************************)
EXTENDS Attachments, TLAPS

USE AttachmentAssumption

LEMMA IdleFact ==
  /\ Idle \in Request
  /\ Idle.kind = "none" /\ Idle.pc = "none" /\ Idle.todo = {} /\ Idle.cur = None /\ Idle.gone = {} /\ Idle.seen = {}
BY DEF Idle, Request

\* the step is one of the request of s
StepOf(s) == req' \in [Sessions -> Request] /\ \A q \in Sessions \ {s} : req'[q] = req[q]

\* it is the same request
SameRequest(s) == req'[s].kind = req[s].kind /\ req'[s].at = req[s].at /\ req'[s].id = req[s].id

LEMMA PutFact ==
  ASSUME TypeOK, NEW s \in Sessions, NEW r \in Request, req' = [req EXCEPT ![s] = r]
  PROVE  StepOf(s) /\ req'[s] = r
BY DEF TypeOK, StepOf

LEMMA BeginFact ==
  ASSUME TypeOK, NEW s \in Sessions, NEW r \in Replicas, NEW kind \in {"upload", "delete", "parent", "purge"},
         NEW pc \in {"select", "remove"}, NEW id \in Uploads \cup Parents \cup {None}, NEW todo \in SUBSET Uploads,
         Begin(s, r, kind, pc, id, todo)
  PROVE  /\ StepOf(s)
         /\ req'[s].kind = kind /\ req'[s].pc = pc /\ req'[s].at = r /\ req'[s].id = id /\ req'[s].todo = todo
         /\ req'[s].cur = None /\ req'[s].gone = {} /\ req'[s].seen = {}
         /\ req[s].kind = "none" /\ req[s].todo = {} /\ req[s].cur = None /\ req[s].gone = {}
<1> DEFINE q == [Idle EXCEPT !.kind = kind, !.pc = pc, !.at = r, !.id = id, !.todo = todo]
<1>1. q \in Request
  BY DEF Idle, Request
<1>2. /\ q.kind = kind /\ q.pc = pc /\ q.at = r /\ q.id = id /\ q.todo = todo
      /\ q.cur = None /\ q.gone = {} /\ q.seen = {}
  BY DEF Idle
<1>3. req' = [req EXCEPT ![s] = q] /\ req[s] = Idle
  BY DEF Begin
<1> HIDE DEF q
<1> QED
  BY <1>1, <1>2, <1>3, PutFact, IdleFact

LEMMA SelectFact ==
  ASSUME TypeOK, NEW s \in Sessions, Select(s)
  PROVE  /\ StepOf(s) /\ SameRequest(s)
         /\ req[s].pc = "select" /\ req'[s].pc = "remove" /\ req'[s].todo = Found(s) /\ Found(s) \subseteq rows
         /\ req'[s].cur = req[s].cur
         /\ req'[s].gone = req[s].gone /\ req'[s].seen = req[s].seen
<1> DEFINE q == [req[s] EXCEPT !.pc = "remove", !.todo = Found(s)]
<1>1. Found(s) \subseteq rows
  BY DEF Found
<1>2. req[s] \in Request /\ Found(s) \in SUBSET Uploads
  BY <1>1 DEF TypeOK
<1>3. q \in Request
  BY <1>2 DEF Request
<1>4. /\ q.kind = req[s].kind /\ q.at = req[s].at /\ q.id = req[s].id
      /\ q.pc = "remove" /\ q.todo = Found(s) /\ q.cur = req[s].cur /\ q.gone = req[s].gone /\ q.seen = req[s].seen
  BY DEF Request, TypeOK
<1>5. req' = [req EXCEPT ![s] = q] /\ req[s].pc = "select"
  BY DEF Select, TypeOK
<1> HIDE DEF q
<1> QED
  BY <1>1, <1>3, <1>4, <1>5, PutFact DEF SameRequest

LEMMA KeepFact ==
  ASSUME TypeOK, NEW s \in Sessions, NEW x \in Uploads, Keep(s, x)
  PROVE  /\ StepOf(s) /\ SameRequest(s)
         /\ req'[s].pc = "remove" /\ req[s].pc = "remove" /\ req[s].kind = "purge"
         /\ req'[s].todo = req[s].todo \ {x} /\ req'[s].cur = req[s].cur
         /\ req'[s].gone = req[s].gone /\ req'[s].seen = req[s].seen
<1> DEFINE q == [req[s] EXCEPT !.todo = @ \ {x}]
<1>0. req[s] \in Request /\ req[s].todo \ {x} \in SUBSET req[s].todo
  BY DEF TypeOK
<1>1. q \in Request
  BY <1>0 DEF Request
<1>2. /\ q.kind = req[s].kind /\ q.at = req[s].at /\ q.id = req[s].id /\ q.pc = req[s].pc
      /\ q.todo = req[s].todo \ {x} /\ q.cur = req[s].cur /\ q.gone = req[s].gone /\ q.seen = req[s].seen
  BY DEF Request, TypeOK
<1>3. req' = [req EXCEPT ![s] = q] /\ req[s].pc = "remove" /\ req[s].kind = "purge"
  BY DEF Keep, TypeOK
<1> HIDE DEF q
<1> QED
  BY <1>1, <1>2, <1>3, PutFact DEF SameRequest

LEMMA UnlinkFact ==
  ASSUME TypeOK, NEW s \in Sessions, NEW x \in Uploads, Unlink(s, x)
  PROVE  /\ StepOf(s) /\ SameRequest(s)
         /\ req'[s].pc = "remove" /\ req[s].pc = "remove" /\ x \in req[s].todo /\ req[s].cur = None
         /\ req'[s].todo = req[s].todo /\ req'[s].cur = x
         /\ req'[s].gone = req[s].gone /\ req'[s].seen = req[s].seen
<1> DEFINE q == [req[s] EXCEPT !.cur = x]
<1>0. req[s] \in Request
  BY DEF TypeOK
<1>1. q \in Request
  BY <1>0 DEF Request
<1>2. /\ q.kind = req[s].kind /\ q.at = req[s].at /\ q.id = req[s].id /\ q.pc = req[s].pc
      /\ q.todo = req[s].todo /\ q.cur = x /\ q.gone = req[s].gone /\ q.seen = req[s].seen
  BY DEF Request, TypeOK
<1>3. req' = [req EXCEPT ![s] = q] /\ req[s].pc = "remove" /\ x \in req[s].todo /\ req[s].cur = None
  BY DEF Unlink, TypeOK
<1> HIDE DEF q
<1> QED
  BY <1>1, <1>2, <1>3, PutFact DEF SameRequest

LEMMA DeleteRowFact ==
  ASSUME TypeOK, NEW s \in Sessions, DeleteRow(s)
  PROVE  /\ StepOf(s) /\ SameRequest(s)
         /\ req'[s].pc = req[s].pc /\ req[s].cur \in Uploads
         /\ req'[s].todo = req[s].todo \ {req[s].cur} /\ req'[s].cur = None
         /\ req'[s].gone = req[s].gone \cup {req[s].cur} /\ req'[s].seen = req[s].seen
<1> DEFINE q == [req[s] EXCEPT !.gone = @ \cup {req[s].cur}, !.todo = @ \ {req[s].cur}, !.cur = None]
<1>0. req[s] \in Request /\ req[s].cur \in Uploads
  BY DEF DeleteRow, Request, TypeOK
<1>1. q \in Request
  BY <1>0 DEF Request
<1>2. /\ q.kind = req[s].kind /\ q.at = req[s].at /\ q.id = req[s].id /\ q.pc = req[s].pc
      /\ q.todo = req[s].todo \ {req[s].cur} /\ q.cur = None
      /\ q.gone = req[s].gone \cup {req[s].cur} /\ q.seen = req[s].seen
  BY <1>0 DEF Request
<1>3. req' = [req EXCEPT ![s] = q]
  BY DEF DeleteRow, TypeOK
<1> HIDE DEF q
<1> QED
  BY <1>0, <1>1, <1>2, <1>3, PutFact DEF SameRequest

\* the removals are done: the file is written, or there is nothing left to do
LEMMA DoneFact ==
  ASSUME TypeOK, NEW s \in Sessions, Save(s) \/ Finish(s)
  PROVE  /\ StepOf(s) /\ SameRequest(s)
         /\ req'[s].pc = "commit" /\ req[s].pc = "remove" /\ req[s].todo = {} /\ req[s].cur = None
         /\ req'[s].todo = {} /\ req'[s].cur = None
         /\ req'[s].gone = req[s].gone /\ req'[s].seen = req[s].seen
         /\ req[s].kind \in {"upload", "delete", "parent"}
<1> DEFINE q == [req[s] EXCEPT !.pc = "commit"]
<1>1. q \in Request
  BY DEF Request, TypeOK
<1>2. /\ q.kind = req[s].kind /\ q.at = req[s].at /\ q.id = req[s].id /\ q.pc = "commit"
      /\ q.todo = req[s].todo /\ q.cur = req[s].cur /\ q.gone = req[s].gone /\ q.seen = req[s].seen
  BY DEF Request, TypeOK
<1>3. req' = [req EXCEPT ![s] = q] /\ Removed(s) /\ req[s].kind \in {"upload", "delete", "parent"}
  BY DEF Save, Finish, TypeOK
<1> HIDE DEF q
<1> QED
  BY <1>1, <1>2, <1>3, PutFact DEF SameRequest, Removed

LEMMA ReadRowsFact ==
  ASSUME TypeOK, NEW s \in Sessions, ReadRows(s)
  PROVE  /\ StepOf(s) /\ SameRequest(s)
         /\ req'[s].pc = "sweep" /\ req[s].pc = "remove" /\ req[s].kind = "purge" /\ req[s].cur = None
         /\ req'[s].todo = req[s].todo /\ req'[s].cur = None /\ req'[s].gone = req[s].gone
         /\ req'[s].seen = rows \ req[s].gone
<1> DEFINE q == [req[s] EXCEPT !.pc = "sweep", !.seen = rows \ req[s].gone]
<1>0. req[s] \in Request /\ rows \ req[s].gone \in SUBSET Uploads
  BY DEF TypeOK
<1>1. q \in Request
  BY <1>0 DEF Request
<1>2. /\ q.kind = req[s].kind /\ q.at = req[s].at /\ q.id = req[s].id /\ q.pc = "sweep"
      /\ q.todo = req[s].todo /\ q.cur = req[s].cur /\ q.gone = req[s].gone /\ q.seen = rows \ req[s].gone
  BY DEF Request, TypeOK
<1>3. req' = [req EXCEPT ![s] = q] /\ Removed(s) /\ req[s].kind = "purge"
  BY DEF ReadRows, TypeOK
<1> HIDE DEF q
<1> QED
  BY <1>1, <1>2, <1>3, PutFact DEF SameRequest, Removed

LEMMA SweepFact ==
  ASSUME TypeOK, NEW s \in Sessions, Sweep(s)
  PROVE  /\ StepOf(s) /\ SameRequest(s)
         /\ req'[s].pc = "commit" /\ req[s].pc = "sweep"
         /\ req'[s].todo = req[s].todo /\ req'[s].cur = req[s].cur
         /\ req'[s].gone = req[s].gone /\ req'[s].seen = req[s].seen
<1> DEFINE q == [req[s] EXCEPT !.pc = "commit"]
<1>1. q \in Request
  BY DEF Request, TypeOK
<1>2. /\ q.kind = req[s].kind /\ q.at = req[s].at /\ q.id = req[s].id /\ q.pc = "commit"
      /\ q.todo = req[s].todo /\ q.cur = req[s].cur /\ q.gone = req[s].gone /\ q.seen = req[s].seen
  BY DEF Request, TypeOK
<1>3. req' = [req EXCEPT ![s] = q] /\ req[s].pc = "sweep"
  BY DEF Sweep, TypeOK
<1> HIDE DEF q
<1> QED
  BY <1>1, <1>2, <1>3, PutFact DEF SameRequest

\* a request that has ended is idle
LEMMA EndFact ==
  ASSUME TypeOK, NEW s \in Sessions, Commit(s) \/ Fail(s)
  PROVE  StepOf(s) /\ req'[s] = Idle
BY IdleFact, PutFact DEF Commit, Fail

-----------------------------------------------------------------------------
(***************************************************************************)
(* Who knows an attachment.                                                *)
(***************************************************************************)

Uploading(s, x) == req[s].kind = "upload" /\ req[s].id = x

\* x has been committed, as far as anything still refers to it
Known(x) ==
  \/ x \in rows
  \/ \E u \in Uploads : x \in before[u]
  \/ \E q \in Sessions : x \in req[q].todo \cup req[q].gone \cup req[q].seen \/ x = req[q].cur

\* a request that is neither idle nor a purge runs on a replica that is up
Shape(s) ==
  /\ req[s].kind = "none" => req[s].pc = "none" /\ req[s].cur = None /\ req[s].gone = {}
  /\ req[s].kind # "none" =>
       /\ req[s].at \in Replicas
       /\ phase[req[s].at] = IF req[s].kind = "purge" THEN "starting" ELSE "up"
  /\ req[s].pc # "remove" => req[s].cur = None
  /\ req[s].pc = "sweep" => req[s].kind = "purge"
  /\ req[s].kind = "upload" =>
       req[s].id \in Uploads /\ key[req[s].id] \in Keys /\ server[req[s].id] = req[s].at

UploadOnce(s, q) == s # q /\ req[s].kind = "upload" => ~ Uploading(q, req[s].id)

PurgeOnce(s, q) ==
  s # q /\ req[s].kind = "purge" /\ req[q].kind = "purge" => req[s].at # req[q].at

CommittedOnce(x) == Known(x) => key[x] \in Keys /\ \A s \in Sessions : ~ Uploading(s, x)

RInv ==
  /\ TypeOK
  /\ \A s \in Sessions : Shape(s)
  /\ \A s, q \in Sessions : UploadOnce(s, q) /\ PurgeOnce(s, q)
  /\ \A x \in Uploads : CommittedOnce(x)

LEMMA InitRInv == Init => RInv
<1> SUFFICES ASSUME Init PROVE RInv
  OBVIOUS
<1>1. \A s \in Sessions : req[s] = Idle
  BY DEF Init
<1>2. TypeOK
  BY IdleFact DEF Init, TypeOK
<1>3. \A s \in Sessions : Shape(s)
  BY <1>1, IdleFact DEF Shape
<1>4. \A x \in Uploads : ~ Known(x)
  BY <1>1, IdleFact DEF Init, Known
<1> QED
  BY <1>1, <1>2, <1>3, <1>4, IdleFact DEF RInv, UploadOnce, PurgeOnce, CommittedOnce

\* A request goes on: it gets to know rows that are committed.
LEMMA WorkRInv ==
  ASSUME RInv, NEW s \in Sessions, StepOf(s), SameRequest(s), req[s].kind # "none",
         UNCHANGED <<rows, key, server, phase>>, TypeOK',
         req'[s].todo \subseteq req[s].todo \cup rows,
         req'[s].cur \in {None, req[s].cur} \cup req[s].todo,
         req'[s].gone \subseteq req[s].gone \cup {req[s].cur}, req'[s].seen \subseteq req[s].seen \cup rows,
         \A u \in Uploads : before'[u] = before[u] \/ before'[u] = rows,
         req'[s].pc # "remove" => req'[s].cur = None,
         req'[s].pc = "sweep" => req[s].kind = "purge"
  PROVE  RInv'
<1>1. Shape(s)'
  BY DEF RInv, Shape, SameRequest
<1>2. \A q \in Sessions \ {s} : Shape(q)'
  BY DEF RInv, Shape, StepOf
<1>3. \A q \in Sessions, x \in Uploads : Uploading(q, x)' <=> Uploading(q, x)
  BY DEF Uploading, SameRequest, StepOf
<1>4. \A q, p \in Sessions : UploadOnce(q, p)' /\ PurgeOnce(q, p)'
  BY DEF RInv, UploadOnce, PurgeOnce, Uploading, SameRequest, StepOf
<1>5. ASSUME NEW x \in Uploads, Known(x)' PROVE Known(x)
  <2>1. CASE x \in rows
    BY <2>1 DEF Known
  <2>2. CASE \E u \in Uploads : x \in before'[u]
    BY <2>2 DEF Known
  <2>3. CASE x \in req'[s].todo \cup req'[s].gone \cup req'[s].seen \/ x = req'[s].cur
    BY <2>3 DEF Known
  <2>4. CASE \E q \in Sessions \ {s} : x \in req'[q].todo \cup req'[q].gone \cup req'[q].seen \/ x = req'[q].cur
    BY <2>4 DEF Known, StepOf
  <2> QED
    BY <1>5, <2>1, <2>2, <2>3, <2>4 DEF Known
<1>6. \A x \in Uploads : CommittedOnce(x)'
  BY <1>3, <1>5 DEF RInv, CommittedOnce
<1> QED
  BY <1>1, <1>2, <1>4, <1>6 DEF RInv

LEMMA SelectRInv ==
  ASSUME RInv, NEW s \in Sessions, Select(s)
  PROVE  RInv'
<1>1. TypeOK /\ Shape(s)
  BY DEF RInv
<1>2. TypeOK'
  BY <1>1, SelectFact DEF Select, StepOf, TypeOK
<1>3. \A u \in Uploads : before'[u] = before[u] \/ before'[u] = rows
  BY <1>1 DEF Select, TypeOK
<1>4. UNCHANGED <<rows, key, server, phase>>
  BY DEF Select
<1> QED
  BY <1>1, <1>2, <1>3, <1>4, SelectFact, WorkRInv DEF Shape

LEMMA RemoveRInv ==
  ASSUME RInv, NEW s \in Sessions, NEW x \in Uploads, Keep(s, x) \/ Unlink(s, x)
  PROVE  RInv'
<1>1. TypeOK /\ Shape(s)
  BY DEF RInv
<1>2. UNCHANGED <<parents, rows, phase, key, before, server, lost, swept>> /\ files' \in SUBSET Uploads
  BY <1>1 DEF Keep, Unlink, TypeOK, history
<1>3. CASE Keep(s, x)
  <2>1. TypeOK'
    BY <1>1, <1>2, <1>3, KeepFact DEF StepOf, TypeOK
  <2> QED
    BY <1>1, <1>2, <1>3, <2>1, KeepFact, WorkRInv DEF Shape
<1>4. CASE Unlink(s, x)
  <2>1. TypeOK'
    BY <1>1, <1>2, <1>4, UnlinkFact DEF StepOf, TypeOK
  <2> QED
    BY <1>1, <1>2, <1>4, <2>1, UnlinkFact, WorkRInv DEF Shape
<1> QED
  BY <1>3, <1>4

LEMMA DeleteRowRInv ==
  ASSUME RInv, NEW s \in Sessions, DeleteRow(s)
  PROVE  RInv'
<1>1. TypeOK /\ Shape(s)
  BY DEF RInv
<1>2. UNCHANGED <<parents, rows, files, phase, key, before, server, lost, swept>>
  BY DEF DeleteRow, history
<1>3. TypeOK'
  BY <1>1, <1>2, DeleteRowFact DEF StepOf, TypeOK
<1>4. req[s].kind # "none" /\ req[s].pc = "remove"
  BY <1>1 DEF Shape, DeleteRow
<1> QED
  BY <1>1, <1>2, <1>3, <1>4, DeleteRowFact, WorkRInv

LEMMA DoneRInv ==
  ASSUME RInv, NEW s \in Sessions, Save(s) \/ Finish(s)
  PROVE  RInv'
<1>1. TypeOK /\ Shape(s)
  BY DEF RInv
<1>2. UNCHANGED <<parents, rows, phase, key, before, server, lost, swept>>
  BY DEF Save, Finish, history
<1>3. files' \in SUBSET Uploads
  <2>1. CASE Save(s)
    BY <1>1, <2>1 DEF Save, Shape, TypeOK
  <2>2. CASE Finish(s)
    BY <1>1, <2>2 DEF Finish, TypeOK
  <2> QED
    BY <2>1, <2>2
<1>4. TypeOK'
  BY <1>1, <1>2, <1>3, DoneFact DEF StepOf, TypeOK
<1> QED
  BY <1>1, <1>2, <1>4, DoneFact, WorkRInv

LEMMA ReadRowsRInv ==
  ASSUME RInv, NEW s \in Sessions, ReadRows(s)
  PROVE  RInv'
<1>1. TypeOK /\ Shape(s)
  BY DEF RInv
<1>2. UNCHANGED <<parents, rows, files, phase, key, before, server, lost, swept>>
  BY DEF ReadRows, history
<1>3. TypeOK'
  BY <1>1, <1>2, ReadRowsFact DEF StepOf, TypeOK
<1> QED
  BY <1>1, <1>2, <1>3, ReadRowsFact, WorkRInv

LEMMA SweepRInv ==
  ASSUME RInv, NEW s \in Sessions, Sweep(s)
  PROVE  RInv'
<1>1. TypeOK /\ Shape(s) /\ req[s].pc = "sweep" /\ req[s].kind = "purge"
  BY DEF RInv, Sweep, Shape
<1>2. UNCHANGED <<parents, rows, phase, key, before, server, lost>>
  BY DEF Sweep
<1>3. swept' \in SUBSET (Uploads \X Replicas) /\ files' \in SUBSET Uploads
  BY <1>1 DEF Sweep, Shape, TypeOK
<1>4. TypeOK'
  BY <1>1, <1>2, <1>3, SweepFact DEF StepOf, TypeOK
<1> QED
  BY <1>1, <1>2, <1>4, SweepFact, WorkRInv DEF Shape

\* A request begins that adds nothing: what it deletes, if anything, is a
\* committed row.
LEMMA BeginOtherRInv ==
  ASSUME RInv, NEW s \in Sessions, NEW r \in Replicas, StepOf(s), TypeOK',
         req[s].kind = "none", req'[s].kind \in {"delete", "parent", "purge"},
         req'[s].pc \in {"select", "remove"}, req'[s].at = r,
         req'[s].todo \subseteq rows, req'[s].cur = None, req'[s].gone = {}, req'[s].seen = {},
         UNCHANGED <<rows, key, before, server>>,
         phase[r] = IF req'[s].kind = "purge" THEN "down" ELSE "up",
         phase' = IF req'[s].kind = "purge" THEN [phase EXCEPT ![r] = "starting"] ELSE phase
  PROVE  RInv'
<1>0. TypeOK /\ \A q \in Sessions : Shape(q)
  BY DEF RInv
<1>1. \A q \in Sessions \ {s} : req'[q] = req[q] /\ (req[q].kind # "none" => phase'[req[q].at] = phase[req[q].at])
  <2> SUFFICES ASSUME NEW q \in Sessions \ {s}, req[q].kind # "none" PROVE phase'[req[q].at] = phase[req[q].at]
    BY DEF StepOf
  <2>1. req[q].at \in Replicas /\ phase[req[q].at] # "down"
    BY <1>0 DEF Shape
  <2> QED
    BY <1>0, <2>1 DEF TypeOK
<1>2. Shape(s)'
  BY <1>0 DEF Shape, TypeOK
<1>3. ASSUME NEW q \in Sessions \ {s} PROVE Shape(q)'
  BY <1>0, <1>1 DEF Shape
<1>4. \A q \in Sessions, x \in Uploads : Uploading(q, x)' => Uploading(q, x)
  BY <1>1 DEF Uploading
<1>5. \A q, p \in Sessions : UploadOnce(q, p)'
  BY <1>1 DEF RInv, UploadOnce, Uploading
<1>6. ASSUME NEW q \in Sessions \ {s}, req[q].kind = "purge", req'[s].kind = "purge" PROVE req[q].at # r
  BY <1>0, <1>6 DEF Shape
<1>7. \A q, p \in Sessions : PurgeOnce(q, p)'
  BY <1>1, <1>6 DEF RInv, PurgeOnce
<1>8. ASSUME NEW x \in Uploads, Known(x)' PROVE Known(x)
  BY <1>1, <1>8 DEF Known
<1>9. \A x \in Uploads : CommittedOnce(x)'
  BY <1>4, <1>8 DEF RInv, CommittedOnce
<1> QED
  BY <1>2, <1>3, <1>5, <1>7, <1>9 DEF RInv

\* The sys_id of an upload is new: nothing knows it yet.
LEMMA BeginUploadRInv ==
  ASSUME RInv, NEW s \in Sessions, NEW r \in Replicas, NEW u \in Uploads, NEW k \in Keys,
         BeginUpload(s, r, u, k)
  PROVE  RInv'
<1>0. TypeOK /\ \A q \in Sessions : Shape(q)
  BY DEF RInv
<1>1. /\ StepOf(s)
      /\ req'[s].kind = "upload" /\ req'[s].pc = "select" /\ req'[s].at = r /\ req'[s].id = u /\ req'[s].todo = {}
      /\ req'[s].cur = None /\ req'[s].gone = {} /\ req'[s].seen = {}
  BY <1>0, BeginFact DEF BeginUpload
<1>2. /\ key[u] = None /\ phase[r] = "up"
      /\ key' = [key EXCEPT ![u] = k] /\ server' = [server EXCEPT ![u] = r]
      /\ UNCHANGED <<parents, rows, files, phase, before, lost, swept>>
  BY DEF BeginUpload
<1>3. key'[u] = k /\ server'[u] = r /\ \A x \in Uploads \ {u} : key'[x] = key[x] /\ server'[x] = server[x]
  BY <1>0, <1>2 DEF TypeOK
<1>4. TypeOK'
  BY <1>0, <1>1, <1>2 DEF TypeOK, StepOf
<1>5. ~ Known(u)
  BY <1>2 DEF RInv, CommittedOnce
<1>6. \A q \in Sessions : ~ Uploading(q, u)
  BY <1>0, <1>2 DEF Shape, Uploading
<1>7. Shape(s)'
  BY <1>1, <1>2, <1>3 DEF Shape
<1>8. \A q \in Sessions \ {s} : Shape(q)'
  BY <1>0, <1>1, <1>2, <1>3, <1>6 DEF Shape, StepOf, Uploading
<1>9. \A q, p \in Sessions : UploadOnce(q, p)' /\ PurgeOnce(q, p)'
  BY <1>1, <1>6 DEF RInv, StepOf, UploadOnce, PurgeOnce, Uploading
<1>10. ASSUME NEW x \in Uploads, Known(x)' PROVE Known(x)
  BY <1>1, <1>2, <1>10 DEF Known, StepOf
<1>11. ASSUME NEW x \in Uploads, Known(x)' PROVE key'[x] \in Keys /\ \A q \in Sessions : ~ Uploading(q, x)'
  <2>1. Known(x) /\ x # u
    BY <1>5, <1>10, <1>11
  <2>2. key[x] \in Keys /\ \A q \in Sessions : ~ Uploading(q, x)
    BY <2>1 DEF RInv, CommittedOnce
  <2> QED
    BY <1>1, <1>3, <2>1, <2>2 DEF StepOf, Uploading
<1> QED
  BY <1>4, <1>7, <1>8, <1>9, <1>11 DEF RInv, CommittedOnce

LEMMA BeginRInv ==
  ASSUME RInv, NEW s \in Sessions, NEW r \in Replicas,
         \/ \E x \in Uploads : BeginDelete(s, r, x)
         \/ \E p \in Parents : BeginParent(s, r, p)
         \/ Start(s, r)
  PROVE  RInv'
<1>0. TypeOK
  BY DEF RInv
<1>1. ASSUME NEW x \in Uploads, BeginDelete(s, r, x) PROVE RInv'
  <2>1. /\ Begin(s, r, "delete", "remove", x, {x}) /\ x \in rows /\ phase[r] = "up"
        /\ UNCHANGED <<parents, rows, files, phase, key, before, server, lost, swept>>
    BY <1>1 DEF BeginDelete, history
  <2>2. /\ StepOf(s) /\ req[s].kind = "none"
        /\ req'[s].kind = "delete" /\ req'[s].pc = "remove" /\ req'[s].at = r /\ req'[s].todo = {x}
        /\ req'[s].cur = None /\ req'[s].gone = {} /\ req'[s].seen = {}
    BY <1>0, <2>1, BeginFact
  <2>3. TypeOK'
    BY <1>0, <2>1, <2>2 DEF TypeOK, StepOf
  <2> QED
    BY <2>1, <2>2, <2>3, BeginOtherRInv
<1>2. ASSUME NEW p \in Parents, BeginParent(s, r, p) PROVE RInv'
  <2>1. /\ Begin(s, r, "parent", "select", p, {}) /\ phase[r] = "up"
        /\ UNCHANGED <<parents, rows, files, phase, key, before, server, lost, swept>>
    BY <1>2 DEF BeginParent, history
  <2>2. /\ StepOf(s) /\ req[s].kind = "none"
        /\ req'[s].kind = "parent" /\ req'[s].pc = "select" /\ req'[s].at = r /\ req'[s].todo = {}
        /\ req'[s].cur = None /\ req'[s].gone = {} /\ req'[s].seen = {}
    BY <1>0, <2>1, BeginFact
  <2>3. TypeOK'
    BY <1>0, <2>1, <2>2 DEF TypeOK, StepOf
  <2> QED
    BY <2>1, <2>2, <2>3, BeginOtherRInv
<1>3. CASE Start(s, r)
  <2>1. /\ Begin(s, r, "purge", "select", None, {}) /\ phase[r] = "down"
        /\ phase' = [phase EXCEPT ![r] = "starting"]
        /\ UNCHANGED <<parents, rows, files, key, before, server, lost, swept>>
    BY <1>3 DEF Start, history
  <2>2. /\ StepOf(s) /\ req[s].kind = "none"
        /\ req'[s].kind = "purge" /\ req'[s].pc = "select" /\ req'[s].at = r /\ req'[s].todo = {}
        /\ req'[s].cur = None /\ req'[s].gone = {} /\ req'[s].seen = {}
    BY <1>0, <2>1, BeginFact
  <2>3. TypeOK'
    BY <1>0, <2>1, <2>2 DEF TypeOK, StepOf
  <2> QED
    BY <2>1, <2>2, <2>3, BeginOtherRInv
<1> QED
  BY <1>1, <1>2, <1>3

\* A request ends: nobody else serves its replica's purge.
LEMMA EndRInv ==
  ASSUME RInv, NEW s \in Sessions, NEW to \in {"up", "down"}, StepOf(s), req'[s] = Idle, TypeOK',
         UNCHANGED <<key, before, server>>,
         rows' \subseteq rows \cup {x \in Uploads : Uploading(s, x)},
         phase' = IF req[s].kind = "purge" THEN [phase EXCEPT ![req[s].at] = to] ELSE phase
  PROVE  RInv'
<1>0. TypeOK /\ \A q \in Sessions : Shape(q)
  BY DEF RInv
<1>1. \A q \in Sessions \ {s} : req'[q] = req[q] /\ (req[q].kind # "none" => phase'[req[q].at] = phase[req[q].at])
  <2> SUFFICES ASSUME NEW q \in Sessions \ {s}, req[q].kind # "none", req[s].kind = "purge"
               PROVE  phase'[req[q].at] = phase[req[q].at]
    BY DEF StepOf
  <2>1. req[s].at \in Replicas /\ phase[req[s].at] = "starting" /\ req[q].at \in Replicas
    BY <1>0 DEF Shape
  <2>2. req[q].at # req[s].at
    BY <1>0, <2>1 DEF RInv, PurgeOnce, Shape
  <2> QED
    BY <1>0, <2>1, <2>2 DEF TypeOK
<1>2. Shape(s)'
  BY IdleFact DEF Shape
<1>3. ASSUME NEW q \in Sessions \ {s} PROVE Shape(q)'
  BY <1>0, <1>1 DEF Shape
<1>4. \A q, p \in Sessions : UploadOnce(q, p)' /\ PurgeOnce(q, p)'
  BY <1>1, IdleFact DEF RInv, UploadOnce, PurgeOnce, Uploading
<1>5. ASSUME NEW x \in Uploads, Known(x)' PROVE Known(x) \/ Uploading(s, x)
  BY <1>1, <1>5, IdleFact DEF Known
<1>6. ASSUME NEW x \in Uploads, Known(x)' PROVE key[x] \in Keys /\ \A q \in Sessions : ~ Uploading(q, x)'
  <2>1. CASE Known(x)
    BY <1>1, <2>1, IdleFact DEF RInv, CommittedOnce, Uploading
  <2>2. CASE Uploading(s, x)
    <3>1. key[x] \in Keys
      BY <1>0, <2>2 DEF Shape, Uploading
    <3>2. \A q \in Sessions \ {s} : ~ Uploading(q, x)
      BY <2>2 DEF RInv, UploadOnce, Uploading
    <3> QED
      BY <1>1, <3>1, <3>2, IdleFact DEF Uploading
  <2> QED
    BY <1>5, <1>6, <2>1, <2>2
<1>7. \A x \in Uploads : CommittedOnce(x)'
  BY <1>6 DEF CommittedOnce
<1> QED
  BY <1>2, <1>3, <1>4, <1>7 DEF RInv

LEMMA CommitRInv ==
  ASSUME RInv, NEW s \in Sessions, Commit(s)
  PROVE  RInv'
<1>0. TypeOK /\ Shape(s)
  BY DEF RInv
<1>1. StepOf(s) /\ req'[s] = Idle
  BY <1>0, EndFact
<1>2. /\ UNCHANGED <<files, key, before, server, lost, swept>>
      /\ rows' = (rows \ req[s].gone) \cup (IF req[s].kind = "upload" THEN {req[s].id} ELSE {})
      /\ phase' = IF req[s].kind = "purge" THEN [phase EXCEPT ![req[s].at] = "up"] ELSE phase
      /\ parents' \subseteq parents
  BY DEF Commit, history
<1>3. rows' \subseteq rows \cup {x \in Uploads : Uploading(s, x)}
  BY <1>0, <1>2 DEF Shape, Uploading
<1>4. TypeOK'
  BY <1>0, <1>1, <1>2, <1>3 DEF TypeOK, StepOf
<1> QED
  BY <1>1, <1>2, <1>3, <1>4, EndRInv

LEMMA FailRInv ==
  ASSUME RInv, NEW s \in Sessions, Fail(s)
  PROVE  RInv'
<1>0. TypeOK
  BY DEF RInv
<1>1. StepOf(s) /\ req'[s] = Idle
  BY <1>0, EndFact
<1>2. /\ UNCHANGED <<parents, rows, files, key, before, server, swept>>
      /\ phase' = IF req[s].kind = "purge" THEN [phase EXCEPT ![req[s].at] = "down"] ELSE phase
      /\ lost' = lost \cup Unlinked(s)
  BY DEF Fail
<1>3. Unlinked(s) \subseteq Uploads
  BY <1>0 DEF Unlinked, TypeOK, Request
<1>4. TypeOK'
  BY <1>0, <1>1, <1>2, <1>3 DEF TypeOK, StepOf
<1> QED
  BY <1>1, <1>2, <1>4, EndRInv

\* The sessions of a replica that dies are idle.
LEMMA CrashFact ==
  ASSUME TypeOK, NEW r \in Replicas, Crash(r)
  PROVE  /\ req' \in [Sessions -> Request]
         /\ \A s \in Sessions : req'[s] = IF req[s].at = r THEN Idle ELSE req[s]
         /\ \A s \in Sessions : req[s].at = r => Unlinked(s) \subseteq lost'
         /\ lost \subseteq lost' /\ lost' \subseteq Uploads
         /\ phase' \in [Replicas -> {"down", "starting", "up"}]
         /\ \A q \in Replicas : q # r => phase'[q] = phase[q]
<1>1. req' = [s \in Sessions |-> IF req[s].at = r THEN Idle ELSE req[s]]
  BY DEF Crash
<1>2. lost' = lost \cup UNION {Unlinked(s) : s \in {q \in Sessions : req[q].at = r}}
  BY DEF Crash
<1>3. \A s \in Sessions : Unlinked(s) \subseteq Uploads
  BY DEF Unlinked, TypeOK, Request
<1>4. phase' = [phase EXCEPT ![r] = "down"]
  BY DEF Crash
<1> QED
  BY <1>1, <1>2, <1>3, <1>4, IdleFact DEF TypeOK

LEMMA CrashRInv ==
  ASSUME RInv, NEW r \in Replicas, Crash(r)
  PROVE  RInv'
<1>0. TypeOK /\ \A q \in Sessions : Shape(q)
  BY DEF RInv
<1>1. \A s \in Sessions : req'[s] = IF req[s].at = r THEN Idle ELSE req[s]
  BY <1>0, CrashFact
<1>2. UNCHANGED <<parents, rows, files, key, before, server, swept>>
  BY DEF Crash
<1>3. TypeOK'
  BY <1>0, <1>2, CrashFact DEF TypeOK
<1>4. ASSUME NEW q \in Sessions PROVE Shape(q)'
  <2>1. CASE req[q].at = r
    BY <1>1, <2>1, IdleFact DEF Shape
  <2>2. CASE req[q].at # r
    BY <1>0, <1>1, <1>2, <2>2, CrashFact DEF Shape
  <2> QED
    BY <2>1, <2>2
<1>5. \A q \in Sessions, x \in Uploads : Uploading(q, x)' => Uploading(q, x)
  BY <1>1, IdleFact DEF Uploading
<1>6. \A q, p \in Sessions : UploadOnce(q, p)' /\ PurgeOnce(q, p)'
  BY <1>1, IdleFact DEF RInv, UploadOnce, PurgeOnce, Uploading
<1>7. ASSUME NEW x \in Uploads, Known(x)' PROVE Known(x)
  BY <1>1, <1>2, <1>7, IdleFact DEF Known
<1>8. \A x \in Uploads : CommittedOnce(x)'
  BY <1>2, <1>5, <1>7 DEF RInv, CommittedOnce
<1> QED
  BY <1>3, <1>4, <1>6, <1>8 DEF RInv

LEMMA NextRInv ==
  ASSUME RInv, [Next]_vars
  PROVE  RInv'
<1>1. ASSUME NEW s \in Sessions, Advance(s) PROVE RInv'
  BY <1>1, SelectRInv, RemoveRInv, DeleteRowRInv, DoneRInv, ReadRowsRInv, SweepRInv, CommitRInv DEF Advance
<1>2. CASE UNCHANGED vars
  BY <1>2 DEF vars, history, RInv, TypeOK, Shape, UploadOnce, PurgeOnce, CommittedOnce, Known, Uploading
<1> QED
  BY <1>1, <1>2, BeginUploadRInv, BeginRInv, FailRInv, CrashRInv DEF Next

\* The states of the model are of the declared types
\* (src/backend/app/api/flake/attachment.py).
THEOREM TypeCorrect == Spec => []TypeOK
<1>1. RInv => TypeOK
  BY DEF RInv
<1> QED
  BY <1>1, InitRInv, NextRInv, PTL DEF Spec

LEMMA RInvAlways == Spec => []RInv
BY InitRInv, NextRInv, PTL DEF Spec

-----------------------------------------------------------------------------
(***************************************************************************)
(* What an upload replaces.                                                *)
(***************************************************************************)

\* the attachments of its name that were there when it looked, and still are
ToReplace(s) == {x \in rows \cap before[req[s].id] : key[x] = key[req[s].id]}

Replacing(s) ==
  req[s].kind = "upload" =>
    /\ req[s].pc = "remove" => ToReplace(s) \subseteq req[s].todo \cup req[s].gone
    /\ req[s].pc = "commit" => ToReplace(s) \subseteq req[s].gone

WInv == RInv /\ ReplacedByName /\ \A s \in Sessions : Replacing(s)

\* Requests but that of s change only by ending; the rows, their names and
\* what other uploads saw are the same.
LEMMA StillReplacing ==
  ASSUME WInv, NEW s \in Sessions, UNCHANGED rows, Replacing(s)',
         \A x \in rows : key'[x] = key[x] /\ before'[x] = before[x],
         \A q \in Sessions \ {s} : req'[q] \in {req[q], Idle},
         \A q \in Sessions \ {s} : req[q].kind = "upload" =>
           key'[req[q].id] = key[req[q].id] /\ before'[req[q].id] = before[req[q].id]
  PROVE  ReplacedByName' /\ \A q \in Sessions : Replacing(q)'
<1>1. ReplacedByName'
  BY DEF WInv, RInv, TypeOK, ReplacedByName
<1>2. ASSUME NEW q \in Sessions \ {s} PROVE Replacing(q)'
  <2>1. CASE req'[q] = Idle
    BY <2>1, IdleFact DEF Replacing
  <2>2. CASE req'[q] = req[q]
    BY <2>2 DEF WInv, Replacing, ToReplace
  <2> QED
    BY <2>1, <2>2
<1> QED
  BY <1>1, <1>2

\* committed rows and the uploads under way are different attachments
LEMMA Apart ==
  ASSUME RInv, NEW s \in Sessions, req[s].kind = "upload"
  PROVE  /\ req[s].id \in Uploads /\ key[req[s].id] # None /\ ~ Known(req[s].id)
         /\ \A q \in Sessions \ {s} : req[q].kind = "upload" => req[q].id # req[s].id
<1>1. req[s].id \in Uploads /\ key[req[s].id] \in Keys
  BY DEF RInv, Shape
<1>2. ~ Known(req[s].id)
  BY <1>1 DEF RInv, CommittedOnce, Uploading
<1>3. None \notin Keys
  OBVIOUS
<1>4. \A q \in Sessions \ {s} : req[q].kind = "upload" => req[q].id # req[s].id
  BY DEF RInv, UploadOnce, Uploading
<1> QED
  BY <1>1, <1>2, <1>3, <1>4

LEMMA InitWInv == Init => WInv
BY InitRInv, IdleFact DEF Init, WInv, ReplacedByName, Replacing

LEMMA BeginReplacing ==
  ASSUME WInv, NEW s \in Sessions, NEW r \in Replicas,
         \/ \E u \in Uploads, k \in Keys : BeginUpload(s, r, u, k)
         \/ \E x \in Uploads : BeginDelete(s, r, x)
         \/ \E p \in Parents : BeginParent(s, r, p)
         \/ Start(s, r)
  PROVE  ReplacedByName' /\ \A q \in Sessions : Replacing(q)'
<1>0. TypeOK /\ RInv
  BY DEF WInv, RInv
<1>1. ASSUME NEW u \in Uploads, NEW k \in Keys, BeginUpload(s, r, u, k)
      PROVE  ReplacedByName' /\ \A q \in Sessions : Replacing(q)'
  <2>1. StepOf(s) /\ req'[s].pc = "select"
    BY <1>0, <1>1, BeginFact DEF BeginUpload
  <2>2. UNCHANGED <<rows, before>> /\ key[u] = None /\ \A x \in Uploads \ {u} : key'[x] = key[x]
    BY <1>0, <1>1 DEF BeginUpload, TypeOK
  <2>3. u \notin rows
    BY <1>0, <2>2 DEF RInv, CommittedOnce, Known
  <2>4. \A q \in Sessions : req[q].kind = "upload" => req[q].id \in Uploads \ {u}
    BY <1>0, <2>2, Apart
  <2>5. Replacing(s)'
    BY <2>1 DEF Replacing
  <2> QED
    BY <1>0, <2>1, <2>2, <2>3, <2>4, <2>5, StillReplacing DEF StepOf, TypeOK
<1>2. ASSUME \/ \E x \in Uploads : BeginDelete(s, r, x)
             \/ \E p \in Parents : BeginParent(s, r, p)
             \/ Start(s, r)
      PROVE  ReplacedByName' /\ \A q \in Sessions : Replacing(q)'
  <2>1. StepOf(s) /\ req'[s].kind # "upload"
    <3>1. ASSUME NEW x \in Uploads, BeginDelete(s, r, x) PROVE StepOf(s) /\ req'[s].kind # "upload"
      BY <1>0, <3>1, BeginFact DEF BeginDelete
    <3>2. ASSUME NEW p \in Parents, BeginParent(s, r, p) PROVE StepOf(s) /\ req'[s].kind # "upload"
      BY <1>0, <3>2, BeginFact DEF BeginParent
    <3>3. CASE Start(s, r)
      BY <1>0, <3>3, BeginFact DEF Start
    <3> QED
      BY <1>2, <3>1, <3>2, <3>3
  <2>2. UNCHANGED <<rows, key, before>>
    BY <1>2 DEF BeginDelete, BeginParent, Start, history
  <2>3. Replacing(s)'
    BY <2>1 DEF Replacing
  <2> QED
    BY <2>1, <2>2, <2>3, StillReplacing DEF StepOf
<1> QED
  BY <1>1, <1>2

\* It looks: what it has to remove is all there is.
LEMMA SelectReplacing ==
  ASSUME WInv, NEW s \in Sessions, Select(s)
  PROVE  ReplacedByName' /\ \A q \in Sessions : Replacing(q)'
<1>0. TypeOK /\ RInv
  BY DEF WInv, RInv
<1>1. StepOf(s) /\ SameRequest(s) /\ req'[s].pc = "remove" /\ req'[s].todo = Found(s)
  BY <1>0, SelectFact
<1>2. UNCHANGED <<rows, key>>
  BY DEF Select
<1>3. CASE req[s].kind = "upload"
  <2>1. before' = [before EXCEPT ![req[s].id] = rows]
    BY <1>3 DEF Select
  <2>2. before'[req[s].id] = rows /\ \A x \in Uploads \ {req[s].id} : before'[x] = before[x]
    BY <1>0, <1>3, <2>1, Apart DEF TypeOK
  <2>3. req[s].id \notin rows
    BY <1>0, <1>3, Apart DEF Known
  <2>4. ToReplace(s)' \subseteq Found(s)
    BY <1>1, <1>2, <1>3, <2>2 DEF ToReplace, Found, SameRequest
  <2>5. Replacing(s)'
    BY <1>1, <2>4 DEF Replacing
  <2>6. \A q \in Sessions \ {s} : req[q].kind = "upload" => req[q].id \in Uploads \ {req[s].id}
    BY <1>0, <1>3, Apart
  <2> QED
    BY <1>0, <1>1, <1>2, <2>2, <2>3, <2>5, <2>6, StillReplacing DEF StepOf, TypeOK
<1>4. CASE req[s].kind # "upload"
  <2>1. UNCHANGED before /\ Replacing(s)'
    BY <1>1, <1>4 DEF Select, Replacing, SameRequest
  <2> QED
    BY <1>1, <1>2, <2>1, StillReplacing DEF StepOf
<1> QED
  BY <1>3, <1>4

\* An upload goes on: a row it had to remove it has removed, or has to, and
\* it is done when none is left.
GoesOn(s) ==
  /\ StepOf(s) /\ SameRequest(s)
  /\ req[s].kind = "upload" =>
       /\ req[s].pc = "remove"
       /\ req[s].todo \cup req[s].gone \subseteq req'[s].todo \cup req'[s].gone
       /\ \/ req'[s].pc = "remove"
          \/ req'[s].pc = "commit" /\ req'[s].todo = {}

LEMMA GoesOnFact ==
  ASSUME RInv, NEW s \in Sessions,
         \/ \E x \in Uploads : Keep(s, x) \/ Unlink(s, x)
         \/ DeleteRow(s) \/ Save(s) \/ Finish(s) \/ ReadRows(s) \/ Sweep(s)
  PROVE  GoesOn(s)
<1>0. TypeOK /\ Shape(s)
  BY DEF RInv
<1>1. ASSUME NEW x \in Uploads, Keep(s, x) PROVE GoesOn(s)
  BY <1>0, <1>1, KeepFact DEF GoesOn
<1>2. ASSUME NEW x \in Uploads, Unlink(s, x) PROVE GoesOn(s)
  <2>1. /\ StepOf(s) /\ SameRequest(s) /\ req[s].pc = "remove" /\ req'[s].pc = "remove"
        /\ req'[s].todo = req[s].todo /\ req'[s].gone = req[s].gone
    BY <1>0, <1>2, UnlinkFact
  <2> QED
    BY <2>1 DEF GoesOn
<1>3. CASE DeleteRow(s)
  <2>1. req[s].pc = "remove"
    BY <1>0, <1>3 DEF Shape, DeleteRow
  <2>2. /\ StepOf(s) /\ SameRequest(s) /\ req'[s].pc = req[s].pc
        /\ req'[s].todo = req[s].todo \ {req[s].cur} /\ req'[s].gone = req[s].gone \cup {req[s].cur}
    BY <1>0, <1>3, DeleteRowFact
  <2>3. req[s].todo \cup req[s].gone \subseteq req'[s].todo \cup req'[s].gone
    BY <2>2
  <2> QED
    BY <2>1, <2>2, <2>3 DEF GoesOn
<1>4. CASE Save(s) \/ Finish(s)
  BY <1>0, <1>4, DoneFact DEF GoesOn
<1>5. CASE ReadRows(s)
  BY <1>0, <1>5, ReadRowsFact DEF GoesOn
<1>6. CASE Sweep(s)
  BY <1>0, <1>6, SweepFact DEF GoesOn, Shape
<1> QED
  BY <1>1, <1>2, <1>3, <1>4, <1>5, <1>6

LEMMA WorkReplacing ==
  ASSUME WInv, NEW s \in Sessions,
         \/ \E x \in Uploads : Keep(s, x) \/ Unlink(s, x)
         \/ DeleteRow(s) \/ Save(s) \/ Finish(s) \/ ReadRows(s) \/ Sweep(s)
  PROVE  ReplacedByName' /\ \A q \in Sessions : Replacing(q)'
<1>1. GoesOn(s) /\ Replacing(s)
  BY GoesOnFact DEF WInv
<1>2. UNCHANGED <<rows, key, before>>
  BY DEF Keep, Unlink, DeleteRow, Save, Finish, ReadRows, Sweep, history
<1>3. ToReplace(s)' = ToReplace(s)
  BY <1>1, <1>2 DEF ToReplace, GoesOn, SameRequest
<1>4. Replacing(s)'
  BY <1>1, <1>3 DEF Replacing, GoesOn, SameRequest
<1> QED
  BY <1>1, <1>2, <1>4, StillReplacing DEF GoesOn, StepOf

\* It commits: what it looked for is gone, and nobody saw it before.
LEMMA CommitReplacing ==
  ASSUME WInv, NEW s \in Sessions, Commit(s)
  PROVE  ReplacedByName' /\ \A q \in Sessions : Replacing(q)'
<1>0. TypeOK /\ RInv /\ Replacing(s)
  BY DEF WInv, RInv
<1>1. StepOf(s) /\ req'[s] = Idle
  BY <1>0, EndFact
<1>2. /\ UNCHANGED <<key, before>> /\ req[s].pc = "commit"
      /\ rows' = (rows \ req[s].gone) \cup (IF req[s].kind = "upload" THEN {req[s].id} ELSE {})
  BY DEF Commit, history
<1>3. ASSUME req[s].kind = "upload", NEW u \in Uploads PROVE req[s].id \notin before[u]
  BY <1>0, <1>3, Apart DEF Known
<1>4. ASSUME NEW x \in rows', NEW y \in rows', x # y, key[x] = key[y] PROVE x \notin before[y]
  <2>1. CASE x \in rows /\ y \in rows
    BY <1>4, <2>1 DEF WInv, ReplacedByName
  <2>2. CASE req[s].kind = "upload" /\ x = req[s].id
    <3>1. y \in rows
      BY <1>2, <1>4, <2>2
    <3> QED
      BY <1>0, <1>3, <2>2, <3>1 DEF TypeOK
  <2>3. CASE req[s].kind = "upload" /\ y = req[s].id
    <3>1. x \in rows \ req[s].gone
      BY <1>2, <1>4, <2>3
    <3>2. ToReplace(s) \subseteq req[s].gone
      BY <1>0, <1>2, <2>3 DEF Replacing
    <3> QED
      BY <1>4, <2>3, <3>1, <3>2 DEF ToReplace
  <2> QED
    BY <1>2, <1>4, <2>1, <2>2, <2>3
<1>5. ReplacedByName'
  BY <1>2, <1>4 DEF ReplacedByName
<1>6. ASSUME NEW q \in Sessions \ {s} PROVE Replacing(q)'
  <2> SUFFICES ASSUME req[q].kind = "upload" PROVE ToReplace(q)' \subseteq ToReplace(q) /\ req'[q] = req[q]
    BY <1>1 DEF WInv, Replacing, StepOf
  <2>1. req'[q] = req[q] /\ req[q].id \in Uploads
    BY <1>0, <1>1, Apart DEF StepOf
  <2>2. req[s].kind = "upload" => req[s].id \notin before[req[q].id]
    BY <1>3, <2>1
  <2> QED
    BY <1>2, <2>1, <2>2 DEF ToReplace
<1>7. Replacing(s)'
  BY <1>1, IdleFact DEF Replacing
<1> QED
  BY <1>5, <1>6, <1>7

LEMMA NextWInv ==
  ASSUME WInv, [Next]_vars
  PROVE  WInv'
<1>0. RInv /\ TypeOK /\ \A s \in Sessions : Replacing(s)
  BY DEF WInv, RInv
<1>1. RInv'
  BY <1>0, NextRInv
<1>2. ASSUME NEW s \in Sessions, Fail(s) PROVE ReplacedByName' /\ \A q \in Sessions : Replacing(q)'
  <2>1. StepOf(s) /\ req'[s] = Idle /\ UNCHANGED <<rows, key, before>>
    BY <1>0, <1>2, EndFact DEF Fail
  <2>2. Replacing(s)'
    BY <2>1, IdleFact DEF Replacing
  <2> QED
    BY <2>1, <2>2, StillReplacing DEF StepOf
<1>3. ASSUME NEW r \in Replicas, Crash(r) PROVE ReplacedByName' /\ \A q \in Sessions : Replacing(q)'
  <2>1. UNCHANGED <<rows, key, before>> /\ \A s \in Sessions : req'[s] \in {req[s], Idle}
    BY <1>0, <1>3, CrashFact DEF Crash
  <2>2. ReplacedByName'
    BY <2>1 DEF WInv, ReplacedByName
  <2>3. ASSUME NEW q \in Sessions PROVE Replacing(q)'
    <3>1. CASE req'[q] = Idle
      BY <3>1, IdleFact DEF Replacing
    <3>2. CASE req'[q] = req[q]
      BY <1>0, <2>1, <3>2 DEF Replacing, ToReplace
    <3> QED
      BY <2>1, <3>1, <3>2
  <2> QED
    BY <2>2, <2>3
<1>4. ASSUME NEW s \in Sessions, Advance(s) PROVE ReplacedByName' /\ \A q \in Sessions : Replacing(q)'
  BY <1>4, SelectReplacing, WorkReplacing, CommitReplacing DEF Advance
<1>5. ASSUME UNCHANGED vars PROVE ReplacedByName' /\ \A q \in Sessions : Replacing(q)'
  <2>1. UNCHANGED <<rows, key, before, req>>
    BY <1>5 DEF vars, history
  <2> QED
    BY <1>0, <2>1 DEF WInv, ReplacedByName, Replacing, ToReplace
<1>6. ASSUME Next PROVE ReplacedByName' /\ \A q \in Sessions : Replacing(q)'
  BY <1>2, <1>3, <1>4, <1>6, BeginReplacing DEF Next
<1> QED
  BY <1>1, <1>5, <1>6 DEF WInv

\* An upload replaces the attachment of its name that was there when it
\* looked, however requests, failures and crashes of replicas interleave
\* (_remove_existing_by_name, src/backend/app/api/flake/attachment.py).
THEOREM ReplacedByNameAlways == Spec => []ReplacedByName
<1>1. WInv => ReplacedByName
  BY DEF WInv
<1> QED
  BY <1>1, InitWInv, NextWInv, PTL DEF Spec

-----------------------------------------------------------------------------
(***************************************************************************)
(* Uploads of a name that do not overlap: what one of them replaces is     *)
(* still all there is when it commits.                                     *)
(***************************************************************************)

NamesApart ==
  \A s, q \in Sessions :
    s # q /\ req[s].kind = "upload" /\ req[q].kind = "upload" => key[req[s].id] # key[req[q].id]

SawAll(s) ==
  req[s].kind = "upload" /\ req[s].pc \in {"remove", "commit"} =>
    {x \in rows : key[x] = key[req[s].id]} \subseteq before[req[s].id]

NInv == WInv /\ OnePerName /\ \A s \in Sessions : SawAll(s)

\* The rows stay, and so does what a request saw, but that of s.
LEMMA StillSaw ==
  ASSUME NInv, NEW s \in Sessions, UNCHANGED rows, SawAll(s)',
         \A x \in rows : key'[x] = key[x],
         \A q \in Sessions \ {s} : req'[q] \in {req[q], Idle},
         \A q \in Sessions \ {s} : req[q].kind = "upload" =>
           key'[req[q].id] = key[req[q].id] /\ before'[req[q].id] = before[req[q].id]
  PROVE  OnePerName' /\ \A q \in Sessions : SawAll(q)'
<1>1. OnePerName'
  BY DEF NInv, OnePerName
<1>2. ASSUME NEW q \in Sessions \ {s} PROVE SawAll(q)'
  <2>1. CASE req'[q] = Idle
    BY <2>1, IdleFact DEF SawAll
  <2>2. CASE req'[q] = req[q]
    BY <2>2 DEF NInv, SawAll
  <2> QED
    BY <2>1, <2>2
<1> QED
  BY <1>1, <1>2

LEMMA BeginSaw ==
  ASSUME NInv, NEW s \in Sessions, NEW r \in Replicas,
         \/ \E u \in Uploads, k \in Keys : BeginUpload(s, r, u, k)
         \/ \E x \in Uploads : BeginDelete(s, r, x)
         \/ \E p \in Parents : BeginParent(s, r, p)
         \/ Start(s, r)
  PROVE  OnePerName' /\ \A q \in Sessions : SawAll(q)'
<1>0. TypeOK /\ RInv
  BY DEF NInv, WInv, RInv
<1>1. ASSUME NEW u \in Uploads, NEW k \in Keys, BeginUpload(s, r, u, k)
      PROVE  OnePerName' /\ \A q \in Sessions : SawAll(q)'
  <2>1. StepOf(s) /\ req'[s].pc = "select"
    BY <1>0, <1>1, BeginFact DEF BeginUpload
  <2>2. UNCHANGED <<rows, before>> /\ key[u] = None /\ \A x \in Uploads \ {u} : key'[x] = key[x]
    BY <1>0, <1>1 DEF BeginUpload, TypeOK
  <2>3. u \notin rows
    BY <1>0, <2>2 DEF RInv, CommittedOnce, Known
  <2>4. \A q \in Sessions : req[q].kind = "upload" => req[q].id \in Uploads \ {u}
    BY <1>0, <2>2, Apart
  <2>5. SawAll(s)'
    BY <2>1 DEF SawAll
  <2> QED
    BY <1>0, <2>1, <2>2, <2>3, <2>4, <2>5, StillSaw DEF StepOf, TypeOK
<1>2. ASSUME NEW kind \in {"delete", "parent", "purge"}, NEW pc \in {"select", "remove"},
             NEW id \in Uploads \cup Parents \cup {None}, NEW todo \in SUBSET Uploads,
             Begin(s, r, kind, pc, id, todo), UNCHANGED <<rows, key, before>>
      PROVE  OnePerName' /\ \A q \in Sessions : SawAll(q)'
  <2>1. StepOf(s) /\ req'[s].kind # "upload"
    BY <1>0, <1>2, BeginFact
  <2>2. SawAll(s)'
    BY <2>1 DEF SawAll
  <2> QED
    BY <1>2, <2>1, <2>2, StillSaw DEF StepOf
<1>3. ASSUME NEW x \in Uploads, BeginDelete(s, r, x) PROVE OnePerName' /\ \A q \in Sessions : SawAll(q)'
  BY <1>2, <1>3 DEF BeginDelete, history
<1>4. ASSUME NEW p \in Parents, BeginParent(s, r, p) PROVE OnePerName' /\ \A q \in Sessions : SawAll(q)'
  BY <1>2, <1>4 DEF BeginParent, history
<1>5. ASSUME Start(s, r) PROVE OnePerName' /\ \A q \in Sessions : SawAll(q)'
  BY <1>2, <1>5 DEF Start, history
<1> QED
  BY <1>1, <1>3, <1>4, <1>5

LEMMA SelectSaw ==
  ASSUME NInv, NEW s \in Sessions, Select(s)
  PROVE  OnePerName' /\ \A q \in Sessions : SawAll(q)'
<1>0. TypeOK /\ RInv
  BY DEF NInv, WInv, RInv
<1>1. StepOf(s) /\ SameRequest(s) /\ UNCHANGED <<rows, key>>
  BY <1>0, SelectFact DEF Select
<1>2. CASE req[s].kind = "upload"
  <2>1. before'[req[s].id] = rows /\ \A x \in Uploads \ {req[s].id} : before'[x] = before[x]
    BY <1>0, <1>2, Apart DEF Select, TypeOK
  <2>2. SawAll(s)'
    BY <1>1, <2>1 DEF SawAll, SameRequest
  <2>3. \A q \in Sessions \ {s} : req[q].kind = "upload" => req[q].id \in Uploads \ {req[s].id}
    BY <1>0, <1>2, Apart
  <2> QED
    BY <1>1, <2>1, <2>2, <2>3, StillSaw DEF StepOf
<1>3. CASE req[s].kind # "upload"
  <2>1. UNCHANGED before /\ SawAll(s)'
    BY <1>1, <1>3 DEF Select, SawAll, SameRequest
  <2> QED
    BY <1>1, <2>1, StillSaw DEF StepOf
<1> QED
  BY <1>2, <1>3

LEMMA WorkSaw ==
  ASSUME NInv, NEW s \in Sessions,
         \/ \E x \in Uploads : Keep(s, x) \/ Unlink(s, x)
         \/ DeleteRow(s) \/ Save(s) \/ Finish(s) \/ ReadRows(s) \/ Sweep(s)
  PROVE  OnePerName' /\ \A q \in Sessions : SawAll(q)'
<1>1. GoesOn(s) /\ SawAll(s)
  BY GoesOnFact DEF NInv, WInv
<1>2. UNCHANGED <<rows, key, before>>
  BY DEF Keep, Unlink, DeleteRow, Save, Finish, ReadRows, Sweep, history
<1>3. SawAll(s)'
  BY <1>1, <1>2 DEF SawAll, GoesOn, SameRequest
<1> QED
  BY <1>1, <1>2, <1>3, StillSaw DEF GoesOn, StepOf

\* It commits: all of its name goes, and no other upload is of its name.
LEMMA CommitSaw ==
  ASSUME NInv, NamesApart, NEW s \in Sessions, Commit(s)
  PROVE  OnePerName' /\ \A q \in Sessions : SawAll(q)'
<1>0. TypeOK /\ RInv /\ Replacing(s) /\ SawAll(s)
  BY DEF NInv, WInv, RInv
<1>1. StepOf(s) /\ req'[s] = Idle
  BY <1>0, EndFact
<1>2. /\ UNCHANGED <<key, before>> /\ req[s].pc = "commit"
      /\ rows' = (rows \ req[s].gone) \cup (IF req[s].kind = "upload" THEN {req[s].id} ELSE {})
  BY DEF Commit, history
<1>3. ASSUME req[s].kind = "upload", NEW x \in rows \ req[s].gone PROVE key[x] # key[req[s].id]
  BY <1>0, <1>2, <1>3 DEF Replacing, SawAll, ToReplace
<1>4. OnePerName'
  BY <1>2, <1>3 DEF NInv, OnePerName
<1>5. ASSUME NEW q \in Sessions \ {s} PROVE SawAll(q)'
  <2> SUFFICES ASSUME req[q].kind = "upload", req[q].pc \in {"remove", "commit"},
                      NEW x \in rows', key[x] = key[req[q].id]
               PROVE  x \in before[req[q].id]
    BY <1>1, <1>2 DEF SawAll, StepOf
  <2>1. x \in rows
    BY <1>2 DEF NamesApart
  <2> QED
    BY <2>1 DEF NInv, SawAll
<1>6. SawAll(s)'
  BY <1>1, IdleFact DEF SawAll
<1> QED
  BY <1>4, <1>5, <1>6

LEMMA NextNInv ==
  ASSUME NInv, NamesApart, [Next]_vars
  PROVE  NInv'
<1>0. TypeOK
  BY DEF NInv, WInv, RInv
<1>1. WInv'
  BY NextWInv DEF NInv
<1>2. ASSUME NEW s \in Sessions, Fail(s) PROVE OnePerName' /\ \A q \in Sessions : SawAll(q)'
  <2>1. StepOf(s) /\ req'[s] = Idle /\ UNCHANGED <<rows, key, before>>
    BY <1>0, <1>2, EndFact DEF Fail
  <2>2. SawAll(s)'
    BY <2>1, IdleFact DEF SawAll
  <2> QED
    BY <2>1, <2>2, StillSaw DEF StepOf
<1>3. ASSUME NEW r \in Replicas, Crash(r) PROVE OnePerName' /\ \A q \in Sessions : SawAll(q)'
  <2>1. UNCHANGED <<rows, key, before>> /\ \A s \in Sessions : req'[s] \in {req[s], Idle}
    BY <1>0, <1>3, CrashFact DEF Crash
  <2>2. OnePerName'
    BY <2>1 DEF NInv, OnePerName
  <2>3. ASSUME NEW q \in Sessions PROVE SawAll(q)'
    <3>1. CASE req'[q] = Idle
      BY <3>1, IdleFact DEF SawAll
    <3>2. CASE req'[q] = req[q]
      BY <2>1, <3>2 DEF NInv, SawAll
    <3> QED
      BY <2>1, <3>1, <3>2
  <2> QED
    BY <2>2, <2>3
<1>4. ASSUME NEW s \in Sessions, Advance(s) PROVE OnePerName' /\ \A q \in Sessions : SawAll(q)'
  BY <1>4, SelectSaw, WorkSaw, CommitSaw DEF Advance
<1>5. ASSUME UNCHANGED vars PROVE OnePerName' /\ \A q \in Sessions : SawAll(q)'
  <2>1. UNCHANGED <<rows, key, before, req>>
    BY <1>5 DEF vars, history
  <2> QED
    BY <2>1 DEF NInv, OnePerName, SawAll
<1>6. ASSUME Next PROVE OnePerName' /\ \A q \in Sessions : SawAll(q)'
  BY <1>2, <1>3, <1>4, <1>6, BeginSaw DEF Next
<1> QED
  BY <1>1, <1>5, <1>6 DEF NInv

\* As long as two uploads of a name to a record do not overlap, a record has
\* one attachment of every name, as the changelog says: deletes, failures,
\* crashes of replicas and their purges do not disturb it.
THEOREM OnePerNameApart == Spec /\ []NamesApart => []OnePerName
<1>1. Init => NInv
  BY InitWInv, IdleFact DEF Init, NInv, OnePerName, SawAll
<1>2. NInv => OnePerName
  BY DEF NInv
<1>3. NInv /\ NamesApart /\ [Next]_vars => NInv'
  BY NextNInv
<1> QED
  BY <1>1, <1>2, <1>3, PTL DEF Spec

-----------------------------------------------------------------------------
(***************************************************************************)
(* What becomes of the files.                                              *)
(***************************************************************************)

SweptByOther(x) == \E r \in Replicas \ {server[x]} : <<x, r>> \in swept

\* what a request has unlinked has no file: a sys_id is written once
NoFile(s) == Unlinked(s) \cap files = {}

\* an upload that commits has its file, unless the purge of another replica took it
Saved(s) ==
  req[s].kind = "upload" /\ req[s].pc = "commit" => req[s].id \in files \/ SweptByOther(req[s].id)

\* a purge has read the rows of its own replica, and nothing that was no row
Reads(s) ==
  req[s].pc = "sweep" =>
    /\ \A x \in rows : server[x] = req[s].at => x \in req[s].seen \cup req[s].gone
    /\ req[s].seen \cap files \subseteq rows

FileInv(s) == NoFile(s) /\ Saved(s) /\ Reads(s)

FInv == RInv /\ FileAccounted /\ \A s \in Sessions : FileInv(s)

LEMMA InitFInv == Init => FInv
<1> SUFFICES ASSUME Init PROVE FInv
  OBVIOUS
<1>1. \A s \in Sessions : FileInv(s)
  BY IdleFact DEF Init, FileInv, NoFile, Saved, Reads, Unlinked
<1> QED
  BY <1>1, InitRInv DEF Init, FInv, FileAccounted

LEMMA IdleFileInv ==
  ASSUME NEW s \in Sessions, req[s] = Idle
  PROVE  FileInv(s) /\ Unlinked(s) = {}
BY IdleFact DEF FileInv, NoFile, Saved, Reads, Unlinked

\* A request takes a step that writes no file and commits no row: what it
\* unlinks it accounts for.
LEMMA FileStep ==
  ASSUME FInv, NEW s \in Sessions, UNCHANGED rows, FileInv(s)',
         \A q \in Sessions \ {s} : req'[q] = req[q],
         \A x \in rows : server'[x] = server[x],
         \A q \in Sessions : req[q].kind = "upload" => server'[req[q].id] = server[req[q].id],
         files' \subseteq files, lost \subseteq lost', swept \subseteq swept',
         Unlinked(s) \subseteq Unlinked(s)' \cup lost',
         \A x \in rows \cap (files \ files') : x \in Unlinked(s)' \/ SweptByOther(x)',
         \A q \in Sessions \ {s} :
           req[q].kind = "upload" /\ req[q].id \in files \ files' => SweptByOther(req[q].id)'
  PROVE  FileAccounted' /\ \A q \in Sessions : FileInv(q)'
<1>1. ASSUME NEW q \in Sessions \ {s} PROVE FileInv(q)'
  <2>0. FileInv(q) /\ req'[q] = req[q]
    BY DEF FInv
  <2>1. NoFile(q)'
    BY <2>0 DEF FileInv, NoFile, Unlinked
  <2>2. Saved(q)'
    <3> SUFFICES ASSUME req[q].kind = "upload", req[q].pc = "commit", req[q].id \notin files'
                 PROVE  SweptByOther(req[q].id)'
      BY <2>0 DEF Saved
    <3>1. CASE req[q].id \in files
      BY <3>1
    <3>2. CASE SweptByOther(req[q].id)
      BY <3>2 DEF SweptByOther
    <3> QED
      BY <2>0, <3>1, <3>2 DEF FileInv, Saved
  <2>3. Reads(q)'
    BY <2>0 DEF FileInv, Reads
  <2> QED
    BY <2>1, <2>2, <2>3 DEF FileInv
<1>2. ASSUME NEW x \in rows, x \notin files'
      PROVE  UnderWay(x)' \/ x \in lost' \/ SweptByOther(x)'
  <2>1. CASE x \in files
    BY <1>2, <2>1 DEF UnderWay
  <2>2. CASE x \notin files
    <3>1. UnderWay(x) \/ x \in lost \/ SweptByOther(x)
      BY <2>2 DEF FInv, FileAccounted, SweptByOther
    <3>2. CASE UnderWay(x)
      <4>1. PICK q \in Sessions : x \in Unlinked(q)
        BY <3>2 DEF UnderWay
      <4>2. CASE q = s
        BY <4>1, <4>2 DEF UnderWay
      <4>3. CASE q # s
        BY <4>1, <4>3 DEF UnderWay, Unlinked
      <4> QED
        BY <4>2, <4>3
    <3>3. CASE x \in lost \/ SweptByOther(x)
      BY <3>3 DEF SweptByOther
    <3> QED
      BY <3>1, <3>2, <3>3
  <2> QED
    BY <2>1, <2>2
<1>3. FileAccounted'
  BY <1>2 DEF FileAccounted, SweptByOther
<1> QED
  BY <1>1, <1>3

LEMMA BeginFiles ==
  ASSUME FInv, NEW s \in Sessions, NEW r \in Replicas,
         \/ \E u \in Uploads, k \in Keys : BeginUpload(s, r, u, k)
         \/ \E x \in Uploads : BeginDelete(s, r, x)
         \/ \E p \in Parents : BeginParent(s, r, p)
         \/ Start(s, r)
  PROVE  FileAccounted' /\ \A q \in Sessions : FileInv(q)'
<1>0. TypeOK /\ RInv
  BY DEF FInv, RInv
<1> DEFINE Fresh == /\ StepOf(s) /\ req'[s].pc \in {"select", "remove"}
                    /\ req'[s].cur = None /\ req'[s].gone = {} /\ req[s].cur = None /\ req[s].gone = {}
<1>1. Fresh
  <2>1. ASSUME NEW u \in Uploads, NEW k \in Keys, BeginUpload(s, r, u, k) PROVE Fresh
    BY <1>0, <2>1, BeginFact DEF BeginUpload
  <2>2. ASSUME NEW x \in Uploads, BeginDelete(s, r, x) PROVE Fresh
    BY <1>0, <2>2, BeginFact DEF BeginDelete
  <2>3. ASSUME NEW p \in Parents, BeginParent(s, r, p) PROVE Fresh
    BY <1>0, <2>3, BeginFact DEF BeginParent
  <2>4. CASE Start(s, r)
    BY <1>0, <2>4, BeginFact DEF Start
  <2> QED
    BY <2>1, <2>2, <2>3, <2>4
<1>2. FileInv(s)' /\ Unlinked(s) = {}
  BY <1>1 DEF FileInv, NoFile, Saved, Reads, Unlinked
<1>3. UNCHANGED <<rows, files, lost, swept>>
  BY DEF BeginUpload, BeginDelete, BeginParent, Start, history
<1> DEFINE SameServers ==
             /\ \A x \in rows : server'[x] = server[x]
             /\ \A q \in Sessions : req[q].kind = "upload" => server'[req[q].id] = server[req[q].id]
<1>4. SameServers
  <2>1. ASSUME NEW u \in Uploads, NEW k \in Keys, BeginUpload(s, r, u, k) PROVE  SameServers
    <3>1. key[u] = None /\ \A x \in Uploads \ {u} : server'[x] = server[x]
      BY <1>0, <2>1 DEF BeginUpload, TypeOK
    <3>2. u \notin rows
      BY <1>0, <3>1 DEF RInv, CommittedOnce, Known
    <3>3. \A q \in Sessions : req[q].kind = "upload" => req[q].id \in Uploads \ {u}
      BY <1>0, <3>1, Apart
    <3> QED
      BY <1>0, <3>1, <3>2, <3>3 DEF TypeOK
  <2>2. CASE (\E x \in Uploads : BeginDelete(s, r, x)) \/ (\E p \in Parents : BeginParent(s, r, p)) \/ Start(s, r)
    BY <2>2 DEF BeginDelete, BeginParent, Start, history
  <2> QED
    BY <2>1, <2>2
<1> QED
  BY <1>1, <1>2, <1>3, <1>4, FileStep DEF StepOf

\* A request goes on and touches no file.
LEMMA PlainFiles ==
  ASSUME FInv, NEW s \in Sessions, StepOf(s), SameRequest(s),
         UNCHANGED <<rows, files, server, lost, swept>>,
         Unlinked(s)' = Unlinked(s),
         req[s].kind # "upload" \/ req'[s].pc # "commit",
         req'[s].pc # "sweep"
  PROVE  FileAccounted' /\ \A q \in Sessions : FileInv(q)'
<1>1. FileInv(s)'
  BY DEF FInv, FileInv, NoFile, Saved, Reads, SameRequest
<1> QED
  BY <1>1, FileStep DEF StepOf

LEMMA UntouchedFiles ==
  ASSUME FInv, NEW s \in Sessions,
         Select(s) \/ (\E x \in Uploads : Keep(s, x)) \/ DeleteRow(s) \/ Finish(s)
  PROVE  FileAccounted' /\ \A q \in Sessions : FileInv(q)'
<1>0. TypeOK /\ Shape(s)
  BY DEF FInv, RInv
<1>1. UNCHANGED <<rows, files, server, lost, swept>>
  BY DEF Select, Keep, DeleteRow, Finish, history
<1>2. CASE Select(s)
  BY <1>0, <1>1, <1>2, SelectFact, PlainFiles DEF Unlinked
<1>3. ASSUME NEW x \in Uploads, Keep(s, x) PROVE FileAccounted' /\ \A q \in Sessions : FileInv(q)'
  BY <1>0, <1>1, <1>3, KeepFact, PlainFiles DEF Unlinked
<1>4. CASE DeleteRow(s)
  <2>1. req[s].pc = "remove"
    BY <1>0, <1>4 DEF Shape, DeleteRow
  <2>2. Unlinked(s)' = Unlinked(s)
    BY <1>0, <1>4, DeleteRowFact DEF Unlinked
  <2> QED
    BY <1>0, <1>1, <1>4, <2>1, <2>2, DeleteRowFact, PlainFiles
<1>5. CASE Finish(s)
  BY <1>0, <1>1, <1>5, DoneFact, PlainFiles DEF Unlinked, Finish
<1> QED
  BY <1>2, <1>3, <1>4, <1>5

\* A request unlinks a file: of a committed attachment, never of an upload.
LEMMA UnlinkFiles ==
  ASSUME FInv, NEW s \in Sessions, NEW x \in Uploads, Unlink(s, x)
  PROVE  FileAccounted' /\ \A q \in Sessions : FileInv(q)'
<1>0. TypeOK /\ RInv /\ FileInv(s)
  BY DEF FInv, RInv
<1>1. UNCHANGED <<rows, server, lost, swept>> /\ files' = files \ {x}
  BY DEF Unlink, history
<1>2. Unlinked(s)' = Unlinked(s) \cup {x}
  BY <1>0, UnlinkFact DEF Unlinked
<1>3. FileInv(s)'
  BY <1>0, <1>1, <1>2, UnlinkFact DEF FileInv, NoFile, Saved, Reads
<1>4. Known(x)
  BY <1>0, UnlinkFact DEF Known
<1>5. \A q \in Sessions : req[q].kind = "upload" => req[q].id # x
  BY <1>0, <1>4, Apart
<1> QED
  BY <1>0, <1>1, <1>2, <1>3, <1>5, UnlinkFact, FileStep DEF StepOf

\* The purge reads the committed rows.
LEMMA ReadRowsFiles ==
  ASSUME FInv, NEW s \in Sessions, ReadRows(s)
  PROVE  FileAccounted' /\ \A q \in Sessions : FileInv(q)'
<1>0. TypeOK /\ RInv /\ FileInv(s)
  BY DEF FInv, RInv
<1>1. UNCHANGED <<rows, files, server, lost, swept>>
  BY DEF ReadRows, history
<1>2. Unlinked(s)' = Unlinked(s)
  BY <1>0, ReadRowsFact DEF Unlinked
<1>3. FileInv(s)'
  BY <1>0, <1>1, <1>2, ReadRowsFact DEF FileInv, NoFile, Saved, Reads
<1> QED
  BY <1>0, <1>1, <1>2, <1>3, ReadRowsFact, FileStep DEF StepOf

\* The purge unlinks: the files it takes from attachments and from uploads
\* under way are of other replicas, for its own is not up yet.
LEMMA SweepFiles ==
  ASSUME FInv, NEW s \in Sessions, Sweep(s)
  PROVE  FileAccounted' /\ \A q \in Sessions : FileInv(q)'
<1>0. TypeOK /\ RInv /\ FileInv(s) /\ Shape(s)
  BY DEF FInv, RInv
<1>1. /\ UNCHANGED <<rows, server, lost>> /\ files' = files \cap req[s].seen
      /\ swept' = swept \cup ((files \ req[s].seen) \X {req[s].at}) /\ req[s].pc = "sweep"
  BY DEF Sweep
<1>2. Unlinked(s)' = Unlinked(s)
  BY <1>0, SweepFact DEF Unlinked
<1>3. req[s].kind = "purge" /\ req[s].at \in Replicas /\ phase[req[s].at] = "starting"
  BY <1>0, <1>1 DEF Shape
<1>4. FileInv(s)'
  BY <1>0, <1>1, <1>2, <1>3, SweepFact DEF FileInv, NoFile, Saved, Reads, SameRequest
<1>5. ASSUME NEW x \in files \ files', server[x] # req[s].at PROVE SweptByOther(x)'
  BY <1>1, <1>3, <1>5 DEF SweptByOther
<1>6. ASSUME NEW x \in rows \cap (files \ files') PROVE x \in Unlinked(s)' \/ SweptByOther(x)'
  <2>1. CASE server[x] # req[s].at
    BY <1>5, <2>1
  <2>2. CASE server[x] = req[s].at
    <3>1. x \in req[s].gone
      BY <1>0, <1>1, <2>2 DEF FileInv, Reads
    <3> QED
      BY <1>2, <3>1 DEF Unlinked
  <2> QED
    BY <2>1, <2>2
<1>7. ASSUME NEW q \in Sessions \ {s}, req[q].kind = "upload", req[q].id \in files \ files'
      PROVE  SweptByOther(req[q].id)'
  <2>1. server[req[q].id] = req[q].at /\ phase[req[q].at] = "up"
    BY <1>0, <1>7 DEF RInv, Shape
  <2>2. server[req[q].id] # req[s].at
    BY <1>3, <2>1
  <2>3. req'[q] = req[q]
    BY <1>0, SweepFact DEF StepOf
  <2> QED
    BY <1>5, <1>7, <2>2, <2>3 DEF SweptByOther
<1> QED
  BY <1>0, <1>1, <1>2, <1>4, <1>6, <1>7, SweepFact, FileStep DEF StepOf

\* An upload writes its file: nothing has unlinked it, and no purge has it
\* among its rows.
LEMMA SaveFiles ==
  ASSUME FInv, NEW s \in Sessions, Save(s)
  PROVE  FileAccounted' /\ \A q \in Sessions : FileInv(q)'
<1>0. TypeOK /\ RInv
  BY DEF FInv, RInv
<1>1. /\ UNCHANGED <<rows, server, lost, swept>> /\ files' = files \cup {req[s].id} /\ req[s].kind = "upload"
  BY DEF Save, history
<1>2. /\ StepOf(s) /\ SameRequest(s) /\ req'[s].pc = "commit"
      /\ req'[s].cur = req[s].cur /\ req'[s].gone = req[s].gone
  BY <1>0, DoneFact
<1>3. ~ Known(req[s].id) /\ req[s].id \in Uploads
  BY <1>0, <1>1, Apart
<1>4. ASSUME NEW q \in Sessions PROVE Unlinked(q)' = Unlinked(q) /\ req[s].id \notin Unlinked(q)
  BY <1>2, <1>3 DEF Unlinked, Known, StepOf
<1>5. ASSUME NEW q \in Sessions PROVE FileInv(q)'
  <2>0. FileInv(q)
    BY DEF FInv
  <2>1. NoFile(q)'
    BY <1>1, <1>4, <2>0 DEF FileInv, NoFile
  <2>2. CASE q = s
    BY <1>1, <1>2, <2>1, <2>2 DEF FileInv, Saved, Reads, SameRequest
  <2>3. CASE q # s
    <3>1. req'[q] = req[q] /\ req[s].id \notin req[q].seen
      BY <1>2, <1>3, <2>3 DEF StepOf, Known
    <3> QED
      BY <1>1, <2>0, <2>1, <3>1 DEF FileInv, Saved, Reads, SweptByOther
  <2> QED
    BY <2>2, <2>3
<1>6. FileAccounted'
  BY <1>1, <1>4 DEF FInv, FileAccounted, UnderWay
<1> QED
  BY <1>5, <1>6

\* An upload commits: it has its file, and a purge that has read its rows
\* runs on another replica.
LEMMA CommitFiles ==
  ASSUME FInv, NEW s \in Sessions, Commit(s)
  PROVE  FileAccounted' /\ \A q \in Sessions : FileInv(q)'
<1>0. TypeOK /\ RInv /\ FileInv(s) /\ Shape(s)
  BY DEF FInv, RInv
<1>1. /\ UNCHANGED <<files, server, lost, swept>> /\ req[s].pc = "commit"
      /\ rows' = (rows \ req[s].gone) \cup (IF req[s].kind = "upload" THEN {req[s].id} ELSE {})
  BY DEF Commit, history
<1>2. StepOf(s) /\ req'[s] = Idle
  BY <1>0, EndFact
<1>3. Unlinked(s) = req[s].gone
  BY <1>0, <1>1 DEF Shape, Unlinked
<1>4. ASSUME NEW q \in Sessions \ {s} PROVE FileInv(q)'
  <2>0. FileInv(q) /\ req'[q] = req[q]
    BY <1>2 DEF FInv, StepOf
  <2>1. NoFile(q)' /\ Saved(q)'
    BY <1>1, <2>0 DEF FileInv, NoFile, Saved, SweptByOther, Unlinked
  <2>2. ASSUME req[q].pc = "sweep", NEW x \in rows', server[x] = req[q].at
        PROVE  x \in req[q].seen \cup req[q].gone
    <3>1. CASE x \in rows
      BY <2>0, <2>2, <3>1 DEF FileInv, Reads
    <3>2. CASE x \notin rows
      <4>1. req[s].kind = "upload" /\ x = req[s].id
        BY <1>1, <3>2
      <4>2. phase[req[q].at] = "up"
        BY <1>0, <2>2, <4>1 DEF Shape
      <4>3. phase[req[q].at] = "starting"
        BY <1>0, <2>2 DEF RInv, Shape
      <4> QED
        BY <4>2, <4>3
    <3> QED
      BY <3>1, <3>2
  <2>3. req[q].pc = "sweep" => req[q].seen \cap files \subseteq rows'
    BY <1>0, <1>1, <1>3, <2>0 DEF FileInv, Reads, NoFile
  <2>4. Reads(q)'
    BY <1>1, <2>0, <2>2, <2>3 DEF Reads
  <2> QED
    BY <2>1, <2>4 DEF FileInv
<1>5. FileInv(s)'
  BY <1>2, IdleFact DEF FileInv, NoFile, Saved, Reads, Unlinked
<1>6. ASSUME NEW x \in rows', x \notin files PROVE UnderWay(x)' \/ x \in lost \/ SweptByOther(x)
  <2>1. CASE req[s].kind = "upload" /\ x = req[s].id
    BY <1>0, <1>1, <1>6, <2>1 DEF FileInv, Saved
  <2>2. CASE x \in rows \ req[s].gone
    <3>1. CASE UnderWay(x)
      <4>1. PICK q \in Sessions \ {s} : x \in Unlinked(q)
        BY <1>3, <2>2, <3>1 DEF UnderWay
      <4> QED
        BY <1>2, <4>1 DEF UnderWay, Unlinked, StepOf
    <3>2. CASE ~ UnderWay(x)
      BY <1>6, <2>2, <3>2 DEF FInv, FileAccounted, SweptByOther
    <3> QED
      BY <3>1, <3>2
  <2> QED
    BY <1>1, <1>6, <2>1, <2>2
<1>7. FileAccounted'
  BY <1>1, <1>6 DEF FileAccounted, SweptByOther
<1> QED
  BY <1>4, <1>5, <1>7

\* A request fails: what it has unlinked is lost.
LEMMA FailFiles ==
  ASSUME FInv, NEW s \in Sessions, Fail(s)
  PROVE  FileAccounted' /\ \A q \in Sessions : FileInv(q)'
<1>0. TypeOK
  BY DEF FInv, RInv
<1>1. UNCHANGED <<rows, files, server, swept>> /\ lost' = lost \cup Unlinked(s)
  BY DEF Fail
<1>2. StepOf(s) /\ req'[s] = Idle
  BY <1>0, EndFact
<1>3. FileInv(s)'
  BY <1>2, IdleFact DEF FileInv, NoFile, Saved, Reads, Unlinked
<1> QED
  BY <1>1, <1>2, <1>3, FileStep DEF StepOf

LEMMA CrashFiles ==
  ASSUME FInv, NEW r \in Replicas, Crash(r)
  PROVE  FileAccounted' /\ \A q \in Sessions : FileInv(q)'
<1>0. TypeOK
  BY DEF FInv, RInv
<1>1. UNCHANGED <<rows, files, server, swept>>
  BY DEF Crash
<1>2. ASSUME NEW q \in Sessions PROVE FileInv(q)' /\ Unlinked(q) \subseteq Unlinked(q)' \cup lost'
  <2>1. CASE req[q].at = r
    <3>1. req'[q] = Idle /\ Unlinked(q) \subseteq lost'
      BY <1>0, <2>1, CrashFact
    <3> QED
      BY <3>1, IdleFact DEF FileInv, NoFile, Saved, Reads, Unlinked
  <2>2. CASE req[q].at # r
    <3>1. req'[q] = req[q]
      BY <1>0, <2>2, CrashFact
    <3> QED
      BY <1>1, <3>1 DEF FInv, FileInv, NoFile, Saved, Reads, SweptByOther, Unlinked
  <2> QED
    BY <2>1, <2>2
<1>3. lost \subseteq lost'
  BY <1>0, CrashFact
<1>4. FileAccounted'
  BY <1>1, <1>2, <1>3 DEF FInv, FileAccounted, UnderWay
<1> QED
  BY <1>2, <1>4

LEMMA NextFInv ==
  ASSUME FInv, [Next]_vars
  PROVE  FInv'
<1>0. RInv /\ TypeOK /\ \A s \in Sessions : FileInv(s)
  BY DEF FInv, RInv
<1>1. RInv'
  BY <1>0, NextRInv
<1>2. ASSUME NEW s \in Sessions, Advance(s) PROVE FileAccounted' /\ \A q \in Sessions : FileInv(q)'
  BY <1>2, UntouchedFiles, UnlinkFiles, ReadRowsFiles, SweepFiles, SaveFiles, CommitFiles DEF Advance
<1>3. ASSUME Next PROVE FileAccounted' /\ \A q \in Sessions : FileInv(q)'
  BY <1>2, <1>3, BeginFiles, FailFiles, CrashFiles DEF Next
<1>4. ASSUME UNCHANGED vars PROVE FileAccounted' /\ \A q \in Sessions : FileInv(q)'
  <2>1. UNCHANGED <<rows, files, req, server, lost, swept>>
    BY <1>4 DEF vars, history
  <2>2. \A q \in Sessions : Unlinked(q)' = Unlinked(q)
    BY <2>1 DEF Unlinked
  <2>3. FileAccounted'
    BY <2>1, <2>2 DEF FInv, FileAccounted, UnderWay
  <2>4. \A q \in Sessions : FileInv(q)'
    BY <1>0, <2>1, <2>2 DEF FileInv, NoFile, Saved, Reads, SweptByOther
  <2> QED
    BY <2>3, <2>4
<1> QED
  BY <1>1, <1>3, <1>4 DEF FInv

LEMMA FInvAlways == Spec => []FInv
BY InitFInv, NextFInv, PTL DEF Spec

\* An attachment has its file, or a request that removes it has unlinked it or
\* has failed, or the purge of another replica ran beside its upload
\* (attachment.py, purge_stale_attachment_files in startup.py).
THEOREM FileAccountedAlways == Spec => []FileAccounted
<1>1. FInv => FileAccounted
  BY DEF FInv
<1> QED
  BY <1>1, FInvAlways, PTL

\* A purge leaves no file that belongs to no attachment (startup.py).
THEOREM CleanStartAlways == Spec => CleanStart
<1>1. ASSUME FInv, NEW s \in Sessions, Sweep(s) PROVE files' \subseteq rows
  BY <1>1 DEF FInv, FileInv, Reads, Sweep
<1>2. ASSUME FInv, [Next]_vars PROVE [\A s \in Sessions : Sweep(s) => files' \subseteq rows]_vars
  BY <1>1, <1>2
<1> QED
  BY <1>2, FInvAlways, PTL DEF Spec, CleanStart
=============================================================================
