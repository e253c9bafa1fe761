-------------------------- MODULE RecordStoreProofs --------------------------
(***************************************************************************)
(* Proofs about RecordStore, for every schema and every number of sessions.*)
(***************************************************************************)
EXTENDS RecordStore, TLAPS

born == {r \in Records : status[r] # "unborn"}

\* a live record's columns hold None or a record of the table they point into
WellTargeted ==
  \A r \in live, f \in Fields :
    val[r][f] # None => TableOf[val[r][f]] = FieldTarget[f]

\* rows a session deleted or updated are live until it ends, and it shares
\* none of them with another session: the row locks
LocksHeld ==
  /\ \A s \in Sessions : tx[s].gone \subseteq live
  /\ \A s \in Sessions, c \in Records \X Fields : c \in tx[s].cleared => c[1] \in live
  /\ \A s, q \in Sessions : s # q => tx[s].gone \cap tx[q].gone = {}
  /\ \A s, q \in Sessions, c \in Records \X Fields :
       (s # q /\ c \in tx[s].cleared) => c[1] \notin tx[q].gone
  /\ \A s, q \in Sessions, c, d \in Records \X Fields :
       (s # q /\ c \in tx[s].cleared /\ d \in tx[q].cleared) => c[1] # d[1]

\* what the phases of a delete imply
Phases ==
  \A s \in Sessions :
    /\ tx[s].removed => tx[s].closing /\ tx[s].emptied = None
    /\ tx[s].closing => tx[s].todo = {} /\ tx[s].work = {} /\ tx[s].target \in tx[s].killed
    /\ tx[s].todo # {} => Active(s)
    /\ tx[s].killed \subseteq born
    /\ tx[s].work \subseteq born
    /\ Active(s) => tx[s].target \in born
    /\ tx[s].killed \cap live \subseteq tx[s].gone \cup {tx[s].emptied}

\* a reference to the target in a column already scanned was cleared, goes
\* with its row, is still to be handled, or was written behind the scan
Settled ==
  \A s \in Sessions, r \in live, f \in Registered :
    (/\ Active(s) /\ tx[s].mode # "keep"
     /\ f \notin tx[s].todo
     /\ val[r][f] = tx[s].target)
    => \/ r \in tx[s].gone
       \/ r = tx[s].emptied
       \/ <<r, f>> \in tx[s].cleared
       \/ <<r, f>> \in late
       \/ f = tx[s].field /\ r \in tx[s].work

\* a row a delete has selected still names its target, or was changed since
Selection ==
  \A s \in Sessions, r \in Records :
    r \in tx[s].work =>
      /\ tx[s].field \in Registered
      /\ r \in live => \/ val[r][tx[s].field] = tx[s].target
                      \/ <<r, tx[s].field>> \in moved

\* the rows of an emptied record were deleted with it or came afterwards
EmptiedRows ==
  \A s \in Sessions, o \in own :
    o[1] \in tx[s].killed => o \in tx[s].dropped \/ o \in raced

IInv ==
  /\ TypeOK
  /\ WellTargeted
  /\ LocksHeld
  /\ Phases
  /\ Settled
  /\ Selection
  /\ EmptiedRows
  /\ NoLooseEnds
  /\ OwnRowsRemoved
  /\ ClearsOnlyItsOwn

-----------------------------------------------------------------------------
(***************************************************************************)
(* Type correctness.                                                       *)
(***************************************************************************)

LEMMA NoTxType == NoTx \in Tx
BY DEF NoTx, Tx, Modes

LEMMA UnderLive == ASSUME NEW D PROVE Under(D) \subseteq live
BY DEF Under

LEMMA EmptyType ==
  ASSUME TypeOK, NEW s \in Sessions, NEW r \in Records, NEW b \in BOOLEAN, Empty(s, r, b)
  PROVE  TypeOK'
<1> DEFINE dead == {o \in own : o[1] = r}
           t == [tx[s] EXCEPT !.work = @ \ {r}, !.emptied = r, !.killed = @ \cup {r},
                              !.dropped = @ \cup dead, !.closing = b]
<1>1. dead \subseteq Records \X Kinds
  BY DEF TypeOK
<1>2. tx[s] \in Tx
  BY DEF TypeOK
<1>3. tx' = [tx EXCEPT ![s] = t]
  BY DEF Empty, TypeOK
<1>4. t \in Tx
  <2> HIDE DEF dead
  <2> QED
    BY <1>1, <1>2 DEF Tx
<1>5. UNCHANGED <<status, val, own, late, raced, moved>>
  BY DEF Empty, history
<1> HIDE DEF t
<1> QED
  BY <1>3, <1>4, <1>5 DEF TypeOK

LEMMA DeleteRowType ==
  ASSUME TypeOK, NEW s \in Sessions, DeleteRow(s)
  PROVE  TypeOK'
<1> DEFINE rows == Under({tx[s].emptied}) \ tx[s].gone
           t == [tx[s] EXCEPT !.emptied = None, !.gone = @ \cup rows, !.removed = tx[s].closing]
<1>1. rows \subseteq Records
  BY UnderLive DEF live
<1>2. tx[s] \in Tx
  BY DEF TypeOK
<1>3. tx' = [tx EXCEPT ![s] = t]
  BY DEF DeleteRow, TypeOK
<1>4. t \in Tx
  <2> HIDE DEF rows
  <2> QED
    BY <1>1, <1>2 DEF Tx
<1> HIDE DEF t
<1> QED
  BY <1>3, <1>4 DEF DeleteRow, TypeOK, data, history

LEMMA TypeInit == Init => TypeOK
BY NoTxType DEF Init, TypeOK, Status

LEMMA TypeNext == TypeOK /\ [Next]_vars => TypeOK'
<1> SUFFICES ASSUME TypeOK, [Next]_vars PROVE TypeOK'
  OBVIOUS
<1>1. ASSUME NEW r \in Records, NEW row \in [Fields -> Records \cup {None}], Create(r, row)
      PROVE  TypeOK'
  BY <1>1 DEF Create, TypeOK, Status, ColumnsOf
<1>2. ASSUME NEW r \in Records, NEW f \in Fields, NEW x \in Records \cup {None},
             SetReference(r, f, x)
      PROVE  TypeOK'
  <2>1. val' \in [Records -> [Fields -> Records \cup {None}]]
    BY <1>2 DEF SetReference, TypeOK
  <2>2. own' \subseteq Records \X Kinds
    BY <1>2 DEF SetReference, TypeOK, Kinds
  <2>3. late' \subseteq Records \X Fields /\ moved' \subseteq Records \X Fields
    BY <1>2 DEF SetReference, TypeOK
  <2>4. raced' \subseteq Records \X Kinds
    BY <1>2 DEF SetReference, TypeOK, Kinds
  <2> QED
    BY <1>2, <2>1, <2>2, <2>3, <2>4 DEF SetReference, TypeOK
<1>3. ASSUME NEW r \in Records, NEW k \in Comments \cup Uploads, AddRow(r, k)
      PROVE  TypeOK'
  BY <1>3 DEF AddRow, TypeOK, Kinds
<1>5. ASSUME NEW s \in Sessions, DeleteStep(s)
      PROVE  TypeOK'
  <2>0. tx[s] \in Tx
    BY DEF TypeOK
  <2>1. ASSUME NEW t \in Records, NEW m \in Modes, BeginDelete(s, t, m)
        PROVE  TypeOK'
    <3>1. [NoTx EXCEPT !.mode = m, !.target = t,
                       !.todo = IF m = "keep" THEN {} ELSE ReverseReferences(t)] \in Tx
      BY NoTxType DEF Tx, ReverseReferences
    <3> QED
      BY <2>1, <3>1 DEF BeginDelete, TypeOK, data, history
  <2>2. ASSUME NEW f \in Registered, ScanColumn(s, f)
        PROVE  TypeOK'
    <3> DEFINE work == {r \in live \ tx[s].gone : Seen(s, r, f) = tx[s].target}
               t == [tx[s] EXCEPT !.todo = @ \ {f}, !.field = f, !.work = work]
    <3>1. work \subseteq Records
      BY DEF live
    <3>2. t \in Tx
      BY <2>0, <3>1 DEF Tx
    <3>3. tx' = [tx EXCEPT ![s] = t]
      BY <2>2 DEF ScanColumn, TypeOK
    <3> QED
      BY <2>2, <3>2, <3>3 DEF ScanColumn, TypeOK, data, history
  <2>3. ASSUME NEW r \in Records, ClearReference(s, r)
        PROVE  TypeOK'
    <3> DEFINE t == [tx[s] EXCEPT !.work = @ \ {r}, !.cleared = @ \cup {<<r, tx[s].field>>}]
    <3>1. <<r, tx[s].field>> \in Records \X Fields
      BY <2>3 DEF ClearReference, Fields, Registered
    <3>2. t \in Tx
      BY <2>0, <3>1 DEF Tx
    <3>3. tx' = [tx EXCEPT ![s] = t]
      BY <2>3 DEF ClearReference, TypeOK
    <3> QED
      BY <2>3, <3>2, <3>3 DEF ClearReference, TypeOK, data, history
  <2>4. ASSUME NEW r \in Records, StaleReference(s, r)
        PROVE  TypeOK'
    BY <2>4, NoTxType DEF StaleReference, TypeOK, data, history
  <2>5. ASSUME NEW r \in Records, EmptyReferrer(s, r)
        PROVE  TypeOK'
    BY <2>5, EmptyType DEF EmptyReferrer
  <2>6. CASE EmptyTarget(s)
    BY <2>0, <2>6, EmptyType DEF EmptyTarget, Active, Tx
  <2>9. CASE DeleteRow(s)
    BY <2>9, DeleteRowType
  <2>7. CASE Commit(s)
    <3>0. tx[s].mode \in Modes
      BY <2>0 DEF Tx
    <3>1. status' \in [Records -> Status]
      BY <3>0, <2>7 DEF Commit, TypeOK, Status, Modes
    <3>2. val' \in [Records -> [Fields -> Records \cup {None}]]
      BY <2>7 DEF Commit, TypeOK, Seen
    <3>3. own' \subseteq Records \X Kinds
      BY <2>7 DEF Commit, TypeOK, Kinds, Updated
    <3>4. raced' \subseteq Records \X Kinds
      BY <2>7 DEF Commit, TypeOK, Kinds, Updated
    <3>5. moved' \subseteq Records \X Fields
      BY <2>0, <2>7 DEF Commit, TypeOK, Tx
    <3>6. late' = late /\ tx' = [tx EXCEPT ![s] = NoTx]
      BY <2>7 DEF Commit
    <3> QED
      BY <3>1, <3>2, <3>3, <3>4, <3>5, <3>6, NoTxType DEF TypeOK
  <2>8. CASE Rollback(s)
    BY <2>8, NoTxType DEF Rollback, TypeOK, data, history
  <2> QED
    BY <1>5, <2>1, <2>2, <2>3, <2>4, <2>5, <2>6, <2>7, <2>8, <2>9 DEF DeleteStep
<1>6. CASE Restart
  BY <1>6, NoTxType DEF Restart, TypeOK
<1>7. CASE UNCHANGED vars
  BY <1>7 DEF vars, TypeOK
<1> QED
  BY <1>1, <1>2, <1>3, <1>5, <1>6, <1>7 DEF Next

\* The variables keep their types: in particular what a running delete has
\* done so far is always a set of rows and columns of the schema.
THEOREM TypeCorrect == Spec => []TypeOK
<1>1. Init => TypeOK
  BY TypeInit
<1>2. TypeOK /\ [Next]_vars => TypeOK'
  BY TypeNext
<1> QED
  BY <1>1, <1>2, PTL DEF Spec

-----------------------------------------------------------------------------
(***************************************************************************)
(* What one step changes: facts the invariance proofs below share.         *)
(***************************************************************************)

\* a step that leaves the committed data alone and ends session s
Ended(s) == tx' = [tx EXCEPT ![s] = NoTx]

LEMMA EndedEffect ==
  ASSUME TypeOK, NEW s \in Sessions, Ended(s)
  PROVE  /\ \A q \in Sessions \ {s} : tx'[q] = tx[q]
         /\ tx'[s] = NoTx
BY DEF Ended, TypeOK

LEMMA NoTxFields ==
  /\ NoTx.mode = "keep" /\ NoTx.target = None /\ NoTx.todo = {} /\ NoTx.field = None
  /\ NoTx.work = {} /\ NoTx.killed = {} /\ NoTx.gone = {} /\ NoTx.cleared = {}
  /\ NoTx.dropped = {} /\ NoTx.removed = FALSE /\ NoTx.emptied = None /\ NoTx.closing = FALSE
BY DEF NoTx

LEMMA BeginEffect ==
  ASSUME TypeOK, NEW s \in Sessions, NEW t \in Records, NEW m \in Modes, BeginDelete(s, t, m)
  PROVE  /\ \A q \in Sessions \ {s} : tx'[q] = tx[q]
         /\ tx'[s].mode = m /\ tx'[s].target = t
         /\ tx'[s].todo = IF m = "keep" THEN {} ELSE ReverseReferences(t)
         /\ tx'[s].field = None /\ tx'[s].work = {} /\ tx'[s].killed = {} /\ tx'[s].gone = {}
         /\ tx'[s].cleared = {} /\ tx'[s].dropped = {} /\ tx'[s].removed = FALSE
         /\ tx'[s].emptied = None /\ tx'[s].closing = FALSE
BY DEF BeginDelete, TypeOK, NoTx

LEMMA ScanEffect ==
  ASSUME TypeOK, NEW s \in Sessions, NEW f \in Registered, ScanColumn(s, f)
  PROVE  /\ \A q \in Sessions \ {s} : tx'[q] = tx[q]
         /\ tx'[s].mode = tx[s].mode /\ tx'[s].target = tx[s].target
         /\ tx'[s].todo = tx[s].todo \ {f} /\ tx'[s].field = f
         /\ tx'[s].work = {r \in live \ tx[s].gone : Seen(s, r, f) = tx[s].target}
         /\ tx'[s].killed = tx[s].killed /\ tx'[s].gone = tx[s].gone
         /\ tx'[s].cleared = tx[s].cleared /\ tx'[s].dropped = tx[s].dropped
         /\ tx'[s].removed = tx[s].removed
         /\ tx'[s].emptied = tx[s].emptied /\ tx'[s].closing = tx[s].closing
<1> DEFINE work == {r \in live \ tx[s].gone : Seen(s, r, f) = tx[s].target}
<1>1. tx[s] \in Tx
  BY DEF TypeOK
<1>2. tx' = [tx EXCEPT ![s] = [tx[s] EXCEPT !.todo = @ \ {f}, !.field = f, !.work = work]]
  BY DEF ScanColumn, TypeOK
<1> HIDE DEF work
<1>3. tx'[s] = [tx[s] EXCEPT !.todo = @ \ {f}, !.field = f, !.work = work]
  BY <1>2 DEF TypeOK
<1>4. \A q \in Sessions \ {s} : tx'[q] = tx[q]
  BY <1>2 DEF TypeOK
<1> QED
  BY <1>1, <1>3, <1>4 DEF Tx, work

LEMMA ClearEffect ==
  ASSUME TypeOK, NEW s \in Sessions, NEW r \in Records, ClearReference(s, r)
  PROVE  /\ \A q \in Sessions \ {s} : tx'[q] = tx[q]
         /\ tx'[s].mode = tx[s].mode /\ tx'[s].target = tx[s].target
         /\ tx'[s].todo = tx[s].todo /\ tx'[s].field = tx[s].field
         /\ tx'[s].work = tx[s].work \ {r}
         /\ tx'[s].killed = tx[s].killed /\ tx'[s].gone = tx[s].gone
         /\ tx'[s].cleared = tx[s].cleared \cup {<<r, tx[s].field>>}
         /\ tx'[s].dropped = tx[s].dropped /\ tx'[s].removed = tx[s].removed
         /\ tx'[s].emptied = tx[s].emptied /\ tx'[s].closing = tx[s].closing
<1>1. tx[s] \in Tx
  BY DEF TypeOK
<1>2. tx' = [tx EXCEPT ![s] = [tx[s] EXCEPT !.work = @ \ {r},
                                           !.cleared = @ \cup {<<r, tx[s].field>>}]]
  BY DEF ClearReference, TypeOK
<1>3. tx'[s] = [tx[s] EXCEPT !.work = @ \ {r}, !.cleared = @ \cup {<<r, tx[s].field>>}]
  BY <1>2 DEF TypeOK
<1>4. \A q \in Sessions \ {s} : tx'[q] = tx[q]
  BY <1>2 DEF TypeOK
<1> QED
  BY <1>1, <1>3, <1>4 DEF Tx

LEMMA EmptyEffect ==
  ASSUME TypeOK, NEW s \in Sessions, NEW r \in Records, NEW b \in BOOLEAN, Empty(s, r, b)
  PROVE  /\ \A q \in Sessions \ {s} : tx'[q] = tx[q]
         /\ tx'[s].mode = tx[s].mode /\ tx'[s].target = tx[s].target
         /\ tx'[s].todo = tx[s].todo /\ tx'[s].field = tx[s].field
         /\ tx'[s].work = tx[s].work \ {r}
         /\ tx'[s].killed = tx[s].killed \cup {r}
         /\ tx'[s].gone = tx[s].gone /\ tx'[s].cleared = tx[s].cleared
         /\ tx'[s].dropped = tx[s].dropped \cup {o \in own : o[1] = r}
         /\ tx'[s].emptied = r /\ tx'[s].closing = b /\ tx'[s].removed = tx[s].removed
         /\ tx[s].emptied = None
         /\ UNCHANGED <<status, val, own, late, raced, moved>>
<1> DEFINE dead == {o \in own : o[1] = r}
           t == [tx[s] EXCEPT !.work = @ \ {r}, !.emptied = r, !.killed = @ \cup {r},
                              !.dropped = @ \cup dead, !.closing = b]
<1>1. tx[s] \in Tx
  BY DEF TypeOK
<1>2. tx' = [tx EXCEPT ![s] = t]
  BY DEF Empty, TypeOK
<1>3. /\ tx'[s] = t /\ \A q \in Sessions \ {s} : tx'[q] = tx[q]
      /\ tx[s].emptied = None
      /\ UNCHANGED <<status, val, own, late, raced, moved>>
  <2> HIDE DEF t
  <2> QED
    BY <1>2 DEF TypeOK, Empty, history
<1> HIDE DEF dead
<1>4. /\ t.mode = tx[s].mode /\ t.target = tx[s].target
      /\ t.todo = tx[s].todo /\ t.field = tx[s].field
      /\ t.work = tx[s].work \ {r}
      /\ t.killed = tx[s].killed \cup {r}
      /\ t.gone = tx[s].gone /\ t.cleared = tx[s].cleared
      /\ t.dropped = tx[s].dropped \cup dead
      /\ t.emptied = r /\ t.closing = b /\ t.removed = tx[s].removed
  BY <1>1 DEF Tx
<1> QED
  BY <1>3, <1>4 DEF dead

LEMMA DeleteRowEffect ==
  ASSUME TypeOK, NEW s \in Sessions, DeleteRow(s)
  PROVE  /\ \A q \in Sessions \ {s} : tx'[q] = tx[q]
         /\ tx'[s].mode = tx[s].mode /\ tx'[s].target = tx[s].target
         /\ tx'[s].todo = tx[s].todo /\ tx'[s].field = tx[s].field
         /\ tx'[s].work = tx[s].work /\ tx'[s].killed = tx[s].killed
         /\ tx'[s].gone = tx[s].gone \cup Under({tx[s].emptied})
         /\ tx'[s].cleared = tx[s].cleared /\ tx'[s].dropped = tx[s].dropped
         /\ tx'[s].emptied = None /\ tx'[s].closing = tx[s].closing
         /\ tx'[s].removed = tx[s].closing
         /\ tx[s].emptied # None
         /\ (Under({tx[s].emptied}) \ tx[s].gone) \cap HeldByOther(s) = {}
         /\ UNCHANGED <<status, val, own, late, raced, moved>>
<1> DEFINE rows == Under({tx[s].emptied}) \ tx[s].gone
           t == [tx[s] EXCEPT !.emptied = None, !.gone = @ \cup rows, !.removed = tx[s].closing]
<1>1. tx[s] \in Tx
  BY DEF TypeOK
<1>2. tx' = [tx EXCEPT ![s] = t]
  BY DEF DeleteRow, TypeOK
<1>3. /\ tx'[s] = t /\ \A q \in Sessions \ {s} : tx'[q] = tx[q]
      /\ tx[s].emptied # None /\ rows \cap HeldByOther(s) = {}
      /\ UNCHANGED <<status, val, own, late, raced, moved>>
  <2> HIDE DEF t
  <2> QED
    BY <1>2 DEF TypeOK, DeleteRow, data, history
<1>5. tx[s].gone \cup rows = tx[s].gone \cup Under({tx[s].emptied})
  OBVIOUS
<1> HIDE DEF rows
<1>4. /\ t.mode = tx[s].mode /\ t.target = tx[s].target
      /\ t.todo = tx[s].todo /\ t.field = tx[s].field
      /\ t.work = tx[s].work /\ t.killed = tx[s].killed
      /\ t.gone = tx[s].gone \cup rows
      /\ t.cleared = tx[s].cleared /\ t.dropped = tx[s].dropped
      /\ t.emptied = None /\ t.closing = tx[s].closing /\ t.removed = tx[s].closing
  BY <1>1 DEF Tx
<1> HIDE DEF t
<1> QED
  BY <1>3, <1>4, <1>5 DEF rows

LEMMA UnderHolds ==
  ASSUME NEW r \in live
  PROVE  r \in Under({r})
BY DEF Under

-----------------------------------------------------------------------------
(***************************************************************************)
(* Every step preserves IInv: one lemma per action.                        *)
(***************************************************************************)

LEMMA InvInit == Init => IInv
<1> SUFFICES ASSUME Init PROVE IInv
  OBVIOUS
<1>1. live = {}
  BY DEF Init, live
<1>2. TypeOK
  BY TypeInit
<1>3. \A s \in Sessions : tx[s] = NoTx
  BY DEF Init
<1> QED
  BY <1>1, <1>2, <1>3, NoTxFields
     DEF Init, IInv, WellTargeted, LocksHeld, Phases, Settled, Selection, EmptiedRows,
         NoLooseEnds, OwnRowsRemoved, ClearsOnlyItsOwn, Active

LEMMA CreateInv ==
  ASSUME IInv, NEW r \in Records, NEW row \in [Fields -> Records \cup {None}], Create(r, row)
  PROVE  IInv'
<1> USE SchemaAssumption DEF IInv
<1>1. TypeOK'
  BY TypeNext DEF Next
<1>2. /\ live' = live \cup {r} /\ r \notin live
      /\ \A x \in live : x # r
      /\ tx' = tx /\ own' = own /\ raced' = raced /\ moved' = moved
      /\ \A x \in Records, f \in Fields : x # r => val'[x][f] = val[x][f]
      /\ \A f \in Fields : val'[r][f] = row[f]
      /\ \A f \in Fields : row[f] # None => TableOf[row[f]] = FieldTarget[f]
      /\ r \notin born
  BY DEF Create, live, born, TypeOK, Allowed
<1>4. WellTargeted'
  BY <1>2 DEF WellTargeted, live
<1>5. LocksHeld'
  BY <1>2 DEF LocksHeld
<1>6. born' = born \cup {r}
  BY DEF Create, TypeOK, born
<1>7. Phases'
  BY <1>2, <1>6 DEF Phases, Active
<1>8. Settled'
  <2> SUFFICES ASSUME NEW s \in Sessions, NEW x \in live', NEW f \in Registered,
                      Active(s), tx[s].mode # "keep", f \notin tx[s].todo,
                      val'[x][f] = tx[s].target
               PROVE  \/ x \in tx[s].gone
                      \/ x = tx[s].emptied
                      \/ <<x, f>> \in tx[s].cleared
                      \/ <<x, f>> \in late'
                      \/ f = tx[s].field /\ x \in tx[s].work
    BY <1>2 DEF Settled, Active
  <2>1. CASE x # r
    BY <1>2, <2>1 DEF Settled, Create, Fields, live
  <2>2. CASE x = r
    <3>1. row[f] = tx[s].target /\ row[f] # None
      BY <1>2, <2>2 DEF Fields, Active
    <3>2. TooLate(f, row[f])
      BY <3>1 DEF TooLate, Passed
    <3>3. f \in ColumnsOf(r)
      BY <3>1 DEF Create, Fields
    <3> QED
      BY <2>2, <3>1, <3>2, <3>3 DEF Create
  <2> QED
    BY <2>1, <2>2
<1>9. EmptiedRows'
  BY <1>2 DEF EmptiedRows
<1>10. Selection' /\ ClearsOnlyItsOwn'
  <2>1. Selection'
    BY <1>2 DEF Selection, Phases, Fields, Registered
  <2>2. ClearsOnlyItsOwn'
    <3> SUFFICES ASSUME NEW s \in Sessions, NEW x \in Records, NEW f \in Fields,
                        <<x, f>> \in tx[s].cleared
                 PROVE  val'[x][f] = tx[s].target \/ <<x, f>> \in moved
      BY <1>2 DEF ClearsOnlyItsOwn
    <3>1. x # r
      BY <1>2 DEF LocksHeld
    <3> QED
      BY <1>2, <3>1 DEF ClearsOnlyItsOwn
  <2> QED
    BY <2>1, <2>2
<1>11. NoLooseEnds'
  <2> SUFFICES ASSUME NEW x \in live', NEW f \in Registered, val'[x][f] # None,
                      status'[val'[x][f]] \in {"clear", "cascade"}
               PROVE  <<x, f>> \in late'
    BY DEF NoLooseEnds
  <2>1. \A y \in Records : status'[y] \in {"clear", "cascade"} <=> status[y] \in {"clear", "cascade"}
    BY DEF Create, TypeOK
  <2>2. f \in Fields /\ x \in Records
    BY DEF Fields, live
  <2>3. CASE x # r
    <3>1. x \in live /\ val'[x][f] = val[x][f] /\ val[x][f] \in Records
      BY <1>2, <2>2, <2>3 DEF TypeOK
    <3> QED
      BY <2>1, <3>1 DEF NoLooseEnds, Create
  <2>4. CASE x = r
    <3>1. row[f] # None /\ row[f] \in Records /\ row[f] \notin live
      BY <1>2, <2>1, <2>2, <2>4 DEF live
    <3>2. f \in ColumnsOf(r)
      BY <2>2, <3>1 DEF Create
    <3> QED
      BY <2>4, <3>1, <3>2 DEF Create, TooLate
  <2> QED
    BY <2>3, <2>4
<1>12. OwnRowsRemoved'
  BY <1>2 DEF OwnRowsRemoved, Create, TypeOK, Modes
<1> QED
  BY <1>1, <1>4, <1>5, <1>7, <1>8, <1>9, <1>10, <1>11, <1>12

LEMMA SetReferenceInv ==
  ASSUME IInv, NEW r \in Records, NEW f \in Fields, NEW x \in Records \cup {None},
         SetReference(r, f, x)
  PROVE  IInv'
<1> USE SchemaAssumption DEF IInv
<1>1. TypeOK'
  BY TypeNext DEF Next
<1>2. /\ live' = live /\ status' = status /\ tx' = tx /\ raced \subseteq raced'
      /\ r \in live
      /\ \A y \in Records, g \in Fields : <<y, g>> # <<r, f>> => val'[y][g] = val[y][g]
      /\ val'[r][f] = x
      /\ x # None => TableOf[x] = FieldTarget[f]
  BY DEF SetReference, live, TypeOK, Allowed
<1>4. \A s \in Sessions : r \notin tx[s].gone /\ r \notin Updated(s)
  BY DEF SetReference, Held
<1>5. WellTargeted'
  BY <1>2 DEF WellTargeted, live
<1>6. LocksHeld'
  BY <1>2 DEF LocksHeld
<1>8. Phases'
  BY <1>2 DEF Phases, born, Active
<1>9. Settled'
  <2> SUFFICES ASSUME NEW s \in Sessions, NEW y \in live, NEW g \in Registered,
                      Active(s), tx[s].mode # "keep", g \notin tx[s].todo,
                      val'[y][g] = tx[s].target
               PROVE  \/ y \in tx[s].gone
                      \/ y = tx[s].emptied
                      \/ <<y, g>> \in tx[s].cleared
                      \/ <<y, g>> \in late'
                      \/ g = tx[s].field /\ y \in tx[s].work
    BY <1>2 DEF Settled, Active
  <2>1. CASE <<y, g>> = <<r, f>>
    <3>1. TooLate(f, x)
      BY <1>2, <2>1 DEF TooLate, Passed, Active
    <3> QED
      BY <2>1, <3>1 DEF SetReference
  <2>2. CASE <<y, g>> # <<r, f>>
    <3>1. val[y][g] = tx[s].target
      BY <1>2, <2>2 DEF Fields, live
    <3>2. <<y, g>> \in late => <<y, g>> \in late'
      BY <2>2 DEF SetReference
    <3> QED
      BY <3>1, <3>2 DEF Settled
  <2> QED
    BY <2>1, <2>2
<1>10. EmptiedRows'
  <2>1. \A o \in own' : o \in own \/ o = <<r, Audit>>
    BY DEF SetReference
  <2>2. ASSUME NEW s \in Sessions, r \in tx[s].killed, <<r, Audit>> \in own', <<r, Audit>> \notin own
        PROVE  <<r, Audit>> \in raced'
    BY <2>2 DEF SetReference, Emptied
  <2> QED
    BY <1>2, <2>1, <2>2 DEF EmptiedRows
<1>11. Selection' /\ ClearsOnlyItsOwn'
  <2>1. \A c \in moved : c # <<r, f>> => c \in moved'
    BY DEF SetReference
  <2>2. Selection'
    <3> SUFFICES ASSUME NEW s \in Sessions, NEW y \in Records, y \in tx[s].work, y \in live,
                        tx[s].field \in Registered
                 PROVE  \/ val'[y][tx[s].field] = tx[s].target
                        \/ <<y, tx[s].field>> \in moved'
      BY <1>2 DEF Selection
    <3>1. tx[s].field \in Fields
      BY DEF Fields
    <3>2. CASE y = r /\ tx[s].field = f
      BY <3>2 DEF SetReference, Selected
    <3>3. CASE <<y, tx[s].field>> # <<r, f>>
      BY <1>2, <2>1, <3>1, <3>3 DEF Selection
    <3> QED
      BY <3>2, <3>3
  <2>3. ClearsOnlyItsOwn'
    <3> SUFFICES ASSUME NEW s \in Sessions, NEW y \in Records, NEW g \in Fields,
                        <<y, g>> \in tx[s].cleared
                 PROVE  val'[y][g] = tx[s].target \/ <<y, g>> \in moved'
      BY <1>2 DEF ClearsOnlyItsOwn
    <3>1. y # r
      BY <1>4 DEF Updated
    <3> QED
      BY <1>2, <2>1, <3>1 DEF ClearsOnlyItsOwn
  <2> QED
    BY <2>2, <2>3
<1>12. NoLooseEnds'
  <2> SUFFICES ASSUME NEW y \in live, NEW g \in Registered, val'[y][g] # None,
                      status[val'[y][g]] \in {"clear", "cascade"}
               PROVE  <<y, g>> \in late'
    BY <1>2 DEF NoLooseEnds
  <2>1. CASE <<y, g>> = <<r, f>>
    <3>1. x # None /\ x \notin live
      BY <1>2, <2>1 DEF live
    <3> QED
      BY <2>1, <3>1 DEF SetReference, TooLate
  <2>2. CASE <<y, g>> # <<r, f>>
    <3>1. val'[y][g] = val[y][g]
      BY <1>2, <2>2 DEF Fields, live
    <3>2. <<y, g>> \in late
      BY <3>1 DEF NoLooseEnds
    <3> QED
      BY <2>2, <3>2 DEF SetReference
  <2> QED
    BY <2>1, <2>2
<1>13. OwnRowsRemoved'
  <2>1. \A o \in own' : o \in own \/ o = <<r, Audit>>
    BY DEF SetReference
  <2> QED
    BY <1>2, <2>1 DEF OwnRowsRemoved, live, Modes
<1> QED
  BY <1>1, <1>5, <1>6, <1>8, <1>9, <1>10, <1>11, <1>12, <1>13

LEMMA AddRowInv ==
  ASSUME IInv, NEW r \in Records, NEW k \in Comments \cup Uploads, AddRow(r, k)
  PROVE  IInv'
<1> USE DEF IInv
<1>1. TypeOK'
  BY TypeNext DEF Next
<1>2. /\ UNCHANGED <<status, val, tx, late, moved, live>>
      /\ own' = own \cup {<<r, k>>}
      /\ raced' = IF Emptied(r) THEN raced \cup {<<r, k>>} ELSE raced
  BY DEF AddRow, live
<1>3. EmptiedRows'
  BY <1>2 DEF EmptiedRows, Emptied
<1>4. OwnRowsRemoved'
  BY <1>2 DEF OwnRowsRemoved, Emptied, live, Modes
<1>5. /\ WellTargeted' /\ LocksHeld' /\ Phases' /\ Settled' /\ Selection'
      /\ NoLooseEnds' /\ ClearsOnlyItsOwn'
  BY <1>2 DEF WellTargeted, LocksHeld, Phases, Settled, Selection, NoLooseEnds,
              ClearsOnlyItsOwn, born, Active
<1> QED
  BY <1>1, <1>3, <1>4, <1>5

LEMMA BeginInv ==
  ASSUME IInv, NEW s \in Sessions, NEW t \in Records, NEW m \in Modes, BeginDelete(s, t, m)
  PROVE  IInv'
<1> USE SchemaAssumption DEF IInv
<1>1. TypeOK'
  BY TypeNext DEF Next, DeleteStep
<1>2. UNCHANGED <<status, val, own, late, raced, moved, live>> /\ t \in live
  BY DEF BeginDelete, data, history, live
<1>3. /\ \A q \in Sessions \ {s} : tx'[q] = tx[q]
      /\ tx'[s].mode = m /\ tx'[s].target = t
      /\ tx'[s].todo = IF m = "keep" THEN {} ELSE ReverseReferences(t)
      /\ tx'[s].field = None /\ tx'[s].work = {} /\ tx'[s].killed = {} /\ tx'[s].gone = {}
      /\ tx'[s].cleared = {} /\ tx'[s].dropped = {} /\ tx'[s].removed = FALSE
      /\ tx'[s].emptied = None /\ tx'[s].closing = FALSE
  BY BeginEffect
<1>4. LocksHeld'
  BY <1>2, <1>3 DEF LocksHeld
<1>6. Phases'
  BY <1>2, <1>3 DEF Phases, born, Active, live
<1>7. Settled'
  <2> SUFFICES ASSUME NEW q \in Sessions, NEW r \in live, NEW f \in Registered,
                      Active(q)', tx'[q].mode # "keep", f \notin tx'[q].todo,
                      val[r][f] = tx'[q].target
               PROVE  \/ r \in tx'[q].gone
                      \/ r = tx'[q].emptied
                      \/ <<r, f>> \in tx'[q].cleared
                      \/ <<r, f>> \in late
                      \/ f = tx'[q].field /\ r \in tx'[q].work
    BY <1>2 DEF Settled
  <2>1. CASE q # s
    BY <1>3, <2>1 DEF Settled, Active
  <2>2. CASE q = s
    <3>1. FieldTarget[f] = TableOf[t]
      BY <1>2, <1>3, <2>2 DEF WellTargeted, Active, Fields, live
    <3> QED
      BY <1>3, <2>2, <3>1 DEF ReverseReferences
  <2> QED
    BY <2>1, <2>2
<1>8. EmptiedRows'
  BY <1>2, <1>3 DEF EmptiedRows
<1>9. WellTargeted' /\ NoLooseEnds' /\ OwnRowsRemoved'
  BY <1>2 DEF WellTargeted, NoLooseEnds, OwnRowsRemoved
<1>10. Selection' /\ ClearsOnlyItsOwn'
  BY <1>2, <1>3 DEF Selection, ClearsOnlyItsOwn
<1> QED
  BY <1>1, <1>4, <1>6, <1>7, <1>8, <1>9, <1>10

LEMMA ScanInv ==
  ASSUME IInv, NEW s \in Sessions, NEW f \in Registered, ScanColumn(s, f)
  PROVE  IInv'
<1> USE SchemaAssumption DEF IInv
<1>1. TypeOK'
  BY TypeNext DEF Next, DeleteStep
<1>2. UNCHANGED <<status, val, own, late, raced, moved, live>> /\ tx[s].work = {} /\ f \in tx[s].todo
  BY DEF ScanColumn, data, history, live
<1>3. /\ \A q \in Sessions \ {s} : tx'[q] = tx[q]
      /\ tx'[s].mode = tx[s].mode /\ tx'[s].target = tx[s].target
      /\ tx'[s].todo = tx[s].todo \ {f} /\ tx'[s].field = f
      /\ tx'[s].work = {r \in live \ tx[s].gone : Seen(s, r, f) = tx[s].target}
      /\ tx'[s].killed = tx[s].killed /\ tx'[s].gone = tx[s].gone
      /\ tx'[s].cleared = tx[s].cleared /\ tx'[s].dropped = tx[s].dropped
      /\ tx'[s].removed = tx[s].removed
      /\ tx'[s].emptied = tx[s].emptied /\ tx'[s].closing = tx[s].closing
  BY ScanEffect
<1>4. LocksHeld'
  BY <1>2, <1>3 DEF LocksHeld
<1>6. Phases'
  BY <1>2, <1>3 DEF Phases, born, Active, live
<1>7. Settled'
  <2> SUFFICES ASSUME NEW q \in Sessions, NEW r \in live, NEW g \in Registered,
                      Active(q)', tx'[q].mode # "keep", g \notin tx'[q].todo,
                      val[r][g] = tx'[q].target
               PROVE  \/ r \in tx'[q].gone
                      \/ r = tx'[q].emptied
                      \/ <<r, g>> \in tx'[q].cleared
                      \/ <<r, g>> \in late
                      \/ g = tx'[q].field /\ r \in tx'[q].work
    BY <1>2 DEF Settled
  <2>1. CASE q # s
    BY <1>3, <2>1 DEF Settled, Active
  <2>2. CASE q = s /\ g # f
    BY <1>2, <1>3, <2>2 DEF Settled, Active
  <2>3. CASE q = s /\ g = f
    BY <1>3, <2>3 DEF Seen
  <2> QED
    BY <2>1, <2>2, <2>3
<1>8. EmptiedRows'
  BY <1>2, <1>3 DEF EmptiedRows
<1>9. WellTargeted' /\ NoLooseEnds' /\ OwnRowsRemoved'
  BY <1>2 DEF WellTargeted, NoLooseEnds, OwnRowsRemoved
<1>10. Selection' /\ ClearsOnlyItsOwn'
  <2>1. Selection'
    <3> SUFFICES ASSUME NEW r \in Records, r \in tx'[s].work, r \in live
                 PROVE  val[r][f] = tx[s].target
      BY <1>2, <1>3 DEF Selection
    <3>1. Active(s)
      BY <1>2 DEF Phases
    <3> QED
      BY <1>3, <3>1 DEF Seen, Active
  <2>2. ClearsOnlyItsOwn'
    BY <1>2, <1>3 DEF ClearsOnlyItsOwn
  <2> QED
    BY <2>1, <2>2
<1> QED
  BY <1>1, <1>4, <1>6, <1>7, <1>8, <1>9, <1>10

LEMMA ClearInv ==
  ASSUME IInv, NEW s \in Sessions, NEW r \in Records, ClearReference(s, r)
  PROVE  IInv'
<1> USE SchemaAssumption DEF IInv
<1>1. TypeOK'
  BY TypeNext DEF Next, DeleteStep
<1>2. /\ UNCHANGED <<status, val, own, late, raced, moved, live>>
      /\ r \in tx[s].work /\ r \in live /\ r \notin HeldByOther(s)
      /\ tx[s].field \in Fields
  BY DEF ClearReference, data, history, live, Fields, Registered
<1>3. /\ \A q \in Sessions \ {s} : tx'[q] = tx[q]
      /\ tx'[s].mode = tx[s].mode /\ tx'[s].target = tx[s].target
      /\ tx'[s].todo = tx[s].todo /\ tx'[s].field = tx[s].field
      /\ tx'[s].work = tx[s].work \ {r}
      /\ tx'[s].killed = tx[s].killed /\ tx'[s].gone = tx[s].gone
      /\ tx'[s].cleared = tx[s].cleared \cup {<<r, tx[s].field>>}
      /\ tx'[s].dropped = tx[s].dropped /\ tx'[s].removed = tx[s].removed
      /\ tx'[s].emptied = tx[s].emptied /\ tx'[s].closing = tx[s].closing
  BY ClearEffect
<1>4. LocksHeld'
  <2>1. \A q \in Sessions \ {s} : r \notin tx[q].gone /\ r \notin Updated(q)
    BY <1>2 DEF HeldByOther
  <2>2. \A q \in Sessions \ {s}, d \in Records \X Fields : d \in tx[q].cleared => d[1] # r
    <3> SUFFICES ASSUME NEW q \in Sessions \ {s}, NEW y \in Records, NEW g \in Fields,
                        <<y, g>> \in tx[q].cleared
                 PROVE  y # r
      OBVIOUS
    <3> QED
      BY <2>1 DEF Updated
  <2> QED
    BY <1>2, <1>3, <2>1, <2>2 DEF LocksHeld
<1>6. Phases'
  BY <1>2, <1>3 DEF Phases, born, Active
<1>7. Settled'
  BY <1>2, <1>3 DEF Settled, Active
<1>8. EmptiedRows'
  BY <1>2, <1>3 DEF EmptiedRows
<1>9. WellTargeted' /\ NoLooseEnds' /\ OwnRowsRemoved'
  BY <1>2 DEF WellTargeted, NoLooseEnds, OwnRowsRemoved
<1>10. Selection' /\ ClearsOnlyItsOwn'
  <2>1. Selection'
    BY <1>2, <1>3 DEF Selection
  <2>2. ClearsOnlyItsOwn'
    BY <1>2, <1>3 DEF Selection, ClearsOnlyItsOwn
  <2> QED
    BY <2>1, <2>2
<1> QED
  BY <1>1, <1>4, <1>6, <1>7, <1>8, <1>9, <1>10

\* EmptyReferrer and EmptyTarget
LEMMA EmptyInv ==
  ASSUME IInv, NEW s \in Sessions, NEW r \in Records, r \in born, NEW b \in BOOLEAN,
         Empty(s, r, b), ~tx[s].removed,
         b => tx[s].todo = {} /\ tx[s].work = {} /\ r = tx[s].target
  PROVE  IInv'
<1> USE SchemaAssumption DEF IInv
<1>1. TypeOK'
  BY EmptyType
<1>2. UNCHANGED <<status, val, own, late, raced, moved, live>>
  BY EmptyEffect DEF live
<1>3. /\ \A q \in Sessions \ {s} : tx'[q] = tx[q]
      /\ tx'[s].mode = tx[s].mode /\ tx'[s].target = tx[s].target
      /\ tx'[s].todo = tx[s].todo /\ tx'[s].field = tx[s].field
      /\ tx'[s].work = tx[s].work \ {r}
      /\ tx'[s].killed = tx[s].killed \cup {r}
      /\ tx'[s].gone = tx[s].gone /\ tx'[s].cleared = tx[s].cleared
      /\ tx'[s].dropped = tx[s].dropped \cup {o \in own : o[1] = r}
      /\ tx'[s].emptied = r /\ tx'[s].closing = b /\ tx'[s].removed = tx[s].removed
      /\ tx[s].emptied = None
  BY EmptyEffect
<1>4. LocksHeld'
  BY <1>2, <1>3 DEF LocksHeld
<1>5. None \notin live
  BY SchemaAssumption DEF live
<1>6. Phases'
  BY <1>2, <1>3, <1>5 DEF Phases, born, Active
<1>7. Settled'
  <2> SUFFICES ASSUME NEW q \in Sessions, NEW x \in live, NEW g \in Registered,
                      Active(q)', tx'[q].mode # "keep", g \notin tx'[q].todo,
                      val[x][g] = tx'[q].target
               PROVE  \/ x \in tx'[q].gone
                      \/ x = tx'[q].emptied
                      \/ <<x, g>> \in tx'[q].cleared
                      \/ <<x, g>> \in late
                      \/ g = tx'[q].field /\ x \in tx'[q].work
    BY <1>2 DEF Settled
  <2>1. CASE q # s
    BY <1>3, <2>1 DEF Settled, Active
  <2>2. CASE q = s
    BY <1>3, <1>5, <2>2 DEF Settled, Active
  <2> QED
    BY <2>1, <2>2
<1>8. EmptiedRows'
  BY <1>2, <1>3 DEF EmptiedRows
<1>9. Selection' /\ ClearsOnlyItsOwn'
  BY <1>2, <1>3 DEF Selection, ClearsOnlyItsOwn
<1>10. WellTargeted' /\ NoLooseEnds' /\ OwnRowsRemoved'
  BY <1>2 DEF WellTargeted, NoLooseEnds, OwnRowsRemoved
<1> QED
  BY <1>1, <1>4, <1>6, <1>7, <1>8, <1>9, <1>10

LEMMA DeleteRowInv ==
  ASSUME IInv, NEW s \in Sessions, DeleteRow(s)
  PROVE  IInv'
<1> USE SchemaAssumption DEF IInv
<1> DEFINE r == tx[s].emptied
           rows == Under({r}) \ tx[s].gone
<1>1. TypeOK'
  BY DeleteRowType
<1>2. UNCHANGED <<status, val, own, late, raced, moved, live>>
  BY DeleteRowEffect DEF live
<1>3. /\ \A q \in Sessions \ {s} : tx'[q] = tx[q]
      /\ tx'[s].mode = tx[s].mode /\ tx'[s].target = tx[s].target
      /\ tx'[s].todo = tx[s].todo /\ tx'[s].field = tx[s].field
      /\ tx'[s].work = tx[s].work /\ tx'[s].killed = tx[s].killed
      /\ tx'[s].gone = tx[s].gone \cup rows
      /\ tx'[s].cleared = tx[s].cleared /\ tx'[s].dropped = tx[s].dropped
      /\ tx'[s].emptied = None /\ tx'[s].closing = tx[s].closing
      /\ tx'[s].removed = tx[s].closing
      /\ rows \cap HeldByOther(s) = {}
  BY DeleteRowEffect
<1>4. rows \subseteq live /\ (r \in live => r \in tx'[s].gone)
  BY <1>3, UnderLive, UnderHolds
<1> HIDE DEF r, rows
<1>5. LocksHeld'
  <2>1. \A q \in Sessions \ {s} : rows \cap tx[q].gone = {}
    <3>1. \A q \in Sessions \ {s} : tx[q].gone \subseteq HeldByOther(s)
      BY DEF HeldByOther
    <3> QED
      BY <1>3, <3>1
  <2>2. \A q \in Sessions \ {s}, c \in Records \X Fields : c \in tx[q].cleared => c[1] \notin rows
    <3> TAKE q \in Sessions \ {s}, c \in Records \X Fields
    <3> HAVE c \in tx[q].cleared
    <3>1. /\ c[1] \in Records /\ c[2] \in Fields /\ c = <<c[1], c[2]>>
      OBVIOUS
    <3>2. c[1] \in Updated(q)
      BY <3>1 DEF Updated
    <3>3. c[1] \in HeldByOther(s)
      BY <3>2 DEF HeldByOther
    <3> QED
      BY <1>3, <3>3
  <2> QED
    BY <1>2, <1>3, <1>4, <2>1, <2>2 DEF LocksHeld
<1>6. Phases'
  <2>1. \A q \in Sessions : tx'[q].killed \cap live \subseteq tx'[q].gone \cup {tx'[q].emptied}
    BY <1>2, <1>3, <1>4 DEF Phases, r
  <2> QED
    BY <1>2, <1>3, <2>1 DEF Phases, born, Active
<1>7. Settled'
  <2> SUFFICES ASSUME NEW q \in Sessions, NEW x \in live, NEW g \in Registered,
                      Active(q)', tx'[q].mode # "keep", g \notin tx'[q].todo,
                      val[x][g] = tx'[q].target
               PROVE  \/ x \in tx'[q].gone
                      \/ x = tx'[q].emptied
                      \/ <<x, g>> \in tx'[q].cleared
                      \/ <<x, g>> \in late
                      \/ g = tx'[q].field /\ x \in tx'[q].work
    BY <1>2 DEF Settled
  <2>1. CASE q # s
    BY <1>3, <2>1 DEF Settled, Active
  <2>2. CASE q = s
    BY <1>3, <1>4, <2>2 DEF Settled, Active, r
  <2> QED
    BY <2>1, <2>2
<1>8. EmptiedRows'
  BY <1>2, <1>3 DEF EmptiedRows
<1>9. Selection' /\ ClearsOnlyItsOwn'
  BY <1>2, <1>3 DEF Selection, ClearsOnlyItsOwn
<1>10. WellTargeted' /\ NoLooseEnds' /\ OwnRowsRemoved'
  BY <1>2 DEF WellTargeted, NoLooseEnds, OwnRowsRemoved
<1> QED
  BY <1>1, <1>5, <1>6, <1>7, <1>8, <1>9, <1>10

\* StaleReference and Rollback
LEMMA EndInv ==
  ASSUME IInv, NEW s \in Sessions, Ended(s), UNCHANGED <<data, history>>
  PROVE  IInv'
<1> USE DEF IInv
<1>1. TypeOK'
  BY NoTxType DEF TypeOK, Ended, data, history
<1>2. UNCHANGED <<status, val, own, late, raced, moved, live>>
  BY DEF data, history, live
<1>3. /\ \A q \in Sessions \ {s} : tx'[q] = tx[q]
      /\ tx'[s] = NoTx
  BY EndedEffect
<1>4. LocksHeld'
  BY <1>2, <1>3, NoTxFields DEF LocksHeld
<1>5. Phases'
  BY <1>2, <1>3, NoTxFields DEF Phases, born, Active
<1>6. Settled'
  BY <1>2, <1>3, NoTxFields DEF Settled, Active
<1>7. EmptiedRows' /\ Selection' /\ ClearsOnlyItsOwn'
  BY <1>2, <1>3, NoTxFields DEF EmptiedRows, Selection, ClearsOnlyItsOwn
<1>8. WellTargeted' /\ NoLooseEnds' /\ OwnRowsRemoved'
  BY <1>2 DEF WellTargeted, NoLooseEnds, OwnRowsRemoved
<1> QED
  BY <1>1, <1>4, <1>5, <1>6, <1>7, <1>8

LEMMA RestartInv == ASSUME IInv, Restart PROVE IInv'
<1> USE DEF IInv
<1>1. TypeOK'
  BY TypeNext DEF Next
<1>2. /\ UNCHANGED <<status, val, late, moved, live>>
      /\ own' \subseteq own /\ raced' = raced \cap own'
      /\ \A q \in Sessions : tx'[q] = NoTx
  BY DEF Restart, live
<1>3. LocksHeld' /\ Phases'
  BY <1>2, NoTxFields DEF LocksHeld, Phases, Active
<1>4. Settled' /\ EmptiedRows' /\ Selection' /\ ClearsOnlyItsOwn'
  BY <1>2, NoTxFields DEF Settled, EmptiedRows, Selection, ClearsOnlyItsOwn, Active
<1>5. WellTargeted' /\ NoLooseEnds' /\ OwnRowsRemoved'
  BY <1>2 DEF WellTargeted, NoLooseEnds, OwnRowsRemoved
<1> QED
  BY <1>1, <1>3, <1>4, <1>5

LEMMA CommitInv == ASSUME IInv, NEW s \in Sessions, Commit(s) PROVE IInv'
<1> USE SchemaAssumption DEF IInv
<1> DEFINE t == tx[s]
           audited == {<<r, Audit>> : r \in Updated(s) \ t.killed}
<1>1. TypeOK'
  BY TypeNext DEF Next, DeleteStep
<1>2. /\ t \in Tx /\ t.removed /\ t.todo = {} /\ t.work = {} /\ t.target \in t.killed
      /\ t.killed \cap live \subseteq t.gone /\ t.gone \subseteq live
  <2>1. t.killed \cap live \subseteq t.gone \cup {None} /\ None \notin live
    BY DEF Commit, Phases, live
  <2> QED
    BY <2>1 DEF Commit, Phases, LocksHeld, TypeOK
<1>3. /\ Ended(s) /\ UNCHANGED late
      /\ own' = (own \ t.dropped) \cup audited
      /\ raced' = (raced \ t.dropped) \cup {o \in audited : EmptiedByOther(s, o[1])}
      /\ moved' = moved \cup {c \in t.cleared : Selected(c[1], c[2])}
      /\ \A r \in Records, f \in Fields : val'[r][f] = Seen(s, r, f)
      /\ \A r \in Records : status'[r] =
            IF r \in t.gone THEN IF r = t.target THEN t.mode
                                 ELSE IF r \in t.killed THEN "keep" ELSE "fk"
            ELSE status[r]
  BY DEF Commit, Ended
<1>4. /\ \A q \in Sessions \ {s} : tx'[q] = tx[q]
      /\ tx'[s] = NoTx
  BY <1>3, EndedEffect
<1>5. t.mode \in Modes
  BY <1>2 DEF Tx
<1> HIDE DEF t, audited
<1>6. live' = live \ t.gone
  BY <1>3, <1>5 DEF live, Modes
<1>7. \A r \in Records, f \in Fields : val'[r][f] = None \/ val'[r][f] = val[r][f]
  BY <1>3 DEF Seen
<1>8. WellTargeted'
  BY <1>6, <1>7 DEF WellTargeted, live
<1>9. LocksHeld'
  <2>1. \A q \in Sessions \ {s} : tx[q].gone \subseteq live'
    BY <1>6 DEF LocksHeld, t
  <2>2. \A q \in Sessions \ {s}, c \in Records \X Fields : c \in tx[q].cleared => c[1] \in live'
    BY <1>6 DEF LocksHeld, t
  <2>3. \A q \in Sessions : tx'[q].gone \subseteq tx[q].gone /\ tx'[q].cleared \subseteq tx[q].cleared
    BY <1>4, NoTxFields
  <2> QED
    BY <1>4, <2>1, <2>2, <2>3, NoTxFields DEF LocksHeld
<1>11. born' = born
  BY <1>2, <1>3, <1>5 DEF born, Modes, live
<1>12. Phases'
  <2>1. \A q \in Sessions \ {s} : tx[q].killed \cap live' \subseteq tx[q].gone \cup {tx[q].emptied}
    BY <1>6 DEF Phases
  <2> QED
    BY <1>4, <1>11, <2>1, NoTxFields DEF Phases, Active
<1>13. Settled'
  <2> SUFFICES ASSUME NEW q \in Sessions \ {s}, NEW r \in live', NEW f \in Registered,
                      Active(q), tx[q].mode # "keep", f \notin tx[q].todo,
                      val'[r][f] = tx[q].target
               PROVE  \/ r \in tx[q].gone
                      \/ r = tx[q].emptied
                      \/ <<r, f>> \in tx[q].cleared
                      \/ <<r, f>> \in late
                      \/ f = tx[q].field /\ r \in tx[q].work
    BY <1>3, <1>4, NoTxFields DEF Settled, Active
  <2>1. val[r][f] = tx[q].target /\ r \in live
    BY <1>6, <1>7 DEF Active, live, Fields
  <2> QED
    BY <2>1 DEF Settled
<1>14. \A o \in own' : o \in own \/ o[1] \in Updated(s) \ t.killed
  BY <1>3 DEF audited
<1>15. \A r \in Updated(s) : r \in live /\ \A q \in Sessions \ {s} : r \notin tx[q].gone
  <2> SUFFICES ASSUME NEW r \in Updated(s)
               PROVE  r \in live /\ \A q \in Sessions \ {s} : r \notin tx[q].gone
    OBVIOUS
  <2>1. PICK f \in Fields : <<r, f>> \in tx[s].cleared /\ r \in Records
    BY DEF Updated
  <2> DEFINE c == <<r, f>>
  <2>2. c \in Records \X Fields /\ c \in tx[s].cleared /\ c[1] = r
    BY <2>1
  <2> HIDE DEF c
  <2> QED
    BY <2>2 DEF LocksHeld
<1>16. EmptiedRows'
  <2> SUFFICES ASSUME NEW q \in Sessions \ {s}, NEW o \in own', o[1] \in tx[q].killed
               PROVE  o \in tx[q].dropped \/ o \in raced'
    BY <1>4, NoTxFields DEF EmptiedRows
  <2>1. CASE o \in audited
    BY <1>3, <2>1 DEF EmptiedByOther
  <2>2. CASE o \in own /\ o \notin t.dropped
    BY <1>3, <2>2 DEF EmptiedRows
  <2> QED
    BY <1>3, <2>1, <2>2
<1>17. Selection' /\ ClearsOnlyItsOwn'
  <2>1. Selection'
    <3> SUFFICES ASSUME NEW q \in Sessions \ {s}, NEW r \in Records, r \in tx[q].work, r \in live',
                        tx[q].field \in Registered
                 PROVE  \/ val'[r][tx[q].field] = tx[q].target
                        \/ <<r, tx[q].field>> \in moved'
      BY <1>4, NoTxFields DEF Selection
    <3>1. tx[q].field \in Fields /\ r \in live
      BY <1>6 DEF Fields
    <3>2. CASE <<r, tx[q].field>> \in t.cleared
      BY <1>3, <3>2 DEF Selected
    <3>3. CASE <<r, tx[q].field>> \notin t.cleared
      BY <1>3, <3>1, <3>3 DEF Selection, Seen, t
    <3> QED
      BY <3>2, <3>3
  <2>2. ClearsOnlyItsOwn'
    <3> SUFFICES ASSUME NEW q \in Sessions \ {s}, NEW r \in Records, NEW f \in Fields,
                        <<r, f>> \in tx[q].cleared
                 PROVE  val'[r][f] = tx[q].target \/ <<r, f>> \in moved'
      BY <1>4, NoTxFields DEF ClearsOnlyItsOwn
    <3> DEFINE c == <<r, f>>
    <3>1. c \notin tx[s].cleared
      <4>1. c \in Records \X Fields /\ c \in tx[q].cleared
        OBVIOUS
      <4> HIDE DEF c
      <4> QED
        BY <4>1 DEF LocksHeld
    <3>2. val'[r][f] = val[r][f]
      BY <1>3, <3>1 DEF Seen
    <3> QED
      BY <1>3, <3>2 DEF ClearsOnlyItsOwn
  <2> QED
    BY <2>1, <2>2
<1>18. NoLooseEnds'
  <2> SUFFICES ASSUME NEW r \in live', NEW f \in Registered, val'[r][f] # None,
                      status'[val'[r][f]] \in {"clear", "cascade"}
               PROVE  <<r, f>> \in late
    BY <1>3 DEF NoLooseEnds
  <2>1. /\ val'[r][f] = val[r][f] /\ r \in live /\ r \notin t.gone /\ r \in Records
        /\ f \in Fields /\ val[r][f] \in Records /\ <<r, f>> \notin t.cleared
    BY <1>3, <1>6, <1>7 DEF Fields, live, TypeOK, Seen, t
  <2>2. CASE val[r][f] \in t.gone
    <3>1. val[r][f] = t.target /\ t.mode # "keep"
      BY <1>3, <2>1, <2>2
    <3>2. Active(s)
      BY <2>1, <3>1 DEF Active, t
    <3>3. r # tx[s].emptied
      BY <1>2, <2>1 DEF Phases, t
    <3> QED
      BY <1>2, <2>1, <3>1, <3>2, <3>3 DEF Settled, t
  <2>3. CASE val[r][f] \notin t.gone
    BY <1>3, <2>1, <2>3 DEF NoLooseEnds
  <2> QED
    BY <2>2, <2>3
<1>19. OwnRowsRemoved'
  <2> SUFFICES ASSUME NEW o \in own', status'[o[1]] \in Modes
               PROVE  o \in raced'
    BY DEF OwnRowsRemoved
  <2>0. o[1] \in Records
    BY <1>1 DEF TypeOK
  <2>1. CASE o[1] \in t.gone
    <3>1. o[1] \in t.killed
      BY <1>2, <1>3, <2>0, <2>1 DEF Modes
    <3>2. o \in own /\ o \notin t.dropped
      BY <1>3, <3>1 DEF audited
    <3> QED
      BY <1>3, <3>1, <3>2 DEF EmptiedRows, t
  <2>2. CASE o[1] \notin t.gone
    <3>1. status[o[1]] \in Modes
      BY <1>3, <2>0, <2>2
    <3>2. o[1] \notin live
      BY <3>1 DEF live, Modes
    <3>3. o \in own /\ o \notin t.dropped
      BY <1>3, <1>14, <1>15, <3>2 DEF audited
    <3> QED
      BY <1>3, <3>1, <3>3 DEF OwnRowsRemoved
  <2> QED
    BY <2>1, <2>2
<1> QED
  BY <1>1, <1>8, <1>9, <1>12, <1>13, <1>16, <1>17, <1>18, <1>19

LEMMA InvNext == IInv /\ [Next]_vars => IInv'
<1> SUFFICES ASSUME IInv, [Next]_vars PROVE IInv'
  OBVIOUS
<1>1. ASSUME NEW r \in Records, NEW row \in [Fields -> Records \cup {None}], Create(r, row)
      PROVE  IInv'
  BY <1>1, CreateInv
<1>2. ASSUME NEW r \in Records, NEW f \in Fields, NEW x \in Records \cup {None},
             SetReference(r, f, x)
      PROVE  IInv'
  BY <1>2, SetReferenceInv
<1>4. ASSUME NEW r \in Records, NEW k \in Comments \cup Uploads, AddRow(r, k)
      PROVE  IInv'
  BY <1>4, AddRowInv
<1>6. ASSUME NEW s \in Sessions, DeleteStep(s)
      PROVE  IInv'
  <2>1. ASSUME NEW t \in Records, NEW m \in Modes, BeginDelete(s, t, m) PROVE IInv'
    BY <2>1, BeginInv
  <2>2. ASSUME NEW f \in Registered, ScanColumn(s, f) PROVE IInv'
    BY <2>2, ScanInv
  <2>3. ASSUME NEW r \in Records, ClearReference(s, r) PROVE IInv'
    BY <2>3, ClearInv
  <2>4. ASSUME NEW r \in Records, StaleReference(s, r) PROVE IInv'
    BY <2>4, EndInv DEF StaleReference, Ended
  <2>5. ASSUME NEW r \in Records, EmptyReferrer(s, r) PROVE IInv'
    <3>1. r \in born /\ ~tx[s].removed
      BY <2>5 DEF EmptyReferrer, IInv, Phases
    <3> QED
      BY <2>5, <3>1, EmptyInv DEF EmptyReferrer
  <2>6. CASE EmptyTarget(s)
    <3>1. tx[s].target \in born /\ tx[s].target \in Records
      BY <2>6 DEF EmptyTarget, IInv, Phases, born
    <3> QED
      BY <2>6, <3>1, EmptyInv DEF EmptyTarget
  <2>9. CASE DeleteRow(s)
    BY <2>9, DeleteRowInv
  <2>7. CASE Commit(s)
    BY <2>7, CommitInv
  <2>8. CASE Rollback(s)
    BY <2>8, EndInv DEF Rollback, Ended
  <2> QED
    BY <1>6, <2>1, <2>2, <2>3, <2>4, <2>5, <2>6, <2>7, <2>8, <2>9 DEF DeleteStep
<1>7. CASE Restart
  BY <1>7, RestartInv
<1>8. CASE UNCHANGED vars
  <2>1. UNCHANGED <<status, val, own, tx, late, raced, moved>>
    BY <1>8 DEF vars
  <2> QED
    BY <2>1 DEF IInv, TypeOK, WellTargeted, LocksHeld, Phases, Settled, Selection, EmptiedRows,
                NoLooseEnds, OwnRowsRemoved, ClearsOnlyItsOwn, live, born, Active
<1> QED
  BY <1>1, <1>2, <1>4, <1>6, <1>7, <1>8 DEF Next

LEMMA Invariance == Spec => []IInv
BY InvInit, InvNext, PTL DEF Spec

-----------------------------------------------------------------------------
(***************************************************************************)
(* The safety properties.                                                  *)
(***************************************************************************)

\* After a delete with a ref_mode commits, the only registered references
\* that name its target were written behind the scan of their column or when
\* the target was gone, whatever ran beside the delete.
THEOREM ReferencesSettled == Spec => []NoLooseEnds
BY Invariance, PTL DEF IInv

\* delete_record leaves behind no row of the record it deleted, except one
\* another request added after the record was emptied.
THEOREM RecordsEmptied == Spec => []OwnRowsRemoved
BY Invariance, PTL DEF IInv

\* A delete takes from other records only references to its own target, or
\* ones another request redirected between its SELECT and its UPDATE.
THEOREM ClearsOwnReferences == Spec => []ClearsOnlyItsOwn
BY Invariance, PTL DEF IInv
=============================================================================
