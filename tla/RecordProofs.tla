----------------------------- MODULE RecordProofs -----------------------------
(***************************************************************************)
(* Proofs about what is done with a record: who may see and change it      *)
(* (AccessControl), the list it is deleted from (RecordList), and updates  *)
(* of it that overlap (RecordUpdate).  The three share no state; each      *)
(* theorem is about the specification it names.                            *)
(***************************************************************************)
EXTENDS AccessControl, RecordList, RecordUpdate, FiniteSetTheorems, TLAPS

-----------------------------------------------------------------------------
(***************************************************************************)
(* AccessControl: the decision on a record and the filter of lists, for    *)
(* any users, groups, roles and grants.                                    *)
(***************************************************************************)

LEMMA GrantsFinite == AccessSpec => [](grants \subseteq Grant /\ IsFiniteSet(grants))
<1>1. AccessInit => grants \subseteq Grant /\ IsFiniteSet(grants)
  BY FS_EmptySet DEF AccessInit
<1>2. grants \subseteq Grant /\ IsFiniteSet(grants) /\ [AccessNext]_accessVars
        => (grants \subseteq Grant /\ IsFiniteSet(grants))'
  <2> SUFFICES ASSUME grants \subseteq Grant, IsFiniteSet(grants), [AccessNext]_accessVars
               PROVE  (grants \subseteq Grant /\ IsFiniteSet(grants))'
    OBVIOUS
  <2>1. \/ UNCHANGED grants
        \/ \E a \in Grant : grants' = grants \cup {a} \/ grants' = grants \ {a}
        \/ \E a \in grants, b \in Grant : grants' = (grants \ {a}) \cup {b}
    BY DEF AccessNext, Edit, CreateGrant, UpdateGrant, DeleteGrant, Join, Leave, Move, Tick, accessVars
  <2>2. ASSUME NEW a, NEW b PROVE IsFiniteSet((grants \ {a}) \cup {b})
    <3>1. IsFiniteSet(grants \ {a})
      BY FS_RemoveElement
    <3> QED
      BY <3>1, FS_AddElement
  <2>3. \A a : IsFiniteSet(grants \cup {a}) /\ IsFiniteSet(grants \ {a})
    BY FS_AddElement, FS_RemoveElement
  <2>4. grants' \subseteq Grant
    BY <2>1
  <2>5. CASE UNCHANGED grants
    BY <2>5
  <2>6. ASSUME NEW a \in Grant, grants' = grants \cup {a} \/ grants' = grants \ {a} PROVE IsFiniteSet(grants')
    BY <2>3, <2>6
  <2>7. ASSUME NEW a \in grants, NEW b \in Grant, grants' = (grants \ {a}) \cup {b} PROVE IsFiniteSet(grants')
    BY <2>2, <2>7
  <2> QED
    BY <2>1, <2>4, <2>5, <2>6, <2>7
<1> QED
  BY <1>1, <1>2, PTL DEF AccessSpec

\* Memberships, the record, its grants and the clock are what the columns
\* hold, and there are never more grants than the bound.
THEOREM AccessTypeCorrect == AccessSpec => []AccessTypeOK
<1> USE AccessAssumption
<1>1. AccessInit => AccessTypeOK
  BY FS_EmptySet DEF AccessInit, AccessTypeOK, Record
<1>2. AccessTypeOK /\ IsFiniteSet(grants) /\ [AccessNext]_accessVars => AccessTypeOK'
  <2> SUFFICES ASSUME AccessTypeOK, IsFiniteSet(grants), [AccessNext]_accessVars PROVE AccessTypeOK'
    OBVIOUS
  <2>1. CASE Edit
    BY <2>1 DEF Edit, AccessTypeOK
  <2>2. CASE CreateGrant
    BY <2>2 DEF CreateGrant, AccessTypeOK
  <2>3. CASE DeleteGrant
    <3>1. PICK a \in grants : grants' = grants \ {a}
      BY <2>3 DEF DeleteGrant
    <3>2. Cardinality(grants') = Cardinality(grants) - 1 /\ Cardinality(grants) \in Nat
      BY <3>1, FS_RemoveElement, FS_CardinalityType
    <3> QED
      BY <2>3, <3>1, <3>2 DEF DeleteGrant, AccessTypeOK
  <2>4. CASE UpdateGrant
    <3>1. PICK a \in grants, b \in Grant : grants' = (grants \ {a}) \cup {b}
      BY <2>4 DEF UpdateGrant
    <3> DEFINE kept == grants \ {a}
    <3>2. /\ IsFiniteSet(kept) /\ Cardinality(kept) = Cardinality(grants) - 1
          /\ Cardinality(grants) \in Nat /\ Cardinality(grants) <= MaxGrants
      BY FS_RemoveElement, FS_CardinalityType DEF AccessTypeOK
    <3> HIDE DEF kept
    <3>3. Cardinality(kept \cup {b}) \in {Cardinality(kept), Cardinality(kept) + 1}
      BY <3>2, FS_AddElement
    <3>4. Cardinality(kept \cup {b}) <= MaxGrants
      BY <3>2, <3>3, AccessAssumption
    <3> QED
      BY <2>4, <3>1, <3>4 DEF UpdateGrant, AccessTypeOK, kept
  <2>5. ASSUME NEW v \in Users, NEW g \in Groups, Join(v, g) \/ Leave(v, g) \/ Move(v, g)
        PROVE  AccessTypeOK'
    BY <2>5 DEF Join, Leave, Move, AccessTypeOK
  <2>6. CASE Tick
    BY <2>6 DEF Tick, AccessTypeOK
  <2>7. CASE UNCHANGED accessVars
    BY <2>7 DEF accessVars, AccessTypeOK
  <2> QED
    BY <2>1, <2>2, <2>3, <2>4, <2>5, <2>6, <2>7 DEF AccessNext
<1> QED
  BY <1>1, <1>2, GrantsFinite, PTL DEF AccessSpec

\* a grant that counts gives the right to read, if its level is one of the two
LEMMA LentReads ==
  ASSUME grants \subseteq Grant, NEW u, NEW a \in grants, Active(a), IsTo(a, u), a.level # "other"
  PROVE  "comment" \in Levels(u) \/ "view" \in Levels(u)
<1>1. a.level \in Levels(u)
  BY DEF Levels
<1>2. a.level \in {"view", "comment"}
  BY DEF Grant
<1> QED
  BY <1>1, <1>2

LEMMA LevelsLent ==
  ASSUME NEW u, NEW level \in Levels(u)
  PROVE  \E a \in grants : Active(a) /\ IsTo(a, u)
BY DEF Levels

\* The lists and the page of the record say the same of every user, but for
\* who has only a grant of an unknown level, is assigned to it only, or may
\* write every record and not read them.
THEOREM ListMatchesDecisionAlways == AccessSpec => []ListMatchesDecision
<1>1. ASSUME grants \subseteq Grant PROVE ListMatchesDecision
  <2> SUFFICES ASSUME NEW u \in Users
               PROVE  /\ Listed(u) /\ ~ Allowed(u, "read") => \E a \in grants : Active(a) /\ IsTo(a, u) /\ a.level = "other"
                      /\ Allowed(u, "read") /\ ~ Listed(u) =>
                           record.assigned_to = u \/ "records.*.write" \in PermissionsOfUser(u)
    BY DEF ListMatchesDecision
  <2>1. ASSUME Listed(u), ~ \E a \in grants : Active(a) /\ IsTo(a, u) /\ a.level = "other" PROVE "read" \in Rights(u)
    <3>1. CASE \E a \in grants : Active(a) /\ IsTo(a, u)
      BY <1>1, <2>1, <3>1, LentReads DEF Rights, Everything
    <3> QED
      BY <2>1, <3>1 DEF Listed, Rights, Everything
  <2>2. ASSUME "read" \in Rights(u), ~ Listed(u)
        PROVE  record.assigned_to = u \/ "records.*.write" \in PermissionsOfUser(u)
    <3>1. "comment" \notin Levels(u) /\ "view" \notin Levels(u)
      BY <2>2, LevelsLent DEF Listed
    <3> QED
      BY <2>2, <3>1 DEF Listed, Rights
  <2> QED
    BY <2>1, <2>2 DEF Allowed
<1> QED
  BY <1>1, GrantsFinite, PTL

-----------------------------------------------------------------------------
(***************************************************************************)
(* RecordList: a list and its bulk delete, for every set of tables and     *)
(* rows, links between them, and page size.                                *)
(***************************************************************************)

\* the types of what the proofs follow
Typed ==
  /\ stored \subseteq Rows /\ refs \subseteq Links /\ table \in Tables
  /\ selected \subseteq Rows
  /\ preview \in Previews \cup {Nothing} /\ asking \in {"off", "asked", "failed"}
  /\ bulk \in Deletes \cup {Nothing}

\* a dialog that neither waits for its preview nor lacks it has it
DialogHasPreview == dialog /\ asking = "off" => HasPreview

IInv == Typed /\ DialogHasPreview /\ DialogHasRows /\ ConfirmedAsShown

\* what names a row is there itself
Named == \A l \in refs : l[1] \in stored

\* the rows are among those there are, on the pages that are shown as well
RowsShown == data # Nothing => data.rows \subseteq Rows

LEMMA InitIInv == ListInit => IInv /\ RowsShown
BY DEF ListInit, IInv, Typed, DialogHasPreview, DialogHasRows, ConfirmedAsShown, RowsShown

\* what the dialog is about stays
SameDialog == UNCHANGED <<table, selected, dialog, preview, asking>>

LEMMA ListStep ==
  ASSUME IInv, RowsShown, PreviousPage \/ NextPage \/ FirstPage \/ StepBack \/ Arrive \/ FetchFails
  PROVE  IInv' /\ RowsShown'
<1>1. SameDialog /\ UNCHANGED <<stored, refs, bulk>>
  BY DEF PreviousPage, NextPage, FirstPage, StepBack, Arrive, FetchFails, Turn, SameDialog
<1>2. IInv'
  BY <1>1 DEF SameDialog, IInv, Typed, DialogHasPreview, HasPreview, DialogHasRows, ConfirmedAsShown
<1>3. RowsShown'
  <2>1. CASE data' = data
    BY <2>1 DEF RowsShown
  <2>2. CASE Arrive
    BY <2>2 DEF Arrive, PageOf, InTable, IInv, Typed, RowsShown
  <2>3. CASE data' = [rows |-> {}, total |-> 0]
    BY <2>3 DEF RowsShown
  <2> QED
    BY <2>1, <2>2, <2>3 DEF PreviousPage, NextPage, FirstPage, StepBack, FetchFails, Turn
<1> QED
  BY <1>2, <1>3

LEMMA SelectStep ==
  ASSUME IInv, RowsShown, ToggleAll \/ \E r \in Rows : Toggle(r)
  PROVE  IInv' /\ RowsShown'
<1>1. PICK rows \in SUBSET Rows : Select(rows)
  <2>1. CASE ToggleAll
    <3>1. PICK rows \in SUBSET data.rows \ {{}} : Select(IF rows \subseteq selected THEN {} ELSE rows)
      BY <2>1 DEF ToggleAll
    <3>2. (IF rows \subseteq selected THEN {} ELSE rows) \in SUBSET Rows
      BY <2>1, <3>1 DEF ToggleAll, RowsShown
    <3> QED
      BY <3>1, <3>2
  <2>2. ASSUME NEW r \in Rows, Toggle(r) PROVE \E rows \in SUBSET Rows : Select(rows)
    <3>1. (IF r \in selected THEN selected \ {r} ELSE selected \cup {r}) \in SUBSET Rows
      BY DEF IInv, Typed
    <3> QED
      BY <2>2, <3>1 DEF Toggle
  <2> QED
    BY <2>1, <2>2
<1> QED
  BY <1>1 DEF Select, IInv, Typed, DialogHasPreview, DialogHasRows, ConfirmedAsShown, RowsShown

LEMMA DialogStep ==
  ASSUME IInv, RowsShown, Delete \/ Cancel \/ PreviewFails \/ Deleted \/ Reconnect \/ \E t \in Tables : GoTo(t)
  PROVE  IInv' /\ RowsShown'
<1>1. UNCHANGED <<stored, refs, preview, data>> /\ bulk' \in {bulk, Nothing} /\ table' \in Tables
  BY DEF Delete, Cancel, PreviewFails, Deleted, Reconnect, GoTo, IInv, Typed
<1>2. /\ selected' \subseteq Rows /\ asking' \in {"off", "asked", "failed"}
      /\ dialog' => selected' # {}
  BY DEF Delete, Cancel, PreviewFails, Deleted, Reconnect, GoTo, IInv, Typed, DialogHasRows
<1>3. DialogHasPreview'
  BY DEF Delete, Cancel, PreviewFails, Deleted, Reconnect, GoTo, IInv, DialogHasPreview, HasPreview
<1> QED
  BY <1>1, <1>2, <1>3 DEF IInv, Typed, DialogHasRows, ConfirmedAsShown, RowsShown

LEMMA PreviewStep ==
  ASSUME IInv, RowsShown, PreviewArrives
  PROVE  IInv' /\ RowsShown'
<1> DEFINE p == [of |-> table, ids |-> selected, refs |-> LinksTo(selected)]
<1>1. preview' = p /\ asking' = "off" /\ UNCHANGED <<stored, refs, table, data, selected, dialog, bulk>>
  BY DEF PreviewArrives
<1>2. p \in Previews /\ p.of = table /\ p.ids = selected
  BY DEF LinksTo, Previews, IInv, Typed
<1>3. p # Nothing
  BY <1>2, NothingAssumption
<1> HIDE DEF p
<1>4. HasPreview'
  BY <1>1, <1>2, <1>3 DEF HasPreview
<1> QED
  BY <1>1, <1>2, <1>4 DEF IInv, Typed, DialogHasPreview, DialogHasRows, ConfirmedAsShown, RowsShown

\* what is sent is what the dialog shows
LEMMA ConfirmStep ==
  ASSUME IInv, RowsShown, NEW mode \in {"none", "clear", "cascade"}, Confirm(mode)
  PROVE  IInv' /\ RowsShown'
<1> DEFINE b == [of |-> table, ids |-> selected, todo |-> selected, mode |-> mode,
                 shown |-> IF HasPreview THEN preview ELSE Nothing, blind |-> asking = "failed" /\ ~ HasPreview]
<1>1. bulk' = b /\ UNCHANGED <<stored, refs, table, page, data, fetch, selected, dialog, preview, asking>>
  BY DEF Confirm
<1>2. dialog /\ mode \in Modes /\ ~ (asking = "asked" /\ ~ HasPreview)
  BY DEF Confirm, Busy
<1>3. /\ b.of = table /\ b.ids = selected /\ b.todo = selected /\ b.mode = mode
      /\ b.shown = (IF HasPreview THEN preview ELSE Nothing) /\ b.blind = (asking = "failed" /\ ~ HasPreview)
  OBVIOUS
<1>5. b \in Deletes
  <2>1. (IF HasPreview THEN preview ELSE Nothing) \in Previews \cup {Nothing} /\ (asking = "failed" /\ ~ HasPreview) \in BOOLEAN /\ table \in Tables
    BY DEF IInv, Typed
  <2> QED
    BY <2>1 DEF Deletes, IInv, Typed
<1> HIDE DEF b
<1>4. IF b.shown = Nothing THEN b.mode = "none" /\ b.blind
      ELSE b.shown.of = b.of /\ b.shown.ids = b.ids /\ (b.mode # "none" <=> b.shown.refs # {})
  <2>1. CASE HasPreview
    BY <1>2, <1>3, <2>1 DEF HasPreview, Modes
  <2>2. CASE ~ HasPreview
    BY <1>2, <1>3, <2>2 DEF Modes, IInv, Typed, DialogHasPreview
  <2> QED
    BY <2>1, <2>2
<1> QED
  BY <1>1, <1>5, <1>4 DEF IInv, Typed, DialogHasPreview, HasPreview, DialogHasRows, ConfirmedAsShown, RowsShown

LEMMA RemoveFact ==
  ASSUME IInv, NEW x \in Rows, NEW mode \in {"none", "clear", "cascade"}, Remove(x, mode)
  PROVE  /\ stored' \subseteq Rows /\ refs' \subseteq refs
         /\ Named => Named'
         /\ Named /\ mode # "none" => \A l \in refs' : l[2] # x
<1> DEFINE S == {x} \cup Referrers(x, mode)
           gone == Owned(S) \cap stored
<1>1. /\ stored' = stored \ gone
      /\ refs' = {l \in refs : l[1] \notin gone /\ (mode = "clear" => l[2] # x)}
  BY DEF Remove, GoesWith
<1>2. \A l \in refs : l[1] \in Rows /\ l[2] \in Rows
  BY RowsAssumption DEF IInv, Typed
<1>3. S \subseteq Rows /\ S \subseteq Owned(S)
  <2>1. S \subseteq Rows
    BY <1>2 DEF Referrers, LinksTo
  <2> HIDE DEF S
  <2> QED
    BY <2>1 DEF Owned
<1>4. ASSUME Named, mode = "cascade", NEW l \in refs, l[2] = x PROVE l[1] \in gone
  <2>1. CASE KindOf[l] = "owned"
    <3>1. x \in S
      OBVIOUS
    <3>2. \A T \in SUBSET Rows : S \subseteq T /\ Closed(T) => l[1] \in T
      BY <1>4, <2>1, <3>1 DEF Closed
    <3> HIDE DEF S
    <3> QED
      BY <1>2, <1>4, <3>2 DEF Owned, Named
  <2>2. CASE KindOf[l] # "owned"
    <3>1. l[1] \in S
      BY <1>4, <2>2 DEF Referrers, LinksTo
    <3> QED
      BY <1>3, <1>4, <3>1 DEF Named
  <2> QED
    BY <2>1, <2>2
<1> HIDE DEF gone
<1> QED
  BY <1>1, <1>4 DEF Named, IInv, Typed

LEMMA RowStep ==
  ASSUME IInv, RowsShown, NEW x \in Rows, DeleteRow(x) \/ RowFails(x)
  PROVE  IInv' /\ RowsShown'
<1>1. bulk \in Deletes
  BY DEF DeleteRow, RowFails, IInv, Typed
<1>2. stored' \subseteq Rows /\ refs' \subseteq Links
  <2>1. bulk.mode \in {"none", "clear", "cascade"}
    BY <1>1 DEF Deletes
  <2> QED
    BY <2>1, RemoveFact DEF DeleteRow, RowFails, IInv, Typed
<1>3. bulk' = [bulk EXCEPT !.todo = @ \ {x}] /\ UNCHANGED <<table, page, data, fetch, selected, dialog, preview, asking>>
  BY DEF DeleteRow, RowFails
<1>4. /\ bulk' \in Deletes /\ bulk'.of = bulk.of /\ bulk'.ids = bulk.ids /\ bulk'.mode = bulk.mode
      /\ bulk'.shown = bulk.shown /\ bulk'.blind = bulk.blind
  BY <1>1, <1>3 DEF Deletes
<1> QED
  BY <1>1, <1>2, <1>3, <1>4, NothingAssumption
  DEF IInv, Typed, DialogHasPreview, HasPreview, DialogHasRows, ConfirmedAsShown, RowsShown

LEMMA OthersStep ==
  ASSUME IInv, RowsShown,
         (\E x \in Rows : OtherCreates(x) \/ OtherDeletes(x)) \/ \E l \in Links : OtherLinks(l) \/ OtherUnlinks(l)
  PROVE  IInv' /\ RowsShown'
<1>1. stored' \subseteq Rows /\ refs' \subseteq Links /\ Others
  BY RemoveFact DEF OtherCreates, OtherDeletes, OtherLinks, OtherUnlinks, IInv, Typed
<1> QED
  BY <1>1 DEF Others, IInv, Typed, DialogHasPreview, HasPreview, DialogHasRows, ConfirmedAsShown, RowsShown

LEMMA NextIInv == IInv /\ RowsShown /\ [ListNext]_listVars => IInv' /\ RowsShown'
<1> SUFFICES ASSUME IInv, RowsShown, [ListNext]_listVars PROVE IInv' /\ RowsShown'
  OBVIOUS
<1>1. CASE UNCHANGED listVars
  BY <1>1 DEF listVars, IInv, Typed, DialogHasPreview, HasPreview, DialogHasRows, ConfirmedAsShown, RowsShown
<1> QED
  BY <1>1, ListStep, SelectStep, DialogStep, PreviewStep, ConfirmStep, RowStep, OthersStep DEF ListNext

\* the rows named are touched by a delete, of this user or another, and others
LEMMA NamedStep ==
  ASSUME IInv, Named, [ListNext]_listVars
  PROVE  Named'
<1>1. CASE UNCHANGED <<stored, refs>>
  BY <1>1 DEF Named
<1>2. ASSUME NEW x \in Rows, DeleteRow(x) PROVE Named'
  <2>1. bulk.mode \in {"none", "clear", "cascade"} /\ Remove(x, bulk.mode)
    BY <1>2 DEF DeleteRow, IInv, Typed, Deletes
  <2> QED
    BY <2>1, RemoveFact
<1>3. ASSUME NEW x \in Rows, OtherCreates(x) \/ OtherDeletes(x) PROVE Named'
  BY <1>3, RemoveFact DEF OtherCreates, OtherDeletes, Named
<1>4. ASSUME NEW l \in Links, OtherLinks(l) \/ OtherUnlinks(l) PROVE Named'
  BY <1>4 DEF OtherLinks, OtherUnlinks, Named
<1> QED
  BY <1>1, <1>2, <1>3, <1>4 DEF ListNext, GoTo, Turn, PreviousPage, NextPage, FirstPage, StepBack, Arrive, FetchFails, Reconnect,
    Select, Toggle, ToggleAll, Delete, Cancel, PreviewArrives, PreviewFails, Confirm, RowFails, Deleted, listVars

LEMMA SpecIInv == ListSpec => [](IInv /\ RowsShown /\ Named)
<1>1. ListInit => Named
  BY DEF ListInit, Named
<1> QED
  BY <1>1, InitIInv, NextIInv, NamedStep, PTL DEF ListSpec

-----------------------------------------------------------------------------
\* What a user confirms was on the screen when he did: the rows, the table and
\* whether anything refers to them (RecordListPage, whose preview is keyed by
\* the table and the selection, and whose dialog waits for it).
THEOREM ConfirmedAsShownAlways == ListSpec => []ConfirmedAsShown
<1>1. IInv => ConfirmedAsShown
  BY DEF IInv
<1> QED
  BY <1>1, SpecIInv, PTL

\* The dialog is never about nothing, whatever is deleted or visited meanwhile.
THEOREM DialogHasRowsAlways == ListSpec => []DialogHasRows
<1>1. IInv => DialogHasRows
  BY DEF IInv
<1> QED
  BY <1>1, SpecIInv, PTL

\* the delete of one row: what names it is gone, or was not in the preview
LEMMA NoReferenceStep ==
  ASSUME IInv, Named, [ListNext]_listVars, bulk # Nothing, bulk' # Nothing,
         NEW l \in refs \cap refs', l[2] \in (bulk.todo \ bulk'.todo) \cap (stored \ stored')
  PROVE  bulk.mode = "none" /\ (bulk.shown = Nothing \/ l \notin bulk.shown.refs)
<1>1. ~ UNCHANGED stored /\ ~ UNCHANGED bulk
  OBVIOUS
<1>2. PICK x \in Rows : DeleteRow(x)
  BY <1>1 DEF ListNext, GoTo, Turn, PreviousPage, NextPage, FirstPage, StepBack, Arrive, FetchFails, Reconnect,
    Select, Toggle, ToggleAll, Delete, Cancel, PreviewArrives, PreviewFails, Confirm, RowFails, Deleted,
    OtherCreates, OtherDeletes, OtherLinks, OtherUnlinks, Others, listVars
<1>3. bulk \in Deletes /\ Remove(x, bulk.mode) /\ bulk' = [bulk EXCEPT !.todo = @ \ {x}]
  BY <1>2 DEF DeleteRow, IInv, Typed
<1>4. bulk.mode \in {"none", "clear", "cascade"} /\ l[2] = x
  BY <1>3 DEF Deletes
<1>5. bulk.mode = "none"
  BY <1>3, <1>4, RemoveFact
<1>6. bulk.shown = Nothing \/ bulk.shown.refs = {}
  BY <1>5 DEF IInv, ConfirmedAsShown
<1> QED
  BY <1>5, <1>6

\* A reference to a row that is deleted stays behind only if the preview that
\* was confirmed did not have it: of the rows selected, not of the referrers
\* that go with them, whose own references cascade_loose_references leaves.
THEOREM NoReferenceLeftAlways == ListSpec => NoReferenceLeft
<1>1. IInv /\ Named /\ [ListNext]_listVars =>
        [\A l \in refs \cap refs' :
           (bulk # Nothing /\ bulk' # Nothing /\ l[2] \in (bulk.todo \ bulk'.todo) \cap (stored \ stored'))
             => bulk.mode = "none" /\ (bulk.shown = Nothing \/ l \notin bulk.shown.refs)]_listVars
  BY NoReferenceStep
<1> QED
  BY <1>1, SpecIInv, PTL DEF ListSpec, NoReferenceLeft

-----------------------------------------------------------------------------
(***************************************************************************)
(* RecordUpdate: overlapping updates of one record, for any number of      *)
(* requests, columns, keys and values: a field changes only as a client    *)
(* asked, or, in the document, back to what an overlapping update had      *)
(* read; and the audit history of a column ends at the value it has.       *)
(*                                                                         *)
(* Both follow from what a request that has written but not committed      *)
(* holds: it has the row lock, so it is the only one and the committed row *)
(* has not moved since its UPDATE.  What it read is the committed row if   *)
(* nothing has been committed since.                                       *)
(***************************************************************************)

USE UpdateAssumption

\* what an UPDATE leaves to be committed, against the current row
Prepared(q, current) ==
  /\ \A c \in Columns : q.new[c] # current[c] =>
       /\ q.payload[c] # None /\ q.new[c] = q.payload[c]
       /\ \E h \in q.changes : h.field = c
  /\ \A h \in q.changes : h.field \in Columns => h.new = q.new[h.field]

\* ... of the document: a key moves as the client asked or to what was read
KeysPrepared(q, current) ==
  \A k \in Keys : q.new[k] # current[k] =>
    \/ q.payload[k] # None /\ q.new[k] = q.payload[k]
    \/ q.payload[k] = None /\ q.new[k] = q.read[k]

\* what a request read is the committed row, or another one has committed
Fresh(q, current, n) ==
  /\ q.readDone <= n
  /\ q.pc # "idle" /\ q.readDone = n => q.read = current

UInv ==
  /\ TypeOK
  /\ AuditEndsAtColumn
  /\ CountsNoPhantoms
  /\ \A r \in Requests : req[r].readCount <= done
  /\ \A r, p \in Requests : (req[r].pc = "written" /\ req[p].pc = "written") => r = p
  /\ \A r \in Requests : req[r].pc = "written" => Prepared(req[r], row) /\ KeysPrepared(req[r], row)
  /\ \A r \in Requests : Fresh(req[r], row, done)

LEMMA LaidType ==
  ASSUME NEW q \in Request
  PROVE  /\ Laid(q) \in Row
         /\ Changed(q) \subseteq Fields
         /\ \A f \in Changed(q) : Laid(q)[f] = q.payload[f] /\ q.payload[f] # None
BY DEF Laid, Changed, Request, Row

LEMMA IdleType == Idle \in Request /\ Idle.pc = "idle" /\ Idle.readCount = 0 /\ Idle.readDone = 0
BY DEF Idle, Request, Row, NoPayload

LEMMA UpdateInit == Init => UInv
<1> SUFFICES ASSUME Init PROVE UInv
  OBVIOUS
<1>1. TypeOK
  BY IdleType DEF Init, TypeOK, Row
<1>2. \A r \in Requests : req[r].pc = "idle"
  BY IdleType DEF Init
<1>3. AuditEndsAtColumn
  BY DEF Init, AuditEndsAtColumn
<1>4. CountsNoPhantoms /\ \A r \in Requests : req[r].readCount <= done /\ Fresh(req[r], row, done)
  BY IdleType DEF Init, CountsNoPhantoms, Fresh
<1> QED
  BY <1>1, <1>2, <1>3, <1>4 DEF UInv

\* what the first flush leaves behind
LEMMA WriteEffect ==
  ASSUME TypeOK, NEW r \in Requests, Write(r)
  PROVE  /\ req'[r] \in Request /\ req'[r].pc = "written"
         /\ req'[r].readCount = req[r].readCount
         /\ req' = [req EXCEPT ![r] = req'[r]]
         /\ req'[r].readDone = req[r].readDone /\ req'[r].read = req[r].read
         /\ Prepared(req'[r], row) /\ KeysPrepared(req'[r], row)
<1> DEFINE q == req[r]
           new == [f \in Fields |-> IF f \in Written(q) THEN Laid(q)[f] ELSE row[f]]
           changes == {[field |-> f, old |-> q.read[f], new |-> Laid(q)[f]] : f \in Changed(q)}
           w == [q EXCEPT !.pc = "written", !.new = new, !.changes = changes]
<1>1. q \in Request /\ row \in Row
  BY DEF TypeOK
<1>2. req' = [req EXCEPT ![r] = w]
  BY DEF Write, TypeOK
<1>3. new \in Row
  BY <1>1, LaidType DEF Row
<1>4. \A h \in changes : h \in Change
  <2> TAKE h \in changes
  <2>1. PICK f \in Changed(q) : h = [field |-> f, old |-> q.read[f], new |-> Laid(q)[f]]
    OBVIOUS
  <2>2. f \in Fields /\ q.read[f] \in Values \cup {None} /\ Laid(q)[f] \in Values \cup {None}
    BY <1>1, <2>1, LaidType DEF Request, Row
  <2> QED
    BY <2>1, <2>2 DEF Change
<1>5. changes \in SUBSET Change
  BY <1>4
<1>6. \A c \in Columns : new[c] # row[c] =>
        /\ q.payload[c] # None /\ new[c] = q.payload[c]
        /\ \E h \in changes : h.field = c
  <2> TAKE c \in Columns
  <2> HAVE new[c] # row[c]
  <2>1. c \in Changed(q) /\ new[c] = Laid(q)[c]
    BY DEF Written, Fields
  <2>2. [field |-> c, old |-> q.read[c], new |-> Laid(q)[c]] \in changes
    BY <2>1
  <2> QED
    BY <1>1, <2>1, <2>2, LaidType
<1>7. \A h \in changes : h.field \in Columns => h.new = new[h.field]
  <2> TAKE h \in changes
  <2> HAVE h.field \in Columns
  <2>1. PICK f \in Changed(q) : h = [field |-> f, old |-> q.read[f], new |-> Laid(q)[f]]
    OBVIOUS
  <2>2. f \in Columns /\ f \in Fields /\ f \in Written(q)
    BY <2>1 DEF Written, Fields
  <2> QED
    BY <2>1, <2>2
<1>11. \A k \in Keys : new[k] # row[k] =>
         \/ q.payload[k] # None /\ new[k] = q.payload[k]
         \/ q.payload[k] = None /\ new[k] = q.read[k]
  BY DEF Fields, Laid
<1> HIDE DEF new, changes
<1>8. /\ w \in Request /\ w.pc = "written" /\ w.new = new /\ w.changes = changes
      /\ w.payload = q.payload /\ w.readCount = q.readCount
      /\ w.read = q.read /\ w.readDone = q.readDone
  BY <1>1, <1>3, <1>5 DEF Request
<1> HIDE DEF w
<1>9. req'[r] = w
  BY <1>2 DEF TypeOK
<1>10. Prepared(w, row) /\ KeysPrepared(w, row)
  BY <1>6, <1>7, <1>8, <1>11 DEF Prepared, KeysPrepared
<1> QED
  BY <1>2, <1>8, <1>9, <1>10

\* the history ends at the row when the prepared row and its entries commit
LEMMA CommitAudits ==
  ASSUME UInv, NEW r \in Requests, Commit(r)
  PROVE  AuditEndsAtColumn'
<1> DEFINE q == req[r]
<1>1. /\ q.pc = "written" /\ row' = q.new
      /\ audit' = IF q.changes = {} THEN audit ELSE Append(audit, q.changes)
  BY DEF Commit
<1>2. Prepared(q, row)
  BY <1>1 DEF UInv
<1>3. audit \in Seq(SUBSET Change) /\ Len(audit) \in Nat
  BY DEF UInv, TypeOK
<1> HIDE DEF q
<1>4. \A c \in Columns : (\A h \in q.changes : h.field # c) => row'[c] = row[c]
  BY <1>1, <1>2 DEF Prepared
<1>5. CASE q.changes = {}
  <2>1. audit' = audit /\ \A c \in Columns : row'[c] = row[c]
    BY <1>1, <1>4, <1>5
  <2> QED
    BY <2>1 DEF UInv, AuditEndsAtColumn
<1>6. CASE q.changes # {}
  <2>1. /\ Len(audit') = Len(audit) + 1
        /\ audit'[Len(audit) + 1] = q.changes
        /\ \A n \in 1 .. Len(audit) : audit'[n] = audit[n]
    BY <1>1, <1>3, <1>6
  <2> SUFFICES ASSUME NEW c \in Columns, NEW n \in 1 .. Len(audit'), NEW h \in audit'[n],
                      h.field = c,
                      \A m \in n + 1 .. Len(audit') : \A g \in audit'[m] : g.field # c
               PROVE  h.new = row'[c]
    BY DEF AuditEndsAtColumn
  <2>2. CASE n = Len(audit) + 1
    BY <1>1, <1>2, <2>1, <2>2 DEF Prepared
  <2>3. CASE n # Len(audit) + 1
    <3>1. n \in 1 .. Len(audit) /\ h \in audit[n]
      BY <1>3, <2>1, <2>3
    <3>2. Len(audit) + 1 \in n + 1 .. Len(audit')
      BY <1>3, <2>1, <3>1
    <3>3. \A g \in q.changes : g.field # c
      BY <2>1, <3>2
    <3>4. \A m \in n + 1 .. Len(audit) : \A g \in audit[m] : g.field # c
      BY <1>3, <2>1, <3>1
    <3>5. h.new = row[c]
      BY <3>1, <3>4 DEF UInv, AuditEndsAtColumn
    <3> QED
      BY <1>4, <3>3, <3>5
  <2> QED
    BY <2>2, <2>3
<1> QED
  BY <1>5, <1>6

LEMMA UpdateNext == UInv /\ [Next]_vars => UInv'
<1> SUFFICES ASSUME UInv, [Next]_vars
             PROVE  UInv'
  OBVIOUS
<1>0. TypeOK
  BY DEF UInv
<1>1. ASSUME NEW r \in Requests, NEW payload \in Row, Read(r, payload)
      PROVE  UInv'
  <2> DEFINE w == [Idle EXCEPT !.pc = "read", !.payload = payload, !.read = row,
                               !.readCount = count, !.readDone = done]
  <2>1. /\ w \in Request /\ w.pc = "read" /\ w.readCount = count
        /\ w.read = row /\ w.readDone = done
    BY <1>0, IdleType DEF TypeOK, Request
  <2>2. /\ req' = [req EXCEPT ![r] = w] /\ begun' = begun + 1
        /\ UNCHANGED <<row, count, audit, done>>
    BY <1>1 DEF Read
  <2> HIDE DEF w
  <2>3. TypeOK'
    BY <1>0, <2>1, <2>2 DEF TypeOK
  <2> QED
    BY <1>0, <2>1, <2>2, <2>3
    DEF UInv, TypeOK, AuditEndsAtColumn, CountsNoPhantoms, Prepared, KeysPrepared, Fresh
<1>2. ASSUME NEW r \in Requests, Write(r)
      PROVE  UInv'
  <2>1. /\ req'[r] \in Request /\ req'[r].pc = "written"
        /\ req'[r].readCount = req[r].readCount
        /\ req' = [req EXCEPT ![r] = req'[r]]
        /\ req'[r].readDone = req[r].readDone /\ req'[r].read = req[r].read
        /\ Prepared(req'[r], row) /\ KeysPrepared(req'[r], row)
    BY <1>0, <1>2, WriteEffect
  <2>2. /\ UNCHANGED <<row, count, audit, done, begun>>
        /\ \A p \in Requests : req[p].pc # "written"
    BY <1>2 DEF Write
  <2>3. TypeOK'
    BY <1>0, <2>1, <2>2 DEF TypeOK
  <2>4. \A p \in Requests \ {r} : req'[p] = req[p]
    BY <1>0, <2>1 DEF TypeOK
  <2>5. AuditEndsAtColumn' /\ CountsNoPhantoms'
    BY <2>2 DEF UInv, AuditEndsAtColumn, CountsNoPhantoms
  <2>6. \A p \in Requests : Fresh(req'[p], row', done')
    <3> SUFFICES ASSUME NEW p \in Requests PROVE Fresh(req'[p], row', done')
      OBVIOUS
    <3>1. CASE p = r
      BY <1>2, <2>1, <2>2, <3>1 DEF UInv, Fresh, Write
    <3>2. CASE p # r
      BY <2>2, <2>4, <3>2 DEF UInv
    <3> QED
      BY <3>1, <3>2
  <2>7. \A p \in Requests : req'[p].pc = "written" => p = r
    BY <2>2, <2>4
  <2>8. \A p \in Requests : req'[p].readCount <= done'
    BY <2>1, <2>2, <2>4 DEF UInv
  <2> QED
    BY <2>1, <2>2, <2>3, <2>5, <2>6, <2>7, <2>8 DEF UInv
<1>3. ASSUME NEW r \in Requests, Commit(r)
      PROVE  UInv'
  <2>1. req[r] \in Request
    BY <1>0 DEF TypeOK
  <2>2. /\ req[r].pc = "written"
        /\ row' = req[r].new /\ count' = req[r].readCount + 1 /\ done' = done + 1
        /\ audit' = IF req[r].changes = {} THEN audit ELSE Append(audit, req[r].changes)
        /\ req' = [req EXCEPT ![r] = Idle] /\ UNCHANGED begun
    BY <1>3 DEF Commit
  <2>3. TypeOK'
    BY <1>0, <2>1, <2>2, IdleType DEF TypeOK, Request
  <2>4. \A p \in Requests : req'[p].pc # "written"
    BY <1>0, <2>2, IdleType DEF UInv, TypeOK
  <2>5. AuditEndsAtColumn'
    BY <1>3, CommitAudits
  <2>6. /\ CountsNoPhantoms'
        /\ \A p \in Requests : req'[p].readCount <= done'
    BY <1>0, <2>1, <2>2, IdleType DEF UInv, TypeOK, Request, CountsNoPhantoms
  <2>7. \A p \in Requests : Fresh(req'[p], row', done')
    BY <1>0, <2>2, IdleType DEF UInv, TypeOK, Fresh, Request
  <2> QED
    BY <2>3, <2>4, <2>5, <2>6, <2>7 DEF UInv
<1>4. ASSUME NEW r \in Requests, Fail(r)
      PROVE  UInv'
  <2>1. req' = [req EXCEPT ![r] = Idle] /\ UNCHANGED <<row, count, audit, done, begun>>
    BY <1>4 DEF Fail
  <2>2. TypeOK'
    BY <1>0, <2>1, IdleType DEF TypeOK
  <2> QED
    BY <1>0, <2>1, <2>2, IdleType DEF UInv, TypeOK, AuditEndsAtColumn, CountsNoPhantoms,
      Prepared, KeysPrepared, Fresh
<1>5. CASE UNCHANGED vars
  BY <1>5 DEF vars, UInv, TypeOK, AuditEndsAtColumn, CountsNoPhantoms, Prepared, KeysPrepared, Fresh
<1> QED
  BY <1>1, <1>2, <1>3, <1>4, <1>5 DEF Next

LEMMA Invariance == Spec => []UInv
BY UpdateInit, UpdateNext, PTL DEF Spec

\* The newest audit entry of a column shows the value the column has, however
\* many updates of the record overlap and fail.
THEOREM AuditMatchesColumns == Spec => []AuditEndsAtColumn
BY Invariance, PTL DEF UInv

\* sys_mod_count never counts an update that was not committed.
THEOREM CountHasNoPhantoms == Spec => []CountsNoPhantoms
BY Invariance, PTL DEF UInv

\* An update changes what its client sent and nothing else, whatever others
\* have committed since it read the row; but for the keys of the document,
\* which may go back to what it read if others have.
THEOREM UpdatesKeepFields == Spec => FieldsKept
<1> DEFINE By(r, f) ==
             /\ req[r].pc = "written" /\ req'[r].pc = "idle"
             /\ \/ req[r].payload[f] # None /\ row'[f] = req[r].payload[f]
                \/ /\ f \in Keys /\ req[r].payload[f] = None /\ row'[f] = req[r].read[f]
                   /\ req[r].readDone < done
           Kept == \A f \in Fields : row'[f] # row[f] => \E r \in Requests : By(r, f)
<1>1. UInv /\ [Next]_vars => [Kept]_vars
  <2> SUFFICES ASSUME UInv, Next, NEW f \in Fields, row'[f] # row[f]
               PROVE  \E r \in Requests : By(r, f)
    OBVIOUS
  <2>1. PICK r \in Requests : Commit(r)
    BY DEF Next, Read, Write, Fail
  <2>2. /\ req[r].pc = "written" /\ row' = req[r].new /\ req'[r].pc = "idle"
        /\ req[r] \in Request /\ done \in Nat
    BY <2>1, IdleType DEF Commit, UInv, TypeOK
  <2>3. Prepared(req[r], row) /\ KeysPrepared(req[r], row) /\ Fresh(req[r], row, done)
    BY <2>2 DEF UInv
  <2>4. CASE f \in Columns
    BY <2>2, <2>3, <2>4 DEF Prepared
  <2>5. CASE f \in Keys
    <3>1. CASE req[r].payload[f] # None
      BY <2>2, <2>3, <2>5, <3>1 DEF KeysPrepared
    <3>2. CASE req[r].payload[f] = None
      <4>1. row'[f] = req[r].read[f]
        BY <2>2, <2>3, <2>5, <3>2 DEF KeysPrepared
      <4>2. req[r].readDone # done
        BY <2>2, <2>3, <4>1 DEF Fresh
      <4>3. req[r].readDone < done
        BY <2>2, <2>3, <4>2 DEF Fresh, Request
      <4> QED
        BY <2>2, <2>5, <3>2, <4>1, <4>3
    <3> QED
      BY <3>1, <3>2
  <2> QED
    BY <2>4, <2>5 DEF Fields
<1>2. Spec => [][Kept]_vars
  BY <1>1, Invariance, PTL DEF Spec
<1> QED
  BY <1>2 DEF FieldsKept
-----------------------------------------------------------------------------
(***************************************************************************)
(* Updates that do not overlap: what a request has read is the committed   *)
(* row until it commits.                                                   *)
(***************************************************************************)
Apart == \A r, p \in Requests : r = p \/ req[r].pc = "idle" \/ req[p].pc = "idle"

AloneInv ==
  /\ count = done
  /\ \A r \in Requests : req[r].pc # "idle" => req[r].readDone = done /\ req[r].readCount = done

LEMMA AloneNext ==
  ASSUME Apart, UInv, AloneInv, [Next]_vars
  PROVE  AloneInv'
<1>0. req \in [Requests -> Request] /\ done \in Nat
  BY DEF UInv, TypeOK
<1>1. ASSUME NEW r \in Requests, NEW payload \in Row, Read(r, payload)
      PROVE  AloneInv'
  <2>1. req'[r].readDone = done /\ req'[r].readCount = done /\ count' = done /\ done' = done
    BY <1>0, <1>1 DEF Read, AloneInv, Idle
  <2>2. \A p \in Requests \ {r} : req'[p] = req[p]
    BY <1>0, <1>1 DEF Read
  <2> QED
    BY <2>1, <2>2 DEF AloneInv
<1>2. ASSUME NEW r \in Requests, Write(r)
      PROVE  AloneInv'
  <2>1. req[r].pc = "read" /\ count' = count /\ done' = done
    BY <1>2 DEF Write
  <2>2. req'[r].readDone = req[r].readDone /\ req'[r].readCount = req[r].readCount
    BY <1>0, <1>2 DEF Write, Request
  <2>3. \A p \in Requests \ {r} : req'[p] = req[p]
    BY <1>0, <1>2 DEF Write
  <2> QED
    BY <2>1, <2>2, <2>3 DEF AloneInv
<1>3. ASSUME NEW r \in Requests, Commit(r) \/ Fail(r)
      PROVE  AloneInv'
  <2>1. req'[r].pc = "idle" /\ req[r].pc # "idle"
    BY <1>0, <1>3, IdleType DEF Commit, Fail
  <2>2. count' = done'
    BY <1>3, <2>1 DEF Commit, Fail, AloneInv
  <2>3. \A p \in Requests \ {r} : req'[p].pc = "idle"
    BY <1>0, <1>3, <2>1 DEF Commit, Fail, Apart
  <2> QED
    BY <2>1, <2>2, <2>3 DEF AloneInv
<1>4. CASE UNCHANGED vars
  BY <1>4 DEF vars, AloneInv
<1> QED
  BY <1>1, <1>2, <1>3, <1>4 DEF Next

LEMMA SpecAlone ==
  Spec /\ []Apart => [](UInv /\ AloneInv)
<1>1. Init => AloneInv
  BY IdleType DEF Init, AloneInv
<1>2. Apart /\ UInv /\ AloneInv /\ [Next]_vars => UInv' /\ AloneInv'
  BY AloneNext, UpdateNext
<1> QED
  BY <1>1, <1>2, UpdateInit, PTL DEF Spec

\* Updates that do not overlap merge their keys into the document, as the
\* changelog says: a key changes only as the client asked.
THEOREM DocumentMergedAlone == Spec /\ []Apart => DocumentMerged
<1> DEFINE Asked(r, k) ==
             /\ req[r].pc = "written" /\ req'[r].pc = "idle"
             /\ req[r].payload[k] # None
             /\ row'[k] = req[r].payload[k]
           Merged == \A k \in Keys : row'[k] # row[k] => \E r \in Requests : Asked(r, k)
<1>1. UInv /\ AloneInv /\ [Next]_vars => [Merged]_vars
  <2> SUFFICES ASSUME UInv, AloneInv, Next, NEW k \in Keys, row'[k] # row[k]
               PROVE  \E r \in Requests : Asked(r, k)
    OBVIOUS
  <2>1. PICK r \in Requests : Commit(r)
    BY DEF Next, Read, Write, Fail
  <2>2. req[r].pc = "written" /\ row' = req[r].new /\ req'[r].pc = "idle"
    BY <2>1, IdleType DEF Commit, UInv, TypeOK
  <2>3. KeysPrepared(req[r], row) /\ req[r].read = row
    BY <2>2 DEF UInv, AloneInv, Fresh
  <2> QED
    BY <2>2, <2>3 DEF KeysPrepared
<1>2. Spec /\ []Apart => [][Merged]_vars
  BY <1>1, SpecAlone, PTL DEF Spec
<1> QED
  BY <1>2 DEF DocumentMerged

\* ... and sys_mod_count is the number of updates committed.
THEOREM CountsAlone == Spec /\ []Apart => [](count = done)
<1>1. AloneInv => count = done
  BY DEF AloneInv
<1> QED
  BY <1>1, SpecAlone, PTL
=============================================================================
