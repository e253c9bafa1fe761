----------------------------- MODULE RecordList -----------------------------
(***************************************************************************)
(* A list of records (RecordListPage): its pages, the rows that are        *)
(* selected, and the dialog that deletes them after showing what refers to *)
(* them, while answers arrive and others write.                            *)
(*                                                                         *)
(* The lists of all tables are one component, which React keeps on the     *)
(* screen when the path changes: page, selection and dialog go with the    *)
(* user to the next table.  Until that has been read, the rows shown are   *)
(* those of the page before (keepPreviousData); a page read before is      *)
(* shown from the cache first, which is the same as far as this module     *)
(* goes: rows of an earlier time.  Of the previews, the cache has the      *)
(* latest.                                                                 *)
(***************************************************************************)
EXTENDS Naturals, FiniteSets

CONSTANTS
  Tables,    \* the tables with a list
  Rows,      \* rows; their order is that of the lists
  TableOf,   \* the table of each row
  Links,     \* pairs of rows, the first with a field that may name the second
  KindOf,    \* of each link: its field may be null, must not be, or is a foreign key that cascades
  PageSize,  \* rows on a page
  Nothing    \* no data, no preview, no delete under way

ASSUME RowsAssumption ==
  /\ Rows \subseteq Nat /\ IsFiniteSet(Rows)
  /\ TableOf \in [Rows -> Tables] /\ Links \subseteq Rows \X Rows
  /\ KindOf \in [Links -> {"nullable", "required", "owned"}]
  /\ PageSize \in Nat \ {0}

VARIABLES
  stored,    \* server: the rows there are
  refs,      \* server: the links that are set
  table,     \* the table whose list is on the screen
  page,      \* its page, from 0
  data,      \* the rows shown, and the total it came with
  fetch,     \* the page is being read
  selected,  \* the rows selected
  dialog,    \* the dialog is open
  preview,   \* the latest preview: of which rows, and the links to them
  asking,    \* its request: none, asked for, or failed with the dialog open
  bulk       \* the delete under way

listVars == <<stored, refs, table, page, data, fetch, selected, dialog, preview, asking, bulk>>

PageNumbers == 0 .. Cardinality(Rows)
Lists == [rows : SUBSET Rows, total : 0 .. Cardinality(Rows)]
Previews == [of : Tables, ids : SUBSET Rows, refs : SUBSET Links]
Deletes == [of : Tables, ids : SUBSET Rows, todo : SUBSET Rows, mode : {"none", "clear", "cascade"},
            shown : Previews \cup {Nothing}, blind : BOOLEAN]

ASSUME NothingAssumption == Nothing \notin Previews \cup Deletes

ListTypeOK ==
  /\ stored \subseteq Rows /\ refs \subseteq Links
  /\ table \in Tables /\ page \in PageNumbers
  /\ data \in Lists \cup {Nothing} /\ fetch \in BOOLEAN
  /\ selected \subseteq Rows /\ dialog \in BOOLEAN
  /\ preview \in Previews \cup {Nothing} /\ asking \in {"off", "asked", "failed"}
  /\ bulk \in Deletes \cup {Nothing}

\* what the server answers: a page of a table, in order
InTable(t) == {r \in stored : TableOf[r] = t}
Rank(t, r) == Cardinality({q \in InTable(t) : q < r})
PageOf(t, p) ==
  [rows |-> {r \in InTable(t) : p * PageSize <= Rank(t, r) /\ Rank(t, r) < (p + 1) * PageSize},
   total |-> Cardinality(InTable(t))]

\* the references a preview lists, and a delete is asked about: foreign keys are
\* left to the database
LinksTo(ids) == {l \in refs : l[2] \in ids /\ KindOf[l] # "owned"}
PageCount(total) == (total + PageSize - 1) \div PageSize

ListInit ==
  /\ stored \in SUBSET Rows /\ refs = {}
  /\ table \in Tables /\ page = 0
  /\ data = Nothing /\ fetch = TRUE
  /\ selected = {} /\ dialog = FALSE
  /\ preview = Nothing /\ asking = "off"
  /\ bulk = Nothing

-----------------------------------------------------------------------------
(***************************************************************************)
(* The list.                                                               *)
(***************************************************************************)

\* the path changes to another list; with the dialog open, its preview is
\* asked for again
GoTo(t) ==
  /\ t # table
  /\ table' = t
  /\ fetch' = TRUE
  /\ asking' = IF dialog THEN "asked" ELSE "off"
  /\ UNCHANGED <<stored, refs, page, data, selected, dialog, preview, bulk>>

Turn(p) ==
  /\ p # page
  /\ page' = p
  /\ fetch' = TRUE
  /\ UNCHANGED <<stored, refs, table, data, selected, dialog, preview, asking, bulk>>

\* the buttons of the bar, from the page it says it is on
CurrentPage == IF page < PageCount(data.total) THEN page ELSE IF data.total = 0 THEN 0 ELSE PageCount(data.total) - 1

PreviousPage == data # Nothing /\ ~ dialog /\ CurrentPage > 0 /\ Turn(CurrentPage - 1)
NextPage == data # Nothing /\ ~ dialog /\ CurrentPage + 1 < PageCount(data.total) /\ Turn(CurrentPage + 1)

\* another sort field, direction or page size: the first page
FirstPage == data # Nothing /\ ~ dialog /\ Turn(0)

\* variant: the index of the page behind the last one
StepBackShort ==
  /\ data # Nothing /\ data.total > 0 /\ page * PageSize >= data.total
  /\ page' = data.total \div PageSize
  /\ fetch' = TRUE
  /\ UNCHANGED <<stored, refs, table, data, selected, dialog, preview, asking, bulk>>

\* the effect that leaves a page past the end
Beyond == data # Nothing /\ data.total > 0 /\ page * PageSize >= data.total

StepBack == Beyond /\ Turn(PageCount(data.total) - 1)

Arrive ==
  /\ fetch
  /\ fetch' = FALSE
  /\ data' = PageOf(table, page)
  /\ UNCHANGED <<stored, refs, table, page, selected, dialog, preview, asking, bulk>>

\* the rows are gone when they were those of another page
FetchFails ==
  /\ fetch
  /\ fetch' = FALSE
  /\ data' \in {data, [rows |-> {}, total |-> 0]}
  /\ UNCHANGED <<stored, refs, table, page, selected, dialog, preview, asking, bulk>>

Reconnect ==
  /\ ~ fetch
  /\ fetch' = TRUE
  /\ asking' = IF dialog THEN "asked" ELSE asking
  /\ UNCHANGED <<stored, refs, table, page, data, selected, dialog, preview, bulk>>

-----------------------------------------------------------------------------
(***************************************************************************)
(* The selection and the dialog.                                           *)
(***************************************************************************)

Select(rows) ==
  /\ data # Nothing /\ ~ dialog
  /\ selected' = rows /\ asking' = "off"
  /\ UNCHANGED <<stored, refs, table, page, data, fetch, dialog, preview, bulk>>

Toggle(r) == data # Nothing /\ r \in data.rows /\ Select(IF r \in selected THEN selected \ {r} ELSE selected \cup {r})

\* the box in the header is about the rows the filter leaves that may be
\* deleted; the selection of other pages goes
ToggleAll ==
  /\ data # Nothing
  /\ \E rows \in SUBSET data.rows \ {{}} : Select(IF rows \subseteq selected THEN {} ELSE rows)

\* the dialog is about the selection, and its preview is read again
Delete ==
  /\ ~ dialog /\ selected # {} /\ bulk = Nothing
  /\ dialog' = TRUE /\ asking' = "asked"
  /\ UNCHANGED <<stored, refs, table, page, data, fetch, selected, preview, bulk>>

\* variant: the preview of whatever was selected before
HasPreviewAny == preview # Nothing /\ preview.of = table

\* the preview on the screen: its key is the table and the rows
HasPreview == preview # Nothing /\ preview.of = table /\ preview.ids = selected

\* while a delete is pending, or there is nothing to show yet, the dialog can
\* be neither confirmed nor closed
Busy == bulk # Nothing \/ (asking = "asked" /\ ~ HasPreview)

Cancel ==
  /\ dialog /\ ~ Busy
  /\ dialog' = FALSE /\ asking' = IF asking = "failed" THEN "off" ELSE asking
  /\ UNCHANGED <<stored, refs, table, page, data, fetch, selected, preview, bulk>>

\* one preview for each row; if one of them fails, all of them have
PreviewArrives ==
  /\ asking = "asked" /\ selected \subseteq InTable(table)
  /\ preview' = [of |-> table, ids |-> selected, refs |-> LinksTo(selected)]
  /\ asking' = "off"
  /\ UNCHANGED <<stored, refs, table, page, data, fetch, selected, dialog, bulk>>

PreviewFails ==
  /\ asking = "asked"
  /\ asking' = IF dialog THEN "failed" ELSE "off"
  /\ UNCHANGED <<stored, refs, table, page, data, fetch, selected, dialog, preview, bulk>>

\* variant: the first button never says what becomes of the references
ModesPlain == IF HasPreview /\ preview.refs # {} THEN {"none", "cascade"} ELSE {"none"}

\* what the buttons send
Modes == IF HasPreview /\ preview.refs # {} THEN {"clear", "cascade"} ELSE {"none"}

Confirm(mode) ==
  /\ dialog /\ ~ Busy /\ mode \in Modes
  /\ bulk' = [of |-> table, ids |-> selected, todo |-> selected, mode |-> mode,
              shown |-> IF HasPreview THEN preview ELSE Nothing, blind |-> asking = "failed" /\ ~ HasPreview]
  /\ UNCHANGED <<stored, refs, table, page, data, fetch, selected, dialog, preview, asking>>

-----------------------------------------------------------------------------
(***************************************************************************)
(* The requests of a delete, one for each row, and others who write.       *)
(***************************************************************************)

\* rows with a foreign key to those of S go with them, and so on
Closed(T) == \A k \in refs : k[2] \in T /\ KindOf[k] = "owned" => k[1] \in T
Owned(S) == {r \in Rows : \A T \in SUBSET Rows : S \subseteq T /\ Closed(T) => r \in T}

\* rows deleted before x because they name it: all of them, or those that have
\* to name something
Referrers(x, mode) ==
  {l[1] : l \in {k \in LinksTo({x}) : mode = "cascade" \/ (mode = "clear" /\ KindOf[k] = "required")}}

\* a referrer is deleted without being asked what becomes of what names it
GoesWith(x, mode) == Owned({x} \cup Referrers(x, mode)) \cap stored

\* the row goes; what names it is cleared, goes with it, or stays as it is
Remove(x, mode) ==
  LET gone == GoesWith(x, mode)
  IN  /\ stored' = stored \ gone
      /\ refs' = {l \in refs : l[1] \notin gone /\ (mode = "clear" => l[2] # x)}

\* its answer may be lost, which counts as a failure
DeleteRow(x) ==
  /\ bulk # Nothing /\ x \in bulk.todo /\ x \in InTable(bulk.of)
  /\ Remove(x, bulk.mode)
  /\ bulk' = [bulk EXCEPT !.todo = @ \ {x}]
  /\ UNCHANGED <<table, page, data, fetch, selected, dialog, preview, asking>>

\* refused, not reached, or not found in this table, which is the one on the
\* screen by then if the request had to wait for the connection
RowFails(x) ==
  /\ bulk # Nothing /\ x \in bulk.todo
  /\ bulk' = [bulk EXCEPT !.todo = @ \ {x}]
  /\ UNCHANGED <<stored, refs, table, page, data, fetch, selected, dialog, preview, asking>>

\* all are answered: the selection goes, failures included
Deleted ==
  /\ bulk # Nothing /\ bulk.todo = {}
  /\ bulk' = Nothing
  /\ selected' = {} /\ dialog' = FALSE /\ asking' = "off"
  /\ fetch' = TRUE
  /\ UNCHANGED <<stored, refs, table, page, data, preview>>

Others == UNCHANGED <<table, page, data, fetch, selected, dialog, preview, asking, bulk>>

\* a new record, which nothing names
OtherCreates(x) ==
  /\ x \notin stored
  /\ stored' = stored \cup {x} /\ refs' = {l \in refs : l[2] # x}
  /\ Others

\* the modes are the same if nothing names the row
OtherDeletes(x) ==
  /\ x \in stored
  /\ \E mode \in IF LinksTo({x}) = {} THEN {"none"} ELSE {"none", "clear", "cascade"} : Remove(x, mode)
  /\ Others

\* only a foreign key is checked
OtherLinks(l) ==
  /\ l[1] \in stored /\ l \notin refs /\ (KindOf[l] = "owned" => l[2] \in stored)
  /\ refs' = refs \cup {l} /\ UNCHANGED stored
  /\ Others

OtherUnlinks(l) ==
  /\ l \in refs /\ refs' = refs \ {l} /\ UNCHANGED stored
  /\ Others

-----------------------------------------------------------------------------
ListNext ==
  \/ \E t \in Tables : GoTo(t)
  \/ PreviousPage \/ NextPage \/ FirstPage \/ StepBack
  \/ Arrive \/ FetchFails \/ Reconnect
  \/ (\E r \in Rows : Toggle(r)) \/ ToggleAll
  \/ Delete \/ Cancel \/ PreviewArrives \/ PreviewFails
  \/ (\E mode \in {"none", "clear", "cascade"} : Confirm(mode))
  \/ (\E x \in Rows : DeleteRow(x) \/ RowFails(x)) \/ Deleted
  \/ \E x \in Rows : OtherCreates(x) \/ OtherDeletes(x)
  \/ \E l \in Links : OtherLinks(l) \/ OtherUnlinks(l)

\* effects run after the rendering that calls for them
ListSpec == ListInit /\ [][ListNext]_listVars
FairListSpec == ListSpec /\ WF_listVars(StepBack)

-----------------------------------------------------------------------------
\* What is confirmed was on the screen: the preview shown was that of the rows
\* deleted, in the table they are deleted from, and the references are dealt
\* with only if it had any.  Without a preview, its request has failed.
ConfirmedAsShown ==
  bulk # Nothing =>
    IF bulk.shown = Nothing THEN bulk.mode = "none" /\ bulk.blind
    ELSE /\ bulk.shown.of = bulk.of /\ bulk.shown.ids = bulk.ids
         /\ bulk.mode # "none" <=> bulk.shown.refs # {}

\* The dialog is about some rows, whatever was deleted or visited meanwhile.
DialogHasRows == dialog => selected # {}

\* The delete of a row leaves a reference to it behind only if the user could
\* not know of it: the preview did not have it yet, or could not be read.  It is
\* about the rows selected: what names a row that goes as a referrer of one of
\* them, or with a foreign key, stays (cascade_loose_references deletes it
\* without a mode), and so does what names a selected row that went like that
\* before its own request was served.
NoReferenceLeft ==
  [][\A l \in refs \cap refs' :
       (bulk # Nothing /\ bulk' # Nothing /\ l[2] \in (bulk.todo \ bulk'.todo) \cap (stored \ stored'))
         => bulk.mode = "none" /\ (bulk.shown = Nothing \/ l \notin bulk.shown.refs)]_listVars

\* The user is not left on a page past the end, whichever table he comes from
\* and however many rows are deleted meanwhile.
LeavesPagePastEnd == Beyond ~> ~ Beyond

=============================================================================
