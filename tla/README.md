# OpenFlake: TLA+ models, checks and proofs

OpenFlake is a small IT service management server: a FastAPI backend with async
SQLAlchemy on PostgreSQL, and a React frontend. This directory models the parts of
the backend where several requests, a rollback or a restart can get in each other's
way, and the parts of the frontend where answers, edits and navigation can; it checks them
with TLC on small instances, and proves the main results with TLAPS for every value of the
constants. Paths below are relative to the repository's root.

## The system

| Component | Code | State | Operations |
| --- | --- | --- | --- |
| Request session | `backend/app/db.py` | one database transaction per HTTP request | commit after the handler, rollback on an exception |
| Record store | `backend/app/domain/table_service.py`, `domain/registry.py` | one table per record type; reference columns; owned rows (comments, audit entries, grants, attachments) | create, update, delete with `ref_mode` keep, clear or cascade |
| Attachment files | `backend/app/api/flake/attachment.py` | rows and files on disk | upload, remove, purge at start-up |
| Record numbers | `table_service.next_number`, `number_sequence` | one counter per prefix | take the next number under a row lock |
| Catalog ordering | `api/flake/catalog.py`, `domain/catalog/ordering.py` | the cart of every user, in the memory of the process | add to cart, submit, order now |
| Webhooks | `domain/catalog/webhooks.py`, `events/bus.py` | delivery log, OAuth token cache | deliver with an order, or on the event of an update |
| CMDB class registry | `domain/cmdb/registry.py`, `ci_service.py`, `api/flake/admin_tables.py` | `sys_db_object` rows and an in-memory snapshot per process | create, extend, delete a class; register a class with its first item; refresh |
| CMDB import | `domain/cmdb/importer.py` | the same rows | import the built-in hierarchy and extra files at start-up |
| Access control | `auth/rbac.py`, `auth/deps.py` | groups, memberships, grants | decide on one record, filter a list |
| Query parser | `query/parser.py` | none | `sysparm_query` to conditions |
| API tokens | `api/flake/oauth.py` | `oauth_token` rows | issue, refresh |
| Start-up | `startup.py` | an advisory lock | migrate, seed, purge |
| Pages | `frontend/src/pages`, `components`, `api/client.ts`, `App.tsx` | React Query's cache, shared by all pages | show queries; start mutations, which invalidate keys when they succeed |
| Forms | the same pages and popovers | the text typed, what it is compared with, open editors | fill from the data, type, save, revert; notes that save on a press and revert on a blur |
| Record list | `pages/RecordListPage.tsx`, `hooks/useServerPagination.ts` | page, selection, dialog, its preview | turn pages, select, preview and delete in bulk |
| Preferences | `settings/`, `auth/AuthContext.tsx`, `components/ColumnConfigPopover.tsx`, `domain/user_preferences.py` | the token, the set on the screen and in the account, staged columns | sign in and out, choose, save in the background, migrate old values |

How they interact. A request runs in one process and one transaction at READ
COMMITTED; its handler awaits every statement, so the requests of a process interleave
at each `await`, and different replicas interleave freely. They meet in three places:
the database (row locks, unique indexes and foreign keys are the only synchronisation),
the memory of the process (the cart, the class snapshot), and the disk. `table_service`
emits an event after every write, before the commit; the event bus calls its subscribers
at once and swallows what they raise.

In a browser tab everything runs on one thread, but every request is an interleaving point:
between a click and its answer the user goes on typing, opens another page, or signs out.
Components that stay mounted while only the path changes (all lists are one component, all incidents
are one detail page) keep their state and their pending mutations; the callbacks that run when
these are answered are those of the latest rendering, so they act on the page the user is on by then.

What is hard about it: a delete reads and writes many tables in many statements while
others write behind its back; memory and disk do not roll back with the transaction;
checks are made on a snapshot and acted upon after an `await`; locks are held across HTTP
calls. `PROJECT.json` lists these hazards at their lines, each with the property that
covers it or the reason none does yet. Three that the models show and no property is about are not in that list: a webhook
that was called for an order whose commit then fails (`domain/catalog/webhooks.py:428`), an event whose record is older
than the commits it follows (`domain/table_service.py:676`), and two removals that lock attachments in opposite orders, one of which
PostgreSQL ends (`api/flake/attachment.py:215`).

What makes the components correct:

- store: a delete settles every registered reference to its target, clears only references to
  it, and leaves nothing behind that the record owned;
- updates: an update changes what its client sent and nothing else, but keys of the JSON document another
  update has written since it was read, and the audit history agrees with the record;
- numbers: unique, without gaps; ordering: whole or not at all, once, never forgotten
  silently, and told to its webhooks once, with a log row for each of them;
- webhooks: what they hear of an item they hear in the order of the commits, a delivery is
  logged in full or not at all, and no delivery waits for ever;
- attachments: an upload replaces what it saw, a start leaves no file that belongs to nothing, and an attachment without
  its file has a reason; access: a list shows what can be opened;
- class registry: the hierarchy and every snapshot of it are forests, and a built-in class stays unless an import hung
  one below a class that is not built in, whatever was decided on a stale snapshot or imported beside;
- pages: what a user has written he sees, on the page he is on, without loading it again;
- forms: nothing is saved to a record it was not meant for, unless the save waits for the connection while the user
  moves on; nothing typed is lost to a read, and a saved form is clean;
- record list: what is confirmed is what was shown, and a row that is deleted with its references leaves none behind;
  preferences: the screen and the account agree
  when all is quiet.

## Modules

| Module | Models |
| --- | --- |
| `RecordStore` | records, reference columns, owned rows; deletes step by step |
| `RecordUpdate` | overlapping updates of one record, its JSON document and its audit history |
| `Numbering` | abstract: what the record numbers promise |
| `CatalogOrder` | carts, the order transactions, the counters, delivery of order webhooks |
| `CmdbRegistry` | classes, their snapshot in each process, requests that read one and write the other, imports at start-up |
| `WebhookDelivery` | deliveries with orders and on updates, the connection pool, the token cache, the log |
| `Attachments` | attachments and their files, the deletes that take them along, the start-up purges of several replicas |
| `AccessControl` | who may see and change a record, and what a list shows |
| `Pages` | a table: the queries, mutations, keys and API calls of every page and popover |
| `PageCache` | React Query's cache under one area of these pages; extends `Pages` |
| `Forms` | a table: every form, how it is filled, what it sends, what a success does to it |
| `EditForm` | one form on several records: typing, saving, reading again; extends `Forms` |
| `RecordList` | a list with its pages, selection and bulk delete, shared by several tables |
| `Preferences` | session, optimistic choices, their saves and answers, the column popover |
| `MC...` | instances for TLC: a slice of the schema, areas of pages, symmetry |
| `...Proofs` | theorems and their proofs; `RecordProofs` is about `RecordUpdate`, `RecordList` and `AccessControl`, `FrontendProofs` about `PageCache` and `Preferences` |

A module that shares a proofs module with another gives its frame names of its own: `AccessInit` and `AccessNext`,
`ListInit`, `ListNext` and `FairListSpec`, `PrefsInit` and `PrefsNext`.

Every backend module has the same frame. A request has a `pc`; what its transaction has done so far
is private to it (`tx[s]`, `req[q]`) and becomes visible in one step, `Commit`; `Fail`
(`Rollback`) drops it, at any point where a statement may raise. What another session's
uncommitted row makes PostgreSQL wait for is a guard (`Held`, `Pending`). `Restart` drops
the requests of a process and its memory. A request that is turned away before it has
written anything is not modelled: it changes nothing.

### RecordStore

The schema is a constant: which columns are foreign keys (`PARENT_CHILD_RELATIONS`), which
are loose references that may be NULL or may not (`REVERSE_REFERENCE_MAP`), and which hold
a sys_id the registry does not list (`sc_req_item.requested_for` is one: no property speaks
of those columns, and a delete leaves them as they are). `delete_record` is `BeginDelete`, then
for every loose column `ScanColumn` and for every row it found `ClearReference` (`StaleReference`, when the row
is gone: the request fails) or `EmptyReferrer` and `DeleteRow`, then `EmptyTarget` and `DeleteRow`, then `Commit`.
`Empty` is what every delete ends in, nested ones included: the polymorphic children and the attachments go, but nothing
is locked until `DeleteRow` deletes the row with what `ON DELETE CASCADE` takes along (`Under`, the least closed set).
The files of attachments are in `Attachments`. Creates, updates of a reference, comments, grants and
attachments are single statements and commit at once.

The code looks up very little. `create_record` and `update_record` check no loose reference, so it may name any record
that was ever there (`Allowed`); a comment, a grant or an attachment row is inserted whether its record is found or not
(`AddRow`). Three history variables name what follows, and the properties except exactly them: `late` holds the
references written behind the scan of a running delete or to a record that was gone, `raced` the rows added to a
record that had been emptied or was gone, and `moved` the references another request has changed between the SELECT
that found the row for a delete and the UPDATE that clears it. In a record that refers to itself the nested delete
comes first; the second DELETE then matches nothing.

### RecordUpdate

An update reads the row (`Read`), lays the payload over it, and writes the columns that changed
(`Write`, which waits for the row lock of another UPDATE); `Commit` publishes the row and its
audit entries. The JSON document is one column: if one of its keys changed, all of it is
written. `sys_mod_count` is what was read plus one.

### Numbering and CatalogOrder

`CatalogOrder` follows `submit_order` and `order_now`: the cart is popped, then for each
entry and each of its three records a number is taken under the counter's row lock, held to the
end of the transaction, and a row inserted; then the options, then each webhook is called,
then the next entry. `Silent` hooks never answer: a delivery ends by the HTTP client's timeout. A webhook of `Keyed` may
need a secret or a token that is not to be had: `Skip` writes its log row as failed and calls nobody. `log` and `posts`
count the rows and the calls of every entry and webhook, so a second one is seen, and a call tells whether
the options were in the tables (`"filled"`) or not yet (`"blank"`).
A client that creates a record directly may bring its own number (`ClientNumbers`), which can
`Collide` with the unique index. Only one backend process is modelled, because a cart lives in
one. `Numbering` is the abstract specification (numbers are issued 1, 2, 3, ... and never taken back);
`NumbersIssued` says that `CatalogOrder` implements it, mapping the set of numbers to the
committed rows.

### CmdbRegistry

The rows of `sys_db_object` are `super` and `admin` (`user_defined`); `snap[p]` is the snapshot
of a process, which `refresh_cache` replaces in two steps, `RefreshRead` and
`RefreshAssign`. Requests decide on the snapshot and act on the rows: `create_table`, `add_table_field`,
`delete_table`, and `create_cmdb_ci`, which registers an unknown class inside its own
transaction and refreshes before that commits. The objects of a snapshot belong to the session
that loaded them: when it rolls back they expire, and requests that touch them fail until the next
refresh (`expired`). `LostAfterCommit` says whether a request may fail between its commit and its
refresh.

A process that starts imports its catalogue in one transaction (`Import`) and then loads its snapshot (`Restart`); others go on
meanwhile, or start with another extra directory. `Catalogues` holds what there is to import, taken together per class: a class is
registered, or moved to the super class of the catalogue, unless an administrator has created it. The classes below that one
are moved all the same, and if one of them is above it in the table, the two become a loop; `inverted` is the history of
that. A walk up a loop never returns (`Looped`), so a request that needs one goes no further. An extra directory may move
built-in classes as well, also below a class that is not built in; `displaced` is the history of that, since a delete
or a cascade can then take the built-in one.

### WebhookDelivery

`update_record` emits its event between its UPDATE and its commit; the event bus awaits the
subscriber, which opens a second session on a second connection (`Subscribe`, or `PoolTimeout` when
the pool has none left). An order delivers in its own session. Either way the loop of
`deliver_webhooks_for_ritm` is the same: `NextHook`, then, as the webhook requires, `Headers` (secrets),
`Lookup`, `Fetch` and `Store` (the OAuth token), `Post`, and a log row; `Skip` is the log row without a call.
Log rows stay in the session (`logs`) until the next query flushes them (`flushed`); from then on a
foreign key holds their webhook, which `DeleteHook` waits for.

`Breaks` collects the statements that may fail: a log row or a token of a webhook that is gone, a token
row that somebody else added or removed meanwhile, a deadlock over two tokens. `Break` is what
follows. The loop catches the exception, but the session stays unusable until it is rolled back,
so the delivery raises at its next use of it; the subscriber then rolls its session back and the
update goes on, an order fails. What PostgreSQL does about the tokens (`WaitsFor`, `Deadlocked`) is external.

Two history variables record what an endpoint could tell: `posts` holds, for every call, the updates and
orders of the item that had committed by then, and `before` the same at the commit of a request.
`CatalogOrder` has the calls of an order too, seen from the cart and the numbers; there a
delivery has no tokens, is made or skipped, and does not break.

### Attachments

`RecordStore` removes attachments with their record in one statement; `Attachments` takes that apart. `rows` is the table,
`files` the directory, which no transaction covers; a session's `req` says what it still has to remove (`todo`), whose file
it has just unlinked (`cur`) and which rows it has deleted (`gone`). Uploads, removals, deletes of a record and the purges
of `lifespan` all go through `remove_attachment`: `Unlink`, then `DeleteRow`, which waits for the row's lock. An upload then
writes its file and its row (`Save`), a purge reads all rows (`ReadRows`) and unlinks every file of none of them
(`Sweep`). `Fail` and `Crash` undo the rows and not the files. The order in which a SELECT lists rows is arbitrary. The name
of a stored file begins with the sys_id, so a file is named by it; a removal looks for the file in several
places, which are one here. The record of an attachment is of a table with owners, whose uploads require it to exist.

Four histories name what the code does not prevent: `before`, the rows an upload could see; `server`, the replica it was sent
to; `lost`, what a request that failed had unlinked; `swept`, the files a purge found in no row, and the replica it ran on. So
`FileAccounted` says that a replica never takes a file from an upload of its own, whatever crashed or failed before: it serves nothing
until its purge has committed. Two requests may lock rows in opposite orders; PostgreSQL then
ends one of them, which is one more `Fail`.

### AccessControl

`Rights` is `resolve_record_permissions`, `Allowed` what is asked of it, `Listed` the condition
`filter_record_list_query` adds to a list. What they read changes by `Edit` (owner, group, assignment), `CreateGrant`, `UpdateGrant` and
`DeleteGrant`, `Join`, `Leave` and `Move` (memberships) and `Tick`. Roles and the owners of groups are constants. A row
of `record_access_grant` goes through the generic API too, so it may name a user, a group, both or neither, and
have any level (`"other"` stands for those the decision does not ask for); a PATCH of one reads nothing of the record.
`ListMatchesDecision` excepts the three places where the code differs: who has only a grant of an unknown level
finds the record in a list and cannot open it; who is assigned to a record can open it and does not
find it in a list; and `records.*.write` opens every record and lists none. Memberships start as any relation, because
seeding and administrators set them.

### Pages and PageCache

`Pages` has one operator per API call (the places of the server's data it reads or writes), one per
component that queries or mutates, and one per page, the record of what it shows and offers. A mutation has
the places it `changes`, the keys it `refreshes` (`invalidateQueries`), those it `ends` and the page it
`goes` to. `Unrefreshed` names the gaps the code leaves: the timeline and the lists after a change of
owner, the rules that depended on a deleted variable, an open preview of a delete, and the choices of an order form. `PageCache` follows one key at a time, which is enough because
entries do not depend on each other; `data` says whether the entry has the latest of the user's writes.
A mutation is `Click`, `Commit` (the server's part), then `Answer`, `Lose` or, instead, `Refuse`; a read is
asked for by `Show`, `Answer` or `Reconnect`, then `ServerRead`, `Arrive` or `FetchFails`. `Follow` is
React's part: a mutation whose component stays follows it to the next path, unless it is a plain function of its own
(`Direct`: the builder's `saveChanges`, which invalidates the keys of its click). A mutation that waits for the connection
is taken for one that is started when the connection is back. `Routes(I)` is the route table of `App.tsx`:
every page it routes to, with ids from `I` for the records, for what is selected on a page and for what is made there (a page without queries
stands for the ones that show nothing from the server). A site is any set of these pages with one page to a path that
has the pages its mutations go to (`TableAssumption`).
How the library treats a query (mounting, joining a first request, retries, collection) is external, as
the code configures it in `main.tsx`.

What the model brought out: the answer of a save that comes after the user has opened another record
invalidates the new record's keys, and the old record's entry stays old until it is mounted again; an
invalidation during the first read of a query joins that read, which may be older than the write. `missed`
records such reasons, and the properties except exactly them. Signing out does not clear the cache.

### Forms and EditForm

A form is a record: how its draft is filled (`record`, on every change of the data; `once`; `field`, when its
own field changes; `row`; `blank`), whether a save sends the whole draft or what has changed, what a success
does (`done`), and which controls and traits it has. `EditForm` gives it one field and several records.
`Visit`, `Switch` and `Leave` are navigation; `Type`, `Open`, `Save`, and for notes `Hold`, `Press`, `Drag`, `Blur` and
`Escape`, are the controls; `Apply`, `Answer`, `Refuse` the save; `Arrive` and `Refetch` a read. `Arrive` runs the effect that fills
the form only if the data differs from what is there (React Query's structural sharing). `draft.from` is a history
of where the text comes from, `draft.typed` of what the user did with it. A form for something new writes to no field of
the records and shows none (`ForNew`), only whether they have been read matters to it.

A save that is started while the browser is offline is paused by React Query (`main.tsx` leaves `networkMode` at its default), and
`Reconnect` sends it with the function of the last rendering (`Rendered`): to the record on the screen by then, for
`late` forms also with the text that is there by then. Filter rules hand over record and text at the click (`addressed`),
and the builder's save is an async function of its own, which does not wait (`direct`). When the component goes, so does what would
have been rendered (`Left`); when it stays, what a success does is for the next record (`Followed`). The save of
a popover that is closed meanwhile finds no row and is dropped.

What the model brought out: a save that waits for the connection goes to the next record the user opens
(`RecordDetailPage.tsx:94`), which `SavedWhereTyped` excepts and is about all others; the composer of comments, create forms, and an owner chosen when two records
have the same one do go with the user to the next record or table (`CarriesOver`); the answer of a save of
other fields closes a note in which the user is typing; a press that is dragged off `Save Notes` leaves
`savingNotesRef` set, so the next blur does not revert; the builder compares with the values at the click,
not with what the server has; a description that is cleared is never sent and leaves the form dirty, and so
does a webhook secret, which is never read back.

### RecordList

`data` is the page on the screen, kept while the next one is read (`keepPreviousData`); `StepBack` is the effect
that leaves a page past the end. `Delete` opens the dialog, which asks for previews (`PreviewArrives`,
`PreviewFails`); `Confirm` starts one request per row, answered in any order (`DeleteRow`, `RowFails`), and `Deleted`
ends it. `GoTo` changes the table under page, selection and dialog: the dialog covers the page, but the browser's
history does not go through it. A row that an earlier request has already taken along counts as a failure,
as in the code. When a preview fails the dialog can still be confirmed, without a mode.

A link is nullable, required, or owned (`KindOf`: a foreign key that cascades, which a preview does not list). A delete with a
mode goes one level deep, as `cascade_loose_references` does: the rows that name the target by a loose reference go (`Referrers`), each with
what it owns (`Owned`), but what names one of these keeps its reference, since the nested delete has no mode (`GoesWith`,
`Remove`). `NoReferenceLeft` is about each row whose own request was served: nothing names it that was in the preview. When row 3 names 2 and 2 names
1, and 1 and 2 are deleted with what refers to them, 2 goes as a referrer of 1, its own request finds nothing, and
3 still names 2, which the preview had shown.

### Preferences

`user`, `token` and `me` are the session; `Put` shows a choice and sends the whole set; `Apply` is the
server's part, `AnswerSave` replaces the whole set on the screen, whoever is signed in by then; `RefuseSave` and `LoseSave`
are the other ends of a save. `MeArrives` is the load
effect, which merges and saves what earlier versions kept in the browser. `StagedHere` is about the popover,
whose copy of the columns is staged again whenever the displayed ones change.

`chosen` and `doubt` are histories that name what the code does not prevent: an answer that is older than
the choice reverts it on the screen, and the next choice sends the reverted set; a choice made while the
migrated values are being saved overwrites the account with the default set of the screen; old values are
cleared before their save has succeeded; columns that are staged are lost when an answer
arrives; and the answer of a save of the user before shows in, and is saved with the next choice to,
the account of the next (`OwnPreferences`, below).

## Runs

| Run | Instance | Shows |
| --- | --- | --- |
| `concurrent` | a problem and its task, two deletes, one attachment | `NoLooseEnds`, `OwnRowsRemoved`, `ClearsOnlyItsOwn`, and the types |
| `updates` | two columns and two keys, two requests, three updates | `FieldsKept`, `AuditEndsAtColumn`, `CountsNoPhantoms` |
| `orders` | three entries, one direct create, two sessions, a hook that never answers, fair | `NumberIsFree`, `NumbersIssued`, `AllOrNothing`, `Served` |
| `carts` | the same with client numbers, a webhook that needs a key, and items with two webhooks, one and none | `OrderedOnce`, `NothingForgotten`, `ToldOnce` |
| `two_requests` | the root, a built-in class, and one that is not there at first; a catalogue that adds it, another that hangs the built-in one below it; one item, two requests of one process | `ClassForest`, `SnapshotForest`, `BuiltinsStay` |
| `deliveries` | an order, two updates, two webhooks with tokens, one of them deletable, three connections, fair | `ToldInOrder`, `AllLogged`, `Answered` |
| `replicas` | two replicas, two sessions, two uploads of one name | `ReplacedByName`, `FileAccounted`, `CleanStart` |
| `access` | two users, three groups, one grant at a time, of any level, two instants | `ListMatchesDecision` |
| `pages` | every page in eight areas, one or two records of a kind, one mutation under way, fair | `Covered`, `OwnWritesShown`, `ComesToShow` |
| `edits` | every form, two records, two values | `SavedWhereTyped`, `UntouchedAsRead`, `SavedIsClean`, `ClosedNoteIsSaved`, `EditsKept` |
| `lists` | two tables, three rows on pages of one, a chain of two references, fair | `ConfirmedAsShown`, `NoReferenceLeft`, `LeavesPagePastEnd` |
| `prefs` | two users, three settings, two saves under way, two turns | `ScreenAsStored`, `ChoicesStored`, `StagedHere` |

Why the bounds are enough to be of interest. Two requests are what every race here needs: one
acts between two steps of the other; a third only adds a third party to the same locks (the proofs
cover any number). The slice of the schema is the cycle the registry has: a task hangs on its problem by a
foreign key, and the problem names the task by a loose reference. One attachment stands for
any owned row that somebody adds; the audit entries are the polymorphic kind. The columns TLC does not see - required references, records
that refer to themselves, several columns and referrers - are covered by the theorems only, which take any schema. In `updates`
two keys let one update revert a key it did not send; the requests are alike and so are the values. A class that an administrator, an item or a catalogue may bring, and a built-in one, give a parent and a child in either order, so a
cycle would need no more. Three entries let one cart be submitted while another fills;
`Skip` is in `carts` only, so that `orders`, which checks a liveness property, stays small. `MaxUpdates`
bounds the updates begun in `RecordUpdate`, and every request of `WebhookDelivery` runs once: three are
what it takes for two to hold the last connections and wait for one more (`Pool` = 3, the code's is fifteen), and for two
webhooks' tokens to be stored in opposite orders. Nothing else grows without bound, because sys_ids,
entries and items are used once. Symmetry is used only where no liveness property is checked.

In `replicas`, two uploads of one name replace one another or do not see each other, and leave two rows for a delete of the
record to remove in either order; two sessions are a request beside a purge, or two purges. Replicas, sessions and uploads
are alike (`Alike`). Uploads are used once, records only go; crashes and starts are unbounded. In `access`, a grant (`MaxGrants` = 1) is read together with every membership and every owner; a second one only adds to what
the first gives. It may name anybody, a group, both or nobody, at any of three levels. `MaxTime` = 1 lets a grant end. The groups are one that administers, one that reads and one without roles but with an owner.

In the frontend, `pages` needs a second record only where the component stays when the path changes, and one
mutation (`Slots`) because entries and mutations do not depend on each other except through the key followed
(the proofs cover any number of both). In `edits`, two records let a component carry something from one to the other,
and of values only equality matters; there is one save at a time since the button is disabled meanwhile (also while it waits for the connection). In `lists`, one
row to a page makes a list of two rows have a page past its end, and a chain of two nullable references is
what a cascade of one level leaves an end of; required and owned links are covered by the theorem only. In `prefs`, `MaxSaves` = 2 lets answers overtake each
other, and `MaxTurns` = 2 bounds sign-ins, loads and changes made elsewhere: one user's save answered for
another takes two.

Fairness. In the backend only `Served` and `Answered` need any: `FairSpec` says that a request that can go on does
(`WF_vars(Advance(s))`). The event loop and PostgreSQL's row lock queue give this: a lock is
granted in turn, and a delivery ends by the timeout of the HTTP client, a wait for a connection by that of the pool, and
PostgreSQL breaks deadlocks. Requests of `CatalogOrder` and `WebhookDelivery` are finitely many, so
weak fairness is enough. Clients, failures and restarts are not assumed to happen. `ComesToShow` assumes that a read ends,
with an answer or a failure (`fetch` and its one retry do), and `LeavesPagePastEnd` that React runs the effect of a
rendering; nothing is assumed of the user.

Deadlock is not checked in `RecordUpdate` and `WebhookDelivery`, whose requests are used up (`Answered` says that
none of them is stuck), nor in `Preferences`, where nobody is signed in any more when the turns are used
up; the other systems never stop.

## Proofs

| Module | Theorem | States |
| --- | --- | --- |
| `RecordStoreProofs` | `TypeCorrect`, `ReferencesSettled`, `RecordsEmptied`, `ClearsOwnReferences` | every property of `concurrent` |
| `RecordProofs` | `UpdatesKeepFields`, `AuditMatchesColumns`, `CountHasNoPhantoms` | every property of `updates` |
| | `DocumentMergedAlone`, `CountsAlone` | `DocumentMerged`, and that the counter counts the updates, when updates do not overlap |
| | `ConfirmedAsShownAlways`, `DialogHasRowsAlways`, `NoReferenceLeftAlways` | `ConfirmedAsShown`, `NoReferenceLeft`, and that a dialog is never about nothing |
| | `AccessTypeCorrect`, `ListMatchesDecisionAlways` | the types, and `ListMatchesDecision` |
| `CatalogOrderProofs` | `NumbersFree`, `NumbersWithoutGaps` | `NumberIsFree`, and that `CatalogOrder` implements `Numbering` |
| | `OrdersWhole`, `OrderedOnceAlways`, `NoneForgotten`, `WebhooksToldOnce` | `AllOrNothing`, `OrderedOnce`, `NothingForgotten`, `ToldOnce` |
| `CmdbRegistryProofs` | `HierarchyIsAForest`, `SnapshotsAreForests`, `BuiltinClassesStay` | every property of `two_requests` |
| | `ChangesVisibleApart` | `ChangesAreVisible`, in one process, when no two refreshes overlap, no request is lost after its commit and nothing is imported |
| `WebhookDeliveryProofs` | `TypeCorrect`, `CallsFollowCommits`, `DeliveriesAreLogged` | the types, `ToldInOrder` and `AllLogged` |
| | `FailuresLoggedApart` | `FailuresAreLogged`, when deliveries do not meet at a token and no webhook is removed |
| `AttachmentsProofs` | `TypeCorrect`, `ReplacedByNameAlways`, `FileAccountedAlways`, `CleanStartAlways` | the types, and every property of `replicas` |
| | `OnePerNameApart` | `OnePerName`, when uploads of one name to one record do not overlap |
| `FrontendProofs` | `CoveredAlways`, `OwnWritesShownAlways` | the safety properties of `pages` |
| | `PrefsTypeCorrect`, `ScreenAsStoredAlways`, `ChoicesStoredAlways`, `StagedHereAlways` | the types, and every property of `prefs` |
| | `OwnPreferencesApart` | `OwnPreferences`, when the sessions of two users do not mix |
| `EditFormProofs` | `TypeCorrect`, `SavedWhereTypedAlways`, `UntouchedAlways`, `EditsKeptAlways` | the types, `SavedWhereTyped`, `UntouchedAsRead`, `EditsKept` |
| | `SavedIsCleanAlways`, `ClosedNoteIsSavedAlways` | `SavedIsClean`, `ClosedNoteIsSaved` |

The assumptions are those of the modules: the schema's classes of columns are disjoint
(`SchemaAssumption`), the built-in catalogue is a forest (`BuiltinAssumption`) and so is every other, which has the built-in classes
too, wherever it puts them (`CatalogueAssumption`), a link of a list is of one kind (`RowsAssumption`), a site is made of the
application's routes (`TableAssumption`), and model values are
distinct: what stands for nothing is no record, value or request (`NoneAssumption`, `NothingAssumption`). The theorems on numbers also assume that no client brings its own
(`ClientNumbers = {}`): with one, both statements are false, as `Collide` shows.

The arguments:

- `RecordStoreProofs`, `IInv`. What a delete has done is private until it commits, so the
  invariant says what every running delete has collected against the committed state: no two sessions hold the same
  row (`LocksHeld`), what a delete has emptied goes with its `DeleteRow` (`Phases`), every reference
  to its target is still to be scanned, in its work list, settled, or late (`Settled`), a row in its work list still names the
  target or was moved (`Selection`), and what an emptied record owned
  is dropped or raced (`EmptiedRows`). `Commit` then turns the collected facts into the properties. The schema is
  arbitrary, so the closure `Under` is handled by its defining property only.
- `RecordProofs`, `UInv` (updates). A request between its UPDATE and its commit is the only one, so
  the row has not moved since (`Prepared`): a column of its new row that differs from the
  committed one was sent by its client and has an audit entry. A key of the document may also be what its request read
  (`KeysPrepared`), and that is the committed row unless another update has committed since (`Fresh`): so a key goes back only under
  an update that overlapped.
- `CatalogOrderProofs`, `NInv`. The committed numbers of a table are `1 .. last` and a
  session's uncommitted ones the run that follows, because the counter stays locked from
  `TakeNumber` to the end of the transaction; failing returns the run as a whole.
- `CatalogOrderProofs`, `AInv` and `TInv`, for any client numbers. An entry is in one place - a cart, a request, the
  tables - and so is what was submitted with it (`Apart`, `Batched`); a request's rows are those its step has behind it
  (`Progress`), so what `Commit` adds is all the records of all its entries (`Whole`), and what ends any other way is
  recorded as lost (`Kept`). `TInv` adds which webhooks a request is done with (`Done`): an entry has one log
  row for each of these, a call behind every success, and no second call (`Settled`); a webhook it is not done with has
  neither (`Heard`). Calls are not undone by a rollback, so it says nothing of a lost entry's.
- `CmdbRegistryProofs`, `RInv` and `BInv`. An uncommitted class hangs below a registered one, since a
  DELETE waits for uncommitted children; a forest with a new leaf, or without a closed set of subtrees, is a
  forest (`ForestAdd`, `ForestPrune`); what a request has read is a forest, so what it assigns is one. An import
  keeps the forest unless `inverted` (`ForestImport`): the classes of a catalogue that are not below an administrator's are closed upwards
  and where the catalogue says, those that are below have not moved, and what is new hangs below both.
  `BInv` adds, unless `displaced`, that nothing a request carries from step to step names a built-in class as
  one to insert or delete: snapshots never call a built-in class user-defined, and the subtree of a
  user-defined class holds none.
- `WebhookDeliveryProofs`, `LockInv`, `TellInv` and `LogInv`. An item is held by the one update that
  has written it, or by the order that has yet to commit it (`LockInv`), so what had
  committed at a call is what has committed still (`TellInv`). While a request delivers, each webhook it chose
  is to come, is being called, or has a row in the session, never a committed one (`LogInv`).
  What every step does to the record of its request is stated once (`OrderStep` to `EndOrderStep`) and used
  by all three.

- `RecordProofs`, `IInv` (lists). A dialog has a selection, and one that no longer asks for its preview has the
  one of its table and rows (`DialogHasPreview`): that is why what is confirmed was shown. What names a row is there
  itself (`Named`), so a delete with a mode reaches everything that names its target by then (`RemoveFact`): a loose reference is cleared or
  its row goes, and the rows the target owns go with it.
- `RecordProofs`, access. That a list shows what can be opened is a fact about single states: the types are the invariant (a
  grant more is counted, so the grants stay finite), and the clauses of `Listed` and of `Rights` are compared case by case, for any groups, roles and grants.
- `AttachmentsProofs`, `RInv`, `WInv` and `FInv`. A sys_id is written once and by one upload (`UploadOnce`,
  `CommittedOnce`), a request runs on a replica that is up or, a purge, starting, and one purge runs there (`Shape`, `PurgeOnce`).
  An upload has still to remove, or has removed, each row of its name that it saw and that is left (`Replacing`). What
  somebody has unlinked has no file (`NoFile`), an upload about to commit has its file unless the purge of another
  replica took it (`Saved`), and a purge has read every row of its own replica (`Reads`): for the last two a replica must
  serve nothing until its purge has committed, which is what `lifespan` awaits.
- `FrontendProofs`, `CoveredFact`. `Covered` is a fact about the route table, proved page by page for all ids. Two places meet only if
  they agree on their kind and on the record they name (`MeetFact`), so a mutation and a query are either apart
  (`Elsewhere`), or the mutation names a prefix of the query's key (`Told`), or the page is left. A page that is left for a list
  is a page of one record (`Details`), and no list is one of those.
- `FrontendProofs`, `IInv` (cache). An entry that is old and shown is being read again, was missed for a reason, or
  lacks a write whose answer is still to come (`SomeDone`). All it uses of the pages is `Covered`.
- `FrontendProofs`, `PInv`, `Shown` and `ChosenSent` (preferences). Whose session the page shows (`Session`) and which saves can reach the screen
  (`Kinds`) come with the types. When nothing casts doubt, the screen is what the account has or a save of this user is
  under way, and the last applied answer of his brings what the account has (`Shown`): so when all is
  quiet both agree. The last save under way carries every choice, and with none under way the account does (`ChosenSent`).
- `EditFormProofs`, `IInv`. Types, what a form of each kind can be (`FormFact`), that the text is from
  the record on the screen unless the form carries over, that what a form
  filled by its record shows untouched is what was read (`Shown`), and that the text a waiting save
  was clicked with is from the record of the click (`Clicked`), so that what is sent to that record is from it. `EditsKept` follows step by step from it.
- `EditFormProofs`, `SInv`, for the forms a record fills. The form compares with what was read last (`SavedRead`). Text that was sent and
  is not saved has its save under way from this record with just this text, or a read of something else still to come (`SentDirty`);
  a closed note that differs has such a read to come (`NoteDirty`), and its save is not one that was refused (`NotRefused`).

- Six theorems (`...Alone`, `...Apart`) are about what the documentation promises and the code keeps only when
  requests do not overlap (next section). Their hypothesis is `[]H` for a state predicate `H`, so that only the behaviours
  that satisfy it throughout are left; everything else - failures, crashes, restarts, requests one after another - stays. The
  invariants say that what a request has read is so still: the row (`AloneInv`), the rows of its name (`SawAll`), the token cache
  (`AsFound`), the classes a refresh has read and not assigned yet (`Ready`, in `VInv`), and that a set on its way, on the screen or staged
  has only values of its user (`OwnInv`).

Every safety property of every run is proved for all constants, with the types as far as a proof needs them. Only model-checked: `Served`, `Answered`, `ComesToShow` and
`LeavesPagePastEnd`, which are liveness under fairness and out of the prover's reach.

The proofs have changed the models where they were wrong or said less than they meant. `ClosedNoteIsSaved` excepted a
note whose save was pending, and needed not. Two CASE expressions had overlapping guards, so that their value was TLC's choice
(`Missed` in `PageCache`, the doubt of `Apply` in `Preferences`); they are chains of IF. What stands
for nothing was nowhere said to differ from what is something (`EditForm`, `Attachments`, `Preferences`).

## Disagreements between code and documentation

These are properties stated in their modules with the line they come from, and checked by no
run, since each is one line of a cfg away: named there as the INVARIANT or PROPERTY, TLC refutes it. All but the second and the third hold when
requests do not overlap, in the sense that is given with each and proved: it is the overlap that breaks them.

- `RecordUpdate!DocumentMerged` (`MCRecordUpdate_updates.cfg`): `CHANGELOG.md:1170` "CI updates merge `other` JSON payloads into
  existing stored properties instead of replacing the whole object." The whole object is what is written, from an unlocked
  read; `FieldsKept` says exactly when a key goes back. `DocumentMergedAlone`: never, with one update of the record at a time (`Apart`).
- `RecordStore!OwnRowsGoWithRecord` (`MCRecordStore_concurrent.cfg`): `domain/registry.py:376` "Deleting any record must also
  delete its own rows in these tables." Children the database removes keep theirs.
- `CmdbRegistry!DeletesUnusedOnly` (`MCCmdbRegistry_two_requests.cfg`): `api/flake/admin_tables.py:208` "Remove a user-defined
  class with no subclasses and no existing records." Both are checked before an `await` and never again.
- `CmdbRegistry!ChangesAreVisible` (the same, with `LostAfterCommit = FALSE` and `Catalogues = {}`): `api/flake/admin_tables.py:5` the registry "reflects the change": not when
  two refreshes are assigned in the other order. `ChangesVisibleApart`: under these conditions, and in one process, it does whatever
  else overlaps, if no refresh (from its read to its assignment; that of a new item's class until its commit) meets another (`RefreshesApart`).
- `WebhookDelivery!FailuresAreLogged` (`MCWebhookDelivery_deliveries.cfg`, with `Removable = {}`): `backend/tests/test_webhook_oauth.py:383`
  `test_deliver_webhooks_oauth_failure_logs_error_without_crashing`. A failure that comes from the database, a
  token another delivery stored first, crashes the order. `FailuresLoggedApart`: not when no two deliveries are at the
  token of one webhook at once (`TokensApart`) and no webhook is removed.
- `Attachments!OnePerName` (`MCAttachments_replicas.cfg`): `CHANGELOG.md:634` "Upload replaces an existing attachment with the
  same file name on the same record". Two uploads that overlap do not see each other, and both stay. `OnePerNameApart`: those
  that do not overlap (`NamesApart`) do, whatever fails, crashes, is deleted or purged beside them.
- `Preferences!OwnPreferences` (`MCPreferences_prefs.cfg`): `CHANGELOG.md:489` preferences persist to the profile of the
  user who is signed in. `persistPreferences` (`UserPreferencesContext.tsx:111`) puts an answer on the screen of whoever is
  signed in when it comes, and the next choice saves it there. `OwnPreferencesApart`: an account has only its user's choices
  if nobody signs in over another user, and no answer of another user's save is to come (`SessionsApart`).

What the models show besides, where no line of the documentation says otherwise:

- a reference written to a record that is gone is accepted and stays (`late`), and so does a comment, a grant or an attachment row
  (`raced`) until the next start purges the last kind; `?ref_mode=clear` sets a reference to NULL although another request has pointed it
  elsewhere after the delete selected its row (`moved`);
- a bulk delete with "Delete all" leaves references the preview had shown, when a selected row also refers to another one: it
  goes as a referrer of that one, without a mode, and its own request answers 404;
- a save started offline on one record is sent to the next record of the same page, and one of a popover that has been closed is
  lost without a word, or sent to the row the popover is opened on next;
- a list shows a record to a user whose only grant has a level other than view and comment, and he cannot open it;
- a built-in class that an extra directory has hung below an administrator's can go with it, when that one is deleted on a snapshot
  that does not know of the move.

## Not modelled, and the plan

Not modelled because it has no protocol: rendering and display helpers, client-side filters of a list, formatting, field
coercion, the server's side of catalog administration and secrets, seed data, deployment. Which controls
a permission hides is left out of `Pages` and `Forms`: every control is offered. The form of a new class
(`AdminTablesPage`) is left out, and so are downloads, sessions and API keys. A row of `sys_attachment` that is created through the generic
API, without a file, is an added row in `RecordStore` and nothing in `Attachments`. The builder while its first read waits for
the connection is not drawn. What PostgreSQL, SQLAlchemy, the HTTP client, React and
React Query do is modelled from how the code relies on it and marked external.

Done of the plan: the backend modules above with their proofs; the import of classes; attachments and access; the frontend's cache, forms, list and preferences.
Left, in this order:

1. Access in flight: what an update may still write when its user has lost the right to it; with it the
   conditions of `query/parser.py`. It joins `AccessControl` and `RecordUpdate`, whose requests it guards.
2. The values a webhook is told: `WebhookDelivery` knows which commits a call follows, not whether the
   record its event carries was read before them (`table_service.py:676`).
3. Start-up and API tokens.
4. Proofs of what these add. Of the properties of the section above, `OwnRowsGoWithRecord` and `DeletesUnusedOnly` are those for which no theorem says
   when they hold.
