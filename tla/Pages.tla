------------------------------- MODULE Pages -------------------------------
(***************************************************************************)
(* What every page of the frontend shows and offers, as tables: the        *)
(* queries it keeps in React Query's cache (frontend/src/pages and         *)
(* components, useQuery), and the mutations its controls start             *)
(* (useMutation), with the keys each invalidates when it succeeds and the  *)
(* page it goes to.  PageCache gives the tables their behaviour.           *)
(*                                                                         *)
(* A key is a sequence, as in the code; so is a place, a part of the       *)
(* server's data that calls of the API read or write (api/client.ts).  Of  *)
(* a key that holds paging, sorting or a template, a constant stands for   *)
(* the values.  Which permission shows a control is left out: every        *)
(* control is offered.                                                     *)
(***************************************************************************)
EXTENDS Sequences, SequencesExt

\* a place contains another one; two sets of places have data in common
Within(p, q) == IsPrefix(q, p)
Meet(P, Q) == \E p \in P, q \in Q : Within(p, q) \/ Within(q, p)

\* invalidateQueries({ queryKey }) reaches every key that begins with it
Reaches(refreshes, key) == \E k \in refreshes : IsPrefix(k, key)

-----------------------------------------------------------------------------
(***************************************************************************)
(* The API: the places a call reads or writes.                             *)
(***************************************************************************)

\* rows of a table (listRecords), one row (getRecord, createRecord)
Rows(r) == {<<"rows", r>>}
Row(r, x) == {<<"rows", r, x>>}
AllRows == {<<"rows">>}
Timeline(r, x) == {<<"timeline", r, x>>}

dashboard == UNION {Rows(r) : r \in {"incidents", "problems", "change-requests", "configuration-items"}}

\* an update leaves an audit entry, which the timeline shows
updateRecord(r, x) == Row(r, x) \cup Timeline(r, x)

\* a delete clears or removes what refers to the row, wherever that is
deleteRecord(r, x) == AllRows
getCascadePreview(r, x) == AllRows

listRecordVariables(r, x) == {<<"variables", r, x>>}

listGrants(r, x) == {<<"grants", r, x>>}
createGrant(r, x) == listGrants(r, x)
deleteGrant(r, x) == listGrants(r, x)

listActivity(r, x) == Timeline(r, x)
createComment(r, x) == Timeline(r, x)

listAttachments(r, x) == {<<"attachments", r, x>>}
uploadAttachment(r, x) == listAttachments(r, x)
deleteAttachment(r, x) == listAttachments(r, x)

listApiKeys == {<<"api-keys">>}
createApiKey == listApiKeys
listOAuthClients == {<<"oauth-clients">>}
createOAuthClient == listOAuthClients

\* the catalog: items, their variables, the conditions of these, and the
\* webhooks attached
Items == {<<"item">>}
Item(i) == {<<"item", i>>}
Variables(i) == {<<"item-variables", i>>}
Conditions(i) == {<<"item-conditions", i>>}
Attached(i) == {<<"item-webhooks", i>>}

listCatalogItems == Items
getCatalogItem(i) == Item(i) \cup Variables(i) \cup Conditions(i)
getBatchVariableOptions(i) == Variables(i) \cup Conditions(i) \cup AllRows

\* an order inserts a request, its items and tasks
orderCatalogItem == Rows("catalog-requests") \cup Rows("catalog-request-items") \cup Rows("catalog-tasks")

adminListCatalogItems == Items
adminGetCatalogItem(i) == Item(i)
adminCreateCatalogItem == Items
adminUpdateCatalogItem(i) == Item(i)
adminDeleteCatalogItem(i) == getCatalogItem(i) \cup Attached(i)

\* with a variable go its conditions and those that depend on it
adminListVariables(i) == Variables(i)
adminCreateVariable(i) == Variables(i)
adminUpdateVariable(i) == Variables(i)
adminDeleteVariable(i) == Variables(i) \cup Conditions(i)

adminListConditions(i, v) == {<<"item-conditions", i, v>>}
adminCreateCondition(i, v) == adminListConditions(i, v)
adminUpdateCondition(i, v) == adminListConditions(i, v)
adminDeleteCondition(i, v) == adminListConditions(i, v)

\* classes: the registry, the schema of one; a class with a new field
Schema(t) == {<<"schema", t>>}
listTableRegistry == {<<"registry">>}
getTableSchema(t) == Schema(t)
getCmdbClassSchema(t) == Schema(t)
createTableClass(t) == listTableRegistry \cup Schema(t)
addTableClassField(t) == Schema(t)
deleteTableClass(t) == listTableRegistry \cup Schema(t)
adminListTables == listTableRegistry
adminListTableFields(t) == Schema(t)

adminListWebhooks == {<<"webhooks">>}
adminGetWebhook(w) == {<<"webhooks", w>>}
adminCreateWebhook == adminListWebhooks
adminUpdateWebhook(w) == adminGetWebhook(w)
adminDeleteWebhook(w) == adminGetWebhook(w)

listSecrets == {<<"secrets">>}
getSecret(s) == {<<"secrets", s>>}
createSecret == listSecrets
updateSecret(s) == getSecret(s)
deleteSecret(s) == getSecret(s)

\* an attachment is shown with the name of its webhook
adminListItemWebhooks(i) == Attached(i) \cup adminListWebhooks
adminAttachItemWebhook(i) == Attached(i)
adminUpdateItemWebhook(i) == Attached(i)
adminDetachItemWebhook(i) == Attached(i)
adminPayloadPreview == {}

-----------------------------------------------------------------------------
(***************************************************************************)
(* Queries, mutations and pages.                                           *)
(***************************************************************************)

\* a query that is on the screen, and the places its call reads
Query(key, reads) == [key |-> key, reads |-> reads]

\* a mutation: the places it changes, the keys it invalidates, the keys that
\* leave the screen with its success, and the page it goes to
Stay(name, changes, refreshes) ==
  [name |-> name, changes |-> changes, refreshes |-> refreshes, ends |-> {}, goes |-> <<>>]
Ending(name, changes, refreshes, ends) == [Stay(name, changes, refreshes) EXCEPT !.ends = ends]
Leave(name, changes, refreshes, path) == [Stay(name, changes, refreshes) EXCEPT !.goes = path]

\* what a component on the screen shows and offers
Part(shows, offers) == [shows |-> shows, offers |-> offers]
Parts(parts) == Part(UNION {p.shows : p \in parts}, UNION {p.offers : p \in parts})

\* a page: its path (here with what is selected on it), the component React
\* keeps while only the path changes, and its parts
Page(path, component, parts) ==
  [path |-> path, component |-> component, shows |-> Parts(parts).shows, offers |-> Parts(parts).offers]

Record(r, x) == Query(<<"record", r, x>>, Row(r, x))
Related(r, column, x) == Query(<<"records", r, column, x>>, Rows(r))
Records(r) == Query(<<"records", r>>, Rows(r))

-----------------------------------------------------------------------------
(***************************************************************************)
(* Components that several pages share.                                    *)
(***************************************************************************)

\* the delete dialog asks for the preview when it opens
RecordDeleteButton(r, x, list) ==
  Part({Query(<<"cascade-preview", r, x>>, getCascadePreview(r, x))},
       {Leave("delete", deleteRecord(r, x), {<<"records", r>>, <<"dashboard">>}, list)})

\* owner and grants; the timeline is not told of a new owner
ownerMutation(r, x) == Stay("owner", updateRecord(r, x), {<<"record", r, x>>})

RecordSharePanel(r, x) ==
  LET grants == <<"grants", r, x>>
  IN  Part({Query(grants, listGrants(r, x)), Records("users"), Records("groups")},
           {ownerMutation(r, x), Stay("createGrant", createGrant(r, x), {grants}), Stay("deleteGrant", deleteGrant(r, x), {grants})})

RecordDetailHeaderActions(r, x, list) ==
  Parts({RecordSharePanel(r, x), RecordDeleteButton(r, x, list)})

\* variant: a file that is uploaded is expected in the timeline only
RecordActivityFeedUnread(r, x) ==
  LET activity == <<"activity", r, x>>
      attachments == <<"attachments", r, x>>
  IN  Part({Query(activity, listActivity(r, x)), Query(attachments, listAttachments(r, x))},
           {Stay("comment", createComment(r, x), {activity}),
            Stay("upload", uploadAttachment(r, x), {activity}),
            Stay("deleteAttachment", deleteAttachment(r, x), {attachments})})

RecordActivityFeed(r, x) ==
  LET activity == <<"activity", r, x>>
      attachments == <<"attachments", r, x>>
  IN  Part({Query(activity, listActivity(r, x)), Query(attachments, listAttachments(r, x))},
           {Stay("comment", createComment(r, x), {activity}),
            Stay("upload", uploadAttachment(r, x), {attachments}),
            Stay("deleteAttachment", deleteAttachment(r, x), {attachments})})

ClassHierarchyPanel(t) == Part({Query(<<"cmdb-class-schema", t>>, getCmdbClassSchema(t))}, {})

\* the secrets a template may name
TemplateAutocomplete == Part({Query(<<"integration-secrets">>, listSecrets)}, {})

ReferenceFilterBuilder(t) == Part({Query(<<"catalog-admin-table-fields", t>>, adminListTableFields(t))}, {})

-----------------------------------------------------------------------------
(***************************************************************************)
(* Records: lists, and the pages of one record.                            *)
(***************************************************************************)

\* the preview is that of the rows selected; it leaves with the dialog
RecordListPage(r) ==
  LET preview == Query(<<"cascade-preview", r, "selected">>, AllRows)
      told == {<<"records", r>>, <<"dashboard">>}
  IN  Page(<<r>>, "RecordListPage",
           {Part({Query(<<"records", r, "page">>, Rows(r)), preview},
                 {Stay("create", Rows(r), told), Ending("bulkDelete", AllRows, told, {preview.key})})})

RecordDetailPage(r, x) ==
  Page(<<r, x>>, "RecordDetailPage",
       {Part({Record(r, x)},
             {Stay("update", updateRecord(r, x), {<<"record", r, x>>, <<"records", r>>, <<"activity", r, x>>})}),
        RecordDetailHeaderActions(r, x, <<r>>),
        RecordActivityFeed(r, x)})

ChangeDetailPage(x) ==
  LET r == "change-requests"
  IN  Page(<<r, x>>, "ChangeDetailPage",
           {Part({Record(r, x), Related("change-tasks", "change_request", x)},
                 {Stay("update", updateRecord(r, x), {<<"record", r, x>>, <<"records", r>>, <<"activity", r, x>>})}),
            RecordDetailHeaderActions(r, x, <<r>>),
            RecordActivityFeed(r, x)})

\* the change a task belongs to is shown with it
ChangeTaskDetailPage(x, change) ==
  LET r == "change-tasks"
  IN  Page(<<r, x>>, "ChangeTaskDetailPage",
           {Part({Record(r, x), Record("change-requests", change)},
                 {Stay("update", updateRecord(r, x), {<<"record", r, x>>, <<"records", r>>, <<"activity", r, x>>})}),
            RecordDetailHeaderActions(r, x, <<r>>),
            RecordActivityFeed(r, x)})

CatalogTaskDetailPage(x, request) ==
  LET r == "catalog-tasks"
  IN  Page(<<r, x>>, "CatalogTaskDetailPage",
           {Part({Record(r, x), Record("catalog-requests", request)},
                 {Stay("update", updateRecord(r, x), {<<"record", r, x>>, <<"records", r>>, <<"activity", r, x>>})}),
            RecordDetailHeaderActions(r, x, <<r>>),
            RecordActivityFeed(r, x)})

\* an item, its request, the other items of that, its tasks and its answers
RequestedItemDetailPage(x, request) ==
  LET r == "catalog-request-items"
  IN  Page(<<r, x>>, "RequestedItemDetailPage",
           {Part({Record(r, x), Record("catalog-requests", request),
                  Related(r, "request", request), Related("catalog-tasks", "request_item", x),
                  Query(<<"record-variables", r, x>>, listRecordVariables(r, x))},
                 {Stay("update", updateRecord(r, x), {<<"record", r, x>>, <<"records", r>>, <<"activity", r, x>>})}),
            RecordDetailHeaderActions(r, x, <<r>>),
            RecordActivityFeed(r, x)})

RequestDetailPage(x) ==
  LET r == "catalog-requests"
  IN  Page(<<r, x>>, "RequestDetailPage",
           {Part({Record(r, x), Related("catalog-request-items", "request", x),
                  Related("catalog-tasks", "request", x)},
                 {Stay("update", updateRecord(r, x), {<<"record", r, x>>, <<"records", r>>, <<"activity", r, x>>})}),
            RecordDetailHeaderActions(r, x, <<r>>),
            RecordActivityFeed(r, x)})

ConfigurationItemDetailPage(x, class) ==
  LET r == "configuration-items"
  IN  Page(<<r, x>>, "ConfigurationItemDetailPage",
           {Part({Record(r, x)},
                 {Stay("update", updateRecord(r, x), {<<"record", r, x>>, <<"records", r>>, <<"activity", r, x>>})}),
            ClassHierarchyPanel(class),
            RecordDetailHeaderActions(r, x, <<r>>),
            RecordActivityFeed(r, x)})

\* users and groups have neither a share panel nor a timeline
UsersPage ==
  Page(<<"users">>, "UsersPage",
       {Part({Query(<<"records", "users", "page">>, Rows("users"))},
             {Stay("create", Rows("users"), {<<"records", "users">>, <<"dashboard">>})})})

GroupsListPage ==
  Page(<<"groups">>, "GroupsListPage",
       {Part({Query(<<"records", "groups", "page">>, Rows("groups"))},
             {Stay("create", Rows("groups"), {<<"records", "groups">>, <<"dashboard">>})})})

UserDetailPage(x) ==
  Page(<<"users", x>>, "UserDetailPage",
       {Part({Record("users", x), Records("users")},
             {Stay("update", updateRecord("users", x), {<<"record", "users", x>>, <<"records", "users">>})}),
        RecordDeleteButton("users", x, <<"users">>)})

GroupDetailPage(x) ==
  Page(<<"groups", x>>, "GroupDetailPage",
       {Part({Record("groups", x), Records("users"), Records("groups")},
             {Stay("update", updateRecord("groups", x), {<<"record", "groups", x>>, <<"records", "groups">>})}),
        RecordDeleteButton("groups", x, <<"groups">>)})

DashboardPage == Page(<<"dashboard">>, "DashboardPage", {Part({Query(<<"dashboard">>, dashboard)}, {})})

-----------------------------------------------------------------------------
(***************************************************************************)
(* The catalog.                                                            *)
(***************************************************************************)

catalogItems == Query(<<"catalog-items">>, listCatalogItems)
adminItems == Query(<<"catalog-admin-items">>, adminListCatalogItems)

\* the catalog as users see it
CatalogBrowsePage == Page(<<"catalog">>, "CatalogBrowsePage", {Part({catalogItems}, {})})

\* the same page with Manage on; a new item is opened in the builder
CatalogManagePage(i, made) ==
  LET told == {<<"catalog-admin-items">>, <<"catalog-items">>}
  IN  Page(<<"catalog", "manage">>, "CatalogBrowsePage",
           {Part({adminItems},
                 {Leave("create", adminCreateCatalogItem, told, made),
                  Stay("delete", adminDeleteCatalogItem(i), told)})})

\* the order form; an order invalidates nothing
CatalogItemPage(i) ==
  Page(<<"catalog", "item", i>>, "CatalogItemPage",
       {Part({Query(<<"catalog-item", i>>, getCatalogItem(i)),
              Query(<<"catalog-batch-variable-options", i, "filters">>, getBatchVariableOptions(i))},
             {Stay("order", orderCatalogItem, {})})})

\* the form of a variable; the tables and fields a reference may name
CatalogVariablePopover(i, t) ==
  LET variables == <<"catalog-admin-variables", i>>
  IN  Part({Query(<<"catalog-admin-tables">>, adminListTables),
            Query(<<"catalog-admin-table-fields", t>>, adminListTableFields(t))},
           {Stay("createVariable", adminCreateVariable(i), {variables}), Stay("updateVariable", adminUpdateVariable(i), {variables})})

\* the form of an attached webhook, with a preview of its payload
AttachIntegrationPopover(i) ==
  LET attached == <<"catalog-admin-item-webhooks", i>>
  IN  Part({Query(<<"catalog-webhooks">>, adminListWebhooks),
            Query(<<"catalog-payload-preview", "template">>, adminPayloadPreview)},
           {Stay("attach", adminAttachItemWebhook(i), {attached}), Stay("updateAttached", adminUpdateItemWebhook(i), {attached})})

\* the filter rules of the selected variable
\* variant: a rule that is deleted stays in the list
CatalogFilterConditionsPanelKept(i, v) ==
  LET rules == <<"catalog-admin-conditions", i, v>>
  IN  Part({Query(rules, adminListConditions(i, v))},
           {Stay("createRule", adminCreateCondition(i, v), {rules}), Stay("updateRule", adminUpdateCondition(i, v), {rules}),
            Stay("deleteRule", adminDeleteCondition(i, v), {})})

CatalogFilterConditionsPanel(i, v) ==
  LET rules == <<"catalog-admin-conditions", i, v>>
  IN  Part({Query(rules, adminListConditions(i, v))},
           {Stay("createRule", adminCreateCondition(i, v), {rules}), Stay("updateRule", adminUpdateCondition(i, v), {rules}),
            Stay("deleteRule", adminDeleteCondition(i, v), {rules})})

\* an item, with its variables, its webhooks, and all items for the names of
\* the categories; v is the variable whose rules are shown
CatalogItemBuilderPage(i, v, t) ==
  LET item == <<"catalog-admin-item", i>>
      variables == <<"catalog-admin-variables", i>>
      attached == <<"catalog-admin-item-webhooks", i>>
  IN  Page(<<"catalog", "admin", i, v>>, "CatalogItemBuilderPage",
           {Part({Query(item, adminGetCatalogItem(i)), Query(variables, adminListVariables(i)),
                  Query(attached, adminListItemWebhooks(i)), catalogItems},
                 {Stay("saveChanges", adminUpdateCatalogItem(i), {item, <<"catalog-admin-items">>, <<"catalog-items">>}),
                  Stay("deleteVariable", adminDeleteVariable(i), {variables}), Stay("detach", adminDetachItemWebhook(i), {attached})}),
            CatalogVariablePopover(i, t), AttachIntegrationPopover(i),
            CatalogFilterConditionsPanel(i, v), ReferenceFilterBuilder(t)})

-----------------------------------------------------------------------------
(***************************************************************************)
(* Webhooks and secrets, classes, settings.                                *)
(***************************************************************************)

webhooks == Query(<<"catalog-webhooks">>, adminListWebhooks)
secrets == Query(<<"integration-secrets">>, listSecrets)

CatalogWebhooksPage ==
  Page(<<"webhooks">>, "CatalogWebhooksPage",
       {Part({webhooks, secrets}, {Stay("create", adminCreateWebhook, {<<"catalog-webhooks">>})})})

\* variant: a change of a webhook refreshes the list only
WebhookDetailPageListOnly(w) ==
  LET webhook == <<"catalog-webhook", w>>
  IN  Page(<<"webhooks", w>>, "WebhookDetailPage",
           {Part({Query(webhook, adminGetWebhook(w)), secrets},
                 {Stay("update", adminUpdateWebhook(w), {<<"catalog-webhooks">>}),
                  Leave("delete", adminDeleteWebhook(w), {<<"catalog-webhooks">>}, <<"webhooks">>)}),
            TemplateAutocomplete})

WebhookDetailPage(w) ==
  LET webhook == <<"catalog-webhook", w>>
  IN  Page(<<"webhooks", w>>, "WebhookDetailPage",
           {Part({Query(webhook, adminGetWebhook(w)), secrets},
                 {Stay("update", adminUpdateWebhook(w), {webhook, <<"catalog-webhooks">>}),
                  Leave("delete", adminDeleteWebhook(w), {<<"catalog-webhooks">>}, <<"webhooks">>)}),
            TemplateAutocomplete})

CatalogSecretsPage ==
  Page(<<"secrets">>, "CatalogSecretsPage",
       {Part({secrets}, {Stay("create", createSecret, {<<"integration-secrets">>})})})

SecretDetailPage(s) ==
  LET secret == <<"integration-secret", s>>
  IN  Page(<<"secrets", s>>, "SecretDetailPage",
           {Part({Query(secret, getSecret(s))},
                 {Stay("update", updateSecret(s), {secret, <<"integration-secrets">>}),
                  Leave("delete", deleteSecret(s), {<<"integration-secrets">>}, <<"secrets">>)})})

\* the registry, and the schema of the selected class.  A new class becomes
\* the selected one; one that exists is not made again.
AdminTablesPage(t, made) ==
  LET registry == <<"admin-table-registry">>
      schema == Query(<<"admin-table-schema", t>>, getTableSchema(t))
  IN  Page(<<"tables", t>>, "AdminTablesPage",
           {Part({Query(registry, listTableRegistry), schema},
                 {Leave("create", createTableClass(c), {registry}, <<"tables", c>>) : c \in {made} \ {t}} \cup
                 {Stay("addField", addTableClassField(t), {<<"admin-table-schema", t>>}),
                  Ending("delete", deleteTableClass(t), {registry}, {schema.key})})})

SettingsPage ==
  Page(<<"settings">>, "SettingsPage",
       {Part({Query(<<"api-keys">>, listApiKeys), Query(<<"oauth-clients">>, listOAuthClients)},
             {Stay("createKey", createApiKey, {<<"api-keys">>}), Stay("createClient", createOAuthClient, {<<"oauth-clients">>})})})

\* a page without queries
HelpPage == Page(<<"help">>, "HelpPage", {})

-----------------------------------------------------------------------------
(***************************************************************************)
(* What a page shows that its own mutations do not invalidate: the         *)
(* timeline and the lists after a change of owner, the rules that depended *)
(* on a variable that was deleted, a preview of a delete that is open      *)
(* while something else is written, and the choices of an order form.      *)
(***************************************************************************)
Unrefreshed(key, m) ==
  \/ m.name = "owner" /\ key[1] \in {"activity", "records"}
  \/ m.name = "deleteVariable" /\ key[1] = "catalog-admin-conditions"
  \/ key[1] \in {"cascade-preview", "catalog-batch-variable-options"}

-----------------------------------------------------------------------------
(***************************************************************************)
(* The routes of the application: every page, with ids for the records,    *)
(* what is selected on a page and what may be made there.                  *)
(***************************************************************************)
Lists ==
  {"incidents", "problems", "problem-tasks", "change-requests", "change-tasks", "change-templates",
   "configuration-items", "catalog-requests", "catalog-request-items", "catalog-tasks"}

RecordRoutes(I) ==
  {RecordListPage(r) : r \in Lists} \cup {UsersPage, GroupsListPage} \cup
  {RecordDetailPage(r, x) : r \in {"incidents", "problems", "problem-tasks", "change-templates"}, x \in I} \cup
  (UNION {{ChangeDetailPage(x), RequestDetailPage(x), UserDetailPage(x), GroupDetailPage(x)} : x \in I}) \cup
  UNION {{ChangeTaskDetailPage(x, y), RequestedItemDetailPage(x, y), CatalogTaskDetailPage(x, y),
          ConfigurationItemDetailPage(x, y)} : x, y \in I}

CatalogRoutes(I) ==
  {CatalogBrowsePage} \cup {CatalogItemPage(i) : i \in I} \cup
  {CatalogManagePage(i, made) : i \in I, made \in {<<"catalog", "admin", j, v>> : j, v \in I}} \cup
  {CatalogItemBuilderPage(i, v, t) : i, v, t \in I}

OtherRoutes(I) ==
  {DashboardPage, CatalogWebhooksPage, CatalogSecretsPage, SettingsPage, HelpPage} \cup
  {WebhookDetailPage(x) : x \in I} \cup {SecretDetailPage(x) : x \in I} \cup
  {AdminTablesPage(t, made) : t, made \in I}

Routes(I) == RecordRoutes(I) \cup CatalogRoutes(I) \cup OtherRoutes(I)

=============================================================================
