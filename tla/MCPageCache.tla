---------------------------- MODULE MCPageCache ----------------------------
(***************************************************************************)
(* The pages of the frontend by area, with one record of each kind, a      *)
(* second one where the component may stay while the path changes, and a   *)
(* page that has nothing to do with the area.                              *)
(***************************************************************************)
EXTENDS PageCache

MCSite ==
  [incidents |-> {RecordListPage("incidents"), RecordDetailPage("incidents", "a"),
                  RecordDetailPage("incidents", "b"), RecordDetailPage("problems", "a"), RecordListPage("problems"), DashboardPage},
   changes |-> {RecordListPage("change-tasks"), RecordListPage("change-requests"), ChangeDetailPage("a"), ChangeDetailPage("b"),
                ChangeTaskDetailPage("a", "a"), ChangeTaskDetailPage("b", "a")},
   requests |-> {RecordListPage(r) : r \in {"catalog-requests", "catalog-request-items", "catalog-tasks"}} \cup
               {RequestDetailPage("a"), RequestedItemDetailPage("a", "a"), RequestedItemDetailPage("b", "a"),
                 CatalogTaskDetailPage("a", "a"), CatalogTaskDetailPage("b", "a")},
   items |-> {RecordListPage("configuration-items"), ConfigurationItemDetailPage("a", "server"),
              ConfigurationItemDetailPage("b", "server"), AdminTablesPage("server", "made"),
              AdminTablesPage("made", "made")},
   access |-> {UsersPage, UserDetailPage("a"), UserDetailPage("b"), GroupsListPage, GroupDetailPage("a"),
               GroupDetailPage("b")},
   catalog |-> {CatalogBrowsePage, CatalogManagePage("a", <<"catalog", "admin", "a", "v">>),
                CatalogItemPage("a"), CatalogItemBuilderPage("a", "v", "server"),
                CatalogItemBuilderPage("a", "w", "server"), RecordListPage("catalog-requests")},
   integrations |-> {CatalogWebhooksPage, WebhookDetailPage("a"), WebhookDetailPage("b"),
                     CatalogSecretsPage, SecretDetailPage("a"), SecretDetailPage("b")},
   settings |-> {SettingsPage, HelpPage}]

=============================================================================
