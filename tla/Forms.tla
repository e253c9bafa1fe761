-------------------------------- MODULE Forms --------------------------------
(***************************************************************************)
(* The forms of the frontend, each by what its component does with the     *)
(* text in it.  EditForm gives them their behaviour, with one field of a   *)
(* form as the field followed.                                             *)
(*                                                                         *)
(* fills     when the field takes the value read: "record", whenever the   *)
(*           data of the query changes; "field", when the value of the     *)
(*           field changes; "once", the first time; "row", when it is      *)
(*           opened on a row of a list; "blank", never, it starts empty    *)
(* sends     "whole", the field goes with every save; "changed", only when *)
(*           it differs from what was read                                 *)
(* done      what success does: "refetch", its query is read again;        *)
(*           "settle", the text sent becomes the saved one; "close", the   *)
(*           popover closes; "clear", the text is cleared                  *)
(* traits    "rest", the form has other fields, and one of them may be why *)
(*           it is saved; "stamped", a write changes other columns of what *)
(*           is read (sys_updated_on), so that an answer always differs;   *)
(*           "drops", a cleared value is not sent; "hidden", the value is  *)
(*           never read; "kept", the text is the page's, and is there      *)
(*           whatever the page has read.  Of a save that waits for the     *)
(*           connection: "late", its text is read when it is sent, and     *)
(*           not handed over at the click; "addressed", its record is      *)
(*           handed over, too; "direct", it does not wait, but fails       *)
(* controls  what the user can do: "type", "save"; "open", "blur",         *)
(*           "escape", "press" (an editor in the page); "start", "close"   *)
(*           (a popover); "other", the component stays for another record  *)
(***************************************************************************)

FillModes == {"record", "field", "once", "row", "blank"}
DoneModes == {"refetch", "settle", "close", "clear"}
Traits == {"rest", "stamped", "drops", "hidden", "kept", "late", "addressed", "direct"}
ControlNames == {"type", "save", "open", "blur", "escape", "press", "start", "close", "other"}

FormTypes == [fills : FillModes, sends : {"whole", "changed"}, done : DoneModes,
              traits : SUBSET Traits, controls : SUBSET ControlNames]

\* the page of a record: all of its form is sent
RecordForm(controls) ==
  [fills |-> "record", sends |-> "whole", done |-> "refetch", traits |-> {"rest", "stamped"}, controls |-> controls]

\* the page of a webhook or secret: what differs is sent, and no column
\* tells one version from another
PatchForm(traits, controls) ==
  [fills |-> "record", sends |-> "changed", done |-> "refetch", traits |-> {"rest", "late"} \cup traits, controls |-> controls]

\* a popover, or a form beside its list, for one row of it
RowForm(traits, controls) ==
  [fills |-> "row", sends |-> "whole", done |-> "close", traits |-> {"rest"} \cup traits, controls |-> controls]

\* a form for something new
NewForm(traits, controls) ==
  [fills |-> "blank", sends |-> "whole", done |-> "clear", traits |-> traits, controls |-> controls]

-----------------------------------------------------------------------------
(***************************************************************************)
(* The pages of records.                                                   *)
(***************************************************************************)

RecordDetailControls == {"type", "save", "other"}
RecordDetailForm == RecordForm(RecordDetailControls)

ChangeDetailControls == {"type", "save", "other"}
ChangeDetailForm == RecordForm(ChangeDetailControls)

RequestDetailControls == {"type", "save", "other"}
RequestDetailForm == RecordForm(RequestDetailControls)

RequestedItemDetailControls == {"type", "save", "other"}
RequestedItemDetailForm == RecordForm(RequestedItemDetailControls)

UserDetailControls == {"type", "save", "other"}
UserDetailForm == RecordForm(UserDetailControls)

GroupDetailControls == {"type", "save", "other"}
GroupDetailForm == RecordForm(GroupDetailControls)

\* a task has its fields, and notes that are edited in place; either button
\* sends all of them, and the one of the notes is pressed and let go
ChangeTaskControls == {"type", "save", "other"}
ChangeTaskNotesControls == {"open", "type", "blur", "escape", "press", "save", "other"}
ChangeTaskForm == RecordForm(ChangeTaskControls)
ChangeTaskNotesForm == RecordForm(ChangeTaskNotesControls)

CatalogTaskControls == {"type", "save", "other"}
CatalogTaskNotesControls == {"open", "type", "blur", "escape", "press", "save", "other"}
CatalogTaskForm == RecordForm(CatalogTaskControls)
CatalogTaskNotesForm == RecordForm(CatalogTaskNotesControls)

\* an item's attributes without a column go as one map, when it has changed
ConfigurationItemControls == {"type", "save", "other"}
ConfigurationItemForm == RecordForm(ConfigurationItemControls)
OtherPropertiesControls == {"type", "save", "other"}
OtherPropertiesForm ==
  [fills |-> "record", sends |-> "changed", done |-> "refetch", traits |-> {"rest", "stamped"},
   controls |-> OtherPropertiesControls]

\* owner and owner group, in the share popover
OwnershipControls == {"type", "save", "other"}
OwnershipForm ==
  [fills |-> "field", sends |-> "whole", done |-> "refetch", traits |-> {"rest", "stamped"}, controls |-> OwnershipControls]

\* the comment under a record
ComposerControls == {"type", "save", "other"}
ComposerForm == NewForm({}, ComposerControls)

-----------------------------------------------------------------------------
(***************************************************************************)
(* The catalog and the integrations.                                       *)
(***************************************************************************)

BuilderControls == {"type", "save", "other"}
BuilderForm ==
  [fills |-> "once", sends |-> "whole", done |-> "settle", traits |-> {"rest", "direct"}, controls |-> BuilderControls]

VariableControls == {"start", "type", "save", "close"}
VariableForm == RowForm({"late"}, VariableControls)

AttachControls == {"start", "type", "save", "close"}
AttachForm == RowForm({"late"}, AttachControls)

\* a rule is edited under the list of rules, where another may be started
FilterRuleControls == {"start", "type", "save", "close", "other"}
FilterRuleForm == RowForm({"addressed"}, FilterRuleControls)

WebhookControls == {"type", "save", "other"}
WebhookForm == PatchForm({}, WebhookControls)
WebhookDescriptionForm == PatchForm({"drops"}, WebhookControls)
WebhookSecretForm == PatchForm({"hidden"}, WebhookControls)

SecretControls == {"type", "save", "other"}
SecretDescriptionForm == PatchForm({"drops"}, SecretControls)
SecretValueForm == PatchForm({"hidden"}, SecretControls)

-----------------------------------------------------------------------------
(***************************************************************************)
(* Something new: a form that the button of the page shows and hides, or   *)
(* one that is always there.                                               *)
(***************************************************************************)

\* of any table: the component stays from one list to the next
CreateRecordForm == NewForm({"rest", "kept"}, {"open", "type", "save", "other"})
CreateUserForm == NewForm({"rest", "late"}, {"open", "type", "save"})
CreateGroupForm == NewForm({"rest", "late"}, {"open", "type", "save"})
CreateWebhookForm == NewForm({"rest", "late"}, {"open", "type", "save"})
CreateSecretForm == NewForm({"rest", "late"}, {"open", "type", "save"})
GrantForm == NewForm({"late"}, {"type", "save", "other"})
ApiKeyForm == NewForm({"late"}, {"type", "save"})
OAuthClientForm == NewForm({"rest", "late"}, {"type", "save"})
AddFieldForm == NewForm({"rest", "kept", "late"}, {"type", "save", "other"})

\* all of them; forms that are alike are one
AllForms ==
  {RecordDetailForm, ChangeDetailForm, RequestDetailForm, RequestedItemDetailForm, UserDetailForm, GroupDetailForm,
   ChangeTaskForm, ChangeTaskNotesForm, CatalogTaskForm, CatalogTaskNotesForm, ConfigurationItemForm,
   OtherPropertiesForm, OwnershipForm, ComposerForm, BuilderForm, VariableForm, AttachForm, FilterRuleForm,
   WebhookForm, WebhookDescriptionForm, WebhookSecretForm, SecretDescriptionForm, SecretValueForm, CreateRecordForm,
   CreateUserForm, CreateGroupForm, CreateWebhookForm, CreateSecretForm, GrantForm, ApiKeyForm, OAuthClientForm, AddFieldForm}

=============================================================================
