--------------------------- MODULE EditFormProofs ---------------------------
(***************************************************************************)
(* Proofs about EditForm, for every number of records and values.          *)
(***************************************************************************)
EXTENDS EditForm, TLAPS

\* what the proofs use of the table of forms
FormFactOf(f) ==
  /\ f \in FormTypes
  /\ "kept" \in f.traits => f.fills = "blank" /\ {"blur", "escape"} \cap f.controls = {}
  /\ f.fills = "record" => f.done = "refetch" /\ {"addressed", "direct"} \cap f.traits = {}
  /\ "blur" \in f.controls =>
       f.fills = "record" /\ "open" \in f.controls /\ "stamped" \in f.traits /\ {"drops", "hidden"} \cap f.traits = {}

FormFact == FormFactOf(form)

\* an editor that closes when it loses the focus has been opened
EditorControls == {c \in SUBSET ControlNames : "blur" \in c => "open" \in c}
PlainControls == SUBSET (ControlNames \ {"blur", "escape"})

LEMMA RecordFormFact ==
  ASSUME NEW controls \in EditorControls
  PROVE  FormFactOf(RecordForm(controls))
BY DEF EditorControls, RecordForm, FormFactOf, FormTypes, FillModes, DoneModes, Traits

LEMMA PatchFormFact ==
  ASSUME NEW traits \in SUBSET {"drops", "hidden"}, NEW controls \in PlainControls
  PROVE  FormFactOf(PatchForm(traits, controls))
<1>1. /\ controls \in SUBSET ControlNames /\ "blur" \notin controls
      /\ {"rest", "late"} \cup traits \in SUBSET Traits
      /\ {"kept", "addressed", "direct"} \cap ({"rest", "late"} \cup traits) = {}
  BY DEF PlainControls, Traits
<1> QED
  BY <1>1 DEF PatchForm, FormFactOf, FormTypes, FillModes, DoneModes

LEMMA RowFormFact ==
  ASSUME NEW traits \in SUBSET {"late", "addressed"}, NEW controls \in PlainControls
  PROVE  FormFactOf(RowForm(traits, controls))
BY DEF PlainControls, RowForm, FormFactOf, FormTypes, FillModes, DoneModes, Traits

LEMMA NewFormFact ==
  ASSUME NEW traits \in SUBSET Traits, NEW controls \in PlainControls
  PROVE  FormFactOf(NewForm(traits, controls))
BY DEF PlainControls, NewForm, FormFactOf, FormTypes, FillModes, DoneModes

LEMMA AllFormsFact ==
  ASSUME NEW f \in AllForms
  PROVE  FormFactOf(f)
<1>1. /\ {"type", "save", "other"} \in EditorControls
      /\ {"open", "type", "blur", "escape", "press", "save", "other"} \in EditorControls
  BY DEF EditorControls, ControlNames
<1>2. /\ {"type", "save", "other"} \in PlainControls /\ {"type", "save"} \in PlainControls
      /\ {"open", "type", "save"} \in PlainControls /\ {"open", "type", "save", "other"} \in PlainControls
      /\ {"start", "type", "save", "close"} \in PlainControls /\ {"start", "type", "save", "close", "other"} \in PlainControls
  BY DEF PlainControls, ControlNames
<1>3. /\ {} \in SUBSET Traits /\ {"late"} \in SUBSET Traits /\ {"rest", "late"} \in SUBSET Traits
      /\ {"rest", "kept"} \in SUBSET Traits /\ {"rest", "kept", "late"} \in SUBSET Traits
  BY DEF Traits
<1>4. /\ FormFactOf(RecordDetailForm) /\ FormFactOf(ChangeDetailForm)
      /\ FormFactOf(RequestDetailForm) /\ FormFactOf(RequestedItemDetailForm)
  BY <1>1, RecordFormFact DEF RecordDetailForm, ChangeDetailForm, RequestDetailForm, RequestedItemDetailForm,
    RecordDetailControls, ChangeDetailControls, RequestDetailControls, RequestedItemDetailControls
<1>5. /\ FormFactOf(UserDetailForm) /\ FormFactOf(GroupDetailForm) /\ FormFactOf(ChangeTaskForm)
      /\ FormFactOf(CatalogTaskForm) /\ FormFactOf(ConfigurationItemForm)
  BY <1>1, RecordFormFact DEF UserDetailForm, GroupDetailForm, ChangeTaskForm, CatalogTaskForm, ConfigurationItemForm,
    UserDetailControls, GroupDetailControls, ChangeTaskControls, CatalogTaskControls, ConfigurationItemControls
<1>6. FormFactOf(ChangeTaskNotesForm) /\ FormFactOf(CatalogTaskNotesForm)
  BY <1>1, RecordFormFact DEF ChangeTaskNotesForm, CatalogTaskNotesForm, ChangeTaskNotesControls, CatalogTaskNotesControls
<1>7. FormFactOf(OtherPropertiesForm)
  BY DEF FormFactOf, OtherPropertiesForm, OtherPropertiesControls, FormTypes, FillModes, DoneModes, Traits, ControlNames
<1>8. FormFactOf(OwnershipForm)
  BY DEF FormFactOf, OwnershipForm, OwnershipControls, FormTypes, FillModes, DoneModes, Traits, ControlNames
<1>9. FormFactOf(BuilderForm)
  BY DEF FormFactOf, BuilderForm, BuilderControls, FormTypes, FillModes, DoneModes, Traits, ControlNames
<1>10. FormFactOf(VariableForm) /\ FormFactOf(AttachForm) /\ FormFactOf(FilterRuleForm)
  BY <1>2, RowFormFact DEF VariableForm, AttachForm, FilterRuleForm, VariableControls, AttachControls, FilterRuleControls
<1>11. FormFactOf(WebhookForm) /\ FormFactOf(WebhookDescriptionForm) /\ FormFactOf(WebhookSecretForm)
  BY <1>2, PatchFormFact DEF WebhookForm, WebhookDescriptionForm, WebhookSecretForm, WebhookControls
<1>12. FormFactOf(SecretDescriptionForm) /\ FormFactOf(SecretValueForm)
  BY <1>2, PatchFormFact DEF SecretDescriptionForm, SecretValueForm, SecretControls
<1>13. FormFactOf(ComposerForm) /\ FormFactOf(GrantForm) /\ FormFactOf(ApiKeyForm)
  BY <1>2, <1>3, NewFormFact DEF ComposerForm, GrantForm, ApiKeyForm, ComposerControls
<1>14. FormFactOf(CreateUserForm) /\ FormFactOf(CreateGroupForm) /\ FormFactOf(CreateWebhookForm) /\ FormFactOf(CreateSecretForm)
  BY <1>2, <1>3, NewFormFact DEF CreateUserForm, CreateGroupForm, CreateWebhookForm, CreateSecretForm
<1>15. FormFactOf(CreateRecordForm) /\ FormFactOf(AddFieldForm) /\ FormFactOf(OAuthClientForm)
  BY <1>2, <1>3, NewFormFact DEF CreateRecordForm, AddFieldForm, OAuthClientForm
<1> QED
  BY <1>4, <1>5, <1>6, <1>7, <1>8, <1>9, <1>10, <1>11, <1>12, <1>13, <1>14, <1>15 DEF AllForms

-----------------------------------------------------------------------------
(***************************************************************************)
(* The invariant: a text that may be saved is from the record on the       *)
(* screen, and one that was not touched is what was read of it.            *)
(***************************************************************************)

Origin == at # None /\ (Listed \/ Loaded(at)) /\ ~ CarriesOver => draft.from = at

Shown ==
  at # None /\ Loaded(at) /\ form.fills = "record" /\ draft.typed = "no" => draft.text = Read(entry[at])

\* a save that waits is of the record of the click, which has been read
WaitsFor(r) == r.from = r.clicked /\ (Listed \/ Loaded(r.clicked))
Clicked == Waiting /\ req.live /\ ~ CarriesOver => WaitsFor(req)

IInv == TypeOK /\ FormFact /\ Origin /\ Shown /\ Clicked /\ SavedWhereTyped

LEMMA FilledType ==
  ASSUME NEW t \in Targets, NEW e \in Contents
  PROVE  /\ Read(e) \in Values
         /\ Filled(t, e) \in Drafts
         /\ Filled(t, e).from = t /\ Filled(t, e).text = Read(e)
BY ValuesAssumption DEF Read, Filled, Drafts, Contents

\* a save that is still there as it was, or answered, while no record is
\* forgotten, is right as it was
LEMMA SameSave ==
  ASSUME IInv, form' = form, \A t \in Targets : Loaded(t) => Loaded(t)',
         \/ req' = None
         \/ /\ req # None /\ req' # None /\ req'.from = req.from /\ req'.for = req.for /\ req'.clicked = req.clicked
            /\ req'.stage = "paused" => Waiting
            /\ req'.live => req.live
  PROVE  Clicked' /\ SavedWhereTyped'
<1>1. req # None => req.clicked \in Targets
  BY DEF IInv, TypeOK, Requests
<1> QED
  BY <1>1 DEF IInv, Clicked, WaitsFor, SavedWhereTyped, Waiting, CarriesOver, Listed

\* what the last rendering sends, to the record of the click, is from it
LEMMA RenderedType ==
  ASSUME IInv, Waiting, req.live, at \in Targets
  PROVE  /\ Rendered(req) \in Requests
         /\ Rendered(req).stage = req.stage /\ Rendered(req).live = req.live /\ Rendered(req).told = req.told
         /\ ~ CarriesOver /\ Rendered(req).for = Rendered(req).clicked => Rendered(req).from = Rendered(req).for
<1>1. req \in Requests /\ draft \in Drafts /\ Sent \in Values \cup {None}
  BY DEF Waiting, Sent, IInv, TypeOK, Drafts
<1>2. CASE Is("addressed")
  BY <1>1, <1>2 DEF Rendered, IInv, SavedWhereTyped, Waiting
<1>3. CASE ~ Is("addressed") /\ Is("late")
  <2>1. Rendered(req) = [req EXCEPT !.for = at, !.sent = Sent, !.text = draft.text, !.from = draft.from]
    BY <1>3 DEF Rendered
  <2>2. ~ CarriesOver /\ at = req.clicked => draft.from = at
    <3>1. at # None
      BY NoneAssumption, ValuesAssumption
    <3> QED
      BY <3>1 DEF IInv, Origin, Clicked, WaitsFor
  <2> QED
    BY <1>1, <2>1, <2>2 DEF Requests, Drafts
<1>4. CASE ~ Is("addressed") /\ ~ Is("late")
  <2>1. Rendered(req) = [req EXCEPT !.for = at]
    BY <1>4 DEF Rendered
  <2>2. ~ CarriesOver => req.from = req.clicked
    BY DEF IInv, Clicked, WaitsFor
  <2> QED
    BY <1>1, <2>1, <2>2 DEF Requests
<1> QED
  BY <1>2, <1>3, <1>4

LEMMA LeftType ==
  ASSUME IInv, Pending, at \in Targets
  PROVE  /\ Left \in Requests /\ ~ Left.live
         /\ ~ CarriesOver /\ Left.for = Left.clicked => Left.from = Left.for
<1>1. req \in Requests /\ req.live
  BY DEF Pending, IInv, TypeOK
<1>2. CASE Waiting
  BY <1>1, <1>2, RenderedType DEF Left, Requests
<1>3. CASE ~ Waiting
  BY <1>1, <1>3 DEF Left, Requests, IInv, SavedWhereTyped, Pending
<1> QED
  BY <1>2, <1>3

LEMMA BlankType ==
  ASSUME NEW t \in Targets \cup {None}
  PROVE  Blank(t) \in Drafts /\ Blank(t).from = t
BY ValuesAssumption DEF Blank, Drafts

LEMMA LoadedType ==
  ASSUME TypeOK, NEW t \in Targets, Loaded(t)
  PROVE  entry[t] \in Contents
BY DEF TypeOK, Loaded

LEMMA InitIInv == Init => IInv
<1> SUFFICES ASSUME Init PROVE IInv
  OBVIOUS
<1>1. TypeOK
  <2>1. FormFact
    BY AllFormsFact DEF Init, FormFact, FormFactOf
  <2>2. draft \in Drafts
    BY BlankType DEF Init
  <2>3. entry \in [Targets -> Contents \cup {None}] /\ fetch \subseteq Targets
    BY DEF Init
  <2>4. server \in [Targets -> Values]
    BY ValuesAssumption DEF Init
  <2> QED
    BY <2>1, <2>2, <2>3, <2>4 DEF Init, TypeOK, FormFact, FormFactOf
<1>2. FormFact
  BY AllFormsFact DEF Init, FormFact, FormFactOf
<1> QED
  BY <1>1, <1>2 DEF Init, IInv, Origin, Shown, Clicked, Waiting, SavedWhereTyped

\* the new draft is right for the record the path has changed to
LEMMA VisitStep ==
  ASSUME IInv, NEW t \in Targets, Visit(t)
  PROVE  IInv'
<1>1. draft' \in Drafts /\ draft'.from = t /\ (Loaded(t) /\ form.fills = "record" => draft' = Filled(t, entry[t]))
  BY FilledType, BlankType, LoadedType DEF Visit, IInv
<1>2. TypeOK'
  BY <1>1 DEF Visit, IInv, TypeOK, Hides, Can, Listed
<1>3. Origin' /\ Shown'
  BY <1>1, FilledType, LoadedType DEF Visit, IInv, Origin, Shown, Loaded, Read, Is
<1> QED
  BY <1>2, <1>3, SameSave DEF Visit, IInv, FormFact, FormFactOf, Loaded, Waiting

LEMMA SwitchStep ==
  ASSUME IInv, NEW t \in Targets, Switch(t)
  PROVE  IInv'
<1>0. at \in Targets /\ (Listed => Loaded(t))
  BY DEF Switch, IInv, TypeOK
<1>1. /\ draft' \in Drafts
      /\ (Listed \/ Loaded(t)) /\ ~ CarriesOver => draft' = Filled(t, entry[t])
  <2>1. Carried(t) \in Drafts
    BY <1>0, FilledType, BlankType, LoadedType DEF Carried, IInv, TypeOK, Listed
  <2>2. (Listed \/ Loaded(t)) /\ ~ CarriesOver => Carried(t) = Filled(t, entry[t])
    BY <1>0, ValuesAssumption DEF Carried, CarriesOver, Listed, IInv, FormFact, FormFactOf, FormTypes, FillModes
  <2> QED
    BY <2>1, <2>2 DEF Switch
<1>2. req' \in Requests \cup {None} /\ Clicked' /\ SavedWhereTyped'
  <2>1. UNCHANGED <<form, entry>>
    BY DEF Switch
  <2>2. CASE ~ Pending
    BY <2>1, <2>2, SameSave DEF Switch, IInv, TypeOK, Loaded, Waiting
  <2>3. CASE Pending /\ Stays(t)
    <3>1. req' = Followed(t) /\ req \in Requests /\ req # None
      BY <2>3 DEF Switch, Pending, IInv, TypeOK
    <3>2. /\ req' \in Requests /\ req'.from = req.from /\ req'.for = req.for /\ req'.clicked = req.clicked
          /\ req'.stage = req.stage /\ req'.live = req.live
      BY <3>1 DEF Followed, Requests
    <3> QED
      BY <2>1, <3>1, <3>2, NoneAssumption, SameSave DEF Loaded, Waiting
  <2>4. CASE Pending /\ ~ Stays(t)
    <3>1. req' = Left
      BY <2>4 DEF Switch
    <3> QED
      BY <1>0, <2>1, <2>4, <3>1, LeftType DEF Clicked, SavedWhereTyped, CarriesOver
  <2> QED
    BY <2>2, <2>3, <2>4
<1>3. TypeOK'
  BY <1>0, <1>1, <1>2 DEF Switch, IInv, TypeOK, Listed
<1>4. Origin' /\ Shown'
  BY <1>0, <1>1, FilledType, LoadedType DEF Switch, IInv, Origin, Shown, Loaded, Read, Is, CarriesOver, Listed
<1> QED
  BY <1>2, <1>3, <1>4 DEF Switch, IInv, FormFact, FormFactOf

LEMMA LeaveStep ==
  ASSUME IInv, Leave
  PROVE  IInv'
<1>1. draft' \in Drafts
  BY BlankType DEF Leave
<1>2. req' \in Requests \cup {None} /\ Clicked' /\ SavedWhereTyped'
  <2>1. UNCHANGED <<form, entry>> /\ at \in Targets
    BY DEF Leave, IInv, TypeOK
  <2>2. CASE ~ (Pending /\ ~ Listed)
    BY <2>1, <2>2, SameSave DEF Leave, IInv, TypeOK, Loaded, Waiting
  <2>3. CASE Pending /\ ~ Listed
    <3>1. req' = Left
      BY <2>3 DEF Leave
    <3> QED
      BY <2>1, <2>3, <3>1, LeftType DEF Clicked, SavedWhereTyped, CarriesOver
  <2> QED
    BY <2>2, <2>3
<1> QED
  BY <1>1, <1>2 DEF Leave, IInv, TypeOK, FormFact, FormFactOf, Origin, Shown

\* controls that leave the text and where it is from as they are
LEMMA ControlStep ==
  ASSUME IInv, Open \/ Hold \/ Drag
  PROVE  IInv'
<1>1. CASE Open
  BY <1>1 DEF Open, Can, IInv, TypeOK, FormFact, FormFactOf, Origin, Shown, Clicked, WaitsFor, Waiting, SavedWhereTyped, CarriesOver, Loaded, Listed,
    Read, Is
<1>2. CASE Hold
  BY <1>2 DEF Hold, IInv, TypeOK, FormFact, FormFactOf, Origin, Shown, Clicked, WaitsFor, Waiting, SavedWhereTyped, CarriesOver, Loaded, Listed,
    Read, Is
<1>3. CASE Drag
  <2>1. TypeOK'
    BY <1>3 DEF Drag, IInv, TypeOK
  <2>2. Clicked' /\ SavedWhereTyped'
    BY <1>3, SameSave DEF Drag, Loaded, Waiting
  <2> QED
    BY <1>3, <2>1, <2>2 DEF Drag, IInv, FormFact, FormFactOf, Origin, Shown, CarriesOver, Loaded, Listed, Read, Is
<1> QED
  BY <1>1, <1>2, <1>3

LEMMA TypeStep ==
  ASSUME IInv, NEW v \in Values, Type(v)
  PROVE  IInv'
<1>1. at \in Targets
  BY DEF Type, Ready, IInv, TypeOK
<1>2. draft' \in Drafts /\ draft'.from = at /\ draft'.typed = "typed"
  BY <1>1 DEF Type, IInv, TypeOK, Drafts
<1>3. TypeOK'
  BY <1>2 DEF Type, IInv, TypeOK, Can
<1> QED
  BY <1>2, <1>3 DEF Type, IInv, FormFact, FormFactOf, Origin, Shown, Clicked, WaitsFor, Waiting, SavedWhereTyped, CarriesOver, Loaded, Listed,
    Read, Is

\* what is sent is from the record on the screen, for which it is sent
LEMMA SubmitStep ==
  ASSUME IInv, Ready, Submit, UNCHANGED <<form, at, server, entry, fetch>>
  PROVE  /\ req' \in Requests /\ draft' \in Drafts
         /\ FormFact' /\ Origin' /\ Shown' /\ Clicked' /\ SavedWhereTyped'
<1>1. at \in Targets
  BY DEF Ready, IInv, TypeOK
<1>2. Sent \in Values \cup {None}
  BY DEF Sent, IInv, TypeOK, Drafts
<1>3. draft' \in Drafts /\ draft'.from = draft.from /\ draft'.text = draft.text /\ (draft'.typed = "no" => draft.typed = "no")
  BY DEF Submit, Given, IInv, TypeOK, Drafts
<1>4. req' \in Requests /\ req'.for = at /\ req'.clicked = at /\ req'.from = draft.from
  BY <1>1, <1>2 DEF Submit, IInv, TypeOK, Drafts, Requests
<1>5. ~ CarriesOver => draft.from = at /\ Loaded(at)
  BY DEF Ready, IInv, FormFact, FormFactOf, Origin, CarriesOver, Is
<1> QED
  BY <1>3, <1>4, <1>5 DEF IInv, FormFact, FormFactOf, Origin, Shown, Clicked, WaitsFor, Waiting, SavedWhereTyped, CarriesOver, Loaded, Listed,
    Read, Is

LEMMA SaveStep ==
  ASSUME IInv, Save \/ Press
  PROVE  IInv'
<1>1. CASE Save
  <2>1. Ready /\ Submit /\ UNCHANGED <<form, at, open, focus, mouse, saving, server, entry, fetch, failed>>
    BY <1>1 DEF Save, Enabled
  <2> QED
    BY <2>1, SubmitStep DEF IInv, TypeOK
<1>2. CASE Press
  <2>1. /\ Ready /\ Submit /\ UNCHANGED <<form, at, open, focus, server, entry, fetch, failed>>
        /\ mouse' = FALSE /\ saving' = FALSE
    BY <1>2 DEF Press, Enabled
  <2> QED
    BY <2>1, SubmitStep DEF IInv, TypeOK
<1> QED
  BY <1>1, <1>2

LEMMA RevertStep ==
  ASSUME IInv, Blur \/ Escape
  PROVE  IInv'
<1>1. at \in Targets /\ Loaded(at)
  BY DEF Blur, Escape, Ready, Is, Can, IInv, TypeOK, FormFact, FormFactOf
<1>2. UNCHANGED <<form, at, mouse, saving, server, entry, fetch, failed, req>>
  BY DEF Blur, Escape
<1>3. open' \in BOOLEAN /\ focus' \in BOOLEAN /\ (draft' = draft \/ draft' = Filled(at, entry[at]))
  BY DEF Blur, Escape, Reverted, IInv, TypeOK
<1>4. /\ draft' \in Drafts
      /\ draft' = draft \/ (draft'.from = at /\ draft'.text = Read(entry[at]))
  BY <1>1, <1>3, FilledType, LoadedType DEF IInv, TypeOK
<1>5. TypeOK'
  BY <1>2, <1>3, <1>4 DEF IInv, TypeOK
<1>6. Origin' /\ Shown'
  BY <1>2, <1>4 DEF IInv, Origin, Shown, CarriesOver, Loaded, Listed, Read, Is
<1> QED
  BY <1>2, <1>5, <1>6, SameSave DEF IInv, FormFact, FormFactOf, Loaded, Waiting

-----------------------------------------------------------------------------
\* what is written to a record leaves the value that was read of it
LEMMA WritesStep ==
  ASSUME IInv, NEW t \in Targets, NEW v \in Values \cup {None}, NEW others \in BOOLEAN,
         Writes(t, v, others), UNCHANGED <<form, at, draft>>
  PROVE  /\ server' \in [Targets -> Values]
         /\ entry' \in [Targets -> Contents \cup {None}]
         /\ FormFact' /\ Origin' /\ Shown' /\ (\A u \in Targets : Loaded(u) => Loaded(u)')
<1>1. server' \in [Targets -> Values]
  BY DEF Writes, IInv, TypeOK
<1>2. ASSUME NEW u \in Targets
      PROVE  /\ entry'[u] \in Contents \cup {None}
             /\ Loaded(u)' => Loaded(u) /\ entry'[u].val = entry[u].val
             /\ Loaded(u) => Loaded(u)'
  BY NoneAssumption DEF Writes, IInv, TypeOK, Contents, Loaded
<1>3. entry' \in [Targets -> Contents \cup {None}]
  <2>1. entry' = [u \in Targets |-> entry'[u]]
    BY DEF Writes, IInv, TypeOK
  <2> QED
    BY <1>2, <2>1
<1>4. at \in Targets => (Loaded(at)' => Loaded(at) /\ entry'[at].val = entry[at].val)
  BY <1>2 DEF Loaded
<1> QED
  BY <1>1, <1>2, <1>3, <1>4 DEF IInv, TypeOK, FormFact, FormFactOf, Origin, Shown, CarriesOver, Loaded, Listed, Read, Is

LEMMA ApplyStep ==
  ASSUME IInv, Apply
  PROVE  IInv'
<1>1. PICK others \in BOOLEAN : Writes(req.for, req.sent, others)
  BY DEF Apply
<1>2. req \in Requests /\ req.for \in Targets /\ req.sent \in Values \cup {None}
  BY DEF Apply, IInv, TypeOK, Requests
<1>3. UNCHANGED <<form, at, open, draft, focus, mouse, saving, fetch, failed>>
  BY DEF Apply
<1>4. /\ req' \in Requests /\ req'.from = req.from /\ req'.for = req.for /\ req'.clicked = req.clicked
      /\ req'.stage = "done" /\ req # None
  BY <1>2 DEF Apply, Requests
<1>5. /\ server' \in [Targets -> Values] /\ entry' \in [Targets -> Contents \cup {None}]
      /\ FormFact' /\ Origin' /\ Shown' /\ (\A t \in Targets : Loaded(t) => Loaded(t)')
  BY <1>1, <1>2, <1>3, WritesStep
<1>6. Clicked' /\ SavedWhereTyped'
  BY <1>3, <1>4 DEF IInv, Clicked, Waiting, SavedWhereTyped, CarriesOver
<1> QED
  BY <1>2, <1>3, <1>4, <1>5, <1>6 DEF IInv, TypeOK

\* the save goes out as the last rendering has it
LEMMA ReconnectStep ==
  ASSUME IInv, Reconnect
  PROVE  IInv'
<1>1. UNCHANGED <<form, at, open, focus, mouse, saving, server, entry, fetch, failed>> /\ req \in Requests /\ Waiting
  BY DEF Reconnect, Waiting, IInv, TypeOK
<1>2. draft' \in Drafts /\ draft'.from = draft.from /\ draft'.text = draft.text /\ (draft'.typed = "no" => draft.typed = "no")
  BY DEF Reconnect, Given, IInv, TypeOK, Drafts
<1>3. /\ req' \in Requests \cup {None}
      /\ req' # None => req'.stage = "sent"
      /\ req' # None /\ ~ CarriesOver /\ req'.for = req'.clicked => req'.from = req'.for
  <2>1. CASE req' = None
    BY <2>1
  <2>2. CASE req' = [req EXCEPT !.stage = "sent"]
    BY <1>1, <2>2 DEF IInv, SavedWhereTyped, Waiting, Requests
  <2>3. CASE req' = [Rendered(req) EXCEPT !.stage = "sent"] /\ req.live /\ at # None
    <3>1. at \in Targets
      BY <2>3 DEF IInv, TypeOK
    <3> QED
      BY <1>1, <2>3, <3>1, RenderedType DEF Requests
  <2>4. CASE req' = [Rendered(req) EXCEPT !.stage = "sent"] /\ Is("addressed")
    <3>1. req' = [req EXCEPT !.stage = "sent"]
      BY <2>4 DEF Rendered
    <3> QED
      BY <2>2, <3>1
  <2> QED
    BY <1>1, <2>1, <2>2, <2>3, <2>4 DEF Reconnect, Requests
<1>4. Clicked' /\ SavedWhereTyped'
  BY <1>1, <1>3 DEF Clicked, Waiting, SavedWhereTyped, CarriesOver
<1>5. TypeOK'
  BY <1>1, <1>2, <1>3 DEF IInv, TypeOK
<1> QED
  BY <1>1, <1>2, <1>4, <1>5 DEF IInv, FormFact, FormFactOf, Origin, Shown, CarriesOver, Loaded, Listed, Read, Is

LEMMA OtherWritesStep ==
  ASSUME IInv, NEW t \in Targets, NEW v \in Values \cup {None}, OtherWrites(t, v)
  PROVE  IInv'
<1>1. /\ server' \in [Targets -> Values] /\ entry' \in [Targets -> Contents \cup {None}]
      /\ FormFact' /\ Origin' /\ Shown' /\ (\A u \in Targets : Loaded(u) => Loaded(u)')
  BY WritesStep DEF OtherWrites
<1>2. form' = form /\ req' = req
  BY DEF OtherWrites
<1>3. Clicked' /\ SavedWhereTyped'
  BY <1>1, <1>2, SameSave DEF Waiting
<1> QED
  BY <1>1, <1>2, <1>3 DEF OtherWrites, IInv, TypeOK

LEMMA RefuseStep ==
  ASSUME IInv, Refuse
  PROVE  IInv'
<1>1. draft' \in Drafts /\ draft'.from = draft.from /\ draft'.text = draft.text /\ (draft'.typed = "no" => draft.typed = "no")
  BY DEF Refuse, IInv, TypeOK, Drafts
<1> QED
  BY <1>1 DEF Refuse, IInv, TypeOK, FormFact, FormFactOf, Origin, Shown, Clicked, WaitsFor, Waiting, SavedWhereTyped, CarriesOver, Loaded, Listed,
    Read, Is

LEMMA SettledType ==
  ASSUME IInv, req \in Requests, at \in Targets
  PROVE  /\ Settled \in Drafts
         /\ form.done # "close" => Settled.from \in {draft.from, at}
         /\ form.done = "refetch" => Settled.text = draft.text /\ (Settled.typed = "no" => draft.typed = "no")
<1>1. CASE form.done = "refetch"
  BY <1>1 DEF Settled, IInv, TypeOK, Drafts
<1>2. CASE form.done = "settle"
  BY <1>2 DEF Settled, IInv, TypeOK, Drafts, Requests
<1>3. CASE form.done \notin {"refetch", "settle"}
  <2>1. Settled = Blank(IF form.done = "close" THEN None ELSE at)
    BY <1>3 DEF Settled
  <2> QED
    BY <1>3, <2>1, BlankType
<1> QED
  BY <1>1, <1>2, <1>3

LEMMA AnswerStep ==
  ASSUME IInv, Answer
  PROVE  IInv'
<1>1. req \in Requests
  BY DEF Answer, IInv, TypeOK
<1>2. /\ draft' \in Drafts
      /\ at' # None => at' = at /\ draft'.from \in {draft.from, at}
      /\ at' # None /\ form.done = "refetch" => draft'.text = draft.text /\ (draft'.typed = "no" => draft.typed = "no")
  <2>1. CASE Pending /\ at # None
    BY <1>1, <2>1, SettledType DEF Answer, IInv, TypeOK
  <2>2. CASE ~ (Pending /\ at # None)
    BY <2>2 DEF Answer, IInv, TypeOK
  <2> QED
    BY <2>1, <2>2
<1>3. TypeOK'
  BY <1>1, <1>2 DEF Answer, IInv, TypeOK, Listed, Requests
<1>4. FormFact' /\ Origin' /\ Shown'
  BY <1>2 DEF Answer, IInv, FormFact, FormFactOf, Origin, Shown, CarriesOver, Loaded, Listed, Read, Is
<1> QED
  BY <1>3, <1>4 DEF Answer, IInv, Clicked, Waiting, SavedWhereTyped

LEMMA EffectType ==
  ASSUME IInv, NEW e \in Contents, at \in Targets
  PROVE  /\ Effect(e) \in Drafts
         /\ Effect(e) = draft \/ Effect(e) = Filled(at, e)
         /\ form.fills = "record" => Effect(e) = Filled(at, e)
         /\ form.fills = "once" /\ ~ Loaded(at) => Effect(e) = Filled(at, e)
<1>1. Filled(at, e) \in Drafts /\ draft \in Drafts
  BY FilledType DEF IInv, TypeOK
<1>2. CASE form.fills = "record"
  BY <1>1, <1>2 DEF Effect
<1>3. CASE form.fills = "field"
  BY <1>1, <1>3 DEF Effect
<1>4. CASE form.fills = "once"
  BY <1>1, <1>4 DEF Effect
<1>5. CASE form.fills \notin {"record", "field", "once"}
  BY <1>1, <1>5 DEF Effect
<1> QED
  BY <1>2, <1>3, <1>4, <1>5

LEMMA ArriveStep ==
  ASSUME IInv, NEW t \in Targets, Arrive(t)
  PROVE  IInv'
<1> DEFINE e == Answered(t)
<1>1. e \in Contents
  BY DEF Answered, Contents, IInv, TypeOK
<1>2. entry' \in [Targets -> Contents \cup {None}] /\ entry'[t] = e /\ \A u \in Targets \ {t} : entry'[u] = entry[u]
  BY <1>1 DEF Arrive, IInv, TypeOK
<1>3. UNCHANGED <<form, at, open, focus, mouse, saving, server, req>>
  BY DEF Arrive
<1>6. Clicked' /\ SavedWhereTyped'
  <2>1. \A u \in Targets : Loaded(u) => Loaded(u)'
    BY <1>1, <1>2, NoneAssumption DEF Loaded
  <2> QED
    BY <1>3, <2>1, SameSave DEF Waiting
<1>4. CASE t = at /\ Differs(t)
  <2>1. draft' = Effect(e)
    BY <1>4 DEF Arrive
  <2>2. /\ draft' \in Drafts
        /\ draft' = draft \/ draft'.from = at
        /\ form.fills = "record" => draft'.from = at /\ draft'.text = Read(e)
        /\ form.fills = "once" /\ ~ Loaded(at) => draft'.from = at
    BY <1>1, <1>4, <2>1, EffectType, FilledType
  <2>3. TypeOK'
    BY <1>2, <1>3, <2>2 DEF Arrive, IInv, TypeOK
  <2>4. Origin'
    BY <1>3, <2>2 DEF IInv, FormFact, FormFactOf, FormTypes, FillModes, Origin, CarriesOver, Listed
  <2>5. Shown'
    BY <1>2, <1>3, <1>4, <2>2 DEF Shown, Read, Is
  <2> QED
    BY <1>3, <1>6, <2>3, <2>4, <2>5 DEF IInv, FormFact, FormFactOf
<1>5. CASE ~ (t = at /\ Differs(t))
  <2>1. draft' = draft
    BY <1>5 DEF Arrive
  <2>2. at \in Targets => entry'[at] = entry[at]
    BY <1>2, <1>5 DEF Differs
  <2>3. TypeOK'
    BY <1>2, <1>3, <2>1 DEF Arrive, IInv, TypeOK
  <2>4. Origin' /\ Shown'
    BY <1>3, <2>1, <2>2 DEF IInv, TypeOK, Origin, Shown, CarriesOver, Loaded, Listed, Read, Is
  <2> QED
    BY <1>3, <1>6, <2>3, <2>4 DEF IInv, FormFact, FormFactOf
<1> QED
  BY <1>4, <1>5

LEMMA ReadStep ==
  ASSUME IInv, Refetch \/ \E t \in Targets : FetchFails(t)
  PROVE  IInv'
<1>1. UNCHANGED <<form, at, open, draft, focus, mouse, saving, server, entry, req>> /\ fetch' \subseteq Targets /\ failed' \in BOOLEAN
  BY DEF Refetch, FetchFails, IInv, TypeOK
<1> QED
  BY <1>1 DEF IInv, TypeOK, FormFact, FormFactOf, Origin, Shown, Clicked, WaitsFor, Waiting, SavedWhereTyped, CarriesOver, Loaded, Listed,
    Read, Is

LEMMA NextIInv == IInv /\ [Next]_vars => IInv'
<1> SUFFICES ASSUME IInv, [Next]_vars PROVE IInv'
  OBVIOUS
<1>1. CASE \E t \in Targets : Visit(t) \/ Switch(t) \/ Arrive(t) \/ FetchFails(t)
  BY <1>1, VisitStep, SwitchStep, ArriveStep, ReadStep
<1>2. CASE Leave \/ Reconnect \/ Refetch
  BY <1>2, LeaveStep, ReconnectStep, ReadStep
<1>3. CASE Open \/ (\E v \in Values : Type(v)) \/ Save \/ Blur \/ Escape \/ Hold \/ Press \/ Drag
  BY <1>3, ControlStep, TypeStep, SaveStep, RevertStep
<1>4. CASE Apply \/ Refuse \/ Answer
  BY <1>4, ApplyStep, RefuseStep, AnswerStep
<1>5. CASE \E t \in Targets, v \in Values \cup {None} : OtherWrites(t, v)
  BY <1>5, OtherWritesStep
<1>6. CASE UNCHANGED vars
  BY <1>6 DEF vars, IInv, TypeOK, FormFact, FormFactOf, Origin, Shown, Clicked, WaitsFor, Waiting, SavedWhereTyped, CarriesOver, Loaded, Listed,
    Read, Is
<1> QED
  BY <1>1, <1>2, <1>3, <1>4, <1>5, <1>6 DEF Next

LEMMA SpecIInv == Spec => []IInv
BY InitIInv, NextIInv, PTL DEF Spec

-----------------------------------------------------------------------------
\* Every variable keeps its type, whichever of the forms it is.
THEOREM TypeCorrect == Spec => []TypeOK
<1>1. IInv => TypeOK
  BY DEF IInv
<1> QED
  BY <1>1, SpecIInv, PTL

\* What is saved to the record of the click was read from it or typed on its
\* page, however many records the component is kept for (RecordDetailPage and
\* the pages like it, whose effect fills the form again with every new data).
\* A save that waited for the connection may go to another record.
THEOREM SavedWhereTypedAlways == Spec => []SavedWhereTyped
<1>1. IInv => SavedWhereTyped
  BY DEF IInv
<1> QED
  BY <1>1, SpecIInv, PTL

\* A field nobody has touched shows what was read of the record on the screen.
THEOREM UntouchedAlways == Spec => []UntouchedAsRead
<1>1. IInv => UntouchedAsRead
  BY DEF IInv, FormFact, FormFactOf, Shown, UntouchedAsRead, Ready, Is
<1> QED
  BY <1>1, SpecIInv, PTL

\* a step that takes what the user has typed, and is not one he may expect
LEMMA EditsKeptStep ==
  ASSUME IInv, [Next]_vars, draft.typed # "no", Ready, at' = at, draft'.text # draft.text
  PROVE  \/ draft'.typed = "typed" \/ (open /\ ~ open')
         \/ (Differs(at) /\ ~ Differs(at)') \/ (form.done = "clear" /\ req # None /\ req.stage = "done")
<1>1. at \in Targets /\ draft \in Drafts /\ req \in Requests \cup {None} /\ entry \in [Targets -> Contents \cup {None}]
  BY DEF Ready, IInv, TypeOK
<1>2. ASSUME NEW t \in Targets, Visit(t) \/ Switch(t) \/ FetchFails(t) PROVE FALSE
  BY <1>1, <1>2 DEF Visit, Switch, FetchFails, Ready
<1>3. ASSUME NEW t \in Targets, Arrive(t) PROVE Differs(at) /\ ~ Differs(at)'
  <2>1. t = at /\ Differs(at)
    BY <1>3 DEF Arrive
  <2>2. entry'[at] = Answered(at) /\ server' = server
    BY <1>1, <1>3, <2>1 DEF Arrive
  <2> QED
    BY <2>1, <2>2 DEF Differs, Answered
<1>4. ASSUME Leave \/ Reconnect \/ Refetch \/ Open \/ Hold \/ Drag \/ Apply PROVE FALSE
  BY <1>1, <1>4 DEF Leave, Reconnect, Given, Drafts, Refetch, Open, Hold, Drag, Apply, Ready
<1>5. ASSUME NEW v \in Values, Type(v) PROVE draft'.typed = "typed"
  BY <1>1, <1>5 DEF Type, Drafts
<1>6. ASSUME Save \/ Press \/ Refuse PROVE FALSE
  BY <1>1, <1>6 DEF Save, Press, Submit, Given, Refuse, Drafts
<1>7. ASSUME Blur \/ Escape PROVE open /\ ~ open'
  BY <1>7 DEF Blur, Escape, Reverted
<1>8. ASSUME Answer PROVE form.done = "clear" /\ req # None /\ req.stage = "done"
  <2>1. req \in Requests /\ req # None /\ req.stage = "done" /\ Pending /\ draft' = Settled
    BY <1>1, <1>8 DEF Answer
  <2>2. form.done # "close"
    BY <1>8, <2>1 DEF Answer, Ready
  <2>3. form.done \notin {"refetch", "settle"}
    BY <1>1, <2>1 DEF Settled, Drafts
  <2> QED
    BY <2>1, <2>2, <2>3 DEF IInv, FormFact, FormFactOf, FormTypes, DoneModes
<1>9. ASSUME NEW t \in Targets, NEW v \in Values \cup {None}, OtherWrites(t, v) PROVE FALSE
  BY <1>9 DEF OtherWrites
<1>10. ~ UNCHANGED vars
  BY DEF vars
<1> QED
  BY <1>2, <1>3, <1>4, <1>5, <1>6, <1>7, <1>8, <1>9, <1>10 DEF Next

\* What the user has typed is taken from him only by himself, by a record that
\* has changed, or by the answer of his own save.
THEOREM EditsKeptAlways == Spec => EditsKept
<1>1. IInv /\ [Next]_vars =>
        [draft.typed # "no" /\ Ready /\ at' = at /\ draft'.text # draft.text =>
           \/ draft'.typed = "typed" \/ (open /\ ~ open')
           \/ (Differs(at) /\ ~ Differs(at)') \/ (form.done = "clear" /\ req # None /\ req.stage = "done")]_vars
  BY EditsKeptStep
<1> QED
  BY <1>1, SpecIInv, PTL DEF Spec, EditsKept

-----------------------------------------------------------------------------
(***************************************************************************)
(* The invariant of what has been saved.  The saved text is the one read;  *)
(* and when the answer of a save leaves a form that differs from it, what  *)
(* was saved differs from what was read, which is being read again.        *)
(***************************************************************************)

OnRecord == form.fills = "record" /\ at # None /\ Loaded(at)

SavedRead == OnRecord => draft.saved = Read(entry[at])

\* the form shows the text it sends
Counts == ~ Is("hidden") /\ (draft.text # Empty \/ ~ Is("drops"))

Awaited == at \in fetch \/ failed

SentDirty ==
  OnRecord /\ draft.typed = "sent" /\ Dirty /\ Counts =>
    /\ req # None => req.live /\ req.for = at /\ req.told = at /\ req.sent = draft.text
    /\ req = None \/ req.stage = "done" => Differs(at)
    /\ req = None => Awaited

NoteDirty == OnRecord /\ Can("blur") /\ ~ open /\ Dirty /\ draft.typed # "closed" => Differs(at) /\ Awaited

\* a text that was refused is not the one that is being saved
NotRefused == OnRecord /\ Can("blur") /\ Pending => draft.typed # "refused"

\* what a save does on success is for the record on the screen
Told == form.fills = "record" /\ Pending => at # None /\ req.told = at

SInv == SavedRead /\ SentDirty /\ NoteDirty /\ NotRefused /\ Told

LEMMA RecordFact ==
  ASSUME IInv, form.fills = "record"
  PROVE  ~ Listed /\ form.done = "refetch" /\ ~ Is("kept") /\ ~ Is("addressed") /\ ~ Is("direct") /\ (Can("blur") => Hides /\ Is("stamped") /\ ~ Is("hidden") /\ ~ Is("drops"))
BY DEF IInv, FormFact, FormFactOf, Listed, Can, Is, Hides

LEMMA UnlikeDiffers ==
  ASSUME NEW e, NEW v, e.same = FALSE
  PROVE  e # [val |-> v, same |-> TRUE]
<1> SUFFICES ASSUME e = [val |-> v, same |-> TRUE] PROVE FALSE
  OBVIOUS
<1>1. e.same = TRUE
  BY SMT
<1> QED
  BY <1>1, Zenon

\* a form that has just been filled is as it was read
LEMMA FilledSInv ==
  ASSUME form.fills = "record" => at' = None \/ ~ Loaded(at)' \/ draft' = Filled(at, entry[at])', form' = form, Told'
  PROVE  SInv'
BY DEF SInv, SavedRead, SentDirty, NoteDirty, NotRefused, OnRecord, Dirty, Filled

LEMMA VisitSInv ==
  ASSUME IInv, SInv, NEW t \in Targets, Visit(t) \/ Switch(t)
  PROVE  SInv'
<1>1. CASE form.fills # "record"
  BY <1>1, FilledSInv DEF Visit, Switch, Told
<1>2. CASE form.fills = "record"
  <2>1. at' = t /\ UNCHANGED <<form, entry>>
    BY DEF Visit, Switch
  <2>3. Told'
    <3>1. t # None /\ ~ Is("direct") /\ (req # None => req \in Requests)
      BY <1>2, RecordFact, ValuesAssumption DEF IInv, TypeOK
    <3>2. CASE ~ Pending
      <4>1. req' = req
        BY <3>2 DEF Visit, Switch
      <4> QED
        BY <2>1, <3>2, <4>1 DEF Told, Pending
    <3>3. CASE Pending
      <4>1. Switch(t)
        BY <1>2, <3>3 DEF SInv, Told, Visit
      <4>2. req' = [req EXCEPT !.told = t]
        BY <1>2, <3>1, <3>3, <4>1 DEF Switch, Stays, Followed
      <4>3. req'.told = t
        BY <3>1, <3>3, <4>2 DEF Pending, Requests
      <4> QED
        BY <2>1, <3>1, <4>3 DEF Told
    <3> QED
      BY <3>2, <3>3
  <2>2. Loaded(t) => draft' = Filled(t, entry[t])
    BY <1>2 DEF Visit, Switch, Carried
  <2> QED
    BY <2>1, <2>2, <2>3, FilledSInv DEF Loaded, Filled, Read, Is
<1> QED
  BY <1>1, <1>2

LEMMA RevertSInv ==
  ASSUME IInv, SInv, Blur \/ Escape
  PROVE  SInv'
<1>1. UNCHANGED <<form, at, server, entry, fetch, failed, req>>
  BY DEF Blur, Escape
<1>4. Told'
  BY <1>1 DEF SInv, Told, Pending
<1>2. CASE UNCHANGED <<open, draft>>
  BY <1>1, <1>2, <1>4 DEF SInv, SavedRead, SentDirty, NoteDirty, NotRefused, OnRecord, Loaded, Read, Is, Can, Dirty, Counts,
    Awaited, Differs, Answered, Pending
<1>3. CASE draft' = Filled(at, entry[at])
  BY <1>1, <1>3, <1>4, FilledSInv DEF Filled, Read, Is
<1> QED
  BY <1>2, <1>3 DEF Blur, Escape, Reverted

\* controls that leave the text as it is
LEMMA ControlSInv ==
  ASSUME IInv, SInv, Open \/ Hold \/ Drag
  PROVE  SInv'
<1>1. UNCHANGED <<form, at, draft, server, entry, fetch, failed, req>> /\ (Can("blur") /\ ~ open' => ~ open)
  BY DEF Open, Hold, Drag, IInv, TypeOK
<1> QED
  BY <1>1 DEF SInv, SavedRead, SentDirty, NoteDirty, NotRefused, Told, OnRecord, Loaded, Read, Is, Can, Dirty, Counts,
    Awaited, Differs, Answered, Pending

LEMMA TypeSInv ==
  ASSUME IInv, SInv, NEW v \in Values, Type(v)
  PROVE  SInv'
<1>1. UNCHANGED <<form, at, open, server, entry, fetch, failed, req>> /\ open
  BY DEF Type
<1>2. draft'.saved = draft.saved /\ draft'.typed = "typed"
  BY DEF Type, IInv, TypeOK, Drafts
<1> QED
  BY <1>1, <1>2 DEF SInv, SavedRead, SentDirty, NoteDirty, NotRefused, Told, Pending, OnRecord, Loaded, Read, Is

\* what is submitted from a form that differs is the text it shows
LEMMA SubmitSInv ==
  ASSUME IInv, SInv, Save \/ Press
  PROVE  SInv'
<1>1. /\ UNCHANGED <<form, at, open, server, entry, fetch, failed>>
      /\ Submit /\ Ready /\ ~ Pending
  BY DEF Save, Press, Enabled
<1>2. /\ draft'.text = draft.text /\ draft'.saved = draft.saved
      /\ draft'.typed = draft.typed \/ draft'.typed = "sent"
      /\ draft'.typed # "refused"
  BY <1>1 DEF Submit, Given, IInv, TypeOK, Drafts
<1>3. /\ req' # None /\ req'.for = at /\ req'.told = at /\ req'.sent = Sent /\ req'.stage # "done" /\ req'.live
  <2>1. at \in Targets /\ Sent \in Values \cup {None} /\ draft \in Drafts
    BY <1>1 DEF Ready, Sent, IInv, TypeOK, Drafts
  <2>2. req' \in Requests
    BY <1>1, SubmitStep DEF IInv
  <2>3. PICK stage \in {"sent", "paused"} :
               req' = [for |-> at, clicked |-> at, told |-> at, sent |-> Sent, text |-> draft.text, from |-> draft.from,
                       stage |-> stage, live |-> TRUE]
    BY <1>1 DEF Submit
  <2>4. req' # None
    BY <2>2, NoneAssumption
  <2> QED
    BY <2>3, <2>4
<1>4. Dirty /\ Counts => Sent = draft.text
  BY DEF Dirty, Counts, Sent
<1>5. ASSUME OnRecord, Can("blur"), ~ open, Dirty, draft'.typed # "closed" PROVE draft.typed # "closed"
  BY <1>1, <1>5 DEF Submit, Given
<1>9. Told'
  BY <1>1, <1>3 DEF Told, Ready
<1>6. SavedRead' /\ NotRefused'
  BY <1>1, <1>2 DEF SInv, SavedRead, NotRefused, OnRecord, Loaded, Read, Is, Can
<1>7. SentDirty'
  BY <1>1, <1>2, <1>3, <1>4 DEF SentDirty, OnRecord, Loaded, Is, Dirty, Counts
<1>8. NoteDirty'
  BY <1>1, <1>2, <1>5 DEF SInv, NoteDirty, OnRecord, Loaded, Can, Dirty, Awaited, Differs, Answered
<1> QED
  BY <1>6, <1>7, <1>8, <1>9 DEF SInv

-----------------------------------------------------------------------------
\* what somebody else writes differs from what was read, as it changes other
\* columns, too
LEMMA OtherWritesSInv ==
  ASSUME IInv, SInv, NEW t \in Targets, NEW v \in Values \cup {None}, OtherWrites(t, v)
  PROVE  SInv'
<1>1. UNCHANGED <<form, at, open, draft, fetch, failed, req>>
  BY DEF OtherWrites
<1>2. ASSUME at \in Targets, Loaded(at)'
      PROVE  Loaded(at) /\ entry'[at].val = entry[at].val /\ (Differs(at) => Differs(at)')
  <2>1. CASE t = at
    <3>1. Loaded(at) /\ entry'[at] = [entry[at] EXCEPT !.same = FALSE]
      BY <1>2, <2>1 DEF OtherWrites, Writes, Loaded, IInv, TypeOK
    <3>2. entry[at] \in Contents
      BY <1>2, <3>1, LoadedType DEF IInv
    <3>3. entry'[at].val = entry[at].val /\ entry'[at].same = FALSE
      BY <3>1, <3>2 DEF Contents
    <3> QED
      BY <1>1, <3>1, <3>3, UnlikeDiffers DEF Differs, Answered
  <2>2. CASE t # at
    BY <1>2, <2>2 DEF OtherWrites, Writes, Loaded, IInv, TypeOK, Differs, Answered
  <2> QED
    BY <2>1, <2>2
<1> QED
  BY <1>1, <1>2 DEF IInv, TypeOK, SInv, SavedRead, SentDirty, NoteDirty, NotRefused, Told, OnRecord, Read, Is, Can, Dirty, Counts,
    Awaited, Pending

LEMMA ApplySInv ==
  ASSUME IInv, SInv, Apply
  PROVE  SInv'
<1>1. /\ UNCHANGED <<form, at, open, draft, fetch, failed>>
      /\ req \in Requests /\ req # None /\ req.stage = "sent"
  BY DEF Apply, IInv, TypeOK
<1>2. PICK others \in BOOLEAN : Writes(req.for, req.sent, others) /\ (Is("stamped") => others)
  BY DEF Apply
<1>3. /\ req' # None /\ req'.live = req.live /\ req'.for = req.for /\ req'.told = req.told /\ req'.sent = req.sent
  <2>1. req' \in Requests
    BY <1>1 DEF Apply, Requests
  <2> QED
    BY <1>1, <2>1, NoneAssumption DEF Apply, Requests
<1>4. ASSUME at \in Targets, Loaded(at)'
      PROVE  /\ Loaded(at) /\ entry'[at].val = entry[at].val /\ entry[at] \in Contents
             /\ entry'[at] \in Contents
             /\ entry'[at].same => entry'[at] = entry[at]
  <2>1. Loaded(at)
    <3>1. CASE others /\ Loaded(req.for)
      <4>1. entry' = [entry EXCEPT ![req.for].same = FALSE]
        BY <1>2, <3>1 DEF Writes
      <4> QED
        BY <1>1, <1>4, <3>1, <4>1 DEF Loaded, IInv, TypeOK
    <3>2. CASE ~ (others /\ Loaded(req.for))
      <4>1. entry' = entry
        BY <1>2, <3>2 DEF Writes
      <4> QED
        BY <1>1, <1>4, <4>1 DEF Loaded
    <3> QED
      BY <3>1, <3>2
  <2>2. entry[at] \in Contents
    BY <1>4, <2>1, LoadedType DEF IInv
  <2>3. entry'[at] = entry[at] \/ entry'[at] = [entry[at] EXCEPT !.same = FALSE]
    BY <1>2, <1>4 DEF Writes, IInv, TypeOK
  <2> QED
    BY <2>1, <2>2, <2>3 DEF Contents
<1>5. form.fills = "record" => server' = (IF req.sent = None THEN server ELSE [server EXCEPT ![req.for] = req.sent])
  BY <1>2 DEF Writes, ForNew
<1>6. SavedRead' /\ NotRefused' /\ Told'
  BY <1>1, <1>3, <1>4 DEF IInv, TypeOK, SInv, SavedRead, NotRefused, Told, OnRecord, Read, Is, Can, Pending
<1>7. SentDirty'
  <2> SUFFICES ASSUME (OnRecord /\ draft.typed = "sent" /\ Dirty /\ Counts)' PROVE Differs(at)' /\ req'.live /\ req'.for = at /\ req'.told = at /\ req'.sent = draft.text
    BY <1>1, <1>3 DEF SentDirty
  <2>1. at \in Targets /\ OnRecord /\ draft.typed = "sent" /\ Dirty /\ Counts
    BY <1>1, <1>4 DEF IInv, TypeOK, OnRecord, Dirty, Counts, Is
  <2>2. req.live /\ req.for = at /\ req.told = at /\ req.sent = draft.text
    BY <1>1, <2>1 DEF SInv, SentDirty
  <2>3. draft.text # entry[at].val /\ draft.text \in Values /\ draft.text # None
    BY <2>1, ValuesAssumption DEF SInv, SavedRead, Dirty, Counts, Read, IInv, TypeOK, Drafts
  <2>4. server'[at] = draft.text
    BY <1>5, <2>1, <2>2, <2>3 DEF OnRecord, IInv, TypeOK
  <2> QED
    BY <1>1, <1>3, <1>4, <2>1, <2>2, <2>3, <2>4 DEF Differs, Answered, OnRecord
<1>8. NoteDirty'
  <2> SUFFICES ASSUME (OnRecord /\ Can("blur") /\ ~ open /\ Dirty /\ draft.typed # "closed")' PROVE Differs(at)' /\ Awaited'
    BY DEF NoteDirty
  <2>1. at \in Targets /\ OnRecord /\ Can("blur") /\ ~ open /\ Dirty /\ draft.typed # "closed"
    BY <1>1, <1>4 DEF IInv, TypeOK, OnRecord, Dirty, Can
  <2>2. Differs(at) /\ Awaited
    BY <2>1 DEF SInv, NoteDirty
  <2>3. Differs(at)'
    <3>1. CASE req.for = at
      <4>1. others = TRUE
        BY <1>2, <2>1, RecordFact DEF OnRecord
      <4>2. entry'[at].same = FALSE
        BY <1>2, <1>4, <2>1, <3>1, <4>1 DEF Writes, IInv, TypeOK, OnRecord, Contents
      <4> QED
        BY <1>1, <4>2, UnlikeDiffers DEF Differs, Answered
    <3>2. CASE req.for # at
      <4>1. server'[at] = server[at]
        BY <1>5, <2>1, <3>2 DEF OnRecord, IInv, TypeOK
      <4>2. entry'[at] = entry[at]
        BY <1>2, <2>1, <3>2 DEF Writes, IInv, TypeOK
      <4> QED
        BY <1>1, <2>2, <4>1, <4>2 DEF Differs, Answered
    <3> QED
      BY <3>1, <3>2
  <2> QED
    BY <1>1, <2>2, <2>3 DEF Awaited
<1> QED
  BY <1>6, <1>7, <1>8 DEF SInv

LEMMA RefuseSInv ==
  ASSUME IInv, SInv, Refuse
  PROVE  SInv'
<1>1. UNCHANGED <<form, at, open, server, entry, fetch, failed>> /\ req' = None
  BY DEF Refuse
<1>2. /\ draft'.text = draft.text /\ draft'.saved = draft.saved
      /\ draft'.typed = draft.typed \/ (draft'.typed = "refused" /\ draft.typed = "sent")
      /\ draft'.typed = "sent" => ~ Pending
  BY DEF Refuse, IInv, TypeOK, Drafts
<1>3. SavedRead' /\ NotRefused' /\ Told'
  BY <1>1, <1>2 DEF SInv, SavedRead, NotRefused, Told, OnRecord, Loaded, Read, Is, Pending
<1>4. ~ (OnRecord /\ draft.typed = "sent" /\ draft'.typed = "sent" /\ Dirty /\ Counts)
  BY <1>2 DEF Refuse, SInv, SentDirty, Pending
<1>5. SentDirty'
  BY <1>1, <1>2, <1>4 DEF SentDirty, OnRecord, Loaded, Is, Dirty, Counts
<1>6. NoteDirty'
  BY <1>1, <1>2 DEF SInv, NoteDirty, OnRecord, Loaded, Can, Dirty, Awaited, Differs, Answered
<1> QED
  BY <1>3, <1>5, <1>6 DEF SInv

\* an answer reads the record again, and what it leaves in the form is what
\* was written
LEMMA AnswerSInv ==
  ASSUME IInv, SInv, Answer
  PROVE  SInv'
<1>1. UNCHANGED <<form, server, entry>> /\ req # None /\ req.stage = "done" /\ req' = None
  BY DEF Answer
<1>2. CASE form.fills # "record"
  BY <1>1, <1>2, FilledSInv DEF Told
<1>3. CASE form.fills = "record"
  <2>1. /\ at' = at /\ (draft' = draft \/ (Can("blur") /\ draft.typed = "typed" /\ draft' = [draft EXCEPT !.typed = "closed"]))
        /\ Can("blur") /\ Pending /\ at # None => draft'.typed # "typed"
        /\ open' = (IF Pending /\ Hides THEN FALSE ELSE open)
        /\ (fetch' = fetch /\ failed' = failed) \/ at \in fetch'
        /\ at = req.told => at \in fetch'
    BY <1>3, RecordFact DEF Answer, Settled, IInv, TypeOK, Drafts
  <2>2. /\ draft'.text = draft.text /\ draft'.saved = draft.saved
        /\ draft'.typed \in {draft.typed, "closed"}
    BY <2>1 DEF IInv, TypeOK, Drafts
  <2>3. SavedRead' /\ NotRefused' /\ Told'
    BY <1>1, <2>1, <2>2 DEF SInv, SavedRead, NotRefused, Told, OnRecord, Loaded, Read, Is, Pending
  <2>4. SentDirty'
    BY <1>1, <2>1, <2>2 DEF SInv, SentDirty, OnRecord, Loaded, Is, Dirty, Counts, Differs, Answered, Awaited
  <2>5. NoteDirty'
    <3> SUFFICES ASSUME (OnRecord /\ Can("blur") /\ ~ open /\ Dirty /\ draft.typed # "closed")' PROVE (Differs(at) /\ Awaited)'
      BY DEF NoteDirty
    <3>1. OnRecord /\ Can("blur") /\ Dirty /\ draft' = draft /\ draft.typed # "closed"
      BY <1>1, <2>1, <2>2 DEF OnRecord, Loaded, Can, Dirty, IInv, TypeOK, Drafts
    <3>2. CASE ~ open
      BY <1>1, <2>1, <3>1, <3>2 DEF SInv, NoteDirty, Differs, Answered, Awaited
    <3>3. CASE open
      <4>1. Pending
        BY <2>1, <3>3
      <4>2. draft.typed \in {"no", "sent"}
        BY <2>1, <3>1, <4>1 DEF SInv, NotRefused, OnRecord, IInv, TypeOK, Drafts
      <4>3. draft.typed # "no"
        BY <3>1 DEF SInv, SavedRead, IInv, Shown, OnRecord, Dirty
      <4>4. Counts
        BY <3>1, RecordFact DEF Counts, OnRecord
      <4>5. Differs(at) /\ req.told = at
        BY <1>1, <3>1, <4>2, <4>3, <4>4 DEF SInv, SentDirty
      <4> QED
        BY <1>1, <2>1, <4>5 DEF Differs, Answered, Awaited
    <3> QED
      BY <3>2, <3>3
  <2> QED
    BY <2>3, <2>4, <2>5 DEF SInv
<1> QED
  BY <1>2, <1>3

\* an answer that differs fills the form, and one that does not changes nothing
LEMMA ArriveSInv ==
  ASSUME IInv, SInv, NEW t \in Targets, Arrive(t)
  PROVE  SInv'
<1>1. /\ UNCHANGED <<form, at, open, server, req>> /\ fetch' = fetch \ {t}
      /\ entry'[t] = Answered(t) /\ \A u \in Targets \ {t} : entry'[u] = entry[u]
      /\ failed' = IF t = at THEN FALSE ELSE failed
  BY DEF Arrive, IInv, TypeOK
<1>6. Told'
  BY <1>1 DEF SInv, Told, Pending
<1>2. CASE form.fills # "record"
  BY <1>1, <1>2, <1>6, FilledSInv
<1>3. CASE form.fills = "record" /\ t = at /\ Differs(t)
  BY <1>1, <1>3, <1>6, FilledSInv DEF Arrive, Effect, Filled, Read, Is
<1>4. CASE form.fills = "record" /\ t = at /\ ~ Differs(t)
  <2>1. draft' = draft /\ entry'[at] = entry[at] /\ ~ Differs(at) /\ ~ Differs(at)'
    BY <1>1, <1>4 DEF Arrive, Differs, Answered
  <2>2. SavedRead' /\ NotRefused'
    BY <1>1, <2>1 DEF SInv, SavedRead, NotRefused, OnRecord, Loaded, Read, Is, Pending, Can
  <2>3. SentDirty' /\ NoteDirty'
    BY <1>1, <2>1 DEF SInv, SentDirty, NoteDirty, OnRecord, Loaded, Is, Can, Dirty, Counts
  <2> QED
    BY <1>6, <2>2, <2>3 DEF SInv
<1>5. CASE form.fills = "record" /\ t # at
  <2>1. draft' = draft /\ failed' = failed /\ (at \in Targets => entry'[at] = entry[at] /\ (at \in fetch => at \in fetch'))
    BY <1>1, <1>5 DEF Arrive
  <2>2. at # None => at \in Targets
    BY DEF IInv, TypeOK
  <2>3. at' = at /\ (at # None => entry'[at] = entry[at] /\ server' = server /\ (at \in fetch => at \in fetch'))
    BY <1>1, <2>1, <2>2
  <2>4. OnRecord' => OnRecord /\ Read(entry[at])' = Read(entry[at]) /\ (Differs(at) => Differs(at)') /\ (Awaited => Awaited')
    <3> SUFFICES ASSUME OnRecord'
                 PROVE  OnRecord /\ Read(entry[at])' = Read(entry[at]) /\ (Differs(at) => Differs(at)') /\ (Awaited => Awaited')
      OBVIOUS
    <3>1. at # None /\ form' = form
      BY <1>1, <2>3 DEF OnRecord
    <3>2. OnRecord /\ Read(entry[at])' = Read(entry[at])
      BY <1>1, <2>3, <3>1 DEF OnRecord, Loaded, Read, Is
    <3>3. Differs(at) => Differs(at)'
      BY <2>3, <3>1 DEF Differs, Answered
    <3>4. Awaited => Awaited'
      BY <2>1, <2>3, <3>1 DEF Awaited
    <3> QED
      BY <3>2, <3>3, <3>4
  <2>5. SavedRead' /\ NotRefused'
    BY <1>1, <2>1, <2>4 DEF SInv, SavedRead, NotRefused, Can, Pending
  <2>6. SentDirty'
    BY <1>1, <2>1, <2>4 DEF SInv, SentDirty, Is, Dirty, Counts
  <2>7. NoteDirty'
    BY <1>1, <2>1, <2>4 DEF SInv, NoteDirty, Can, Dirty
  <2> QED
    BY <1>6, <2>5, <2>6, <2>7 DEF SInv
<1> QED
  BY <1>2, <1>3, <1>4, <1>5

LEMMA ReadSInv ==
  ASSUME IInv, SInv, Refetch \/ \E t \in Targets : FetchFails(t)
  PROVE  SInv'
<1>1. UNCHANGED <<form, at, open, draft, server, entry, req>> /\ (Awaited => Awaited')
  BY DEF Refetch, FetchFails, IInv, TypeOK, Awaited
<1> QED
  BY <1>1 DEF SInv, SavedRead, SentDirty, NoteDirty, NotRefused, Told, OnRecord, Loaded, Read, Is, Can, Dirty, Counts,
    Differs, Answered, Pending

\* the save that goes out is of the text that is in the form, if that was the
\* last thing the user did with it
LEMMA ReconnectSInv ==
  ASSUME IInv, SInv, Reconnect
  PROVE  SInv'
<1>1. UNCHANGED <<form, at, open, server, entry, fetch, failed>> /\ req \in Requests /\ req # None /\ req.stage = "paused"
  BY DEF Reconnect, Waiting, IInv, TypeOK
<1>2. CASE form.fills # "record" \/ at = None
  <2>1. Told'
    <3>1. CASE at = None
      BY <1>1, <3>1 DEF Reconnect, SInv, Told, Pending, Requests
    <3>2. CASE form.fills # "record"
      BY <1>1, <3>2 DEF Told
    <3> QED
      BY <1>2, <3>1, <3>2
  <2> QED
    BY <1>1, <1>2, <2>1, FilledSInv
<1>3. CASE form.fills = "record" /\ at # None
  <2>1. at \in Targets /\ ~ Is("addressed")
    BY <1>3, RecordFact DEF IInv, TypeOK
  <2>2. /\ draft'.text = draft.text /\ draft'.saved = draft.saved
        /\ draft'.typed = draft.typed \/ (draft'.typed = "sent" /\ draft.typed # "closed" /\ Is("late") /\ req.live)
    BY DEF Reconnect, Given, IInv, TypeOK, Drafts
  <2>3. /\ req' # None /\ req'.stage = "sent" /\ req'.live = req.live /\ req'.told = req.told
        /\ req.live => req'.for = at
        /\ req.live /\ Is("late") => req'.sent = Sent
        /\ ~ (req.live /\ Is("late")) => req'.sent = req.sent
        /\ ~ req.live => req'.for = req.for
    <3>1. CASE ~ req.live
      <4>1. req' = [req EXCEPT !.stage = "sent"]
        BY <3>1 DEF Reconnect
      <4>2. req' \in Requests
        BY <1>1, <4>1 DEF Requests
      <4> QED
        BY <1>1, <3>1, <4>1, <4>2, NoneAssumption DEF Requests
    <3>2. CASE req.live
      <4>1. req' = [Rendered(req) EXCEPT !.stage = "sent"]
        BY <1>3, <3>2 DEF Reconnect
      <4>2. Rendered(req) \in Requests /\ Rendered(req).live = req.live /\ Rendered(req).told = req.told
        BY <1>1, <2>1, <3>2, RenderedType DEF Waiting
      <4>3. /\ Rendered(req).for = at
            /\ Is("late") => Rendered(req).sent = Sent
            /\ ~ Is("late") => Rendered(req).sent = req.sent
        <5>1. CASE Is("late")
          <6>1. Rendered(req) = [req EXCEPT !.for = at, !.sent = Sent, !.text = draft.text, !.from = draft.from]
            BY <2>1, <5>1 DEF Rendered
          <6> QED
            BY <1>1, <5>1, <6>1 DEF Requests
        <5>2. CASE ~ Is("late")
          <6>1. Rendered(req) = [req EXCEPT !.for = at]
            BY <2>1, <5>2 DEF Rendered
          <6> QED
            BY <1>1, <5>2, <6>1 DEF Requests
        <5> QED
          BY <5>1, <5>2
      <4>4. req' \in Requests
        BY <4>1, <4>2 DEF Requests
      <4> QED
        BY <1>1, <3>2, <4>1, <4>2, <4>3, <4>4, NoneAssumption DEF Requests
    <3> QED
      BY <3>1, <3>2
  <2>4. SavedRead' /\ NotRefused' /\ Told'
    BY <1>1, <2>2, <2>3 DEF SInv, SavedRead, NotRefused, Told, OnRecord, Loaded, Read, Is, Can, Pending
  <2>5. SentDirty'
    <3> SUFFICES ASSUME (OnRecord /\ draft.typed = "sent" /\ Dirty /\ Counts)'
                 PROVE  req'.live /\ req'.for = at /\ req'.told = at /\ req'.sent = draft.text
      BY <1>1, <2>2, <2>3 DEF SentDirty
    <3>1. OnRecord /\ Dirty /\ Counts
      BY <1>1, <2>2 DEF OnRecord, Loaded, Dirty, Counts, Is
    <3>2. Sent = draft.text
      BY <3>1 DEF Sent, Dirty, Counts
    <3>3. req.live
      BY <1>1, <2>2, <3>1 DEF SInv, SentDirty
    <3>4. req.told = at
      BY <1>1, <1>3, <3>3 DEF SInv, Told, Pending
    <3>5. ~ Is("late") => req.sent = draft.text
      BY <1>1, <2>2, <3>1 DEF SInv, SentDirty
    <3> QED
      BY <2>3, <3>2, <3>3, <3>4, <3>5
  <2>6. NoteDirty'
    BY <1>1, <2>2 DEF SInv, NoteDirty, OnRecord, Loaded, Can, Dirty, Awaited, Differs, Answered
  <2> QED
    BY <2>4, <2>5, <2>6 DEF SInv
<1> QED
  BY <1>2, <1>3

LEMMA LeaveSInv ==
  ASSUME IInv, SInv, Leave
  PROVE  SInv'
<1>1. CASE form.fills # "record"
  BY <1>1, FilledSInv DEF Leave, Told
<1>2. CASE form.fills = "record"
  <2>1. at \in Targets /\ at' = None /\ form' = form /\ ~ Listed
    BY <1>2, RecordFact DEF Leave, IInv, TypeOK
  <2>2. ~ Pending'
    <3>1. CASE Pending
      BY <2>1, <3>1, LeftType DEF Leave, Pending
    <3>2. CASE ~ Pending
      BY <2>1, <3>2 DEF Leave, Pending
    <3> QED
      BY <3>1, <3>2
  <2> QED
    BY <2>1, <2>2, FilledSInv DEF Told
<1> QED
  BY <1>1, <1>2

LEMMA NextSInv == IInv /\ SInv /\ [Next]_vars => SInv'
<1> SUFFICES ASSUME IInv, SInv, [Next]_vars PROVE SInv'
  OBVIOUS
<1>1. CASE \E t \in Targets : Visit(t) \/ Switch(t) \/ Arrive(t) \/ FetchFails(t)
  BY <1>1, VisitSInv, ArriveSInv, ReadSInv
<1>2. CASE Leave
  BY <1>2, LeaveSInv
<1>3. CASE Reconnect \/ Refetch
  BY <1>3, ReconnectSInv, ReadSInv
<1>4. CASE Open \/ (\E v \in Values : Type(v)) \/ Save \/ Blur \/ Escape \/ Hold \/ Press \/ Drag
  BY <1>4, ControlSInv, TypeSInv, SubmitSInv, RevertSInv
<1>5. CASE Apply \/ Refuse \/ Answer
  BY <1>5, ApplySInv, RefuseSInv, AnswerSInv
<1>6. CASE \E t \in Targets, v \in Values \cup {None} : OtherWrites(t, v)
  BY <1>6, OtherWritesSInv
<1>7. CASE UNCHANGED vars
  BY <1>7 DEF vars, SInv, SavedRead, SentDirty, NoteDirty, NotRefused, Told, OnRecord, Loaded, Read, Is, Can, Dirty, Counts,
    Awaited, Differs, Answered, Pending
<1> QED
  BY <1>1, <1>2, <1>3, <1>4, <1>5, <1>6, <1>7 DEF Next

LEMMA SpecSInv == Spec => []SInv
<1>1. Init => SInv
  BY DEF Init, SInv, SavedRead, SentDirty, NoteDirty, NotRefused, Told, Pending, OnRecord
<1> QED
  BY <1>1, NextSInv, SpecIInv, PTL DEF Spec

\* After a save has been answered and the record read again, nothing is left
\* to be saved (RecordDetailPage and the pages like it invalidate the query).
THEOREM SavedIsCleanAlways == Spec => []SavedIsClean
<1>1. IInv /\ SInv => SavedIsClean
  BY RecordFact DEF SInv, SentDirty, SavedIsClean, Ready, OnRecord, Counts, Awaited
<1> QED
  BY <1>1, SpecIInv, SpecSInv, PTL

\* A note of a task that is not being edited shows what was read of it, and
\* what was read is up to date with the saves the user has made.
THEOREM ClosedNoteIsSavedAlways == Spec => []ClosedNoteIsSaved
<1>1. IInv /\ SInv => ClosedNoteIsSaved
  <2> SUFFICES ASSUME IInv, SInv, Ready, Can("blur"), ~ open, at \notin fetch, ~ failed, draft.typed # "closed"
               PROVE  draft.text = Read(entry[at])
    BY DEF ClosedNoteIsSaved
  <2>1. OnRecord
    BY DEF OnRecord, Ready, IInv, FormFact, FormFactOf, Can, Is
  <2> QED
    BY <2>1 DEF SInv, SavedRead, NoteDirty, Dirty, Awaited
<1> QED
  BY <1>1, SpecIInv, SpecSInv, PTL

=============================================================================
