---------------------------- MODULE Preferences ----------------------------
(***************************************************************************)
(* A user's display preferences in one browser tab (AuthContext,           *)
(* UserPreferencesContext, ColumnConfigPopover): the session they are      *)
(* loaded for, the choices shown at once and saved in the background, and  *)
(* the columns that are staged before they are chosen.                     *)
(*                                                                         *)
(* Every save sends the whole set that is on the screen, and its answer    *)
(* replaces the whole set again, whoever is signed in by then.  Several    *)
(* saves may be under way; they may be applied and answered in any order.  *)
(***************************************************************************)
EXTENDS Naturals, Sequences, SequencesExt

CONSTANTS
  Users,           \* accounts that sign in with this browser
  Tables,          \* tables with a list, each with its columns as a setting
  Others,          \* the other settings
  Values,          \* values of a setting
  Default,         \* the value of a setting that was never chosen
  OwnOf,           \* the values the user of each account may choose
  LegacySettings,  \* settings that localStorage may hold from earlier versions
  Legacy,          \* their value there
  MaxSaves,        \* saves under way at once (bound)
  MaxTurns,        \* sign-ins, page loads and changes made elsewhere (bound)
  None             \* nobody, nothing asked, nothing chosen, closed

Settings == Tables \cup Others

ASSUME SettingsAssumption ==
  /\ {Default, Legacy} \subseteq Values /\ OwnOf \in [Users -> SUBSET Values]
  /\ LegacySettings \subseteq Others /\ Tables # {}
  /\ {MaxSaves, MaxTurns} \subseteq Nat /\ None \notin Users \cup Values \cup Tables

VARIABLES
  token,    \* localStorage: whose token it is
  legacy,   \* localStorage: it holds values of earlier versions
  user,     \* who is signed in, as the page knows
  me,       \* the request that asks: none, asked, or answered with a set
  prefs,    \* the set on the screen
  list,     \* the table whose list is on the screen
  edit,     \* the popover: the columns staged, and the table they are for
  sent,     \* saves on their way to the server
  applied,  \* saves applied and not answered, in the order they were applied
  stored,   \* the set of each account
  chosen,   \* history: the user's last choices, unless the screen had taken
            \* them back before he chose again, or since a save has failed, or
            \* been applied before one sent earlier
  doubt,    \* history: the last reason why the account may differ from the
            \* screen
  turns     \* history: the bounded events so far

prefsVars == <<token, legacy, user, me, prefs, list, edit, sent, applied, stored, chosen, doubt, turns>>

Sets == [Settings -> Values]
Saves == [by : Users, kind : {"save", "load", "cancelled", "gone"}, set : Sets, late : BOOLEAN]

PrefsTypeOK ==
  /\ token \in Users \cup {None} /\ user \in Users \cup {None} /\ legacy \in BOOLEAN
  /\ me \in [stage : {"off", "asked", "read"}, set : Sets]
  /\ prefs \in Sets /\ stored \in [Users -> Sets]
  /\ list \in Tables
  /\ edit \in [keys : Values, of : Tables \cup {None}] \cup {None}
  /\ sent \in Seq(Saves) /\ applied \in Seq(Saves)
  /\ Len(sent) + Len(applied) <= MaxSaves
  /\ chosen \in [Settings -> Values \cup {None}]
  /\ doubt \in {"no", "failed", "elsewhere", "overtaken", "foreign"}
  /\ turns \in 0 .. MaxTurns

AllDefault == [s \in Settings |-> Default]
NoChoices == [s \in Settings |-> None]

NotAsked == [stage |-> "off", set |-> AllDefault]
Asked == [stage |-> "asked", set |-> AllDefault]

\* a page that has just been loaded asks who its token is of
PrefsInit ==
  /\ token = None /\ legacy \in BOOLEAN
  /\ user = None /\ me = NotAsked
  /\ prefs = AllDefault
  /\ list \in Tables /\ edit = None
  /\ sent = <<>> /\ applied = <<>>
  /\ stored = [u \in Users |-> AllDefault]
  /\ chosen = NoChoices /\ doubt = "no"
  /\ turns = 0

Loading == me.stage # "off"
Turn == turns < MaxTurns /\ turns' = turns + 1
Room == Len(sent) + Len(applied) < MaxSaves
Sending(kind, set) == Append(sent, [by |-> token, kind |-> kind, set |-> set, late |-> FALSE])

\* the cleanup of the load effect: a load that is under way is cancelled
Cancelled(saves) == [i \in DOMAIN saves |-> IF saves[i].kind = "load" THEN [saves[i] EXCEPT !.kind = "cancelled"] ELSE saves[i]]

-----------------------------------------------------------------------------
(***************************************************************************)
(* The popover.  Its effect stages what the list displays when it opens,   *)
(* and again whenever that is another list of columns: a saved one is a    *)
(* new array with every set that arrives, the default one is not.          *)
(***************************************************************************)

Staged(keys) == [keys |-> keys, of |-> None]

\* variant: it stages them when it opens only
RestagedOnce(before, after) == edit

Restaged(before, after) ==
  IF edit = None \/ (before = Default /\ after = Default) THEN edit ELSE Staged(after)

OpenColumns ==
  /\ token # None /\ edit = None
  /\ edit' = Staged(prefs[list])
  /\ UNCHANGED <<token, legacy, user, me, prefs, list, sent, applied, stored, chosen, doubt, turns>>

\* columns are added, removed or moved
Stage(keys) ==
  /\ edit # None /\ keys \in OwnOf[token] /\ keys # edit.keys
  /\ edit' = [keys |-> keys, of |-> list]
  /\ UNCHANGED <<token, legacy, user, me, prefs, list, sent, applied, stored, chosen, doubt, turns>>

\* the button, Escape, beside the popover, or another page
CloseColumns ==
  /\ edit # None
  /\ edit' = None
  /\ UNCHANGED <<token, legacy, user, me, prefs, list, sent, applied, stored, chosen, doubt, turns>>

\* the list of another table, in the same component
GoTo(t) ==
  /\ token # None /\ t # list
  /\ list' = t
  /\ edit' = IF edit = None THEN None ELSE Restaged(None, prefs[t])
  /\ UNCHANGED <<token, legacy, user, me, prefs, sent, applied, stored, chosen, doubt, turns>>

-----------------------------------------------------------------------------
(***************************************************************************)
(* Choices.                                                                *)
(***************************************************************************)

\* variant: the set sent is the one that was loaded, and the choice
PutAlone(s, v) ==
  /\ token # None /\ (Loading => user = None) /\ Room
  /\ prefs' = [prefs EXCEPT ![s] = v]
  /\ sent' = IF user = None THEN sent ELSE Sending("save", [AllDefault EXCEPT ![s] = v])
  /\ chosen' = IF user = None THEN chosen
               ELSE [x \in Settings |-> IF x = s THEN v ELSE IF chosen[x] = prefs[x] THEN chosen[x] ELSE None]
  /\ UNCHANGED <<token, legacy, user, me, list, applied, stored, doubt, turns>>

\* the setter: the screen at once, and the whole set to the account; while
\* nobody is known to be signed in, the screen only
Put(s, v) ==
  /\ token # None /\ (Loading => user = None) /\ Room
  /\ prefs' = [prefs EXCEPT ![s] = v]
  /\ sent' = IF user = None THEN sent ELSE Sending("save", [prefs EXCEPT ![s] = v])
  /\ chosen' = IF user = None THEN chosen
               ELSE [x \in Settings |-> IF x = s THEN v ELSE IF chosen[x] = prefs[x] THEN chosen[x] ELSE None]
  /\ UNCHANGED <<token, legacy, user, me, list, applied, stored, doubt, turns>>

\* a control of the settings page, the user menu or the sidebar
Choose(s, v) ==
  /\ token # None /\ edit = None
  /\ v \in OwnOf[token] \cup {Default} /\ v # prefs[s]
  /\ Put(s, v)
  /\ UNCHANGED edit

SaveColumns == edit # None /\ Put(list, edit.keys) /\ edit' = None
ResetColumns == edit # None /\ Put(list, Default) /\ edit' = None

-----------------------------------------------------------------------------
(***************************************************************************)
(* The session.                                                            *)
(***************************************************************************)

\* the login page, which is there for somebody signed in, too
Login(u) ==
  /\ Turn
  /\ ~ Loading
  /\ token' = u /\ me' = Asked
  /\ edit' = None
  /\ sent' = Cancelled(sent) /\ applied' = Cancelled(applied)
  /\ UNCHANGED <<legacy, user, prefs, list, stored, chosen, doubt>>

\* the server's answer to it, which overtakes those of saves applied before
MeRead ==
  /\ me.stage = "asked"
  /\ me' = [stage |-> "read", set |-> stored[token]]
  /\ applied' = [j \in DOMAIN applied |-> [applied[j] EXCEPT !.late = TRUE]]
  /\ doubt' = "no"
  /\ UNCHANGED <<token, legacy, user, prefs, list, edit, sent, stored, chosen, turns>>

\* the spread of them over what the account has
Merged(set) == [s \in Settings |-> IF s \in LegacySettings THEN Legacy ELSE set[s]]

\* the load effect: values of earlier versions are merged and saved first.
\* (migratedRef adds nothing: what has been read of them has been removed.)
MeArrives ==
  /\ me.stage = "read"
  /\ me' = NotAsked /\ user' = token
  /\ chosen' = NoChoices
  /\ IF legacy
     THEN /\ Room
          /\ legacy' = FALSE
          /\ sent' = Sending("load", Merged(me.set))
          /\ UNCHANGED <<prefs, edit>>
     ELSE /\ prefs' = me.set
          /\ edit' = Restaged(prefs[list], me.set[list])
          /\ UNCHANGED <<legacy, sent>>
  /\ UNCHANGED <<token, list, applied, stored, doubt, turns>>

\* nobody is signed in, and the screen has the default set
SignedOut ==
  /\ token' = None /\ user' = None /\ me' = NotAsked
  /\ prefs' = AllDefault /\ edit' = None
  /\ chosen' = NoChoices

MeFails ==
  /\ Loading
  /\ SignedOut
  /\ sent' = Cancelled(sent) /\ applied' = Cancelled(applied)
  /\ UNCHANGED <<legacy, list, stored, doubt, turns>>

\* saves that are under way stay under way
Logout ==
  /\ user # None /\ ~ Loading
  /\ SignedOut
  /\ sent' = Cancelled(sent) /\ applied' = Cancelled(applied)
  /\ UNCHANGED <<legacy, list, stored, doubt, turns>>

\* the page is loaded again: no answer comes to the new one
Reloaded ==
  /\ Turn
  /\ user' = None /\ prefs' = AllDefault /\ edit' = None
  /\ sent' = [i \in DOMAIN sent |-> [sent[i] EXCEPT !.kind = "gone"]]
  /\ applied' = <<>>
  /\ chosen' = NoChoices
  /\ UNCHANGED <<legacy, list, stored, doubt>>

Reload ==
  /\ token # None
  /\ me' = Asked
  /\ UNCHANGED token
  /\ Reloaded

\* an answer with status 401 clears the token and loads the login page
Expire ==
  /\ Loading \/ \E i \in DOMAIN sent : sent[i].kind # "gone"
  /\ token' = None /\ me' = NotAsked
  /\ Reloaded

-----------------------------------------------------------------------------
(***************************************************************************)
(* Saves and their answers.                                                *)
(***************************************************************************)

\* whose account the page is about, or will be
Account == IF Loading THEN token ELSE user

\* the account takes every setting of the set; the page hears of it unless
\* it is gone
Apply(i) ==
  LET r == sent[i]
  IN  /\ stored' = [stored EXCEPT ![r.by] = r.set]
      /\ sent' = RemoveAt(sent, i)
      /\ chosen' = IF i = 1 THEN chosen ELSE NoChoices
      /\ IF r.kind = "gone"
         THEN doubt' = (IF r.by = Account THEN "elsewhere" ELSE doubt) /\ UNCHANGED applied
         ELSE /\ applied' = Append(applied, r)
              /\ doubt' = IF r.by # Account THEN doubt
                          ELSE IF Loading \/ r.kind = "cancelled" THEN "elsewhere" ELSE "no"
      /\ UNCHANGED <<token, legacy, user, me, prefs, list, edit, turns>>

\* variant: a load that was cancelled takes the screen as well
TakesScreenAny(r) == TRUE

\* what an answer does to the screen: that of a save always takes it
TakesScreen(r) == r.kind # "cancelled"

\* why the screen may differ from the account after that of r
Doubted(r) == IF r.late THEN "overtaken" ELSE IF r.by # Account THEN "foreign" ELSE doubt

AnswerSave(i) ==
  LET r == applied[i]
  IN  /\ applied' = RemoveAt([j \in DOMAIN applied |-> IF j < i THEN [applied[j] EXCEPT !.late = TRUE] ELSE applied[j]], i)
      /\ prefs' = IF TakesScreen(r) THEN r.set ELSE prefs
      /\ edit' = IF TakesScreen(r) THEN Restaged(prefs[list], r.set[list]) ELSE edit
      /\ doubt' = IF r.kind # "cancelled" THEN Doubted(r) ELSE doubt
      /\ UNCHANGED <<token, legacy, user, me, list, sent, stored, chosen, turns>>

\* refused, or lost: the screen stays as it is; that of a load, which has
\* waited for it, takes the merged values
Failed(r) ==
  /\ prefs' = IF r.kind = "load" THEN r.set ELSE prefs
  /\ edit' = IF r.kind = "load" THEN Restaged(prefs[list], r.set[list]) ELSE edit
  /\ IF r.kind \in {"save", "load"}
     THEN doubt' = "failed" /\ chosen' = NoChoices
     ELSE UNCHANGED <<doubt, chosen>>

RefuseSave(i) ==
  /\ Failed(sent[i])
  /\ sent' = RemoveAt(sent, i)
  /\ UNCHANGED <<token, legacy, user, me, list, applied, stored, turns>>

LoseSave(i) ==
  /\ Failed(applied[i])
  /\ applied' = RemoveAt(applied, i)
  /\ UNCHANGED <<token, legacy, user, me, list, sent, stored, turns>>

\* the same user, elsewhere
OtherChooses(u, s, v) ==
  /\ Turn
  /\ v \in OwnOf[u] /\ v # stored[u][s]
  /\ stored' = [stored EXCEPT ![u][s] = v]
  /\ doubt' = IF u = Account THEN "elsewhere" ELSE doubt
  /\ UNCHANGED <<token, legacy, user, me, prefs, list, edit, sent, applied, chosen>>

-----------------------------------------------------------------------------
PrefsNext ==
  \/ OpenColumns \/ CloseColumns \/ SaveColumns \/ ResetColumns
  \/ (\E v \in Values : Stage(v)) \/ (\E t \in Tables : GoTo(t))
  \/ \E s \in Settings, v \in Values : Choose(s, v)
  \/ (\E u \in Users : Login(u)) \/ MeRead \/ MeArrives \/ MeFails \/ Logout \/ Reload \/ Expire
  \/ \E i \in DOMAIN sent : Apply(i) \/ RefuseSave(i)
  \/ \E i \in DOMAIN applied : AnswerSave(i) \/ LoseSave(i)
  \/ \E u \in Users, s \in Settings, v \in Values : OtherChooses(u, s, v)

PrefsSpec == PrefsInit /\ [][PrefsNext]_prefsVars

-----------------------------------------------------------------------------
\* Nothing is under way in the session of a user, and no reason is known why
\* his account and his screen should differ.
Settled == user # None /\ ~ Loading /\ sent = <<>> /\ applied = <<>> /\ doubt = "no"

\* The screen shows what the account has, whatever was chosen, loaded again,
\* signed in and out before: unless the last save has failed, the account was
\* changed elsewhere, answers have overtaken each other, or one has come for
\* the user before.
ScreenAsStored == Settled => prefs = stored[user]

\* A choice is kept with all later ones, unless the screen had taken it back
\* before the next one, a save has failed, or one was applied before one that
\* was sent earlier.
ChoicesStored == Settled => \A s \in Settings : chosen[s] \in {None, stored[user][s]}

\* The columns staged are those the list displays, or were staged by the user
\* for the table whose list it is, to which they will be saved.
StagedHere == edit # None => IF edit.of = None THEN edit.keys = prefs[list] ELSE edit.of = list

\* CHANGELOG.md:489: display preferences persist to the profile of the user
\* who is signed in.  What an account has was chosen by its user, or was in
\* the browser from earlier versions.
OwnPreferences == \A u \in Users, s \in Settings : stored[u][s] \in OwnOf[u] \cup {Default, Legacy}

=============================================================================
