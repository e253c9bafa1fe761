------------------------------ MODULE EditForm ------------------------------
(***************************************************************************)
(* One form of the frontend, one of its fields, and the records it may     *)
(* show: what the user types, what he is shown, and what is sent, while    *)
(* answers arrive, he goes to another record, and others write.            *)
(*                                                                         *)
(* The component of a page stays on the screen when the path changes to    *)
(* another record of the same kind, with all its state; what fills the     *)
(* form again is an effect that depends on the data of the query.  The     *)
(* library replaces the data only by an answer that differs from it        *)
(* (structural sharing), and reads a query again when it is mounted,       *)
(* invalidated, or when the connection is back.  Answers that overtake     *)
(* each other are left to PageCache.                                       *)
(*                                                                         *)
(* A save that is started while the browser is offline is paused by the    *)
(* library.  When the connection is back, the library calls the function   *)
(* the component gave it in its last rendering: it is sent to the record   *)
(* that is on the screen by then.                                          *)
(***************************************************************************)
EXTENDS Forms

CONSTANTS
  Targets,    \* records, or rows, the form may be opened on
  Values,     \* values of the field
  Empty,      \* the value of a field that is cleared
  None        \* no record, no entry, no request, nothing sent

ASSUME ValuesAssumption == Empty \in Values /\ None \notin Targets /\ None \notin Values

VARIABLES
  form,    \* the form
  at,      \* the record on the screen, the row opened, or None
  open,    \* the editor in the page, or the form that a button shows, is open
  draft,   \* the text, the saved text it is compared with, the record it is
           \* from, and what the user has done with it
  focus,   \* the editor has the focus
  mouse,   \* the mouse is down on the button of the notes
  saving,  \* savingNotesRef: the next blur is taken for a press of that button
  server,  \* the value of the field in each record
  entry,   \* the data of the query of each record: the value, and whether the
           \* other columns are as they were read
  fetch,   \* the records being read
  failed,  \* history: the last read of the record on the screen has failed
  req      \* the save under way

vars == <<form, at, open, draft, focus, mouse, saving, server, entry, fetch, failed, req>>

Contents == [val : Values, same : BOOLEAN]
Drafts == [text : Values, saved : Values, from : Targets \cup {None}, typed : {"no", "typed", "sent", "refused", "closed"}]
Requests == [for : Targets, clicked : Targets, told : Targets, sent : Values \cup {None}, text : Values,
             from : Targets \cup {None}, stage : {"paused", "sent", "done"}, live : BOOLEAN]

ASSUME NoneAssumption == None \notin Contents \cup Requests

TypeOK ==
  /\ form \in FormTypes
  /\ at \in Targets \cup {None}
  /\ open \in BOOLEAN /\ focus \in BOOLEAN /\ mouse \in BOOLEAN /\ saving \in BOOLEAN /\ failed \in BOOLEAN
  /\ draft \in Drafts
  /\ server \in [Targets -> Values]
  /\ entry \in [Targets -> Contents \cup {None}]
  /\ fetch \subseteq Targets
  /\ req \in Requests \cup {None}

Can(c) == c \in form.controls
Is(trait) == trait \in form.traits

\* the form makes something new: no field of the records is sent or shown in it
ForNew == form.fills = "blank"

\* rows are those of one list, which stays on the screen
Listed == form.fills = "row"
Loaded(t) == entry[t] # None

\* the form is on the screen: until its record is read, "Loading..." is
Ready == at # None /\ (Is("kept") \/ Loaded(at))

\* what the form takes from the data; a secret is not among it
Read(e) == IF Is("hidden") THEN Empty ELSE e.val
Filled(t, e) == [text |-> Read(e), saved |-> Read(e), from |-> t, typed |-> "no"]

Blank(t) == [text |-> Empty, saved |-> Empty, from |-> t, typed |-> "no"]

Dirty == draft.text # draft.saved
Pending == req # None /\ req.live

\* the browser is offline, and a save waits for the connection
Waiting == req # None /\ req.stage = "paused"

\* a form behind a button, or an editor of notes, is closed at first
Hides == Can("open")

Init ==
  /\ form \in AllForms
  /\ at = None /\ draft = Blank(None)
  /\ open = FALSE /\ focus = FALSE /\ mouse = FALSE /\ saving = FALSE /\ failed = FALSE
  /\ server \in [Targets -> IF ForNew THEN {Empty} ELSE Values]
  /\ entry = [t \in Targets |-> None]
  /\ fetch = IF Listed THEN Targets ELSE {}
  /\ req = None

-----------------------------------------------------------------------------
(***************************************************************************)
(* The user goes about.                                                    *)
(***************************************************************************)

\* a page is opened, its component with it; or a row is opened
Visit(t) ==
  /\ at = None /\ (Listed => Loaded(t))
  /\ at' = t
  /\ draft' = IF form.fills = "blank" \/ ~ Loaded(t) THEN Blank(t) ELSE Filled(t, entry[t])
  /\ open' = ~ Hides /\ focus' = FALSE /\ mouse' = FALSE /\ saving' = FALSE /\ failed' = FALSE
  /\ fetch' = IF Listed THEN fetch ELSE fetch \cup {t}
  /\ UNCHANGED <<form, server, entry, req>>

\* variant: the effect does not depend on the data
CarriedUnfilled(t) == draft

\* what the draft becomes when the path changes to t and the component stays.
\* Parts of the page that need its record are new when t is not loaded.
Carried(t) ==
  CASE form.fills = "row" -> Filled(t, entry[t])
    [] form.fills \in {"record", "once"} -> IF Loaded(t) THEN Filled(t, entry[t]) ELSE draft
    [] form.fills = "field" ->
         IF ~ Loaded(t) THEN Blank(t)
         ELSE IF Loaded(at) /\ Read(entry[at]) = Read(entry[t]) THEN draft ELSE Filled(t, entry[t])
    [] OTHER -> IF Is("kept") \/ (Loaded(t) /\ Loaded(at)) THEN draft ELSE Blank(t)

\* the component stays: it is the page's, or its record and the next are read
Stays(t) == form.fills \notin {"field", "blank"} \/ Is("kept") \/ (Loaded(at) /\ Loaded(t))

\* the value sent: none, when it has not changed or does not count
Sent ==
  LET changed == draft.text # draft.saved
      counts == draft.text # Empty \/ ~ (Is("drops") \/ Is("hidden"))
  IN  IF form.sends = "whole" \/ (changed /\ counts) THEN draft.text ELSE None

\* the save as the function of the last rendering sends it
Rendered(r) ==
  IF Is("addressed") THEN r
  ELSE IF Is("late") THEN [r EXCEPT !.for = at, !.sent = Sent, !.text = draft.text, !.from = draft.from]
  ELSE [r EXCEPT !.for = at]

\* the save when its component goes: nothing is rendered after that
Left == [(IF Waiting THEN Rendered(req) ELSE req) EXCEPT !.live = FALSE]

\* when the component stays: what it does on success is for the next record,
\* but for a function that is under way itself
Followed(t) == IF Is("direct") THEN req ELSE [req EXCEPT !.told = t]

Switch(t) ==
  /\ Can("other") /\ at # None /\ t # at /\ (Listed => Loaded(t))
  /\ at' = t
  /\ draft' = Carried(t)
  /\ fetch' = IF Listed THEN fetch ELSE fetch \cup {t}
  /\ failed' = FALSE
  /\ req' = IF ~ Pending THEN req ELSE IF Stays(t) THEN Followed(t) ELSE Left
  /\ UNCHANGED <<form, open, focus, mouse, saving, server, entry>>

\* the page is left, and its component with it; a row is closed, by its
\* button, by Escape or beside it, also while it is being saved
Leave ==
  /\ at # None
  /\ at' = None
  /\ draft' = Blank(None)
  /\ open' = FALSE /\ focus' = FALSE /\ mouse' = FALSE /\ saving' = FALSE /\ failed' = FALSE
  /\ req' = IF Pending /\ ~ Listed THEN Left ELSE req
  /\ UNCHANGED <<form, server, entry, fetch>>

-----------------------------------------------------------------------------
(***************************************************************************)
(* The controls.                                                           *)
(***************************************************************************)

\* the editor of a note, or a hidden form; the button of that hides it again
Open ==
  /\ Ready /\ Can("open")
  /\ (open => ~ Can("blur"))
  /\ open' = ~ open
  /\ focus' = Can("blur")
  /\ UNCHANGED <<form, at, draft, mouse, saving, server, entry, fetch, failed, req>>

Type(v) ==
  /\ Ready /\ open /\ Can("type") /\ ~ mouse
  /\ v # draft.text
  /\ draft' = [draft EXCEPT !.text = v, !.from = at, !.typed = "typed"]
  /\ focus' = Can("blur")
  /\ UNCHANGED <<form, at, open, mouse, saving, server, entry, fetch, failed, req>>

\* the button is disabled while nothing has changed, or a save is pending
Enabled == Ready /\ ~ Pending /\ (Dirty \/ Is("rest"))

\* what becomes of the user's text when it is sent
Given == IF draft.typed \in {"no", "closed"} THEN draft ELSE [draft EXCEPT !.typed = "sent"]

\* the save is sent, or, when the browser is offline, it waits
Submit ==
  /\ \E stage \in {"sent"} \cup (IF Is("direct") THEN {} ELSE {"paused"}) :
       req' = [for |-> at, clicked |-> at, told |-> at, sent |-> Sent, text |-> draft.text, from |-> draft.from,
               stage |-> stage, live |-> TRUE]
  /\ draft' = Given

\* the button of the form; of a page with notes, that of the other section,
\* which takes the focus first
Save ==
  /\ Enabled /\ Can("save")
  /\ (Can("blur") => ~ focus) /\ (Hides /\ ~ Can("blur") => open)
  /\ Submit
  /\ UNCHANGED <<form, at, open, focus, mouse, saving, server, entry, fetch, failed>>

\* variant: only the editor closes
RevertedUnread ==
  /\ draft' = draft
  /\ open' = FALSE /\ focus' = FALSE

\* the note goes back to what is saved, and its editor closes
Reverted ==
  /\ draft' = Filled(at, entry[at])
  /\ open' = FALSE /\ focus' = FALSE

Blur ==
  /\ Ready /\ Can("blur") /\ open /\ focus
  /\ IF saving THEN focus' = FALSE /\ UNCHANGED <<open, draft>> ELSE Reverted
  /\ UNCHANGED <<form, at, mouse, saving, server, entry, fetch, failed, req>>

Escape ==
  /\ Ready /\ Can("escape") /\ open /\ focus
  /\ Reverted
  /\ UNCHANGED <<form, at, mouse, saving, server, entry, fetch, failed, req>>

\* the button of the notes: the mouse goes down, which takes the focus from
\* the note, and is let go, on the button or elsewhere
Hold ==
  /\ Enabled /\ Can("press") /\ ~ mouse
  /\ mouse' = TRUE /\ saving' = TRUE /\ focus' = FALSE
  /\ UNCHANGED <<form, at, open, draft, server, entry, fetch, failed, req>>

Press ==
  /\ Enabled /\ mouse
  /\ Submit
  /\ mouse' = FALSE /\ saving' = FALSE
  /\ UNCHANGED <<form, at, open, focus, server, entry, fetch, failed>>

Drag ==
  /\ mouse
  /\ mouse' = FALSE
  /\ UNCHANGED <<form, at, open, draft, focus, saving, server, entry, fetch, failed, req>>

-----------------------------------------------------------------------------
(***************************************************************************)
(* The server and the answers.                                             *)
(***************************************************************************)

\* a write: the value, if it is among it, and other columns
Writes(t, v, others) ==
  /\ server' = IF v = None \/ ForNew THEN server ELSE [server EXCEPT ![t] = v]
  /\ entry' = IF others /\ Loaded(t) THEN [entry EXCEPT ![t].same = FALSE] ELSE entry

\* the connection is back.  A popover that has been closed has no row to save.
Reconnect ==
  /\ Waiting
  /\ req' = CASE ~ req.live -> [req EXCEPT !.stage = "sent"]
              [] req.live /\ at = None /\ ~ Is("addressed") -> None
              [] OTHER -> [Rendered(req) EXCEPT !.stage = "sent"]
  /\ draft' = IF req.live /\ at # None /\ Is("late") THEN Given ELSE draft
  /\ UNCHANGED <<form, at, open, focus, mouse, saving, server, entry, fetch, failed>>

Apply ==
  /\ req # None /\ req.stage = "sent"
  /\ \E others \in {TRUE} \cup (IF Is("stamped") THEN {} ELSE {FALSE}) : Writes(req.for, req.sent, others)
  /\ req' = [req EXCEPT !.stage = "done"]
  /\ UNCHANGED <<form, at, open, draft, focus, mouse, saving, fetch, failed>>

\* somebody else writes
OtherWrites(t, v) ==
  /\ Writes(t, v, TRUE)
  /\ UNCHANGED <<form, at, open, draft, focus, mouse, saving, fetch, failed, req>>

\* the save is refused, or its answer is lost: the form stays as it is
Refuse ==
  /\ req # None /\ ~ Waiting
  /\ req' = None
  /\ draft' = IF Pending /\ draft.typed = "sent" THEN [draft EXCEPT !.typed = "refused"] ELSE draft
  /\ UNCHANGED <<form, at, open, focus, mouse, saving, server, entry, fetch, failed>>

\* success, for the form as it is by now.  It closes the editors of notes,
\* also of one the user has typed in since.
Settled ==
  CASE form.done = "refetch" -> IF Can("blur") /\ draft.typed = "typed" THEN [draft EXCEPT !.typed = "closed"] ELSE draft
    [] form.done = "settle" -> [draft EXCEPT !.saved = req.text]
    [] OTHER -> Blank(IF form.done = "close" THEN None ELSE at)

Answer ==
  /\ req # None /\ req.stage = "done"
  /\ req' = None
  /\ at' = IF Pending /\ form.done = "close" THEN None ELSE at
  /\ draft' = IF Pending /\ at # None THEN Settled ELSE draft
  /\ open' = IF Pending /\ Hides THEN FALSE ELSE open
  /\ focus' = IF Pending THEN FALSE ELSE focus
  /\ fetch' = IF Listed THEN Targets ELSE IF at = req.told THEN fetch \cup {at} ELSE fetch
  /\ failed' = IF at = req.told THEN FALSE ELSE failed
  /\ UNCHANGED <<form, mouse, saving, server, entry>>

\* what is read, and whether it differs from the data there is
Answered(t) == [val |-> server[t], same |-> TRUE]
Differs(t) == entry[t] # Answered(t)

\* variant: the form is filled once
EffectOnce(e) == IF Loaded(at) THEN draft ELSE Filled(at, e)

\* what new data does to the form
Effect(e) ==
  CASE form.fills = "record" -> Filled(at, e)
    [] form.fills = "field" -> IF Loaded(at) /\ Read(entry[at]) = Read(e) THEN draft ELSE Filled(at, e)
    [] form.fills = "once" -> IF Loaded(at) THEN draft ELSE Filled(at, e)
    [] OTHER -> draft

\* variant: the effect runs after every answer
ArriveAlways(t) ==
  /\ t \in fetch /\ ~ Waiting
  /\ fetch' = fetch \ {t}
  /\ entry' = [entry EXCEPT ![t] = Answered(t)]
  /\ draft' = IF t = at THEN Effect(Answered(t)) ELSE draft
  /\ failed' = IF t = at THEN FALSE ELSE failed
  /\ UNCHANGED <<form, at, open, focus, mouse, saving, server, req>>

Arrive(t) ==
  /\ t \in fetch /\ ~ Waiting
  /\ fetch' = fetch \ {t}
  /\ entry' = [entry EXCEPT ![t] = Answered(t)]
  /\ draft' = IF t = at /\ Differs(t) THEN Effect(Answered(t)) ELSE draft
  /\ failed' = IF t = at THEN FALSE ELSE failed
  /\ UNCHANGED <<form, at, open, focus, mouse, saving, server, req>>

FetchFails(t) ==
  /\ t \in fetch
  /\ fetch' = fetch \ {t}
  /\ failed' = (failed \/ t = at)
  /\ UNCHANGED <<form, at, open, draft, focus, mouse, saving, server, entry, req>>

\* what is on the screen is read once more, the connection having been lost
Refetch ==
  /\ ~ Waiting
  /\ fetch' = IF Listed THEN Targets ELSE IF at = None THEN fetch ELSE fetch \cup {at}
  /\ fetch' # fetch
  /\ UNCHANGED <<form, at, open, draft, focus, mouse, saving, server, entry, failed, req>>

-----------------------------------------------------------------------------
Next ==
  \/ \E t \in Targets : Visit(t) \/ Switch(t) \/ Arrive(t) \/ FetchFails(t)
  \/ Leave \/ Reconnect \/ Refetch
  \/ Open \/ (\E v \in Values : Type(v)) \/ Save \/ Blur \/ Escape \/ Hold \/ Press \/ Drag
  \/ Apply \/ Refuse \/ Answer
  \/ \E t \in Targets, v \in Values \cup {None} : OtherWrites(t, v)

Spec == Init /\ [][Next]_vars

-----------------------------------------------------------------------------
\* What is saved to a record was read from it or typed on its page: no text
\* is carried to another record by a component that stays on the screen.  A
\* comment does go with the user, and so does an owner he has chosen when the
\* records have the same one.  And so does a save that waited for the
\* connection while he went from the record of the click to another.
CarriesOver == form.fills \in {"field", "blank"}
SavedWhereTyped == req # None /\ ~ CarriesOver /\ req.for = req.clicked => req.from = req.for

\* A field the user has not touched shows what the page has read of the
\* record it is on, whatever was there before.
UntouchedAsRead ==
  Ready /\ form.fills = "record" /\ draft.typed = "no" => draft.text = Read(entry[at])

\* When a save is answered and the record has been read again, the form is
\* clean: its button is disabled until the user types again.  (Values that
\* are not sent, or never read, are the exception.)
SavedIsClean ==
  Ready /\ form.fills = "record" /\ draft.typed = "sent" /\ req = None /\ at \notin fetch /\ ~ failed /\ Dirty
    => Is("hidden") \/ (Is("drops") /\ draft.text = Empty)

\* A note that is not being edited shows what is saved, unless the record is
\* being read, or could not be read, or the answer of a save has closed the
\* note while the user was typing in it.
ClosedNoteIsSaved ==
  Ready /\ Can("blur") /\ ~ open /\ at \notin fetch /\ ~ failed /\ draft.typed # "closed"
    => draft.text = Read(entry[at])

\* What the user has typed stays until he types again, gives it up, or leaves;
\* or until the record proves to have changed; or until his own save is
\* answered.  In particular the reads that other parts of the page cause, and
\* a save that fails, leave it alone.
EditsKept ==
  [][draft.typed # "no" /\ Ready /\ at' = at /\ draft'.text # draft.text =>
       \/ draft'.typed = "typed" \/ (open /\ ~ open')
       \/ (Differs(at) /\ ~ Differs(at)') \/ (form.done = "clear" /\ req # None /\ req.stage = "done")]_vars

=============================================================================
