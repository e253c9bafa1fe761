---------------------------- MODULE CatalogOrder ----------------------------
(***************************************************************************)
(* Ordering from the service catalog (backend/app/api/flake/catalog.py,    *)
(* domain/catalog/ordering.py, domain/catalog/webhooks.py) and the record  *)
(* numbers it uses (next_number in domain/table_service.py).               *)
(*                                                                         *)
(* A cart is a list in the memory of the backend process.  Submitting it   *)
(* takes the list away and orders its entries one after another, all in    *)
(* one transaction: a request (REQ), a requested item (RITM), its options, *)
(* the "order" webhooks of the item - HTTP calls made from inside the      *)
(* transaction - and a fulfilment task (SCTASK).  Each record takes its    *)
(* number from a counter row that the transaction then holds locked to its *)
(* end.  The entry a row was created for is kept with the row.             *)
(***************************************************************************)
EXTENDS Naturals

CONSTANTS
  Users,
  Entries,        \* things put in a cart or ordered at once; each only once
  Directs,        \* records created through the table API; each only once
  Hooks,          \* webhooks, as attached to catalog items
  HooksOf,        \* the "order" webhooks of an entry's catalog item
  Keyed,          \* webhooks that need a secret or a token to be called
  Silent,         \* webhooks whose endpoint never answers
  ClientNumbers,  \* numbers clients write into records they create
  Sessions,       \* requests that may be running at the same time
  None

Prefixes == {"REQ", "RITM", "SCTASK"}
Ids == Entries \cup Directs

ASSUME OrderAssumption ==
  /\ None \notin Ids
  /\ Entries \cap Directs = {}
  /\ HooksOf \in [Entries -> SUBSET Hooks]
  /\ Keyed \subseteq Hooks /\ Silent \subseteq Hooks
  /\ ClientNumbers \subseteq Nat \ {0}

VARIABLES
  last,     \* committed last_value of every number_sequence row
  table,    \* committed rows: <<prefix, number, id>>
  log,      \* committed sc_webhook_log rows: how many of each kind
  cart,     \* _cart: the entries in every user's cart
  req,      \* the request every session is running
  used,     \* history: entries and direct creates begun so far
  lost,     \* history: those whose request failed or whose process died
  batches,  \* history: what was submitted together
  posts     \* history: how many HTTP calls webhook endpoints have had

history == <<used, lost, batches, posts>>
vars == <<last, table, log, cart, history, req>>

\* log rows: their entry, their webhook and whether the call succeeded; calls:
\* whether the options of the entry were there to be sent
Results == {"success", "error"}
Options == {"blank", "filled"}
Logs == Entries \X Hooks \X Results
Calls == Entries \X Hooks \X Options

\* how many there are of each
Tally(S) == [S -> Nat]
NoneOf(S) == [x \in S |-> 0]
Plus(t, x) == [t EXCEPT ![x] = @ + 1]

Idle == [pc |-> "idle", batch |-> {}, todo |-> {}, id |-> None, given |-> 0,
         number |-> 0, locked |-> {}, value |-> [p \in Prefixes |-> 0],
         rows |-> {}, options |-> "blank", hooks |-> {}, logs |-> NoneOf(Logs)]

Request == [pc : {"idle", "item", "options", "hooks", "commit"} \cup Prefixes,
            batch : SUBSET Ids,       \* what the request was sent for
            todo : SUBSET Entries,    \* cart entries not ordered yet
            id : Ids \cup {None},     \* the one being created
            given : Nat,              \* the client's number, or 0
            number : Nat,             \* taken and not inserted yet, or 0
            locked : SUBSET Prefixes, \* counter rows locked and changed
            value : [Prefixes -> Nat],\* their uncommitted last_value
            rows : SUBSET (Prefixes \X Nat \X Ids),  \* uncommitted rows
            options : Options,        \* whether those of the entry are flushed
            hooks : SUBSET Hooks,     \* webhooks still to be called
            logs : Tally(Logs)]       \* uncommitted log rows

TypeOK ==
  /\ last \in [Prefixes -> Nat]
  /\ table \subseteq Prefixes \X Nat \X Ids
  /\ log \in Tally(Logs)
  /\ cart \in [Users -> SUBSET Entries]
  /\ req \in [Sessions -> Request]
  /\ used \subseteq Ids /\ lost \subseteq Ids
  /\ batches \subseteq SUBSET Entries
  /\ posts \in Tally(Calls)

Init ==
  /\ last = [p \in Prefixes |-> 0]
  /\ table = {}
  /\ log = NoneOf(Logs)
  /\ cart = [u \in Users |-> {}]
  /\ req = [s \in Sessions |-> Idle]
  /\ used = {} /\ lost = {} /\ batches = {} /\ posts = NoneOf(Calls)

-----------------------------------------------------------------------------
(***************************************************************************)
(* Requests begin.                                                         *)
(***************************************************************************)

AddToCart(u, e) ==
  /\ e \notin used
  /\ cart' = [cart EXCEPT ![u] = @ \cup {e}]
  /\ used' = used \cup {e}
  /\ UNCHANGED <<last, table, log, req, lost, batches, posts>>

\* variant: the cart is read now and emptied after the order went through
SubmitKeepsCart(s, u) ==
  /\ req[s].pc = "idle"
  /\ cart[u] # {}
  /\ req' = [req EXCEPT ![s] = [Idle EXCEPT !.pc = "item", !.batch = cart[u], !.todo = cart[u]]]
  /\ batches' = batches \cup {cart[u]}
  /\ UNCHANGED <<last, table, log, cart, used, lost, posts>>

\* submit_order: _cart.pop(user), before the first await; an empty cart is
\* a 400 that changes nothing
Submit(s, u) ==
  /\ req[s].pc = "idle"
  /\ cart[u] # {}
  /\ cart' = [cart EXCEPT ![u] = {}]
  /\ req' = [req EXCEPT ![s] = [Idle EXCEPT !.pc = "item", !.batch = cart[u], !.todo = cart[u]]]
  /\ batches' = batches \cup {cart[u]}
  /\ UNCHANGED <<last, table, log, used, lost, posts>>

\* order_now: one entry, not through the cart
OrderNow(s, e) ==
  /\ req[s].pc = "idle"
  /\ e \notin used
  /\ req' = [req EXCEPT ![s] = [Idle EXCEPT !.pc = "item", !.batch = {e}, !.todo = {e}]]
  /\ used' = used \cup {e}
  /\ batches' = batches \cup {{e}}
  /\ UNCHANGED <<last, table, log, cart, lost, posts>>

\* POST /api/now/table/sc_task and the like: one record, which may bring its
\* own number (n) or leave it to the counter (0)
CreateDirect(s, d, p, n) ==
  /\ req[s].pc = "idle"
  /\ d \notin used
  /\ req' = [req EXCEPT ![s] = [Idle EXCEPT !.pc = p, !.batch = {d}, !.id = d, !.given = n]]
  /\ used' = used \cup {d}
  /\ UNCHANGED <<last, table, log, cart, lost, batches, posts>>

-----------------------------------------------------------------------------
(***************************************************************************)
(* One record after another.                                               *)
(***************************************************************************)

\* the next entry of the cart, its item found active
NextItem(s, e) ==
  /\ req[s].pc = "item"
  /\ e \in req[s].todo
  /\ req' = [req EXCEPT ![s].pc = "REQ", ![s].id = e, ![s].todo = @ \ {e}, ![s].options = "blank"]
  /\ UNCHANGED <<last, table, log, cart, history>>

\* what a session sees of a counter
Counter(s, p) == IF p \in req[s].locked THEN req[s].value[p] ELSE last[p]

\* variant: SELECT without FOR UPDATE
TakeNumberUnlocked(s) ==
  LET p == req[s].pc
      n == Counter(s, p) + 1
  IN  /\ p \in Prefixes
      /\ req[s].number = 0
      /\ req' = [req EXCEPT ![s].locked = @ \cup {p}, ![s].value[p] = n,
                            ![s].number = IF req[s].given = 0 THEN n ELSE req[s].given]
      /\ UNCHANGED <<last, table, log, cart, history>>

\* next_number: SELECT ... FOR UPDATE waits for the lock on the counter row
TakeNumber(s) ==
  LET p == req[s].pc
      n == Counter(s, p) + 1
  IN  /\ p \in Prefixes
      /\ req[s].number = 0
      /\ \A q \in Sessions \ {s} : p \notin req[q].locked
      /\ req' = [req EXCEPT ![s].locked = @ \cup {p}, ![s].value[p] = n,
                            ![s].number = IF req[s].given = 0 THEN n ELSE req[s].given]
      /\ UNCHANGED <<last, table, log, cart, history>>

\* the numbers of a prefix in committed rows, and in rows of other sessions
RowsOf(rows, p) == {t[2] : t \in {x \in rows : x[1] = p}}
Committed(p) == RowsOf(table, p)
Pending(s, p) == UNION {RowsOf(req[q].rows, p) : q \in Sessions \ {s}}

\* where a request goes on after its record was inserted
After(r) ==
  IF r.id \in Directs THEN "commit"
  ELSE CASE r.pc = "REQ"    -> "RITM"
         [] r.pc = "RITM"   -> "options"
         [] r.pc = "SCTASK" -> IF r.todo = {} THEN "commit" ELSE "item"

\* variant: the webhooks are called on the create event of the RITM as well
InsertRowAndNotify(s) ==
  LET r == req[s]
  IN  /\ r.pc \in Prefixes
      /\ r.number # 0
      /\ r.number \notin Committed(r.pc) \cup Pending(s, r.pc)
      /\ req' = [req EXCEPT ![s].rows = @ \cup {<<r.pc, r.number, r.id>>},
                            ![s].number = 0, ![s].pc = After(r)]
      /\ posts' = [x \in Calls |-> IF /\ r.pc = "RITM" /\ x[1] = r.id
                                      /\ x[2] \in HooksOf[x[1]] /\ x[3] = r.options
                                   THEN posts[x] + 1 ELSE posts[x]]
      /\ UNCHANGED <<last, table, log, cart, used, lost, batches>>

\* the INSERT waits for an uncommitted row with the same number
InsertRow(s) ==
  LET r == req[s]
  IN  /\ r.pc \in Prefixes
      /\ r.number # 0
      /\ r.number \notin Committed(r.pc) \cup Pending(s, r.pc)
      /\ req' = [req EXCEPT ![s].rows = @ \cup {<<r.pc, r.number, r.id>>},
                            ![s].number = 0, ![s].pc = After(r)]
      /\ UNCHANGED <<last, table, log, cart, history>>

\* the sc_item_option rows
InsertOptions(s) ==
  LET hooks == HooksOf[req[s].id]
  IN  /\ req[s].pc = "options"
      /\ req' = [req EXCEPT ![s].options = "filled", ![s].hooks = hooks,
                            ![s].pc = IF hooks = {} THEN "SCTASK" ELSE "hooks"]
      /\ UNCHANGED <<last, table, log, cart, history>>

\* the row of a delivery is in the order's session, the next webhook's turn
Logged(s, h, result) ==
  LET r == req[s]
  IN  [req EXCEPT ![s].hooks = @ \ {h},
                  ![s].logs = Plus(@, <<r.id, h, result>>),
                  ![s].pc = IF r.hooks = {h} THEN "SCTASK" ELSE "hooks"]

\* variant: the HTTP client has no timeout
DeliverNoTimeout(s, h, result) ==
  /\ req[s].pc = "hooks"
  /\ h \in req[s].hooks
  /\ h \notin Silent
  /\ posts' = Plus(posts, <<req[s].id, h, req[s].options>>)
  /\ req' = Logged(s, h, result)
  /\ UNCHANGED <<last, table, log, cart, used, lost, batches>>

\* variant: the delivery commits its log row, and so all there is
DeliverAndCommit(s, h, result) ==
  LET r == req[s]
  IN  /\ r.pc = "hooks"
      /\ h \in r.hooks
      /\ result = "success" => h \notin Silent
      /\ posts' = Plus(posts, <<r.id, h, r.options>>)
      /\ log' = Plus(log, <<r.id, h, result>>)
      /\ table' = table \cup r.rows
      /\ last' = [p \in Prefixes |-> Counter(s, p)]
      /\ req' = [req EXCEPT ![s].hooks = @ \ {h}, ![s].rows = {}, ![s].locked = {},
                            ![s].pc = IF r.hooks = {h} THEN "SCTASK" ELSE "hooks"]
      /\ UNCHANGED <<cart, used, lost, batches>>

\* deliver_webhooks_for_ritm: one webhook after the other is called; it answers,
\* fails or times out
Deliver(s, h, result) ==
  /\ req[s].pc = "hooks"
  /\ h \in req[s].hooks
  /\ result = "success" => h \notin Silent
  /\ posts' = Plus(posts, <<req[s].id, h, req[s].options>>)
  /\ req' = Logged(s, h, result)
  /\ UNCHANGED <<last, table, log, cart, used, lost, batches>>

\* ... or it is not called: a secret of its headers is missing, its token
\* cannot be had
Skip(s, h) ==
  /\ req[s].pc = "hooks"
  /\ h \in req[s].hooks \cap Keyed
  /\ req' = Logged(s, h, "error")
  /\ UNCHANGED <<last, table, log, cart, history>>

-----------------------------------------------------------------------------
(***************************************************************************)
(* Requests end.                                                           *)
(***************************************************************************)

\* variant: the user's cart is emptied when the order went through
CommitClearsCarts(s) ==
  LET r == req[s]
  IN  /\ r.pc = "commit"
      /\ last' = [p \in Prefixes |-> Counter(s, p)]
      /\ table' = table \cup r.rows
      /\ log' = [x \in Logs |-> log[x] + r.logs[x]]
      /\ cart' = [u \in Users |-> {}]
      /\ req' = [req EXCEPT ![s] = Idle]
      /\ UNCHANGED history

\* get_db commits
Commit(s) ==
  LET r == req[s]
  IN  /\ r.pc = "commit"
      /\ last' = [p \in Prefixes |-> Counter(s, p)]
      /\ table' = table \cup r.rows
      /\ log' = [x \in Logs |-> log[x] + r.logs[x]]
      /\ req' = [req EXCEPT ![s] = Idle]
      /\ UNCHANGED <<cart, history>>

\* variant: the counter is bumped in a transaction of its own
FailKeepsNumbers(s) ==
  /\ req[s].pc # "idle"
  /\ req' = [req EXCEPT ![s] = Idle]
  /\ last' = [p \in Prefixes |-> Counter(s, p)]
  /\ lost' = lost \cup req[s].batch
  /\ UNCHANGED <<table, log, cart, used, batches, posts>>

\* an inactive item, an invalid option, a number that is taken (InsertRow
\* never goes on), a lost connection: get_db rolls everything back, except
\* the cart and the calls that were made
Fail(s) ==
  /\ req[s].pc # "idle"
  /\ req' = [req EXCEPT ![s] = Idle]
  /\ lost' = lost \cup req[s].batch
  /\ UNCHANGED <<last, table, log, cart, used, batches, posts>>

\* the INSERT of a number that is taken raises IntegrityError
Collide(s) ==
  /\ req[s].number # 0
  /\ req[s].number \in Committed(req[s].pc)
  /\ Fail(s)

\* the process dies: transactions roll back, carts are gone
Restart ==
  /\ req' = [s \in Sessions |-> Idle]
  /\ cart' = [u \in Users |-> {}]
  /\ lost' = lost \cup (UNION {cart[u] : u \in Users}) \cup (UNION {req[s].batch : s \in Sessions})
  /\ UNCHANGED <<last, table, log, used, batches, posts>>

\* what a request does of itself
Advance(s) ==
  \/ \E e \in Entries : NextItem(s, e)
  \/ TakeNumber(s) \/ InsertRow(s) \/ InsertOptions(s)
  \/ \E h \in Hooks : Skip(s, h) \/ \E result \in Results : Deliver(s, h, result)
  \/ Commit(s) \/ Collide(s)

Begin(s) ==
  \/ \E u \in Users : Submit(s, u)
  \/ \E e \in Entries : OrderNow(s, e)
  \/ \E d \in Directs, p \in Prefixes, n \in ClientNumbers \cup {0} : CreateDirect(s, d, p, n)

Next ==
  \/ \E u \in Users, e \in Entries : AddToCart(u, e)
  \/ \E s \in Sessions : Begin(s) \/ Advance(s) \/ Fail(s)
  \/ Restart

Spec == Init /\ [][Next]_vars

\* A request keeps running, and the row lock of a counter is granted in turn.
\* Requests are finitely many here, so weak fairness says both.
FairSpec == Spec /\ \A s \in Sessions : WF_vars(Advance(s))

-----------------------------------------------------------------------------
(***************************************************************************)
(* Properties.                                                             *)
(***************************************************************************)

\* When no client brings its own number, a number taken from a counter is free
\* until its row is inserted: no create fails because two requests overlap.
NumberIsFree ==
  \A s \in Sessions : req[s].number # 0 => req[s].number \notin Committed(req[s].pc)

\* When no client brings its own number, the numbers of a table are 1, 2, 3,
\* ... without a gap, whichever requests fail: a failed one returns its own.
N == INSTANCE Numbering WITH numbers <- [p \in Prefixes |-> Committed(p)]
NumbersIssued == N!Spec

Ordered(p) == {e \in Entries : \E t \in table : t[1] = p /\ t[3] = e}

\* What was submitted together is ordered together or not at all, and each
\* order has its request, its requested item and its task.
AllOrNothing ==
  \A B \in batches :
    /\ Ordered("REQ") \cap B \in {{}, B}
    /\ \A p \in Prefixes : Ordered(p) \cap B = Ordered("REQ") \cap B

\* However often and at the same time a cart is submitted, an entry is
\* ordered once.
OrderedOnce == \A x, y \in table : (x[1] = y[1] /\ x[3] = y[3]) => x = y

\* An entry is in a cart, in a request that is running, ordered, or its
\* request failed or its process died: none disappears unnoticed.
NothingForgotten ==
  used \subseteq (UNION {cart[u] : u \in Users}) \cup (UNION {req[s].batch : s \in Sessions})
                 \cup {t[3] : t \in table} \cup lost

\* Every webhook of an ordered item has one row in the log and was called at
\* most once, with the item's options (the comment in _on_record_event); what
\* the log calls a success was a call.  Other webhooks hear nothing.
ToldOnce ==
  \A e \in Ordered("RITM"), h \in Hooks :
    /\ log[<<e, h, "success">>] + log[<<e, h, "error">>] = IF h \in HooksOf[e] THEN 1 ELSE 0
    /\ posts[<<e, h, "filled">>] \in log[<<e, h, "success">>] .. 1
    /\ posts[<<e, h, "blank">>] = 0
    /\ h \notin HooksOf[e] => posts[<<e, h, "filled">>] = 0

\* Every request ends, even when a webhook's endpoint never answers while the
\* request holds the counters locked.
Served == \A s \in Sessions : req[s].pc # "idle" ~> req[s].pc = "idle"
=============================================================================
