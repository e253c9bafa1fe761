-------------------------- MODULE WebhookDelivery --------------------------
(***************************************************************************)
(* Delivery of webhooks (backend/app/domain/catalog/webhooks.py): with an  *)
(* order, in the order's own transaction, and on the event of an update of *)
(* a requested item, in a second session that the subscriber opens while   *)
(* the update still holds its row locked and its connection.               *)
(*                                                                         *)
(* Deliveries meet in the connection pool, in the cache of OAuth tokens,   *)
(* which has one row per webhook, and at the webhooks they log: a log row  *)
(* refers to its webhook.  A statement that fails breaks the session, and  *)
(* the delivery raises: the "except" of the loop cannot mend it.           *)
(*                                                                         *)
(* Each request runs once; what an update does to the columns of its item  *)
(* is in RecordUpdate.                                                     *)
(***************************************************************************)
EXTENDS Naturals, FiniteSets

CONSTANTS
  Orders, Updates,         \* the two kinds of request
  Items,                   \* requested items
  Existing,                \* those there from the start
  Hooks,                   \* webhooks
  OAuth,                   \* those that need a token
  Secrets,                 \* those with a secret in their headers
  OrderHooks, ChangeHooks, \* attachments: triggered by an order, by a change
  Removable,               \* webhooks an administrator may delete
  Pool,                    \* connections
  None

Requests == Orders \cup Updates

ASSUME DeliveryAssumption ==
  /\ Orders \cap Updates = {}
  /\ None \notin Requests \cup Items \cup Hooks
  /\ Existing \subseteq Items
  /\ OrderHooks \subseteq Hooks /\ ChangeHooks \subseteq Hooks
  /\ OAuth \subseteq Hooks /\ Secrets \subseteq Hooks /\ Removable \subseteq Hooks
  /\ Pool \in Nat \ {0}

VARIABLES
  items,   \* committed sc_req_item rows
  hooks,   \* committed sc_webhook rows
  cache,   \* committed token of every webhook
  log,     \* committed sc_webhook_log rows
  req,     \* the requests
  posts,   \* history: calls made, and the commits of the item by then
  done,    \* history: the requests that committed a change of an item
  before,  \* history: done, when a request committed
  crashed  \* history: requests their delivery brought down

history == <<posts, done, before, crashed>>
vars == <<items, hooks, cache, log, req, history>>

Log == Requests \X Hooks
Call == [req : Requests, after : SUBSET Requests]

Delivering == {"next", "headers", "lookup", "fetch", "store", "post"}

Request == [pc : {"new", "write", "pool", "commit", "done", "failed"} \cup Delivering,
            item : Items \cup {None},
            chosen : SUBSET Hooks,        \* the webhooks to be called
            todo : SUBSET Hooks,          \* of these, those still to come
            hook : Hooks \cup {None},     \* the one being called
            cached : BOOLEAN,             \* the lookup found an old token
            tokens : SUBSET Hooks,        \* uncommitted tokens
            logs : SUBSET Log,            \* log rows not flushed yet
            flushed : SUBSET Log,         \* log rows flushed, uncommitted
            complete : BOOLEAN]           \* the delivery went to its end

New == [pc |-> "new", item |-> None, chosen |-> {}, todo |-> {},
        hook |-> None, cached |-> FALSE, tokens |-> {}, logs |-> {}, flushed |-> {},
        complete |-> FALSE]

TypeOK ==
  /\ items \subseteq Items
  /\ hooks \subseteq Hooks
  /\ cache \in [Hooks -> {"none", "old", "live"}]
  /\ log \subseteq Log
  /\ req \in [Requests -> Request]
  /\ posts \subseteq Call
  /\ done \in [Items -> SUBSET Requests]
  /\ before \in [Requests -> SUBSET Requests]
  /\ crashed \subseteq Requests

Init ==
  /\ items = Existing
  /\ hooks = Hooks
  /\ cache = [h \in Hooks |-> "none"]
  /\ log = {}
  /\ req = [r \in Requests |-> New]
  /\ posts = {} /\ crashed = {}
  /\ done = [i \in Items |-> {}]
  /\ before = [r \in Requests |-> {}]

-----------------------------------------------------------------------------
(***************************************************************************)
(* Connections, and requests that begin.                                   *)
(***************************************************************************)

Running(r) == req[r].pc \notin {"new", "done", "failed"}
InDelivery(r) == req[r].pc \in Delivering

\* a request holds one connection, the subscriber's session a second one
InUse == Cardinality({r \in Requests : Running(r)}) + Cardinality({r \in Updates : InDelivery(r)})

\* order_catalog_item up to the delivery: the item, its options, the query for
\* the attachments.  A second order waits here for the number counters.
Order(r, i) ==
  /\ req[r].pc = "new" /\ InUse < Pool
  /\ i \notin items
  /\ \A q \in Orders : ~ Running(q)
  /\ req' = [req EXCEPT ![r].pc = "next", ![r].item = i,
                        ![r].chosen = OrderHooks \cap hooks, ![r].todo = OrderHooks \cap hooks]
  /\ UNCHANGED <<items, hooks, cache, log, history>>

\* update_record reads the row
Read(r, i) ==
  /\ req[r].pc = "new" /\ InUse < Pool
  /\ i \in items
  /\ req' = [req EXCEPT ![r].pc = "write", ![r].item = i]
  /\ UNCHANGED <<items, hooks, cache, log, history>>

\* variant: the event is emitted before the UPDATE
WriteLater(r) ==
  /\ req[r].pc = "write"
  /\ req' = [req EXCEPT ![r].pc = "pool"]
  /\ UNCHANGED <<items, hooks, cache, log, history>>

\* the flush of update_record: the UPDATE waits for the row lock of another
\* one; then the event is emitted
Write(r) ==
  /\ req[r].pc = "write"
  /\ \A q \in Updates : req[q].item = req[r].item => req[q].pc \notin {"pool", "commit"} \cup Delivering
  /\ req' = [req EXCEPT ![r].pc = "pool"]
  /\ UNCHANGED <<items, hooks, cache, log, history>>

\* _on_record_event: a session of its own, and the query for the attachments
Subscribe(r) ==
  /\ req[r].pc = "pool" /\ InUse < Pool
  /\ req' = [req EXCEPT ![r].pc = "next",
                        ![r].chosen = ChangeHooks \cap hooks, ![r].todo = ChangeHooks \cap hooks]
  /\ UNCHANGED <<items, hooks, cache, log, history>>

\* no connection within pool_timeout: the subscriber gives up
PoolTimeout(r) ==
  /\ req[r].pc = "pool" /\ InUse >= Pool
  /\ req' = [req EXCEPT ![r].pc = "commit"]
  /\ UNCHANGED <<items, hooks, cache, log, history>>

-----------------------------------------------------------------------------
(***************************************************************************)
(* One webhook after another.                                              *)
(***************************************************************************)

AfterHeaders(h) == IF h \in OAuth THEN "lookup" ELSE "post"

NextHook(r, h) ==
  /\ req[r].pc = "next"
  /\ h \in req[r].todo
  /\ req' = [req EXCEPT ![r].pc = IF h \in Secrets THEN "headers" ELSE AfterHeaders(h),
                        ![r].hook = h, ![r].todo = @ \ {h}]
  /\ UNCHANGED <<items, hooks, cache, log, history>>

\* the webhooks of the pending log rows are still there
CanFlush(r) == \A l \in req[r].logs : l[2] \in hooks

\* resolve_headers: the query for the secrets flushes the log rows
Headers(r) ==
  /\ req[r].pc = "headers" /\ CanFlush(r)
  /\ req' = [req EXCEPT ![r].pc = AfterHeaders(req[r].hook),
                        ![r].flushed = @ \cup req[r].logs, ![r].logs = {}]
  /\ UNCHANGED <<items, hooks, cache, log, history>>

\* _resolve_oauth_token looks into the cache; the query flushes the log rows
Lookup(r) ==
  LET token == cache[req[r].hook]
  IN  /\ req[r].pc = "lookup" /\ CanFlush(r)
      /\ req' = [req EXCEPT ![r].pc = IF token = "live" THEN "post" ELSE "fetch",
                            ![r].cached = (token # "none"),
                            ![r].flushed = @ \cup req[r].logs, ![r].logs = {}]
      /\ UNCHANGED <<items, hooks, cache, log, history>>

\* the token endpoint answers
Fetch(r) ==
  /\ req[r].pc = "fetch"
  /\ req' = [req EXCEPT ![r].pc = "store"]
  /\ UNCHANGED <<items, hooks, cache, log, history>>

\* a secret is missing or inactive, or the token endpoint refuses or times
\* out: the webhook is not called
Skip(r) ==
  /\ req[r].pc \in {"headers", "fetch"} /\ CanFlush(r)
  /\ req' = [req EXCEPT ![r].pc = "next", ![r].hook = None,
                        ![r].logs = {<<r, req[r].hook>>},
                        ![r].flushed = @ \cup req[r].logs]
  /\ UNCHANGED <<items, hooks, cache, log, history>>

\* whose uncommitted token of its webhook a request has to wait for
WaitsFor(r) == {q \in Requests \ {r} : req[r].pc = "store" /\ req[r].hook \in req[q].tokens}

\* the row this token goes to: the old one is still there, or none was added
Storable(r) == req[r].hook \in hooks /\ (req[r].cached <=> cache[req[r].hook] # "none")

\* the upsert of the token, flushed
Store(r) ==
  /\ req[r].pc = "store" /\ WaitsFor(r) = {} /\ Storable(r)
  /\ req' = [req EXCEPT ![r].pc = "post", ![r].tokens = @ \cup {req[r].hook}]
  /\ UNCHANGED <<items, hooks, cache, log, history>>

\* the call: answered, refused or timed out; its log row
Post(r) ==
  /\ req[r].pc = "post"
  /\ posts' = posts \cup {[req |-> r, after |-> done[req[r].item]]}
  /\ req' = [req EXCEPT ![r].pc = "next", ![r].hook = None, ![r].logs = @ \cup {<<r, req[r].hook>>}]
  /\ UNCHANGED <<items, hooks, cache, log, done, before, crashed>>

\* PostgreSQL aborts one of the transactions that wait for each other
Deadlocked(r) ==
  \E C \in SUBSET Requests : r \in C /\ \A q \in C : WaitsFor(q) \cap C # {}

\* a statement of the delivery fails: a log row or a token refers to a webhook
\* that is gone, the token row was added or removed meanwhile, or a deadlock
Breaks(r) ==
  \/ ~ CanFlush(r) /\ (req[r].pc \in {"headers", "lookup"} \/ (req[r].pc = "next" /\ req[r].todo = {}))
  \/ ~ Storable(r) /\ req[r].pc = "store" /\ WaitsFor(r) = {}
  \/ Deadlocked(r)

\* what a session had done is gone
Undone(q) == [q EXCEPT !.todo = {}, !.hook = None, !.tokens = {}, !.logs = {}, !.flushed = {}]

\* variant: the loop rolls back and goes on with the next webhook
BreakAndGoOn(r) ==
  /\ Breaks(r)
  /\ req' = [req EXCEPT ![r].pc = "next", ![r].hook = None, ![r].tokens = {},
                        ![r].logs = {}, ![r].flushed = {}]
  /\ UNCHANGED <<items, hooks, cache, log, history>>

\* deliver_webhooks_for_ritm raises: the order fails with it; the subscriber
\* rolls its own session back, and the update goes on
Break(r) ==
  /\ Breaks(r)
  /\ req' = [req EXCEPT ![r] = [Undone(@) EXCEPT !.pc = IF r \in Orders THEN "failed" ELSE "commit"]]
  /\ crashed' = IF r \in Orders THEN crashed \cup {r} ELSE crashed
  /\ UNCHANGED <<items, hooks, cache, log, posts, done, before>>

\* what a commit adds to the log and to the cache
Publish(r) ==
  /\ log' = log \cup req[r].logs \cup req[r].flushed
  /\ cache' = [h \in Hooks |-> IF h \in req[r].tokens THEN "live" ELSE cache[h]]

\* variant: the subscriber stamps the item, which its own update holds locked
EndDeliveryStamp(r) ==
  /\ r \in Orders
  /\ req[r].pc = "next" /\ req[r].todo = {} /\ CanFlush(r)
  /\ req' = [req EXCEPT ![r].pc = "commit", ![r].complete = TRUE,
                        ![r].flushed = @ \cup req[r].logs, ![r].logs = {}]
  /\ UNCHANGED <<items, hooks, cache, log, history>>

\* the last flush; the subscriber commits its session
EndDelivery(r) ==
  /\ req[r].pc = "next" /\ req[r].todo = {} /\ CanFlush(r)
  /\ IF r \in Updates
     THEN /\ Publish(r)
          /\ req' = [req EXCEPT ![r] = [Undone(@) EXCEPT !.pc = "commit", !.complete = TRUE]]
     ELSE /\ req' = [req EXCEPT ![r].pc = "commit", ![r].complete = TRUE,
                                ![r].flushed = @ \cup req[r].logs, ![r].logs = {}]
          /\ UNCHANGED <<log, cache>>
  /\ UNCHANGED <<items, hooks, history>>

-----------------------------------------------------------------------------
(***************************************************************************)
(* Requests end; the world goes on.                                        *)
(***************************************************************************)

\* get_db commits the order or the update
Commit(r) ==
  LET i == req[r].item
  IN  /\ req[r].pc = "commit"
      /\ items' = items \cup {i}
      /\ Publish(r)
      /\ done' = [done EXCEPT ![i] = @ \cup {r}]
      /\ before' = [before EXCEPT ![r] = done[i]]
      /\ req' = [req EXCEPT ![r] = [Undone(@) EXCEPT !.pc = "done"]]
      /\ UNCHANGED <<hooks, posts, crashed>>

\* the fulfilment task after the delivery, or the commit fails: the request
\* rolls back, the calls have been made
Fail(r) ==
  /\ req[r].pc = "commit"
  /\ req' = [req EXCEPT ![r] = [Undone(@) EXCEPT !.pc = "failed"]]
  /\ UNCHANGED <<items, hooks, cache, log, history>>

\* the process dies, and every transaction with it
Restart ==
  /\ \E r \in Requests : Running(r)
  /\ req' = [r \in Requests |-> IF Running(r) THEN [Undone(req[r]) EXCEPT !.pc = "failed"] ELSE req[r]]
  /\ UNCHANGED <<items, hooks, cache, log, history>>

\* delete_global_webhook: the attachments, the tokens and the log go with it;
\* the DELETE waits for rows that refer to the webhook, uncommitted
DeleteHook(h) ==
  /\ h \in hooks
  /\ \A r \in Requests : h \notin req[r].tokens /\ \A l \in req[r].flushed : l[2] # h
  /\ hooks' = hooks \ {h}
  /\ cache' = [cache EXCEPT ![h] = "none"]
  /\ log' = {l \in log : l[2] # h}
  /\ UNCHANGED <<items, req, history>>

\* time passes
Expire(h) ==
  /\ cache[h] = "live"
  /\ cache' = [cache EXCEPT ![h] = "old"]
  /\ UNCHANGED <<items, hooks, log, req, history>>

Advance(r) ==
  \/ Write(r) \/ Subscribe(r) \/ PoolTimeout(r)
  \/ \E h \in Hooks : NextHook(r, h)
  \/ Headers(r) \/ Lookup(r) \/ Fetch(r) \/ Skip(r) \/ Store(r) \/ Post(r)
  \/ Break(r) \/ EndDelivery(r) \/ Commit(r)

Next ==
  \/ \E r \in Orders, i \in Items : Order(r, i)
  \/ \E r \in Updates, i \in Items : Read(r, i)
  \/ \E r \in Requests : Advance(r) \/ Fail(r)
  \/ Restart
  \/ \E h \in Removable : DeleteHook(h)
  \/ \E h \in OAuth : Expire(h)

Spec == Init /\ [][Next]_vars

\* Requests that can go on do: the event loop and the lock queues see to it,
\* and every wait for a connection or an endpoint has a timeout.
FairSpec == Spec /\ \A r \in Requests : WF_vars(Advance(r))

-----------------------------------------------------------------------------
(***************************************************************************)
(* Properties.                                                             *)
(***************************************************************************)

\* What webhooks hear of an item, as far as it was committed, they hear in
\* the order of the commits: between a call and the commit of what it told, no
\* other change of the item commits.
ToldInOrder ==
  \A p \in posts : req[p.req].pc = "done" => p.after = before[p.req]

\* A delivery that came to its end has a log row for every webhook that is
\* still there, whatever failed on the way, and a delivery that did not has none.
AllLogged ==
  \A r \in Requests, h \in Hooks :
    <<r, h>> \in log <=> /\ req[r].complete /\ (r \in Orders => req[r].pc = "done")
                        /\ h \in req[r].chosen \cap hooks

\* Nobody waits for ever: not for a connection that those hold who wait for
\* one, not for a token that another delivery is about to store.
Answered == []<>(\A r \in Requests : ~ Running(r))

\* The failure of a webhook is logged and no more: no order fails with it.
FailuresAreLogged == crashed = {}
=============================================================================
