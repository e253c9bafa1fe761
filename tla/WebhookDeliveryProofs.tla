------------------------ MODULE WebhookDeliveryProofs ------------------------
(***************************************************************************)
(* What every step does to the record of its request, and from it the type *)
(* invariant, who holds an item, and the order in which webhooks hear of   *)
(* the changes of an item.                                                 *)
(***************************************************************************)
EXTENDS WebhookDelivery, TLAPS

USE DeliveryAssumption

-----------------------------------------------------------------------------
(***************************************************************************)
(* The steps of a request, field by field.                                 *)
(***************************************************************************)

\* r's record becomes w
Becomes(r, w) == w \in Request /\ req' = [req EXCEPT ![r] = w]

\* no uncommitted work
Empty(w) == w.todo = {} /\ w.hook = None /\ w.tokens = {} /\ w.logs = {} /\ w.flushed = {}

\* a step within a delivery
Goes(r, w) ==
  /\ Becomes(r, w)
  /\ req[r].pc \in Delivering /\ w.pc \in Delivering
  /\ w.item = req[r].item /\ w.chosen = req[r].chosen /\ w.complete = req[r].complete
  /\ UNCHANGED <<items, hooks, cache, log, done, before, crashed>>

LEMMA OrderStep ==
  ASSUME TypeOK, NEW r \in Orders, NEW i \in Items, Order(r, i)
  PROVE  \E w : /\ Becomes(r, w)
                /\ w.pc = "next" /\ w.item = i /\ w.complete = req[r].complete
                /\ w.chosen = OrderHooks \cap hooks /\ w.todo = w.chosen
                /\ w.hook = req[r].hook /\ w.logs = req[r].logs /\ w.flushed = req[r].flushed
<1> DEFINE w == [req[r] EXCEPT !.pc = "next", !.item = i,
                               !.chosen = OrderHooks \cap hooks, !.todo = OrderHooks \cap hooks]
<1>1. req[r] \in Request
  BY DEF TypeOK, Requests
<1>2. w \in Request
  BY <1>1 DEF Request, Delivering
<1>3. /\ w.pc = "next" /\ w.item = i /\ w.complete = req[r].complete
      /\ w.chosen = OrderHooks \cap hooks /\ w.todo = w.chosen
      /\ w.hook = req[r].hook /\ w.logs = req[r].logs /\ w.flushed = req[r].flushed
  BY <1>1 DEF Request
<1>4. req' = [req EXCEPT ![r] = w]
  BY DEF Order, TypeOK, Requests
<1> QED
  BY <1>2, <1>3, <1>4 DEF Becomes

LEMMA ReadStep ==
  ASSUME TypeOK, NEW r \in Updates, NEW i \in Items, Read(r, i)
  PROVE  \E w : /\ Becomes(r, w)
                /\ w.pc = "write" /\ w.item = i /\ w.complete = req[r].complete
                /\ w.hook = req[r].hook /\ w.logs = req[r].logs /\ w.flushed = req[r].flushed
<1> DEFINE w == [req[r] EXCEPT !.pc = "write", !.item = i]
<1>1. req[r] \in Request
  BY DEF TypeOK, Requests
<1>2. w \in Request
  BY <1>1 DEF Request
<1>3. /\ w.pc = "write" /\ w.item = i /\ w.complete = req[r].complete
      /\ w.hook = req[r].hook /\ w.logs = req[r].logs /\ w.flushed = req[r].flushed
  BY <1>1 DEF Request
<1>4. req' = [req EXCEPT ![r] = w]
  BY DEF Read, TypeOK, Requests
<1> QED
  BY <1>2, <1>3, <1>4 DEF Becomes

LEMMA NextHookStep ==
  ASSUME TypeOK, NEW r \in Requests, NEW h \in Hooks, NextHook(r, h)
  PROVE  \E w : /\ Goes(r, w)
                /\ w.todo = req[r].todo \ {h} /\ w.hook = h
                /\ w.logs = req[r].logs /\ w.flushed = req[r].flushed
                /\ w.pc \in {"headers", "lookup", "post"}
<1> DEFINE w == [req[r] EXCEPT !.pc = IF h \in Secrets THEN "headers" ELSE AfterHeaders(h),
                               !.hook = h, !.todo = @ \ {h}]
<1>1. req[r] \in Request
  BY DEF TypeOK
<1>2. w \in Request /\ w.pc \in {"headers", "lookup", "post"}
  BY <1>1 DEF Request, Delivering, AfterHeaders
<1>3. /\ w.item = req[r].item /\ w.chosen = req[r].chosen /\ w.complete = req[r].complete
      /\ w.todo = req[r].todo \ {h} /\ w.hook = h
      /\ w.logs = req[r].logs /\ w.flushed = req[r].flushed
  BY <1>1 DEF Request
<1>4. req' = [req EXCEPT ![r] = w]
  BY DEF NextHook, TypeOK
<1>5. req[r].pc \in Delivering /\ w.pc \in Delivering
  BY <1>2 DEF NextHook, Delivering
<1> QED
  BY <1>2, <1>3, <1>4, <1>5 DEF Becomes, Goes, NextHook, history

LEMMA HeadersStep ==
  ASSUME TypeOK, NEW r \in Requests, Headers(r)
  PROVE  \E w : /\ Goes(r, w)
                /\ w.todo = req[r].todo
                /\ w.hook = req[r].hook
                /\ w.pc # "next"
                /\ w.logs = {}
                /\ w.flushed = req[r].flushed \cup req[r].logs
<1> DEFINE w == [req[r] EXCEPT !.pc = AfterHeaders(req[r].hook),
                               !.flushed = @ \cup req[r].logs, !.logs = {}]
<1>1. req[r] \in Request
  BY DEF TypeOK
<1>2. w \in Request
  BY <1>1 DEF Request, Delivering, AfterHeaders
<1>3. /\ w.item = req[r].item
      /\ w.chosen = req[r].chosen
      /\ w.complete = req[r].complete
      /\ w.todo = req[r].todo
      /\ w.hook = req[r].hook
      /\ w.pc # "next"
      /\ w.logs = {}
      /\ w.flushed = req[r].flushed \cup req[r].logs
  BY <1>1 DEF Request, AfterHeaders
<1>4. req' = [req EXCEPT ![r] = w]
  BY DEF Headers, TypeOK
<1>5. req[r].pc \in Delivering /\ w.pc \in Delivering
  BY <1>1 DEF Headers, Delivering, Request, AfterHeaders
<1> QED
  BY <1>2, <1>3, <1>4, <1>5 DEF Becomes, Goes, Headers, history

LEMMA LookupStep ==
  ASSUME TypeOK, NEW r \in Requests, Lookup(r)
  PROVE  \E w : /\ Goes(r, w)
                /\ w.todo = req[r].todo
                /\ w.hook = req[r].hook
                /\ w.pc # "next"
                /\ w.logs = {}
                /\ w.flushed = req[r].flushed \cup req[r].logs
<1> DEFINE w == [req[r] EXCEPT !.pc = IF cache[req[r].hook] = "live" THEN "post" ELSE "fetch",
                               !.cached = (cache[req[r].hook] # "none"),
                               !.flushed = @ \cup req[r].logs, !.logs = {}]
<1>1. req[r] \in Request
  BY DEF TypeOK
<1>2. w \in Request
  BY <1>1 DEF Request, Delivering
<1>3. /\ w.item = req[r].item
      /\ w.chosen = req[r].chosen
      /\ w.complete = req[r].complete
      /\ w.todo = req[r].todo
      /\ w.hook = req[r].hook
      /\ w.pc # "next"
      /\ w.logs = {}
      /\ w.flushed = req[r].flushed \cup req[r].logs
  BY <1>1 DEF Request
<1>4. req' = [req EXCEPT ![r] = w]
  BY DEF Lookup, TypeOK
<1>5. req[r].pc \in Delivering /\ w.pc \in Delivering
  BY <1>1 DEF Lookup, Delivering, Request, AfterHeaders
<1> QED
  BY <1>2, <1>3, <1>4, <1>5 DEF Becomes, Goes, Lookup, history

LEMMA FetchStep ==
  ASSUME TypeOK, NEW r \in Requests, Fetch(r)
  PROVE  \E w : /\ Goes(r, w)
                /\ w.todo = req[r].todo
                /\ w.hook = req[r].hook
                /\ w.pc # "next"
                /\ w.logs = req[r].logs
                /\ w.flushed = req[r].flushed
<1> DEFINE w == [req[r] EXCEPT !.pc = "store"]
<1>1. req[r] \in Request
  BY DEF TypeOK
<1>2. w \in Request
  BY <1>1 DEF Request, Delivering
<1>3. /\ w.item = req[r].item
      /\ w.chosen = req[r].chosen
      /\ w.complete = req[r].complete
      /\ w.todo = req[r].todo
      /\ w.hook = req[r].hook
      /\ w.pc # "next"
      /\ w.logs = req[r].logs
      /\ w.flushed = req[r].flushed
  BY <1>1 DEF Request
<1>4. req' = [req EXCEPT ![r] = w]
  BY DEF Fetch, TypeOK
<1>5. req[r].pc \in Delivering /\ w.pc \in Delivering
  BY <1>1 DEF Fetch, Delivering, Request, AfterHeaders
<1> QED
  BY <1>2, <1>3, <1>4, <1>5 DEF Becomes, Goes, Fetch, history

LEMMA SkipStep ==
  ASSUME TypeOK, NEW r \in Requests, Skip(r), req[r].hook \in Hooks
  PROVE  \E w : /\ Goes(r, w)
                /\ w.todo = req[r].todo
                /\ w.hook = None
                /\ w.pc = "next"
                /\ w.logs = {<<r, req[r].hook>>}
                /\ w.flushed = req[r].flushed \cup req[r].logs
<1> DEFINE w == [req[r] EXCEPT !.pc = "next", !.hook = None,
                               !.logs = {<<r, req[r].hook>>}, !.flushed = @ \cup req[r].logs]
<1>1. req[r] \in Request
  BY DEF TypeOK
<1>0. {<<r, req[r].hook>>} \subseteq Log
  BY DEF Log
<1>2. w \in Request
  BY <1>0, <1>1 DEF Request, Delivering
<1>3. /\ w.item = req[r].item
      /\ w.chosen = req[r].chosen
      /\ w.complete = req[r].complete
      /\ w.todo = req[r].todo
      /\ w.hook = None
      /\ w.pc = "next"
      /\ w.logs = {<<r, req[r].hook>>}
      /\ w.flushed = req[r].flushed \cup req[r].logs
  BY <1>1 DEF Request
<1>4. req' = [req EXCEPT ![r] = w]
  BY DEF Skip, TypeOK
<1>5. req[r].pc \in Delivering /\ w.pc \in Delivering
  BY <1>1 DEF Skip, Delivering, Request, AfterHeaders
<1> QED
  BY <1>2, <1>3, <1>4, <1>5 DEF Becomes, Goes, Skip, history

LEMMA StoreStep ==
  ASSUME TypeOK, NEW r \in Requests, Store(r), req[r].hook \in Hooks
  PROVE  \E w : /\ Goes(r, w)
                /\ w.todo = req[r].todo
                /\ w.hook = req[r].hook
                /\ w.pc # "next"
                /\ w.logs = req[r].logs
                /\ w.flushed = req[r].flushed
<1> DEFINE w == [req[r] EXCEPT !.pc = "post", !.tokens = @ \cup {req[r].hook}]
<1>1. req[r] \in Request
  BY DEF TypeOK
<1>2. w \in Request
  BY <1>1 DEF Request, Delivering, Storable
<1>3. /\ w.item = req[r].item
      /\ w.chosen = req[r].chosen
      /\ w.complete = req[r].complete
      /\ w.todo = req[r].todo
      /\ w.hook = req[r].hook
      /\ w.pc # "next"
      /\ w.logs = req[r].logs
      /\ w.flushed = req[r].flushed
  BY <1>1 DEF Request
<1>4. req' = [req EXCEPT ![r] = w]
  BY DEF Store, TypeOK
<1>5. req[r].pc \in Delivering /\ w.pc \in Delivering
  BY <1>1 DEF Store, Delivering, Request, AfterHeaders
<1> QED
  BY <1>2, <1>3, <1>4, <1>5 DEF Becomes, Goes, Store, history

LEMMA PostStep ==
  ASSUME TypeOK, NEW r \in Requests, Post(r), req[r].hook \in Hooks
  PROVE  \E w : /\ Goes(r, w)
                /\ w.todo = req[r].todo
                /\ w.hook = None
                /\ w.pc = "next"
                /\ w.logs = req[r].logs \cup {<<r, req[r].hook>>}
                /\ w.flushed = req[r].flushed
<1> DEFINE w == [req[r] EXCEPT !.pc = "next", !.hook = None,
                               !.logs = @ \cup {<<r, req[r].hook>>}]
<1>1. req[r] \in Request
  BY DEF TypeOK
<1>0. {<<r, req[r].hook>>} \subseteq Log
  BY DEF Log
<1>2. w \in Request
  BY <1>0, <1>1 DEF Request, Delivering
<1>3. /\ w.item = req[r].item
      /\ w.chosen = req[r].chosen
      /\ w.complete = req[r].complete
      /\ w.todo = req[r].todo
      /\ w.hook = None
      /\ w.pc = "next"
      /\ w.logs = req[r].logs \cup {<<r, req[r].hook>>}
      /\ w.flushed = req[r].flushed
  BY <1>1 DEF Request
<1>4. req' = [req EXCEPT ![r] = w]
  BY DEF Post, TypeOK
<1>5. req[r].pc \in Delivering /\ w.pc \in Delivering
  BY <1>1 DEF Post, Delivering, Request, AfterHeaders
<1> QED
  BY <1>2, <1>3, <1>4, <1>5 DEF Becomes, Goes, Post, history

LEMMA WriteStep ==
  ASSUME TypeOK, NEW r \in Requests, Write(r)
  PROVE  \E w : /\ Becomes(r, w)
                /\ w.item = req[r].item
                /\ w.chosen = req[r].chosen
                /\ w.complete = req[r].complete
                /\ w.pc = "pool"
                /\ w.hook = req[r].hook
                /\ w.logs = req[r].logs
                /\ w.flushed = req[r].flushed
<1> DEFINE w == [req[r] EXCEPT !.pc = "pool"]
<1>1. req[r] \in Request
  BY DEF TypeOK
<1>2. w \in Request
  BY <1>1 DEF Request
<1>3. /\ w.item = req[r].item
      /\ w.chosen = req[r].chosen
      /\ w.complete = req[r].complete
      /\ w.pc = "pool"
      /\ w.hook = req[r].hook
      /\ w.logs = req[r].logs
      /\ w.flushed = req[r].flushed
  BY <1>1 DEF Request
<1>4. req' = [req EXCEPT ![r] = w]
  BY DEF Write, TypeOK
<1> QED
  BY <1>2, <1>3, <1>4 DEF Becomes

LEMMA TimeoutStep ==
  ASSUME TypeOK, NEW r \in Requests, PoolTimeout(r)
  PROVE  \E w : /\ Becomes(r, w)
                /\ w.item = req[r].item
                /\ w.chosen = req[r].chosen
                /\ w.complete = req[r].complete
                /\ w.pc = "commit"
                /\ w.logs = req[r].logs
                /\ w.flushed = req[r].flushed
<1> DEFINE w == [req[r] EXCEPT !.pc = "commit"]
<1>1. req[r] \in Request
  BY DEF TypeOK
<1>2. w \in Request
  BY <1>1 DEF Request
<1>3. /\ w.item = req[r].item
      /\ w.chosen = req[r].chosen
      /\ w.complete = req[r].complete
      /\ w.pc = "commit"
      /\ w.logs = req[r].logs
      /\ w.flushed = req[r].flushed
  BY <1>1 DEF Request
<1>4. req' = [req EXCEPT ![r] = w]
  BY DEF PoolTimeout, TypeOK
<1> QED
  BY <1>2, <1>3, <1>4 DEF Becomes

LEMMA SubscribeStep ==
  ASSUME TypeOK, NEW r \in Requests, Subscribe(r)
  PROVE  \E w : /\ Becomes(r, w)
                /\ w.pc = "next" /\ w.item = req[r].item /\ w.complete = req[r].complete
                /\ w.chosen = ChangeHooks \cap hooks /\ w.todo = w.chosen
                /\ w.hook = req[r].hook /\ w.logs = req[r].logs /\ w.flushed = req[r].flushed
<1> DEFINE w == [req[r] EXCEPT !.pc = "next",
                               !.chosen = ChangeHooks \cap hooks, !.todo = ChangeHooks \cap hooks]
<1>1. req[r] \in Request
  BY DEF TypeOK
<1>2. w \in Request
  BY <1>1 DEF Request, Delivering
<1>3. /\ w.pc = "next" /\ w.item = req[r].item /\ w.complete = req[r].complete
      /\ w.chosen = ChangeHooks \cap hooks /\ w.todo = w.chosen
      /\ w.hook = req[r].hook /\ w.logs = req[r].logs /\ w.flushed = req[r].flushed
  BY <1>1 DEF Request
<1>4. req' = [req EXCEPT ![r] = w]
  BY DEF Subscribe, TypeOK
<1> QED
  BY <1>2, <1>3, <1>4 DEF Becomes

\* a session that ended, and where its request stands then
LEMMA Ended ==
  ASSUME NEW q \in Request, NEW x \in {"commit", "done", "failed"}
  PROVE  LET w == [Undone(q) EXCEPT !.pc = x]
         IN  /\ w \in Request
             /\ w.pc = x /\ w.item = q.item /\ w.chosen = q.chosen /\ w.complete = q.complete
             /\ Empty(w)
<1>1. /\ Undone(q) \in Request
      /\ Undone(q).item = q.item /\ Undone(q).chosen = q.chosen /\ Undone(q).complete = q.complete
      /\ Empty(Undone(q))
  BY DEF Undone, Empty, Request
<1> DEFINE u == Undone(q)
<1> HIDE DEF u
<1>2. LET w == [u EXCEPT !.pc = x]
      IN  u \in Request /\ Empty(u) =>
             /\ w \in Request
             /\ w.pc = x /\ w.item = u.item /\ w.chosen = u.chosen /\ w.complete = u.complete
             /\ Empty(w)
  BY DEF Request, Empty
<1> QED
  BY <1>1, <1>2 DEF u

LEMMA BreakStep ==
  ASSUME TypeOK, NEW r \in Requests, Break(r)
  PROVE  \E w : /\ Becomes(r, w)
                /\ req[r].pc \in Delivering
                /\ w.pc = (IF r \in Orders THEN "failed" ELSE "commit")
                /\ w.item = req[r].item /\ w.chosen = req[r].chosen /\ w.complete = req[r].complete
                /\ Empty(w)
<1>1. req[r] \in Request
  BY DEF TypeOK
<1>2. req[r].pc \in Delivering
  <2>1. CASE Deadlocked(r)
    <3>1. WaitsFor(r) # {}
      BY <2>1 DEF Deadlocked
    <3> QED
      BY <3>1 DEF WaitsFor, Delivering
  <2> QED
    BY <2>1 DEF Break, Breaks, Delivering
<1>3. CASE r \in Orders
  <2> DEFINE w == [Undone(req[r]) EXCEPT !.pc = "failed"]
  <2>1. req' = [req EXCEPT ![r] = w]
    BY <1>3 DEF Break, TypeOK
  <2> QED
    BY <1>1, <1>2, <1>3, <2>1, Ended DEF Becomes
<1>4. CASE r \notin Orders
  <2> DEFINE w == [Undone(req[r]) EXCEPT !.pc = "commit"]
  <2>1. req' = [req EXCEPT ![r] = w]
    BY <1>4 DEF Break, TypeOK
  <2> QED
    BY <1>1, <1>2, <1>4, <2>1, Ended DEF Becomes
<1> QED
  BY <1>3, <1>4

LEMMA CommitStep ==
  ASSUME TypeOK, NEW r \in Requests, Commit(r)
  PROVE  \E w : /\ Becomes(r, w)
                /\ w.pc = "done"
                /\ w.item = req[r].item /\ w.chosen = req[r].chosen /\ w.complete = req[r].complete
                /\ Empty(w)
<1> DEFINE w == [Undone(req[r]) EXCEPT !.pc = "done"]
<1>1. req[r] \in Request
  BY DEF TypeOK
<1>2. req' = [req EXCEPT ![r] = w]
  BY DEF Commit, TypeOK
<1> QED
  BY <1>1, <1>2, Ended DEF Becomes

LEMMA FailStep ==
  ASSUME TypeOK, NEW r \in Requests, Fail(r)
  PROVE  \E w : /\ Becomes(r, w)
                /\ w.pc = "failed"
                /\ w.item = req[r].item /\ w.chosen = req[r].chosen /\ w.complete = req[r].complete
                /\ Empty(w)
<1> DEFINE w == [Undone(req[r]) EXCEPT !.pc = "failed"]
<1>1. req[r] \in Request
  BY DEF TypeOK
<1>2. req' = [req EXCEPT ![r] = w]
  BY DEF Fail, TypeOK
<1> QED
  BY <1>1, <1>2, Ended DEF Becomes

LEMMA RestartStep ==
  ASSUME TypeOK, Restart, NEW r \in Requests
  PROVE  /\ req'[r] \in Request
         /\ ~ Running(r) => req'[r] = req[r]
         /\ Running(r) => req'[r].pc = "failed" /\ Empty(req'[r])
         /\ req'[r].item = req[r].item /\ req'[r].chosen = req[r].chosen
         /\ req'[r].complete = req[r].complete
<1>1. req[r] \in Request
  BY DEF TypeOK
<1>2. req'[r] = IF Running(r) THEN [Undone(req[r]) EXCEPT !.pc = "failed"] ELSE req[r]
  BY DEF Restart
<1> QED
  BY <1>1, <1>2, Ended

LEMMA EndUpdateStep ==
  ASSUME TypeOK, NEW r \in Updates, EndDelivery(r)
  PROVE  \E w : /\ Becomes(r, w)
                /\ w.pc = "commit" /\ w.complete
                /\ w.item = req[r].item /\ w.chosen = req[r].chosen
                /\ Empty(w)
<1> DEFINE u == Undone(req[r])
           w == [u EXCEPT !.pc = "commit", !.complete = TRUE]
<1>1. req[r] \in Request
  BY DEF TypeOK, Requests
<1>2. u \in Request /\ u.item = req[r].item /\ u.chosen = req[r].chosen /\ Empty(u)
  BY <1>1 DEF Undone, Empty, Request
<1>3. req' = [req EXCEPT ![r] = w]
  BY DEF EndDelivery, TypeOK, Requests
<1> HIDE DEF u
<1>4. /\ w \in Request /\ w.pc = "commit" /\ w.complete
      /\ w.item = u.item /\ w.chosen = u.chosen /\ Empty(w)
  BY <1>2 DEF Request, Empty
<1> QED
  BY <1>2, <1>3, <1>4 DEF Becomes

LEMMA EndOrderStep ==
  ASSUME TypeOK, NEW r \in Orders, EndDelivery(r)
  PROVE  \E w : /\ Becomes(r, w)
                /\ w.pc = "commit" /\ w.complete
                /\ w.item = req[r].item /\ w.chosen = req[r].chosen
                /\ w.logs = {} /\ w.flushed = req[r].flushed \cup req[r].logs
<1> DEFINE w == [req[r] EXCEPT !.pc = "commit", !.complete = TRUE,
                               !.flushed = @ \cup req[r].logs, !.logs = {}]
<1>1. req[r] \in Request /\ r \notin Updates
  BY DEF TypeOK, Requests
<1>2. w \in Request
  BY <1>1 DEF Request
<1>3. /\ w.pc = "commit" /\ w.complete
      /\ w.item = req[r].item /\ w.chosen = req[r].chosen
      /\ w.logs = {} /\ w.flushed = req[r].flushed \cup req[r].logs
  BY <1>1 DEF Request
<1>4. req' = [req EXCEPT ![r] = w]
  BY <1>1 DEF EndDelivery, TypeOK
<1> QED
  BY <1>2, <1>3, <1>4 DEF Becomes

-----------------------------------------------------------------------------
(***************************************************************************)
(* The type invariant: what a request has chosen, it knows.                *)
(***************************************************************************)

Calls(w) == /\ w.pc # "new" => w.item \in Items
            /\ w.pc \in Delivering \ {"next"} => w.hook \in Hooks

TInv == TypeOK /\ \A r \in Requests : Calls(req[r])

LEMMA Others ==
  ASSUME TypeOK, NEW r \in Requests, NEW w, Becomes(r, w)
  PROVE  /\ w \in Request /\ req'[r] = w
         /\ \A q \in Requests \ {r} : req'[q] = req[q]
         /\ req' \in [Requests -> Request]
BY DEF Becomes, TypeOK

LEMMA TypeStep ==
  ASSUME TInv, NEW r \in Requests, NEW w, Becomes(r, w), Calls(w)
  PROVE  req' \in [Requests -> Request] /\ \A q \in Requests : Calls(req'[q])
BY Others DEF TInv

LEMMA PublishType ==
  ASSUME TypeOK, NEW r \in Requests, Publish(r)
  PROVE  log' \subseteq Log /\ cache' \in [Hooks -> {"none", "old", "live"}]
<1>1. req[r].logs \subseteq Log /\ req[r].flushed \subseteq Log
  BY DEF TypeOK, Request
<1> QED
  BY <1>1 DEF Publish, TypeOK

LEMMA TypeNext == TInv /\ [Next]_vars => TInv'
<1> SUFFICES ASSUME TInv, [Next]_vars PROVE TInv'
  OBVIOUS
<1>0. TypeOK
  BY DEF TInv
<1> DEFINE Rest == /\ items' \subseteq Items /\ hooks' \subseteq Hooks
                   /\ cache' \in [Hooks -> {"none", "old", "live"}]
                   /\ log' \subseteq Log /\ posts' \subseteq Call
                   /\ done' \in [Items -> SUBSET Requests]
                   /\ before' \in [Requests -> SUBSET Requests]
                   /\ crashed' \subseteq Requests
           Reqs == req' \in [Requests -> Request] /\ \A q \in Requests : Calls(req[q])'
<1>A. Rest /\ Reqs => TInv'
  BY DEF TInv, TypeOK
<1>B. UNCHANGED <<items, hooks, cache, log, history>> => Rest
  BY <1>0 DEF TypeOK, history
<1>C. ASSUME NEW r \in Requests, NEW w, Becomes(r, w), Calls(w) PROVE Reqs
  BY <1>C, TypeStep DEF Calls
<1>D. \A r \in Requests : req[r].pc # "new" => req[r].item \in Items
  BY DEF TInv, Calls
<1> HIDE DEF Rest, Reqs
<1>1. ASSUME NEW r \in Orders, NEW i \in Items, Order(r, i) PROVE TInv'
  <2>1. Rest
    BY <1>1, <1>B DEF Order
  <2>2. Reqs
    BY <1>0, <1>1, <1>C, OrderStep DEF Calls, Requests
  <2> QED
    BY <1>A, <2>1, <2>2
<1>2. ASSUME NEW r \in Updates, NEW i \in Items, Read(r, i) PROVE TInv'
  <2>1. Rest
    BY <1>2, <1>B DEF Read
  <2>2. Reqs
    BY <1>0, <1>2, <1>C, ReadStep DEF Calls, Requests, Delivering
  <2> QED
    BY <1>A, <2>1, <2>2
<1>3. ASSUME NEW r \in Requests, Write(r) \/ Subscribe(r) \/ PoolTimeout(r) PROVE TInv'
  <2>1. Rest
    BY <1>3, <1>B DEF Write, Subscribe, PoolTimeout
  <2>2. Reqs
    BY <1>0, <1>3, <1>C, <1>D, WriteStep, SubscribeStep, TimeoutStep
    DEF Calls, Delivering, Write, Subscribe, PoolTimeout
  <2> QED
    BY <1>A, <2>1, <2>2
<1>4. ASSUME NEW r \in Requests, NEW h \in Hooks, NextHook(r, h) PROVE TInv'
  <2>1. Rest
    BY <1>4, <1>B DEF NextHook
  <2>2. Reqs
    BY <1>0, <1>4, <1>C, <1>D, NextHookStep DEF Calls, Goes, Delivering
  <2> QED
    BY <1>A, <2>1, <2>2
<1>5. ASSUME NEW r \in Requests, Headers(r) \/ Lookup(r) \/ Fetch(r) \/ Skip(r) \/ Store(r) PROVE TInv'
  <2>1. Rest
    BY <1>5, <1>B DEF Headers, Lookup, Fetch, Skip, Store
  <2>2. req[r].hook \in Hooks
    BY <1>5 DEF TInv, Calls, Delivering, Headers, Lookup, Fetch, Skip, Store
  <2>3. \E w : Becomes(r, w) /\ w.item \in Items /\ (w.hook = req[r].hook \/ w.pc = "next")
    BY <1>0, <1>5, <1>D, <2>2, HeadersStep, LookupStep, FetchStep, SkipStep, StoreStep
    DEF Goes, Delivering
  <2>4. Reqs
    BY <1>C, <2>2, <2>3 DEF Calls
  <2> QED
    BY <1>A, <2>1, <2>4
<1>6. ASSUME NEW r \in Requests, Post(r) PROVE TInv'
  <2>1. req[r].hook \in Hooks
    BY <1>6 DEF TInv, Calls, Delivering, Post
  <2>2. Reqs
    BY <1>0, <1>6, <1>C, <1>D, <2>1, PostStep DEF Calls, Goes, Delivering
  <2>3. posts' \subseteq Call /\ UNCHANGED <<items, hooks, cache, log, done, before, crashed>>
    <3>1. done[req[r].item] \in SUBSET Requests
      BY <1>0, <1>6, <1>D DEF TypeOK, Post
    <3> QED
      BY <1>0, <1>6, <3>1 DEF Post, TypeOK, Call
  <2> QED
    BY <1>0, <1>A, <2>2, <2>3 DEF TypeOK, Rest
<1>7. ASSUME NEW r \in Requests, Break(r) PROVE TInv'
  <2>1. Reqs
    BY <1>0, <1>7, <1>C, <1>D, BreakStep DEF Calls, Delivering
  <2> QED
    BY <1>0, <1>7, <1>A, <2>1 DEF Break, TypeOK, Rest
<1>8. ASSUME NEW r \in Requests, EndDelivery(r) PROVE TInv'
  <2>1. Reqs
    BY <1>0, <1>8, <1>C, <1>D, EndOrderStep, EndUpdateStep DEF Calls, Delivering, Requests, EndDelivery
  <2>2. log' \subseteq Log /\ cache' \in [Hooks -> {"none", "old", "live"}]
    BY <1>0, <1>8, PublishType DEF EndDelivery, TypeOK
  <2> QED
    BY <1>0, <1>8, <1>A, <2>1, <2>2 DEF EndDelivery, TypeOK, Rest, history
<1>9. ASSUME NEW r \in Requests, Commit(r) PROVE TInv'
  <2>1. Reqs
    BY <1>0, <1>9, <1>C, <1>D, CommitStep DEF Calls, Delivering, Commit
  <2>2. log' \subseteq Log /\ cache' \in [Hooks -> {"none", "old", "live"}]
    BY <1>0, <1>9, PublishType DEF Commit
  <2>3. req[r].item \in Items
    BY <1>9, <1>D DEF Commit
  <2>4. done' \in [Items -> SUBSET Requests] /\ before' \in [Requests -> SUBSET Requests]
    BY <1>0, <1>9, <2>3 DEF Commit, TypeOK
  <2>5. items' \subseteq Items /\ hooks' \subseteq Hooks /\ posts' \subseteq Call /\ crashed' \subseteq Requests
    BY <1>0, <1>9, <2>3 DEF Commit, TypeOK
  <2> QED
    BY <1>A, <2>1, <2>2, <2>4, <2>5 DEF Rest
<1>10. ASSUME NEW r \in Requests, Fail(r) PROVE TInv'
  <2>1. Rest
    BY <1>10, <1>B DEF Fail
  <2>2. Reqs
    BY <1>0, <1>10, <1>C, <1>D, FailStep DEF Calls, Delivering, Fail
  <2> QED
    BY <1>A, <2>1, <2>2
<1>11. ASSUME Restart PROVE TInv'
  <2>1. Rest
    BY <1>11, <1>B DEF Restart
  <2>2. Reqs
    <3>1. \A q \in Requests : req'[q] \in Request /\ Calls(req'[q])
      BY <1>0, <1>11, RestartStep DEF TInv, Calls, Delivering, Running
    <3>2. req' = [q \in Requests |-> req'[q]]
      BY <1>11 DEF Restart
    <3> QED
      BY <3>1, <3>2 DEF Reqs, Calls
  <2> QED
    BY <1>A, <2>1, <2>2
<1>12. ASSUME NEW h \in Hooks, DeleteHook(h) \/ Expire(h) PROVE TInv'
  <2>1. Reqs
    BY <1>0, <1>12 DEF DeleteHook, Expire, TInv, TypeOK, Reqs, Calls
  <2> QED
    BY <1>0, <1>12, <1>A, <2>1 DEF DeleteHook, Expire, TypeOK, Rest, history
<1>13. CASE UNCHANGED vars
  BY <1>13 DEF vars, history, TInv, TypeOK, Calls
<1> QED
  BY <1>1, <1>2, <1>3, <1>4, <1>5, <1>6, <1>7, <1>8, <1>9, <1>10, <1>11, <1>12, <1>13 DEF Next, Advance

LEMMA TypeInit == Init => TInv
BY DEF Init, TInv, TypeOK, New, Request, Calls, Delivering, Requests

\* The variables keep their types.
THEOREM TypeCorrect == Spec => []TypeOK
<1>1. TInv => TypeOK
  BY DEF TInv
<1> QED
  BY <1>1, TypeInit, TypeNext, PTL DEF Spec

-----------------------------------------------------------------------------
(***************************************************************************)
(* Who holds an item: one update, or the order that has yet to commit it.  *)
(* While it is held no other change of it commits, so what a call told is  *)
(* the next thing that happens to the item, or nothing is.                 *)
(***************************************************************************)

Told == {"commit"} \cup Delivering
Held == {"pool"} \cup Told

LockInv ==
  /\ \A r \in Updates : req[r].pc # "new" => req[r].item \in items
  /\ \A q, r \in Updates :
       req[q].pc \in Held /\ req[r].pc \in Held /\ req[q].item = req[r].item => q = r
  /\ \A r \in Orders : Running(r) => req[r].item \notin items
  /\ \A q, r \in Orders : Running(q) /\ Running(r) => q = r
  /\ \A r \in Orders : req[r].pc \notin {"write", "pool"}

TellInv ==
  \A p \in posts :
    /\ req[p.req].pc \in Told \cup {"done", "failed"}
    /\ req[p.req].pc \in Told => p.after = done[req[p.req].item]
    /\ req[p.req].pc = "done" => p.after = before[p.req]

\* steps of a request that holds its item
LEMMA Holding ==
  ASSUME TInv, LockInv, TellInv, NEW r \in Requests, NEW w, Becomes(r, w),
         req[r].pc \in Held, w.pc \in Told \cup {"failed"}, w.item = req[r].item,
         UNCHANGED <<items, done, before>>,
         \/ posts' = posts
         \/ /\ posts' = posts \cup {[req |-> r, after |-> done[req[r].item]]}
            /\ w.pc \in Told
  PROVE  LockInv' /\ TellInv'
<1>1. TypeOK
  BY DEF TInv
<1>2. w \in Request /\ req'[r] = w /\ \A q \in Requests \ {r} : req'[q] = req[q]
  BY <1>1, Others
<1>3. LockInv'
  BY <1>2 DEF LockInv, Running, Held, Told, Delivering, Requests
<1>4. ASSUME NEW p \in posts PROVE TellInv!(p)'
  <2>1. p.req \in Requests
    BY <1>1 DEF TypeOK, Call
  <2>2. CASE p.req = r
    BY <1>2, <2>2 DEF TellInv, Held, Told, Delivering
  <2>3. CASE p.req # r
    BY <1>2, <2>1, <2>3 DEF TellInv
  <2> QED
    BY <2>2, <2>3
<1>5. ASSUME NEW p, p = [req |-> r, after |-> done[req[r].item]], w.pc \in Told PROVE TellInv!(p)'
  <2>1. p.req = r /\ p.after = done[req[r].item]
    BY <1>5
  <2> QED
    BY <1>2, <1>5, <2>1 DEF Told, Delivering
<1>6. TellInv'
  BY <1>4, <1>5 DEF TellInv
<1> QED
  BY <1>3, <1>6

\* steps that end in no change of an item, seen from all requests
LEMMA Calm ==
  ASSUME LockInv, TellInv, TInv, UNCHANGED <<items, posts, done, before>>,
         \A q \in Requests : /\ req'[q].item = req[q].item
                             /\ req'[q].pc = req[q].pc \/ (Running(q) /\ req'[q].pc = "failed")
  PROVE  LockInv' /\ TellInv'
<1>1. LockInv'
  BY DEF LockInv, Running, Held, Told, Delivering, Requests
<1>2. \A p \in posts : p.req \in Requests
  BY DEF TInv, TypeOK, Call
<1>3. TellInv'
  BY <1>2 DEF TellInv, Told, Delivering
<1> QED
  BY <1>1, <1>3

LEMMA CommitLock ==
  ASSUME TInv, LockInv, TellInv, NEW r \in Requests, Commit(r)
  PROVE  LockInv' /\ TellInv'
<1>1. TypeOK
  BY DEF TInv
<1>2. PICK w : /\ Becomes(r, w)
               /\ w.pc = "done" /\ w.item = req[r].item
  BY <1>1, CommitStep
<1>3. w \in Request /\ req'[r] = w /\ \A q \in Requests \ {r} : req'[q] = req[q]
  BY <1>1, <1>2, Others
<1> DEFINE i == req[r].item
<1>4. req[r].pc = "commit" /\ i \in Items
  BY DEF Commit, TInv, Calls
<1>5. \A q \in Requests \ {r} : req[q].pc \in Told => req[q].item # i
  BY <1>4 DEF LockInv, Held, Told, Running, Delivering, Requests
<1>6. /\ items' = items \cup {i} /\ posts' = posts
      /\ done'= [done EXCEPT ![i] = @ \cup {r}]
      /\ before' = [before EXCEPT ![r] = done[i]]
  BY DEF Commit
<1> HIDE DEF i
<1>7. /\ before'[r] = done[i]
      /\ \A q \in Requests \ {r} : before'[q] = before[q]
      /\ \A j \in Items \ {i} : done'[j] = done[j]
  BY <1>1, <1>6 DEF TypeOK
<1>8. LockInv'
  <2>1. \A q \in Orders : q # r => ~ (Running(q) /\ req[q].item = i)
    <3>1. CASE r \in Orders
      BY <1>4, <3>1 DEF LockInv, Running
    <3>2. CASE r \in Updates
      BY <1>4, <3>2 DEF LockInv, Running, i
    <3> QED
      BY <3>1, <3>2 DEF Requests
  <2> QED
    BY <1>2, <1>3, <1>4, <1>6, <2>1 DEF LockInv, Running, Held, Told, Delivering, Requests, i
<1>9. ASSUME NEW p \in posts PROVE TellInv!(p)'
  <2>1. p.req \in Requests
    BY <1>1 DEF TypeOK, Call
  <2>2. CASE p.req = r
    BY <1>2, <1>3, <1>4, <1>7, <2>2 DEF TellInv, Told, Delivering, i
  <2>3. CASE p.req # r
    <3>1. req'[p.req] = req[p.req] /\ before'[p.req] = before[p.req]
      BY <1>3, <1>7, <2>1, <2>3
    <3>2. req[p.req].pc \in Told => req[p.req].item \in Items \ {i}
      BY <1>5, <2>1, <2>3 DEF TInv, Calls, Told, Delivering
    <3> QED
      BY <1>7, <3>1, <3>2 DEF TellInv
  <2> QED
    BY <2>2, <2>3
<1>10. TellInv'
  BY <1>6, <1>9 DEF TellInv
<1> QED
  BY <1>8, <1>10

LEMMA LockNext == TInv /\ LockInv /\ TellInv /\ [Next]_vars => LockInv' /\ TellInv'
<1> SUFFICES ASSUME TInv, LockInv, TellInv, [Next]_vars PROVE LockInv' /\ TellInv'
  OBVIOUS
<1>0. TypeOK /\ \A p \in posts : p.req \in Requests
  BY DEF TInv, TypeOK, Call
<1>1. ASSUME NEW r \in Orders, NEW i \in Items, Order(r, i) PROVE LockInv' /\ TellInv'
  <2>1. PICK w : Becomes(r, w) /\ w.pc = "next" /\ w.item = i
    BY <1>0, <1>1, OrderStep
  <2>2. w \in Request /\ req'[r] = w /\ \A q \in Requests \ {r} : req'[q] = req[q]
    BY <1>0, <2>1, Others DEF Requests
  <2>3. /\ req[r].pc = "new" /\ i \notin items /\ \A q \in Orders : ~ Running(q)
        /\ UNCHANGED <<items, posts, done, before>>
    BY <1>1 DEF Order, history
  <2>4. LockInv'
    BY <2>1, <2>2, <2>3 DEF LockInv, Running, Requests
  <2>5. TellInv'
    BY <1>0, <2>1, <2>2, <2>3 DEF TellInv, Told, Delivering
  <2> QED
    BY <2>4, <2>5
<1>2. ASSUME NEW r \in Updates, NEW i \in Items, Read(r, i) PROVE LockInv' /\ TellInv'
  <2>1. PICK w : Becomes(r, w) /\ w.pc = "write" /\ w.item = i
    BY <1>0, <1>2, ReadStep
  <2>2. w \in Request /\ req'[r] = w /\ \A q \in Requests \ {r} : req'[q] = req[q]
    BY <1>0, <2>1, Others DEF Requests
  <2>3. req[r].pc = "new" /\ i \in items /\ UNCHANGED <<items, posts, done, before>>
    BY <1>2 DEF Read, history
  <2>4. LockInv'
    BY <2>1, <2>2, <2>3 DEF LockInv, Running, Requests, Held, Told, Delivering
  <2>5. TellInv'
    BY <1>0, <2>1, <2>2, <2>3 DEF TellInv, Told, Delivering
  <2> QED
    BY <2>4, <2>5
<1>3. ASSUME NEW r \in Requests, Write(r) PROVE LockInv' /\ TellInv'
  <2>1. PICK w : Becomes(r, w) /\ w.pc = "pool" /\ w.item = req[r].item
    BY <1>0, <1>3, WriteStep
  <2>2. w \in Request /\ req'[r] = w /\ \A q \in Requests \ {r} : req'[q] = req[q]
    BY <1>0, <2>1, Others
  <2>3. /\ req[r].pc = "write" /\ UNCHANGED <<items, posts, done, before>>
        /\ \A q \in Updates : req[q].item = req[r].item => req[q].pc \notin Held
    BY <1>3 DEF Write, history, Held, Told
  <2>4. LockInv'
    BY <2>1, <2>2, <2>3 DEF LockInv, Running, Requests
  <2>5. TellInv'
    BY <1>0, <2>1, <2>2, <2>3 DEF TellInv, Told, Delivering
  <2> QED
    BY <2>4, <2>5
<1>4. ASSUME NEW r \in Requests, Subscribe(r) \/ PoolTimeout(r) PROVE LockInv' /\ TellInv'
  <2>1. req[r].pc = "pool" /\ UNCHANGED <<items, posts, done, before>>
    BY <1>4 DEF Subscribe, PoolTimeout, history
  <2>2. PICK w : Becomes(r, w) /\ w.pc \in {"next", "commit"} /\ w.item = req[r].item
    BY <1>0, <1>4, SubscribeStep, TimeoutStep
  <2> QED
    BY <2>1, <2>2, Holding DEF Held, Told, Delivering
<1>5. ASSUME NEW r \in Requests, NEW h \in Hooks, NextHook(r, h) PROVE LockInv' /\ TellInv'
  <2>1. posts' = posts
    BY <1>5 DEF NextHook, history
  <2> QED
    BY <1>0, <1>5, <2>1, NextHookStep, Holding DEF Goes, Held, Told
<1>6. ASSUME NEW r \in Requests, Headers(r) \/ Lookup(r) \/ Fetch(r) \/ Skip(r) \/ Store(r)
      PROVE LockInv' /\ TellInv'
  <2>1. req[r].hook \in Hooks /\ posts' = posts
    BY <1>6 DEF TInv, Calls, Delivering, Headers, Lookup, Fetch, Skip, Store, history
  <2>2. PICK w : Goes(r, w)
    BY <1>0, <1>6, <2>1, HeadersStep, LookupStep, FetchStep, SkipStep, StoreStep
  <2> QED
    BY <2>1, <2>2, Holding DEF Goes, Held, Told
<1>7. ASSUME NEW r \in Requests, Post(r) PROVE LockInv' /\ TellInv'
  <2>1. req[r].hook \in Hooks /\ posts' = posts \cup {[req |-> r, after |-> done[req[r].item]]}
    BY <1>7 DEF TInv, Calls, Delivering, Post
  <2>2. PICK w : Goes(r, w)
    BY <1>0, <1>7, <2>1, PostStep
  <2> QED
    BY <2>1, <2>2, Holding DEF Goes, Held, Told
<1>8. ASSUME NEW r \in Requests, Break(r) PROVE LockInv' /\ TellInv'
  <2>1. UNCHANGED <<items, posts, done, before>>
    BY <1>8 DEF Break
  <2>2. PICK w : /\ Becomes(r, w) /\ req[r].pc \in Delivering
                 /\ w.pc \in {"failed", "commit"} /\ w.item = req[r].item
    BY <1>0, <1>8, BreakStep
  <2> QED
    BY <2>1, <2>2, Holding DEF Held, Told
<1>9. ASSUME NEW r \in Requests, EndDelivery(r) PROVE LockInv' /\ TellInv'
  <2>1. req[r].pc = "next" /\ UNCHANGED <<items, posts, done, before>>
    BY <1>9 DEF EndDelivery, history
  <2>2. PICK w : Becomes(r, w) /\ w.pc = "commit" /\ w.item = req[r].item
    BY <1>0, <1>9, EndOrderStep, EndUpdateStep DEF Requests
  <2> QED
    BY <2>1, <2>2, Holding DEF Held, Told, Delivering
<1>10. ASSUME NEW r \in Requests, Fail(r) PROVE LockInv' /\ TellInv'
  <2>1. req[r].pc = "commit" /\ UNCHANGED <<items, posts, done, before>>
    BY <1>10 DEF Fail, history
  <2>2. PICK w : Becomes(r, w) /\ w.pc = "failed" /\ w.item = req[r].item
    BY <1>0, <1>10, FailStep
  <2> QED
    BY <2>1, <2>2, Holding DEF Held, Told
<1>11. ASSUME Restart PROVE LockInv' /\ TellInv'
  <2>1. UNCHANGED <<items, posts, done, before>>
    BY <1>11 DEF Restart, history
  <2> QED
    BY <1>0, <1>11, <2>1, RestartStep, Calm
<1>12. ASSUME NEW h \in Hooks, DeleteHook(h) \/ Expire(h) PROVE LockInv' /\ TellInv'
  <2>1. UNCHANGED <<items, posts, done, before, req>>
    BY <1>12 DEF DeleteHook, Expire, history
  <2> QED
    BY <2>1, Calm
<1>13. CASE UNCHANGED vars
  BY <1>13, Calm DEF vars, history
<1> QED
  BY <1>1, <1>2, <1>3, <1>4, <1>5, <1>6, <1>7, <1>8, <1>9, <1>10, <1>11, <1>12, <1>13, CommitLock
  DEF Next, Advance

LEMMA LockInit == Init => LockInv /\ TellInv
BY DEF Init, LockInv, TellInv, New, Running, Held, Told, Delivering, Requests

\* What webhooks hear of the changes of an item that were committed, they
\* hear in the order of the commits: the row lock of an update is held while
\* its subscriber calls, and nobody updates an item whose order is not committed.
THEOREM CallsFollowCommits == Spec => []ToldInOrder
<1>1. TellInv => ToldInOrder
  BY DEF TellInv, ToldInOrder
<1> QED
  BY <1>1, TypeInit, TypeNext, LockInit, LockNext, PTL DEF Spec

-----------------------------------------------------------------------------
(***************************************************************************)
(* The log.  While r delivers, every chosen webhook is still to come, is   *)
(* being called, or has a row in r's session, and none is committed.       *)
(***************************************************************************)

Rows(r, w, H) ==
  /\ \A l \in w.logs \cup w.flushed : l[1] = r
  /\ \A l \in w.flushed : l[2] \in H
  /\ w.pc \in {"new", "write", "pool"} =>
       ~ w.complete /\ w.hook = None /\ w.logs = {} /\ w.flushed = {}
  /\ w.pc = "next" => w.hook = None
  /\ w.pc \in Delivering =>
       /\ ~ w.complete
       /\ \A h \in Hooks :
            h \in w.chosen <=> h \in w.todo \/ h = w.hook \/ <<r, h>> \in w.logs \cup w.flushed
  /\ w.pc = "commit" /\ r \in Orders =>
       w.complete /\ w.logs = {} /\ \A h \in Hooks : h \in w.chosen <=> <<r, h>> \in w.flushed
  /\ w.pc \in {"done", "failed"} \/ (w.pc = "commit" /\ r \notin Orders) =>
       w.logs = {} /\ w.flushed = {}

Logged(r, w, H, L) ==
  \A h \in Hooks : <<r, h>> \in L <=> /\ w.complete /\ (r \in Orders => w.pc = "done")
                                      /\ h \in w.chosen \cap H

LogInv == \A r \in Requests : Rows(r, req[r], hooks) /\ Logged(r, req[r], hooks, log)

LEMMA LogStep ==
  ASSUME TypeOK, LogInv, NEW r \in Requests, NEW w, Becomes(r, w), hooks' = hooks,
         Rows(r, w, hooks), Logged(r, w, hooks, log'),
         \A q \in Requests \ {r}, h \in Hooks : <<q, h>> \in log' <=> <<q, h>> \in log
  PROVE  LogInv'
<1>1. req'[r] = w /\ \A q \in Requests \ {r} : req'[q] = req[q]
  BY Others
<1>2. ASSUME NEW q \in Requests \ {r} PROVE Rows(q, req[q], hooks) /\ Logged(q, req[q], hooks, log')
  BY DEF LogInv, Logged
<1> QED
  BY <1>1, <1>2 DEF LogInv, Rows, Logged

\* a step that leaves the log alone
LEMMA SameLog ==
  ASSUME TypeOK, LogInv, NEW r \in Requests, NEW w, Becomes(r, w), UNCHANGED <<hooks, log>>,
         Rows(r, w, hooks), Logged(r, w, hooks, log)
  PROVE  LogInv'
BY LogStep

LEMMA PublishLog ==
  ASSUME LogInv, NEW r \in Requests, Publish(r)
  PROVE  /\ \A h \in Hooks : <<r, h>> \in log' <=>
              <<r, h>> \in log \/ <<r, h>> \in req[r].logs \cup req[r].flushed
         /\ \A q \in Requests \ {r}, h \in Hooks : <<q, h>> \in log' <=> <<q, h>> \in log
<1>1. \A l \in req[r].logs \cup req[r].flushed : l[1] = r
  BY DEF LogInv, Rows
<1>2. ASSUME NEW q \in Requests \ {r}, NEW h \in Hooks
      PROVE  <<q, h>> \notin req[r].logs \cup req[r].flushed
  BY <1>1
<1> QED
  BY <1>2 DEF Publish

\* within a delivery only the rows of the session change
LEMMA GoesLog ==
  ASSUME TypeOK, LogInv, NEW r \in Requests, NEW w, Goes(r, w), Rows(r, w, hooks)
  PROVE  LogInv'
<1>1. Logged(r, w, hooks, log)
  BY DEF Goes, LogInv, Rows, Logged
<1> QED
  BY <1>1, SameLog DEF Goes

\* the delivery is over or was never begun: what was committed stays
LEMMA OverLog ==
  ASSUME TypeOK, LogInv, NEW r \in Requests, NEW w, Becomes(r, w), UNCHANGED <<hooks, log>>,
         Empty(w), w.complete = req[r].complete, w.chosen = req[r].chosen,
         w.pc = "failed" \/ (w.pc = "commit" /\ r \notin Orders),
         r \in Orders => req[r].pc # "done"
  PROVE  LogInv'
<1>1. Rows(r, w, hooks)
  BY DEF Rows, Empty, Delivering
<1>2. Logged(r, w, hooks, log)
  BY DEF LogInv, Logged
<1> QED
  BY <1>1, <1>2, SameLog

LEMMA LogNext == TInv /\ LogInv /\ LockInv /\ [Next]_vars => LogInv'
<1> SUFFICES ASSUME TInv, LogInv, LockInv, [Next]_vars PROVE LogInv'
  OBVIOUS
<1>0. TypeOK
  BY DEF TInv
<1>A. ASSUME NEW r \in Requests PROVE Rows(r, req[r], hooks) /\ Logged(r, req[r], hooks, log)
  BY DEF LogInv
<1>1. ASSUME NEW r \in Orders, NEW i \in Items, Order(r, i) PROVE LogInv'
  <2>1. PICK w : /\ Becomes(r, w)
                 /\ w.pc = "next" /\ w.complete = req[r].complete /\ w.todo = w.chosen
                 /\ w.hook = req[r].hook /\ w.logs = req[r].logs /\ w.flushed = req[r].flushed
    BY <1>0, <1>1, OrderStep
  <2>2. r \in Requests /\ req[r].pc = "new" /\ UNCHANGED <<hooks, log>>
    BY <1>1 DEF Order, Requests
  <2>3. ~ req[r].complete /\ req[r].hook = None /\ req[r].logs = {} /\ req[r].flushed = {}
    BY <1>A, <2>2 DEF Rows
  <2>4. Rows(r, w, hooks)
    BY <2>1, <2>3 DEF Rows, Requests
  <2>5. Logged(r, w, hooks, log)
    BY <1>A, <2>1, <2>2, <2>3 DEF Logged
  <2> QED
    BY <1>0, <2>1, <2>2, <2>4, <2>5, SameLog
<1>2. ASSUME NEW r \in Updates, NEW i \in Items, Read(r, i) PROVE LogInv'
  <2>1. PICK w : /\ Becomes(r, w)
                 /\ w.pc = "write" /\ w.complete = req[r].complete
                 /\ w.logs = req[r].logs /\ w.flushed = req[r].flushed /\ w.hook = req[r].hook
    BY <1>0, <1>2, ReadStep
  <2>2. r \in Requests /\ req[r].pc = "new" /\ UNCHANGED <<hooks, log>>
    BY <1>2 DEF Read, Requests
  <2>3. ~ req[r].complete /\ req[r].hook = None /\ req[r].logs = {} /\ req[r].flushed = {}
    BY <1>A, <2>2 DEF Rows
  <2>4. Rows(r, w, hooks)
    BY <2>1, <2>3 DEF Rows, Delivering
  <2>5. Logged(r, w, hooks, log)
    BY <1>A, <2>1, <2>2, <2>3 DEF Logged
  <2> QED
    BY <1>0, <2>1, <2>2, <2>4, <2>5, SameLog
<1>3. ASSUME NEW r \in Requests, Write(r) PROVE LogInv'
  <2>1. PICK w : /\ Becomes(r, w)
                 /\ w.pc = "pool" /\ w.complete = req[r].complete
                 /\ w.logs = req[r].logs /\ w.flushed = req[r].flushed /\ w.hook = req[r].hook
    BY <1>0, <1>3, WriteStep
  <2>2. req[r].pc = "write" /\ UNCHANGED <<hooks, log>>
    BY <1>3 DEF Write
  <2>3. ~ req[r].complete /\ req[r].hook = None /\ req[r].logs = {} /\ req[r].flushed = {}
    BY <1>A, <2>2 DEF Rows
  <2>4. Rows(r, w, hooks)
    BY <2>1, <2>3 DEF Rows, Delivering
  <2>5. Logged(r, w, hooks, log)
    BY <1>A, <2>1, <2>2, <2>3 DEF Logged
  <2> QED
    BY <1>0, <2>1, <2>2, <2>4, <2>5, SameLog
<1>4. ASSUME NEW r \in Requests, Subscribe(r) \/ PoolTimeout(r) PROVE LogInv'
  <2>1. req[r].pc = "pool" /\ r \notin Orders /\ UNCHANGED <<hooks, log>>
    BY <1>4 DEF Subscribe, PoolTimeout, LockInv
  <2>2. ~ req[r].complete /\ req[r].hook = None /\ req[r].logs = {} /\ req[r].flushed = {}
    BY <1>A, <2>1 DEF Rows
  <2>3. PICK w : /\ Becomes(r, w) /\ w.complete = req[r].complete
                 /\ w.logs = req[r].logs /\ w.flushed = req[r].flushed
                 /\ \/ w.pc = "next" /\ w.todo = w.chosen /\ w.hook = req[r].hook
                    \/ w.pc = "commit"
    BY <1>0, <1>4, SubscribeStep, TimeoutStep
  <2>4. Rows(r, w, hooks)
    BY <2>1, <2>2, <2>3 DEF Rows, Delivering
  <2>5. Logged(r, w, hooks, log)
    BY <1>A, <2>1, <2>2, <2>3 DEF Logged
  <2> QED
    BY <1>0, <2>1, <2>3, <2>4, <2>5, SameLog
<1>5. ASSUME NEW r \in Requests, NEW g \in Hooks, NextHook(r, g) PROVE LogInv'
  <2>1. PICK w : /\ Goes(r, w)
                 /\ w.todo = req[r].todo \ {g} /\ w.hook = g
                 /\ w.logs = req[r].logs /\ w.flushed = req[r].flushed
                 /\ w.pc \in {"headers", "lookup", "post"}
    BY <1>0, <1>5, NextHookStep
  <2>2. req[r].pc = "next" /\ req[r].hook = None /\ g \in req[r].todo
    BY <1>A, <1>5 DEF NextHook, Rows
  <2>3. \A h \in Hooks : h \in w.chosen <=> h \in w.todo \/ h = w.hook \/ <<r, h>> \in w.logs \cup w.flushed
    BY <1>A, <2>1, <2>2 DEF Rows, Goes
  <2>4. Rows(r, w, hooks)
    BY <1>A, <2>1, <2>2, <2>3 DEF Rows, Delivering, Goes
  <2> QED
    BY <1>0, <2>1, <2>4, GoesLog
<1>6. ASSUME NEW r \in Requests, Headers(r) \/ Lookup(r) PROVE LogInv'
  <2>1. PICK w : /\ Goes(r, w)
                 /\ w.todo = req[r].todo /\ w.hook = req[r].hook /\ w.pc # "next"
                 /\ w.logs = {} /\ w.flushed = req[r].flushed \cup req[r].logs
    BY <1>0, <1>6, HeadersStep, LookupStep
  <2>2. \A l \in req[r].logs : l[2] \in hooks
    BY <1>6 DEF Headers, Lookup, CanFlush
  <2>3. Rows(r, w, hooks)
    BY <1>A, <2>1, <2>2 DEF Rows, Delivering, Goes
  <2> QED
    BY <1>0, <2>1, <2>3, GoesLog
<1>7. ASSUME NEW r \in Requests, Fetch(r) \/ Store(r) PROVE LogInv'
  <2>1. req[r].hook \in Hooks
    BY <1>7 DEF TInv, Calls, Delivering, Fetch, Store
  <2>2. PICK w : /\ Goes(r, w)
                 /\ w.todo = req[r].todo /\ w.hook = req[r].hook /\ w.pc # "next"
                 /\ w.logs = req[r].logs /\ w.flushed = req[r].flushed
    BY <1>0, <1>7, <2>1, FetchStep, StoreStep
  <2>3. Rows(r, w, hooks)
    BY <1>A, <2>2 DEF Rows, Delivering, Goes
  <2> QED
    BY <1>0, <2>2, <2>3, GoesLog
<1>8. ASSUME NEW r \in Requests, Skip(r) \/ Post(r) PROVE LogInv'
  <2>1. req[r].hook \in Hooks
    BY <1>8 DEF TInv, Calls, Delivering, Skip, Post
  <2>2. PICK w : /\ Goes(r, w)
                 /\ w.todo = req[r].todo /\ w.hook = None /\ w.pc = "next"
                 /\ w.logs \cup w.flushed = req[r].logs \cup req[r].flushed \cup {<<r, req[r].hook>>}
                 /\ w.logs \subseteq req[r].logs \cup {<<r, req[r].hook>>}
                 /\ \/ w.flushed = req[r].flushed
                    \/ w.flushed = req[r].flushed \cup req[r].logs /\ CanFlush(r)
    <3>1. CASE Skip(r)
      BY <1>0, <2>1, <3>1, SkipStep DEF Skip
    <3>2. CASE Post(r)
      BY <1>0, <2>1, <3>2, PostStep
    <3> QED
      BY <1>8, <3>1, <3>2
  <2>3. \A l \in w.logs \cup w.flushed : l[1] = r
    BY <1>A, <2>2 DEF Rows
  <2>4. \A l \in w.flushed : l[2] \in hooks
    BY <1>A, <2>2 DEF Rows, CanFlush
  <2>5. ASSUME NEW h \in Hooks
        PROVE  h \in w.chosen <=> h \in w.todo \/ h = w.hook \/ <<r, h>> \in w.logs \cup w.flushed
    <3>1. h \in w.chosen <=> h \in req[r].todo \/ h = req[r].hook \/ <<r, h>> \in req[r].logs \cup req[r].flushed
      BY <1>A, <2>2 DEF Rows, Goes
    <3>2. <<r, h>> = <<r, req[r].hook>> <=> h = req[r].hook
      OBVIOUS
    <3> QED
      BY <2>2, <3>1, <3>2
  <2>6. ~ w.complete
    BY <1>A, <2>2 DEF Rows, Goes
  <2>7. Rows(r, w, hooks)
    BY <2>2, <2>3, <2>4, <2>5, <2>6 DEF Rows
  <2> QED
    BY <1>0, <2>2, <2>7, GoesLog
<1>9. ASSUME NEW r \in Requests, Break(r) PROVE LogInv'
  <2>1. UNCHANGED <<hooks, log>>
    BY <1>9 DEF Break
  <2>2. PICK w : /\ Becomes(r, w) /\ req[r].pc \in Delivering
                 /\ w.pc = (IF r \in Orders THEN "failed" ELSE "commit")
                 /\ w.chosen = req[r].chosen /\ w.complete = req[r].complete
                 /\ Empty(w)
    BY <1>0, <1>9, BreakStep
  <2> QED
    BY <1>0, <2>1, <2>2, OverLog DEF Delivering
<1>10. ASSUME NEW r \in Requests, Fail(r) PROVE LogInv'
  <2>1. req[r].pc = "commit" /\ UNCHANGED <<hooks, log>>
    BY <1>10 DEF Fail
  <2> QED
    BY <1>0, <1>10, <2>1, FailStep, OverLog
<1>11. ASSUME NEW r \in Updates, EndDelivery(r) PROVE LogInv'
  <2>1. PICK w : /\ Becomes(r, w) /\ w.pc = "commit" /\ w.complete
                 /\ w.chosen = req[r].chosen /\ Empty(w)
    BY <1>0, <1>11, EndUpdateStep
  <2>2. /\ r \in Requests /\ r \notin Orders
        /\ req[r].pc = "next" /\ req[r].todo = {} /\ CanFlush(r)
        /\ Publish(r) /\ hooks' = hooks
    BY <1>11 DEF EndDelivery, Requests
  <2>3. Rows(r, w, hooks)
    BY <2>1, <2>2 DEF Rows, Empty, Delivering
  <2>4. Logged(r, w, hooks, log')
    <3> SUFFICES ASSUME NEW h \in Hooks
                 PROVE  <<r, h>> \in log' <=> h \in w.chosen \cap hooks
      BY <2>1, <2>2 DEF Logged
    <3>1. <<r, h>> \notin log
      BY <1>A, <2>2 DEF Rows, Logged, Delivering
    <3>2. h \in req[r].chosen <=> <<r, h>> \in req[r].logs \cup req[r].flushed
      BY <1>A, <2>2 DEF Rows, Delivering
    <3>3. <<r, h>> \in req[r].logs \cup req[r].flushed => h \in hooks
      BY <1>A, <2>2 DEF Rows, CanFlush
    <3>4. <<r, h>> \in log' <=> <<r, h>> \in log \/ <<r, h>> \in req[r].logs \cup req[r].flushed
      BY <2>2, PublishLog
    <3> QED
      BY <2>1, <3>1, <3>2, <3>3, <3>4
  <2>5. \A q \in Requests \ {r}, h \in Hooks : <<q, h>> \in log' <=> <<q, h>> \in log
    BY <2>2, PublishLog
  <2> QED
    BY <1>0, <2>1, <2>2, <2>3, <2>4, <2>5, LogStep
<1>12. ASSUME NEW r \in Orders, EndDelivery(r) PROVE LogInv'
  <2>1. PICK w : /\ Becomes(r, w) /\ w.pc = "commit" /\ w.complete
                 /\ w.chosen = req[r].chosen
                 /\ w.logs = {} /\ w.flushed = req[r].flushed \cup req[r].logs
    BY <1>0, <1>12, EndOrderStep
  <2>2. /\ r \in Requests
        /\ req[r].pc = "next" /\ req[r].todo = {} /\ CanFlush(r)
        /\ UNCHANGED <<hooks, log>>
    BY <1>12 DEF EndDelivery, Requests
  <2>3. Rows(r, w, hooks)
    <3>1. \A h \in Hooks : h \in w.chosen <=> <<r, h>> \in w.flushed
      BY <1>A, <2>1, <2>2 DEF Rows, Delivering
    <3>2. \A l \in w.flushed : l[1] = r /\ l[2] \in hooks
      BY <1>A, <2>1, <2>2 DEF Rows, CanFlush
    <3> QED
      BY <2>1, <3>1, <3>2 DEF Rows, Delivering
  <2>4. Logged(r, w, hooks, log)
    BY <1>A, <2>1, <2>2 DEF Rows, Logged, Delivering
  <2> QED
    BY <1>0, <2>1, <2>2, <2>3, <2>4, SameLog
<1>13. ASSUME NEW r \in Requests, Commit(r) PROVE LogInv'
  <2>1. PICK w : /\ Becomes(r, w) /\ w.pc = "done"
                 /\ w.chosen = req[r].chosen /\ w.complete = req[r].complete
                 /\ Empty(w)
    BY <1>0, <1>13, CommitStep
  <2>2. req[r].pc = "commit" /\ Publish(r) /\ hooks' = hooks
    BY <1>13 DEF Commit
  <2>3. Rows(r, w, hooks)
    BY <2>1 DEF Rows, Empty, Delivering
  <2>4. Logged(r, w, hooks, log')
    <3> SUFFICES ASSUME NEW h \in Hooks
                 PROVE  <<r, h>> \in log' <=> req[r].complete /\ h \in req[r].chosen \cap hooks
      BY <2>1 DEF Logged
    <3>1. <<r, h>> \in log' <=> <<r, h>> \in log \/ <<r, h>> \in req[r].logs \cup req[r].flushed
      BY <2>2, PublishLog
    <3>2. CASE r \in Orders
      <4>1. <<r, h>> \notin log
        BY <1>A, <2>2, <3>2 DEF Logged
      <4>2. /\ req[r].complete /\ req[r].logs = {}
            /\ h \in req[r].chosen <=> <<r, h>> \in req[r].flushed
        BY <1>A, <2>2, <3>2 DEF Rows
      <4>3. <<r, h>> \in req[r].flushed => h \in hooks
        BY <1>A DEF Rows
      <4> QED
        BY <3>1, <4>1, <4>2, <4>3
    <3>3. CASE r \notin Orders
      <4>1. req[r].logs = {} /\ req[r].flushed = {}
        BY <1>A, <2>2, <3>3 DEF Rows
      <4>2. <<r, h>> \in log <=> req[r].complete /\ h \in req[r].chosen \cap hooks
        BY <1>A, <3>3 DEF Logged
      <4> QED
        BY <3>1, <4>1, <4>2
    <3> QED
      BY <3>2, <3>3
  <2>5. \A q \in Requests \ {r}, h \in Hooks : <<q, h>> \in log' <=> <<q, h>> \in log
    BY <2>2, PublishLog
  <2> QED
    BY <1>0, <2>1, <2>2, <2>3, <2>4, <2>5, LogStep
<1>14. ASSUME Restart PROVE LogInv'
  <2>1. UNCHANGED <<hooks, log>>
    BY <1>14 DEF Restart
  <2>2. ASSUME NEW r \in Requests
        PROVE  Rows(r, req'[r], hooks) /\ Logged(r, req'[r], hooks, log)
    <3>1. CASE Running(r)
      <4>1. /\ req'[r].pc = "failed" /\ Empty(req'[r])
            /\ req'[r].chosen = req[r].chosen /\ req'[r].complete = req[r].complete
        BY <1>0, <1>14, <3>1, RestartStep
      <4> QED
        BY <1>A, <3>1, <4>1 DEF Rows, Logged, Empty, Delivering, Running
    <3>2. CASE ~ Running(r)
      BY <1>0, <1>A, <1>14, <3>2, RestartStep
    <3> QED
      BY <3>1, <3>2
  <2> QED
    BY <2>1, <2>2 DEF LogInv
<1>15. ASSUME NEW g \in Hooks, DeleteHook(g) PROVE LogInv'
  <2>1. /\ hooks' = hooks \ {g} /\ log' = {l \in log : l[2] # g} /\ req' = req
        /\ \A r \in Requests : \A l \in req[r].flushed : l[2] # g
    BY <1>15 DEF DeleteHook
  <2>2. ASSUME NEW r \in Requests PROVE Rows(r, req[r], hooks')
    BY <1>A, <2>1 DEF Rows
  <2>3. ASSUME NEW r \in Requests PROVE Logged(r, req[r], hooks', log')
    BY <1>A, <2>1 DEF Logged
  <2> QED
    BY <2>1, <2>2, <2>3 DEF LogInv
<1>16. ASSUME NEW g \in Hooks, Expire(g) PROVE LogInv'
  BY <1>A, <1>16 DEF Expire, LogInv
<1>17. CASE UNCHANGED vars
  BY <1>A, <1>17 DEF vars, LogInv
<1> QED
  BY <1>1, <1>2, <1>3, <1>4, <1>5, <1>6, <1>7, <1>8, <1>9, <1>10, <1>11, <1>12, <1>13, <1>14, <1>15,
     <1>16, <1>17
  DEF Next, Advance, Requests

LEMMA LogInit == Init => LogInv
BY DEF Init, LogInv, New, Rows, Logged, Delivering

\* A delivery that came to its end has a log row for each of its webhooks,
\* as long as that webhook exists, and one that broke, or whose order failed,
\* has none.
THEOREM DeliveriesAreLogged == Spec => []AllLogged
<1>1. LogInv => AllLogged
  BY DEF LogInv, Logged, AllLogged
<1> QED
  BY <1>1, TypeInit, TypeNext, LockInit, LockNext, LogInit, LogNext, PTL DEF Spec

-----------------------------------------------------------------------------
(***************************************************************************)
(* Failures that are logged and no more: no webhook is deleted, and no two *)
(* deliveries are at the token of one webhook.  What a delivery found in   *)
(* the cache is then still true when it stores its token.                  *)
(***************************************************************************)

\* the webhooks whose token r is about to store, or has not committed
AtToken(r) ==
  req[r].tokens \cup (IF req[r].pc \in {"fetch", "store"} THEN {req[r].hook} ELSE {})

TokensApart == \A q, r \in Requests : q # r => AtToken(q) \cap AtToken(r) = {}

AsFound(r) ==
  req[r].pc \in {"fetch", "store"} => (req[r].cached <=> cache[req[r].hook] # "none")

QuietInv == hooks = Hooks /\ crashed = {} /\ \A r \in Requests : AsFound(r)

\* a step of r that leaves the tokens of others as they are
LEMMA QuietStep ==
  ASSUME QuietInv, NEW r \in Requests, UNCHANGED <<hooks, crashed>>, AsFound(r)',
         \A q \in Requests \ {r} : req'[q] = req[q],
         cache' = cache \/ (Publish(r) /\ TypeOK /\ TInv /\ TokensApart)
  PROVE  QuietInv'
<1>1. ASSUME NEW q \in Requests \ {r} PROVE AsFound(q)'
  <2>1. CASE cache' = cache
    BY <2>1 DEF QuietInv, AsFound
  <2>2. CASE Publish(r) /\ TypeOK /\ TInv /\ TokensApart
    <3> SUFFICES ASSUME req[q].pc \in {"fetch", "store"}
                 PROVE  cache'[req[q].hook] = cache[req[q].hook]
      BY DEF QuietInv, AsFound
    <3>1. req[q].hook \in Hooks
      BY <2>2 DEF TInv, Calls, Delivering
    <3>2. req[q].hook \notin req[r].tokens
      BY <2>2 DEF TokensApart, AtToken
    <3> QED
      BY <2>2, <3>1, <3>2 DEF Publish
  <2> QED
    BY <2>1, <2>2
<1> QED
  BY <1>1 DEF QuietInv

\* a request that is at no token
LEMMA NotAtToken ==
  ASSUME QuietInv, TypeOK, NEW r \in Requests, NEW w, Becomes(r, w), w.pc \notin {"fetch", "store"},
         UNCHANGED <<hooks, crashed>>,
         cache' = cache \/ (Publish(r) /\ TInv /\ TokensApart)
  PROVE  QuietInv'
<1>1. req'[r] = w /\ \A q \in Requests \ {r} : req'[q] = req[q]
  BY Others
<1>2. AsFound(r)'
  BY <1>1 DEF AsFound
<1> QED
  BY <1>1, <1>2, QuietStep

\* nothing the delivery asks of the database fails
LEMMA NothingBreaks ==
  ASSUME QuietInv, TInv, TokensApart, NEW r \in Requests
  PROVE  ~ Breaks(r)
<1>1. CanFlush(r)
  <2>1. req[r].logs \subseteq Requests \X Hooks
    BY DEF TInv, TypeOK, Request, Log
  <2> QED
    BY <2>1 DEF CanFlush, QuietInv
<1>2. req[r].pc = "store" => Storable(r)
  BY DEF QuietInv, AsFound, Storable, TInv, Calls, Delivering
<1>3. ~ Deadlocked(r)
  <2>1. WaitsFor(r) = {}
    BY DEF WaitsFor, TokensApart, AtToken
  <2> QED
    BY <2>1 DEF Deadlocked
<1> QED
  BY <1>1, <1>2, <1>3 DEF Breaks

LEMMA QuietNext ==
  ASSUME Removable = {}, QuietInv, TInv, TokensApart, [Next]_vars
  PROVE  QuietInv'
<1>0. TypeOK
  BY DEF TInv
<1>1. ASSUME NEW r \in Orders, NEW i \in Items, Order(r, i) PROVE QuietInv'
  BY <1>0, <1>1, OrderStep, NotAtToken DEF Order, history, Requests
<1>2. ASSUME NEW r \in Updates, NEW i \in Items, Read(r, i) PROVE QuietInv'
  BY <1>0, <1>2, ReadStep, NotAtToken DEF Read, history, Requests
<1>3. ASSUME NEW r \in Requests, Write(r) \/ Subscribe(r) \/ PoolTimeout(r) PROVE QuietInv'
  BY <1>0, <1>3, WriteStep, SubscribeStep, TimeoutStep, NotAtToken DEF Write, Subscribe, PoolTimeout, history
<1>4. ASSUME NEW r \in Requests, NEW h \in Hooks, NextHook(r, h) PROVE QuietInv'
  BY <1>0, <1>4, NextHookStep, NotAtToken DEF Goes
<1>5. ASSUME NEW r \in Requests, Headers(r) \/ Store(r) PROVE QuietInv'
  <2>1. req'[r].pc \in {"lookup", "post"}
    BY <1>0, <1>5 DEF Headers, Store, AfterHeaders, TypeOK, Request
  <2>2. AsFound(r)' /\ \A q \in Requests \ {r} : req'[q] = req[q]
    BY <1>0, <1>5, <2>1 DEF AsFound, Headers, Store, TypeOK
  <2> QED
    BY <1>5, <2>2, QuietStep DEF Headers, Store, history
<1>6. ASSUME NEW r \in Requests, Lookup(r) PROVE QuietInv'
  <2>1. req'[r].hook = req[r].hook /\ (req'[r].cached <=> cache[req[r].hook] # "none")
    BY <1>0, <1>6 DEF Lookup, TypeOK, Request
  <2>2. AsFound(r)' /\ \A q \in Requests \ {r} : req'[q] = req[q]
    BY <1>0, <1>6, <2>1 DEF AsFound, Lookup, TypeOK
  <2> QED
    BY <1>6, <2>2, QuietStep DEF Lookup, history
<1>7. ASSUME NEW r \in Requests, Fetch(r) PROVE QuietInv'
  <2>1. req'[r].hook = req[r].hook /\ (req'[r].cached <=> req[r].cached) /\ req[r].pc = "fetch"
    BY <1>0, <1>7 DEF Fetch, TypeOK, Request
  <2>2. AsFound(r)' /\ \A q \in Requests \ {r} : req'[q] = req[q]
    BY <1>0, <1>7, <2>1 DEF QuietInv, AsFound, Fetch, TypeOK
  <2> QED
    BY <1>7, <2>2, QuietStep DEF Fetch, history
<1>8. ASSUME NEW r \in Requests, Skip(r) \/ Post(r) PROVE QuietInv'
  <2>1. req[r].hook \in Hooks
    BY <1>8 DEF TInv, Calls, Delivering, Skip, Post
  <2>2. \E w : Goes(r, w) /\ w.pc = "next"
    BY <1>0, <1>8, <2>1, SkipStep, PostStep
  <2> QED
    BY <1>0, <2>2, NotAtToken DEF Goes
<1>9. ASSUME NEW r \in Requests, Break(r) PROVE FALSE
  BY <1>9, NothingBreaks DEF Break
<1>10. ASSUME NEW r \in Requests, EndDelivery(r) PROVE QuietInv'
  <2>1. \E w : Becomes(r, w) /\ w.pc = "commit"
    BY <1>0, <1>10, EndOrderStep, EndUpdateStep DEF Requests
  <2>2. UNCHANGED <<hooks, crashed>> /\ (cache' = cache \/ Publish(r))
    BY <1>10 DEF EndDelivery, history
  <2> QED
    BY <1>0, <2>1, <2>2, NotAtToken
<1>11. ASSUME NEW r \in Requests, Commit(r) PROVE QuietInv'
  <2>1. UNCHANGED <<hooks, crashed>> /\ Publish(r)
    BY <1>11 DEF Commit
  <2> QED
    BY <1>0, <1>11, <2>1, CommitStep, NotAtToken
<1>12. ASSUME NEW r \in Requests, Fail(r) PROVE QuietInv'
  BY <1>0, <1>12, FailStep, NotAtToken DEF Fail, history
<1>13. ASSUME Restart PROVE QuietInv'
  <2>1. ASSUME NEW r \in Requests PROVE AsFound(r)'
    <3>1. UNCHANGED cache /\ (req'[r] = req[r] \/ req'[r].pc = "failed")
      BY <1>0, <1>13, RestartStep DEF Restart
    <3> QED
      BY <3>1 DEF QuietInv, AsFound
  <2> QED
    BY <1>13, <2>1 DEF QuietInv, Restart, history
<1>14. ASSUME NEW g \in Hooks, Expire(g) PROVE QuietInv'
  <2>1. UNCHANGED <<hooks, crashed, req>> /\ \A h \in Hooks : cache'[h] # "none" <=> cache[h] # "none"
    BY <1>0, <1>14 DEF Expire, history, TypeOK
  <2>2. \A r \in Requests : req[r].pc \in {"fetch", "store"} => req[r].hook \in Hooks
    BY DEF TInv, Calls, Delivering
  <2> QED
    BY <2>1, <2>2 DEF QuietInv, AsFound
<1>15. CASE UNCHANGED vars
  BY <1>15 DEF vars, history, QuietInv, AsFound
<1> QED
  BY <1>1, <1>2, <1>3, <1>4, <1>5, <1>6, <1>7, <1>8, <1>9, <1>10, <1>11, <1>12, <1>13, <1>14, <1>15
  DEF Next, Advance, Requests

\* No order fails with a webhook, whatever its endpoint, its secrets and its
\* token do, as long as no webhook is deleted and no two deliveries are at
\* the token of one: these are the only ways (deliver_webhooks_for_ritm,
\* src/backend/app/domain/catalog/webhooks.py).
THEOREM FailuresLoggedApart ==
  ASSUME Removable = {}
  PROVE  Spec /\ []TokensApart => []FailuresAreLogged
<1>1. Init => QuietInv
  BY DEF Init, QuietInv, AsFound, New
<1>2. QuietInv => FailuresAreLogged
  BY DEF QuietInv, FailuresAreLogged
<1>3. QuietInv /\ TInv /\ TokensApart /\ [Next]_vars => QuietInv'
  BY QuietNext
<1> QED
  BY <1>1, <1>2, <1>3, TypeInit, TypeNext, PTL DEF Spec
=============================================================================
