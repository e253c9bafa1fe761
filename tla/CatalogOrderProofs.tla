------------------------- MODULE CatalogOrderProofs -------------------------
(***************************************************************************)
(* Proofs about CatalogOrder, for every number of users, carts, sessions   *)
(* and webhooks.                                                           *)
(***************************************************************************)
EXTENDS CatalogOrder, TLAPS

\* the request has taken a number of prefix p and not inserted its row yet
Taken(r, p) == r.pc = p /\ r.number # 0

\* the numbers a session holds: a run that follows the committed ones, which
\* no other session is adding to
Run(s, p) ==
  IF p \in req[s].locked
  THEN /\ req[s].value[p] > last[p]
       /\ Taken(req[s], p) => req[s].number = req[s].value[p]
       /\ RowsOf(req[s].rows, p) =
            last[p] + 1 .. (IF Taken(req[s], p) THEN req[s].value[p] - 1 ELSE req[s].value[p])
  ELSE RowsOf(req[s].rows, p) = {} /\ ~Taken(req[s], p)

\* a request that creates a record knows what for; only orders have options
Placed ==
  \A s \in Sessions : /\ req[s].pc \in Prefixes => req[s].id \in Ids
                      /\ req[s].pc \in {"options", "hooks"} => req[s].id \in Entries

NInv ==
  /\ TypeOK
  /\ Placed
  /\ \A s \in Sessions : req[s].given = 0
  /\ \A s \in Sessions : req[s].number # 0 => req[s].pc \in Prefixes
  /\ \A s, q \in Sessions : s # q => req[s].locked \cap req[q].locked = {}
  /\ \A p \in Prefixes : Committed(p) = 1 .. last[p]
  /\ \A s \in Sessions, p \in Prefixes : Run(s, p)

-----------------------------------------------------------------------------
(***************************************************************************)
(* What each kind of step does.                                            *)
(***************************************************************************)

LEMMA NoneOfType == \A S : NoneOf(S) \in Tally(S) /\ \A x \in S : NoneOf(S)[x] = 0
BY DEF NoneOf, Tally

LEMMA IdleType ==
  /\ Idle \in Request
  /\ Idle.rows = {} /\ Idle.locked = {} /\ Idle.number = 0 /\ Idle.given = 0
  /\ Idle.batch = {} /\ Idle.todo = {} /\ Idle.pc = "idle" /\ Idle.id = None
BY NoneOfType DEF Idle, Request, Options, Prefixes

\* a step that moves one request on, to a record of the right type
LEMMA RequestType ==
  ASSUME TypeOK, NEW s \in Sessions, NEW r \in Request, req' = [req EXCEPT ![s] = r]
  PROVE  req' \in [Sessions -> Request] /\ req'[s] = r /\ \A q \in Sessions \ {s} : req'[q] = req[q]
BY DEF TypeOK

LEMMA PlacedStep ==
  ASSUME Placed, NEW s \in Sessions, \A q \in Sessions \ {s} : req'[q] = req[q],
         req'[s].pc \in Prefixes => req'[s].id \in Ids,
         req'[s].pc \in {"options", "hooks"} => req'[s].id \in Entries
  PROVE  Placed'
BY DEF Placed

\* a request begins without a number, a lock or a row
LEMMA BeginEffect ==
  ASSUME TypeOK, NEW s \in Sessions, Begin(s)
  PROVE  /\ TypeOK'
         /\ Placed => Placed'
         /\ req[s].pc = "idle"
         /\ req'[s].rows = {} /\ req'[s].locked = {} /\ req'[s].number = 0
         /\ req'[s].given \in ClientNumbers \cup {0}
         /\ \A q \in Sessions \ {s} : req'[q] = req[q]
         /\ UNCHANGED <<last, table>>
<1> USE IdleType, OrderAssumption
<1> DEFINE Fresh(r) ==
      /\ r \in Request /\ req' = [req EXCEPT ![s] = r]
      /\ r.rows = {} /\ r.locked = {} /\ r.number = 0 /\ r.given \in ClientNumbers \cup {0}
      /\ r.pc \in Prefixes => r.id \in Ids
      /\ r.pc \notin {"options", "hooks"}
           Rest ==
      /\ req[s].pc = "idle"
      /\ UNCHANGED <<last, table, log, lost, posts>>
      /\ cart' \in [Users -> SUBSET Entries]
      /\ used' \subseteq Ids
      /\ batches' \subseteq SUBSET Entries
<1>1. ASSUME NEW u \in Users, Submit(s, u)
      PROVE  (\E r : Fresh(r)) /\ Rest
  <2> DEFINE r == [Idle EXCEPT !.pc = "item", !.batch = cart[u], !.todo = cart[u]]
  <2>1. /\ r \in Request /\ r.rows = {} /\ r.locked = {} /\ r.number = 0 /\ r.given = 0
        /\ r.pc = "item"
    BY DEF Request, Idle, TypeOK, Ids
  <2>2. Rest
    BY <1>1 DEF Submit, TypeOK
  <2>3. Fresh(r)
    BY <1>1, <2>1 DEF Submit, Prefixes
  <2> QED
    BY <2>2, <2>3
<1>2. ASSUME NEW e \in Entries, OrderNow(s, e)
      PROVE  (\E r : Fresh(r)) /\ Rest
  <2> DEFINE r == [Idle EXCEPT !.pc = "item", !.batch = {e}, !.todo = {e}]
  <2>1. /\ r \in Request /\ r.rows = {} /\ r.locked = {} /\ r.number = 0 /\ r.given = 0
        /\ r.pc = "item"
    BY DEF Request, Idle, Ids
  <2>2. Rest
    BY <1>2 DEF OrderNow, TypeOK, Ids
  <2>3. Fresh(r)
    BY <1>2, <2>1 DEF OrderNow, Prefixes
  <2> QED
    BY <2>2, <2>3
<1>3. ASSUME NEW d \in Directs, NEW p \in Prefixes, NEW n \in ClientNumbers \cup {0},
             CreateDirect(s, d, p, n)
      PROVE  (\E r : Fresh(r)) /\ Rest
  <2> DEFINE r == [Idle EXCEPT !.pc = p, !.batch = {d}, !.id = d, !.given = n]
  <2>1. /\ r \in Request /\ r.rows = {} /\ r.locked = {} /\ r.number = 0 /\ r.given = n
        /\ r.pc = p /\ r.id = d
    BY DEF Request, Idle, Ids
  <2>2. Rest
    BY <1>3 DEF CreateDirect, TypeOK, Ids
  <2>3. Fresh(r)
    BY <1>3, <2>1 DEF CreateDirect, Prefixes, Ids
  <2> QED
    BY <2>2, <2>3
<1>4. (\E r : Fresh(r)) /\ Rest
  BY <1>1, <1>2, <1>3 DEF Begin
<1> QED
  BY <1>4, RequestType, PlacedStep DEF TypeOK

\* steps that touch neither numbers nor rows
LEMMA NextItemEffect ==
  ASSUME TypeOK, NEW s \in Sessions, NEW e \in Entries, NextItem(s, e)
  PROVE  /\ req' \in [Sessions -> Request] /\ \A q \in Sessions \ {s} : req'[q] = req[q]
         /\ req[s].pc = "item" /\ e \in req[s].todo
         /\ req'[s].pc = "REQ" /\ req'[s].id = e /\ req'[s].todo = req[s].todo \ {e}
         /\ req'[s].rows = req[s].rows /\ req'[s].locked = req[s].locked
         /\ req'[s].value = req[s].value /\ req'[s].number = req[s].number
         /\ req'[s].given = req[s].given /\ req'[s].batch = req[s].batch
<1> DEFINE r == [req[s] EXCEPT !.pc = "REQ", !.id = e, !.todo = @ \ {e}, !.options = "blank"]
<1>1. req[s] \in Request
  BY DEF TypeOK
<1>2. req' = [req EXCEPT ![s] = r] /\ req[s].pc = "item" /\ e \in req[s].todo
  BY DEF NextItem, TypeOK
<1>3. /\ r \in Request
      /\ r.pc = "REQ" /\ r.id = e /\ r.todo = req[s].todo \ {e}
      /\ r.rows = req[s].rows /\ r.locked = req[s].locked
      /\ r.value = req[s].value /\ r.number = req[s].number
      /\ r.given = req[s].given /\ r.batch = req[s].batch
  BY <1>1 DEF Request, Options, Ids, Prefixes
<1> HIDE DEF r
<1> QED
  BY <1>2, <1>3, RequestType

LEMMA OptionsEffect ==
  ASSUME TypeOK, Placed, NEW s \in Sessions, InsertOptions(s)
  PROVE  /\ req' \in [Sessions -> Request] /\ \A q \in Sessions \ {s} : req'[q] = req[q]
         /\ req[s].pc = "options" /\ req[s].id \in Entries
         /\ req'[s].pc \in {"hooks", "SCTASK"}
         /\ req'[s].id = req[s].id /\ req'[s].todo = req[s].todo
         /\ req'[s].rows = req[s].rows /\ req'[s].locked = req[s].locked
         /\ req'[s].value = req[s].value /\ req'[s].number = req[s].number
         /\ req'[s].given = req[s].given /\ req'[s].batch = req[s].batch
<1> DEFINE hooks == HooksOf[req[s].id]
           pc == IF hooks = {} THEN "SCTASK" ELSE "hooks"
           r == [req[s] EXCEPT !.options = "filled", !.hooks = hooks, !.pc = pc]
<1>1. req[s] \in Request
  BY DEF TypeOK
<1>2. /\ req' = [req EXCEPT ![s] = r] /\ req[s].pc = "options"
      /\ req[s].id \in Entries /\ pc \in {"hooks", "SCTASK"}
  BY DEF InsertOptions, TypeOK, Placed
<1>3. hooks \subseteq Hooks
  BY <1>2, OrderAssumption
<1> HIDE DEF hooks, pc
<1>4. /\ r \in Request
      /\ r.pc = pc /\ r.id = req[s].id /\ r.todo = req[s].todo
      /\ r.rows = req[s].rows /\ r.locked = req[s].locked
      /\ r.value = req[s].value /\ r.number = req[s].number
      /\ r.given = req[s].given /\ r.batch = req[s].batch
  BY <1>1, <1>2, <1>3 DEF Request, Options, Prefixes
<1> HIDE DEF r
<1> QED
  BY <1>2, <1>4, RequestType

LEMMA PlusFact ==
  ASSUME NEW S, NEW t \in Tally(S), NEW x \in S
  PROVE  /\ Plus(t, x) \in Tally(S) /\ Plus(t, x)[x] = t[x] + 1
         /\ \A y \in S \ {x} : Plus(t, x)[y] = t[y]
BY DEF Plus, Tally

\* the row of a delivery is written
LEMMA LoggedEffect ==
  ASSUME TypeOK, Placed, NEW s \in Sessions, NEW h \in Hooks, NEW result \in Results,
         req[s].pc = "hooks", h \in req[s].hooks, req' = Logged(s, h, result)
  PROVE  /\ req' \in [Sessions -> Request] /\ \A q \in Sessions \ {s} : req'[q] = req[q]
         /\ req[s].id \in Entries
         /\ req'[s].pc = IF req[s].hooks = {h} THEN "SCTASK" ELSE "hooks"
         /\ req'[s].hooks = req[s].hooks \ {h} /\ req'[s].options = req[s].options
         /\ req'[s].logs = Plus(req[s].logs, <<req[s].id, h, result>>)
         /\ req'[s].id = req[s].id /\ req'[s].todo = req[s].todo
         /\ req'[s].rows = req[s].rows /\ req'[s].locked = req[s].locked
         /\ req'[s].value = req[s].value /\ req'[s].number = req[s].number
         /\ req'[s].given = req[s].given /\ req'[s].batch = req[s].batch
<1> DEFINE l == Plus(req[s].logs, <<req[s].id, h, result>>)
           pc == IF req[s].hooks = {h} THEN "SCTASK" ELSE "hooks"
           r == [req[s] EXCEPT !.hooks = @ \ {h}, !.logs = l, !.pc = pc]
<1>1. req[s] \in Request
  BY DEF TypeOK
<1>2. /\ req' = [req EXCEPT ![s] = r]
      /\ req[s].id \in Entries /\ pc \in {"hooks", "SCTASK"}
  BY DEF Logged, TypeOK, Placed
<1>3. req[s].logs \in Tally(Logs) /\ <<req[s].id, h, result>> \in Logs
  BY <1>1, <1>2 DEF Request, Logs
<1>4. l \in Tally(Logs)
  BY <1>3, PlusFact
<1> HIDE DEF l, pc
<1>5. /\ r \in Request
      /\ r.pc = pc /\ r.id = req[s].id /\ r.todo = req[s].todo
      /\ r.hooks = req[s].hooks \ {h} /\ r.options = req[s].options /\ r.logs = l
      /\ r.rows = req[s].rows /\ r.locked = req[s].locked
      /\ r.value = req[s].value /\ r.number = req[s].number
      /\ r.given = req[s].given /\ r.batch = req[s].batch
  BY <1>1, <1>2, <1>4 DEF Request, Prefixes
<1> HIDE DEF r
<1>6. /\ req' \in [Sessions -> Request] /\ req'[s] = r
      /\ \A q \in Sessions \ {s} : req'[q] = req[q]
  BY <1>2, <1>5, RequestType
<1> QED
  BY <1>2, <1>5, <1>6 DEF l, pc

\* a webhook is called or not, and its row is written
LEMMA DeliverEffect ==
  ASSUME TypeOK, Placed, NEW s \in Sessions, NEW h \in Hooks,
         Skip(s, h) \/ \E result \in Results : Deliver(s, h, result)
  PROVE  /\ req' \in [Sessions -> Request] /\ \A q \in Sessions \ {s} : req'[q] = req[q]
         /\ posts' \in Tally(Calls)
         /\ UNCHANGED <<last, table, log, cart, used, lost, batches>>
         /\ req[s].pc = "hooks" /\ req[s].id \in Entries
         /\ req'[s].pc \in {"hooks", "SCTASK"}
         /\ req'[s].id = req[s].id /\ req'[s].todo = req[s].todo
         /\ req'[s].rows = req[s].rows /\ req'[s].locked = req[s].locked
         /\ req'[s].value = req[s].value /\ req'[s].number = req[s].number
         /\ req'[s].given = req[s].given /\ req'[s].batch = req[s].batch
<1>1. ASSUME NEW result \in Results, Deliver(s, h, result)
      PROVE  posts' \in Tally(Calls) /\ req' = Logged(s, h, result)
  <2>1. <<req[s].id, h, req[s].options>> \in Calls
    BY <1>1 DEF Deliver, TypeOK, Placed, Request, Calls
  <2> QED
    BY <1>1, <2>1, PlusFact DEF Deliver, TypeOK
<1>2. ASSUME Skip(s, h)
      PROVE  posts' \in Tally(Calls) /\ req' = Logged(s, h, "error")
  BY <1>2 DEF Skip, history, TypeOK
<1>3. /\ req[s].pc = "hooks" /\ h \in req[s].hooks
      /\ UNCHANGED <<last, table, log, cart, used, lost, batches>>
  BY DEF Skip, Deliver, history
<1>4. PICK result \in Results : req' = Logged(s, h, result)
  BY <1>1, <1>2 DEF Results
<1> QED
  BY <1>1, <1>2, <1>3, <1>4, LoggedEffect

LEMMA TakeEffect ==
  ASSUME TypeOK, NEW s \in Sessions, TakeNumber(s)
  PROVE  LET p == req[s].pc
             n == Counter(s, p) + 1
         IN  /\ req' \in [Sessions -> Request] /\ \A q \in Sessions \ {s} : req'[q] = req[q]
             /\ p \in Prefixes /\ n \in Nat /\ req[s].number = 0
             /\ \A q \in Sessions \ {s} : p \notin req[q].locked
             /\ req'[s].pc = p /\ req'[s].id = req[s].id /\ req'[s].todo = req[s].todo
             /\ req'[s].rows = req[s].rows /\ req'[s].locked = req[s].locked \cup {p}
             /\ req'[s].value = [req[s].value EXCEPT ![p] = n]
             /\ req'[s].number = IF req[s].given = 0 THEN n ELSE req[s].given
             /\ req'[s].given = req[s].given /\ req'[s].batch = req[s].batch
<1> DEFINE p == req[s].pc
           n == Counter(s, p) + 1
           m == IF req[s].given = 0 THEN n ELSE req[s].given
           r == [req[s] EXCEPT !.locked = @ \cup {p}, !.value = [@ EXCEPT ![p] = n], !.number = m]
<1>1. req[s] \in Request
  BY DEF TypeOK
<1>2. /\ req' = [req EXCEPT ![s] = r] /\ p \in Prefixes /\ req[s].number = 0
      /\ \A q \in Sessions \ {s} : p \notin req[q].locked
  BY DEF TakeNumber, TypeOK
<1>3. n \in Nat
  BY <1>1, <1>2 DEF Counter, TypeOK, Request
<1> HIDE DEF n
<1>4. m \in Nat
  BY <1>1, <1>3 DEF Request
<1>5. [req[s].value EXCEPT ![p] = n] \in [Prefixes -> Nat]
  BY <1>1, <1>3 DEF Request
<1> HIDE DEF m
<1>6. /\ r \in Request
      /\ r.pc = p /\ r.id = req[s].id /\ r.todo = req[s].todo
      /\ r.rows = req[s].rows /\ r.locked = req[s].locked \cup {p}
      /\ r.value = [req[s].value EXCEPT ![p] = n] /\ r.number = m
      /\ r.given = req[s].given /\ r.batch = req[s].batch
  BY <1>1, <1>2, <1>4, <1>5 DEF Request
<1>7. /\ req' \in [Sessions -> Request] /\ \A q \in Sessions \ {s} : req'[q] = req[q]
      /\ req'[s] = r
  BY <1>2, <1>6, RequestType
<1> QED
  BY <1>2, <1>3, <1>6, <1>7 DEF n, m

LEMMA InsertEffect ==
  ASSUME TypeOK, Placed, NEW s \in Sessions, InsertRow(s)
  PROVE  LET p == req[s].pc
         IN  /\ req' \in [Sessions -> Request] /\ \A q \in Sessions \ {s} : req'[q] = req[q]
             /\ p \in Prefixes /\ req[s].number # 0 /\ req[s].id \in Ids
             /\ req'[s].pc = After(req[s]) /\ req'[s].id = req[s].id /\ req'[s].todo = req[s].todo
             /\ req'[s].rows = req[s].rows \cup {<<p, req[s].number, req[s].id>>}
             /\ req'[s].locked = req[s].locked
             /\ req'[s].value = req[s].value /\ req'[s].number = 0
             /\ req'[s].given = req[s].given /\ req'[s].batch = req[s].batch
<1> DEFINE p == req[s].pc
           x == <<p, req[s].number, req[s].id>>
           pc == After(req[s])
           r == [req[s] EXCEPT !.rows = @ \cup {x}, !.number = 0, !.pc = pc]
<1>1. req[s] \in Request
  BY DEF TypeOK
<1>2. /\ req' = [req EXCEPT ![s] = r] /\ p \in Prefixes /\ req[s].number # 0
      /\ req[s].id \in Ids
  BY DEF InsertRow, TypeOK, Placed
<1>3. x \in Prefixes \X Nat \X Ids
  BY <1>1, <1>2 DEF Request
<1>4. pc \in {"options", "item", "commit", "RITM"}
  BY <1>2 DEF After, Prefixes
<1> HIDE DEF x, pc
<1>5. /\ r \in Request
      /\ r.pc = pc /\ r.id = req[s].id /\ r.todo = req[s].todo
      /\ r.rows = req[s].rows \cup {x} /\ r.locked = req[s].locked
      /\ r.value = req[s].value /\ r.number = 0
      /\ r.given = req[s].given /\ r.batch = req[s].batch
  BY <1>1, <1>3, <1>4 DEF Request, Prefixes
<1>6. /\ req' \in [Sessions -> Request] /\ \A q \in Sessions \ {s} : req'[q] = req[q]
      /\ req'[s] = r
  BY <1>2, <1>5, RequestType
<1> QED
  BY <1>2, <1>5, <1>6 DEF x, pc

LEMMA OverEffect ==
  ASSUME TypeOK, NEW s \in Sessions, Fail(s) \/ Commit(s)
  PROVE  /\ req' \in [Sessions -> Request] /\ \A q \in Sessions \ {s} : req'[q] = req[q]
         /\ req'[s] = Idle
BY IdleType DEF Fail, Commit, TypeOK

LEMMA CommitType ==
  ASSUME TypeOK, NEW s \in Sessions, Commit(s)
  PROVE  /\ last' \in [Prefixes -> Nat]
         /\ table' = table \cup req[s].rows /\ table' \subseteq Prefixes \X Nat \X Ids
         /\ log' \in Tally(Logs)
<1>1. req[s] \in Request
  BY DEF TypeOK
<1>2. \A p \in Prefixes : Counter(s, p) \in Nat
  BY <1>1 DEF Counter, TypeOK, Request
<1>3. log' \in Tally(Logs)
  BY <1>1 DEF Commit, TypeOK, Request, Tally
<1> QED
  BY <1>1, <1>2, <1>3 DEF Commit, TypeOK, Request

-----------------------------------------------------------------------------
(***************************************************************************)
(* Types.                                                                  *)
(***************************************************************************)

LEMMA TypeInit == Init => TypeOK /\ Placed
BY IdleType, NoneOfType DEF Init, TypeOK, Placed, Prefixes, Ids, Idle

LEMMA TypeNext == TypeOK /\ Placed /\ [Next]_vars => TypeOK' /\ Placed'
<1> SUFFICES ASSUME TypeOK, Placed, [Next]_vars
             PROVE  TypeOK' /\ Placed'
  OBVIOUS
<1>1. ASSUME NEW u \in Users, NEW e \in Entries, AddToCart(u, e)
      PROVE  TypeOK' /\ Placed'
  BY <1>1 DEF AddToCart, TypeOK, Placed, Ids
<1>2. ASSUME NEW s \in Sessions, Begin(s)
      PROVE  TypeOK' /\ Placed'
  BY <1>2, BeginEffect
<1>3. ASSUME NEW s \in Sessions, NEW e \in Entries, NextItem(s, e)
      PROVE  TypeOK' /\ Placed'
  <2>1. UNCHANGED <<last, table, log, cart, used, lost, batches, posts>>
    BY <1>3 DEF NextItem, history
  <2>2. Placed'
    BY <1>3, NextItemEffect, PlacedStep DEF Ids
  <2> QED
    BY <1>3, <2>1, <2>2, NextItemEffect DEF TypeOK
<1>4. ASSUME NEW s \in Sessions, TakeNumber(s)
      PROVE  TypeOK' /\ Placed'
  <2>1. UNCHANGED <<last, table, log, cart, used, lost, batches, posts>>
    BY <1>4 DEF TakeNumber, history
  <2>2. Placed'
    BY <1>4, TakeEffect DEF Placed
  <2> QED
    BY <1>4, <2>1, <2>2, TakeEffect DEF TypeOK
<1>5. ASSUME NEW s \in Sessions, InsertRow(s)
      PROVE  TypeOK' /\ Placed'
  <2>1. UNCHANGED <<last, table, log, cart, used, lost, batches, posts>>
    BY <1>5 DEF InsertRow, history
  <2>2. req'[s].pc \in {"options", "hooks"} => req[s].id \in Entries
    BY <1>5, InsertEffect, OrderAssumption DEF After, Prefixes, Ids
  <2>3. Placed'
    BY <1>5, <2>2, InsertEffect, PlacedStep
  <2> QED
    BY <1>5, <2>1, <2>3, InsertEffect DEF TypeOK
<1>6. ASSUME NEW s \in Sessions, InsertOptions(s)
      PROVE  TypeOK' /\ Placed'
  <2>1. UNCHANGED <<last, table, log, cart, used, lost, batches, posts>>
    BY <1>6 DEF InsertOptions, history
  <2>2. Placed'
    BY <1>6, OptionsEffect, PlacedStep DEF Ids
  <2> QED
    BY <1>6, <2>1, <2>2, OptionsEffect DEF TypeOK
<1>7. ASSUME NEW s \in Sessions, NEW h \in Hooks,
             Skip(s, h) \/ \E result \in Results : Deliver(s, h, result)
      PROVE  TypeOK' /\ Placed'
  <2>1. Placed'
    BY <1>7, DeliverEffect, PlacedStep DEF Prefixes, Ids
  <2> QED
    BY <1>7, <2>1, DeliverEffect DEF TypeOK
<1>8. ASSUME NEW s \in Sessions, Commit(s)
      PROVE  TypeOK' /\ Placed'
  <2>1. UNCHANGED <<cart, used, lost, batches, posts>>
    BY <1>8 DEF Commit, history
  <2>2. Placed'
    BY <1>8, OverEffect, IdleType DEF Placed, Prefixes
  <2> QED
    BY <1>8, <2>1, <2>2, OverEffect, CommitType DEF TypeOK
<1>9. ASSUME NEW s \in Sessions, Fail(s)
      PROVE  TypeOK' /\ Placed'
  <2>1. UNCHANGED <<last, table, log, cart, used, batches, posts>> /\ lost' \subseteq Ids
    BY <1>9 DEF Fail, TypeOK, Request
  <2>2. Placed'
    BY <1>9, OverEffect, IdleType DEF Placed, Prefixes
  <2> QED
    BY <1>9, <2>1, <2>2, OverEffect DEF TypeOK
<1>10. CASE Restart
  <2>1. /\ UNCHANGED <<last, table, log, used, batches, posts>>
        /\ req' \in [Sessions -> Request] /\ cart' \in [Users -> SUBSET Entries]
        /\ lost' \subseteq Ids
    <3> DEFINE A == UNION {cart[u] : u \in Users}
               B == UNION {req[s].batch : s \in Sessions}
    <3>1. \A s \in Sessions : req[s].batch \subseteq Ids
      BY DEF TypeOK, Request
    <3>2. \A u \in Users : cart[u] \subseteq Ids
      BY DEF TypeOK, Ids
    <3>3. A \subseteq Ids
      BY <3>2
    <3>4. B \subseteq Ids
      BY <3>1
    <3>5. lost' = lost \cup A \cup B
      BY <1>10 DEF Restart
    <3> HIDE DEF A, B
    <3>6. lost' \subseteq Ids
      BY <3>3, <3>4, <3>5 DEF TypeOK
    <3> QED
      BY <1>10, <3>6, IdleType DEF Restart, TypeOK
  <2>2. Placed'
    BY <1>10, IdleType DEF Restart, Placed, Prefixes
  <2> QED
    BY <2>1, <2>2 DEF TypeOK
<1>11. CASE UNCHANGED vars
  BY <1>11 DEF vars, history, TypeOK, Placed
<1> QED
  BY <1>1, <1>2, <1>3, <1>4, <1>5, <1>6, <1>7, <1>8, <1>9, <1>10, <1>11
     DEF Next, Advance, Collide

\* The state of the counters, carts and requests keeps its type, whatever
\* numbers clients bring along.
THEOREM TypeCorrect == Spec => []TypeOK
<1>1. TypeOK /\ Placed /\ [Next]_vars => (TypeOK /\ Placed)'
  BY TypeNext
<1> QED
  BY TypeInit, <1>1, PTL DEF Spec

-----------------------------------------------------------------------------
(***************************************************************************)
(* Numbers, when no client brings its own.                                 *)
(***************************************************************************)

LEMMA RowsOfAdd ==
  ASSUME NEW rows, NEW x
  PROVE  /\ RowsOf(rows \cup {x}, x[1]) = RowsOf(rows, x[1]) \cup {x[2]}
         /\ \A q : q # x[1] => RowsOf(rows \cup {x}, q) = RowsOf(rows, q)
<1>1. \A q : {y \in rows \cup {x} : y[1] = q} =
                {y \in rows : y[1] = q} \cup (IF q = x[1] THEN {x} ELSE {})
  OBVIOUS
<1> QED
  BY <1>1 DEF RowsOf

\* intervals
LEMMA Extend ==
  ASSUME NEW a \in Nat, NEW b \in Nat, b > a
  PROVE  (a + 1 .. b - 1) \cup {b} = a + 1 .. b
OBVIOUS

LEMMA Join ==
  ASSUME NEW a \in Nat, NEW b \in Nat, b >= a
  PROVE  (1 .. a) \cup (a + 1 .. b) = 1 .. b
OBVIOUS

LEMMA RowsOfUnion ==
  ASSUME NEW A, NEW B, NEW p
  PROVE  RowsOf(A \cup B, p) = RowsOf(A, p) \cup RowsOf(B, p)
BY DEF RowsOf

\* a session that steps on without its numbers, locks and rows
LEMMA RunSame ==
  ASSUME NEW s \in Sessions, \A p \in Prefixes : Run(s, p), last' = last,
         req'[s].rows = req[s].rows, req'[s].locked = req[s].locked,
         req'[s].value = req[s].value, req'[s].number = req[s].number,
         req'[s].pc = req[s].pc \/ req[s].number = 0
  PROVE  \A p \in Prefixes : Run(s, p)'
BY DEF Run, Taken

LEMMA RunOver ==
  ASSUME NEW s \in Sessions,
         req'[s].rows = {}, req'[s].locked = {}, req'[s].number = 0
  PROVE  \A p \in Prefixes : Run(s, p)'
BY DEF Run, Taken, RowsOf

LEMMA TakeRun ==
  ASSUME NInv, NEW s \in Sessions, TakeNumber(s)
  PROVE  \A p \in Prefixes : Run(s, p)'
<1> SUFFICES ASSUME NEW p \in Prefixes PROVE Run(s, p)'
  OBVIOUS
<1> DEFINE n == Counter(s, req[s].pc) + 1
<1>1. TypeOK /\ Run(s, p) /\ req[s].given = 0 /\ req[s] \in Request
  BY DEF NInv, TypeOK
<1>2. /\ req[s].pc \in Prefixes /\ n \in Nat /\ req[s].number = 0
      /\ req'[s].pc = req[s].pc
      /\ req'[s].rows = req[s].rows /\ req'[s].locked = req[s].locked \cup {req[s].pc}
      /\ req'[s].value = [req[s].value EXCEPT ![req[s].pc] = n]
      /\ req'[s].number = n
      /\ last' = last /\ last[p] \in Nat
  BY <1>1, TakeEffect DEF TakeNumber, TypeOK
<1>3. req[s].value \in [Prefixes -> Nat]
  BY <1>1 DEF Request
<1>4. CASE p # req[s].pc
  BY <1>1, <1>2, <1>3, <1>4 DEF Run, Taken
<1>5. CASE p = req[s].pc /\ p \in req[s].locked
  <2>1. n = req[s].value[p] + 1 /\ req'[s].value[p] = n
    BY <1>2, <1>3, <1>5 DEF Counter
  <2> QED
    BY <1>1, <1>2, <1>3, <1>5, <2>1 DEF Run, Taken
<1>6. CASE p = req[s].pc /\ p \notin req[s].locked
  <2>1. n = last[p] + 1 /\ req'[s].value[p] = n
    BY <1>2, <1>3, <1>6 DEF Counter
  <2>2. last[p] + 1 .. req'[s].value[p] - 1 = {} /\ req'[s].value[p] > last[p]
    BY <1>2, <2>1
  <2>3. RowsOf(req'[s].rows, p) = {} /\ Taken(req'[s], p) /\ p \in req'[s].locked
    BY <1>1, <1>2, <1>6, <2>1 DEF Run, Taken
  <2>4. req'[s].number = req'[s].value[p]
    BY <1>2, <2>1
  <2> HIDE DEF n
  <2> QED
    BY <1>2, <2>2, <2>3, <2>4 DEF Run
<1> QED
  BY <1>4, <1>5, <1>6

LEMMA InsertRun ==
  ASSUME NInv, NEW s \in Sessions, InsertRow(s)
  PROVE  \A p \in Prefixes : Run(s, p)'
<1> SUFFICES ASSUME NEW p \in Prefixes PROVE Run(s, p)'
  OBVIOUS
<1>1. TypeOK /\ Placed /\ Run(s, p) /\ req[s] \in Request
  BY DEF NInv, TypeOK
<1>2. /\ req[s].pc \in Prefixes /\ req[s].number # 0
      /\ req'[s].rows = req[s].rows \cup {<<req[s].pc, req[s].number, req[s].id>>}
      /\ req'[s].locked = req[s].locked /\ req[s].id \in Ids
      /\ req'[s].value = req[s].value /\ req'[s].number = 0
      /\ last' = last /\ last[p] \in Nat
  BY <1>1, InsertEffect DEF InsertRow, TypeOK
<1>3. /\ req[s].value \in [Prefixes -> Nat] /\ req[s].number \in Nat
      /\ req[s].rows \in SUBSET (Prefixes \X Nat \X Ids)
  BY <1>1 DEF Request
<1> DEFINE x == <<req[s].pc, req[s].number, req[s].id>>
<1>6. /\ RowsOf(req[s].rows \cup {x}, req[s].pc) = RowsOf(req[s].rows, req[s].pc) \cup {req[s].number}
      /\ \A q \in Prefixes \ {req[s].pc} : RowsOf(req[s].rows \cup {x}, q) = RowsOf(req[s].rows, q)
  <2>1. x[1] = req[s].pc /\ x[2] = req[s].number
    OBVIOUS
  <2> HIDE DEF x
  <2> QED
    BY <2>1, RowsOfAdd
<1> HIDE DEF x
<1>7. req'[s].rows = req[s].rows \cup {x}
  BY <1>2 DEF x
<1>4. CASE p # req[s].pc
  <2>1. RowsOf(req'[s].rows, p) = RowsOf(req[s].rows, p)
    BY <1>4, <1>6, <1>7
  <2> QED
    BY <1>1, <1>2, <1>4, <2>1 DEF Run, Taken
<1>5. CASE p = req[s].pc
  <2>1. RowsOf(req'[s].rows, p) = RowsOf(req[s].rows, p) \cup {req[s].number}
    BY <1>5, <1>6, <1>7
  <2>2. /\ p \in req[s].locked /\ req[s].value[p] > last[p]
        /\ req[s].number = req[s].value[p]
        /\ RowsOf(req[s].rows, p) = last[p] + 1 .. req[s].value[p] - 1
    BY <1>1, <1>2, <1>5 DEF Run, Taken
  <2>3. RowsOf(req'[s].rows, p) = last[p] + 1 .. req[s].value[p]
    <3>1. req[s].value[p] \in Nat
      BY <1>3
    <3>2. (last[p] + 1 .. req[s].value[p] - 1) \cup {req[s].value[p]} = last[p] + 1 .. req[s].value[p]
      BY <1>2, <2>2, <3>1, Extend
    <3> QED
      BY <2>1, <2>2, <3>2
  <2> QED
    BY <1>2, <2>2, <2>3 DEF Run, Taken
<1> QED
  BY <1>4, <1>5

\* a commit adds the session's run to the committed numbers; nobody else
\* holds the counters it moves
LEMMA CommitNumbers ==
  ASSUME NInv, NEW s \in Sessions, Commit(s)
  PROVE  /\ \A p \in Prefixes : /\ last'[p] \in Nat /\ last'[p] >= last[p]
                                /\ Committed(p)' = Committed(p) \cup (last[p] + 1 .. last'[p])
                                /\ Committed(p)' = 1 .. last'[p]
         /\ \A q \in Sessions, p \in Prefixes : Run(q, p)'
<1>1. TypeOK /\ req[s] \in Request /\ (\A q \in Sessions, p \in Prefixes : Run(q, p))
  BY DEF NInv, TypeOK
<1>2. /\ req'[s] = Idle /\ \A q \in Sessions \ {s} : req'[q] = req[q]
      /\ table' = table \cup req[s].rows
      /\ req[s].pc = "commit"
      /\ \A p \in Prefixes : last'[p] = Counter(s, p)
      /\ \A p \in Prefixes : last[p] \in Nat
  BY <1>1, OverEffect, CommitType DEF Commit, TypeOK
<1>3. req[s].number = 0 /\ req[s].value \in [Prefixes -> Nat]
  BY <1>1, <1>2 DEF NInv, Prefixes, Request
<1>4. ASSUME NEW p \in Prefixes
      PROVE  /\ last'[p] \in Nat /\ last'[p] >= last[p]
             /\ Committed(p)' = Committed(p) \cup (last[p] + 1 .. last'[p])
             /\ p \in req[s].locked \/ last'[p] = last[p]
  <2>1. Committed(p)' = Committed(p) \cup RowsOf(req[s].rows, p)
    BY <1>2, RowsOfUnion DEF Committed
  <2>2. CASE p \in req[s].locked
    BY <1>1, <1>2, <1>3, <2>1, <2>2 DEF Run, Taken, Counter
  <2>3. CASE p \notin req[s].locked
    <3>1. last'[p] = last[p] /\ last[p] + 1 .. last'[p] = {}
      BY <1>2, <2>3 DEF Counter
    <3>2. RowsOf(req[s].rows, p) = {}
      BY <1>1, <2>3 DEF Run
    <3>3. Committed(p)' = Committed(p) \cup (last[p] + 1 .. last'[p])
      BY <2>1, <3>1, <3>2
    <3> QED
      BY <1>2, <3>1, <3>3
  <2> QED
    BY <2>2, <2>3
<1>5. \A p \in Prefixes : Committed(p)' = 1 .. last'[p]
  <2> SUFFICES ASSUME NEW p \in Prefixes PROVE Committed(p)' = 1 .. last'[p]
    OBVIOUS
  <2>1. Committed(p) = 1 .. last[p]
    BY DEF NInv
  <2> QED
    BY <1>2, <1>4, <2>1, Join
<1>6. ASSUME NEW q \in Sessions, NEW p \in Prefixes
      PROVE  Run(q, p)'
  <2>1. CASE q = s
    BY <1>2, <2>1, IdleType, RunOver
  <2>2. CASE q # s /\ p \in req[s].locked
    <3>1. p \notin req[q].locked
      BY <2>2 DEF NInv
    <3> QED
      BY <1>1, <1>2, <2>2, <3>1 DEF Run
  <2>3. CASE q # s /\ p \notin req[s].locked
    <3>1. last'[p] = last[p]
      BY <1>4, <2>3
    <3> QED
      BY <1>1, <1>2, <2>3, <3>1 DEF Run
  <2> QED
    BY <2>1, <2>2, <2>3
<1> QED
  BY <1>4, <1>5, <1>6

LEMMA NumbersInit ==
  ASSUME Init PROVE NInv
<1>1. TypeOK /\ Placed
  BY TypeInit
<1>2. \A s \in Sessions : req[s].given = 0 /\ req[s].number = 0 /\ req[s].locked = {} /\ req[s].rows = {}
  BY IdleType DEF Init
<1>3. \A p \in Prefixes : Committed(p) = 1 .. last[p]
  BY DEF Init, Committed, RowsOf
<1>4. \A s \in Sessions, p \in Prefixes : Run(s, p)
  BY <1>2 DEF Run, Taken, RowsOf
<1> QED
  BY <1>1, <1>2, <1>3, <1>4 DEF NInv

\* a step of session s that leaves the committed rows alone
LEMMA SessionStep ==
  ASSUME NInv, NEW s \in Sessions, TypeOK', Placed', UNCHANGED <<last, table>>,
         \A q \in Sessions \ {s} : req'[q] = req[q],
         req'[s].given = 0,
         req'[s].number # 0 => req'[s].pc \in Prefixes,
         \A q \in Sessions \ {s} : req'[s].locked \cap req[q].locked = {},
         \A p \in Prefixes : Run(s, p)'
  PROVE  NInv'
<1>1. \A p \in Prefixes : Committed(p)' = 1 .. last'[p]
  BY DEF NInv, Committed
<1>2. \A q \in Sessions, p \in Prefixes : Run(q, p)'
  <2> SUFFICES ASSUME NEW q \in Sessions \ {s}, NEW p \in Prefixes PROVE Run(q, p)'
    OBVIOUS
  <2>1. Run(q, p) /\ req'[q] = req[q] /\ last' = last
    BY DEF NInv
  <2> QED
    BY <2>1 DEF Run
<1>3. \A q1, q2 \in Sessions : q1 # q2 => req'[q1].locked \cap req'[q2].locked = {}
  BY DEF NInv
<1>4. \A q \in Sessions : req'[q].given = 0 /\ (req'[q].number # 0 => req'[q].pc \in Prefixes)
  BY DEF NInv
<1> QED
  BY <1>1, <1>2, <1>3, <1>4 DEF NInv

LEMMA NumbersNext ==
  ASSUME ClientNumbers = {}
  PROVE  NInv /\ [Next]_vars => NInv'
<1> SUFFICES ASSUME NInv, [Next]_vars
             PROVE  NInv'
  OBVIOUS
<1> USE DEF NInv
<1>0. TypeOK /\ Placed /\ TypeOK' /\ Placed'
  BY TypeNext
<1>1. CASE \/ UNCHANGED vars
           \/ \E u \in Users, e \in Entries : AddToCart(u, e)
  <2>1. UNCHANGED <<last, table, req>>
    BY <1>1 DEF vars, AddToCart
  <2> QED
    BY <1>0, <2>1 DEF Run, Committed
<1>2. ASSUME NEW s \in Sessions, Begin(s)
      PROVE  NInv'
  <2>1. \A p \in Prefixes : Run(s, p)'
    BY <1>0, <1>2, BeginEffect, RunOver
  <2> HIDE DEF NInv
  <2> QED
    BY <1>0, <1>2, <2>1, BeginEffect, SessionStep
<1>3. ASSUME NEW s \in Sessions,
             \/ \E e \in Entries : NextItem(s, e)
             \/ InsertOptions(s)
             \/ \E h \in Hooks : Skip(s, h) \/ \E result \in Results : Deliver(s, h, result)
      PROVE  NInv'
  <2>1. /\ UNCHANGED <<last, table>> /\ \A q \in Sessions \ {s} : req'[q] = req[q]
        /\ req[s].pc \in {"item", "options", "hooks"}
        /\ req'[s].rows = req[s].rows /\ req'[s].locked = req[s].locked
        /\ req'[s].value = req[s].value /\ req'[s].number = req[s].number
        /\ req'[s].given = req[s].given
    BY <1>0, <1>3, NextItemEffect, OptionsEffect, DeliverEffect DEF NextItem, InsertOptions
  <2>2. req[s].number = 0 /\ \A q \in Sessions \ {s} : req[s].locked \cap req[q].locked = {}
    BY <2>1 DEF Prefixes
  <2>3. \A p \in Prefixes : Run(s, p)'
    BY <2>1, <2>2, RunSame
  <2>4. req[s].given = 0
    OBVIOUS
  <2> HIDE DEF NInv
  <2> QED
    BY <1>0, <2>1, <2>2, <2>3, <2>4, SessionStep
<1>4. ASSUME NEW s \in Sessions, TakeNumber(s)
      PROVE  NInv'
  <2>1. /\ UNCHANGED <<last, table>> /\ \A q \in Sessions \ {s} : req'[q] = req[q]
        /\ req[s].pc \in Prefixes /\ req'[s].pc = req[s].pc
        /\ req'[s].locked = req[s].locked \cup {req[s].pc}
        /\ \A q \in Sessions \ {s} : req[s].pc \notin req[q].locked
        /\ req'[s].given = 0
    BY <1>0, <1>4, TakeEffect DEF TakeNumber
  <2>2. \A q \in Sessions \ {s} : req'[s].locked \cap req[q].locked = {}
    BY <2>1
  <2>3. \A p \in Prefixes : Run(s, p)'
    BY <1>4, TakeRun
  <2> HIDE DEF NInv
  <2> QED
    BY <1>0, <2>1, <2>2, <2>3, SessionStep
<1>5. ASSUME NEW s \in Sessions, InsertRow(s)
      PROVE  NInv'
  <2>1. /\ UNCHANGED <<last, table>> /\ \A q \in Sessions \ {s} : req'[q] = req[q]
        /\ req'[s].locked = req[s].locked /\ req'[s].number = 0 /\ req'[s].given = 0
    BY <1>0, <1>5, InsertEffect DEF InsertRow
  <2>2. \A q \in Sessions \ {s} : req[s].locked \cap req[q].locked = {}
    OBVIOUS
  <2>3. \A p \in Prefixes : Run(s, p)'
    BY <1>5, InsertRun
  <2> HIDE DEF NInv
  <2> QED
    BY <1>0, <2>1, <2>2, <2>3, SessionStep
<1>6. ASSUME NEW s \in Sessions, Fail(s)
      PROVE  NInv'
  <2>1. /\ UNCHANGED <<last, table>> /\ \A q \in Sessions \ {s} : req'[q] = req[q]
        /\ req'[s] = Idle
    BY <1>0, <1>6, OverEffect DEF Fail
  <2>2. \A p \in Prefixes : Run(s, p)'
    BY <2>1, IdleType, RunOver
  <2> HIDE DEF NInv
  <2> QED
    BY <1>0, <2>1, <2>2, IdleType, SessionStep
<1>7. ASSUME NEW s \in Sessions, Commit(s)
      PROVE  NInv'
  <2>1. (\A q \in Sessions \ {s} : req'[q] = req[q]) /\ req'[s] = Idle
    BY <1>0, <1>7, OverEffect
  <2>2. /\ \A p \in Prefixes : Committed(p)' = 1 .. last'[p]
        /\ \A q \in Sessions, p \in Prefixes : Run(q, p)'
    BY <1>7, CommitNumbers
  <2> QED
    BY <1>0, <2>1, <2>2, IdleType
<1>8. CASE Restart
  <2>1. UNCHANGED <<last, table>> /\ \A s \in Sessions : req'[s] = Idle
    BY <1>8 DEF Restart
  <2>2. \A s \in Sessions, p \in Prefixes : Run(s, p)'
    BY <2>1, IdleType, RunOver
  <2> QED
    BY <1>0, <2>1, <2>2, IdleType DEF Committed
<1> QED
  BY <1>1, <1>2, <1>3, <1>4, <1>5, <1>6, <1>7, <1>8 DEF Next, Advance, Collide

LEMMA NumbersInvariant ==
  ASSUME ClientNumbers = {}
  PROVE  Spec => []NInv
<1>1. Init => NInv
  BY NumbersInit
<1>2. NInv /\ [Next]_vars => NInv'
  BY NumbersNext
<1> QED
  BY <1>1, <1>2, PTL DEF Spec

\* next_number: while no client brings its own number, the number a request
\* has taken stays free until its row is inserted.
THEOREM NumbersFree ==
  ASSUME ClientNumbers = {}
  PROVE  Spec => []NumberIsFree
<1>1. NInv => NumberIsFree
  <2> SUFFICES ASSUME NInv, NEW s \in Sessions, req[s].number # 0
               PROVE  req[s].number \notin Committed(req[s].pc)
    BY DEF NumberIsFree
  <2> DEFINE p == req[s].pc
  <2>1. p \in Prefixes /\ Run(s, p) /\ Committed(p) = 1 .. last[p]
    BY DEF NInv
  <2>2. req[s].number = req[s].value[p] /\ req[s].value[p] > last[p]
    BY <2>1 DEF Run, Taken
  <2>3. req[s].value[p] \in Nat /\ last[p] \in Nat
    BY <2>1 DEF NInv, TypeOK, Request
  <2> QED
    BY <2>1, <2>2, <2>3
<1> QED
  BY <1>1, NumbersInvariant, PTL

\* next_number and the rollback of get_db: while no client brings its own
\* number, the committed numbers of every table grow by the next ones in turn
\* and have no gap, as Numbering says.
THEOREM NumbersWithoutGaps ==
  ASSUME ClientNumbers = {}
  PROVE  Spec => NumbersIssued
<1>1. Init => N!Init
  BY DEF Init, N!Init, Committed, RowsOf
<1>2. NInv /\ [Next]_vars => [N!Issue]_(N!vars)
  <2> SUFFICES ASSUME NInv, [Next]_vars
               PROVE  [N!Issue]_(N!vars)
    OBVIOUS
  <2>1. ASSUME NEW s \in Sessions, Commit(s)
        PROVE  N!Issue
    <3>1. \A p \in Prefixes : /\ last'[p] \in Nat /\ last'[p] >= last[p]
                              /\ Committed(p)' = Committed(p) \cup (last[p] + 1 .. last'[p])
      BY <2>1, CommitNumbers
    <3>2. last' = [p \in Prefixes |-> last'[p]]
      BY <2>1 DEF Commit
    <3> QED
      BY <3>1, <3>2 DEF N!Issue
  <2>2. UNCHANGED <<last, table>> \/ \E s \in Sessions : Commit(s)
    <3>1. ASSUME NEW s \in Sessions, Begin(s) \/ Fail(s)
          PROVE  UNCHANGED <<last, table>>
      BY <3>1 DEF Begin, Submit, OrderNow, CreateDirect, Fail
    <3>2. ASSUME NEW s \in Sessions, Advance(s)
          PROVE  UNCHANGED <<last, table>> \/ Commit(s)
      BY <3>2 DEF Advance, NextItem, TakeNumber, InsertRow, InsertOptions, Skip, Deliver, Collide, Fail
    <3>3. ASSUME UNCHANGED vars \/ Restart \/ \E u \in Users, e \in Entries : AddToCart(u, e)
          PROVE  UNCHANGED <<last, table>>
      BY <3>3 DEF vars, Restart, AddToCart
    <3> QED
      BY <3>1, <3>2, <3>3 DEF Next
  <2>3. CASE UNCHANGED <<last, table>>
    BY <2>3 DEF N!vars, Committed
  <2> QED
    BY <2>1, <2>2, <2>3
<1> QED
  BY <1>1, <1>2, NumbersInvariant, PTL DEF Spec, NumbersIssued, N!Spec
-----------------------------------------------------------------------------
(***************************************************************************)
(* Whole orders, once each, and none forgotten: whatever numbers clients   *)
(* bring along.                                                            *)
(***************************************************************************)

Has(rows, p, i) == \E t \in rows : t[1] = p /\ t[3] = i

Once(rows) == \A x, y \in rows : (x[1] = y[1] /\ x[3] = y[3]) => x = y

\* the records of an entry that are inserted when its request is at pc
Behind(pc) ==
  CASE pc = "REQ" -> {}
    [] pc = "RITM" -> {"REQ"}
    [] pc \in {"options", "hooks", "SCTASK"} -> {"REQ", "RITM"}
    [] OTHER -> Prefixes

\* an order: entries that are not to come have all their records, but for the
\* one in hand, which has those behind it
Order(r) ==
  /\ r.batch \subseteq Entries
  /\ r.pc \notin {"idle", "item", "commit"} => r.id \in r.batch \ r.todo
  /\ r.pc \in {"idle", "commit"} => r.todo = {}
  /\ \A p \in Prefixes, i \in Ids : Has(r.rows, p, i) <=> i \in r.batch \ r.todo /\ (p \in Behind(r.pc) \/ i # r.id)

\* a create: one record, inserted or not
Create(r) ==
  /\ r.id \in Directs /\ r.batch = {r.id} /\ r.todo = {}
  /\ r.pc \in Prefixes \cup {"commit"}
  /\ r.pc \in Prefixes => r.rows = {}
  /\ \A p \in Prefixes, i \in Ids : Has(r.rows, p, i) => i = r.id
  /\ r.pc = "commit" => \E p \in Prefixes : Has(r.rows, p, r.id)

Progress(r) ==
  /\ Once(r.rows)
  /\ r.todo \subseteq r.batch
  /\ r.pc = "idle" => r.batch = {}
  /\ Order(r) \/ Create(r)

LEMMA IdleProgress == Progress(Idle)
BY IdleType DEF Progress, Order, Once, Has

\* a record inserted into a request
LEMMA HasAdd ==
  ASSUME NEW rows, NEW x
  PROVE  \A q, j : Has(rows \cup {x}, q, j) <=> Has(rows, q, j) \/ (q = x[1] /\ j = x[3])
BY DEF Has

LEMMA OnceAdd ==
  ASSUME NEW rows, Once(rows), NEW x, ~ Has(rows, x[1], x[3])
  PROVE  Once(rows \cup {x})
BY DEF Once, Has

LEMMA HasUnion ==
  ASSUME NEW R, NEW S, NEW p, NEW i
  PROVE  Has(R \cup S, p, i) <=> Has(R, p, i) \/ Has(S, p, i)
BY DEF Has

LEMMA OnceUnion ==
  ASSUME NEW R, NEW S, Once(R), Once(S), \A x \in R, y \in S : x[3] # y[3]
  PROVE  Once(R \cup S)
BY DEF Once

-----------------------------------------------------------------------------
\* every step of a request keeps its progress
LEMMA NextItemProgress ==
  ASSUME TypeOK, NEW s \in Sessions, NEW e \in Entries, NextItem(s, e), Progress(req[s])
  PROVE  Progress(req'[s])
<1>1. Order(req[s])
  BY NextItemEffect DEF Progress, Create, Prefixes
<1>2. Behind("item") = Prefixes /\ Behind("REQ") = {}
  BY DEF Behind
<1>3. Order(req'[s])
  BY <1>1, <1>2, NextItemEffect DEF Order, Progress, Ids
<1> QED
  BY <1>3, NextItemEffect DEF Progress

LEMMA TakeProgress ==
  ASSUME TypeOK, NEW s \in Sessions, TakeNumber(s), Progress(req[s])
  PROVE  Progress(req'[s])
<1>1. /\ req'[s].pc = req[s].pc /\ req'[s].id = req[s].id /\ req'[s].todo = req[s].todo
      /\ req'[s].rows = req[s].rows /\ req'[s].batch = req[s].batch
  BY TakeEffect
<1> QED
  BY <1>1 DEF Progress, Order, Create

LEMMA DeliverProgress ==
  ASSUME TypeOK, Placed, NEW s \in Sessions, Progress(req[s]),
         \/ InsertOptions(s)
         \/ \E h \in Hooks : Skip(s, h) \/ \E result \in Results : Deliver(s, h, result)
  PROVE  Progress(req'[s])
<1>1. /\ req[s].pc \in {"options", "hooks"} /\ req'[s].pc \in {"hooks", "SCTASK"}
      /\ req'[s].id = req[s].id /\ req'[s].todo = req[s].todo
      /\ req'[s].rows = req[s].rows /\ req'[s].batch = req[s].batch
  BY OptionsEffect, DeliverEffect
<1>2. Order(req[s])
  BY <1>1 DEF Progress, Create, Prefixes
<1>3. Behind(req'[s].pc) = Behind(req[s].pc)
  BY <1>1 DEF Behind
<1>4. Order(req'[s])
  BY <1>1, <1>2, <1>3 DEF Order
<1> QED
  BY <1>1, <1>4 DEF Progress

LEMMA InsertProgress ==
  ASSUME TypeOK, Placed, NEW s \in Sessions, InsertRow(s), Progress(req[s])
  PROVE  Progress(req'[s])
<1> DEFINE r == req[s]
           t == req'[s]
           x == <<r.pc, r.number, r.id>>
<1>1. /\ r.pc \in Prefixes /\ r.id \in Ids
      /\ t.pc = After(r) /\ t.id = r.id /\ t.todo = r.todo /\ t.batch = r.batch
      /\ t.rows = r.rows \cup {x} /\ x[1] = r.pc /\ x[3] = r.id
  BY InsertEffect
<1> HIDE DEF r, t, x
<1>2. \A q \in Prefixes, j \in Ids : Has(t.rows, q, j) <=> Has(r.rows, q, j) \/ (q = r.pc /\ j = r.id)
  BY <1>1, HasAdd
<1>3. CASE Order(r)
  <2>1. r.id \in r.batch \ r.todo /\ r.id \notin Directs
    BY <1>1, <1>3, OrderAssumption DEF Order, Prefixes
  <2>2. /\ r.pc \notin Behind(r.pc)
        /\ t.pc \in {"RITM", "options", "item", "commit"}
        /\ Behind(t.pc) = Behind(r.pc) \cup {r.pc}
        /\ t.pc = "commit" => r.todo = {}
    BY <1>1, <2>1 DEF After, Behind, Prefixes
  <2>3. ~ Has(r.rows, r.pc, r.id)
    BY <1>1, <1>3, <2>2 DEF Order
  <2>4. \A q \in Prefixes, j \in Ids : Has(t.rows, q, j) <=> j \in t.batch \ t.todo /\ (q \in Behind(t.pc) \/ j # t.id)
    BY <1>1, <1>2, <1>3, <2>1, <2>2 DEF Order
  <2>5. Order(t)
    BY <1>1, <1>3, <2>1, <2>2, <2>4 DEF Order
  <2>6. Once(t.rows)
    BY <1>1, <2>3, OnceAdd DEF Progress, r
  <2> QED
    BY <1>1, <2>2, <2>5, <2>6 DEF Progress, r, t
<1>4. CASE Create(r)
  <2>1. t.pc = "commit" /\ r.rows = {} /\ r.id \in Directs
    BY <1>1, <1>4 DEF Create, After
  <2>2. ~ Has(r.rows, r.pc, r.id) /\ \A q \in Prefixes, j \in Ids : ~ Has(r.rows, q, j)
    BY <2>1 DEF Has
  <2>3. Create(t)
    BY <1>1, <1>2, <1>4, <2>1, <2>2 DEF Create, Prefixes
  <2>4. Once(t.rows)
    BY <1>1, <2>2, OnceAdd DEF Progress, r
  <2> QED
    BY <1>1, <2>1, <2>3, <2>4 DEF Progress, r, t
<1> QED
  BY <1>3, <1>4 DEF Progress, r, t
-----------------------------------------------------------------------------
\* an entry or a create is in one place: in a cart, in a request, or done
Apart ==
  /\ \A s, q \in Sessions : s # q => req[s].batch \cap req[q].batch = {}
  /\ \A u \in Users, s \in Sessions : cart[u] \cap req[s].batch = {}
  /\ \A u, v \in Users : u # v => cart[u] \cap cart[v] = {}
  /\ \A t \in table : /\ t[3] \in used
                      /\ \A u \in Users : t[3] \notin cart[u]
                      /\ \A s \in Sessions : t[3] \notin req[s].batch
  /\ \A u \in Users : cart[u] \subseteq used
  /\ \A s \in Sessions : req[s].batch \subseteq used

\* what was submitted together stays together
Batched ==
  /\ \A B \in batches : B \subseteq used /\ \A u \in Users : B \cap cart[u] = {}
  /\ \A B, C \in batches : B = C \/ B \cap C = {}
  /\ \A s \in Sessions : req[s].batch \subseteq Entries => req[s].batch \in batches \cup {{}}

Whole ==
  \A B \in batches : \/ \A e \in B, p \in Prefixes : ~ Has(table, p, e)
                     \/ \A e \in B, p \in Prefixes : Has(table, p, e)

Kept ==
  \A i \in used : \/ \E u \in Users : i \in cart[u]
                  \/ \E s \in Sessions : i \in req[s].batch
                  \/ \E t \in table : t[3] = i
                  \/ i \in lost

AInv ==
  /\ TypeOK /\ Placed
  /\ \A s \in Sessions : Progress(req[s])
  /\ Apart /\ Batched /\ Once(table) /\ Whole /\ Kept

LEMMA AInvInit == Init => AInv
<1> SUFFICES ASSUME Init PROVE AInv
  OBVIOUS
<1>1. \A s \in Sessions : req[s] = Idle
  BY DEF Init
<1>2. Apart /\ Batched /\ Once(table) /\ Whole /\ Kept
  BY <1>1, IdleType DEF Init, Apart, Batched, Once, Whole, Kept
<1> QED
  BY <1>1, <1>2, TypeInit, IdleProgress DEF AInv

\* a request goes on with what it was sent for
LEMMA OwnStep ==
  ASSUME AInv, TypeOK', Placed', NEW s \in Sessions, UNCHANGED <<table, cart, used, lost, batches>>,
         \A q \in Sessions \ {s} : req'[q] = req[q], req'[s].batch = req[s].batch, Progress(req'[s])
  PROVE  AInv'
<1>1. \A q \in Sessions : req'[q].batch = req[q].batch
  OBVIOUS
<1>2. \A q \in Sessions : Progress(req'[q])
  BY DEF AInv
<1>3. Apart'
  BY <1>1 DEF AInv, Apart
<1>4. Batched' /\ Whole' /\ Kept'
  BY <1>1 DEF AInv, Batched, Whole, Kept
<1> QED
  BY <1>2, <1>3, <1>4 DEF AInv

\* a fresh request
LEMMA FreshProgress ==
  ASSUME NEW r, r.rows = {}, r.pc # "idle",
         \/ r.batch \subseteq Entries /\ r.todo = r.batch /\ r.pc = "item"
         \/ r.id \in Directs /\ r.batch = {r.id} /\ r.todo = {} /\ r.pc \in Prefixes
  PROVE  Progress(r)
<1>1. "commit" \notin Prefixes
  BY DEF Prefixes
<1>2. Once(r.rows) /\ \A p, i : ~ Has(r.rows, p, i)
  BY DEF Once, Has
<1>3. CASE r.batch \subseteq Entries /\ r.todo = r.batch /\ r.pc = "item"
  BY <1>2, <1>3 DEF Progress, Order
<1>4. CASE r.id \in Directs /\ r.batch = {r.id} /\ r.todo = {} /\ r.pc \in Prefixes
  BY <1>1, <1>2, <1>4 DEF Progress, Create
<1> QED
  BY <1>3, <1>4

LEMMA CartStep ==
  ASSUME AInv, TypeOK', Placed', NEW u \in Users, NEW e \in Entries, AddToCart(u, e)
  PROVE  AInv'
<1>1. /\ e \notin used /\ used' = used \cup {e}
      /\ \A v \in Users : cart'[v] = IF v = u THEN cart[v] \cup {e} ELSE cart[v]
      /\ UNCHANGED <<table, req, lost, batches>>
  BY DEF AddToCart, AInv, TypeOK
<1>2. Apart'
  <2>1. \A t \in table : t[3] # e
    BY <1>1 DEF AInv, Apart
  <2>2. \A v \in Users : e \notin cart[v]
    BY <1>1 DEF AInv, Apart
  <2>3. \A s \in Sessions : e \notin req[s].batch
    BY <1>1 DEF AInv, Apart
  <2>4. ASSUME NEW v \in Users, NEW w \in Users, v # w
        PROVE  cart'[v] \cap cart'[w] = {}
    <3>1. cart[v] \cap cart[w] = {} /\ e \notin cart[v] /\ e \notin cart[w]
      BY <2>2, <2>4 DEF AInv, Apart
    <3>2. cart'[v] \subseteq cart[v] \cup {e} /\ cart'[w] \subseteq cart[w] \cup {e}
      BY <1>1
    <3>3. e \notin cart'[v] \/ e \notin cart'[w]
      BY <1>1, <2>4, <3>1
    <3> QED
      BY <3>1, <3>2, <3>3
  <2>5. \A v \in Users, s \in Sessions : cart'[v] \cap req'[s].batch = {}
    BY <1>1, <2>3 DEF AInv, Apart
  <2>6. \A t \in table' : /\ t[3] \in used'
                         /\ \A v \in Users : t[3] \notin cart'[v]
                         /\ \A s \in Sessions : t[3] \notin req'[s].batch
    <3> SUFFICES ASSUME NEW t \in table
                 PROVE  /\ t[3] \in used'
                        /\ \A v \in Users : t[3] \notin cart'[v]
                        /\ \A s \in Sessions : t[3] \notin req'[s].batch
      BY <1>1
    <3>1. /\ t[3] \in used /\ t[3] # e
          /\ \A v \in Users : t[3] \notin cart[v]
          /\ \A s \in Sessions : t[3] \notin req[s].batch
      BY <2>1 DEF AInv, Apart
    <3> QED
      BY <1>1, <3>1
  <2>7. \A v \in Users : cart'[v] \subseteq used'
    BY <1>1 DEF AInv, Apart
  <2>8. /\ \A s, q \in Sessions : s # q => req'[s].batch \cap req'[q].batch = {}
        /\ \A s \in Sessions : req'[s].batch \subseteq used'
    BY <1>1 DEF AInv, Apart
  <2> QED
    BY <2>4, <2>5, <2>6, <2>7, <2>8 DEF Apart
<1>3. Batched'
  <2>1. \A B \in batches : e \notin B
    BY <1>1 DEF AInv, Batched
  <2>2. \A B \in batches' : B \subseteq used' /\ \A v \in Users : B \cap cart'[v] = {}
    <3> SUFFICES ASSUME NEW B \in batches, NEW v \in Users
                 PROVE  B \subseteq used' /\ B \cap cart'[v] = {}
      BY <1>1
    <3>1. B \subseteq used /\ B \cap cart[v] = {} /\ e \notin B
      BY <2>1 DEF AInv, Batched
    <3>2. cart'[v] \subseteq cart[v] \cup {e}
      BY <1>1
    <3> QED
      BY <1>1, <3>1, <3>2
  <2>3. \A B, C \in batches' : B = C \/ B \cap C = {}
    BY <1>1 DEF AInv, Batched
  <2>4. \A s \in Sessions : req'[s].batch \subseteq Entries => req'[s].batch \in batches' \cup {{}}
    BY <1>1 DEF AInv, Batched
  <2> QED
    BY <2>2, <2>3, <2>4 DEF Batched
<1>4. Whole' /\ Kept'
  BY <1>1 DEF AInv, Whole, Kept
<1> QED
  BY <1>1, <1>2, <1>3, <1>4 DEF AInv

LEMMA SubmitStep ==
  ASSUME AInv, TypeOK', Placed', NEW s \in Sessions, NEW u \in Users, Submit(s, u)
  PROVE  AInv'
<1> DEFINE r == [Idle EXCEPT !.pc = "item", !.batch = cart[u], !.todo = cart[u]]
<1>1. /\ req[s].pc = "idle" /\ req'[s] = r /\ \A q \in Sessions \ {s} : req'[q] = req[q]
      /\ \A v \in Users : cart'[v] = IF v = u THEN {} ELSE cart[v]
      /\ batches' = batches \cup {cart[u]}
      /\ UNCHANGED <<table, used, lost>>
  BY DEF Submit, AInv, TypeOK
<1>2. r.rows = {} /\ r.pc = "item" /\ r.batch = cart[u] /\ r.todo = cart[u]
  BY DEF Idle
<1> HIDE DEF r
<1>3. cart[u] \subseteq Entries
  BY DEF AInv, TypeOK
<1>4. req[s].batch = {}
  BY <1>1 DEF AInv, Progress
<1>5. Progress(req'[s])
  BY <1>1, <1>2, <1>3, FreshProgress
<1>6. Apart'
  BY <1>1, <1>2 DEF AInv, Apart
<1>7. Batched'
  BY <1>1, <1>2 DEF AInv, Apart, Batched
<1>8. Whole'
  <2>1. \A e \in cart[u], p \in Prefixes : ~ Has(table, p, e)
    BY DEF AInv, Apart, Has
  <2> QED
    BY <1>1, <2>1 DEF AInv, Whole
<1>9. Kept'
  BY <1>1, <1>2, <1>4 DEF AInv, Kept
<1> QED
  BY <1>1, <1>5, <1>6, <1>7, <1>8, <1>9 DEF AInv

\* one entry, or one record, that was not used before
LEMMA FreshStep ==
  ASSUME AInv, TypeOK', Placed', NEW s \in Sessions, NEW i \in Ids, i \notin used,
         req[s].pc = "idle", Progress(req'[s]), req'[s].batch = {i},
         \A q \in Sessions \ {s} : req'[q] = req[q],
         used' = used \cup {i}, UNCHANGED <<table, cart, lost>>,
         batches' = IF i \in Entries THEN batches \cup {{i}} ELSE batches
  PROVE  AInv'
<1>1. req[s].batch = {}
  BY DEF AInv, Progress
<1>2. Apart'
  BY DEF AInv, Apart
<1>3. Batched'
  <2>1. \A u \in Users : i \notin cart[u]
    BY DEF AInv, Apart
  <2>2. \A B \in batches : i \notin B
    BY DEF AInv, Batched
  <2>3. \A B \in batches' : B \subseteq used' /\ \A u \in Users : B \cap cart'[u] = {}
    <3>1. \A B \in batches : B \subseteq used /\ \A u \in Users : B \cap cart[u] = {}
      BY DEF AInv, Batched
    <3>2. \A u \in Users : {i} \cap cart[u] = {}
      BY <2>1
    <3>3. batches' \subseteq batches \cup {{i}}
      OBVIOUS
    <3> QED
      BY <3>1, <3>2, <3>3
  <2>4. \A B, C \in batches' : B = C \/ B \cap C = {}
    <3>1. \A B, C \in batches : B = C \/ B \cap C = {}
      BY DEF AInv, Batched
    <3>2. \A B \in batches : B \cap {i} = {}
      BY <2>2
    <3>3. batches' \subseteq batches \cup {{i}}
      OBVIOUS
    <3> QED
      BY <3>1, <3>2, <3>3
  <2>5. \A q \in Sessions : req'[q].batch \subseteq Entries => req'[q].batch \in batches' \cup {{}}
    BY DEF AInv, Batched
  <2> QED
    BY <2>3, <2>4, <2>5 DEF Batched
<1>4. Whole'
  <2>1. \A p \in Prefixes : ~ Has(table, p, i)
    BY DEF AInv, Apart, Has
  <2> QED
    BY <2>1 DEF AInv, Whole
<1>5. Kept'
  BY <1>1 DEF AInv, Kept
<1> QED
  BY <1>2, <1>3, <1>4, <1>5 DEF AInv

LEMMA BeginStep ==
  ASSUME AInv, TypeOK', Placed', NEW s \in Sessions, Begin(s)
  PROVE  AInv'
<1>1. ASSUME NEW e \in Entries, OrderNow(s, e)
      PROVE  AInv'
  <2> DEFINE r == [Idle EXCEPT !.pc = "item", !.batch = {e}, !.todo = {e}]
  <2>1. r.rows = {} /\ r.pc = "item" /\ r.batch = {e} /\ r.todo = {e}
    BY DEF Idle
  <2>2. req'[s] = r /\ \A q \in Sessions \ {s} : req'[q] = req[q]
    BY <1>1 DEF OrderNow, AInv, TypeOK
  <2> HIDE DEF r
  <2>3. Progress(req'[s])
    BY <2>1, <2>2, FreshProgress
  <2> QED
    BY <1>1, <2>1, <2>2, <2>3, FreshStep DEF OrderNow, Ids
<1>2. ASSUME NEW d \in Directs, NEW p \in Prefixes, NEW n \in ClientNumbers \cup {0}, CreateDirect(s, d, p, n)
      PROVE  AInv'
  <2> DEFINE r == [Idle EXCEPT !.pc = p, !.batch = {d}, !.id = d, !.given = n]
  <2>1. r.rows = {} /\ r.pc = p /\ r.batch = {d} /\ r.todo = {} /\ r.id = d /\ p # "idle"
    BY DEF Idle, Prefixes
  <2>2. req'[s] = r /\ \A q \in Sessions \ {s} : req'[q] = req[q]
    BY <1>2 DEF CreateDirect, AInv, TypeOK
  <2> HIDE DEF r
  <2>3. Progress(req'[s])
    BY <2>1, <2>2, FreshProgress
  <2>4. d \notin Entries
    BY OrderAssumption
  <2> QED
    BY <1>2, <2>1, <2>2, <2>3, <2>4, FreshStep DEF CreateDirect, Ids
<1> QED
  BY <1>1, <1>2, SubmitStep DEF Begin

\* a request that ends without its records
LEMMA EndStep ==
  ASSUME AInv, TypeOK', Placed', UNCHANGED <<table, used, batches>>,
         \A s \in Sessions : req'[s] = Idle \/ req'[s] = req[s],
         \A u \in Users : cart'[u] \in {{}, cart[u]},
         \A s \in Sessions : req'[s] # req[s] => req[s].batch \subseteq lost',
         \A u \in Users : cart'[u] # cart[u] => cart[u] \subseteq lost',
         lost \subseteq lost'
  PROVE  AInv'
<1>1. \A s \in Sessions : Progress(req'[s])
  BY IdleProgress DEF AInv
<1>2. \A s \in Sessions : req'[s].batch \in {{}, req[s].batch}
  BY IdleType
<1>3. Apart'
  BY <1>2 DEF AInv, Apart
<1>4. Batched'
  BY <1>2 DEF AInv, Batched
<1>5. Whole'
  BY DEF AInv, Whole
<1>6. Kept'
  <2> SUFFICES ASSUME NEW i \in used
               PROVE  \/ \E u \in Users : i \in cart'[u]
                      \/ \E s \in Sessions : i \in req'[s].batch
                      \/ \E t \in table : t[3] = i
                      \/ i \in lost'
    BY DEF Kept
  <2>1. CASE \E u \in Users : i \in cart[u]
    BY <2>1
  <2>2. CASE \E s \in Sessions : i \in req[s].batch
    BY <2>2
  <2> QED
    BY <2>1, <2>2 DEF AInv, Kept
<1> QED
  BY <1>1, <1>3, <1>4, <1>5, <1>6 DEF AInv

\* an order that commits has all its records, a create its one
LEMMA CommitRows ==
  ASSUME AInv, NEW s \in Sessions, req[s].pc = "commit"
  PROVE  /\ req[s].rows \subseteq Prefixes \X Nat \X Ids
         /\ \A x \in req[s].rows : x[3] \in req[s].batch
         /\ \A i \in req[s].batch : \E x \in req[s].rows : x[3] = i
         /\ \/ req[s].batch \subseteq Entries /\ \A p \in Prefixes, i \in req[s].batch : Has(req[s].rows, p, i)
            \/ req[s].batch \cap Entries = {}
<1> DEFINE r == req[s]
<1>1. r.rows \subseteq Prefixes \X Nat \X Ids /\ r.batch \subseteq Ids /\ Progress(r) /\ r.pc = "commit"
  BY DEF AInv, TypeOK, Request
<1> HIDE DEF r
<1>2. \A x \in r.rows : x[1] \in Prefixes /\ x[3] \in Ids /\ Has(r.rows, x[1], x[3])
  BY <1>1 DEF Has
<1>3. Behind("commit") = Prefixes /\ Prefixes # {}
  BY DEF Behind, Prefixes
<1>4. CASE Order(r)
  <2>1. r.batch \subseteq Entries /\ \A p \in Prefixes, i \in Ids : Has(r.rows, p, i) <=> i \in r.batch
    BY <1>1, <1>3, <1>4 DEF Order
  <2>2. \A i \in r.batch : \E x \in r.rows : x[3] = i
    BY <1>1, <1>3, <2>1 DEF Has
  <2> QED
    BY <1>1, <1>2, <2>1, <2>2 DEF r
<1>5. CASE Create(r)
  <2>1. r.batch = {r.id} /\ r.id \notin Entries /\ \E p \in Prefixes : Has(r.rows, p, r.id)
    BY <1>1, <1>5, OrderAssumption DEF Create
  <2>2. \A x \in r.rows : x[3] = r.id
    BY <1>2, <1>5 DEF Create
  <2>3. \E x \in r.rows : x[3] = r.id
    BY <2>1 DEF Has
  <2> QED
    BY <1>1, <2>1, <2>2, <2>3 DEF r
<1> QED
  BY <1>1, <1>4, <1>5 DEF Progress

LEMMA CommitStep ==
  ASSUME AInv, TypeOK', Placed', NEW s \in Sessions, Commit(s)
  PROVE  AInv'
<1> DEFINE rows == req[s].rows
           batch == req[s].batch
<1>1. /\ req[s].pc = "commit" /\ req'[s] = Idle /\ \A q \in Sessions \ {s} : req'[q] = req[q]
      /\ table' = table \cup rows
      /\ UNCHANGED <<cart, used, lost, batches>>
  BY OverEffect DEF Commit, AInv, history
<1>2. /\ rows \subseteq Prefixes \X Nat \X Ids
      /\ \A x \in rows : x[3] \in batch
      /\ \A i \in batch : \E x \in rows : x[3] = i
      /\ \/ batch \subseteq Entries /\ \A p \in Prefixes, i \in batch : Has(rows, p, i)
         \/ batch \cap Entries = {}
  BY <1>1, CommitRows
<1>3. /\ batch \subseteq used
      /\ \A u \in Users : cart[u] \cap batch = {}
      /\ \A q \in Sessions \ {s} : req[q].batch \cap batch = {}
      /\ \A t \in table : t[3] \notin batch
  BY DEF AInv, Apart
<1>4. Once(rows) /\ Once(table)
  BY DEF AInv, Progress
<1>5. batch \subseteq Entries => batch \in batches \cup {{}}
  BY DEF AInv, Batched
<1>6. \A q \in Sessions : req'[q].batch \in {{}, req[q].batch}
  BY <1>1, IdleType
<1> HIDE DEF rows, batch
<1>7. \A q \in Sessions : Progress(req'[q])
  BY <1>1, IdleProgress DEF AInv
<1>8. Once(table')
  BY <1>1, <1>2, <1>3, <1>4, OnceUnion
<1>9. Apart'
  <2>1. \A t \in rows : /\ t[3] \in used
                        /\ \A u \in Users : t[3] \notin cart[u]
                        /\ \A q \in Sessions \ {s} : t[3] \notin req[q].batch
    BY <1>2, <1>3
  <2>2. \A t \in table : /\ t[3] \in used
                         /\ \A u \in Users : t[3] \notin cart[u]
                         /\ \A q \in Sessions : t[3] \notin req[q].batch
    BY DEF AInv, Apart
  <2>3. \A t \in table' : /\ t[3] \in used'
                          /\ \A u \in Users : t[3] \notin cart'[u]
                          /\ \A q \in Sessions : t[3] \notin req'[q].batch
    BY <1>1, <2>1, <2>2, IdleType
  <2>4. /\ \A p, q \in Sessions : p # q => req'[p].batch \cap req'[q].batch = {}
        /\ \A u \in Users, q \in Sessions : cart'[u] \cap req'[q].batch = {}
        /\ \A u, v \in Users : u # v => cart'[u] \cap cart'[v] = {}
        /\ \A u \in Users : cart'[u] \subseteq used'
        /\ \A q \in Sessions : req'[q].batch \subseteq used'
    BY <1>1, <1>6 DEF AInv, Apart
  <2> QED
    BY <2>3, <2>4 DEF Apart
<1>10. Batched'
  BY <1>1, <1>6 DEF AInv, Batched
<1>11. Whole'
  <2> SUFFICES ASSUME NEW B \in batches
               PROVE  \/ \A e \in B, p \in Prefixes : ~ Has(table', p, e)
                      \/ \A e \in B, p \in Prefixes : Has(table', p, e)
    BY <1>1 DEF Whole
  <2>1. \A p, e : Has(table', p, e) <=> Has(table, p, e) \/ Has(rows, p, e)
    BY <1>1, HasUnion
  <2>2. \A p, e : Has(rows, p, e) => e \in batch
    BY <1>2 DEF Has
  <2>3. \/ \A e \in B, p \in Prefixes : ~ Has(table, p, e)
        \/ \A e \in B, p \in Prefixes : Has(table, p, e)
    BY DEF AInv, Whole
  <2>4. B \subseteq Entries
    BY DEF AInv, TypeOK
  <2>5. CASE batch \cap Entries = {}
    BY <2>1, <2>2, <2>3, <2>4, <2>5
  <2>6. CASE batch \subseteq Entries /\ \A p \in Prefixes, i \in batch : Has(rows, p, i)
    <3>1. B = batch \/ B \cap batch = {}
      BY <1>5, <2>6 DEF AInv, Batched
    <3> QED
      BY <2>1, <2>2, <2>3, <2>6, <3>1
  <2> QED
    BY <1>2, <2>5, <2>6
<1>12. Kept'
  <2> SUFFICES ASSUME NEW i \in used
               PROVE  \/ \E u \in Users : i \in cart[u]
                      \/ \E q \in Sessions : i \in req'[q].batch
                      \/ \E t \in table' : t[3] = i
                      \/ i \in lost
    BY <1>1 DEF Kept
  <2>1. CASE \E q \in Sessions : i \in req[q].batch
    BY <1>1, <1>2, <2>1 DEF batch
  <2> QED
    BY <1>1, <2>1 DEF AInv, Kept
<1> QED
  BY <1>7, <1>8, <1>9, <1>10, <1>11, <1>12 DEF AInv

LEMMA AInvNext == AInv /\ [Next]_vars => AInv'
<1> SUFFICES ASSUME AInv, [Next]_vars
             PROVE  AInv'
  OBVIOUS
<1>0. TypeOK /\ Placed /\ TypeOK' /\ Placed'
  BY TypeNext DEF AInv
<1>1. CASE UNCHANGED vars
  BY <1>0, <1>1 DEF vars, history, AInv, Apart, Batched, Whole, Kept
<1>2. ASSUME NEW u \in Users, NEW e \in Entries, AddToCart(u, e)
      PROVE  AInv'
  BY <1>0, <1>2, CartStep
<1>3. ASSUME NEW s \in Sessions, Begin(s)
      PROVE  AInv'
  BY <1>0, <1>3, BeginStep
<1>4. ASSUME NEW s \in Sessions,
             \/ \E e \in Entries : NextItem(s, e)
             \/ TakeNumber(s) \/ InsertRow(s) \/ InsertOptions(s)
             \/ \E h \in Hooks : Skip(s, h) \/ \E result \in Results : Deliver(s, h, result)
      PROVE  AInv'
  <2>1. Progress(req[s])
    BY DEF AInv
  <2>2. Progress(req'[s])
    BY <1>0, <1>4, <2>1, NextItemProgress, TakeProgress, InsertProgress, DeliverProgress
  <2>3. /\ \A q \in Sessions \ {s} : req'[q] = req[q]
        /\ req'[s].batch = req[s].batch
    <3>1. CASE TakeNumber(s)
      BY <1>0, <3>1, TakeEffect
    <3>2. CASE InsertRow(s)
      BY <1>0, <3>2, InsertEffect
    <3> QED
      BY <1>0, <1>4, <3>1, <3>2, NextItemEffect, OptionsEffect, DeliverEffect
  <2>4. UNCHANGED <<table, cart, used, lost, batches>>
    BY <1>4 DEF NextItem, TakeNumber, InsertRow, InsertOptions, Skip, Deliver, history
  <2> QED
    BY <1>0, <2>2, <2>3, <2>4, OwnStep
<1>5. ASSUME NEW s \in Sessions, Commit(s)
      PROVE  AInv'
  BY <1>0, <1>5, CommitStep
<1>6. ASSUME NEW s \in Sessions, Fail(s)
      PROVE  AInv'
  <2>1. /\ req'[s] = Idle /\ \A q \in Sessions \ {s} : req'[q] = req[q]
        /\ lost' = lost \cup req[s].batch
        /\ UNCHANGED <<table, cart, used, batches>>
    BY <1>0, <1>6, OverEffect DEF Fail
  <2> QED
    BY <1>0, <2>1, EndStep
<1>7. CASE Restart
  <2>1. /\ \A s \in Sessions : req'[s] = Idle /\ req[s].batch \subseteq lost'
        /\ \A u \in Users : cart'[u] = {} /\ cart[u] \subseteq lost'
        /\ lost \subseteq lost' /\ UNCHANGED <<table, used, batches>>
    BY <1>7 DEF Restart
  <2> QED
    BY <1>0, <2>1, EndStep
<1> QED
  BY <1>1, <1>2, <1>3, <1>4, <1>5, <1>6, <1>7 DEF Next, Advance, Collide

LEMMA OrdersInvariant == Spec => []AInv
BY AInvInit, AInvNext, PTL DEF Spec

\* submit_order and get_db: what was submitted together is ordered together or
\* not at all, every order with its request, its requested item and its task -
\* whichever requests fail, and whatever numbers clients bring along.
THEOREM OrdersWhole == Spec => []AllOrNothing
<1>1. AInv => AllOrNothing
  <2> SUFFICES ASSUME AInv, NEW B \in batches
               PROVE  /\ Ordered("REQ") \cap B \in {{}, B}
                      /\ \A p \in Prefixes : Ordered(p) \cap B = Ordered("REQ") \cap B
    BY DEF AllOrNothing
  <2>1. B \subseteq Entries /\ "REQ" \in Prefixes
    BY DEF AInv, TypeOK, Prefixes
  <2>2. \A p : Ordered(p) = {e \in Entries : Has(table, p, e)}
    BY DEF Ordered, Has
  <2>3. CASE \A e \in B, p \in Prefixes : ~ Has(table, p, e)
    <3>1. \A p \in Prefixes : Ordered(p) \cap B = {}
      BY <2>2, <2>3
    <3> QED
      BY <2>1, <3>1
  <2>4. CASE \A e \in B, p \in Prefixes : Has(table, p, e)
    <3>1. \A p \in Prefixes : Ordered(p) \cap B = B
      BY <2>1, <2>2, <2>4
    <3> QED
      BY <2>1, <3>1
  <2> QED
    BY <2>3, <2>4 DEF AInv, Whole
<1> QED
  BY <1>1, OrdersInvariant, PTL

\* submit_order: _cart.pop comes before the first await, so that however often
\* and at the same time a cart is submitted, an entry is ordered once.
THEOREM OrderedOnceAlways == Spec => []OrderedOnce
<1>1. AInv => OrderedOnce
  BY DEF AInv, Once, OrderedOnce
<1> QED
  BY <1>1, OrdersInvariant, PTL

\* submit_order, get_db: an entry is in a cart, in a request that is running,
\* ordered, or its request failed or its process died.
THEOREM NoneForgotten == Spec => []NothingForgotten
<1>1. AInv => NothingForgotten
  BY DEF AInv, Kept, NothingForgotten
<1> QED
  BY <1>1, OrdersInvariant, PTL

-----------------------------------------------------------------------------
(***************************************************************************)
(* Every webhook of an ordered item has one row and at most one call.      *)
(***************************************************************************)

\* the webhooks of entry i that request r is done with
Done(r, i) ==
  IF i \in r.todo \/ (i = r.id /\ r.pc \in {"REQ", "RITM", "options"}) THEN {}
  ELSE IF i = r.id /\ r.pc = "hooks" THEN HooksOf[i] \ r.hooks
  ELSE HooksOf[i]

\* no row, no call for entry i
NoRow(ls, i) == \A h \in Hooks : ls[<<i, h, "success">>] = 0 /\ ls[<<i, h, "error">>] = 0
NoCall(ps, i) == \A h \in Hooks : ps[<<i, h, "filled">>] = 0 /\ ps[<<i, h, "blank">>] = 0

\* of the rows ls and the calls ps for entry i: one row for each of the webhooks
\* H, a call behind every success, none but one with the options
Settled(ps, ls, i, H) ==
  \A h \in Hooks :
    /\ ls[<<i, h, "success">>] + ls[<<i, h, "error">>] = IF h \in H THEN 1 ELSE 0
    /\ ps[<<i, h, "filled">>] <= IF h \in H THEN 1 ELSE 0
    /\ ls[<<i, h, "success">>] <= ps[<<i, h, "filled">>]
    /\ ps[<<i, h, "blank">>] = 0

Heard(ps, r) ==
  /\ \A i \in Entries \ r.batch : NoRow(r.logs, i)
  /\ r.pc = "hooks" => r.options = "filled" /\ r.hooks \subseteq HooksOf[r.id]
  /\ \A i \in r.batch \cap Entries : Settled(ps, r.logs, i, Done(r, i))

Unordered(i) == \A t \in table : t[3] # i

TInv ==
  /\ AInv
  /\ \A s \in Sessions : Heard(posts, req[s])
  /\ \A i \in Entries \ used : NoCall(posts, i)
  /\ \A u \in Users, e \in Entries : e \in cart[u] => NoCall(posts, e)
  /\ \A i \in Entries : IF Unordered(i) THEN NoRow(log, i) ELSE Settled(posts, log, i, HooksOf[i])

LEMMA NoneFact == \A i \in Entries : NoRow(NoneOf(Logs), i) /\ NoCall(NoneOf(Calls), i)
BY NoneOfType DEF NoRow, NoCall, Logs, Calls, Results, Options

LEMMA NoneSettled ==
  ASSUME NEW ps, NEW ls, NEW i, NoCall(ps, i), NoRow(ls, i)
  PROVE  Settled(ps, ls, i, {})
BY DEF NoCall, NoRow, Settled

\* what is counted for entry i is the same
SameRows(lt, ls, i) ==
  \A h \in Hooks : /\ lt[<<i, h, "success">>] = ls[<<i, h, "success">>]
                   /\ lt[<<i, h, "error">>] = ls[<<i, h, "error">>]
SameCalls(pt, ps, i) ==
  \A h \in Hooks : /\ pt[<<i, h, "filled">>] = ps[<<i, h, "filled">>]
                   /\ pt[<<i, h, "blank">>] = ps[<<i, h, "blank">>]

LEMMA SettledSame ==
  ASSUME NEW ps, NEW ls, NEW pt, NEW lt, NEW i, NEW H, Settled(ps, ls, i, H),
         SameCalls(pt, ps, i), SameRows(lt, ls, i)
  PROVE  Settled(pt, lt, i, H)
BY DEF Settled, SameCalls, SameRows

LEMMA Unchanged ==
  \A t, i : SameRows(t, t, i) /\ SameCalls(t, t, i)
BY DEF SameRows, SameCalls

LEMMA IdleHeard == \A ps : Heard(ps, Idle)
<1>1. Idle.logs = NoneOf(Logs)
  BY DEF Idle
<1> QED
  BY <1>1, IdleType, NoneFact DEF Heard

LEMMA TInvInit == Init => TInv
<1> SUFFICES ASSUME Init PROVE TInv
  OBVIOUS
<1>1. \A s \in Sessions : Heard(posts, req[s])
  BY IdleHeard DEF Init
<1> QED
  BY <1>1, AInvInit, NoneFact DEF Init, TInv, Unordered

\* a step that leaves logs and hooks alone
LEMMA QuietEffect ==
  ASSUME TypeOK, NEW s \in Sessions,
         (\E e \in Entries : NextItem(s, e)) \/ TakeNumber(s) \/ InsertRow(s)
  PROVE  req'[s].logs = req[s].logs /\ req'[s].hooks = req[s].hooks /\ UNCHANGED posts
<1>1. req[s] \in Request
  BY DEF TypeOK
<1>2. ASSUME NEW e \in Entries, NextItem(s, e)
      PROVE  req'[s].logs = req[s].logs /\ req'[s].hooks = req[s].hooks /\ UNCHANGED posts
  BY <1>1, <1>2 DEF NextItem, TypeOK, Request, history
<1>3. CASE TakeNumber(s)
  BY <1>1, <1>3 DEF TakeNumber, TypeOK, Request, history
<1>4. CASE InsertRow(s)
  BY <1>1, <1>4 DEF InsertRow, TypeOK, Request, history
<1> QED
  BY <1>2, <1>3, <1>4

LEMMA OptionsCalls ==
  ASSUME TypeOK, NEW s \in Sessions, InsertOptions(s)
  PROVE  /\ req'[s].logs = req[s].logs /\ req'[s].options = "filled"
         /\ req'[s].hooks = HooksOf[req[s].id] /\ UNCHANGED posts
         /\ req'[s].pc = IF HooksOf[req[s].id] = {} THEN "SCTASK" ELSE "hooks"
<1>1. req[s] \in Request
  BY DEF TypeOK
<1> QED
  BY <1>1 DEF InsertOptions, TypeOK, Request, history

-----------------------------------------------------------------------------
\* the entry in hand is one of the batch
LEMMA InHand ==
  ASSUME AInv, NEW s \in Sessions, req[s].pc \notin {"idle", "item", "commit"}
  PROVE  req[s].id \in req[s].batch \ req[s].todo
BY DEF AInv, Progress, Order, Create

\* no step but a delivery is done with a webhook
LEMMA QuietDone ==
  ASSUME AInv, NEW s \in Sessions,
         \/ \E e \in Entries : NextItem(s, e)
         \/ TakeNumber(s) \/ InsertRow(s) \/ InsertOptions(s)
  PROVE  \A i \in req[s].batch \cap Entries : Done(req'[s], i) = Done(req[s], i)
<1> USE DEF Done
<1>0. TypeOK /\ Placed /\ Progress(req[s])
  BY DEF AInv
<1>1. ASSUME NEW e \in Entries, NextItem(s, e)
      PROVE  \A i \in req[s].batch \cap Entries : Done(req'[s], i) = Done(req[s], i)
  BY <1>0, <1>1, NextItemEffect
<1>2. CASE TakeNumber(s)
  <2>1. /\ req'[s].pc = req[s].pc /\ req'[s].id = req[s].id /\ req'[s].todo = req[s].todo
        /\ req'[s].hooks = req[s].hooks
    BY <1>0, <1>2, TakeEffect, QuietEffect
  <2> QED
    BY <2>1
<1>3. CASE InsertRow(s)
  <2>1. /\ req[s].pc \in Prefixes /\ req'[s].pc = After(req[s])
        /\ req'[s].id = req[s].id /\ req'[s].todo = req[s].todo
    BY <1>0, <1>3, InsertEffect
  <2>2. CASE req[s].id \in Directs
    <3>1. req[s].batch \cap Entries = {}
      BY <1>0, <2>1, <2>2, InHand, OrderAssumption DEF Progress, Order, Create, Prefixes
    <3> QED
      BY <3>1
  <2>3. CASE req[s].id \notin Directs
    <3>1. \/ req[s].pc = "REQ" /\ req'[s].pc = "RITM"
          \/ req[s].pc = "RITM" /\ req'[s].pc = "options"
          \/ req[s].pc = "SCTASK" /\ req'[s].pc \in {"item", "commit"}
      BY <2>1, <2>3 DEF After, Prefixes
    <3> QED
      BY <2>1, <3>1
  <2> QED
    BY <2>2, <2>3
<1>4. CASE InsertOptions(s)
  <2>1. /\ req[s].pc = "options" /\ req'[s].id = req[s].id /\ req'[s].todo = req[s].todo
        /\ req'[s].hooks = HooksOf[req[s].id]
        /\ req'[s].pc = IF HooksOf[req[s].id] = {} THEN "SCTASK" ELSE "hooks"
    BY <1>0, <1>4, OptionsEffect, OptionsCalls
  <2> QED
    BY <2>1
<1> QED
  BY <1>1, <1>2, <1>3, <1>4

\* a request that goes on, calling only for what it was sent for
LEMMA OwnTold ==
  ASSUME TInv, AInv', NEW s \in Sessions, UNCHANGED <<table, log, cart, used>>,
         \A q \in Sessions \ {s} : req'[q] = req[q], Heard(posts', req'[s]),
         \A i \in Entries \ req[s].batch : SameCalls(posts', posts, i)
  PROVE  TInv'
<1>1. \A i \in Entries \ req[s].batch : NoCall(posts, i) => NoCall(posts', i)
  BY DEF NoCall, SameCalls
<1>2. ASSUME NEW q \in Sessions \ {s}
      PROVE  Heard(posts', req'[q])
  <2>1. req[q].batch \cap req[s].batch = {}
    BY DEF TInv, AInv, Apart
  <2>2. Heard(posts, req[q]) /\ req'[q] = req[q]
    BY DEF TInv
  <2>3. ASSUME NEW i \in req[q].batch \cap Entries
        PROVE  Settled(posts', req[q].logs, i, Done(req[q], i))
    BY <2>1, <2>2, SettledSame, Unchanged DEF Heard
  <2> QED
    BY <2>2, <2>3 DEF Heard
<1>3. \A i \in Entries \ used' : NoCall(posts', i)
  BY <1>1 DEF TInv, AInv, Apart
<1>4. \A u \in Users, e \in Entries : e \in cart'[u] => NoCall(posts', e)
  <2>1. \A u \in Users : cart[u] \cap req[s].batch = {}
    BY DEF TInv, AInv, Apart
  <2> QED
    BY <1>1, <2>1 DEF TInv
<1>5. ASSUME NEW i \in Entries
      PROVE  IF Unordered(i)' THEN NoRow(log', i) ELSE Settled(posts', log', i, HooksOf[i])
  <2>1. CASE Unordered(i)
    BY <2>1 DEF TInv, Unordered
  <2>2. CASE ~Unordered(i)
    <3>1. i \notin req[s].batch
      BY <2>2 DEF TInv, AInv, Apart, Unordered
    <3>2. Settled(posts, log, i, HooksOf[i])
      BY <2>2 DEF TInv
    <3>3. Settled(posts', log', i, HooksOf[i])
      BY <3>1, <3>2, SettledSame, Unchanged
    <3> QED
      BY <2>2, <3>3 DEF Unordered
  <2> QED
    BY <2>1, <2>2
<1> QED
  BY <1>2, <1>3, <1>4, <1>5 DEF TInv

LEMMA QuietTold ==
  ASSUME TInv, AInv', NEW s \in Sessions,
         \/ \E e \in Entries : NextItem(s, e)
         \/ TakeNumber(s) \/ InsertRow(s) \/ InsertOptions(s)
  PROVE  TInv'
<1>0. TypeOK /\ Placed /\ AInv /\ Heard(posts, req[s])
  BY DEF TInv, AInv
<1>1. /\ UNCHANGED <<table, log, cart, used, posts>>
      /\ \A q \in Sessions \ {s} : req'[q] = req[q]
      /\ req'[s].batch = req[s].batch /\ req'[s].logs = req[s].logs
  <2>1. CASE TakeNumber(s)
    BY <1>0, <2>1, TakeEffect, QuietEffect DEF TakeNumber, history
  <2>2. CASE InsertRow(s)
    BY <1>0, <2>2, InsertEffect, QuietEffect DEF InsertRow, history
  <2>3. CASE InsertOptions(s)
    BY <1>0, <2>3, OptionsEffect, OptionsCalls DEF InsertOptions, history
  <2>4. CASE \E e \in Entries : NextItem(s, e)
    BY <1>0, <2>4, NextItemEffect, QuietEffect DEF NextItem, history
  <2> QED
    BY <2>1, <2>2, <2>3, <2>4
<1>2. req'[s].pc = "hooks" => req'[s].options = "filled" /\ req'[s].hooks \subseteq HooksOf[req'[s].id]
  <2>1. CASE InsertOptions(s)
    <3>1. req'[s].id = req[s].id
      BY <1>0, <2>1, OptionsEffect
    <3>2. req'[s].options = "filled" /\ req'[s].hooks = HooksOf[req[s].id]
      BY <1>0, <2>1, OptionsCalls
    <3> QED
      BY <3>1, <3>2
  <2>2. CASE TakeNumber(s)
    BY <1>0, <2>2, TakeEffect DEF Prefixes
  <2>3. CASE InsertRow(s)
    BY <1>0, <2>3, InsertEffect DEF After, Prefixes
  <2>4. CASE \E e \in Entries : NextItem(s, e)
    BY <1>0, <2>4, NextItemEffect
  <2> QED
    BY <2>1, <2>2, <2>3, <2>4
<1>3. \A i \in req[s].batch \cap Entries : Done(req'[s], i) = Done(req[s], i)
  BY <1>0, QuietDone
<1>4. Heard(posts', req'[s])
  BY <1>0, <1>1, <1>2, <1>3 DEF Heard
<1> QED
  BY <1>1, <1>4, OwnTold, Unchanged

LEMMA DeliverTold ==
  ASSUME TInv, AInv', NEW s \in Sessions, NEW h \in Hooks,
         Skip(s, h) \/ \E result \in Results : Deliver(s, h, result)
  PROVE  TInv'
<1> DEFINE r == req[s]
           t == req'[s]
<1>1. TypeOK /\ Placed /\ AInv /\ Heard(posts, r)
  BY DEF TInv, AInv
<1>2. /\ UNCHANGED <<table, log, cart, used>>
      /\ \A q \in Sessions \ {s} : req'[q] = req[q]
      /\ t.batch = r.batch /\ t.id = r.id /\ t.todo = r.todo
      /\ r.pc = "hooks" /\ r.id \in Entries
    BY <1>1, DeliverEffect
<1>3. r.id \in r.batch \ r.todo
  BY <1>1, <1>2, InHand
<1>4. r.options = "filled" /\ h \in r.hooks /\ r.hooks \subseteq HooksOf[r.id]
  BY <1>1, <1>2 DEF Heard, Skip, Deliver
<1>5. r.logs \in Tally(Logs) /\ posts \in Tally(Calls)
  BY <1>1 DEF TypeOK, Request
<1>6. PICK result \in Results :
        /\ req' = Logged(s, h, result)
        /\ posts' = Plus(posts, <<r.id, h, "filled">>) \/ (posts' = posts /\ result = "error")
  BY <1>4 DEF Skip, Deliver, history, Results
<1> DEFINE row == <<r.id, h, result>>
           call == <<r.id, h, "filled">>
<1>7. /\ t.hooks = r.hooks \ {h} /\ t.options = r.options
      /\ t.logs = Plus(r.logs, row)
      /\ t.pc = IF r.hooks = {h} THEN "SCTASK" ELSE "hooks"
  BY <1>1, <1>2, <1>4, <1>6, LoggedEffect
<1>8. row \in Logs /\ call \in Calls
  BY <1>2 DEF Logs, Calls, Options
<1>9. /\ t.logs[row] = r.logs[row] + 1
      /\ \A y \in Logs \ {row} : t.logs[y] = r.logs[y]
  BY <1>5, <1>7, <1>8, PlusFact
<1>10. /\ \/ posts'[call] = posts[call] + 1
          \/ posts'[call] = posts[call] /\ result = "error"
       /\ \A y \in Calls \ {call} : posts'[y] = posts[y]
  BY <1>5, <1>6, <1>8, PlusFact
<1>11. /\ h \notin Done(r, r.id)
       /\ Done(t, r.id) = Done(r, r.id) \cup {h}
       /\ \A i : i # r.id => Done(t, i) = Done(r, i)
  BY <1>2, <1>3, <1>4, <1>7 DEF Done
<1> HIDE DEF r, t
<1>12. ASSUME NEW i \in Entries, i # r.id
       PROVE  SameRows(t.logs, r.logs, i) /\ SameCalls(posts', posts, i)
  BY <1>9, <1>10, <1>12 DEF SameRows, SameCalls, Logs, Calls, Results, Options
<1>13. Settled(posts, r.logs, r.id, Done(r, r.id))
  BY <1>1, <1>2, <1>3 DEF Heard
<1>14. Settled(posts', t.logs, r.id, Done(t, r.id))
  <2>1. ASSUME NEW g \in Hooks \ {h}
        PROVE  /\ t.logs[<<r.id, g, "success">>] = r.logs[<<r.id, g, "success">>]
               /\ t.logs[<<r.id, g, "error">>] = r.logs[<<r.id, g, "error">>]
               /\ posts'[<<r.id, g, "filled">>] = posts[<<r.id, g, "filled">>]
               /\ posts'[<<r.id, g, "blank">>] = posts[<<r.id, g, "blank">>]
    BY <1>2, <1>9, <1>10 DEF Logs, Calls, Results, Options
  <2>2. /\ r.logs[<<r.id, h, "success">>] \in Nat /\ r.logs[<<r.id, h, "error">>] \in Nat
        /\ posts[<<r.id, h, "filled">>] \in Nat
    BY <1>2, <1>5 DEF Tally, Logs, Calls, Results, Options
  <2>3. /\ r.logs[<<r.id, h, "success">>] = 0 /\ r.logs[<<r.id, h, "error">>] = 0
        /\ posts[<<r.id, h, "filled">>] = 0 /\ posts[<<r.id, h, "blank">>] = 0
    BY <1>11, <1>13, <2>2 DEF Settled
  <2>4. posts'[<<r.id, h, "blank">>] = 0
    BY <1>2, <1>10, <2>3 DEF Calls, Options
  <2>5. CASE result = "success"
    <3>1. t.logs[<<r.id, h, "success">>] = 1 /\ t.logs[<<r.id, h, "error">>] = 0
      BY <1>2, <1>9, <2>3, <2>5 DEF Logs, Results
    <3>2. posts'[<<r.id, h, "filled">>] = 1
      BY <1>10, <2>3, <2>5
    <3> QED
      BY <1>11, <1>13, <2>1, <2>4, <3>1, <3>2 DEF Settled
  <2>6. CASE result = "error"
    <3>1. t.logs[<<r.id, h, "success">>] = 0 /\ t.logs[<<r.id, h, "error">>] = 1
      BY <1>2, <1>9, <2>3, <2>6 DEF Logs, Results
    <3>2. posts'[<<r.id, h, "filled">>] \in {0, 1}
      BY <1>10, <2>3
    <3> QED
      BY <1>11, <1>13, <2>1, <2>4, <3>1, <3>2 DEF Settled
  <2> QED
    BY <2>5, <2>6 DEF Results
<1>15. ASSUME NEW i \in r.batch \cap Entries, i # r.id
       PROVE  Settled(posts', t.logs, i, Done(t, i))
  <2>1. Settled(posts, r.logs, i, Done(r, i))
    BY <1>1 DEF Heard
  <2> QED
    BY <1>11, <1>12, <1>15, <2>1, SettledSame
<1>16. \A i \in Entries \ r.batch : NoRow(t.logs, i)
  BY <1>1, <1>3, <1>12 DEF Heard, NoRow, SameRows
<1>17. Heard(posts', t)
  BY <1>2, <1>4, <1>7, <1>14, <1>15, <1>16 DEF Heard
<1>18. \A i \in Entries \ r.batch : SameCalls(posts', posts, i)
  BY <1>3, <1>12
<1> QED
  BY <1>2, <1>17, <1>18, OwnTold DEF r, t

LEMMA CartTold ==
  ASSUME TInv, AInv', NEW u \in Users, NEW e \in Entries, AddToCart(u, e)
  PROVE  TInv'
<1>1. /\ e \notin used /\ used' = used \cup {e}
      /\ \A v \in Users : cart'[v] \subseteq cart[v] \cup {e}
      /\ UNCHANGED <<table, log, req, posts>>
  BY DEF AddToCart, TInv, AInv, TypeOK
<1>2. NoCall(posts, e)
  BY <1>1 DEF TInv
<1>3. \A v \in Users, i \in Entries : i \in cart'[v] => NoCall(posts', i)
  BY <1>1, <1>2 DEF TInv
<1>4. \A i \in Entries \ used' : NoCall(posts', i)
  BY <1>1 DEF TInv
<1> QED
  BY <1>1, <1>3, <1>4 DEF TInv, Unordered

\* a request begins for what no call was made for
LEMMA FreshTold ==
  ASSUME TInv, AInv', NEW s \in Sessions, UNCHANGED <<table, log, posts>>, used \subseteq used',
         \A q \in Sessions \ {s} : req'[q] = req[q],
         \A u \in Users : cart'[u] \subseteq cart[u],
         req'[s].logs = NoneOf(Logs), req'[s].pc # "hooks",
         \A i \in req'[s].batch \cap Entries : i \in req'[s].todo /\ NoCall(posts, i)
  PROVE  TInv'
<1>1. \A i \in req'[s].batch \cap Entries : Settled(posts, req'[s].logs, i, Done(req'[s], i))
  BY NoneFact, NoneSettled DEF Done
<1>2. Heard(posts', req'[s])
  BY <1>1, NoneFact DEF Heard
<1>3. /\ \A q \in Sessions : Heard(posts', req'[q])
      /\ \A i \in Entries \ used' : NoCall(posts', i)
      /\ \A u \in Users, e \in Entries : e \in cart'[u] => NoCall(posts', e)
  BY <1>2 DEF TInv
<1> QED
  BY <1>3 DEF TInv, Unordered

LEMMA BeginTold ==
  ASSUME TInv, AInv', NEW s \in Sessions, Begin(s)
  PROVE  TInv'
<1>0. TypeOK /\ AInv
  BY DEF TInv, AInv
<1>1. ASSUME NEW u \in Users, Submit(s, u)
      PROVE  TInv'
  <2> DEFINE r == [Idle EXCEPT !.pc = "item", !.batch = cart[u], !.todo = cart[u]]
  <2>1. r.logs = NoneOf(Logs) /\ r.pc = "item" /\ r.batch = cart[u] /\ r.todo = cart[u]
    BY DEF Idle
  <2>2. /\ req'[s] = r /\ \A q \in Sessions \ {s} : req'[q] = req[q]
        /\ \A v \in Users : cart'[v] \subseteq cart[v]
        /\ UNCHANGED <<table, log, posts, used>>
    BY <1>0, <1>1 DEF Submit, TypeOK
  <2> HIDE DEF r
  <2>3. \A i \in cart[u] \cap Entries : NoCall(posts, i)
    BY DEF TInv
  <2> QED
    BY <2>1, <2>2, <2>3, FreshTold
<1>2. ASSUME NEW e \in Entries, OrderNow(s, e)
      PROVE  TInv'
  <2> DEFINE r == [Idle EXCEPT !.pc = "item", !.batch = {e}, !.todo = {e}]
  <2>1. r.logs = NoneOf(Logs) /\ r.pc = "item" /\ r.batch = {e} /\ r.todo = {e}
    BY DEF Idle
  <2>2. /\ req'[s] = r /\ \A q \in Sessions \ {s} : req'[q] = req[q]
        /\ UNCHANGED <<table, log, posts, cart>> /\ e \notin used /\ used \subseteq used'
    BY <1>0, <1>2 DEF OrderNow, TypeOK
  <2> HIDE DEF r
  <2>3. NoCall(posts, e)
    BY <2>2 DEF TInv
  <2> QED
    BY <2>1, <2>2, <2>3, FreshTold
<1>3. ASSUME NEW d \in Directs, NEW p \in Prefixes, NEW n \in ClientNumbers \cup {0}, CreateDirect(s, d, p, n)
      PROVE  TInv'
  <2> DEFINE r == [Idle EXCEPT !.pc = p, !.batch = {d}, !.id = d, !.given = n]
  <2>1. r.logs = NoneOf(Logs) /\ r.pc = p /\ r.batch = {d} /\ p # "hooks"
    BY DEF Idle, Prefixes
  <2>2. /\ req'[s] = r /\ \A q \in Sessions \ {s} : req'[q] = req[q]
        /\ UNCHANGED <<table, log, posts, cart>> /\ used \subseteq used'
    BY <1>0, <1>3 DEF CreateDirect, TypeOK
  <2> HIDE DEF r
  <2>3. {d} \cap Entries = {}
    BY OrderAssumption
  <2> QED
    BY <2>1, <2>2, <2>3, FreshTold
<1> QED
  BY <1>1, <1>2, <1>3 DEF Begin

LEMMA EndTold ==
  ASSUME TInv, AInv', UNCHANGED <<table, log, posts, used>>,
         \A s \in Sessions : req'[s] = Idle \/ req'[s] = req[s],
         \A u \in Users : cart'[u] \subseteq cart[u]
  PROVE  TInv'
<1>1. \A s \in Sessions : Heard(posts', req'[s])
  BY IdleHeard DEF TInv
<1>2. \A u \in Users, e \in Entries : e \in cart'[u] => NoCall(posts', e)
  BY DEF TInv
<1>3. \A i \in Entries \ used' : NoCall(posts', i)
  BY DEF TInv
<1> QED
  BY <1>1, <1>2, <1>3 DEF TInv, Unordered

LEMMA CommitTold ==
  ASSUME TInv, AInv', NEW s \in Sessions, Commit(s)
  PROVE  TInv'
<1> DEFINE r == req[s]
<1>0. TypeOK /\ AInv /\ Heard(posts, r)
  BY DEF TInv, AInv
<1>1. /\ r.pc = "commit" /\ req'[s] = Idle /\ \A q \in Sessions \ {s} : req'[q] = req[q]
      /\ table' = table \cup r.rows /\ log' = [x \in Logs |-> log[x] + r.logs[x]]
      /\ UNCHANGED <<cart, used, posts>>
  BY <1>0, OverEffect DEF Commit, history
<1>2. /\ \A x \in r.rows : x[3] \in r.batch
      /\ \A i \in r.batch : \E x \in r.rows : x[3] = i
  BY <1>0, <1>1, CommitRows
<1>3. \A i \in r.batch : Unordered(i)
  BY <1>0 DEF AInv, Apart, Unordered
<1>4. \A i \in r.batch \cap Entries : Settled(posts, r.logs, i, HooksOf[i])
  <2>1. r.batch \cap Entries = {} \/ r.todo = {}
    BY <1>0, <1>1, OrderAssumption DEF AInv, Progress, Order, Create
  <2>2. r.todo = {} => \A i : Done(r, i) = HooksOf[i]
    BY <1>1 DEF Done
  <2> QED
    BY <1>0, <2>1, <2>2 DEF Heard
<1>5. log \in Tally(Logs) /\ r.logs \in Tally(Logs)
  BY <1>0 DEF TypeOK, Request
<1> HIDE DEF r
<1>6. \A q \in Sessions : Heard(posts', req'[q])
  BY <1>1, IdleHeard DEF TInv
<1>7. \A x \in Logs : log'[x] = log[x] + r.logs[x] /\ log[x] \in Nat /\ r.logs[x] \in Nat
  BY <1>1, <1>5 DEF Tally
<1>8. ASSUME NEW i \in Entries
      PROVE  IF Unordered(i)' THEN NoRow(log', i) ELSE Settled(posts', log', i, HooksOf[i])
  <2>1. CASE i \in r.batch
    <3>1. NoRow(log, i) /\ Settled(posts, r.logs, i, HooksOf[i])
      BY <1>3, <1>4, <2>1 DEF TInv
    <3>2. SameRows(log', r.logs, i)
      BY <1>7, <3>1 DEF NoRow, SameRows, Logs, Results
    <3>3. Settled(posts', log', i, HooksOf[i])
      BY <1>1, <3>1, <3>2, SettledSame, Unchanged
    <3>4. ~Unordered(i)'
      BY <1>1, <1>2, <2>1 DEF Unordered
    <3> QED
      BY <3>3, <3>4
  <2>2. CASE i \notin r.batch
    <3>1. NoRow(r.logs, i)
      BY <1>0, <2>2 DEF Heard
    <3>2. SameRows(log', log, i)
      BY <1>7, <3>1 DEF NoRow, SameRows, Logs, Results
    <3>3. Unordered(i)' <=> Unordered(i)
      BY <1>1, <1>2, <2>2 DEF Unordered
    <3>4. CASE Unordered(i)
      BY <3>2, <3>3, <3>4 DEF TInv, NoRow, SameRows
    <3>5. CASE ~Unordered(i)
      <4>1. Settled(posts, log, i, HooksOf[i])
        BY <3>5 DEF TInv
      <4>2. Settled(posts', log', i, HooksOf[i])
        BY <1>1, <3>2, <4>1, SettledSame, Unchanged
      <4> QED
        BY <3>3, <3>5, <4>2
    <3> QED
      BY <3>4, <3>5
  <2> QED
    BY <2>1, <2>2
<1>9. /\ \A i \in Entries \ used' : NoCall(posts', i)
      /\ \A u \in Users, e \in Entries : e \in cart'[u] => NoCall(posts', e)
  BY <1>1 DEF TInv
<1> QED
  BY <1>6, <1>8, <1>9 DEF TInv

LEMMA TInvNext == TInv /\ [Next]_vars => TInv'
<1> SUFFICES ASSUME TInv, [Next]_vars
             PROVE  TInv'
  OBVIOUS
<1>0. TypeOK /\ AInv /\ AInv'
  BY AInvNext DEF TInv, AInv
<1>1. CASE UNCHANGED vars
  BY <1>0, <1>1, EndTold DEF vars, history
<1>2. ASSUME NEW u \in Users, NEW e \in Entries, AddToCart(u, e)
      PROVE  TInv'
  BY <1>0, <1>2, CartTold
<1>3. ASSUME NEW s \in Sessions, Begin(s)
      PROVE  TInv'
  BY <1>0, <1>3, BeginTold
<1>4. ASSUME NEW s \in Sessions,
             \/ \E e \in Entries : NextItem(s, e)
             \/ TakeNumber(s) \/ InsertRow(s) \/ InsertOptions(s)
      PROVE  TInv'
  BY <1>0, <1>4, QuietTold
<1>5. ASSUME NEW s \in Sessions, NEW h \in Hooks,
             Skip(s, h) \/ \E result \in Results : Deliver(s, h, result)
      PROVE  TInv'
  BY <1>0, <1>5, DeliverTold
<1>6. ASSUME NEW s \in Sessions, Commit(s)
      PROVE  TInv'
  BY <1>0, <1>6, CommitTold
<1>7. ASSUME NEW s \in Sessions, Fail(s)
      PROVE  TInv'
  <2>1. /\ req'[s] = Idle /\ \A q \in Sessions \ {s} : req'[q] = req[q]
        /\ UNCHANGED <<table, log, cart, posts, used>>
    BY <1>0, <1>7, OverEffect DEF Fail
  <2> QED
    BY <1>0, <2>1, EndTold
<1>8. CASE Restart
  <2>1. /\ \A s \in Sessions : req'[s] = Idle
        /\ \A u \in Users : cart'[u] = {}
        /\ UNCHANGED <<table, log, posts, used>>
    BY <1>8 DEF Restart
  <2> QED
    BY <1>0, <2>1, EndTold
<1> QED
  BY <1>1, <1>2, <1>3, <1>4, <1>5, <1>6, <1>7, <1>8 DEF Next, Advance, Collide

\* _on_record_event and deliver_webhooks_for_ritm: every webhook of an ordered
\* item has one row in the log and was called at most once, with the item's
\* options - whether its endpoint answered, failed or never did, and whether
\* there was a secret or a token to call it with.
THEOREM WebhooksToldOnce == Spec => []ToldOnce
<1>1. TInv => ToldOnce
  <2> SUFFICES ASSUME TInv, NEW e \in Ordered("RITM"), NEW h \in Hooks
               PROVE  /\ log[<<e, h, "success">>] + log[<<e, h, "error">>] = IF h \in HooksOf[e] THEN 1 ELSE 0
                      /\ posts[<<e, h, "filled">>] \in log[<<e, h, "success">>] .. 1
                      /\ posts[<<e, h, "blank">>] = 0
                      /\ h \notin HooksOf[e] => posts[<<e, h, "filled">>] = 0
    BY DEF ToldOnce
  <2>1. e \in Entries /\ Settled(posts, log, e, HooksOf[e])
    BY DEF Ordered, TInv, Unordered
  <2>2. posts[<<e, h, "filled">>] \in Nat /\ log[<<e, h, "success">>] \in Nat
    BY <2>1 DEF TInv, AInv, TypeOK, Tally, Logs, Calls, Results, Options
  <2> QED
    BY <2>1, <2>2 DEF Settled
<1>2. Spec => []TInv
  BY TInvInit, TInvNext, PTL DEF Spec
<1> QED
  BY <1>1, <1>2, PTL
=============================================================================
