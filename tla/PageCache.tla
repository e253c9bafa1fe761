----------------------------- MODULE PageCache -----------------------------
(***************************************************************************)
(* React Query's cache under the pages of the frontend: one tab, one       *)
(* server, requests that overlap.  The pages, with the keys they show and  *)
(* the mutations they offer, are a table (Pages).                          *)
(*                                                                         *)
(* The entries of the cache do not depend on each other, so a behaviour    *)
(* follows one key: which of the user's own writes its entry has seen.     *)
(* How the cache treats a key is the library's doing, as the code          *)
(* configures it (main.tsx: entries are stale at once; a query refetches   *)
(* when it is mounted and when the connection is back, not on focus).      *)
(*                                                                         *)
(* A component that stays on the screen while the path changes keeps its   *)
(* mutations, and what they do when they are answered is that of the last  *)
(* rendering: the keys they invalidate are those of the page the user is   *)
(* on by then, not of the page he saved (App.tsx gives its routes no key). *)
(* For the same reason a mutation that waits for the connection is here    *)
(* one that the user starts when it is back, or just before he leaves.     *)
(***************************************************************************)
EXTENDS Pages, FiniteSets

CONSTANTS
  Ids,    \* of records, and of what is selected on a page
  Site,   \* the pages of every area; a behaviour stays in one
  Slots   \* mutations that may be under way at once (bound)

\* (a definition of its own, since TLC evaluates a definition only once)
Table == Site
Areas == DOMAIN Table

ASSUME TableAssumption ==
  \A a \in Areas :
    /\ Table[a] \subseteq Routes(Ids)
    /\ \A p, q \in Table[a] : p.path = q.path => p = q
    /\ \A p \in Table[a] : \A m1, m2 \in p.offers : m1.name = m2.name => m1 = m2
    /\ \A p \in Table[a] : \A m \in p.offers : m.goes # <<>> => \E q \in Table[a] : q.path = m.goes

\* why an entry on the screen may lack a write of the user although nothing
\* is under way
Reasons == {"joined", "failed", "lost", "elsewhere", "unrefreshed"}

VARIABLES
  area,    \* the pages the user goes about
  page,    \* the path
  query,   \* the query followed, with its key
  shown,   \* a query with the key is mounted
  data,    \* its entry: nothing, the state before the last write, or after
  fetch,   \* its request: none, asked for, or answered with the state it read
  pend,    \* the mutations under way that change it
  missed   \* history: the last reason since the query was mounted or up to
           \* date, or none

vars == <<area, page, query, shown, data, fetch, pend, missed>>

Paths == {p.path : p \in Table[area]}
Queries == UNION {p.shows : p \in Table[area]}
Names == UNION {{m.name : m \in p.offers} : p \in Table[area]}

PageAt(path) == CHOOSE p \in Table[area] : p.path = path
Component(path) == PageAt(path).component
Shows(path) == PageAt(path).shows
Offers(path) == PageAt(path).offers

Free == [stage |-> "free"]

\* a mutation: where it was started, and the page whose rendering it follows
Sent(m, p) == [stage |-> "sent", name |-> m.name, from |-> p, told |-> p, live |-> TRUE]
Requests == [stage : {"sent", "done"}, name : Names, from : Paths, told : Paths, live : BOOLEAN]

TypeOK ==
  /\ area \in Areas /\ page \in Paths /\ query \in Queries
  /\ shown \in BOOLEAN
  /\ data \in {"none", "old", "new"}
  /\ fetch \in {"off", "asked", "old", "new"}
  /\ pend \in [Slots -> Requests \cup {Free}]
  /\ missed \in Reasons \cup {"no"}

Init ==
  /\ area \in Areas /\ page \in Paths /\ query \in Queries
  /\ shown = FALSE /\ data = "none" /\ fetch = "off"
  /\ pend = [s \in Slots |-> Free]
  /\ missed = "no"

Waiting(s) == pend[s].stage # "free"

\* the mutation a request stands for, as a page offers it; a page that does
\* not offer it leaves it as it was sent
Offered(p, name) == {m \in Offers(p) : m.name = name}
Followed(s) ==
  IF Offered(pend[s].told, pend[s].name) # {}
  THEN CHOOSE m \in Offered(pend[s].told, pend[s].name) : TRUE
  ELSE CHOOSE m \in Offered(pend[s].from, pend[s].name) : TRUE

\* saves that are an async function of the component and no mutation: what
\* they do when they are answered is that of the click
Direct == {"saveChanges"}

\* the path changes: the mutations of the component follow it while the
\* component stays, and are left as they are when it goes
Follow(r, p, to) ==
  IF r.stage = "free" \/ ~ r.live THEN r
  ELSE IF Component(p) # Component(to) THEN [r EXCEPT !.live = FALSE]
  ELSE IF r.name \in Direct THEN r ELSE [r EXCEPT !.told = to]

StaysShown(to) == shown /\ Component(page) = Component(to) /\ query \in Shows(to)

-----------------------------------------------------------------------------
(***************************************************************************)
(* The user goes about the pages.                                          *)
(***************************************************************************)

Open(to) ==
  /\ to # page
  /\ page' = to
  /\ shown' = StaysShown(to)
  /\ pend' = [s \in Slots |-> Follow(pend[s], page, to)]
  /\ missed' = IF shown' THEN missed ELSE "no"
  /\ UNCHANGED <<area, query, data, fetch>>

\* a query is mounted: with its page, when the record it needs is there, or
\* when a dialog opens.  A request on its way is joined.
Show ==
  /\ ~ shown /\ query \in Shows(page)
  /\ shown' = TRUE
  /\ fetch' = IF fetch = "off" THEN "asked" ELSE fetch
  /\ missed' = IF fetch = "old" THEN "joined" ELSE missed
  /\ UNCHANGED <<area, page, query, data, pend>>

Hide ==
  /\ shown
  /\ shown' = FALSE
  /\ missed' = "no"
  /\ UNCHANGED <<area, page, query, data, fetch, pend>>

\* an entry nobody shows is collected after a while
Collect ==
  /\ ~ shown /\ fetch = "off" /\ data # "none"
  /\ data' = "none"
  /\ UNCHANGED <<area, page, query, shown, fetch, pend, missed>>

\* a control starts its mutation; it is disabled while that is pending
Click(s, m) ==
  /\ Meet(m.changes, query.reads)
  /\ ~ Waiting(s)
  /\ \A t \in Slots : Waiting(t) /\ pend[t].live => pend[t].name # m.name
  /\ pend' = [pend EXCEPT ![s] = Sent(m, page)]
  /\ UNCHANGED <<area, page, query, shown, data, fetch, missed>>

-----------------------------------------------------------------------------
(***************************************************************************)
(* Requests and answers, each on its own way.                              *)
(***************************************************************************)

\* the write commits: what the cache has, or is about to get, is old
Commit(s) ==
  /\ pend[s].stage = "sent"
  /\ pend' = [pend EXCEPT ![s].stage = "done"]
  /\ data' = IF data = "new" THEN "old" ELSE data
  /\ fetch' = IF fetch = "new" THEN "old" ELSE fetch
  /\ UNCHANGED <<area, page, query, shown, missed>>

\* the server refuses, or is not reached
Refuse(s) ==
  /\ pend[s].stage = "sent"
  /\ pend' = [pend EXCEPT ![s] = Free]
  /\ UNCHANGED <<area, page, query, shown, data, fetch, missed>>

\* nothing reads the entry again because of this answer
Misses(reason) ==
  IF shown /\ fetch # "asked" THEN reason ELSE missed

\* the write commits, and its answer is lost: for the page it has failed
Lose(s) ==
  /\ pend[s].stage = "done"
  /\ pend' = [pend EXCEPT ![s] = Free]
  /\ missed' = Misses("lost")
  /\ UNCHANGED <<area, page, query, shown, data, fetch>>

\* invalidateQueries refetches what is mounted, from the start if there is
\* something to show meanwhile; a first request is joined
Refetched ==
  IF shown /\ (fetch = "off" \/ data # "none") THEN "asked" ELSE fetch

\* the answer: the keys it invalidates are those of the page it follows
Refreshed(s) == Reaches(Followed(s).refreshes, query.key)

\* why the entry is not read again after it
Missed(s) ==
  IF Refreshed(s) THEN IF shown /\ data = "none" /\ fetch = "old" THEN "joined" ELSE missed
  ELSE IF {page, pend[s].told} # {pend[s].from} THEN Misses("elsewhere")
  ELSE IF Unrefreshed(query.key, Followed(s)) THEN Misses("unrefreshed") ELSE missed

Answer(s) ==
  LET m == Followed(s)
      to == IF m.goes = <<>> THEN page ELSE m.goes
  IN  /\ pend[s].stage = "done"
      /\ fetch' = IF Refreshed(s) THEN Refetched ELSE fetch
      /\ page' = to
      /\ shown' = (query.key \notin m.ends /\ StaysShown(to))
      /\ missed' = IF shown' THEN Missed(s) ELSE "no"
      /\ pend' = [t \in Slots |-> IF t = s THEN Free ELSE IF to = page THEN pend[t] ELSE Follow(pend[t], page, to)]
      /\ UNCHANGED <<area, query, data>>

ServerRead ==
  /\ fetch = "asked"
  /\ fetch' = "new"
  /\ UNCHANGED <<area, page, query, shown, data, pend, missed>>

Arrive ==
  /\ fetch \in {"old", "new"}
  /\ data' = fetch
  /\ fetch' = "off"
  /\ missed' = IF fetch = "new" THEN "no" ELSE missed
  /\ UNCHANGED <<area, page, query, shown, pend>>

\* the request and its retry have failed: the entry stays as it is
FetchFails ==
  /\ fetch # "off"
  /\ fetch' = "off"
  /\ missed' = IF shown THEN "failed" ELSE missed
  /\ UNCHANGED <<area, page, query, shown, data, pend>>

\* the connection is back
Reconnect ==
  /\ shown /\ fetch = "off"
  /\ fetch' = "asked"
  /\ UNCHANGED <<area, page, query, shown, data, pend, missed>>

-----------------------------------------------------------------------------
Next ==
  \/ \E to \in Paths : Open(to)
  \/ Show \/ Hide \/ Collect
  \/ \E s \in Slots : \E m \in Offers(page) : Click(s, m)
  \/ \E s \in Slots : Commit(s) \/ Refuse(s) \/ Lose(s) \/ Answer(s)
  \/ ServerRead \/ Arrive \/ FetchFails \/ Reconnect

\* a request ends, one way or the other
Fairness ==
  /\ WF_vars(ServerRead) /\ WF_vars(Arrive \/ FetchFails)

Spec == Init /\ [][Next]_vars
FairSpec == Spec /\ Fairness

-----------------------------------------------------------------------------
\* Every mutation a page offers invalidates what the page shows of the places
\* it changes, unless that leaves the screen with it, or is known not to be
\* refetched.
Covered ==
  query \in Shows(page) =>
    \A m \in Offers(page) :
      Meet(m.changes, query.reads) =>
        \/ Reaches(m.refreshes, query.key) \/ Unrefreshed(query.key, m)
        \/ query.key \in m.ends
        \/ m.goes # <<>> /\ ~ (Component(page) = Component(m.goes) /\ query \in Shows(m.goes))

\* A page does not go on showing what it showed before a write of the user's
\* own: when the write is answered and no request is on its way, an old entry
\* has a named reason.  It joined a request that was older than the write, or
\* the refetch failed, or the answer of the write was lost, or it reached a
\* page the user had gone to meanwhile, or the page is known not to refetch it.
OwnWritesShown ==
  shown /\ fetch = "off" /\ data = "old" /\ missed = "no" => \E s \in Slots : pend[s].stage = "done"

\* A page that stays on the screen without further writes comes to show the
\* user's writes, unless there is a reason as above.
ComesToShow ==
  <>[](shown /\ data # "none" /\ \A s \in Slots : ~ Waiting(s)) => <>[](data = "new" \/ missed # "no")

=============================================================================
