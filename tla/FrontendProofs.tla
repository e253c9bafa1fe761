-------------------------- MODULE FrontendProofs --------------------------
(***************************************************************************)
(* Proofs about the parts of the frontend that the whole application       *)
(* shares: PageCache, for every site (any pages of the application, with   *)
(* any records, and any number of mutations under way), and Preferences,   *)
(* for any accounts, settings and values and any number of requests.       *)
(***************************************************************************)
EXTENDS PageCache, Preferences, SequenceTheorems, TLAPS

-----------------------------------------------------------------------------
\* The pages: what their mutations tell the cache, and what they show.

\* a place, or a key, of some length
LEMMA PrefixFact ==
  ASSUME NEW S, NEW s \in Seq(S), NEW T, NEW t \in Seq(T)
  PROVE  IsPrefix(s, t) <=> Len(s) <= Len(t) /\ \A k \in 1 .. Len(s) : s[k] = t[k]
<1>0. Len(s) \in Nat /\ Len(t) \in Nat
  BY LenProperties
<1>1. /\ SubSeq(s, 1, Len(s)) \in Seq(S) /\ Len(SubSeq(s, 1, Len(s))) = Len(s)
      /\ \A k \in 1 .. Len(s) : SubSeq(s, 1, Len(s))[k] = s[k]
  BY <1>0, SubSeqProperties
<1>2. ASSUME Len(s) <= Len(t)
      PROVE  /\ SubSeq(t, 1, Len(s)) \in Seq(T) /\ Len(SubSeq(t, 1, Len(s))) = Len(s)
             /\ \A k \in 1 .. Len(s) : SubSeq(t, 1, Len(s))[k] = t[k]
  BY <1>0, <1>2, SubSeqProperties
<1>3. ASSUME Len(s) <= Len(t), SubSeq(s, 1, Len(s)) = SubSeq(t, 1, Len(s)), NEW k \in 1 .. Len(s) PROVE s[k] = t[k]
  BY <1>1, <1>2, <1>3
<1>4. ASSUME Len(s) <= Len(t), \A k \in 1 .. Len(s) : s[k] = t[k] PROVE SubSeq(s, 1, Len(s)) = SubSeq(t, 1, Len(s))
  <2> DEFINE a == SubSeq(s, 1, Len(s))
             b == SubSeq(t, 1, Len(s))
  <2>1. a \in Seq(S) /\ b \in Seq(T) /\ Len(a) = Len(s) /\ Len(b) = Len(s)
    BY <1>1, <1>2, <1>4
  <2>4. \A k \in 1 .. Len(s) : a[k] = b[k]
    BY <1>1, <1>2, <1>4
  <2>2. a \in [1 .. Len(s) -> S] /\ b \in [1 .. Len(s) -> T]
    BY <2>1, LenProperties
  <2> HIDE DEF a, b
  <2>3. a = b
    BY <2>1, <2>2, <2>4
  <2> QED
    BY <2>3 DEF a, b
<1> QED
  BY <1>3, <1>4 DEF IsPrefix

\* what the table has for places, and for keys but for the longest
Place(p) == \E a, b, c : p \in {<<a>>, <<a, b>>, <<a, b, c>>}

LEMMA PlaceFact ==
  ASSUME NEW p, Place(p)
  PROVE  \E S : p \in Seq(S) /\ Len(p) \in {1, 2, 3}
<1>1. PICK a, b, c : p \in {<<a>>, <<a, b>>, <<a, b, c>>}
  BY DEF Place
<1>2. <<a>> \in Seq({a, b, c}) /\ <<a, b>> \in Seq({a, b, c}) /\ <<a, b, c>> \in Seq({a, b, c})
  OBVIOUS
<1> QED
  BY <1>1, <1>2

LEMMA MeetFact ==
  ASSUME NEW P, NEW Q, Meet(P, Q), \A p \in P : Place(p), \A q \in Q : Place(q)
  PROVE  \E p \in P, q \in Q : p[1] = q[1] /\ (Len(p) # 1 /\ Len(q) # 1 => p[2] = q[2])
<1>1. PICK p \in P, q \in Q : Within(p, q) \/ Within(q, p)
  BY DEF Meet
<1>2. PICK S : p \in Seq(S) /\ Len(p) \in {1, 2, 3}
  BY PlaceFact
<1>3. PICK T : q \in Seq(T) /\ Len(q) \in {1, 2, 3}
  BY PlaceFact
<1>4. CASE Within(p, q)
  <2>1. Len(q) <= Len(p) /\ \A k \in 1 .. Len(q) : q[k] = p[k]
    BY <1>2, <1>3, <1>4, PrefixFact DEF Within
  <2> QED
    BY <1>2, <1>3, <2>1
<1>5. CASE Within(q, p)
  <2>1. Len(p) <= Len(q) /\ \A k \in 1 .. Len(p) : p[k] = q[k]
    BY <1>2, <1>3, <1>5, PrefixFact DEF Within
  <2> QED
    BY <1>2, <1>3, <2>1
<1> QED
  BY <1>1, <1>4, <1>5

LEMMA AllLiterals ==
  ASSUME NEW a, NEW b, NEW c, NEW d
  PROVE  /\ Place(<<a>>) /\ Place(<<a, b>>) /\ Place(<<a, b, c>>)
         /\ IsPrefix(<<a>>, <<a>>) /\ IsPrefix(<<a, b>>, <<a, b>>) /\ IsPrefix(<<a, b>>, <<a, b, c>>)
         /\ IsPrefix(<<a, b>>, <<a, b, c, d>>) /\ IsPrefix(<<a, b, c>>, <<a, b, c>>)
<1> DEFINE S == {a, b, c, d}
           s1 == <<a>>
           s2 == <<a, b>>
           s3 == <<a, b, c>>
           s4 == <<a, b, c, d>>
<1>1. s1 \in Seq(S) /\ s2 \in Seq(S) /\ s3 \in Seq(S) /\ s4 \in Seq(S)
  OBVIOUS
<1>2. Len(s1) = 1 /\ Len(s2) = 2 /\ Len(s3) = 3 /\ Len(s4) = 4
  OBVIOUS
<1>3. ASSUME NEW k \in 1 .. 2 PROVE s2[k] = s3[k] /\ s2[k] = s4[k]
  <2>1. k = 1 \/ k = 2
    OBVIOUS
  <2> QED
    BY <2>1
<1> HIDE DEF S, s1, s2, s3, s4
<1>4. IsPrefix(s1, s1) /\ IsPrefix(s2, s2) /\ IsPrefix(s3, s3)
  BY <1>1, <1>2, PrefixFact
<1>5. IsPrefix(s2, s3) /\ IsPrefix(s2, s4)
  BY <1>1, <1>2, <1>3, PrefixFact
<1> QED
  BY <1>4, <1>5 DEF Place, s1, s2, s3, s4

LEMMA PlaceLiteral ==
  /\ \A a : Place(<<a>>)
  /\ \A a, b : Place(<<a, b>>)
  /\ \A a, b, c : Place(<<a, b, c>>)
BY AllLiterals

LEMMA PrefixLiteral ==
  /\ \A a : IsPrefix(<<a>>, <<a>>)
  /\ \A a, b : IsPrefix(<<a, b>>, <<a, b>>)
  /\ \A a, b, c : IsPrefix(<<a, b, c>>, <<a, b, c>>)
  /\ \A a, b, c : IsPrefix(<<a, b>>, <<a, b, c>>)
  /\ \A a, b, c, d : IsPrefix(<<a, b>>, <<a, b, c, d>>)
BY AllLiterals

\* sets of places with nothing in common
LEMMA Separate ==
  ASSUME NEW P, NEW Q, \A p \in P : Place(p), \A q \in Q : Place(q),
         \A p \in P, q \in Q : p[1] # q[1] \/ (Len(p) # 1 /\ Len(q) # 1 /\ p[2] # q[2])
  PROVE  ~ Meet(P, Q)
BY MeetFact

\* The pages of one record, which are left for a list.
Details ==
  {"RecordDetailPage", "ChangeDetailPage", "ChangeTaskDetailPage", "CatalogTaskDetailPage", "RequestedItemDetailPage",
   "RequestDetailPage", "ConfigurationItemDetailPage", "UserDetailPage", "GroupDetailPage", "WebhookDetailPage",
   "SecretDetailPage"}

\* a query that shows what a mutation changes is refreshed by it, or excepted,
\* or leaves the screen
Tells(m, q) ==
  Meet(m.changes, q.reads) =>
    Reaches(m.refreshes, q.key) \/ Unrefreshed(q.key, m) \/ q.key \in m.ends \/ (\E l : m.goes = <<l>>)

LEMMA Told ==
  ASSUME NEW m, NEW q, NEW k \in m.refreshes, IsPrefix(k, q.key)
  PROVE  Tells(m, q)
BY DEF Tells, Reaches

LEMMA Elsewhere ==
  ASSUME NEW m, NEW q, \A p \in m.changes : Place(p), \A z \in q.reads : Place(z),
         \A p \in m.changes, z \in q.reads : p[1] # z[1] \/ (Len(p) # 1 /\ Len(z) # 1 /\ p[2] # z[2])
  PROVE  Tells(m, q)
BY Separate DEF Tells

updateMutation(r, x) == Stay("update", updateRecord(r, x), {<<"record", r, x>>, <<"records", r>>, <<"activity", r, x>>})

\* what the page of a record shows, by its key and the place it reads
OwnKind(q, r, x) ==
  \/ q.key = <<"record", r, x>> /\ q.reads = {<<"rows", r, x>>}
  \/ q.key = <<"activity", r, x>> /\ q.reads = {<<"timeline", r, x>>}
  \/ q.key = <<"grants", r, x>> /\ q.reads = {<<"grants", r, x>>}
  \/ q.key = <<"attachments", r, x>> /\ q.reads = {<<"attachments", r, x>>}
  \/ q.key = <<"cascade-preview", r, x>>

OtherKind(q, r) ==
  \/ \E s, y : s # r /\ q.reads = {<<"rows", s, y>>} /\ q.key = <<"record", s, y>>
  \/ \E s : q.key = <<"records", s>> /\ q.reads = {<<"rows", s>>}
  \/ \E s, c, y : q.key = <<"records", s, c, y>> /\ q.reads = {<<"rows", s>>}
  \/ \E y : q.reads = {<<"variables", r, y>>}
  \/ \E t : q.reads = {<<"schema", t>>}

LEMMA UpdateRefreshes ==
  ASSUME NEW r, NEW x, NEW q, OwnKind(q, r, x) \/ OtherKind(q, r)
  PROVE  Tells(updateMutation(r, x), q)
<1> DEFINE m == updateMutation(r, x)
<1> SUFFICES Tells(m, q)
  OBVIOUS
<1>1. /\ m.changes = {<<"rows", r, x>>, <<"timeline", r, x>>}
      /\ m.refreshes = {<<"record", r, x>>, <<"records", r>>, <<"activity", r, x>>}
  BY DEF updateMutation, Stay, updateRecord, Row, Timeline
<1>2. \A p \in m.changes : Place(p)
  BY <1>1, PlaceLiteral
<1> HIDE DEF m
<1>3. CASE q.key \in {<<"record", r, x>>, <<"activity", r, x>>}
  <2>1. q.key \in m.refreshes
    BY <1>1, <1>3
  <2>2. IsPrefix(q.key, q.key)
    BY <1>3, PrefixLiteral
  <2> QED
    BY <2>1, <2>2, Told
<1>4. CASE q.key = <<"cascade-preview", r, x>>
  BY <1>4 DEF Tells, Unrefreshed
<1>5. CASE q.reads \in {{<<"grants", r, x>>}, {<<"attachments", r, x>>}}
  BY <1>1, <1>2, <1>5, PlaceLiteral, Elsewhere
<1>6. CASE \E s, y : s # r /\ q.reads = {<<"rows", s, y>>}
  BY <1>1, <1>2, <1>6, PlaceLiteral, Elsewhere
<1>7. CASE \E y : q.reads = {<<"variables", r, y>>} \/ q.reads = {<<"schema", y>>}
  BY <1>1, <1>2, <1>7, PlaceLiteral, Elsewhere
<1>8. ASSUME NEW s, q.reads = {<<"rows", s>>}, IsPrefix(<<"records", s>>, q.key) PROVE Tells(m, q)
  <2>1. CASE s = r
    BY <1>1, <1>8, <2>1, Told
  <2>2. CASE s # r
    BY <1>1, <1>2, <1>8, <2>2, PlaceLiteral, Elsewhere
  <2> QED
    BY <2>1, <2>2
<1>9. CASE \E s : q.key = <<"records", s>> /\ q.reads = {<<"rows", s>>}
  BY <1>8, <1>9, PrefixLiteral
<1>10. CASE \E s, c, y : q.key = <<"records", s, c, y>> /\ q.reads = {<<"rows", s>>}
  <2>1. PICK s, c, y : q.key = <<"records", s, c, y>> /\ q.reads = {<<"rows", s>>}
    BY <1>10
  <2>2. IsPrefix(<<"records", s>>, <<"records", s, c, y>>)
    BY PrefixLiteral
  <2> QED
    BY <1>8, <2>1, <2>2
<1>11. CASE OwnKind(q, r, x)
  BY <1>3, <1>4, <1>5, <1>11 DEF OwnKind
<1>12. CASE OtherKind(q, r)
  BY <1>6, <1>7, <1>9, <1>10, <1>12 DEF OtherKind
<1> QED
  BY <1>11, <1>12

\* a new owner
LEMMA OwnerRefreshes ==
  ASSUME NEW r, NEW x, NEW q, OwnKind(q, r, x) \/ OtherKind(q, r)
  PROVE  Tells(ownerMutation(r, x), q)
<1> DEFINE m == ownerMutation(r, x)
<1> SUFFICES Tells(m, q)
  OBVIOUS
<1>1. m.name = "owner" /\ m.changes = {<<"rows", r, x>>, <<"timeline", r, x>>} /\ m.refreshes = {<<"record", r, x>>}
  BY DEF ownerMutation, Stay, updateRecord, Row, Timeline
<1>2. \A p \in m.changes : Place(p)
  BY <1>1, PlaceLiteral
<1> HIDE DEF m
<1>3. CASE q.key = <<"record", r, x>>
  <2>1. <<"record", r, x>> \in m.refreshes /\ IsPrefix(<<"record", r, x>>, q.key)
    BY <1>1, <1>3, PrefixLiteral
  <2> QED
    BY <2>1, Told
<1>4. CASE q.key[1] \in {"activity", "records", "cascade-preview"}
  BY <1>1, <1>4 DEF Tells, Unrefreshed
<1>5. CASE q.reads \in {{<<"grants", r, x>>}, {<<"attachments", r, x>>}}
  BY <1>1, <1>2, <1>5, PlaceLiteral, Elsewhere
<1>6. CASE \E s, y : s # r /\ q.reads = {<<"rows", s, y>>}
  BY <1>1, <1>2, <1>6, PlaceLiteral, Elsewhere
<1>7. CASE \E y : q.reads = {<<"variables", r, y>>} \/ q.reads = {<<"schema", y>>}
  BY <1>1, <1>2, <1>7, PlaceLiteral, Elsewhere
<1>8. CASE OwnKind(q, r, x)
  BY <1>3, <1>4, <1>5, <1>8 DEF OwnKind
<1>9. CASE OtherKind(q, r)
  <2>1. ASSUME NEW s, q.key = <<"records", s>> PROVE Tells(m, q)
    BY <1>4, <2>1
  <2>2. ASSUME NEW s, NEW c, NEW y, q.key = <<"records", s, c, y>> PROVE Tells(m, q)
    BY <1>4, <2>2
  <2> QED
    BY <1>6, <1>7, <1>9, <2>1, <2>2 DEF OtherKind
<1> QED
  BY <1>8, <1>9

\* a mutation of what only one query of the page shows
LEMMA OwnRefreshes ==
  ASSUME NEW r, NEW x, NEW q, OwnKind(q, r, x) \/ OtherKind(q, r),
         NEW place \in {"grants", "timeline", "attachments"}, NEW name, NEW m,
         m = Stay(name, {<<place, r, x>>}, {<<IF place = "timeline" THEN "activity" ELSE place, r, x>>})
  PROVE  Tells(m, q)
<1> DEFINE key == <<IF place = "timeline" THEN "activity" ELSE place, r, x>>
<1>1. m.changes = {<<place, r, x>>} /\ m.refreshes = {key}
  BY DEF Stay
<1>2. \A p \in m.changes : Place(p)
  BY <1>1, PlaceLiteral
<1>0. IsPrefix(key, key)
  BY PrefixLiteral
<1> HIDE DEF key
<1>3. CASE q.key = key
  BY <1>0, <1>1, <1>3, Told
<1>4. ASSUME NEW z, Place(z), z[1] # place, q.reads = {z} PROVE Tells(m, q)
  <2>0. <<place, r, x>>[1] = place
    OBVIOUS
  <2>1. \A p \in m.changes : p[1] = place
    BY <1>1, <2>0
  <2>2. \A p \in m.changes, y \in q.reads : p[1] # y[1]
    BY <1>4, <2>1
  <2>3. \A y \in q.reads : Place(y)
    BY <1>4
  <2> QED
    BY <1>2, <2>2, <2>3, Elsewhere
<1>5. CASE \E a, b, c : a # place /\ q.reads \in {{<<a>>}, {<<a, b>>}, {<<a, b, c>>}}
  <2>1. PICK a, b, c : a # place /\ q.reads \in {{<<a>>}, {<<a, b>>}, {<<a, b, c>>}}
    BY <1>5
  <2>2. Place(<<a>>) /\ Place(<<a, b>>) /\ Place(<<a, b, c>>)
    BY PlaceLiteral
  <2>3. <<a>>[1] = a /\ <<a, b>>[1] = a /\ <<a, b, c>>[1] = a
    OBVIOUS
  <2> QED
    BY <1>4, <2>1, <2>2, <2>3
<1>6. CASE q.key = <<"cascade-preview", r, x>>
  BY <1>6 DEF Tells, Unrefreshed
<1>7. ASSUME OwnKind(q, r, x)
      PROVE  q.key \in {key, <<"cascade-preview", r, x>>} \/ \E a, b, c : a # place /\ q.reads = {<<a, b, c>>}
  BY <1>7 DEF OwnKind, key
<1>8. ASSUME OtherKind(q, r) PROVE \E a, b, c : a # place /\ q.reads \in {{<<a, b>>}, {<<a, b, c>>}}
  BY <1>8 DEF OtherKind
<1> QED
  BY <1>3, <1>5, <1>6, <1>7, <1>8

\* what the page of a record offers
RecordMutation(m, r, x) ==
  \/ m = updateMutation(r, x) \/ m = ownerMutation(r, x)
  \/ \E l : m.goes = <<l>>
  \/ \E place \in {"grants", "timeline", "attachments"} : \E name :
       m = Stay(name, {<<place, r, x>>}, {<<IF place = "timeline" THEN "activity" ELSE place, r, x>>})

LEMMA RecordRefreshes ==
  ASSUME NEW r, NEW x, NEW q, OwnKind(q, r, x) \/ OtherKind(q, r), NEW m, RecordMutation(m, r, x)
  PROVE  Tells(m, q)
<1>1. CASE \E l : m.goes = <<l>>
  BY <1>1 DEF Tells
<1> QED
  BY <1>1, UpdateRefreshes, OwnerRefreshes, OwnRefreshes DEF RecordMutation

LEMMA PartsFact ==
  ASSUME NEW parts
  PROVE  Parts(parts).shows = UNION {p.shows : p \in parts} /\ Parts(parts).offers = UNION {p.offers : p \in parts}
BY DEF Parts, Part

LEMMA PageParts ==
  ASSUME NEW path, NEW component, NEW parts
  PROVE  /\ Page(path, component, parts).path = path
         /\ Page(path, component, parts).component = component
         /\ Page(path, component, parts).shows = UNION {p.shows : p \in parts}
         /\ Page(path, component, parts).offers = UNION {p.offers : p \in parts}
BY PartsFact DEF Page

\* a part of the page of a record
RecordPart(p, r, x) ==
  /\ \A q \in p.shows : OwnKind(q, r, x) \/ OtherKind(q, r)
  /\ \A m \in p.offers : RecordMutation(m, r, x)

LEMMA RecordsFact ==
  ASSUME NEW r, NEW x, NEW s
  PROVE  OtherKind(Records(s), r)
BY DEF OtherKind, Records, Query, Rows

LEMMA SharePart ==
  ASSUME NEW r, NEW x
  PROVE  RecordPart(RecordSharePanel(r, x), r, x)
<1> DEFINE p == RecordSharePanel(r, x)
           g == Query(<<"grants", r, x>>, listGrants(r, x))
           create == Stay("createGrant", createGrant(r, x), {<<"grants", r, x>>})
           delete == Stay("deleteGrant", deleteGrant(r, x), {<<"grants", r, x>>})
<1>1. p.shows = {g, Records("users"), Records("groups")} /\ p.offers = {ownerMutation(r, x), create, delete}
  BY DEF RecordSharePanel, Part
<1>2. OwnKind(g, r, x)
  BY DEF OwnKind, Query, listGrants
<1>3. create = Stay("createGrant", {<<"grants", r, x>>}, {<<"grants", r, x>>})
  BY DEF createGrant, listGrants
<1>4. delete = Stay("deleteGrant", {<<"grants", r, x>>}, {<<"grants", r, x>>})
  BY DEF deleteGrant, listGrants
<1> HIDE DEF p, g, create, delete
<1>5. RecordMutation(create, r, x) /\ RecordMutation(delete, r, x)
  BY <1>3, <1>4 DEF RecordMutation
<1>6. RecordMutation(ownerMutation(r, x), r, x)
  BY DEF RecordMutation
<1>7. RecordPart(p, r, x)
  BY <1>1, <1>2, <1>5, <1>6, RecordsFact DEF RecordPart
<1> QED
  BY <1>7 DEF p

LEMMA DeletePart ==
  ASSUME NEW r, NEW x, NEW l
  PROVE  RecordPart(RecordDeleteButton(r, x, <<l>>), r, x)
<1> DEFINE p == RecordDeleteButton(r, x, <<l>>)
           q == Query(<<"cascade-preview", r, x>>, getCascadePreview(r, x))
           m == Leave("delete", deleteRecord(r, x), {<<"records", r>>, <<"dashboard">>}, <<l>>)
<1>1. p.shows = {q} /\ p.offers = {m}
  BY DEF RecordDeleteButton, Part
<1>2. OwnKind(q, r, x)
  BY DEF OwnKind, Query
<1>3. RecordMutation(m, r, x)
  BY DEF RecordMutation, Leave, Stay
<1> HIDE DEF p, q, m
<1>4. RecordPart(p, r, x)
  BY <1>1, <1>2, <1>3 DEF RecordPart
<1> QED
  BY <1>4 DEF p

LEMMA HeaderPart ==
  ASSUME NEW r, NEW x, NEW l
  PROVE  RecordPart(RecordDetailHeaderActions(r, x, <<l>>), r, x)
BY SharePart, DeletePart, PartsFact DEF RecordDetailHeaderActions, RecordPart

LEMMA FeedPart ==
  ASSUME NEW r, NEW x
  PROVE  RecordPart(RecordActivityFeed(r, x), r, x)
<1> DEFINE p == RecordActivityFeed(r, x)
           q1 == Query(<<"activity", r, x>>, listActivity(r, x))
           q2 == Query(<<"attachments", r, x>>, listAttachments(r, x))
           m1 == Stay("comment", createComment(r, x), {<<"activity", r, x>>})
           m2 == Stay("upload", uploadAttachment(r, x), {<<"attachments", r, x>>})
           m3 == Stay("deleteAttachment", deleteAttachment(r, x), {<<"attachments", r, x>>})
<1>1. p.shows = {q1, q2} /\ p.offers = {m1, m2, m3}
  BY DEF RecordActivityFeed, Part
<1>2. OwnKind(q1, r, x)
  BY DEF OwnKind, Query, listActivity, Timeline
<1>3. OwnKind(q2, r, x)
  BY DEF OwnKind, Query, listAttachments
<1>4. m1 = Stay("comment", {<<"timeline", r, x>>}, {<<"activity", r, x>>})
  BY DEF createComment, Timeline
<1>5. m2 = Stay("upload", {<<"attachments", r, x>>}, {<<"attachments", r, x>>})
  BY DEF uploadAttachment, listAttachments
<1>6. m3 = Stay("deleteAttachment", {<<"attachments", r, x>>}, {<<"attachments", r, x>>})
  BY DEF deleteAttachment, listAttachments
<1> HIDE DEF p, q1, q2, m1, m2, m3
<1>7. RecordMutation(m1, r, x) /\ RecordMutation(m2, r, x) /\ RecordMutation(m3, r, x)
  BY <1>4, <1>5, <1>6 DEF RecordMutation
<1>8. RecordPart(p, r, x)
  BY <1>1, <1>2, <1>3, <1>7 DEF RecordPart
<1> QED
  BY <1>8 DEF p

\* A page whose mutations refresh what it shows, or leave it.
PageCovered(p) ==
  /\ \A q \in p.shows, m \in p.offers : Tells(m, q)
  /\ \/ p.component \in Details /\ \E a, b : p.path = <<a, b>>
     \/ p.component \notin Details /\ \A m \in p.offers : \A l : m.goes # <<l>>

LEMMA RecordPageCovered ==
  ASSUME NEW r, NEW x, NEW component \in Details, NEW parts, \A t \in parts : RecordPart(t, r, x)
  PROVE  PageCovered(Page(<<r, x>>, component, parts))
<1> DEFINE p == Page(<<r, x>>, component, parts)
<1>1. p.component \in Details /\ p.path = <<r, x>>
  BY PageParts
<1>2. \A q \in p.shows : OwnKind(q, r, x) \/ OtherKind(q, r)
  BY PageParts DEF RecordPart
<1>3. \A m \in p.offers : RecordMutation(m, r, x)
  BY PageParts DEF RecordPart
<1> HIDE DEF p
<1>4. PageCovered(p)
  BY <1>1, <1>2, <1>3, RecordRefreshes DEF PageCovered
<1> QED
  BY <1>4 DEF p

LEMMA OtherFact ==
  ASSUME NEW r, NEW s, NEW c, NEW y
  PROVE  /\ OtherKind(Related(s, c, y), r)
         /\ s # r => OtherKind(Record(s, y), r)
         /\ OtherKind(Query(<<"record-variables", r, y>>, listRecordVariables(r, y)), r)
         /\ OtherKind(Query(<<"cmdb-class-schema", y>>, getCmdbClassSchema(y)), r)
<1>1. Related(s, c, y).key = <<"records", s, c, y>> /\ Related(s, c, y).reads = {<<"rows", s>>}
  BY DEF Related, Query, Rows
<1>2. Record(s, y).key = <<"record", s, y>> /\ Record(s, y).reads = {<<"rows", s, y>>}
  BY DEF Record, Query, Row
<1>3. Query(<<"record-variables", r, y>>, listRecordVariables(r, y)).reads = {<<"variables", r, y>>}
  BY DEF Query, listRecordVariables
<1>4. Query(<<"cmdb-class-schema", y>>, getCmdbClassSchema(y)).reads = {<<"schema", y>>}
  BY DEF Query, getCmdbClassSchema, Schema
<1>5. OtherKind(Related(s, c, y), r)
  BY <1>1 DEF OtherKind
<1>6. s # r => OtherKind(Record(s, y), r)
  BY <1>2 DEF OtherKind
<1>7. OtherKind(Query(<<"record-variables", r, y>>, listRecordVariables(r, y)), r)
  BY <1>3 DEF OtherKind
<1>8. OtherKind(Query(<<"cmdb-class-schema", y>>, getCmdbClassSchema(y)), r)
  BY <1>4 DEF OtherKind
<1> QED
  BY <1>5, <1>6, <1>7, <1>8

LEMMA MainPart ==
  ASSUME NEW r, NEW x, NEW shows, \A q \in shows : q = Record(r, x) \/ OtherKind(q, r)
  PROVE  RecordPart(Part(shows, {updateMutation(r, x)}), r, x)
<1>1. OwnKind(Record(r, x), r, x)
  BY DEF OwnKind, Record, Query, Row
<1>2. RecordMutation(updateMutation(r, x), r, x)
  BY DEF RecordMutation
<1> QED
  BY <1>1, <1>2 DEF RecordPart, Part

\* the page of a record, with what it shows besides owner, grants and timeline
DetailPage(r, x, component, shows) ==
  Page(<<r, x>>, component,
       {Part(shows, {updateMutation(r, x)}), RecordDetailHeaderActions(r, x, <<r>>), RecordActivityFeed(r, x)})

LEMMA RecordPage ==
  ASSUME NEW r, NEW x, NEW component \in Details, NEW shows, \A q \in shows : q = Record(r, x) \/ OtherKind(q, r)
  PROVE  PageCovered(DetailPage(r, x, component, shows))
<1> DEFINE parts == {Part(shows, {updateMutation(r, x)}), RecordDetailHeaderActions(r, x, <<r>>), RecordActivityFeed(r, x)}
<1>1. \A t \in parts : RecordPart(t, r, x)
  BY MainPart, HeaderPart, FeedPart
<1>2. DetailPage(r, x, component, shows) = Page(<<r, x>>, component, parts)
  BY DEF DetailPage
<1> HIDE DEF parts
<1> QED
  BY <1>1, <1>2, RecordPageCovered

LEMMA RecordDetailPageCovered ==
  ASSUME NEW r, NEW x
  PROVE  PageCovered(RecordDetailPage(r, x))
<1> DEFINE shows == {Record(r, x)}
<1>1. RecordDetailPage(r, x) = DetailPage(r, x, "RecordDetailPage", shows)
  BY DEF RecordDetailPage, DetailPage, updateMutation
<1>2. \A q \in shows : q = Record(r, x) \/ OtherKind(q, r)
  BY OtherFact
<1> HIDE DEF shows
<1> QED
  BY <1>1, <1>2, RecordPage DEF Details

LEMMA ChangeDetailPageCovered ==
  ASSUME NEW x
  PROVE  PageCovered(ChangeDetailPage(x))
<1> DEFINE shows == {Record("change-requests", x), Related("change-tasks", "change_request", x)}
<1>1. ChangeDetailPage(x) = DetailPage("change-requests", x, "ChangeDetailPage", shows)
  BY DEF ChangeDetailPage, DetailPage, updateMutation
<1>2. \A q \in shows : q = Record("change-requests", x) \/ OtherKind(q, "change-requests")
  BY OtherFact
<1> HIDE DEF shows
<1> QED
  BY <1>1, <1>2, RecordPage DEF Details

LEMMA RequestDetailPageCovered ==
  ASSUME NEW x
  PROVE  PageCovered(RequestDetailPage(x))
<1> DEFINE shows == {Record("catalog-requests", x), Related("catalog-request-items", "request", x),
                     Related("catalog-tasks", "request", x)}
<1>1. RequestDetailPage(x) = DetailPage("catalog-requests", x, "RequestDetailPage", shows)
  BY DEF RequestDetailPage, DetailPage, updateMutation
<1>2. \A q \in shows : q = Record("catalog-requests", x) \/ OtherKind(q, "catalog-requests")
  BY OtherFact
<1> HIDE DEF shows
<1> QED
  BY <1>1, <1>2, RecordPage DEF Details

LEMMA ChangeTaskDetailPageCovered ==
  ASSUME NEW x, NEW y
  PROVE  PageCovered(ChangeTaskDetailPage(x, y))
<1> DEFINE shows == {Record("change-tasks", x), Record("change-requests", y)}
<1>1. ChangeTaskDetailPage(x, y) = DetailPage("change-tasks", x, "ChangeTaskDetailPage", shows)
  BY DEF ChangeTaskDetailPage, DetailPage, updateMutation
<1>2. \A q \in shows : q = Record("change-tasks", x) \/ OtherKind(q, "change-tasks")
  BY OtherFact
<1> HIDE DEF shows
<1> QED
  BY <1>1, <1>2, RecordPage DEF Details

LEMMA CatalogTaskDetailPageCovered ==
  ASSUME NEW x, NEW y
  PROVE  PageCovered(CatalogTaskDetailPage(x, y))
<1> DEFINE shows == {Record("catalog-tasks", x), Record("catalog-requests", y)}
<1>1. CatalogTaskDetailPage(x, y) = DetailPage("catalog-tasks", x, "CatalogTaskDetailPage", shows)
  BY DEF CatalogTaskDetailPage, DetailPage, updateMutation
<1>2. \A q \in shows : q = Record("catalog-tasks", x) \/ OtherKind(q, "catalog-tasks")
  BY OtherFact
<1> HIDE DEF shows
<1> QED
  BY <1>1, <1>2, RecordPage DEF Details

LEMMA RequestedItemDetailPageCovered ==
  ASSUME NEW x, NEW y
  PROVE  PageCovered(RequestedItemDetailPage(x, y))
<1> DEFINE shows == {Record("catalog-request-items", x), Record("catalog-requests", y),
                     Related("catalog-request-items", "request", y), Related("catalog-tasks", "request_item", x),
                     Query(<<"record-variables", "catalog-request-items", x>>,
                           listRecordVariables("catalog-request-items", x))}
<1>1. RequestedItemDetailPage(x, y) = DetailPage("catalog-request-items", x, "RequestedItemDetailPage", shows)
  BY DEF RequestedItemDetailPage, DetailPage, updateMutation
<1>2. \A q \in shows : q = Record("catalog-request-items", x) \/ OtherKind(q, "catalog-request-items")
  BY OtherFact
<1> HIDE DEF shows
<1> QED
  BY <1>1, <1>2, RecordPage DEF Details

LEMMA ConfigurationItemDetailPageCovered ==
  ASSUME NEW x, NEW y
  PROVE  PageCovered(ConfigurationItemDetailPage(x, y))
<1> DEFINE r == "configuration-items"
           parts == {Part({Record(r, x)}, {updateMutation(r, x)}), ClassHierarchyPanel(y),
                     RecordDetailHeaderActions(r, x, <<r>>), RecordActivityFeed(r, x)}
<1>1. ConfigurationItemDetailPage(x, y) = Page(<<r, x>>, "ConfigurationItemDetailPage", parts)
  BY DEF ConfigurationItemDetailPage, updateMutation
<1>2. RecordPart(Part({Record(r, x)}, {updateMutation(r, x)}), r, x)
  BY MainPart
<1>3. RecordPart(ClassHierarchyPanel(y), r, x)
  <2>1. OtherKind(Query(<<"cmdb-class-schema", y>>, getCmdbClassSchema(y)), r)
    BY OtherFact
  <2> QED
    BY <2>1 DEF RecordPart, ClassHierarchyPanel, Part
<1>4. \A t \in parts : RecordPart(t, r, x)
  BY <1>2, <1>3, HeaderPart, FeedPart
<1> HIDE DEF parts
<1>5. PageCovered(Page(<<r, x>>, "ConfigurationItemDetailPage", parts))
  BY <1>4, RecordPageCovered DEF Details
<1> QED
  BY <1>1, <1>5

\* users and groups, whose update tells no timeline
LEMMA PlainPage ==
  ASSUME NEW r, NEW x, NEW component \in Details, NEW shows,
         \A q \in shows : q = Record(r, x) \/ \E s : q = Records(s)
  PROVE  PageCovered(Page(<<r, x>>, component,
           {Part(shows, {Stay("update", updateRecord(r, x), {<<"record", r, x>>, <<"records", r>>})}),
            RecordDeleteButton(r, x, <<r>>)}))
<1> DEFINE m == Stay("update", updateRecord(r, x), {<<"record", r, x>>, <<"records", r>>})
           button == RecordDeleteButton(r, x, <<r>>)
           preview == Query(<<"cascade-preview", r, x>>, getCascadePreview(r, x))
           p == Page(<<r, x>>, component, {Part(shows, {m}), button})
<1>1. /\ m.changes = {<<"rows", r, x>>, <<"timeline", r, x>>}
      /\ m.refreshes = {<<"record", r, x>>, <<"records", r>>}
  BY DEF Stay, updateRecord, Row, Timeline
<1>2. \A c \in m.changes : Place(c)
  BY <1>1, PlaceLiteral
<1>3. button.shows = {preview} /\ \A d \in button.offers : d.goes = <<r>>
  BY DEF RecordDeleteButton, Part, Leave, Stay
<1>4. preview.key[1] = "cascade-preview"
  BY DEF Query
<1>5. p.shows = shows \cup {preview} /\ p.offers = {m} \cup button.offers
  <2>1. Part(shows, {m}).shows = shows /\ Part(shows, {m}).offers = {m}
    BY DEF Part
  <2> DEFINE main == Part(shows, {m})
             parts == {main, button}
  <2> HIDE DEF parts
  <2>2. /\ Page(<<r, x>>, component, parts).shows = UNION {t.shows : t \in parts}
        /\ Page(<<r, x>>, component, parts).offers = UNION {t.offers : t \in parts}
    BY PageParts
  <2>4. p = Page(<<r, x>>, component, parts)
    BY DEF parts
  <2> HIDE DEF m, button, preview, main, p
  <2>3. main.shows = shows /\ main.offers = {m}
    BY <2>1 DEF main
  <2>5. /\ UNION {t.shows : t \in parts} = main.shows \cup button.shows
        /\ UNION {t.offers : t \in parts} = main.offers \cup button.offers
    BY DEF parts
  <2>6. p.shows = main.shows \cup button.shows /\ p.offers = main.offers \cup button.offers
    BY <2>2, <2>4, <2>5
  <2> QED
    BY <1>3, <2>3, <2>6
<1>6. p.path = <<r, x>> /\ p.component = component
  BY PageParts
<1> HIDE DEF m, button, preview, p
<1>7. Tells(m, preview)
  BY <1>4 DEF Tells, Unrefreshed
<1>8. ASSUME NEW q \in shows PROVE Tells(m, q)
  <2>1. CASE q = Record(r, x)
    <3>1. q.key = <<"record", r, x>>
      BY <2>1 DEF Record, Query
    <3>2. <<"record", r, x>> \in m.refreshes /\ IsPrefix(<<"record", r, x>>, q.key)
      BY <1>1, <3>1, PrefixLiteral
    <3> QED
      BY <3>2, Told
  <2>2. CASE \E s : q = Records(s)
    <3>1. PICK s : q.key = <<"records", s>> /\ q.reads = {<<"rows", s>>}
      BY <2>2 DEF Records, Query, Rows
    <3>2. CASE s = r
      <4>1. <<"records", s>> \in m.refreshes /\ IsPrefix(<<"records", s>>, q.key)
        BY <1>1, <3>1, <3>2, PrefixLiteral
      <4> QED
        BY <4>1, Told
    <3>3. CASE s # r
      BY <1>1, <1>2, <3>1, <3>3, PlaceLiteral, Elsewhere
    <3> QED
      BY <3>2, <3>3
  <2> QED
    BY <2>1, <2>2
<1>9. \A q \in p.shows, d \in p.offers : Tells(d, q)
  BY <1>3, <1>5, <1>7, <1>8 DEF Tells
<1>10. PageCovered(p)
  BY <1>6, <1>9 DEF PageCovered
<1> QED
  BY <1>10 DEF p, m, button

LEMMA UserAndGroupCovered ==
  ASSUME NEW x
  PROVE  PageCovered(UserDetailPage(x)) /\ PageCovered(GroupDetailPage(x))
<1>1. PageCovered(Page(<<"users", x>>, "UserDetailPage",
           {Part({Record("users", x), Records("users")},
              {Stay("update", updateRecord("users", x), {<<"record", "users", x>>, <<"records", "users">>})}),
            RecordDeleteButton("users", x, <<"users">>)}))
  BY PlainPage DEF Details
<1>2. PageCovered(Page(<<"groups", x>>, "GroupDetailPage",
           {Part({Record("groups", x), Records("users"), Records("groups")},
              {Stay("update", updateRecord("groups", x), {<<"record", "groups", x>>, <<"records", "groups">>})}),
            RecordDeleteButton("groups", x, <<"groups">>)}))
  BY PlainPage DEF Details
<1> QED
  BY <1>1, <1>2 DEF UserDetailPage, GroupDetailPage

\* The other pages: lists, which stay, and pages of the catalog, of webhooks,
\* secrets, classes and settings.
LEMMA QueryFact == \A key, reads : Query(key, reads).key = key /\ Query(key, reads).reads = reads
BY DEF Query

LEMMA OnePart ==
  ASSUME NEW path, NEW component, NEW shows, NEW offers
  PROVE  LET p == Page(path, component, {Part(shows, offers)})
         IN  p.path = path /\ p.component = component /\ p.shows = shows /\ p.offers = offers
<1> DEFINE t == Part(shows, offers)
           parts == {t}
<1>1. t.shows = shows /\ t.offers = offers
  BY DEF Part
<1> HIDE DEF t
<1>2. UNION {u.shows : u \in parts} = shows /\ UNION {u.offers : u \in parts} = offers
  BY <1>1
<1> HIDE DEF parts
<1>3. /\ Page(path, component, parts).path = path /\ Page(path, component, parts).component = component
      /\ Page(path, component, parts).shows = UNION {u.shows : u \in parts}
      /\ Page(path, component, parts).offers = UNION {u.offers : u \in parts}
  BY PageParts
<1> QED
  BY <1>2, <1>3 DEF parts, t

LEMMA RecordListPageCovered ==
  ASSUME NEW r
  PROVE  PageCovered(RecordListPage(r))
<1> DEFINE told == {<<"records", r>>, <<"dashboard">>}
           q1 == Query(<<"records", r, "page">>, Rows(r))
           q2 == Query(<<"cascade-preview", r, "selected">>, AllRows)
           m1 == Stay("create", Rows(r), told)
           m2 == Ending("bulkDelete", AllRows, told, {q2.key})
           p == Page(<<r>>, "RecordListPage", {Part({q1, q2}, {m1, m2})})
<1>1. m1.refreshes = told /\ m2.refreshes = told /\ m1.goes = <<>> /\ m2.goes = <<>>
  BY DEF Stay, Ending
<1>2. q1.key = <<"records", r, "page">> /\ q2.key = <<"cascade-preview", r, "selected">>
  BY QueryFact
<1>3. RecordListPage(r) = p
  BY DEF RecordListPage
<1> HIDE DEF q1, q2, m1, m2
<1>4. p.component = "RecordListPage" /\ p.shows = {q1, q2} /\ p.offers = {m1, m2}
  BY OnePart
<1> HIDE DEF p
<1>5. ASSUME NEW m \in {m1, m2} PROVE Tells(m, q1) /\ Tells(m, q2)
  <2>1. <<"records", r>> \in m.refreshes /\ IsPrefix(<<"records", r>>, q1.key)
    BY <1>1, <1>2, PrefixLiteral
  <2>2. Tells(m, q1)
    BY <2>1, Told
  <2>3. Tells(m, q2)
    BY <1>2 DEF Tells, Unrefreshed
  <2> QED
    BY <2>2, <2>3
<1>6. p.component \notin Details
  BY <1>4 DEF Details
<1>7. \A m \in p.offers : \A l : m.goes # <<l>>
  BY <1>1, <1>4
<1>8. PageCovered(p)
  BY <1>4, <1>5, <1>6, <1>7 DEF PageCovered
<1> QED
  BY <1>3, <1>8

\* a page of one part, that is not left for a list
LEMMA SimplePage ==
  ASSUME NEW path, NEW component, component \notin Details, NEW shows, NEW offers,
         \A m \in offers : Len(m.goes) # 1, \A q \in shows, m \in offers : Tells(m, q)
  PROVE  PageCovered(Page(path, component, {Part(shows, offers)}))
<1> DEFINE p == Page(path, component, {Part(shows, offers)})
<1>1. p.component = component /\ p.shows = shows /\ p.offers = offers
  BY OnePart
<1> HIDE DEF p
<1>2. PageCovered(p)
  BY <1>1 DEF PageCovered
<1> QED
  BY <1>2 DEF p

LEMMA ListsCovered == PageCovered(UsersPage) /\ PageCovered(GroupsListPage)
<1>1. ASSUME NEW r
      PROVE  Tells(Stay("create", Rows(r), {<<"records", r>>, <<"dashboard">>}), Query(<<"records", r, "page">>, Rows(r)))
  <2> DEFINE m == Stay("create", Rows(r), {<<"records", r>>, <<"dashboard">>})
             q == Query(<<"records", r, "page">>, Rows(r))
  <2>1. <<"records", r>> \in m.refreshes
    BY DEF Stay
  <2>2. IsPrefix(<<"records", r>>, q.key)
    BY QueryFact, PrefixLiteral
  <2> HIDE DEF m, q
  <2>3. Tells(m, q)
    BY <2>1, <2>2, Told
  <2> QED
    BY <2>3 DEF m, q
<1>2. \A r : Stay("create", Rows(r), {<<"records", r>>, <<"dashboard">>}).goes = <<>>
  BY DEF Stay
<1>3. ASSUME NEW r, NEW path, NEW component, component \notin Details
      PROVE  PageCovered(Page(path, component, {Part({Query(<<"records", r, "page">>, Rows(r))},
                                                  {Stay("create", Rows(r), {<<"records", r>>, <<"dashboard">>})})}))
  <2> DEFINE shows == {Query(<<"records", r, "page">>, Rows(r))}
             offers == {Stay("create", Rows(r), {<<"records", r>>, <<"dashboard">>})}
  <2>1. \A m \in offers : Len(m.goes) # 1
    BY <1>2
  <2>2. \A q \in shows, m \in offers : Tells(m, q)
    BY <1>1
  <2> HIDE DEF shows, offers
  <2>3. PageCovered(Page(path, component, {Part(shows, offers)}))
    BY <1>3, <2>1, <2>2, SimplePage
  <2> QED
    BY <2>3 DEF shows, offers
<1> QED
  BY <1>3 DEF UsersPage, GroupsListPage, Details

LEMMA QuietPages ==
  PageCovered(DashboardPage) /\ PageCovered(CatalogBrowsePage) /\ PageCovered(HelpPage)
<1>1. ASSUME NEW path, NEW component, component \notin Details, NEW shows
      PROVE  PageCovered(Page(path, component, {Part(shows, {})}))
  BY <1>1, SimplePage
<1>2. PageCovered(DashboardPage) /\ PageCovered(CatalogBrowsePage)
  BY <1>1 DEF DashboardPage, CatalogBrowsePage, Details
<1>3. PageCovered(HelpPage)
  <2>1. HelpPage.component = "HelpPage" /\ HelpPage.offers = UNION {p.offers : p \in {}}
    BY PageParts DEF HelpPage
  <2>2. UNION {p.offers : p \in {}} = {}
    OBVIOUS
  <2> QED
    BY <2>1, <2>2 DEF PageCovered, Details
<1> QED
  BY <1>2, <1>3

\* a mutation that names the key
LEMMA ToldKey ==
  ASSUME NEW m, NEW q, q.key \in m.refreshes, Place(q.key)
  PROVE  Tells(m, q)
<1>1. PICK S : q.key \in Seq(S) /\ Len(q.key) \in {1, 2, 3}
  BY PlaceFact
<1>2. IsPrefix(q.key, q.key)
  BY <1>1, PrefixFact
<1> QED
  BY <1>2, Told

LEMMA WebhooksSecretsCovered == PageCovered(CatalogWebhooksPage) /\ PageCovered(CatalogSecretsPage)
<1>1. webhooks.key = <<"catalog-webhooks">> /\ webhooks.reads = {<<"webhooks">>}
  BY DEF webhooks, Query, adminListWebhooks
<1>2. secrets.key = <<"integration-secrets">> /\ secrets.reads = {<<"secrets">>}
  BY DEF secrets, Query, listSecrets
<1> DEFINE m == Stay("create", adminCreateWebhook, {<<"catalog-webhooks">>})
           d == Stay("create", createSecret, {<<"integration-secrets">>})
<1>3. m.changes = {<<"webhooks">>} /\ m.refreshes = {<<"catalog-webhooks">>} /\ m.goes = <<>>
  BY DEF Stay, adminCreateWebhook, adminListWebhooks
<1>4. d.changes = {<<"secrets">>} /\ d.refreshes = {<<"integration-secrets">>} /\ d.goes = <<>>
  BY DEF Stay, createSecret, listSecrets
<1> HIDE DEF m, d
<1>5. Tells(m, webhooks)
  <2>1. webhooks.key \in m.refreshes /\ Place(webhooks.key)
    BY <1>1, <1>3, PlaceLiteral
  <2> QED
    BY <2>1, ToldKey
<1>6. Tells(m, secrets)
  BY <1>2, <1>3, PlaceLiteral, Elsewhere
<1>7. Tells(d, secrets)
  <2>1. secrets.key \in d.refreshes /\ Place(secrets.key)
    BY <1>2, <1>4, PlaceLiteral
  <2> QED
    BY <2>1, ToldKey
<1>8. PageCovered(Page(<<"webhooks">>, "CatalogWebhooksPage", {Part({webhooks, secrets}, {m})}))
  <2>1. \A q \in {webhooks, secrets}, e \in {m} : Tells(e, q) /\ Len(e.goes) # 1
    BY <1>3, <1>5, <1>6
  <2> QED
    BY <2>1, SimplePage DEF Details
<1>9. PageCovered(Page(<<"secrets">>, "CatalogSecretsPage", {Part({secrets}, {d})}))
  <2>1. \A q \in {secrets}, e \in {d} : Tells(e, q) /\ Len(e.goes) # 1
    BY <1>4, <1>7
  <2> QED
    BY <2>1, SimplePage DEF Details
<1> QED
  BY <1>8, <1>9 DEF CatalogWebhooksPage, CatalogSecretsPage, m, d

LEMMA SettingsCovered == PageCovered(SettingsPage)
<1> DEFINE q1 == Query(<<"api-keys">>, listApiKeys)
           q2 == Query(<<"oauth-clients">>, listOAuthClients)
           m1 == Stay("createKey", createApiKey, {<<"api-keys">>})
           m2 == Stay("createClient", createOAuthClient, {<<"oauth-clients">>})
<1>1. q1.key = <<"api-keys">> /\ q1.reads = {<<"api-keys">>} /\ q2.key = <<"oauth-clients">> /\ q2.reads = {<<"oauth-clients">>}
  BY DEF Query, listApiKeys, listOAuthClients
<1>2. m1.changes = {<<"api-keys">>} /\ m1.refreshes = {<<"api-keys">>} /\ m1.goes = <<>>
  BY DEF Stay, createApiKey, listApiKeys
<1>3. m2.changes = {<<"oauth-clients">>} /\ m2.refreshes = {<<"oauth-clients">>} /\ m2.goes = <<>>
  BY DEF Stay, createOAuthClient, listOAuthClients
<1> HIDE DEF q1, q2, m1, m2
<1>4. Tells(m1, q1) /\ Tells(m2, q2)
  <2>1. q1.key \in m1.refreshes /\ Place(q1.key)
    BY <1>1, <1>2, <1>3, PlaceLiteral
  <2>2. q2.key \in m2.refreshes /\ Place(q2.key)
    BY <1>1, <1>2, <1>3, PlaceLiteral
  <2> QED
    BY <2>1, <2>2, ToldKey
<1>5. Tells(m1, q2)
  BY <1>1, <1>2, PlaceLiteral, Elsewhere
<1>6. Tells(m2, q1)
  BY <1>1, <1>3, PlaceLiteral, Elsewhere
<1>7. \A q \in {q1, q2}, m \in {m1, m2} : Tells(m, q)
  BY <1>4, <1>5, <1>6
<1>8. PageCovered(Page(<<"settings">>, "SettingsPage", {Part({q1, q2}, {m1, m2})}))
  <2>1. \A m \in {m1, m2} : Len(m.goes) # 1
    BY <1>2, <1>3
  <2> QED
    BY <1>7, <2>1, SimplePage DEF Details
<1> QED
  BY <1>8 DEF SettingsPage, q1, q2, m1, m2

\* the order form, and the catalog when it is managed
LEMMA OrderingCovered ==
  ASSUME NEW i
  PROVE  PageCovered(CatalogItemPage(i))
<1> DEFINE q1 == Query(<<"catalog-item", i>>, getCatalogItem(i))
           q2 == Query(<<"catalog-batch-variable-options", i, "filters">>, getBatchVariableOptions(i))
           m == Stay("order", orderCatalogItem, {})
<1>1. q1.reads = {<<"item", i>>, <<"item-variables", i>>, <<"item-conditions", i>>}
  BY DEF Query, getCatalogItem, Item, Variables, Conditions
<1>2. q2.key[1] = "catalog-batch-variable-options"
  BY DEF Query
<1>3. /\ m.changes = {<<"rows", "catalog-requests">>, <<"rows", "catalog-request-items">>, <<"rows", "catalog-tasks">>}
      /\ m.goes = <<>>
  BY DEF Stay, orderCatalogItem, Rows
<1> HIDE DEF q1, q2, m
<1>4. Tells(m, q1)
  BY <1>1, <1>3, PlaceLiteral, Elsewhere
<1>5. Tells(m, q2)
  BY <1>2 DEF Tells, Unrefreshed
<1>6. PageCovered(Page(<<"catalog", "item", i>>, "CatalogItemPage", {Part({q1, q2}, {m})}))
  <2>1. \A q \in {q1, q2}, e \in {m} : Tells(e, q) /\ Len(e.goes) # 1
    BY <1>3, <1>4, <1>5
  <2> QED
    BY <2>1, SimplePage DEF Details
<1> QED
  BY <1>6 DEF CatalogItemPage, q1, q2, m

LEMMA ManageCovered ==
  ASSUME NEW i, NEW j, NEW v
  PROVE  PageCovered(CatalogManagePage(i, <<"catalog", "admin", j, v>>))
<1> DEFINE told == {<<"catalog-admin-items">>, <<"catalog-items">>}
           made == <<"catalog", "admin", j, v>>
           m1 == Leave("create", adminCreateCatalogItem, told, made)
           m2 == Stay("delete", adminDeleteCatalogItem(i), told)
<1>1. adminItems.key = <<"catalog-admin-items">>
  BY DEF adminItems, Query
<1>2. m1.refreshes = told /\ m2.refreshes = told /\ m1.goes = made /\ m2.goes = <<>>
  BY DEF Leave, Stay
<1>3. Len(made) = 4
  OBVIOUS
<1>4. CatalogManagePage(i, made) = Page(<<"catalog", "manage">>, "CatalogBrowsePage", {Part({adminItems}, {m1, m2})})
  BY DEF CatalogManagePage
<1> HIDE DEF made, m1, m2
<1>5. Tells(m1, adminItems) /\ Tells(m2, adminItems)
  BY <1>1, <1>2, PlaceLiteral, ToldKey
<1>6. \A q \in {adminItems}, e \in {m1, m2} : Tells(e, q) /\ Len(e.goes) # 1
  BY <1>2, <1>3, <1>5
<1>7. PageCovered(Page(<<"catalog", "manage">>, "CatalogBrowsePage", {Part({adminItems}, {m1, m2})}))
  BY <1>6, SimplePage DEF Details
<1> QED
  BY <1>4, <1>7 DEF made

\* classes: one that is made is another one than that on the screen
LEMMA TablesCovered ==
  ASSUME NEW t, NEW made
  PROVE  PageCovered(AdminTablesPage(t, made))
<1> DEFINE q1 == Query(<<"admin-table-registry">>, listTableRegistry)
           q2 == Query(<<"admin-table-schema", t>>, getTableSchema(t))
           create(c) == Leave("create", createTableClass(c), {<<"admin-table-registry">>}, <<"tables", c>>)
           m2 == Stay("addField", addTableClassField(t), {<<"admin-table-schema", t>>})
           m3 == Ending("delete", deleteTableClass(t), {<<"admin-table-registry">>}, {q2.key})
           offers == {create(c) : c \in {made} \ {t}} \cup {m2, m3}
<1>1. /\ q1.key = <<"admin-table-registry">> /\ q1.reads = {<<"registry">>}
      /\ q2.key = <<"admin-table-schema", t>> /\ q2.reads = {<<"schema", t>>}
  BY DEF Query, listTableRegistry, getTableSchema, Schema
<1>2. \A c : /\ create(c).changes = {<<"registry">>, <<"schema", c>>} /\ create(c).refreshes = {<<"admin-table-registry">>}
             /\ create(c).goes = <<"tables", c>>
  BY DEF Leave, Stay, createTableClass, listTableRegistry, Schema
<1>3. m2.changes = {<<"schema", t>>} /\ m2.refreshes = {<<"admin-table-schema", t>>} /\ m2.goes = <<>>
  BY DEF Stay, addTableClassField, Schema
<1>4. m3.refreshes = {<<"admin-table-registry">>} /\ m3.ends = {q2.key} /\ m3.goes = <<>>
  BY DEF Ending, Stay
<1>5. AdminTablesPage(t, made) = Page(<<"tables", t>>, "AdminTablesPage", {Part({q1, q2}, offers)})
  BY DEF AdminTablesPage
<1> HIDE DEF q1, q2, create, m2, m3
<1>6. ASSUME NEW c \in {made} \ {t} PROVE Tells(create(c), q1) /\ Tells(create(c), q2) /\ Len(create(c).goes) # 1
  <2>1. Tells(create(c), q1)
    <3>1. q1.key \in create(c).refreshes /\ Place(q1.key)
      BY <1>1, <1>2, PlaceLiteral
    <3> QED
      BY <3>1, ToldKey
  <2>2. Tells(create(c), q2)
    BY <1>1, <1>2, PlaceLiteral, Elsewhere
  <2>3. Len(<<"tables", c>>) = 2
    OBVIOUS
  <2> QED
    BY <1>2, <2>1, <2>2, <2>3
<1>7. Tells(m2, q1)
  BY <1>1, <1>3, PlaceLiteral, Elsewhere
<1>8. Tells(m2, q2) /\ Tells(m3, q1)
  <2>1. q2.key \in m2.refreshes /\ Place(q2.key)
    BY <1>1, <1>3, <1>4, PlaceLiteral
  <2>2. q1.key \in m3.refreshes /\ Place(q1.key)
    BY <1>1, <1>3, <1>4, PlaceLiteral
  <2> QED
    BY <2>1, <2>2, ToldKey
<1>9. Tells(m3, q2)
  BY <1>4 DEF Tells
<1>10. \A q \in {q1, q2}, m \in offers : Tells(m, q) /\ Len(m.goes) # 1
  BY <1>3, <1>4, <1>6, <1>7, <1>8, <1>9
<1> HIDE DEF offers
<1>11. PageCovered(Page(<<"tables", t>>, "AdminTablesPage", {Part({q1, q2}, offers)}))
  BY <1>10, SimplePage DEF Details
<1> QED
  BY <1>5, <1>11

\* the pages of a webhook and of a secret, which a delete leaves for the list
LEMMA LeftCovered ==
  ASSUME NEW a, NEW b, NEW component \in Details, NEW parts,
         \A t, u \in parts : \A q \in t.shows, m \in u.offers : Tells(m, q)
  PROVE  PageCovered(Page(<<a, b>>, component, parts))
<1> DEFINE p == Page(<<a, b>>, component, parts)
<1>1. p.component = component /\ p.path = <<a, b>>
  BY PageParts
<1>2. p.shows = UNION {t.shows : t \in parts} /\ p.offers = UNION {t.offers : t \in parts}
  BY PageParts
<1> HIDE DEF p
<1>3. \A q \in p.shows, m \in p.offers : Tells(m, q)
  BY <1>2
<1>4. PageCovered(p)
  BY <1>1, <1>3 DEF PageCovered
<1> QED
  BY <1>4 DEF p

LEMMA SecretCovered ==
  ASSUME NEW x
  PROVE  PageCovered(SecretDetailPage(x))
<1> DEFINE q == Query(<<"integration-secret", x>>, getSecret(x))
           m1 == Stay("update", updateSecret(x), {<<"integration-secret", x>>, <<"integration-secrets">>})
           m2 == Leave("delete", deleteSecret(x), {<<"integration-secrets">>}, <<"secrets">>)
           t == Part({q}, {m1, m2})
<1>1. q.key = <<"integration-secret", x>> /\ m1.refreshes = {<<"integration-secret", x>>, <<"integration-secrets">>}
  BY DEF Query, Stay
<1>2. m2.goes = <<"secrets">>
  BY DEF Leave, Stay
<1>3. t.shows = {q} /\ t.offers = {m1, m2}
  BY DEF Part
<1>4. SecretDetailPage(x) = Page(<<"secrets", x>>, "SecretDetailPage", {t})
  BY DEF SecretDetailPage
<1> HIDE DEF q, m1, m2, t
<1>5. Tells(m1, q)
  <2>1. q.key \in m1.refreshes /\ Place(q.key)
    BY <1>1, PlaceLiteral
  <2> QED
    BY <2>1, ToldKey
<1>6. Tells(m2, q)
  BY <1>2 DEF Tells
<1> QED
  BY <1>3, <1>4, <1>5, <1>6, LeftCovered DEF Details

LEMMA WebhookCovered ==
  ASSUME NEW x
  PROVE  PageCovered(WebhookDetailPage(x))
<1> DEFINE q == Query(<<"catalog-webhook", x>>, adminGetWebhook(x))
           m1 == Stay("update", adminUpdateWebhook(x), {<<"catalog-webhook", x>>, <<"catalog-webhooks">>})
           m2 == Leave("delete", adminDeleteWebhook(x), {<<"catalog-webhooks">>}, <<"webhooks">>)
           t == Part({q, secrets}, {m1, m2})
<1>1. q.key = <<"catalog-webhook", x>> /\ m1.refreshes = {<<"catalog-webhook", x>>, <<"catalog-webhooks">>}
  BY DEF Query, Stay
<1>2. m2.goes = <<"webhooks">>
  BY DEF Leave, Stay
<1>3. t.shows = {q, secrets} /\ t.offers = {m1, m2} /\ TemplateAutocomplete.shows = {secrets} /\ TemplateAutocomplete.offers = {}
  BY DEF Part, TemplateAutocomplete, secrets
<1>4. WebhookDetailPage(x) = Page(<<"webhooks", x>>, "WebhookDetailPage", {t, TemplateAutocomplete})
  BY DEF WebhookDetailPage
<1>5. m1.changes = {<<"webhooks", x>>}
  BY DEF Stay, adminUpdateWebhook, adminGetWebhook
<1>6. secrets.reads = {<<"secrets">>}
  BY DEF secrets, Query, listSecrets
<1> HIDE DEF q, m1, m2, t
<1>7. Tells(m1, q)
  <2>1. q.key \in m1.refreshes /\ Place(q.key)
    BY <1>1, PlaceLiteral
  <2> QED
    BY <2>1, ToldKey
<1>8. Tells(m1, secrets)
  BY <1>5, <1>6, PlaceLiteral, Elsewhere
<1>9. \A z : Tells(m2, z)
  BY <1>2 DEF Tells
<1>10. \A d, e \in {t, TemplateAutocomplete} : \A z \in d.shows, m \in e.offers : Tells(m, z)
  BY <1>3, <1>7, <1>8, <1>9
<1> QED
  BY <1>4, <1>10, LeftCovered DEF Details

\* the builder: what its parts show and offer
BuilderQuery(q, i, v) ==
  \/ q.key = <<"catalog-admin-item", i>> /\ q.reads = {<<"item", i>>}
  \/ q.key = <<"catalog-items">> /\ q.reads = {<<"item">>}
  \/ q.key = <<"catalog-admin-variables", i>> /\ q.reads = {<<"item-variables", i>>}
  \/ q.key = <<"catalog-admin-item-webhooks", i>> /\ q.reads = {<<"item-webhooks", i>>, <<"webhooks">>}
  \/ q.key = <<"catalog-admin-conditions", i, v>> /\ q.reads = {<<"item-conditions", i, v>>}
  \/ q.reads \in {{}, {<<"registry">>}, {<<"webhooks">>}} \/ \E t : q.reads = {<<"schema", t>>}

BuilderMutation(m, i, v) ==
  /\ m.goes = <<>>
  /\ \/ m.changes = {<<"item", i>>} /\ {<<"catalog-admin-item", i>>, <<"catalog-items">>} \subseteq m.refreshes
     \/ m.changes = {<<"item-variables", i>>} /\ <<"catalog-admin-variables", i>> \in m.refreshes
     \/ /\ m.name = "deleteVariable" /\ m.changes = {<<"item-variables", i>>, <<"item-conditions", i>>}
        /\ <<"catalog-admin-variables", i>> \in m.refreshes
     \/ m.changes = {<<"item-webhooks", i>>} /\ <<"catalog-admin-item-webhooks", i>> \in m.refreshes
     \/ m.changes = {<<"item-conditions", i, v>>} /\ <<"catalog-admin-conditions", i, v>> \in m.refreshes

LEMMA BuilderRefreshes ==
  ASSUME NEW i, NEW v, NEW q, BuilderQuery(q, i, v), NEW m, BuilderMutation(m, i, v)
  PROVE  Tells(m, q)
<1>1. CASE q.key = <<"catalog-admin-item", i>> /\ q.reads = {<<"item", i>>}
  <2>1. CASE q.key \in m.refreshes
    BY <1>1, <2>1, PlaceLiteral, ToldKey
  <2>2. CASE q.key \notin m.refreshes
    BY <1>1, <2>2, PlaceLiteral, Elsewhere DEF BuilderMutation
  <2> QED
    BY <2>1, <2>2
<1>2. CASE q.key = <<"catalog-items">> /\ q.reads = {<<"item">>}
  <2>1. CASE q.key \in m.refreshes
    <3>1. Place(q.key)
      BY <1>2, PlaceLiteral
    <3> QED
      BY <2>1, <3>1, ToldKey
  <2>2. CASE q.key \notin m.refreshes
    BY <1>2, <2>2, PlaceLiteral, Elsewhere DEF BuilderMutation
  <2> QED
    BY <2>1, <2>2
<1>3. CASE q.key = <<"catalog-admin-variables", i>> /\ q.reads = {<<"item-variables", i>>}
  <2>1. CASE q.key \in m.refreshes
    BY <1>3, <2>1, PlaceLiteral, ToldKey
  <2>2. CASE q.key \notin m.refreshes
    BY <1>3, <2>2, PlaceLiteral, Elsewhere DEF BuilderMutation
  <2> QED
    BY <2>1, <2>2
<1>4. CASE q.key = <<"catalog-admin-item-webhooks", i>> /\ q.reads = {<<"item-webhooks", i>>, <<"webhooks">>}
  <2>1. CASE q.key \in m.refreshes
    BY <1>4, <2>1, PlaceLiteral, ToldKey
  <2>2. CASE q.key \notin m.refreshes
    BY <1>4, <2>2, PlaceLiteral, Elsewhere DEF BuilderMutation
  <2> QED
    BY <2>1, <2>2
<1>5. CASE q.key = <<"catalog-admin-conditions", i, v>> /\ q.reads = {<<"item-conditions", i, v>>}
  <2>1. CASE q.key \in m.refreshes
    BY <1>5, <2>1, PlaceLiteral, ToldKey
  <2>2. CASE m.name = "deleteVariable"
    BY <1>5, <2>2 DEF Tells, Unrefreshed
  <2>3. CASE q.key \notin m.refreshes /\ m.name # "deleteVariable"
    BY <1>5, <2>3, PlaceLiteral, Elsewhere DEF BuilderMutation
  <2> QED
    BY <2>1, <2>2, <2>3
<1>6. CASE q.reads \in {{}, {<<"registry">>}, {<<"webhooks">>}}
  BY <1>6, PlaceLiteral, Elsewhere DEF BuilderMutation
<1>7. CASE \E t : q.reads = {<<"schema", t>>}
  BY <1>7, PlaceLiteral, Elsewhere DEF BuilderMutation
<1> QED
  BY <1>1, <1>2, <1>3, <1>4, <1>5, <1>6, <1>7 DEF BuilderQuery

\* a part of the builder
BuilderPart(p, i, v) ==
  /\ \A q \in p.shows : BuilderQuery(q, i, v)
  /\ \A m \in p.offers : BuilderMutation(m, i, v)

LEMMA BuilderMain ==
  ASSUME NEW i, NEW v
  PROVE  LET item == <<"catalog-admin-item", i>>
             variables == <<"catalog-admin-variables", i>>
             attached == <<"catalog-admin-item-webhooks", i>>
         IN  BuilderPart(
               Part({Query(item, adminGetCatalogItem(i)), Query(variables, adminListVariables(i)),
                     Query(attached, adminListItemWebhooks(i)), catalogItems},
                    {Stay("saveChanges", adminUpdateCatalogItem(i), {item, <<"catalog-admin-items">>, <<"catalog-items">>}),
                     Stay("deleteVariable", adminDeleteVariable(i), {variables}),
                     Stay("detach", adminDetachItemWebhook(i), {attached})}), i, v)
<1> DEFINE item == <<"catalog-admin-item", i>>
           variables == <<"catalog-admin-variables", i>>
           attached == <<"catalog-admin-item-webhooks", i>>
           q1 == Query(item, adminGetCatalogItem(i))
           q2 == Query(variables, adminListVariables(i))
           q3 == Query(attached, adminListItemWebhooks(i))
           m1 == Stay("saveChanges", adminUpdateCatalogItem(i), {item, <<"catalog-admin-items">>, <<"catalog-items">>})
           m2 == Stay("deleteVariable", adminDeleteVariable(i), {variables})
           m3 == Stay("detach", adminDetachItemWebhook(i), {attached})
           p == Part({q1, q2, q3, catalogItems}, {m1, m2, m3})
<1>1. BuilderQuery(q1, i, v)
  BY DEF BuilderQuery, Query, adminGetCatalogItem, Item
<1>2. BuilderQuery(q2, i, v)
  BY DEF BuilderQuery, Query, adminListVariables, Variables
<1>3. BuilderQuery(q3, i, v)
  BY DEF BuilderQuery, Query, adminListItemWebhooks, Attached, adminListWebhooks
<1>4. BuilderQuery(catalogItems, i, v)
  BY DEF BuilderQuery, catalogItems, Query, listCatalogItems, Items
<1>5. BuilderMutation(m1, i, v)
  BY DEF BuilderMutation, Stay, adminUpdateCatalogItem, Item
<1>6. BuilderMutation(m2, i, v)
  BY DEF BuilderMutation, Stay, adminDeleteVariable, Variables, Conditions
<1>7. BuilderMutation(m3, i, v)
  BY DEF BuilderMutation, Stay, adminDetachItemWebhook, Attached
<1> HIDE DEF q1, q2, q3, m1, m2, m3
<1>8. p.shows = {q1, q2, q3, catalogItems} /\ p.offers = {m1, m2, m3}
  BY DEF Part
<1> HIDE DEF p
<1>9. BuilderPart(p, i, v)
  BY <1>1, <1>2, <1>3, <1>4, <1>5, <1>6, <1>7, <1>8 DEF BuilderPart
<1> QED
  BY <1>9 DEF p, q1, q2, q3, m1, m2, m3

LEMMA VariablePart ==
  ASSUME NEW i, NEW v, NEW t
  PROVE  BuilderPart(CatalogVariablePopover(i, t), i, v)
<1> DEFINE q1 == Query(<<"catalog-admin-tables">>, adminListTables)
           q2 == Query(<<"catalog-admin-table-fields", t>>, adminListTableFields(t))
           m1 == Stay("createVariable", adminCreateVariable(i), {<<"catalog-admin-variables", i>>})
           m2 == Stay("updateVariable", adminUpdateVariable(i), {<<"catalog-admin-variables", i>>})
           p == CatalogVariablePopover(i, t)
<1>1. BuilderQuery(q1, i, v)
  BY DEF BuilderQuery, Query, adminListTables, listTableRegistry
<1>2. BuilderQuery(q2, i, v)
  <2>1. q2.reads = {<<"schema", t>>}
    BY DEF Query, adminListTableFields, Schema
  <2> QED
    BY <2>1 DEF BuilderQuery
<1>3. BuilderMutation(m1, i, v) /\ BuilderMutation(m2, i, v)
  BY DEF BuilderMutation, Stay, adminCreateVariable, adminUpdateVariable, Variables
<1>4. p.shows = {q1, q2} /\ p.offers = {m1, m2}
  BY DEF CatalogVariablePopover, Part
<1> HIDE DEF q1, q2, m1, m2, p
<1>5. BuilderPart(p, i, v)
  BY <1>1, <1>2, <1>3, <1>4 DEF BuilderPart
<1> QED
  BY <1>5 DEF p

LEMMA AttachPart ==
  ASSUME NEW i, NEW v
  PROVE  BuilderPart(AttachIntegrationPopover(i), i, v)
<1> DEFINE q1 == Query(<<"catalog-webhooks">>, adminListWebhooks)
           q2 == Query(<<"catalog-payload-preview", "template">>, adminPayloadPreview)
           m1 == Stay("attach", adminAttachItemWebhook(i), {<<"catalog-admin-item-webhooks", i>>})
           m2 == Stay("updateAttached", adminUpdateItemWebhook(i), {<<"catalog-admin-item-webhooks", i>>})
           p == AttachIntegrationPopover(i)
<1>1. BuilderQuery(q1, i, v) /\ BuilderQuery(q2, i, v)
  <2>1. q1.reads = {<<"webhooks">>} /\ q2.reads = {}
    BY DEF Query, adminListWebhooks, adminPayloadPreview
  <2> QED
    BY <2>1 DEF BuilderQuery
<1>2. BuilderMutation(m1, i, v) /\ BuilderMutation(m2, i, v)
  BY DEF BuilderMutation, Stay, adminAttachItemWebhook, adminUpdateItemWebhook, Attached
<1>3. p.shows = {q1, q2} /\ p.offers = {m1, m2}
  BY DEF AttachIntegrationPopover, Part
<1> HIDE DEF q1, q2, m1, m2, p
<1>4. BuilderPart(p, i, v)
  BY <1>1, <1>2, <1>3 DEF BuilderPart
<1> QED
  BY <1>4 DEF p

LEMMA ConditionsPart ==
  ASSUME NEW i, NEW v
  PROVE  BuilderPart(CatalogFilterConditionsPanel(i, v), i, v)
<1> DEFINE rules == <<"catalog-admin-conditions", i, v>>
           q == Query(rules, adminListConditions(i, v))
           m1 == Stay("createRule", adminCreateCondition(i, v), {rules})
           m2 == Stay("updateRule", adminUpdateCondition(i, v), {rules})
           m3 == Stay("deleteRule", adminDeleteCondition(i, v), {rules})
           p == CatalogFilterConditionsPanel(i, v)
<1>1. BuilderQuery(q, i, v)
  BY DEF BuilderQuery, Query, adminListConditions
<1>2. BuilderMutation(m1, i, v) /\ BuilderMutation(m2, i, v) /\ BuilderMutation(m3, i, v)
  BY DEF BuilderMutation, Stay, adminCreateCondition, adminUpdateCondition, adminDeleteCondition, adminListConditions
<1>3. p.shows = {q} /\ p.offers = {m1, m2, m3}
  BY DEF CatalogFilterConditionsPanel, Part
<1> HIDE DEF q, m1, m2, m3, p
<1>4. BuilderPart(p, i, v)
  BY <1>1, <1>2, <1>3 DEF BuilderPart
<1> QED
  BY <1>4 DEF p

LEMMA FieldsPart ==
  ASSUME NEW i, NEW v, NEW t
  PROVE  BuilderPart(ReferenceFilterBuilder(t), i, v)
<1> DEFINE q == Query(<<"catalog-admin-table-fields", t>>, adminListTableFields(t))
           p == ReferenceFilterBuilder(t)
<1>1. q.reads = {<<"schema", t>>}
  BY DEF Query, adminListTableFields, Schema
<1>2. p.shows = {q} /\ p.offers = {}
  BY DEF ReferenceFilterBuilder, Part
<1> HIDE DEF q, p
<1>3. BuilderPart(p, i, v)
  BY <1>1, <1>2 DEF BuilderPart, BuilderQuery
<1> QED
  BY <1>3 DEF p

LEMMA BuilderParts ==
  ASSUME NEW i, NEW v, NEW path, NEW component, component \notin Details, NEW parts,
         \A t \in parts : BuilderPart(t, i, v)
  PROVE  PageCovered(Page(path, component, parts))
<1> DEFINE p == Page(path, component, parts)
<1>1. p.component = component
  BY PageParts
<1>2. \A q \in p.shows : BuilderQuery(q, i, v)
  BY PageParts DEF BuilderPart
<1>3. \A m \in p.offers : BuilderMutation(m, i, v)
  BY PageParts DEF BuilderPart
<1> HIDE DEF p
<1>4. \A m \in p.offers : \A l : m.goes # <<l>>
  BY <1>3 DEF BuilderMutation
<1>5. \A q \in p.shows, m \in p.offers : Tells(m, q)
  BY <1>2, <1>3, BuilderRefreshes
<1>6. PageCovered(p)
  BY <1>1, <1>4, <1>5 DEF PageCovered
<1> QED
  BY <1>6 DEF p

LEMMA BuilderCovered ==
  ASSUME NEW i, NEW v, NEW t
  PROVE  PageCovered(CatalogItemBuilderPage(i, v, t))
<1> DEFINE item == <<"catalog-admin-item", i>>
           variables == <<"catalog-admin-variables", i>>
           attached == <<"catalog-admin-item-webhooks", i>>
           main == Part({Query(item, adminGetCatalogItem(i)), Query(variables, adminListVariables(i)),
                         Query(attached, adminListItemWebhooks(i)), catalogItems},
                        {Stay("saveChanges", adminUpdateCatalogItem(i), {item, <<"catalog-admin-items">>, <<"catalog-items">>}),
                         Stay("deleteVariable", adminDeleteVariable(i), {variables}),
                         Stay("detach", adminDetachItemWebhook(i), {attached})})
           parts == {main, CatalogVariablePopover(i, t), AttachIntegrationPopover(i),
                     CatalogFilterConditionsPanel(i, v), ReferenceFilterBuilder(t)}
<1>1. CatalogItemBuilderPage(i, v, t) = Page(<<"catalog", "admin", i, v>>, "CatalogItemBuilderPage", parts)
  BY DEF CatalogItemBuilderPage
<1>2. BuilderPart(main, i, v)
  BY BuilderMain
<1> HIDE DEF main
<1>3. \A u \in parts : BuilderPart(u, i, v)
  BY <1>2, VariablePart, AttachPart, ConditionsPart, FieldsPart
<1> HIDE DEF parts
<1>4. PageCovered(Page(<<"catalog", "admin", i, v>>, "CatalogItemBuilderPage", parts))
  BY <1>3, BuilderParts DEF Details
<1> QED
  BY <1>1, <1>4

\* every page the application has
LEMMA RoutesCovered ==
  ASSUME NEW I, NEW p \in Routes(I)
  PROVE  PageCovered(p)
<1>1. CASE p \in RecordRoutes(I)
  <2>1. \/ p \in {UsersPage, GroupsListPage} \/ \E r : p = RecordListPage(r)
        \/ \E r, x : p = RecordDetailPage(r, x)
        \/ \E x : p \in {ChangeDetailPage(x), RequestDetailPage(x), UserDetailPage(x), GroupDetailPage(x)}
        \/ \E x, y : p \in {ChangeTaskDetailPage(x, y), RequestedItemDetailPage(x, y), CatalogTaskDetailPage(x, y),
                            ConfigurationItemDetailPage(x, y)}
    BY <1>1 DEF RecordRoutes
  <2>2. CASE p \in {UsersPage, GroupsListPage} \/ \E r : p = RecordListPage(r)
    BY <2>2, ListsCovered, RecordListPageCovered
  <2>3. CASE \E r, x : p = RecordDetailPage(r, x)
    BY <2>3, RecordDetailPageCovered
  <2>4. CASE \E x : p \in {ChangeDetailPage(x), RequestDetailPage(x), UserDetailPage(x), GroupDetailPage(x)}
    BY <2>4, ChangeDetailPageCovered, RequestDetailPageCovered, UserAndGroupCovered
  <2>5. CASE \E x, y : p \in {ChangeTaskDetailPage(x, y), RequestedItemDetailPage(x, y), CatalogTaskDetailPage(x, y),
                             ConfigurationItemDetailPage(x, y)}
    BY <2>5, ChangeTaskDetailPageCovered, RequestedItemDetailPageCovered, CatalogTaskDetailPageCovered,
       ConfigurationItemDetailPageCovered
  <2> QED
    BY <2>1, <2>2, <2>3, <2>4, <2>5
<1>2. CASE p \in CatalogRoutes(I)
  <2>1. \/ p = CatalogBrowsePage \/ \E i : p = CatalogItemPage(i)
        \/ \E i, j, v : p = CatalogManagePage(i, <<"catalog", "admin", j, v>>)
        \/ \E i, v, t : p = CatalogItemBuilderPage(i, v, t)
    <3> DEFINE items == {<<"catalog", "admin", j, v>> : j, v \in I}
               managed == {CatalogManagePage(i, made) : i \in I, made \in items}
               built == {CatalogItemBuilderPage(i, v, t) : i, v, t \in I}
    <3>1. p \in {CatalogBrowsePage} \cup {CatalogItemPage(i) : i \in I} \cup managed \cup built
      BY <1>2 DEF CatalogRoutes
    <3>2. ASSUME p \in managed PROVE \E i, j, v : p = CatalogManagePage(i, <<"catalog", "admin", j, v>>)
      <4>1. PICK i, made : made \in items /\ p = CatalogManagePage(i, made)
        BY <3>2
      <4>2. PICK j, v : made = <<"catalog", "admin", j, v>>
        BY <4>1
      <4> HIDE DEF items, managed
      <4> WITNESS i, j, v
      <4> QED
        BY <4>1, <4>2, Zenon
    <3>3. p \in built => \E i, v, t : p = CatalogItemBuilderPage(i, v, t)
      OBVIOUS
    <3> HIDE DEF items, managed, built
    <3> QED
      BY <3>1, <3>2, <3>3
  <2> QED
    BY <2>1, QuietPages, OrderingCovered, ManageCovered, BuilderCovered
<1>3. CASE p \in OtherRoutes(I)
  <2>1. \/ p \in {DashboardPage, CatalogWebhooksPage, CatalogSecretsPage, SettingsPage, HelpPage}
        \/ \E x : p \in {WebhookDetailPage(x), SecretDetailPage(x)}
        \/ \E t, made : p = AdminTablesPage(t, made)
    BY <1>3 DEF OtherRoutes
  <2> QED
    BY <2>1, QuietPages, WebhooksSecretsCovered, SettingsCovered, WebhookCovered, SecretCovered, TablesCovered
<1> QED
  BY <1>1, <1>2, <1>3 DEF Routes

\* a page that is left for a list is not of the list's component
LEMMA CoveredFact ==
  ASSUME area \in Areas, page \in Paths
  PROVE  Covered
<1> DEFINE p == PageAt(page)
<1>1. Table[area] \subseteq Routes(Ids)
  BY TableAssumption
<1>2. p \in Table[area]
  BY DEF Paths, PageAt
<1>3. PageCovered(p)
  BY <1>1, <1>2, RoutesCovered
<1> SUFFICES ASSUME query \in Shows(page), NEW m \in Offers(page), Meet(m.changes, query.reads),
                    ~ Reaches(m.refreshes, query.key), ~ Unrefreshed(query.key, m), query.key \notin m.ends
             PROVE  m.goes # <<>> /\ Component(page) # Component(m.goes)
  BY DEF Covered
<1>4. query \in p.shows /\ m \in p.offers
  BY DEF Shows, Offers
<1> HIDE DEF p
<1>5. PICK l : m.goes = <<l>>
  BY <1>3, <1>4 DEF PageCovered, Tells
<1>6. m.goes # <<>>
  BY <1>5
<1>7. p.component \in Details
  BY <1>3, <1>4, <1>5 DEF PageCovered
<1>8. PageAt(m.goes) \in Table[area] /\ PageAt(m.goes).path = m.goes
  BY <1>2, <1>4, <1>6, TableAssumption DEF PageAt
<1>9. PageCovered(PageAt(m.goes))
  BY <1>1, <1>8, RoutesCovered
<1>10. \A a, b : <<a, b>> # <<l>>
  OBVIOUS
<1>11. PageAt(m.goes).component \notin Details
  BY <1>5, <1>8, <1>9, <1>10 DEF PageCovered
<1> QED
  BY <1>6, <1>7, <1>11 DEF Component, p

-----------------------------------------------------------------------------
\* The cache under the pages.

\* the pages and mutations of the site, by what the proofs use of them
LEMMA PageFact ==
  ASSUME area \in Areas, NEW path \in Paths
  PROVE  PageAt(path) \in Table[area] /\ PageAt(path).path = path
BY DEF Paths, PageAt

LEMMA OfferFact ==
  ASSUME area \in Areas, NEW path \in Paths, NEW m \in Offers(path)
  PROVE  /\ m.name \in Names
         /\ m.goes = <<>> \/ m.goes \in Paths
         /\ \A n \in Offers(path) : n.name = m.name => n = m
BY PageFact, TableAssumption DEF Paths, Offers, Names

\* every mutation under way was started on a page that offers it, because it
\* changes what is followed
Started ==
  \A s \in Slots : Waiting(s) =>
    \E m \in Offers(pend[s].from) : m.name = pend[s].name /\ Meet(m.changes, query.reads)

SomeDone == \E s \in Slots : pend[s].stage = "done"

\* a query on the screen is one of the page's, and its entry, or what its
\* request brings, is old for a reason or until a mutation is answered
IInv ==
  /\ TypeOK
  /\ Started
  /\ shown => query \in Shows(page)
  /\ shown /\ fetch = "off" /\ data = "old" /\ missed = "no" => SomeDone
  /\ shown /\ fetch = "old" /\ missed = "no" => SomeDone

LEMMA RequestFact ==
  ASSUME NEW r \in Requests
  PROVE  r # Free /\ r.stage # "free" /\ r.stage \in {"sent", "done"} /\ r.name \in Names /\ r.from \in Paths /\ r.told \in Paths
BY DEF Requests, Free

LEMMA SlotFact ==
  ASSUME TypeOK, NEW s \in Slots
  PROVE  (Waiting(s) <=> pend[s] \in Requests) /\ (~ Waiting(s) <=> pend[s] = Free)
<1>1. pend[s] \in Requests \cup {Free}
  BY DEF TypeOK
<1>2. Free.stage = "free"
  BY DEF Free
<1> QED
  BY <1>1, <1>2, RequestFact DEF Waiting

LEMMA InitIInv == Init => IInv
<1> SUFFICES ASSUME Init PROVE IInv
  OBVIOUS
<1>1. TypeOK
  BY DEF Init, TypeOK, Reasons
<1>2. \A s \in Slots : ~ Waiting(s)
  BY DEF Init, Waiting, Free
<1> QED
  BY <1>1, <1>2 DEF Init, IInv, Started

\* the requests after the path has changed
LEMMA FollowFact ==
  ASSUME NEW r \in Requests \cup {Free}, NEW p, NEW to \in Paths
  PROVE  /\ Follow(r, p, to) \in Requests \cup {Free}
         /\ Follow(r, p, to).stage = r.stage
         /\ r \in Requests => Follow(r, p, to).from = r.from /\ Follow(r, p, to).name = r.name
<1>1. CASE r = Free
  BY <1>1 DEF Follow, Free
<1>2. CASE r \in Requests
  BY <1>2 DEF Follow, Requests
<1> QED
  BY <1>1, <1>2

\* a step that leaves every request as it is, or follows the path with it
Kept(s) ==
  /\ pend'[s] \in Requests \cup {Free}
  /\ pend'[s].stage = pend[s].stage
  /\ Waiting(s) => pend'[s].from = pend[s].from /\ pend'[s].name = pend[s].name

LEMMA OpenStep ==
  ASSUME IInv, NEW to \in Paths, Open(to)
  PROVE  IInv'
<1>1. \A s \in Slots : Kept(s)
  <2> SUFFICES ASSUME NEW s \in Slots PROVE Kept(s)
    OBVIOUS
  <2>1. pend'[s] = Follow(pend[s], page, to) /\ pend[s] \in Requests \cup {Free}
    BY DEF Open, IInv, TypeOK
  <2> QED
    BY <2>1, FollowFact, SlotFact DEF Kept, IInv
<1>2. pend' = [s \in Slots |-> pend'[s]]
  BY DEF Open
<1>3. UNCHANGED <<area, query, data, fetch>> /\ page' = to /\ shown' = StaysShown(to) /\ missed' = IF shown' THEN missed ELSE "no"
  BY DEF Open
<1>4. TypeOK'
  <2>1. pend' \in [Slots -> Requests \cup {Free}]
    BY <1>1, <1>2 DEF Kept
  <2>2. Paths' = Paths /\ Names' = Names /\ Queries' = Queries /\ Requests' = Requests
    BY <1>3 DEF Paths, Names, Queries, Requests
  <2>3. shown' \in BOOLEAN /\ missed' \in Reasons \cup {"no"}
    BY <1>3 DEF StaysShown, IInv, TypeOK
  <2> QED
    BY <1>3, <2>1, <2>2, <2>3 DEF IInv, TypeOK
<1>5. Started'
  BY <1>1, <1>3 DEF Kept, IInv, Started, Waiting, Offers, PageAt
<1>6. SomeDone => SomeDone'
  BY <1>1 DEF Kept, SomeDone
<1>7. shown' => shown /\ (query \in Shows(page))'
  BY <1>3 DEF StaysShown, Shows, PageAt
<1> QED
  BY <1>3, <1>4, <1>5, <1>6, <1>7 DEF IInv

\* steps of the query alone
LEMMA QueryStep ==
  ASSUME IInv, Show \/ Hide \/ Collect \/ ServerRead \/ Arrive \/ FetchFails \/ Reconnect
  PROVE  IInv'
<1>1. UNCHANGED <<area, page, query, pend>>
  BY DEF Show, Hide, Collect, ServerRead, Arrive, FetchFails, Reconnect
<1>2. /\ shown' \in BOOLEAN /\ data' \in {"none", "old", "new"}
      /\ fetch' \in {"off", "asked", "old", "new"} /\ missed' \in Reasons \cup {"no"}
  BY DEF Show, Hide, Collect, ServerRead, Arrive, FetchFails, Reconnect, IInv, TypeOK, Reasons
<1>3. TypeOK'
  BY <1>1, <1>2 DEF IInv, TypeOK, Paths, Names, Queries, Requests
<1>4. Started' /\ (SomeDone => SomeDone')
  BY <1>1 DEF IInv, Started, SomeDone, Waiting, Offers, PageAt
<1>5. shown' => (query \in Shows(page))'
  BY <1>1 DEF Show, Hide, Collect, ServerRead, Arrive, FetchFails, Reconnect, IInv, Shows, PageAt
<1>6. /\ shown' /\ fetch' = "off" /\ data' = "old" /\ missed' = "no" => SomeDone
      /\ shown' /\ fetch' = "old" /\ missed' = "no" => SomeDone
  BY DEF Show, Hide, Collect, ServerRead, Arrive, FetchFails, Reconnect, IInv, TypeOK
<1> QED
  BY <1>3, <1>4, <1>5, <1>6 DEF IInv

\* steps that free a slot, or fill it, or move it on
LEMMA ClickStep ==
  ASSUME IInv, NEW s \in Slots, NEW m \in Offers(page), Click(s, m)
  PROVE  IInv'
<1>1. pend' = [pend EXCEPT ![s] = Sent(m, page)] /\ UNCHANGED <<area, page, query, shown, data, fetch, missed>>
  BY DEF Click
<1>2. Sent(m, page) \in Requests /\ Sent(m, page).from = page /\ Sent(m, page).name = m.name
  BY OfferFact DEF Sent, Requests, IInv, TypeOK
<1>3. TypeOK'
  BY <1>1, <1>2 DEF IInv, TypeOK, Paths, Names, Queries, Requests
<1>4. Started'
  <2>1. pend'[s].from = page /\ pend'[s].name = m.name /\ Meet(m.changes, query.reads)
    BY <1>1, <1>2 DEF Click, IInv, TypeOK
  <2>2. \A t \in Slots \ {s} : pend'[t] = pend[t]
    BY <1>1 DEF IInv, TypeOK
  <2>3. ASSUME NEW t \in Slots, Waiting(t)'
        PROVE  \E n \in Offers(pend'[t].from) : n.name = pend'[t].name /\ Meet(n.changes, query.reads)
    BY <2>1, <2>2, <2>3 DEF IInv, Started, Waiting
  <2> QED
    BY <1>1, <2>3 DEF Started, Offers, PageAt
<1>5. SomeDone => SomeDone'
  <2>1. pend[s].stage # "done"
    BY DEF Click, Waiting
  <2> QED
    BY <1>1, <2>1 DEF SomeDone, IInv, TypeOK
<1> QED
  BY <1>1, <1>3, <1>4, <1>5 DEF IInv, Shows, PageAt

LEMMA CommitStep ==
  ASSUME IInv, NEW s \in Slots, Commit(s)
  PROVE  IInv'
<1>1. pend[s] \in Requests
  BY SlotFact DEF Commit, IInv, Waiting
<1>2. [pend[s] EXCEPT !.stage = "done"] \in Requests
  BY <1>1 DEF Requests
<1>3. \A t \in Slots : /\ pend'[t] \in Requests \cup {Free}
                       /\ Waiting(t)' => Waiting(t) /\ pend'[t].from = pend[t].from /\ pend'[t].name = pend[t].name
  BY <1>1, <1>2, SlotFact DEF Commit, IInv, TypeOK, Waiting, Requests
<1>4. SomeDone'
  BY <1>1 DEF Commit, SomeDone, IInv, TypeOK, Requests
<1>5. UNCHANGED <<area, page, query, shown, missed>> /\ pend' = [pend EXCEPT ![s].stage = "done"]
  BY DEF Commit
<1>6. TypeOK'
  <2>1. pend' \in [Slots -> Requests \cup {Free}]
    BY <1>2, <1>5 DEF IInv, TypeOK
  <2>2. data' \in {"none", "old", "new"} /\ fetch' \in {"off", "asked", "old", "new"}
    BY DEF Commit, IInv, TypeOK
  <2> QED
    BY <1>5, <2>1, <2>2 DEF IInv, TypeOK, Paths, Names, Queries, Requests
<1>7. Started'
  BY <1>3, <1>5 DEF IInv, Started, Offers, PageAt
<1> QED
  BY <1>4, <1>5, <1>6, <1>7 DEF IInv, Shows, PageAt

LEMMA FreedFact ==
  ASSUME IInv, NEW s \in Slots, pend' = [pend EXCEPT ![s] = Free], UNCHANGED <<area, query>>
  PROVE  pend' \in [Slots -> (Requests \cup {Free})'] /\ Started'
<1>1. Requests' = Requests /\ Free.stage = "free"
  BY DEF Requests, Paths, Names, Free
<1>2. \A t \in Slots : Waiting(t)' => t # s /\ Waiting(t) /\ pend'[t] = pend[t]
  BY <1>1 DEF IInv, TypeOK, Waiting
<1> QED
  BY <1>1, <1>2 DEF IInv, TypeOK, Started, Offers, PageAt

LEMMA RefuseStep ==
  ASSUME IInv, NEW s \in Slots, Refuse(s)
  PROVE  IInv'
<1>1. UNCHANGED <<area, page, query, shown, data, fetch, missed>> /\ pend' = [pend EXCEPT ![s] = Free] /\ pend[s].stage = "sent"
  BY DEF Refuse
<1>2. SomeDone => SomeDone'
  BY <1>1 DEF SomeDone, IInv, TypeOK
<1> QED
  BY <1>1, <1>2, FreedFact DEF IInv, TypeOK, Paths, Names, Queries, Shows, PageAt

LEMMA LoseStep ==
  ASSUME IInv, NEW s \in Slots, Lose(s)
  PROVE  IInv'
<1>1. UNCHANGED <<area, page, query, shown, data, fetch>> /\ pend' = [pend EXCEPT ![s] = Free]
  BY DEF Lose
<1>2. missed' = IF shown /\ fetch # "asked" THEN "lost" ELSE missed
  BY DEF Lose, Misses
<1>3. missed' \in Reasons \cup {"no"}
  BY <1>2 DEF Reasons, IInv, TypeOK
<1>4. TypeOK'
  BY <1>1, <1>3, FreedFact DEF IInv, TypeOK, Paths, Names, Queries
<1> QED
  BY <1>1, <1>2, <1>4, FreedFact DEF IInv, Shows, PageAt

-----------------------------------------------------------------------------
(***************************************************************************)
(* The answer of a mutation.                                               *)
(***************************************************************************)

\* the mutation that runs for the page a request follows is one it offers
LEMMA FollowedFact ==
  ASSUME IInv, NEW s \in Slots, Waiting(s)
  PROVE  /\ Followed(s).goes = <<>> \/ Followed(s).goes \in Paths
         /\ pend[s].told = pend[s].from =>
              Followed(s) \in Offers(pend[s].from) /\ Meet(Followed(s).changes, query.reads)
<1>1. pend[s].from \in Paths /\ pend[s].told \in Paths
  BY SlotFact, RequestFact DEF IInv
<1>2. PICK m \in Offers(pend[s].from) : m.name = pend[s].name /\ Meet(m.changes, query.reads)
  BY DEF IInv, Started
<1>3. Followed(s) \in Offered(pend[s].told, pend[s].name) \/ Followed(s) \in Offered(pend[s].from, pend[s].name)
  <2>1. m \in Offered(pend[s].from, pend[s].name)
    BY <1>2 DEF Offered
  <2> QED
    BY <2>1 DEF Followed
<1>4. Followed(s).goes = <<>> \/ Followed(s).goes \in Paths
  BY <1>1, <1>3, OfferFact DEF Offered, IInv, TypeOK
<1>5. ASSUME pend[s].told = pend[s].from PROVE Followed(s) = m
  BY <1>1, <1>2, <1>3, <1>5, OfferFact DEF Offered, IInv, TypeOK
<1> QED
  BY <1>2, <1>4, <1>5

\* of an answer that does not have the entry on the screen read again, the
\* reason is named, or the query leaves the screen
LEMMA NamedFact ==
  ASSUME IInv, Covered, NEW s \in Slots, Answer(s), shown', missed' = "no"
  PROVE  /\ shown /\ missed' = Missed(s)
         /\ ~ Refreshed(s) => fetch = "asked"
<1> DEFINE m == Followed(s)
           to == IF m.goes = <<>> THEN page ELSE m.goes
<1>1. /\ shown /\ query.key \notin m.ends /\ Component(page) = Component(to) /\ query \in Shows(to)
      /\ missed' = Missed(s)
  BY DEF Answer, StaysShown
<1>2. ASSUME ~ Refreshed(s), fetch # "asked" PROVE FALSE
  <2>1. page = pend[s].from /\ pend[s].told = pend[s].from
    BY <1>1, <1>2 DEF Missed, Misses
  <2>2. m \in Offers(page) /\ Meet(m.changes, query.reads)
    BY <2>1, FollowedFact DEF Answer, Waiting
  <2>3. ~ Reaches(m.refreshes, query.key) /\ ~ Unrefreshed(query.key, m)
    <3>1. ~ Unrefreshed(query.key, m)
      BY <1>1, <1>2, <2>1 DEF Missed, Misses
    <3> QED
      BY <1>2, <3>1 DEF Refreshed
  <2>4. query \in Shows(page)
    BY <1>1 DEF IInv
  <2> QED
    BY <1>1, <2>2, <2>3, <2>4 DEF Covered
<1> QED
  BY <1>1, <1>2

LEMMA AnswerStep ==
  ASSUME IInv, Covered, NEW s \in Slots, Answer(s)
  PROVE  IInv'
<1> DEFINE m == Followed(s)
           to == IF m.goes = <<>> THEN page ELSE m.goes
<1>1. Waiting(s) /\ to \in Paths
  BY FollowedFact DEF Answer, Waiting, IInv, TypeOK
<1>2. /\ UNCHANGED <<area, query, data>> /\ page' = to
      /\ fetch' = IF Refreshed(s) THEN Refetched ELSE fetch
      /\ shown' = (query.key \notin m.ends /\ StaysShown(to))
      /\ missed' = IF shown' THEN Missed(s) ELSE "no"
  BY DEF Answer
<1>3. pend' = [t \in Slots |-> IF t = s THEN Free ELSE IF to = page THEN pend[t] ELSE Follow(pend[t], page, to)]
  BY DEF Answer
<1>4. \A t \in Slots : /\ pend'[t] \in Requests \cup {Free}
                       /\ Waiting(t)' => Waiting(t) /\ pend'[t].from = pend[t].from /\ pend'[t].name = pend[t].name
  <2> SUFFICES ASSUME NEW t \in Slots
               PROVE  /\ pend'[t] \in Requests \cup {Free}
                      /\ pend'[t].stage # "free" =>
                           Waiting(t) /\ pend'[t].from = pend[t].from /\ pend'[t].name = pend[t].name
    BY DEF Waiting
  <2>1. pend[t] \in Requests \cup {Free} /\ Free.stage = "free"
    BY DEF IInv, TypeOK, Free
  <2>2. pend'[t] \in {Free, pend[t], Follow(pend[t], page, to)}
    BY <1>3
  <2> QED
    BY <1>1, <2>1, <2>2, FollowFact, RequestFact DEF Waiting
<1>5. TypeOK'
  <2>1. pend' \in [Slots -> Requests \cup {Free}]
    BY <1>3, <1>4
  <2>2. Paths' = Paths /\ Names' = Names /\ Queries' = Queries /\ Requests' = Requests
    BY <1>2 DEF Paths, Names, Queries, Requests
  <2>3. shown' \in BOOLEAN /\ fetch' \in {"off", "asked", "old", "new"}
    BY <1>2 DEF StaysShown, Refetched, IInv, TypeOK
  <2>4. missed' \in Reasons \cup {"no"}
    BY <1>2 DEF Missed, Misses, Reasons, IInv, TypeOK
  <2> QED
    BY <1>1, <1>2, <2>1, <2>2, <2>3, <2>4 DEF IInv, TypeOK
<1>6. Started'
  BY <1>2, <1>4 DEF IInv, Started, Offers, PageAt
<1>7. shown' => (query \in Shows(page))'
  BY <1>2 DEF StaysShown, Shows, PageAt
<1>8. ASSUME shown', missed' = "no", fetch' \in {"off", "old"} PROVE FALSE
  <2>1. shown /\ missed' = Missed(s) /\ (~ Refreshed(s) => fetch = "asked")
    BY <1>8, NamedFact
  <2>2. CASE ~ Refreshed(s)
    BY <1>2, <1>8, <2>1, <2>2
  <2>3. CASE Refreshed(s)
    BY <1>2, <1>8, <2>1, <2>3 DEF Refetched, Missed
  <2> QED
    BY <2>2, <2>3
<1> QED
  BY <1>5, <1>6, <1>7, <1>8 DEF IInv

LEMMA NextIInv == IInv /\ [Next]_vars => IInv'
<1> SUFFICES ASSUME IInv, [Next]_vars PROVE IInv'
  OBVIOUS
<1>1. CASE \E to \in Paths : Open(to)
  BY <1>1, OpenStep
<1>2. CASE Show \/ Hide \/ Collect \/ ServerRead \/ Arrive \/ FetchFails \/ Reconnect
  BY <1>2, QueryStep
<1>3. CASE \E s \in Slots : \E m \in Offers(page) : Click(s, m)
  BY <1>3, ClickStep
<1>4. CASE \E s \in Slots : Commit(s) \/ Refuse(s) \/ Lose(s) \/ Answer(s)
  <2>1. Covered
    BY CoveredFact DEF IInv, TypeOK
  <2> QED
    BY <1>4, <2>1, CommitStep, RefuseStep, LoseStep, AnswerStep
<1>5. CASE UNCHANGED vars
  BY <1>5 DEF vars, IInv, TypeOK, Paths, Names, Queries, Requests, Started, SomeDone, Waiting, Offers, Shows, PageAt
<1> QED
  BY <1>1, <1>2, <1>3, <1>4, <1>5 DEF Next

-----------------------------------------------------------------------------
\* Every mutation a page of the application offers invalidates what the page
\* shows of the places it changes, unless that leaves the screen or is known
\* not to be refetched: for all records, and whatever is selected or made.
THEOREM CoveredAlways == Spec => []Covered
<1>1. IInv => Covered
  BY CoveredFact DEF IInv, TypeOK
<1> QED
  BY <1>1, InitIInv, NextIInv, PTL DEF Spec

\* No page goes on showing what it showed before a write of the user's own
\* without a named reason: for any pages of the application, and any number of
\* mutations that overlap with each other and with reads.
THEOREM OwnWritesShownAlways == Spec => []OwnWritesShown
<1>1. IInv => OwnWritesShown
  BY DEF IInv, OwnWritesShown, SomeDone
<1> QED
  BY <1>1, InitIInv, NextIInv, PTL DEF Spec

-----------------------------------------------------------------------------
\* Preferences.

LEMMA RemoveFact ==
  ASSUME NEW S, NEW q \in Seq(S), NEW i \in DOMAIN q
  PROVE  /\ RemoveAt(q, i) \in Seq(S)
         /\ Len(RemoveAt(q, i)) = Len(q) - 1
         /\ \A j \in 1 .. Len(q) - 1 : RemoveAt(q, i)[j] = IF j < i THEN q[j] ELSE q[j + 1]
<1> DEFINE A == SubSeq(q, 1, i - 1)
           B == SubSeq(q, i + 1, Len(q))
<1>0. Len(q) \in Nat /\ i \in 1 .. Len(q) /\ DOMAIN q = 1 .. Len(q)
  BY LenProperties
<1>1. A \in Seq(S) /\ Len(A) = i - 1 /\ \A j \in 1 .. i - 1 : A[j] = q[j]
  BY <1>0, SubSeqProperties
<1>2. B \in Seq(S) /\ Len(B) = Len(q) - i /\ \A j \in 1 .. Len(q) - i : B[j] = q[i + j]
  BY <1>0, SubSeqProperties
<1>3. RemoveAt(q, i) = A \o B
  BY DEF RemoveAt
<1> HIDE DEF A, B
<1>4. /\ A \o B \in Seq(S) /\ Len(A \o B) = Len(A) + Len(B)
      /\ \A j \in 1 .. Len(A) + Len(B) : (A \o B)[j] = IF j <= Len(A) THEN A[j] ELSE B[j - Len(A)]
  BY <1>1, <1>2, ConcatProperties
<1>5. ASSUME NEW j \in 1 .. Len(q) - 1 PROVE (A \o B)[j] = IF j < i THEN q[j] ELSE q[j + 1]
  <2>1. CASE j < i
    BY <1>0, <1>1, <1>2, <1>4, <2>1
  <2>2. CASE ~ (j < i)
    <3>0. j \in 1 .. Len(A) + Len(B)
      BY <1>0, <1>1, <1>2
    <3>1. j - Len(A) \in 1 .. Len(q) - i /\ i + (j - Len(A)) = j + 1 /\ ~ (j <= Len(A))
      BY <1>0, <1>1, <2>2
    <3>2. (A \o B)[j] = B[j - Len(A)]
      BY <1>4, <3>0, <3>1
    <3> QED
      BY <1>2, <2>2, <3>1, <3>2
  <2> QED
    BY <2>1, <2>2
<1>6. Len(A \o B) = Len(q) - 1
  BY <1>0, <1>1, <1>2, <1>4
<1> QED
  BY <1>3, <1>4, <1>5, <1>6

\* what is left was there before
LEMMA RemainFact ==
  ASSUME NEW S, NEW q \in Seq(S), NEW i \in DOMAIN q
  PROVE  /\ RemoveAt(q, i) \in Seq(S) /\ Len(RemoveAt(q, i)) = Len(q) - 1
         /\ \A j \in DOMAIN RemoveAt(q, i) : \E k \in DOMAIN q \ {i} : RemoveAt(q, i)[j] = q[k]
         /\ \A k \in DOMAIN q \ {i} : \E j \in DOMAIN RemoveAt(q, i) : RemoveAt(q, i)[j] = q[k]
<1> DEFINE R == RemoveAt(q, i)
<1>1. /\ R \in Seq(S) /\ Len(R) = Len(q) - 1
      /\ \A j \in 1 .. Len(q) - 1 : R[j] = IF j < i THEN q[j] ELSE q[j + 1]
  BY RemoveFact
<1> HIDE DEF R
<1>2. Len(q) \in Nat /\ i \in 1 .. Len(q) /\ DOMAIN q = 1 .. Len(q) /\ DOMAIN R = 1 .. Len(q) - 1
  BY <1>1, LenProperties
<1>3. ASSUME NEW j \in DOMAIN R PROVE \E k \in DOMAIN q \ {i} : R[j] = q[k]
  <2>1. CASE j < i
    BY <1>1, <1>2, <2>1
  <2>2. CASE ~ (j < i)
    <3>1. j + 1 \in DOMAIN q \ {i} /\ R[j] = q[j + 1]
      BY <1>1, <1>2, <2>2
    <3> QED
      BY <3>1
  <2> QED
    BY <2>1, <2>2
<1>4. ASSUME NEW k \in DOMAIN q \ {i} PROVE \E j \in DOMAIN R : R[j] = q[k]
  <2>1. CASE k < i
    BY <1>1, <1>2, <2>1
  <2>2. CASE ~ (k < i)
    <3>1. k - 1 \in DOMAIN R /\ R[k - 1] = q[k]
      BY <1>1, <1>2, <2>2
    <3> QED
      BY <3>1
  <2> QED
    BY <2>1, <2>2
<1> QED
  BY <1>1, <1>3, <1>4 DEF R

\* ... in the same order
LEMMA OrderFact ==
  ASSUME NEW S, NEW q \in Seq(S), NEW i \in DOMAIN q, NEW j \in DOMAIN RemoveAt(q, i)
  PROVE  \E k \in DOMAIN q \ {i} :
           /\ RemoveAt(q, i)[j] = q[k]
           /\ \A m \in DOMAIN q \ {i} : k < m => \E l \in DOMAIN RemoveAt(q, i) : j < l /\ RemoveAt(q, i)[l] = q[m]
<1> DEFINE R == RemoveAt(q, i)
<1>1. /\ R \in Seq(S) /\ Len(R) = Len(q) - 1
      /\ \A l \in 1 .. Len(q) - 1 : R[l] = IF l < i THEN q[l] ELSE q[l + 1]
  BY RemoveFact
<1>2. j \in DOMAIN R
  OBVIOUS
<1> HIDE DEF R
<1>3. Len(q) \in Nat /\ i \in 1 .. Len(q) /\ DOMAIN q = 1 .. Len(q) /\ DOMAIN R = 1 .. Len(q) - 1
  BY <1>1, LenProperties
<1>4. PICK k \in DOMAIN q \ {i} : R[j] = q[k] /\ k = IF j < i THEN j ELSE j + 1
  <2>1. CASE j < i
    BY <1>1, <1>2, <1>3, <2>1
  <2>2. CASE ~ (j < i)
    <3>1. j + 1 \in DOMAIN q \ {i} /\ R[j] = q[j + 1]
      BY <1>1, <1>2, <1>3, <2>2
    <3> QED
      BY <2>2, <3>1
  <2> QED
    BY <2>1, <2>2
<1>5. ASSUME NEW m \in DOMAIN q \ {i}, k < m PROVE \E l \in DOMAIN R : j < l /\ R[l] = q[m]
  <2>1. CASE m < i
    BY <1>1, <1>2, <1>3, <1>4, <1>5, <2>1
  <2>2. CASE ~ (m < i)
    <3>1. m - 1 \in DOMAIN R /\ R[m - 1] = q[m]
      BY <1>1, <1>3, <2>2
    <3>2. j < m - 1
      BY <1>2, <1>3, <1>4, <1>5, <2>2
    <3> QED
      BY <3>1, <3>2
  <2> QED
    BY <2>1, <2>2
<1> QED
  BY <1>4, <1>5 DEF R

LEMMA MapFact ==
  ASSUME NEW S, NEW T, NEW q \in Seq(S), NEW f \in [DOMAIN q -> T]
  PROVE  f \in Seq(T) /\ Len(f) = Len(q) /\ DOMAIN f = DOMAIN q
<1>1. Len(q) \in Nat /\ DOMAIN q = 1 .. Len(q)
  BY LenProperties
<1>2. f \in Seq(T)
  BY <1>1
<1> QED
  BY <1>1, <1>2, LenProperties

LEMMA SaveFact ==
  ASSUME NEW r \in Saves, NEW kind \in {"cancelled", "gone"}
  PROVE  /\ [r EXCEPT !.kind = kind] \in Saves
         /\ [r EXCEPT !.kind = kind].kind = kind /\ [r EXCEPT !.kind = kind].late = r.late
         /\ [r EXCEPT !.late = TRUE] \in Saves
         /\ [r EXCEPT !.late = TRUE].late = TRUE
         /\ [r EXCEPT !.late = TRUE].kind = r.kind /\ [r EXCEPT !.late = TRUE].by = r.by
         /\ [r EXCEPT !.late = TRUE].set = r.set
BY DEF Saves

LEMMA CancelledFact ==
  ASSUME NEW q \in Seq(Saves)
  PROVE  /\ Cancelled(q) \in Seq(Saves) /\ Len(Cancelled(q)) = Len(q) /\ DOMAIN Cancelled(q) = DOMAIN q
         /\ \A i \in DOMAIN q : Cancelled(q)[i].late = q[i].late /\ Cancelled(q)[i].kind \in {q[i].kind, "cancelled"}
<1>0. \A i \in DOMAIN q : q[i] \in Saves
  BY ElementOfSeq, LenProperties
<1>1. Cancelled(q) \in [DOMAIN q -> Saves]
  BY <1>0, SaveFact DEF Cancelled
<1>2. \A i \in DOMAIN q : Cancelled(q)[i].late = q[i].late /\ Cancelled(q)[i].kind \in {q[i].kind, "cancelled"}
  BY <1>0, SaveFact DEF Cancelled
<1> QED
  BY <1>1, <1>2, MapFact

LEMMA SendingFact ==
  ASSUME PrefsTypeOK, token # None, NEW kind \in {"save", "load"}, NEW set \in Sets, sent' = Sending(kind, set)
  PROVE  /\ sent' \in Seq(Saves) /\ Len(sent') = Len(sent) + 1
         /\ Len(sent) \in Nat /\ DOMAIN sent = 1 .. Len(sent) /\ DOMAIN sent' = 1 .. Len(sent) + 1
         /\ Len(sent) + 1 \in DOMAIN sent'
         /\ \A i \in 1 .. Len(sent) : sent'[i] = sent[i]
         /\ sent'[Len(sent) + 1].by = token /\ sent'[Len(sent) + 1].kind = kind
         /\ sent'[Len(sent) + 1].set = set /\ sent'[Len(sent) + 1].late = FALSE
<1> DEFINE r == [by |-> token, kind |-> kind, set |-> set, late |-> FALSE]
<1>1. r \in Saves
  BY DEF PrefsTypeOK, Saves
<1>2. r.by = token /\ r.kind = kind /\ r.set = set /\ r.late = FALSE
  OBVIOUS
<1>3. sent \in Seq(Saves) /\ sent' = Append(sent, r)
  BY DEF PrefsTypeOK, Sending
<1> HIDE DEF r
<1>4. /\ sent' \in Seq(Saves) /\ Len(sent') = Len(sent) + 1
      /\ \A i \in 1 .. Len(sent) : sent'[i] = sent[i]
      /\ sent'[Len(sent) + 1] = r
  BY <1>1, <1>3, AppendProperties
<1>5. Len(sent) \in Nat /\ DOMAIN sent = 1 .. Len(sent) /\ DOMAIN sent' = 1 .. Len(sent) + 1
  BY <1>3, <1>4, LenProperties
<1>6. Len(sent) + 1 \in DOMAIN sent'
  BY <1>5
<1> QED
  BY <1>2, <1>4, <1>5, <1>6

-----------------------------------------------------------------------------
LEMMA NoneFact == None \notin Tables /\ None \notin Users /\ None \notin Values /\ Default \in Values /\ Legacy \in Values
BY SettingsAssumption

LEMMA RestagedHere ==
  ASSUME list \in Tables, StagedHere, NEW after, edit' = Restaged(prefs[list], after),
         prefs'[list] = after, UNCHANGED list
  PROVE  StagedHere'
<1>1. CASE edit = None \/ (prefs[list] = Default /\ after = Default)
  BY <1>1 DEF Restaged, StagedHere
<1>2. CASE ~ (edit = None \/ (prefs[list] = Default /\ after = Default))
  BY <1>2 DEF Restaged, Staged, StagedHere
<1> QED
  BY <1>1, <1>2

LEMMA NextStaged ==
  ASSUME list \in Tables, StagedHere, [PrefsNext]_prefsVars
  PROVE  list' \in Tables /\ StagedHere'
<1>1. CASE OpenColumns
  BY <1>1 DEF OpenColumns, Staged, StagedHere
<1>2. ASSUME NEW v \in Values, Stage(v) PROVE list' \in Tables /\ StagedHere'
  BY <1>2, NoneFact DEF Stage, StagedHere
<1>3. ASSUME NEW t \in Tables, GoTo(t) PROVE list' \in Tables /\ StagedHere'
  BY <1>3, NoneFact DEF GoTo, Restaged, Staged, StagedHere
<1>4. CASE CloseColumns \/ SaveColumns \/ ResetColumns \/ (\E s \in Settings, v \in Values : Choose(s, v))
  <2>1. edit' = None /\ UNCHANGED list
    BY <1>4 DEF CloseColumns, SaveColumns, ResetColumns, Choose, Put
  <2> QED
    BY <2>1 DEF StagedHere
<1>5. CASE (\E u \in Users : Login(u)) \/ MeFails \/ Logout \/ Reload \/ Expire
  <2>1. edit' = None /\ UNCHANGED list
    BY <1>5 DEF Login, MeFails, Logout, SignedOut, Reload, Expire, Reloaded
  <2> QED
    BY <2>1 DEF StagedHere
<1>6. CASE MeArrives
  BY <1>6, RestagedHere DEF MeArrives, StagedHere
<1>7. ASSUME NEW i \in DOMAIN applied, AnswerSave(i) PROVE list' \in Tables /\ StagedHere'
  BY <1>7, RestagedHere DEF AnswerSave, StagedHere
<1>8. ASSUME NEW r, Failed(r), UNCHANGED list PROVE list' \in Tables /\ StagedHere'
  BY <1>8, RestagedHere DEF Failed, StagedHere
<1>9. CASE MeRead \/ (\E i \in DOMAIN sent : Apply(i)) \/ (\E u \in Users, s \in Settings, v \in Values : OtherChooses(u, s, v))
  BY <1>9 DEF MeRead, Apply, OtherChooses, StagedHere
<1>10. CASE UNCHANGED prefsVars
  BY <1>10 DEF prefsVars, StagedHere
<1>11. CASE (\E i \in DOMAIN sent : RefuseSave(i)) \/ (\E i \in DOMAIN applied : LoseSave(i))
  BY <1>8, <1>11 DEF RefuseSave, LoseSave
<1> QED
  BY <1>1, <1>2, <1>3, <1>4, <1>5, <1>6, <1>7, <1>9, <1>10, <1>11 DEF PrefsNext

\* The columns staged are those the list displays, or were staged for the
\* table to which they will be saved (ColumnConfigPopover.tsx).
THEOREM StagedHereAlways == PrefsSpec => []StagedHere
<1> DEFINE I == list \in Tables /\ StagedHere
<1>1. PrefsInit => I
  BY DEF PrefsInit, StagedHere
<1>2. I /\ [PrefsNext]_prefsVars => I'
  BY NextStaged
<1> QED
  BY <1>1, <1>2, PTL DEF PrefsSpec

-----------------------------------------------------------------------------
LEMMA SetFact ==
  /\ AllDefault \in Sets
  /\ \A set \in Sets : Merged(set) \in Sets
  /\ \A set \in Sets, s \in Settings, v \in Values : [set EXCEPT ![s] = v] \in Sets
  /\ \A set \in Sets, s \in Settings : set[s] \in Values
BY NoneFact DEF AllDefault, Merged, Sets

LEMMA SeqSaves ==
  ASSUME NEW q \in Seq(Saves), NEW i \in DOMAIN q
  PROVE  /\ q[i] \in Saves /\ Len(q) \in Nat /\ DOMAIN q = 1 .. Len(q) /\ i \in 1 .. Len(q)
         /\ q[i].by \in Users /\ q[i].set \in Sets /\ q[i].kind \in {"save", "load", "cancelled", "gone"}
<1>1. Len(q) \in Nat /\ DOMAIN q = 1 .. Len(q)
  BY LenProperties
<1>2. q[i] \in Saves
  BY <1>1, ElementOfSeq
<1> QED
  BY <1>1, <1>2 DEF Saves

Edits == [keys : Values, of : Tables \cup {None}] \cup {None}

LEMMA RestagedType ==
  ASSUME edit \in Edits, NEW before, NEW after \in Values
  PROVE  Restaged(before, after) \in Edits
BY DEF Restaged, Staged, Edits
\* the page asks for somebody's session, or knows whose it is
Session == (Loading \/ user = token) /\ (Loading => token # None)

\* what the proofs know of the saves: which may still reach the screen
Kinds ==
  /\ \A i \in DOMAIN sent : sent[i].late = FALSE
  /\ \A i \in DOMAIN applied : applied[i].kind # "gone"

PInv == PrefsTypeOK /\ Session /\ Kinds

LEMMA InitPInv == PrefsInit => PInv
<1> SUFFICES ASSUME PrefsInit PROVE PInv
  OBVIOUS
<1>1. Len(<<>>) = 0 /\ <<>> \in Seq(Saves) /\ DOMAIN <<>> = {}
  OBVIOUS
<1>2. NoChoices \in [Settings -> Values \cup {None}]
  BY DEF NoChoices
<1>3. stored \in [Users -> Sets] /\ 0 \in 0 .. MaxTurns /\ 0 <= MaxSaves
  BY SetFact, SettingsAssumption DEF PrefsInit
<1> QED
  BY <1>1, <1>2, <1>3, SetFact DEF PrefsInit, PInv, PrefsTypeOK, Session, Kinds, NotAsked, Loading

LEMMA TurnFact ==
  ASSUME PrefsTypeOK, Turn
  PROVE  turns' \in 0 .. MaxTurns
BY SettingsAssumption DEF PrefsTypeOK, Turn

LEMMA PopoverPInv ==
  ASSUME PInv, OpenColumns \/ (\E v \in Values : Stage(v)) \/ CloseColumns \/ (\E t \in Tables : GoTo(t))
  PROVE  PInv'
<1>0. PrefsTypeOK /\ \A t \in Tables : prefs[t] \in Values
  BY SetFact DEF PInv, PrefsTypeOK, Settings
<1>1. edit' \in Edits /\ list' \in Tables
  <2>1. CASE OpenColumns
    BY <1>0, <2>1 DEF OpenColumns, Staged, Edits, PrefsTypeOK
  <2>2. ASSUME NEW v \in Values, Stage(v) PROVE edit' \in Edits /\ list' \in Tables
    BY <1>0, <2>2 DEF Stage, Edits, PrefsTypeOK
  <2>3. CASE CloseColumns
    BY <1>0, <2>3 DEF CloseColumns, Edits, PrefsTypeOK
  <2>4. ASSUME NEW t \in Tables, GoTo(t) PROVE edit' \in Edits /\ list' \in Tables
    <3>1. Restaged(None, prefs[t]) \in Edits
      BY <1>0, RestagedType DEF PrefsTypeOK, Edits
    <3> QED
      BY <2>4, <3>1 DEF GoTo, Edits
  <2> QED
    BY <2>1, <2>2, <2>3, <2>4
<1>2. UNCHANGED <<token, legacy, user, me, prefs, sent, applied, stored, chosen, doubt, turns>>
  BY DEF OpenColumns, Stage, CloseColumns, GoTo
<1> QED
  BY <1>0, <1>1, <1>2 DEF PInv, PrefsTypeOK, Session, Kinds, Loading, Edits

\* A choice: the screen, and a save if somebody is known to be signed in.
LEMMA PutFact ==
  ASSUME PInv, NEW s \in Settings, NEW v \in Values, Put(s, v)
  PROVE  /\ prefs' = [prefs EXCEPT ![s] = v] /\ prefs' \in Sets
         /\ UNCHANGED <<token, legacy, user, me, list, applied, stored, doubt, turns>>
         /\ chosen' \in [Settings -> Values \cup {None}]
         /\ user = None => UNCHANGED <<sent, chosen>>
         /\ user # None => /\ ~ Loading /\ token = user
                           /\ sent' = Sending("save", prefs')
                           /\ \A x \in Settings : chosen'[x] \in {None, prefs'[x]}
<1>1. PrefsTypeOK /\ prefs' = [prefs EXCEPT ![s] = v] /\ prefs' \in Sets
  BY SetFact DEF PInv, PrefsTypeOK, Put
<1>2. UNCHANGED <<token, legacy, user, me, list, applied, stored, doubt, turns>>
  BY DEF Put
<1>3. user = None => UNCHANGED <<sent, chosen>>
  BY DEF Put
<1>4. ASSUME user # None
      PROVE  /\ ~ Loading /\ token = user /\ sent' = Sending("save", prefs')
             /\ \A x \in Settings : chosen'[x] \in {None, prefs'[x]}
             /\ chosen' \in [Settings -> Values \cup {None}]
  <2>1. ~ Loading /\ token = user /\ sent' = Sending("save", prefs')
    BY <1>1, <1>4 DEF PInv, Session, Put
  <2>2. chosen' = [x \in Settings |-> IF x = s THEN v ELSE IF chosen[x] = prefs[x] THEN chosen[x] ELSE None]
    BY <1>4 DEF Put
  <2>3. \A x \in Settings : chosen'[x] \in {None, prefs'[x]}
    BY <1>1, <2>2 DEF PrefsTypeOK, Sets
  <2>4. chosen' \in [Settings -> Values \cup {None}]
    BY <1>1, <2>2 DEF PrefsTypeOK
  <2> QED
    BY <2>1, <2>3, <2>4
<1> QED
  BY <1>1, <1>2, <1>3, <1>4 DEF PrefsTypeOK

\* the setters: what they put, and the popover when they are its buttons
LEMMA ChoiceFact ==
  ASSUME PInv, SaveColumns \/ ResetColumns \/ \E s \in Settings, v \in Values : Choose(s, v)
  PROVE  edit' \in Edits /\ \E s \in Settings, v \in Values : Put(s, v)
<1>0. edit \in Edits /\ list \in Settings
  BY DEF PInv, PrefsTypeOK, Edits, Settings
<1>1. CASE SaveColumns
  BY <1>0, <1>1 DEF SaveColumns, Edits
<1>2. CASE ResetColumns
  BY <1>0, <1>2, NoneFact DEF ResetColumns, Edits
<1>3. ASSUME NEW s \in Settings, NEW v \in Values, Choose(s, v)
      PROVE  edit' \in Edits /\ \E x \in Settings, w \in Values : Put(x, w)
  BY <1>0, <1>3 DEF Choose
<1> QED
  BY <1>1, <1>2, <1>3

LEMMA ChoicePInv ==
  ASSUME PInv, NEW s \in Settings, NEW v \in Values, Put(s, v), edit' \in Edits
  PROVE  PInv'
<1>0. PrefsTypeOK /\ Session /\ Kinds /\ Put(s, v)
  BY DEF PInv
<1>1. /\ prefs' \in Sets /\ chosen' \in [Settings -> Values \cup {None}]
      /\ UNCHANGED <<token, legacy, user, me, list, applied, stored, doubt, turns>>
  BY PutFact
<1>2. CASE user = None
  <2>1. UNCHANGED <<sent, chosen>>
    BY <1>2, PutFact
  <2> QED
    BY <1>0, <1>1, <2>1 DEF PInv, PrefsTypeOK, Session, Kinds, Loading, Edits
<1>3. CASE user # None
  <2>1. sent' = Sending("save", prefs') /\ token # None /\ Len(sent) + Len(applied) < MaxSaves
    BY <1>0, <1>3, PutFact DEF Put, Room
  <2>2. /\ sent' \in Seq(Saves) /\ Len(sent') = Len(sent) + 1
        /\ Len(sent) \in Nat /\ DOMAIN sent = 1 .. Len(sent) /\ DOMAIN sent' = 1 .. Len(sent) + 1
        /\ \A i \in 1 .. Len(sent) : sent'[i] = sent[i]
        /\ sent'[Len(sent) + 1].late = FALSE
    BY <1>0, <1>1, <2>1, SendingFact
  <2>3. Len(applied) \in Nat
    BY <1>0, LenProperties DEF PrefsTypeOK
  <2>4. \A i \in DOMAIN sent' : sent'[i].late = FALSE
    BY <1>0, <2>2, <2>3 DEF Kinds
  <2>5. Len(sent') + Len(applied') <= MaxSaves
    BY <1>1, <2>1, <2>2, <2>3, SettingsAssumption
  <2> QED
    BY <1>0, <1>1, <2>2, <2>4, <2>5 DEF PInv, PrefsTypeOK, Session, Kinds, Loading, Edits
<1> QED
  BY <1>2, <1>3
-----------------------------------------------------------------------------
\* The page has no session any more, or asks for one: loads are cancelled.
LEMMA SessionPInv ==
  ASSUME PInv, (\E u \in Users : Login(u)) \/ MeFails \/ Logout
  PROVE  PInv' /\ (me'.stage = "asked" \/ (user' = None /\ me'.stage = "off"))
<1>0. PrefsTypeOK /\ Session /\ Kinds
  BY DEF PInv
<1>1. /\ sent' \in Seq(Saves) /\ Len(sent') = Len(sent) /\ applied' \in Seq(Saves) /\ Len(applied') = Len(applied)
      /\ Kinds'
  <2>1. sent' = Cancelled(sent) /\ applied' = Cancelled(applied)
    BY DEF Login, MeFails, Logout
  <2> QED
    BY <1>0, <2>1, CancelledFact DEF PrefsTypeOK, Kinds
<1>2. UNCHANGED <<legacy, list, stored, doubt>>
  BY DEF Login, MeFails, Logout
<1>3. NoChoices \in [Settings -> Values \cup {None}] /\ NotAsked \in [stage : {"off", "asked", "read"}, set : Sets]
      /\ Asked \in [stage : {"off", "asked", "read"}, set : Sets] /\ NotAsked.stage = "off" /\ Asked.stage = "asked"
  BY SetFact DEF NoChoices, NotAsked, Asked
<1>4. ASSUME NEW u \in Users, Login(u) PROVE PInv' /\ me'.stage = "asked"
  <2>1. turns' \in 0 .. MaxTurns /\ token' = u /\ me' = Asked /\ edit' = None /\ UNCHANGED <<user, prefs, chosen>>
    BY <1>0, <1>4, TurnFact DEF Login
  <2> QED
    BY <1>0, <1>1, <1>2, <1>3, <2>1, NoneFact DEF PInv, PrefsTypeOK, Session, Loading
<1>5. ASSUME MeFails \/ Logout PROVE PInv' /\ user' = None /\ me'.stage = "off"
  <2>1. /\ token' = None /\ user' = None /\ me' = NotAsked /\ prefs' = AllDefault /\ edit' = None /\ chosen' = NoChoices
        /\ UNCHANGED turns
    BY <1>5 DEF MeFails, Logout, SignedOut
  <2> QED
    BY <1>0, <1>1, <1>2, <1>3, <2>1, SetFact DEF PInv, PrefsTypeOK, Session, Loading
<1> QED
  BY <1>4, <1>5

LEMMA ReloadPInv ==
  ASSUME PInv, Reload \/ Expire
  PROVE  PInv' /\ (me'.stage = "asked" \/ (user' = None /\ me'.stage = "off"))
<1>0. PrefsTypeOK /\ Session /\ Kinds
  BY DEF PInv
<1>1. (me' = Asked /\ token # None /\ token' = token) \/ (me' = NotAsked /\ token' = None)
  BY DEF Reload, Expire
<1>2. /\ Turn /\ user' = None /\ prefs' = AllDefault /\ edit' = None /\ applied' = <<>> /\ chosen' = NoChoices
      /\ UNCHANGED <<legacy, list, stored, doubt>>
  BY DEF Reload, Expire, Reloaded
<1>3. sent' = [i \in DOMAIN sent |-> [sent[i] EXCEPT !.kind = "gone"]]
  BY DEF Reload, Expire, Reloaded
<1>4. \A i \in DOMAIN sent : [sent[i] EXCEPT !.kind = "gone"] \in Saves /\ [sent[i] EXCEPT !.kind = "gone"].late = FALSE
  <2> TAKE i \in DOMAIN sent
  <2>1. sent[i] \in Saves /\ sent[i].late = FALSE
    BY <1>0, SeqSaves DEF PrefsTypeOK, Kinds
  <2> QED
    BY <2>1, SaveFact
<1>5. sent' \in Seq(Saves) /\ Len(sent') = Len(sent) /\ DOMAIN sent' = DOMAIN sent
  BY <1>0, <1>3, <1>4, MapFact DEF PrefsTypeOK
<1>6. Kinds'
  <2>1. \A i \in DOMAIN sent' : sent'[i].late = FALSE
    BY <1>3, <1>4, <1>5
  <2>2. DOMAIN applied' = {}
    BY <1>2
  <2> QED
    BY <2>1, <2>2 DEF Kinds
<1>7. Len(sent') + Len(applied') <= MaxSaves
  BY <1>0, <1>2, <1>5, LenProperties, SettingsAssumption DEF PrefsTypeOK
<1>8. NoChoices \in [Settings -> Values \cup {None}] /\ NotAsked \in [stage : {"off", "asked", "read"}, set : Sets]
      /\ Asked \in [stage : {"off", "asked", "read"}, set : Sets] /\ NotAsked.stage = "off" /\ Asked.stage = "asked"
  BY SetFact DEF NoChoices, NotAsked, Asked
<1>9. turns' \in 0 .. MaxTurns /\ applied' \in Seq(Saves) /\ token' \in Users \cup {None}
  BY <1>0, <1>1, <1>2, TurnFact DEF PrefsTypeOK
<1>10. PrefsTypeOK'
  BY <1>0, <1>1, <1>2, <1>5, <1>7, <1>8, <1>9, SetFact DEF PrefsTypeOK
<1>11. Session' /\ (me'.stage = "asked" \/ (user' = None /\ me'.stage = "off"))
  BY <1>1, <1>2, <1>8 DEF Session, Loading
<1> QED
  BY <1>6, <1>10, <1>11 DEF PInv

LEMMA MeReadPInv ==
  ASSUME PInv, MeRead
  PROVE  /\ PInv' /\ me'.stage = "read" /\ me'.set = stored'[token']
         /\ \A i \in DOMAIN applied' : applied'[i].late = TRUE
<1>0. PrefsTypeOK /\ Session /\ Kinds
  BY DEF PInv
<1>1. /\ me.stage = "asked" /\ me' = [stage |-> "read", set |-> stored[token]] /\ doubt' = "no"
      /\ applied' = [j \in DOMAIN applied |-> [applied[j] EXCEPT !.late = TRUE]]
      /\ UNCHANGED <<token, legacy, user, prefs, list, edit, sent, stored, chosen, turns>>
  BY DEF MeRead
<1>2. ASSUME NEW j \in DOMAIN applied
      PROVE  /\ [applied[j] EXCEPT !.late = TRUE] \in Saves /\ [applied[j] EXCEPT !.late = TRUE].late = TRUE
             /\ [applied[j] EXCEPT !.late = TRUE].kind # "gone"
  <2>1. applied[j] \in Saves /\ applied[j].kind # "gone"
    BY <1>0, SeqSaves DEF PrefsTypeOK, Kinds
  <2> QED
    BY <2>1, SaveFact
<1>3. applied' \in Seq(Saves) /\ Len(applied') = Len(applied) /\ DOMAIN applied' = DOMAIN applied
  BY <1>0, <1>1, <1>2, MapFact DEF PrefsTypeOK
<1>4. Kinds' /\ \A i \in DOMAIN applied' : applied'[i].late = TRUE
  BY <1>0, <1>1, <1>2, <1>3 DEF Kinds
<1>5. token \in Users
  BY <1>0, <1>1 DEF PrefsTypeOK, Session, Loading
<1>6. me' \in [stage : {"off", "asked", "read"}, set : Sets] /\ me'.stage = "read" /\ me'.set = stored'[token']
  BY <1>0, <1>1, <1>5 DEF PrefsTypeOK
<1>7. PrefsTypeOK'
  BY <1>0, <1>1, <1>3, <1>6 DEF PrefsTypeOK
<1>8. Session'
  BY <1>0, <1>1, <1>6 DEF Session, Loading
<1> QED
  BY <1>4, <1>6, <1>7, <1>8 DEF PInv

LEMMA MeArrivesPInv ==
  ASSUME PInv, MeArrives
  PROVE  PInv' /\ me'.stage = "off"
<1>0. PrefsTypeOK /\ Session /\ Kinds
  BY DEF PInv
<1>1. /\ me.stage = "read" /\ me' = NotAsked /\ user' = token /\ chosen' = NoChoices
      /\ UNCHANGED <<token, list, applied, stored, doubt, turns>>
  BY DEF MeArrives
<1>2. token \in Users /\ me.set \in Sets /\ list \in Settings
  BY <1>0, <1>1 DEF PrefsTypeOK, Session, Loading, Settings
<1>3. NoChoices \in [Settings -> Values \cup {None}] /\ NotAsked \in [stage : {"off", "asked", "read"}, set : Sets]
      /\ NotAsked.stage = "off"
  BY SetFact DEF NoChoices, NotAsked
<1>4. Session' /\ me'.stage = "off"
  BY <1>1, <1>3 DEF Session, Loading
<1>5. CASE legacy
  <2>1. /\ sent' = Sending("load", Merged(me.set)) /\ UNCHANGED <<prefs, edit>> /\ legacy' = FALSE
        /\ Len(sent) + Len(applied) < MaxSaves
    BY <1>5 DEF MeArrives, Room
  <2>2. Merged(me.set) \in Sets /\ token # None
    BY <1>2, SetFact, NoneFact
  <2>3. /\ sent' \in Seq(Saves) /\ Len(sent') = Len(sent) + 1
        /\ Len(sent) \in Nat /\ DOMAIN sent = 1 .. Len(sent) /\ DOMAIN sent' = 1 .. Len(sent) + 1
        /\ \A i \in 1 .. Len(sent) : sent'[i] = sent[i]
        /\ sent'[Len(sent) + 1].late = FALSE
    BY <1>0, <2>1, <2>2, SendingFact
  <2>4. Len(applied) \in Nat
    BY <1>0, LenProperties DEF PrefsTypeOK
  <2>5. Kinds'
    BY <1>0, <1>1, <2>3 DEF Kinds
  <2>6. Len(sent') + Len(applied') <= MaxSaves
    BY <1>1, <2>1, <2>3, <2>4, SettingsAssumption
  <2>7. PrefsTypeOK'
    BY <1>0, <1>1, <1>2, <1>3, <2>1, <2>3, <2>6 DEF PrefsTypeOK
  <2> QED
    BY <1>4, <2>5, <2>7 DEF PInv
<1>6. CASE ~ legacy
  <2>1. prefs' = me.set /\ edit' = Restaged(prefs[list], me.set[list]) /\ UNCHANGED <<legacy, sent>>
    BY <1>6 DEF MeArrives
  <2>2. edit' \in Edits
    BY <1>0, <1>2, <2>1, RestagedType, SetFact DEF PrefsTypeOK, Edits
  <2>3. PrefsTypeOK'
    BY <1>0, <1>1, <1>2, <1>3, <2>1, <2>2 DEF PrefsTypeOK, Edits
  <2>4. Kinds'
    BY <1>0, <1>1, <2>1 DEF Kinds
  <2> QED
    BY <1>4, <2>3, <2>4 DEF PInv
<1> QED
  BY <1>5, <1>6
-----------------------------------------------------------------------------
Live(r) == r.kind \in {"save", "load"}

LEMMA ApplyFact ==
  ASSUME PInv, NEW i \in DOMAIN sent, Apply(i)
  PROVE  /\ sent[i].by \in Users /\ stored' = [stored EXCEPT ![sent[i].by] = sent[i].set] /\ stored' \in [Users -> Sets]
         /\ sent' = RemoveAt(sent, i) /\ sent' \in Seq(Saves) /\ Len(sent') = Len(sent) - 1
         /\ UNCHANGED <<token, legacy, user, me, prefs, list, edit, turns>>
         /\ chosen' = IF i = 1 THEN chosen ELSE NoChoices
         /\ applied' \in Seq(Saves)
         /\ sent[i].kind = "gone" => applied' = applied
         /\ sent[i].kind # "gone" => /\ Len(applied') = Len(applied) + 1 /\ applied'[Len(applied) + 1] = sent[i]
                                     /\ \A j \in 1 .. Len(applied) : applied'[j] = applied[j]
         /\ sent[i].by # Account => doubt' = doubt
         /\ sent[i].by = Account => doubt' = IF ~ Loading /\ Live(sent[i]) THEN "no" ELSE "elsewhere"
<1> DEFINE r == sent[i]
<1>1. r \in Saves /\ r.by \in Users /\ r.set \in Sets /\ r.kind \in {"save", "load", "cancelled", "gone"}
  BY SeqSaves DEF PInv, PrefsTypeOK
<1>2. /\ stored' = [stored EXCEPT ![r.by] = r.set] /\ sent' = RemoveAt(sent, i)
      /\ chosen' = IF i = 1 THEN chosen ELSE NoChoices
      /\ UNCHANGED <<token, legacy, user, me, prefs, list, edit, turns>>
  BY DEF Apply
<1>3. sent' \in Seq(Saves) /\ Len(sent') = Len(sent) - 1
  BY <1>2, RemoveFact DEF PInv, PrefsTypeOK
<1>4. CASE r.kind = "gone"
  <2>1. doubt' = (IF r.by = Account THEN "elsewhere" ELSE doubt) /\ applied' = applied
    BY <1>4 DEF Apply
  <2> QED
    BY <1>1, <1>2, <1>3, <1>4, <2>1 DEF PInv, PrefsTypeOK, Live
<1>5. CASE r.kind # "gone"
  <2>1. /\ applied' = Append(applied, r)
        /\ doubt' = IF r.by # Account THEN doubt
                    ELSE IF Loading \/ r.kind = "cancelled" THEN "elsewhere" ELSE "no"
    BY <1>5 DEF Apply
  <2> HIDE DEF r
  <2>2. /\ applied' \in Seq(Saves) /\ Len(applied') = Len(applied) + 1 /\ applied'[Len(applied) + 1] = r
        /\ \A j \in 1 .. Len(applied) : applied'[j] = applied[j]
    BY <1>1, <2>1, AppendProperties DEF PInv, PrefsTypeOK
  <2>3. r.by # Account => doubt' = doubt
    BY <2>1
  <2>4. r.by = Account => doubt' = IF ~ Loading /\ Live(r) THEN "no" ELSE "elsewhere"
    BY <1>1, <1>5, <2>1 DEF Live
  <2>5. stored' \in [Users -> Sets]
    BY <1>1, <1>2 DEF PInv, PrefsTypeOK
  <2> QED
    BY <1>1, <1>2, <1>3, <1>5, <2>2, <2>3, <2>4, <2>5 DEF r
<1> QED
  BY <1>4, <1>5

LEMMA LengthFact ==
  ASSUME PrefsTypeOK
  PROVE  /\ Len(sent) \in Nat /\ DOMAIN sent = 1 .. Len(sent)
         /\ Len(applied) \in Nat /\ DOMAIN applied = 1 .. Len(applied) /\ MaxSaves \in Nat
BY LenProperties, SettingsAssumption DEF PrefsTypeOK

\* a save that the page hears of is the newest
LEMMA AppliedFact ==
  ASSUME PInv, NEW i \in DOMAIN sent, Apply(i)
  PROVE  /\ \A k \in DOMAIN applied : k \in DOMAIN applied' /\ applied'[k] = applied[k]
         /\ \A k \in DOMAIN applied' \ DOMAIN applied : sent[i].kind # "gone" /\ applied'[k] = sent[i]
         /\ sent[i].kind # "gone" =>
              \E n \in DOMAIN applied' : applied'[n] = sent[i] /\ \A k \in DOMAIN applied : k < n
<1>1. CASE sent[i].kind = "gone"
  BY <1>1, ApplyFact
<1>2. CASE sent[i].kind # "gone"
  <2>1. /\ applied' \in Seq(Saves) /\ Len(applied') = Len(applied) + 1 /\ applied'[Len(applied) + 1] = sent[i]
        /\ \A j \in 1 .. Len(applied) : applied'[j] = applied[j]
    BY <1>2, ApplyFact
  <2>2. Len(applied) \in Nat /\ DOMAIN applied = 1 .. Len(applied)
    BY LengthFact DEF PInv
  <2>3. DOMAIN applied' = 1 .. Len(applied) + 1
    BY <2>1, LenProperties
  <2> QED
    BY <1>2, <2>1, <2>2, <2>3
<1> QED
  BY <1>1, <1>2

\* what is left of the saves keeps its kind
LEMMA RemainKinds ==
  ASSUME PInv, NEW i, (i \in DOMAIN sent /\ sent' = RemoveAt(sent, i) /\ UNCHANGED applied) \/
         (i \in DOMAIN applied /\ applied' = RemoveAt(applied, i) /\ UNCHANGED sent)
  PROVE  Kinds' /\ sent' \in Seq(Saves) /\ applied' \in Seq(Saves) /\ Len(sent') + Len(applied') <= MaxSaves
<1>0. PrefsTypeOK /\ Kinds
  BY DEF PInv
<1>1. CASE i \in DOMAIN sent /\ sent' = RemoveAt(sent, i) /\ UNCHANGED applied
  <2>1. /\ sent' \in Seq(Saves) /\ Len(sent') = Len(sent) - 1
        /\ \A j \in DOMAIN sent' : \E k \in DOMAIN sent \ {i} : sent'[j] = sent[k]
    BY <1>0, <1>1, RemainFact DEF PrefsTypeOK
  <2>2. Len(sent') + Len(applied') <= MaxSaves
    BY <1>0, <1>1, <2>1, LengthFact DEF PrefsTypeOK
  <2> QED
    BY <1>0, <1>1, <2>1, <2>2 DEF PrefsTypeOK, Kinds
<1>2. CASE i \in DOMAIN applied /\ applied' = RemoveAt(applied, i) /\ UNCHANGED sent
  <2>1. /\ applied' \in Seq(Saves) /\ Len(applied') = Len(applied) - 1
        /\ \A j \in DOMAIN applied' : \E k \in DOMAIN applied \ {i} : applied'[j] = applied[k]
    BY <1>0, <1>2, RemainFact DEF PrefsTypeOK
  <2>2. Len(sent') + Len(applied') <= MaxSaves
    BY <1>0, <1>2, <2>1, LengthFact DEF PrefsTypeOK
  <2> QED
    BY <1>0, <1>2, <2>1, <2>2 DEF PrefsTypeOK, Kinds
<1> QED
  BY <1>1, <1>2

LEMMA ApplyPInv ==
  ASSUME PInv, NEW i \in DOMAIN sent, Apply(i)
  PROVE  PInv'
<1>0. PrefsTypeOK /\ Session /\ Kinds
  BY DEF PInv
<1>1. Session' /\ UNCHANGED <<token, legacy, user, me, prefs, list, edit, turns>>
  BY <1>0, ApplyFact DEF Session, Loading
<1>2. chosen' \in [Settings -> Values \cup {None}]
  BY <1>0, ApplyFact DEF PrefsTypeOK, NoChoices
<1>3. doubt' \in {"no", "failed", "elsewhere", "overtaken", "foreign"}
  BY <1>0, ApplyFact DEF PrefsTypeOK
<1>4. /\ sent' = RemoveAt(sent, i) /\ sent' \in Seq(Saves) /\ Len(sent') = Len(sent) - 1
      /\ applied' \in Seq(Saves) /\ stored' \in [Users -> Sets]
  BY ApplyFact
<1>5. \A j \in DOMAIN sent' : sent'[j].late = FALSE
  <2>1. \A j \in DOMAIN sent' : \E k \in DOMAIN sent \ {i} : sent'[j] = sent[k]
    <3>1. sent \in Seq(Saves)
      BY <1>0 DEF PrefsTypeOK
    <3>2. \A j \in DOMAIN RemoveAt(sent, i) : \E k \in DOMAIN sent \ {i} : RemoveAt(sent, i)[j] = sent[k]
      BY <3>1, RemainFact
    <3> QED
      BY <1>4, <3>2
  <2> QED
    BY <1>0, <2>1 DEF Kinds
<1>6. Len(sent') + Len(applied') <= MaxSaves /\ \A j \in DOMAIN applied' : applied'[j].kind # "gone"
  <2>1. CASE sent[i].kind = "gone"
    <3>1. applied' = applied
      BY <2>1, ApplyFact
    <3> QED
      BY <1>0, <1>4, <3>1, LengthFact DEF PrefsTypeOK, Kinds
  <2>2. CASE sent[i].kind # "gone"
    <3>1. /\ Len(applied') = Len(applied) + 1 /\ applied'[Len(applied) + 1] = sent[i]
          /\ \A j \in 1 .. Len(applied) : applied'[j] = applied[j]
      BY <2>2, ApplyFact
    <3>2. DOMAIN applied' = 1 .. Len(applied) + 1
      BY <1>4, <3>1, LenProperties
    <3>3. Len(sent') + Len(applied') <= MaxSaves
      BY <1>0, <1>4, <3>1, LengthFact DEF PrefsTypeOK
    <3>4. ASSUME NEW j \in DOMAIN applied' PROVE applied'[j].kind # "gone"
      <4>1. CASE j \in DOMAIN applied
        BY <1>0, <3>1, <4>1, LengthFact DEF Kinds
      <4>2. CASE j \notin DOMAIN applied
        <5>1. j = Len(applied) + 1
          BY <1>0, <3>2, <4>2, LengthFact
        <5> QED
          BY <2>2, <3>1, <5>1
      <4> QED
        BY <4>1, <4>2
    <3> QED
      BY <3>3, <3>4
  <2> QED
    BY <2>1, <2>2
<1>7. PrefsTypeOK'
  BY <1>0, <1>1, <1>2, <1>3, <1>4, <1>6 DEF PrefsTypeOK
<1> QED
  BY <1>1, <1>5, <1>6, <1>7 DEF PInv, Kinds

LEMMA FailedPInv ==
  ASSUME PInv, (\E i \in DOMAIN sent : RefuseSave(i)) \/ (\E i \in DOMAIN applied : LoseSave(i))
  PROVE  PInv'
<1>0. PrefsTypeOK /\ Session /\ Kinds
  BY DEF PInv
<1>1. Kinds' /\ sent' \in Seq(Saves) /\ applied' \in Seq(Saves) /\ Len(sent') + Len(applied') <= MaxSaves
  BY RemainKinds DEF RefuseSave, LoseSave
<1>2. UNCHANGED <<token, legacy, user, me, list, stored, turns>>
  BY DEF RefuseSave, LoseSave
<1>3. ASSUME NEW r \in Saves, Failed(r)
      PROVE  /\ prefs' \in Sets /\ edit' \in Edits /\ chosen' \in [Settings -> Values \cup {None}]
             /\ doubt' \in {"no", "failed", "elsewhere", "overtaken", "foreign"}
  <2>1. r.set \in Sets /\ r.set[list] \in Values
    BY <1>0, SetFact DEF Saves, PrefsTypeOK, Settings
  <2>2. Restaged(prefs[list], r.set[list]) \in Edits
    BY <1>0, <2>1, RestagedType DEF PrefsTypeOK, Edits
  <2> QED
    BY <1>0, <1>3, <2>1, <2>2 DEF Failed, PrefsTypeOK, Edits, NoChoices
<1>4. \E r \in Saves : Failed(r)
  BY <1>0, SeqSaves DEF RefuseSave, LoseSave, PrefsTypeOK
<1>5. PrefsTypeOK'
  BY <1>0, <1>1, <1>2, <1>3, <1>4 DEF PrefsTypeOK, Edits
<1> QED
  BY <1>0, <1>1, <1>2, <1>5 DEF PInv, Session, Loading

\* the answers applied before are late from now on, and the one that has
\* come is gone
Overtaken(i) == [j \in DOMAIN applied |-> IF j < i THEN [applied[j] EXCEPT !.late = TRUE] ELSE applied[j]]

LEMMA OvertakenFact ==
  ASSUME PInv, NEW i
  PROVE  /\ Overtaken(i) \in Seq(Saves) /\ Len(Overtaken(i)) = Len(applied) /\ DOMAIN Overtaken(i) = DOMAIN applied
         /\ \A j \in DOMAIN applied : /\ Overtaken(i)[j].kind = applied[j].kind /\ Overtaken(i)[j].by = applied[j].by
                                      /\ Overtaken(i)[j].set = applied[j].set
                                      /\ j < i => Overtaken(i)[j].late = TRUE
                                      /\ ~ (j < i) => Overtaken(i)[j] = applied[j]
<1>1. ASSUME NEW j \in DOMAIN applied
      PROVE  /\ applied[j] \in Saves /\ [applied[j] EXCEPT !.late = TRUE] \in Saves
             /\ [applied[j] EXCEPT !.late = TRUE].late = TRUE
             /\ [applied[j] EXCEPT !.late = TRUE].kind = applied[j].kind
             /\ [applied[j] EXCEPT !.late = TRUE].by = applied[j].by
             /\ [applied[j] EXCEPT !.late = TRUE].set = applied[j].set
  <2>1. applied[j] \in Saves
    BY SeqSaves DEF PInv, PrefsTypeOK
  <2> QED
    BY <2>1, SaveFact
<1>2. Overtaken(i) \in [DOMAIN applied -> Saves]
  BY <1>1 DEF Overtaken
<1>3. Overtaken(i) \in Seq(Saves) /\ Len(Overtaken(i)) = Len(applied) /\ DOMAIN Overtaken(i) = DOMAIN applied
  BY <1>2, MapFact DEF PInv, PrefsTypeOK
<1> QED
  BY <1>1, <1>3 DEF Overtaken

LEMMA AnswerPInv ==
  ASSUME PInv, NEW i \in DOMAIN applied, AnswerSave(i)
  PROVE  PInv'
<1>0. PrefsTypeOK /\ Session /\ Kinds
  BY DEF PInv
<1>1. /\ UNCHANGED <<token, legacy, user, me, list, sent, stored, chosen, turns>>
      /\ applied' = RemoveAt(Overtaken(i), i)
      /\ prefs' = IF TakesScreen(applied[i]) THEN applied[i].set ELSE prefs
      /\ edit' = IF TakesScreen(applied[i]) THEN Restaged(prefs[list], applied[i].set[list]) ELSE edit
      /\ doubt' = IF applied[i].kind # "cancelled" THEN Doubted(applied[i]) ELSE doubt
  BY DEF AnswerSave, Overtaken
<1>2. /\ applied' \in Seq(Saves) /\ Len(applied') = Len(applied) - 1
      /\ \A j \in DOMAIN applied' : \E k \in DOMAIN applied \ {i} : applied'[j] = Overtaken(i)[k]
  <2>1. Overtaken(i) \in Seq(Saves) /\ Len(Overtaken(i)) = Len(applied) /\ DOMAIN Overtaken(i) = DOMAIN applied
    BY OvertakenFact
  <2> DEFINE O == Overtaken(i)
  <2>2. O \in Seq(Saves) /\ i \in DOMAIN O
    BY <2>1
  <2> HIDE DEF O
  <2>3. /\ RemoveAt(O, i) \in Seq(Saves) /\ Len(RemoveAt(O, i)) = Len(O) - 1
        /\ \A j \in DOMAIN RemoveAt(O, i) : \E k \in DOMAIN O \ {i} : RemoveAt(O, i)[j] = O[k]
    BY <2>2, RemainFact
  <2> QED
    BY <1>1, <2>1, <2>3 DEF O
<1>3. Kinds'
  <2>1. \A j \in DOMAIN applied : Overtaken(i)[j].kind # "gone"
    BY <1>0, OvertakenFact DEF Kinds
  <2>2. \A j \in DOMAIN applied' : applied'[j].kind # "gone"
    BY <1>2, <2>1
  <2> QED
    BY <1>0, <1>1, <2>2 DEF Kinds
<1>4. Len(sent') + Len(applied') <= MaxSaves
  BY <1>0, <1>1, <1>2, LengthFact DEF PrefsTypeOK
<1>5. applied[i].set \in Sets /\ applied[i].set[list] \in Values
  BY <1>0, SeqSaves, SetFact DEF PrefsTypeOK, Settings
<1>6. Restaged(prefs[list], applied[i].set[list]) \in Edits
  BY <1>0, <1>5, RestagedType DEF PrefsTypeOK, Edits
<1>7. prefs' \in Sets /\ edit' \in Edits /\ doubt' \in {"no", "failed", "elsewhere", "overtaken", "foreign"}
  BY <1>0, <1>1, <1>5, <1>6 DEF PrefsTypeOK, Doubted, Edits
<1>8. PrefsTypeOK'
  BY <1>0, <1>1, <1>2, <1>4, <1>7 DEF PrefsTypeOK, Edits
<1> QED
  BY <1>0, <1>1, <1>3, <1>8 DEF PInv, Session, Loading

LEMMA OtherPInv ==
  ASSUME PInv, NEW u \in Users, NEW s \in Settings, NEW v \in Values, OtherChooses(u, s, v)
  PROVE  PInv'
<1>0. PrefsTypeOK /\ Session /\ Kinds
  BY DEF PInv
<1>1. /\ stored' = [stored EXCEPT ![u][s] = v] /\ doubt' = (IF u = Account THEN "elsewhere" ELSE doubt)
      /\ UNCHANGED <<token, legacy, user, me, prefs, list, edit, sent, applied, chosen>>
  BY DEF OtherChooses
<1>2. [stored[u] EXCEPT ![s] = v] \in Sets
  BY <1>0, SetFact DEF PrefsTypeOK
<1>3. stored' \in [Users -> Sets]
  BY <1>0, <1>1, <1>2 DEF PrefsTypeOK
<1>4. turns' \in 0 .. MaxTurns
  BY <1>0, TurnFact DEF OtherChooses
<1> QED
  BY <1>0, <1>1, <1>3, <1>4 DEF PInv, PrefsTypeOK, Session, Kinds, Loading
-----------------------------------------------------------------------------
(***************************************************************************)
(* The screen and the account.                                             *)
(***************************************************************************)

LiveSent == \E i \in DOMAIN sent : Live(sent[i]) /\ sent[i].by = user
LiveApplied == \E i \in DOMAIN applied : Live(applied[i])

\* an answer that will take the screen without a doubt
Own(r) == Live(r) /\ r.late = FALSE /\ r.by = Account

\* the last of them brings what the account has
Newest(i) == applied[i].set = stored[Account] \/ \E j \in DOMAIN applied : i < j /\ Own(applied[j])

Reading == me.stage = "read" /\ doubt = "no" => me.set = stored[token]
Coming ==
  user # None /\ ~ Loading /\ doubt = "no" => prefs = stored[user] \/ LiveSent \/ LiveApplied
Latest ==
  (me.stage = "read" \/ (user # None /\ ~ Loading)) /\ doubt = "no" =>
    \A i \in DOMAIN applied : Own(applied[i]) => Newest(i)

Shown == Reading /\ Coming /\ Latest

LEMMA AccountFact ==
  ASSUME PInv
  PROVE  /\ Loading => Account = token /\ token \in Users
         /\ ~ Loading /\ user # None => Account = user /\ user \in Users /\ token = user
BY DEF PInv, PrefsTypeOK, Session, Account

LEMMA DoubtfulShown == doubt' # "no" => Shown'
BY DEF Shown, Reading, Coming, Latest

\* nobody's screen, or that of a page that asks again
LEMMA AbsentShown == me'.stage = "asked" \/ (user' = None /\ me'.stage = "off") => Shown'
BY DEF Shown, Reading, Coming, Latest, Loading

LEMMA MeReadShown ==
  ASSUME PInv, MeRead
  PROVE  Shown'
<1>1. me'.stage = "read" /\ me'.set = stored'[token'] /\ \A i \in DOMAIN applied' : applied'[i].late = TRUE
  BY MeReadPInv
<1>2. \A i \in DOMAIN applied' : ~ Own(applied[i])'
  BY <1>1 DEF Own
<1> QED
  BY <1>1, <1>2 DEF Shown, Reading, Coming, Latest, Loading

LEMMA MeArrivesShown ==
  ASSUME PInv, Shown, MeArrives
  PROVE  Shown'
<1>0. PrefsTypeOK
  BY DEF PInv
<1>1. /\ me.stage = "read" /\ user' = token /\ UNCHANGED <<token, applied, stored, doubt>>
      /\ me'.stage = "off" /\ token \in Users
  BY <1>0, MeArrivesPInv, AccountFact DEF MeArrives, Loading
<1>2. Account' = Account
  BY <1>1 DEF Account, Loading
<1>3. Reading' /\ Latest'
  BY <1>1, <1>2 DEF Shown, Reading, Latest, Newest, Own
<1>4. ASSUME doubt' = "no" PROVE prefs' = stored'[user'] \/ LiveSent'
  <2>1. CASE legacy
    <3>1. sent' = Sending("load", Merged(me.set)) /\ Merged(me.set) \in Sets /\ token # None
      BY <1>0, <1>1, <2>1, SetFact, NoneFact DEF MeArrives, PrefsTypeOK
    <3>2. /\ Len(sent) + 1 \in DOMAIN sent'
          /\ sent'[Len(sent) + 1].by = token /\ sent'[Len(sent) + 1].kind = "load"
      BY <1>0, <3>1, SendingFact
    <3> QED
      BY <1>1, <3>2 DEF LiveSent, Live
  <2>2. CASE ~ legacy
    BY <1>1, <1>4, <2>2 DEF MeArrives, Shown, Reading
  <2> QED
    BY <2>1, <2>2
<1> QED
  BY <1>3, <1>4 DEF Shown, Coming

LEMMA ChoiceShown ==
  ASSUME PInv, Shown, NEW s \in Settings, NEW v \in Values, Put(s, v)
  PROVE  Shown'
<1>1. UNCHANGED <<token, user, me, applied, stored, doubt>> /\ prefs' \in Sets /\ PrefsTypeOK
  BY PutFact DEF PInv
<1>2. Account' = Account /\ Loading' = Loading
  BY <1>1 DEF Account, Loading
<1>3. Reading' /\ Latest'
  BY <1>1, <1>2 DEF Shown, Reading, Latest, Newest, Own
<1>4. ASSUME user # None PROVE LiveSent'
  <2>1. sent' = Sending("save", prefs') /\ token = user /\ token # None
    BY <1>4, PutFact
  <2>2. /\ Len(sent) + 1 \in DOMAIN sent'
        /\ sent'[Len(sent) + 1].by = token /\ sent'[Len(sent) + 1].kind = "save"
    BY <1>1, <2>1, SendingFact
  <2> QED
    BY <1>1, <2>1, <2>2 DEF LiveSent, Live
<1> QED
  BY <1>1, <1>3, <1>4 DEF Shown, Coming

LEMMA SameShown ==
  ASSUME Shown, UNCHANGED <<token, user, me, prefs, sent, applied, stored, doubt>>
  PROVE  Shown'
BY DEF Shown, Reading, Coming, Latest, Newest, Own, LiveSent, LiveApplied, Account, Loading

\* A save is applied: of another account, or one that tells the page what the
\* account has from now on.
LEMMA ApplyShown ==
  ASSUME PInv, Shown, NEW i \in DOMAIN sent, Apply(i)
  PROVE  Shown'
<1>0. PrefsTypeOK /\ Kinds /\ PInv'
  BY ApplyPInv DEF PInv
<1>1. /\ UNCHANGED <<token, user, me, prefs>> /\ sent[i].by \in Users
      /\ stored' = [stored EXCEPT ![sent[i].by] = sent[i].set]
      /\ sent' = RemoveAt(sent, i)
      /\ sent[i].by # Account => doubt' = doubt
      /\ sent[i].by = Account => doubt' = IF ~ Loading /\ Live(sent[i]) THEN "no" ELSE "elsewhere"
  BY ApplyFact
<1>2. Account' = Account /\ Loading' = Loading
  BY <1>1 DEF Account, Loading
<1>3. \A k \in DOMAIN applied : k \in DOMAIN applied' /\ applied'[k] = applied[k]
  BY AppliedFact
<1>4. \A k \in DOMAIN applied' \ DOMAIN applied : applied'[k] = sent[i]
  BY AppliedFact
<1>5. CASE sent[i].by # Account
  <2>1. doubt' = doubt /\ \A u \in Users : u # sent[i].by => stored'[u] = stored[u]
    BY <1>0, <1>1, <1>5 DEF PrefsTypeOK
  <2>2. Account \in Users => stored'[Account] = stored[Account]
    BY <1>5, <2>1
  <2>3. Reading'
    BY <1>1, <2>1, <2>2, AccountFact DEF Shown, Reading, Loading
  <2>4. Coming'
    <3> SUFFICES ASSUME user # None, ~ Loading, doubt = "no" PROVE prefs = stored'[user] \/ LiveSent' \/ LiveApplied'
      BY <1>1, <1>2, <2>1 DEF Coming
    <3>1. Account = user /\ stored'[user] = stored[user]
      BY <2>2, AccountFact
    <3>2. CASE prefs = stored[user]
      BY <3>1, <3>2
    <3>3. CASE LiveSent
      <4>1. PICK k \in DOMAIN sent : Live(sent[k]) /\ sent[k].by = user
        BY <3>3 DEF LiveSent
      <4>2. k # i
        BY <1>5, <3>1, <4>1
      <4>3. \E j \in DOMAIN RemoveAt(sent, i) : RemoveAt(sent, i)[j] = sent[k]
        BY <1>0, <4>2, RemainFact DEF PrefsTypeOK
      <4> QED
        BY <1>1, <4>1, <4>3 DEF LiveSent
    <3>4. CASE LiveApplied
      BY <1>3, <3>4 DEF LiveApplied
    <3> QED
      BY <3>2, <3>3, <3>4 DEF Shown, Coming
  <2>5. Latest'
    <3> SUFFICES ASSUME me.stage = "read" \/ (user # None /\ ~ Loading), doubt = "no",
                        NEW k \in DOMAIN applied', Own(applied[k])'
                 PROVE  Newest(k)'
      BY <1>1, <1>2, <2>1 DEF Latest
    <3>1. stored'[Account] = stored[Account]
      BY <2>2, AccountFact DEF Loading
    <3>2. k \in DOMAIN applied
      BY <1>2, <1>4, <1>5 DEF Own
    <3>3. Own(applied[k])
      BY <1>2, <1>3, <3>2 DEF Own
    <3>4. Newest(k)
      BY <3>2, <3>3 DEF Shown, Latest
    <3> QED
      BY <1>2, <1>3, <3>1, <3>2, <3>4 DEF Newest, Own
  <2> QED
    BY <2>3, <2>4, <2>5 DEF Shown
<1>6. CASE sent[i].by = Account /\ ~ Loading /\ Live(sent[i])
  <2>0. stored'[Account'] = sent[i].set
    BY <1>0, <1>1, <1>2, <1>6 DEF PrefsTypeOK
  <2>1. PICK n \in DOMAIN applied' : applied'[n] = sent[i] /\ \A k \in DOMAIN applied : k < n
    BY <1>6, AppliedFact DEF Live
  <2>2. Own(applied[n])' /\ Live(applied[n])'
    BY <1>0, <1>2, <1>6, <2>1 DEF Own, Live, Kinds
  <2>3. Coming'
    BY <2>1, <2>2 DEF Coming, LiveApplied
  <2>4. Reading'
    BY <1>1, <1>6 DEF Reading, Loading
  <2>5. ASSUME NEW k \in DOMAIN applied', Own(applied[k])' PROVE Newest(k)'
    <3>1. CASE k \in DOMAIN applied
      BY <2>1, <2>2, <3>1 DEF Newest
    <3>2. CASE k \notin DOMAIN applied
      BY <1>4, <2>0, <3>2 DEF Newest
    <3> QED
      BY <3>1, <3>2
  <2> QED
    BY <2>3, <2>4, <2>5 DEF Shown, Latest
<1>7. CASE sent[i].by = Account /\ ~ (~ Loading /\ Live(sent[i]))
  BY <1>1, <1>7, DoubtfulShown
<1> QED
  BY <1>5, <1>6, <1>7
\* A save fails: a live one is a reason for doubt, another one nothing.
LEMMA FailedFact ==
  ASSUME NEW r, Failed(r)
  PROVE  /\ Live(r) => doubt' = "failed" /\ chosen' = NoChoices
         /\ ~ Live(r) => UNCHANGED <<prefs, doubt, chosen>>
BY DEF Failed, Live

LEMMA RefuseShown ==
  ASSUME PInv, Shown, NEW i \in DOMAIN sent, RefuseSave(i)
  PROVE  Shown'
<1>0. PrefsTypeOK
  BY DEF PInv
<1>1. Failed(sent[i]) /\ sent' = RemoveAt(sent, i) /\ UNCHANGED <<token, user, me, applied, stored>>
  BY DEF RefuseSave
<1>2. CASE Live(sent[i])
  <2>1. doubt' # "no"
    BY <1>1, <1>2, FailedFact
  <2> QED
    BY <2>1, DoubtfulShown
<1>3. CASE ~ Live(sent[i])
  <2>1. UNCHANGED <<prefs, doubt>>
    BY <1>1, <1>3, FailedFact
  <2>2. Account' = Account /\ Loading' = Loading
    BY <1>1 DEF Account, Loading
  <2>3. Reading' /\ Latest'
    BY <1>1, <2>1, <2>2 DEF Shown, Reading, Latest, Newest, Own
  <2>4. ASSUME LiveSent PROVE LiveSent'
    <3>1. PICK k \in DOMAIN sent : Live(sent[k]) /\ sent[k].by = user
      BY <2>4 DEF LiveSent
    <3>2. k # i
      BY <1>3, <3>1
    <3>3. \E j \in DOMAIN RemoveAt(sent, i) : RemoveAt(sent, i)[j] = sent[k]
      BY <1>0, <3>2, RemainFact DEF PrefsTypeOK
    <3> QED
      BY <1>1, <3>1, <3>3 DEF LiveSent
  <2>5. Coming'
    BY <1>1, <2>1, <2>2, <2>4 DEF Shown, Coming, LiveApplied
  <2> QED
    BY <2>3, <2>5 DEF Shown
<1> QED
  BY <1>2, <1>3

\* An answer has come, or is lost: those that are left may take the screen as
\* before, unless they are late by now.
LEMMA LeftApplied ==
  ASSUME PInv, NEW i \in DOMAIN applied, NEW q \in Seq(Saves), DOMAIN q = DOMAIN applied,
         \A k \in DOMAIN applied : q[k].kind = applied[k].kind,
         \A k \in DOMAIN applied : ~ (k < i) => q[k] = applied[k],
         \/ q = applied /\ ~ Live(applied[i])
         \/ \A k \in DOMAIN applied : k < i => q[k].late = TRUE,
         applied' = RemoveAt(q, i),
         UNCHANGED <<token, user, me, stored>>
  PROVE  /\ (\A k \in DOMAIN applied : Own(applied[k]) => Newest(k)) =>
              \A k \in DOMAIN applied' : Own(applied[k])' => Newest(k)'
         /\ \A k \in DOMAIN applied \ {i} : Live(applied[k]) => LiveApplied'
<1>1. Account' = Account
  BY DEF Account, Loading
<1>2. Len(applied) \in Nat /\ DOMAIN applied = 1 .. Len(applied)
  BY LengthFact DEF PInv
<1>3. ASSUME \A k \in DOMAIN applied : Own(applied[k]) => Newest(k),
             NEW j \in DOMAIN applied', Own(applied[j])'
      PROVE  Newest(j)'
  <2>1. PICK k \in DOMAIN q \ {i} :
          /\ applied'[j] = q[k]
          /\ \A m \in DOMAIN q \ {i} : k < m => \E l \in DOMAIN applied' : j < l /\ applied'[l] = q[m]
    BY OrderFact
  <2>2. Live(q[k]) /\ q[k].late = FALSE /\ q[k].by = Account
    BY <1>1, <1>3, <2>1 DEF Own
  <2>3. (q = applied /\ ~ Live(applied[i])) \/ ~ (k < i)
    BY <2>1, <2>2
  <2>4. q[k] = applied[k] /\ Own(applied[k])
    BY <2>1, <2>2, <2>3 DEF Own
  <2>5. CASE applied[k].set = stored[Account]
    BY <1>1, <2>1, <2>4, <2>5 DEF Newest
  <2>6. ASSUME NEW m \in DOMAIN applied, k < m, Own(applied[m]) PROVE Newest(j)'
    <3>1. m # i /\ q[m] = applied[m]
      <4>1. CASE q = applied /\ ~ Live(applied[i])
        BY <2>6, <4>1 DEF Own
      <4>2. CASE ~ (k < i)
        <5>1. i < m
          BY <1>2, <2>1, <2>6, <4>2
        <5> QED
          BY <1>2, <5>1
      <4> QED
        BY <2>3, <4>1, <4>2
    <3>2. PICK l \in DOMAIN applied' : j < l /\ applied'[l] = q[m]
      BY <2>1, <2>6, <3>1
    <3>3. Own(applied[l])'
      BY <1>1, <2>6, <3>1, <3>2 DEF Own
    <3> QED
      BY <3>2, <3>3 DEF Newest
  <2> QED
    BY <1>3, <2>1, <2>4, <2>5, <2>6 DEF Newest
<1>4. ASSUME NEW k \in DOMAIN applied \ {i}, Live(applied[k]) PROVE LiveApplied'
  <2>1. PICK j \in DOMAIN RemoveAt(q, i) : RemoveAt(q, i)[j] = q[k]
    BY RemainFact
  <2> QED
    BY <1>4, <2>1 DEF LiveApplied, Live
<1> QED
  BY <1>3, <1>4

LEMMA LoseShown ==
  ASSUME PInv, Shown, NEW i \in DOMAIN applied, LoseSave(i)
  PROVE  Shown'
<1>0. PrefsTypeOK
  BY DEF PInv
<1>1. Failed(applied[i]) /\ applied' = RemoveAt(applied, i) /\ UNCHANGED <<token, user, me, sent, stored>>
  BY DEF LoseSave
<1>2. CASE Live(applied[i])
  <2>1. doubt' # "no"
    BY <1>1, <1>2, FailedFact
  <2> QED
    BY <2>1, DoubtfulShown
<1>3. CASE ~ Live(applied[i])
  <2>1. UNCHANGED <<prefs, doubt>>
    BY <1>1, <1>3, FailedFact
  <2>2. Loading' = Loading
    BY <1>1 DEF Loading
  <2>3. applied \in Seq(Saves)
    BY <1>0 DEF PrefsTypeOK
  <2>4. /\ (\A k \in DOMAIN applied : Own(applied[k]) => Newest(k)) =>
             \A k \in DOMAIN applied' : Own(applied[k])' => Newest(k)'
        /\ \A k \in DOMAIN applied \ {i} : Live(applied[k]) => LiveApplied'
    BY <1>1, <1>3, <2>3, LeftApplied
  <2>5. Reading' /\ Latest'
    BY <1>1, <2>1, <2>2, <2>4 DEF Shown, Reading, Latest
  <2>6. LiveApplied => LiveApplied'
    BY <1>3, <2>4 DEF LiveApplied
  <2>7. Coming'
    BY <1>1, <2>1, <2>2, <2>6 DEF Shown, Coming, LiveSent
  <2> QED
    BY <2>5, <2>7 DEF Shown
<1> QED
  BY <1>2, <1>3

\* An answer comes: if it leaves no doubt, it is the last one, or a later one
\* is still to come.
LEMMA AnswerShown ==
  ASSUME PInv, Shown, NEW i \in DOMAIN applied, AnswerSave(i)
  PROVE  Shown'
<1>0. PrefsTypeOK /\ Kinds
  BY DEF PInv
<1>1. /\ UNCHANGED <<token, user, me, sent, stored>>
      /\ applied' = RemoveAt(Overtaken(i), i)
      /\ prefs' = IF applied[i].kind # "cancelled" THEN applied[i].set ELSE prefs
      /\ doubt' = IF applied[i].kind # "cancelled" THEN Doubted(applied[i]) ELSE doubt
  BY DEF AnswerSave, Overtaken, TakesScreen
<1>2. /\ (\A k \in DOMAIN applied : Own(applied[k]) => Newest(k)) =>
           \A k \in DOMAIN applied' : Own(applied[k])' => Newest(k)'
      /\ \A k \in DOMAIN applied \ {i} : Live(applied[k]) => LiveApplied'
  <2> DEFINE O == Overtaken(i)
  <2>1. /\ O \in Seq(Saves) /\ DOMAIN O = DOMAIN applied
        /\ \A k \in DOMAIN applied : O[k].kind = applied[k].kind
        /\ \A k \in DOMAIN applied : ~ (k < i) => O[k] = applied[k]
        /\ \A k \in DOMAIN applied : k < i => O[k].late = TRUE
    BY OvertakenFact
  <2>2. applied' = RemoveAt(O, i)
    BY <1>1
  <2> HIDE DEF O
  <2> QED
    BY <1>1, <2>1, <2>2, LeftApplied
<1>3. Loading' = Loading /\ applied[i] \in Saves /\ applied[i].kind # "gone"
  BY <1>0, <1>1, SeqSaves DEF Loading, PrefsTypeOK, Kinds
<1>4. SUFFICES ASSUME doubt' = "no" PROVE Shown'
  BY DoubtfulShown
<1>5. doubt = "no"
  BY <1>1, <1>4 DEF Doubted
<1>6. Reading' /\ Latest'
  BY <1>1, <1>2, <1>3, <1>5 DEF Shown, Reading, Latest
<1>7. CASE applied[i].kind = "cancelled"
  <2>1. LiveApplied => LiveApplied'
    BY <1>2, <1>7 DEF LiveApplied, Live
  <2>2. Coming'
    BY <1>1, <1>3, <1>5, <1>7, <2>1 DEF Shown, Coming, LiveSent
  <2> QED
    BY <1>6, <2>2 DEF Shown
<1>8. CASE applied[i].kind # "cancelled"
  <2>1. applied[i].late = FALSE /\ applied[i].by = Account
    BY <1>1, <1>3, <1>4, <1>8 DEF Doubted, Saves
  <2>2. Own(applied[i])
    BY <1>3, <1>8, <2>1 DEF Own, Live, Saves
  <2>3. ASSUME user # None, ~ Loading PROVE prefs' = stored[user] \/ LiveApplied'
    <3>1. Newest(i) /\ Account = user
      BY <1>5, <2>2, <2>3, AccountFact DEF Shown, Latest
    <3>2. CASE applied[i].set = stored[Account]
      BY <1>1, <1>8, <3>1, <3>2
    <3>3. ASSUME NEW j \in DOMAIN applied, i < j, Own(applied[j]) PROVE LiveApplied'
      <4>1. j # i
        BY <1>0, <3>3, LengthFact
      <4> QED
        BY <1>2, <3>3, <4>1 DEF Own
    <3> QED
      BY <3>1, <3>2, <3>3 DEF Newest
  <2>4. Coming'
    BY <1>1, <1>3, <2>3 DEF Coming
  <2> QED
    BY <1>6, <2>4 DEF Shown
<1> QED
  BY <1>7, <1>8

LEMMA OtherShown ==
  ASSUME PInv, Shown, NEW u \in Users, NEW s \in Settings, NEW v \in Values, OtherChooses(u, s, v)
  PROVE  Shown'
<1>0. PrefsTypeOK
  BY DEF PInv
<1>1. /\ stored' = [stored EXCEPT ![u][s] = v] /\ doubt' = (IF u = Account THEN "elsewhere" ELSE doubt)
      /\ UNCHANGED <<token, user, me, prefs, sent, applied>>
  BY DEF OtherChooses
<1>2. CASE u = Account
  BY <1>1, <1>2, DoubtfulShown
<1>3. CASE u # Account
  <2>1. Account' = Account /\ Loading' = Loading
    BY <1>1 DEF Account, Loading
  <2>2. doubt' = doubt /\ \A x \in Users : x # u => stored'[x] = stored[x]
    BY <1>0, <1>1, <1>3 DEF PrefsTypeOK
  <2>3. Account \in Users => stored'[Account] = stored[Account]
    BY <1>3, <2>2
  <2>4. Reading'
    BY <1>1, <2>2, <2>3, AccountFact DEF Shown, Reading, Loading
  <2>5. Coming'
    BY <1>1, <2>1, <2>2, <2>3, AccountFact DEF Shown, Coming, LiveSent, LiveApplied
  <2>6. me.stage = "read" \/ (user # None /\ ~ Loading) => Account \in Users
    BY AccountFact DEF Loading
  <2>7. Latest'
    BY <1>1, <2>1, <2>2, <2>3, <2>6 DEF Shown, Latest, Newest, Own
  <2> QED
    BY <2>4, <2>5, <2>7 DEF Shown
<1> QED
  BY <1>2, <1>3

LEMMA NextShown ==
  ASSUME PInv, Shown, [PrefsNext]_prefsVars
  PROVE  PInv' /\ Shown'
<1>1. CASE OpenColumns \/ (\E v \in Values : Stage(v)) \/ CloseColumns \/ (\E t \in Tables : GoTo(t))
  BY <1>1, PopoverPInv, SameShown DEF OpenColumns, Stage, CloseColumns, GoTo
<1>2. CASE SaveColumns \/ ResetColumns \/ \E s \in Settings, v \in Values : Choose(s, v)
  BY <1>2, ChoiceFact, ChoicePInv, ChoiceShown
<1>3. CASE (\E u \in Users : Login(u)) \/ MeFails \/ Logout
  BY <1>3, SessionPInv, AbsentShown
<1>4. CASE Reload \/ Expire
  BY <1>4, ReloadPInv, AbsentShown
<1>5. CASE MeRead
  BY <1>5, MeReadPInv, MeReadShown
<1>6. CASE MeArrives
  BY <1>6, MeArrivesPInv, MeArrivesShown
<1>7. ASSUME NEW i \in DOMAIN sent, Apply(i) \/ RefuseSave(i) PROVE PInv' /\ Shown'
  BY <1>7, ApplyPInv, ApplyShown, FailedPInv, RefuseShown
<1>8. ASSUME NEW i \in DOMAIN applied, AnswerSave(i) \/ LoseSave(i) PROVE PInv' /\ Shown'
  BY <1>8, AnswerPInv, AnswerShown, FailedPInv, LoseShown
<1>9. CASE \E u \in Users, s \in Settings, v \in Values : OtherChooses(u, s, v)
  BY <1>9, OtherPInv, OtherShown
<1>10. CASE UNCHANGED prefsVars
  BY <1>10, SameShown DEF prefsVars, PInv, PrefsTypeOK, Session, Kinds, Loading
<1> QED
  BY <1>1, <1>2, <1>3, <1>4, <1>5, <1>6, <1>7, <1>8, <1>9, <1>10 DEF PrefsNext

LEMMA InitShown == PrefsInit => PInv /\ Shown
BY InitPInv DEF PrefsInit, NotAsked, Shown, Reading, Coming, Latest

\* The states of the model are of the declared types.
THEOREM PrefsTypeCorrect == PrefsSpec => []PrefsTypeOK
<1>1. PInv => PrefsTypeOK
  BY DEF PInv
<1> QED
  BY <1>1, InitShown, NextShown, PTL DEF PrefsSpec

\* When nothing is under way and no reason for doubt is known, the screen
\* shows what the account has (UserPreferencesContext.tsx): for any number of
\* users, settings and saves that overlap.
THEOREM ScreenAsStoredAlways == PrefsSpec => []ScreenAsStored
<1>1. PInv /\ Shown => ScreenAsStored
  BY DEF PInv, Shown, Coming, ScreenAsStored, Settled, LiveSent, LiveApplied
<1> QED
  BY <1>1, InitShown, NextShown, PTL DEF PrefsSpec
-----------------------------------------------------------------------------
(***************************************************************************)
(* The choices and the account.                                            *)
(***************************************************************************)

\* The user's last choices are in the save that was sent last, or have been
\* applied with it.
ChosenSent ==
  user # None /\ ~ Loading /\ chosen # NoChoices =>
    /\ \A i \in DOMAIN sent : i = Len(sent) =>
         Live(sent[i]) /\ sent[i].by = user /\ \A s \in Settings : chosen[s] \in {None, sent[i].set[s]}
    /\ Len(sent) = 0 /\ doubt = "no" => \A s \in Settings : chosen[s] \in {None, stored[user][s]}

LEMMA AbsentChosen ==
  ASSUME me'.stage = "asked" \/ (user' = None /\ me'.stage = "off") \/ chosen' = NoChoices
  PROVE  ChosenSent'
BY DEF ChosenSent, Loading

LEMMA SameChosen ==
  ASSUME ChosenSent, UNCHANGED <<user, me, sent, stored, chosen>>, doubt' = "no" => doubt = "no"
  PROVE  ChosenSent'
BY DEF ChosenSent, Loading

LEMMA ChoiceChosen ==
  ASSUME PInv, NEW s \in Settings, NEW v \in Values, Put(s, v)
  PROVE  ChosenSent'
<1>1. PrefsTypeOK /\ prefs' \in Sets /\ UNCHANGED <<user, me>>
  BY PutFact DEF PInv
<1> SUFFICES ASSUME user # None PROVE ChosenSent'
  BY <1>1 DEF ChosenSent
<1>2. /\ sent' = Sending("save", prefs') /\ token = user /\ token # None
      /\ \A x \in Settings : chosen'[x] \in {None, prefs'[x]}
  BY PutFact
<1>3. /\ Len(sent') = Len(sent) + 1 /\ Len(sent) \in Nat
      /\ sent'[Len(sent) + 1].by = token /\ sent'[Len(sent) + 1].kind = "save"
      /\ sent'[Len(sent) + 1].set = prefs'
  BY <1>1, <1>2, SendingFact
<1>4. ASSUME NEW i \in DOMAIN sent', i = Len(sent')
      PROVE  Live(sent'[i]) /\ sent'[i].by = user' /\ sent'[i].set = prefs'
  BY <1>1, <1>2, <1>3, <1>4 DEF Live
<1>5. Len(sent') # 0
  BY <1>3
<1> QED
  BY <1>2, <1>4, <1>5 DEF ChosenSent

\* A save that is not the last leaves the last where it is.
LEMMA LastStays ==
  ASSUME PInv, NEW i \in DOMAIN sent, sent' = RemoveAt(sent, i), i # Len(sent)
  PROVE  /\ Len(sent') # 0 /\ Len(sent) \in DOMAIN sent
         /\ \A j \in DOMAIN sent' : j = Len(sent') => sent'[j] = sent[Len(sent)]
<1>1. sent \in Seq(Saves) /\ Len(sent) \in Nat /\ DOMAIN sent = 1 .. Len(sent)
  BY LengthFact DEF PInv, PrefsTypeOK
<1>2. /\ sent' \in Seq(Saves) /\ Len(sent') = Len(sent) - 1
      /\ \A j \in 1 .. Len(sent) - 1 : sent'[j] = IF j < i THEN sent[j] ELSE sent[j + 1]
  BY <1>1, RemoveFact
<1>3. DOMAIN sent' = 1 .. Len(sent) - 1
  BY <1>2, LenProperties
<1>4. ASSUME NEW j \in DOMAIN sent', j = Len(sent') PROVE sent'[j] = sent[Len(sent)]
  <2>1. j \in 1 .. Len(sent) - 1 /\ ~ (j < i) /\ j + 1 = Len(sent)
    BY <1>1, <1>2, <1>3, <1>4
  <2> QED
    BY <1>2, <2>1
<1> QED
  BY <1>1, <1>2, <1>4

LEMMA ApplyChosen ==
  ASSUME PInv, ChosenSent, NEW i \in DOMAIN sent, Apply(i)
  PROVE  ChosenSent'
<1>0. PrefsTypeOK
  BY DEF PInv
<1>1. /\ UNCHANGED <<user, me>> /\ sent' = RemoveAt(sent, i) /\ Len(sent') = Len(sent) - 1 /\ sent' \in Seq(Saves)
      /\ sent[i].by \in Users /\ stored' = [stored EXCEPT ![sent[i].by] = sent[i].set]
      /\ chosen' = IF i = 1 THEN chosen ELSE NoChoices
  BY ApplyFact
<1>2. CASE i # 1
  BY <1>1, <1>2, AbsentChosen
<1>3. CASE i = 1
  <2> SUFFICES ASSUME user # None, ~ Loading, chosen # NoChoices
               PROVE  /\ \A j \in DOMAIN sent' : j = Len(sent') =>
                           Live(sent'[j]) /\ sent'[j].by = user /\ \A s \in Settings : chosen[s] \in {None, sent'[j].set[s]}
                      /\ Len(sent') = 0 => \A s \in Settings : chosen[s] \in {None, stored'[user][s]}
    BY <1>1, <1>3 DEF ChosenSent, Loading
  <2>1. CASE Len(sent) # 1
    BY <1>1, <1>3, <2>1, LastStays DEF ChosenSent
  <2>2. CASE Len(sent) = 1
    <3>1. sent[i].by = user /\ \A s \in Settings : chosen[s] \in {None, sent[i].set[s]}
      BY <1>3, <2>2 DEF ChosenSent
    <3>2. stored'[user] = sent[i].set
      BY <1>0, <1>1, <3>1 DEF PrefsTypeOK
    <3>3. DOMAIN sent' = {}
      BY <1>1, <2>2, LenProperties
    <3> QED
      BY <3>1, <3>2, <3>3
  <2> QED
    BY <2>1, <2>2
<1> QED
  BY <1>2, <1>3

LEMMA RefuseChosen ==
  ASSUME PInv, ChosenSent, NEW i \in DOMAIN sent, RefuseSave(i)
  PROVE  ChosenSent'
<1>1. Failed(sent[i]) /\ sent' = RemoveAt(sent, i) /\ UNCHANGED <<user, me, stored>>
  BY DEF RefuseSave
<1>2. CASE Live(sent[i])
  BY <1>1, <1>2, FailedFact, AbsentChosen
<1>3. CASE ~ Live(sent[i])
  <2>1. UNCHANGED chosen
    BY <1>1, <1>3, FailedFact
  <2> SUFFICES ASSUME user # None, ~ Loading, chosen # NoChoices PROVE ChosenSent'
    BY <1>1, <2>1 DEF ChosenSent, Loading
  <2>2. i # Len(sent)
    BY <1>3 DEF ChosenSent
  <2> QED
    BY <1>1, <2>1, <2>2, LastStays DEF ChosenSent
<1> QED
  BY <1>2, <1>3

LEMMA OtherChosen ==
  ASSUME PInv, ChosenSent, NEW u \in Users, NEW s \in Settings, NEW v \in Values, OtherChooses(u, s, v)
  PROVE  ChosenSent'
<1>0. PrefsTypeOK
  BY DEF PInv
<1>1. /\ stored' = [stored EXCEPT ![u][s] = v] /\ doubt' = (IF u = Account THEN "elsewhere" ELSE doubt)
      /\ UNCHANGED <<token, user, me, sent, chosen>>
  BY DEF OtherChooses
<1>2. ASSUME user # None, ~ Loading PROVE doubt' = "no" => doubt = "no" /\ stored'[user] = stored[user]
  <2>1. Account = user /\ user \in Users
    BY <1>2, AccountFact
  <2> QED
    BY <1>0, <1>1, <2>1 DEF PrefsTypeOK
<1> QED
  BY <1>1, <1>2 DEF ChosenSent, Loading

LEMMA NextChosen ==
  ASSUME PInv, ChosenSent, [PrefsNext]_prefsVars
  PROVE  ChosenSent'
<1>1. CASE OpenColumns \/ (\E v \in Values : Stage(v)) \/ CloseColumns \/ (\E t \in Tables : GoTo(t))
  BY <1>1, SameChosen DEF OpenColumns, Stage, CloseColumns, GoTo
<1>2. CASE SaveColumns \/ ResetColumns \/ \E s \in Settings, v \in Values : Choose(s, v)
  BY <1>2, ChoiceFact, ChoiceChosen
<1>3. CASE (\E u \in Users : Login(u)) \/ MeFails \/ Logout
  BY <1>3, SessionPInv, AbsentChosen
<1>4. CASE Reload \/ Expire
  BY <1>4, ReloadPInv, AbsentChosen
<1>5. CASE MeRead
  BY <1>5, MeReadPInv DEF ChosenSent, Loading
<1>6. CASE MeArrives
  BY <1>6, AbsentChosen DEF MeArrives
<1>7. ASSUME NEW i \in DOMAIN sent, Apply(i) \/ RefuseSave(i) PROVE ChosenSent'
  BY <1>7, ApplyChosen, RefuseChosen
<1>8. ASSUME NEW i \in DOMAIN applied, AnswerSave(i) PROVE ChosenSent'
  <2>1. UNCHANGED <<user, me, sent, stored, chosen>> /\ (doubt' = "no" => doubt = "no")
    BY <1>8 DEF AnswerSave, Doubted
  <2> QED
    BY <2>1, SameChosen
<1>9. ASSUME NEW i \in DOMAIN applied, LoseSave(i) PROVE ChosenSent'
  <2>1. Failed(applied[i]) /\ UNCHANGED <<user, me, sent, stored>>
    BY <1>9 DEF LoseSave
  <2> QED
    BY <2>1, FailedFact, AbsentChosen, SameChosen
<1>10. CASE \E u \in Users, s \in Settings, v \in Values : OtherChooses(u, s, v)
  BY <1>10, OtherChosen
<1>11. CASE UNCHANGED prefsVars
  BY <1>11, SameChosen DEF prefsVars
<1> QED
  BY <1>1, <1>2, <1>3, <1>4, <1>5, <1>6, <1>7, <1>8, <1>9, <1>10, <1>11 DEF PrefsNext

\* A choice is kept with all later ones, unless the screen had taken it back,
\* a save has failed, or one was applied before one sent earlier
\* (UserPreferencesContext.tsx).
THEOREM ChoicesStoredAlways == PrefsSpec => []ChoicesStored
<1> DEFINE I == PInv /\ Shown /\ ChosenSent
<1>1. PrefsInit => I
  BY InitShown DEF PrefsInit, ChosenSent
<1>2. I /\ [PrefsNext]_prefsVars => I'
  BY NextShown, NextChosen
<1>3. I => ChoicesStored
  <2> SUFFICES ASSUME PInv, ChosenSent, Settled, NEW s \in Settings PROVE chosen[s] \in {None, stored[user][s]}
    BY DEF ChoicesStored
  <2>1. CASE chosen = NoChoices
    BY <2>1 DEF NoChoices
  <2>2. CASE chosen # NoChoices
    BY <2>2 DEF ChosenSent, Settled
  <2> QED
    BY <2>1, <2>2
<1> QED
  BY <1>1, <1>2, <1>3, PTL DEF PrefsSpec
-----------------------------------------------------------------------------
(***************************************************************************)
(* Whose preferences an account has, when sessions do not mix.             *)
(***************************************************************************)

\* Nobody signs in over another user, and no answer that takes the screen is
\* to come for anybody but the user of the token.
SessionsApart ==
  /\ user \in {None, token}
  /\ \A i \in DOMAIN applied : Live(applied[i]) => applied[i].by = token

OwnValues(u) == OwnOf[u] \cup {Default, Legacy}
Fits(set, u) == \A s \in Settings : set[s] \in OwnValues(u)

\* what is under way, read, on the screen and staged is the user's own
OwnSaves ==
  /\ \A i \in DOMAIN sent : Fits(sent[i].set, sent[i].by) /\ (sent[i].kind = "load" => sent[i].by = token)
  /\ \A i \in DOMAIN applied : Fits(applied[i].set, applied[i].by)
OwnStored == \A u \in Users : Fits(stored[u], u)
OwnRead == me.stage = "read" => Fits(me.set, token)
OwnScreen == IF token = None THEN prefs = AllDefault ELSE Fits(prefs, token)
OwnStaged == token # None /\ edit # None => edit.keys \in OwnValues(token)

OwnInv == OwnSaves /\ OwnStored /\ OwnRead /\ OwnScreen /\ OwnStaged

LEMMA FitsFact ==
  /\ \A u \in Users : Fits(AllDefault, u)
  /\ \A u \in Users, set \in Sets : Fits(set, u) => Fits(Merged(set), u)
  /\ \A u \in Users, set \in Sets, s \in Settings : \A v \in OwnValues(u) : Fits(set, u) => Fits([set EXCEPT ![s] = v], u)
BY DEF Fits, OwnValues, AllDefault, Merged, Sets

LEMMA RestagedOwn ==
  ASSUME OwnStaged, NEW before, NEW after, token # None => after \in OwnValues(token),
         edit' = Restaged(before, after), UNCHANGED token
  PROVE  OwnStaged'
BY DEF OwnStaged, Restaged, Staged, OwnValues

\* a cancelled save is what it was, but for its place in the session
LEMMA CancelledOwn ==
  ASSUME NEW q \in Seq(Saves), NEW i \in DOMAIN Cancelled(q)
  PROVE  /\ i \in DOMAIN q
         /\ Cancelled(q)[i].set = q[i].set /\ Cancelled(q)[i].by = q[i].by /\ Cancelled(q)[i].kind # "load"
<1>1. i \in DOMAIN q /\ q[i] \in Saves
  BY SeqSaves DEF Cancelled
<1> QED
  BY <1>1 DEF Cancelled, Saves

\* a sequence of the saves there were, fewer perhaps
LEMMA FewerOwn ==
  ASSUME OwnSaves, UNCHANGED token,
         \A i \in DOMAIN sent' : \E k \in DOMAIN sent : sent'[i] = sent[k],
         \A i \in DOMAIN applied' : (\E k \in DOMAIN applied : applied'[i].set = applied[k].set /\ applied'[i].by = applied[k].by)
                                    \/ (\E k \in DOMAIN sent : applied'[i] = sent[k])
  PROVE  OwnSaves'
<1>1. ASSUME NEW i \in DOMAIN sent'
      PROVE  Fits(sent'[i].set, sent'[i].by) /\ (sent'[i].kind = "load" => sent'[i].by = token')
  BY <1>1 DEF OwnSaves
<1>2. ASSUME NEW i \in DOMAIN applied' PROVE Fits(applied'[i].set, applied'[i].by)
  BY <1>2 DEF OwnSaves
<1> QED
  BY <1>1, <1>2 DEF OwnSaves, Fits

LEMMA PopoverOwn ==
  ASSUME PInv, OwnInv, OpenColumns \/ (\E v \in Values : Stage(v)) \/ CloseColumns \/ (\E t \in Tables : GoTo(t))
  PROVE  OwnInv'
<1>1. UNCHANGED <<token, me, prefs, sent, applied, stored>>
  BY DEF OpenColumns, Stage, CloseColumns, GoTo
<1>2. ASSUME NEW t \in Tables, token # None PROVE prefs[t] \in OwnValues(token)
  BY <1>2 DEF OwnInv, OwnScreen, Fits, Settings
<1>3. OwnStaged'
  <2>1. CASE OpenColumns
    BY <1>2, <2>1 DEF OpenColumns, Staged, OwnStaged, OwnValues, PInv, PrefsTypeOK
  <2>2. ASSUME NEW v \in Values, Stage(v) PROVE OwnStaged'
    BY <2>2 DEF Stage, OwnStaged, OwnValues
  <2>3. CASE CloseColumns
    BY <2>3 DEF CloseColumns, OwnStaged
  <2>4. ASSUME NEW t \in Tables, GoTo(t) PROVE OwnStaged'
    <3>1. edit' = Restaged(None, prefs[t]) /\ UNCHANGED token
      BY <2>4 DEF GoTo, Restaged
    <3> QED
      BY <1>2, <3>1, RestagedOwn DEF OwnInv
  <2> QED
    BY <2>1, <2>2, <2>3, <2>4
<1> QED
  BY <1>1, <1>3 DEF OwnInv, OwnSaves, OwnStored, OwnRead, OwnScreen, Fits, OwnValues

\* a choice is one of the user whose token it is
LEMMA ChoiceOwn ==
  ASSUME PInv, OwnInv, SaveColumns \/ ResetColumns \/ \E s \in Settings, v \in Values : Choose(s, v)
  PROVE  /\ token \in Users /\ edit' = None
         /\ \E s \in Settings, v \in Values : Put(s, v) /\ v \in OwnValues(token)
<1>1. token \in Users /\ list \in Settings /\ edit \in Edits
  BY DEF SaveColumns, ResetColumns, Choose, Put, PInv, PrefsTypeOK, Settings, Edits
<1>2. CASE SaveColumns
  <2>1. Put(list, edit.keys) /\ edit # None /\ edit' = None
    BY <1>2 DEF SaveColumns
  <2>2. edit.keys \in Values /\ edit.keys \in OwnValues(token)
    BY <1>1, <2>1, NoneFact DEF Edits, OwnInv, OwnStaged
  <2> QED
    BY <1>1, <2>1, <2>2
<1>3. CASE ResetColumns
  BY <1>1, <1>3, NoneFact DEF ResetColumns, OwnValues
<1>4. ASSUME NEW s \in Settings, NEW v \in Values, Choose(s, v)
      PROVE  edit' = None /\ Put(s, v) /\ v \in OwnValues(token)
  BY <1>4 DEF Choose, OwnValues
<1> QED
  BY <1>1, <1>2, <1>3, <1>4

LEMMA PutOwn ==
  ASSUME PInv, OwnInv, token \in Users, edit' = None,
         NEW s \in Settings, NEW v \in Values, Put(s, v), v \in OwnValues(token)
  PROVE  OwnInv'
<1>1. /\ prefs' = [prefs EXCEPT ![s] = v] /\ prefs' \in Sets /\ prefs \in Sets /\ token # None
      /\ UNCHANGED <<token, me, applied, stored>>
  BY PutFact, NoneFact DEF PInv, PrefsTypeOK
<1>2. Fits(prefs', token)
  BY <1>1, FitsFact DEF OwnInv, OwnScreen
<1>3. OwnSaves'
  <2>1. CASE user = None
    <3>1. UNCHANGED sent
      BY <2>1, PutFact
    <3> QED
      BY <1>1, <3>1 DEF OwnInv, OwnSaves, Fits, OwnValues
  <2>2. CASE user # None
    <3>1. sent' = Sending("save", prefs')
      BY <2>2, PutFact
    <3>2. /\ DOMAIN sent' = 1 .. Len(sent) + 1 /\ DOMAIN sent = 1 .. Len(sent) /\ Len(sent) \in Nat
          /\ \A i \in 1 .. Len(sent) : sent'[i] = sent[i]
          /\ sent'[Len(sent) + 1].by = token /\ sent'[Len(sent) + 1].kind = "save"
          /\ sent'[Len(sent) + 1].set = prefs'
      BY <1>1, <3>1, SendingFact DEF PInv
    <3>3. ASSUME NEW i \in DOMAIN sent'
          PROVE  Fits(sent'[i].set, sent'[i].by) /\ (sent'[i].kind = "load" => sent'[i].by = token')
      <4>1. CASE i \in DOMAIN sent
        BY <1>1, <3>2, <4>1 DEF OwnInv, OwnSaves
      <4>2. CASE i \notin DOMAIN sent
        <5>1. i = Len(sent) + 1
          BY <3>2, <4>2
        <5> QED
          BY <1>2, <3>2, <5>1
      <4> QED
        BY <4>1, <4>2
    <3> QED
      BY <1>1, <3>3 DEF OwnInv, OwnSaves, Fits, OwnValues
  <2> QED
    BY <2>1, <2>2
<1> QED
  BY <1>1, <1>2, <1>3 DEF OwnInv, OwnStored, OwnRead, OwnScreen, OwnStaged, Fits, OwnValues

\* a sign-in, and an end of the session: loads are cancelled
LEMMA SessionOwn ==
  ASSUME PInv, OwnInv, SessionsApart, SessionsApart', (\E u \in Users : Login(u)) \/ MeFails \/ Logout
  PROVE  OwnInv'
<1>1. sent' = Cancelled(sent) /\ applied' = Cancelled(applied) /\ edit' = None /\ UNCHANGED stored
  BY DEF Login, MeFails, Logout, SignedOut
<1>2. sent \in Seq(Saves) /\ applied \in Seq(Saves)
  BY DEF PInv, PrefsTypeOK
<1>3. OwnSaves'
  <2>1. ASSUME NEW i \in DOMAIN sent' PROVE Fits(sent'[i].set, sent'[i].by) /\ sent'[i].kind # "load"
    BY <1>1, <1>2, <2>1, CancelledOwn DEF OwnInv, OwnSaves
  <2>2. ASSUME NEW i \in DOMAIN applied' PROVE Fits(applied'[i].set, applied'[i].by)
    BY <1>1, <1>2, <2>2, CancelledOwn DEF OwnInv, OwnSaves
  <2> QED
    BY <2>1, <2>2 DEF OwnSaves, Fits, OwnValues
<1>4. OwnRead' /\ OwnScreen'
  <2>1. ASSUME NEW u \in Users, Login(u) PROVE OwnRead' /\ OwnScreen'
    <3>1. token' = u /\ me'.stage = "asked" /\ UNCHANGED <<user, prefs>> /\ user = token
      BY <2>1 DEF Login, Asked, PInv, Session
    <3>2. token \in {None, u} /\ u # None
      BY <3>1, NoneFact DEF SessionsApart
    <3>3. Fits(prefs, u)
      BY <3>1, <3>2, FitsFact DEF OwnInv, OwnScreen
    <3> QED
      BY <3>1, <3>2, <3>3 DEF OwnRead, OwnScreen, Fits, OwnValues
  <2>2. ASSUME MeFails \/ Logout PROVE OwnRead' /\ OwnScreen'
    BY <2>2 DEF MeFails, Logout, SignedOut, NotAsked, OwnRead, OwnScreen, AllDefault
  <2> QED
    BY <2>1, <2>2
<1> QED
  BY <1>1, <1>3, <1>4 DEF OwnInv, OwnStored, OwnStaged, Fits, OwnValues

LEMMA ReloadOwn ==
  ASSUME PInv, OwnInv, Reload \/ Expire
  PROVE  OwnInv'
<1>1. /\ prefs' = AllDefault /\ edit' = None /\ applied' = <<>> /\ UNCHANGED stored
      /\ sent' = [i \in DOMAIN sent |-> [sent[i] EXCEPT !.kind = "gone"]]
      /\ me'.stage # "read" /\ token' \in Users \cup {None}
  BY DEF Reload, Expire, Reloaded, Asked, NotAsked, PInv, PrefsTypeOK
<1>2. ASSUME NEW i \in DOMAIN sent' PROVE Fits(sent'[i].set, sent'[i].by) /\ sent'[i].kind # "load"
  <2>1. i \in DOMAIN sent /\ sent[i] \in Saves
    BY <1>1, SeqSaves DEF PInv, PrefsTypeOK
  <2>2. sent'[i].set = sent[i].set /\ sent'[i].by = sent[i].by /\ sent'[i].kind = "gone"
    BY <1>1, <2>1 DEF Saves
  <2> QED
    BY <2>1, <2>2 DEF OwnInv, OwnSaves
<1>3. OwnSaves'
  BY <1>1, <1>2 DEF OwnSaves, Fits, OwnValues
<1>4. OwnScreen'
  BY <1>1, FitsFact DEF OwnScreen, Fits, OwnValues, AllDefault
<1> QED
  BY <1>1, <1>3, <1>4 DEF OwnInv, OwnStored, OwnRead, OwnStaged, Fits, OwnValues

LEMMA MeReadOwn ==
  ASSUME PInv, OwnInv, MeRead
  PROVE  OwnInv'
<1>1. /\ me' = [stage |-> "read", set |-> stored[token]] /\ token \in Users
      /\ applied' = [j \in DOMAIN applied |-> [applied[j] EXCEPT !.late = TRUE]]
      /\ UNCHANGED <<token, prefs, edit, sent, stored>>
  BY DEF MeRead, PInv, PrefsTypeOK, Session, Loading
<1>2. ASSUME NEW i \in DOMAIN applied'
      PROVE  i \in DOMAIN applied /\ applied'[i].set = applied[i].set /\ applied'[i].by = applied[i].by
  <2>1. i \in DOMAIN applied /\ applied[i] \in Saves
    BY <1>1, SeqSaves DEF PInv, PrefsTypeOK
  <2> QED
    BY <1>1, <2>1, SaveFact
<1>3. OwnSaves'
  BY <1>1, <1>2, FewerOwn DEF OwnInv
<1> QED
  BY <1>1, <1>3 DEF OwnInv, OwnStored, OwnRead, OwnScreen, OwnStaged, Fits, OwnValues

\* what is loaded, merged with what the browser had, is the user's own
LEMMA MeArrivesOwn ==
  ASSUME PInv, OwnInv, SessionsApart, MeArrives
  PROVE  OwnInv'
<1>1. /\ me.stage = "read" /\ me'.stage = "off" /\ token \in Users /\ token # None /\ me.set \in Sets /\ list \in Settings
      /\ UNCHANGED <<token, list, applied, stored>>
  BY NoneFact DEF MeArrives, NotAsked, PInv, PrefsTypeOK, Session, Loading, Settings
<1>2. Fits(me.set, token)
  BY <1>1 DEF OwnInv, OwnRead
<1>3. CASE legacy
  <2>1. sent' = Sending("load", Merged(me.set)) /\ UNCHANGED <<prefs, edit>>
    BY <1>3 DEF MeArrives
  <2>2. Merged(me.set) \in Sets /\ Fits(Merged(me.set), token)
    BY <1>1, <1>2, SetFact, FitsFact
  <2>3. /\ DOMAIN sent' = 1 .. Len(sent) + 1 /\ DOMAIN sent = 1 .. Len(sent) /\ Len(sent) \in Nat
        /\ \A i \in 1 .. Len(sent) : sent'[i] = sent[i]
        /\ sent'[Len(sent) + 1].by = token /\ sent'[Len(sent) + 1].set = Merged(me.set)
    BY <1>1, <2>1, <2>2, SendingFact DEF PInv
  <2>4. ASSUME NEW i \in DOMAIN sent'
        PROVE  Fits(sent'[i].set, sent'[i].by) /\ (sent'[i].kind = "load" => sent'[i].by = token')
    <3>1. CASE i \in DOMAIN sent
      BY <1>1, <2>3, <3>1 DEF OwnInv, OwnSaves
    <3>2. CASE i \notin DOMAIN sent
      <4>1. i = Len(sent) + 1
        BY <2>3, <3>2
      <4> QED
        BY <1>1, <2>2, <2>3, <4>1
    <3> QED
      BY <3>1, <3>2
  <2>5. OwnSaves'
    BY <1>1, <2>4 DEF OwnInv, OwnSaves, Fits, OwnValues
  <2> QED
    BY <1>1, <2>1, <2>5 DEF OwnInv, OwnStored, OwnRead, OwnScreen, OwnStaged, Fits, OwnValues
<1>4. CASE ~ legacy
  <2>1. prefs' = me.set /\ edit' = Restaged(prefs[list], me.set[list]) /\ UNCHANGED sent
    BY <1>4 DEF MeArrives
  <2>2. OwnStaged'
    <3>1. me.set[list] \in OwnValues(token)
      BY <1>1, <1>2 DEF Fits
    <3> QED
      BY <1>1, <2>1, <3>1, RestagedOwn DEF OwnInv
  <2> QED
    BY <1>1, <1>2, <2>1, <2>2 DEF OwnInv, OwnSaves, OwnStored, OwnRead, OwnScreen, Fits, OwnValues
<1> QED
  BY <1>3, <1>4

LEMMA ApplyOwn ==
  ASSUME PInv, OwnInv, NEW i \in DOMAIN sent, Apply(i)
  PROVE  OwnInv'
<1>1. /\ sent[i].by \in Users /\ stored' = [stored EXCEPT ![sent[i].by] = sent[i].set] /\ stored \in [Users -> Sets]
      /\ sent' = RemoveAt(sent, i) /\ UNCHANGED <<token, me, prefs, edit>> /\ sent \in Seq(Saves)
  BY ApplyFact DEF PInv, PrefsTypeOK
<1>2. \A j \in DOMAIN sent' : \E k \in DOMAIN sent : sent'[j] = sent[k]
  BY <1>1, RemainFact
<1>3. \A j \in DOMAIN applied' : (\E k \in DOMAIN applied : applied'[j] = applied[k]) \/ applied'[j] = sent[i]
  BY AppliedFact
<1>4. OwnSaves'
  BY <1>1, <1>2, <1>3, FewerOwn DEF OwnInv
<1>5. OwnStored'
  BY <1>1 DEF OwnInv, OwnStored, OwnSaves, Fits, OwnValues
<1> QED
  BY <1>1, <1>4, <1>5 DEF OwnInv, OwnRead, OwnScreen, OwnStaged, Fits, OwnValues

\* a set that takes the screen, and is the user's
LEMMA ScreenOwn ==
  ASSUME PInv, OwnInv, NEW set, token \in Users, Fits(set, token), prefs' = set,
         edit' = Restaged(prefs[list], set[list]), UNCHANGED token
  PROVE  OwnScreen' /\ OwnStaged'
<1>1. list \in Settings /\ set[list] \in OwnValues(token)
  BY DEF PInv, PrefsTypeOK, Settings, Fits
<1> QED
  BY <1>1, NoneFact, RestagedOwn DEF OwnInv, OwnScreen, Fits, OwnValues

LEMMA FailedOwn ==
  ASSUME PInv, OwnInv, NEW r, Failed(r), UNCHANGED token, r.kind = "load" => r.by = token /\ r.by \in Users /\ Fits(r.set, r.by)
  PROVE  OwnScreen' /\ OwnStaged'
<1>1. CASE r.kind = "load"
  BY <1>1, ScreenOwn DEF Failed
<1>2. CASE r.kind # "load"
  BY <1>2 DEF Failed, OwnInv, OwnScreen, OwnStaged, Fits, OwnValues
<1> QED
  BY <1>1, <1>2

LEMMA RefuseOwn ==
  ASSUME PInv, OwnInv, NEW i \in DOMAIN sent, RefuseSave(i)
  PROVE  OwnInv'
<1>1. Failed(sent[i]) /\ sent' = RemoveAt(sent, i) /\ UNCHANGED <<token, me, applied, stored>>
  BY DEF RefuseSave
<1>2. sent \in Seq(Saves) /\ sent[i].by \in Users
  BY SeqSaves DEF PInv, PrefsTypeOK
<1>3. \A j \in DOMAIN sent' : \E k \in DOMAIN sent : sent'[j] = sent[k]
  BY <1>1, <1>2, RemainFact
<1>4. OwnSaves'
  BY <1>1, <1>3, FewerOwn DEF OwnInv
<1>5. OwnScreen' /\ OwnStaged'
  BY <1>1, <1>2, FailedOwn DEF OwnInv, OwnSaves
<1> QED
  BY <1>1, <1>4, <1>5 DEF OwnInv, OwnStored, OwnRead, Fits, OwnValues

LEMMA LoseOwn ==
  ASSUME PInv, OwnInv, SessionsApart, NEW i \in DOMAIN applied, LoseSave(i)
  PROVE  OwnInv'
<1>1. Failed(applied[i]) /\ applied' = RemoveAt(applied, i) /\ UNCHANGED <<token, me, sent, stored>>
  BY DEF LoseSave
<1>2. applied \in Seq(Saves) /\ applied[i].by \in Users
  BY SeqSaves DEF PInv, PrefsTypeOK
<1>3. \A j \in DOMAIN applied' : \E k \in DOMAIN applied : applied'[j] = applied[k]
  BY <1>1, <1>2, RemainFact
<1>4. OwnSaves'
  BY <1>1, <1>3, FewerOwn DEF OwnInv
<1>5. OwnScreen' /\ OwnStaged'
  BY <1>1, <1>2, FailedOwn DEF OwnInv, OwnSaves, SessionsApart, Live
<1> QED
  BY <1>1, <1>4, <1>5 DEF OwnInv, OwnStored, OwnRead, Fits, OwnValues

LEMMA AnswerOwn ==
  ASSUME PInv, OwnInv, SessionsApart, NEW i \in DOMAIN applied, AnswerSave(i)
  PROVE  OwnInv'
<1>1. applied' = RemoveAt(Overtaken(i), i) /\ UNCHANGED <<token, me, sent, stored>>
  BY DEF AnswerSave, Overtaken
<1>2. /\ applied \in Seq(Saves) /\ applied[i].by \in Users /\ applied[i].kind \in {"save", "load", "cancelled", "gone"}
      /\ applied[i].kind # "gone" /\ Fits(applied[i].set, applied[i].by)
  BY SeqSaves DEF PInv, PrefsTypeOK, Kinds, OwnInv, OwnSaves
<1>3. ASSUME NEW j \in DOMAIN applied'
      PROVE  \E k \in DOMAIN applied : applied'[j].set = applied[k].set /\ applied'[j].by = applied[k].by
  <2> DEFINE q == Overtaken(i)
  <2>1. /\ q \in Seq(Saves) /\ i \in DOMAIN q /\ DOMAIN q = DOMAIN applied
        /\ \A k \in DOMAIN applied : q[k].set = applied[k].set /\ q[k].by = applied[k].by
    BY OvertakenFact
  <2>2. applied' = RemoveAt(q, i)
    BY <1>1
  <2> HIDE DEF q
  <2>3. \E k \in DOMAIN q \ {i} : RemoveAt(q, i)[j] = q[k]
    BY <2>1, <2>2, RemainFact
  <2> QED
    BY <2>1, <2>2, <2>3
<1>4. OwnSaves'
  BY <1>1, <1>3, FewerOwn DEF OwnInv
<1>5. OwnScreen' /\ OwnStaged'
  <2>1. CASE applied[i].kind = "cancelled"
    BY <1>1, <2>1 DEF AnswerSave, TakesScreen, OwnInv, OwnScreen, OwnStaged, Fits, OwnValues
  <2>2. CASE applied[i].kind # "cancelled"
    <3>1. applied[i].by = token
      BY <1>2, <2>2 DEF SessionsApart, Live
    <3>2. prefs' = applied[i].set /\ edit' = Restaged(prefs[list], applied[i].set[list])
      BY <2>2 DEF AnswerSave, TakesScreen
    <3> QED
      BY <1>1, <1>2, <3>1, <3>2, ScreenOwn
  <2> QED
    BY <2>1, <2>2
<1> QED
  BY <1>1, <1>4, <1>5 DEF OwnInv, OwnStored, OwnRead, Fits, OwnValues

LEMMA OtherOwn ==
  ASSUME PInv, OwnInv, NEW u \in Users, NEW s \in Settings, NEW v \in Values, OtherChooses(u, s, v)
  PROVE  OwnInv'
<1>1. /\ stored' = [stored EXCEPT ![u][s] = v] /\ v \in OwnValues(u) /\ stored \in [Users -> Sets]
      /\ UNCHANGED <<token, me, prefs, edit, sent, applied>>
  BY DEF OtherChooses, OwnValues, PInv, PrefsTypeOK
<1>2. Fits(stored[u], u) /\ stored'[u] = [stored[u] EXCEPT ![s] = v] /\ \A w \in Users \ {u} : stored'[w] = stored[w]
  BY <1>1 DEF OwnInv, OwnStored
<1>3. Fits(stored'[u], u)
  BY <1>1, <1>2, FitsFact
<1>4. OwnStored'
  BY <1>2, <1>3 DEF OwnInv, OwnStored, Fits, OwnValues
<1> QED
  BY <1>1, <1>4 DEF OwnInv, OwnSaves, OwnRead, OwnScreen, OwnStaged, Fits, OwnValues

LEMMA NextOwn ==
  ASSUME PInv, OwnInv, SessionsApart, SessionsApart', [PrefsNext]_prefsVars
  PROVE  OwnInv'
<1>1. CASE OpenColumns \/ (\E v \in Values : Stage(v)) \/ CloseColumns \/ (\E t \in Tables : GoTo(t))
  BY <1>1, PopoverOwn
<1>2. CASE SaveColumns \/ ResetColumns \/ \E s \in Settings, v \in Values : Choose(s, v)
  BY <1>2, ChoiceOwn, PutOwn
<1>3. CASE (\E u \in Users : Login(u)) \/ MeFails \/ Logout
  BY <1>3, SessionOwn
<1>4. CASE Reload \/ Expire
  BY <1>4, ReloadOwn
<1>5. CASE MeRead \/ MeArrives
  BY <1>5, MeReadOwn, MeArrivesOwn
<1>6. ASSUME NEW i \in DOMAIN sent, Apply(i) \/ RefuseSave(i) PROVE OwnInv'
  BY <1>6, ApplyOwn, RefuseOwn
<1>7. ASSUME NEW i \in DOMAIN applied, AnswerSave(i) \/ LoseSave(i) PROVE OwnInv'
  BY <1>7, AnswerOwn, LoseOwn
<1>8. CASE \E u \in Users, s \in Settings, v \in Values : OtherChooses(u, s, v)
  BY <1>8, OtherOwn
<1>9. CASE UNCHANGED prefsVars
  BY <1>9 DEF prefsVars, OwnInv, OwnSaves, OwnStored, OwnRead, OwnScreen, OwnStaged, Fits, OwnValues
<1> QED
  BY <1>1, <1>2, <1>3, <1>4, <1>5, <1>6, <1>7, <1>8, <1>9 DEF PrefsNext

\* An account has what its user chose, or what the browser had from earlier
\* versions, as long as nobody signs in over another user and no answer of
\* another user's save is to come (UserPreferencesContext.tsx:111).
THEOREM OwnPreferencesApart == PrefsSpec /\ []SessionsApart => []OwnPreferences
<1> DEFINE I == PInv /\ Shown /\ OwnInv
<1>1. PrefsInit => I
  <2> SUFFICES ASSUME PrefsInit PROVE OwnInv
    BY InitShown
  <2>1. sent = <<>> /\ applied = <<>> /\ token = None /\ prefs = AllDefault /\ me = NotAsked
        /\ stored = [u \in Users |-> AllDefault]
    BY DEF PrefsInit
  <2>2. DOMAIN sent = {} /\ DOMAIN applied = {} /\ me.stage = "off"
    BY <2>1 DEF NotAsked
  <2> QED
    BY <2>1, <2>2, FitsFact DEF OwnInv, OwnSaves, OwnStored, OwnRead, OwnScreen, OwnStaged
<1>2. I /\ SessionsApart /\ SessionsApart' /\ [PrefsNext]_prefsVars => I'
  BY NextShown, NextOwn
<1>3. I => OwnPreferences
  BY DEF OwnInv, OwnStored, OwnPreferences, Fits, OwnValues
<1> QED
  BY <1>1, <1>2, <1>3, PTL DEF PrefsSpec

=============================================================================
