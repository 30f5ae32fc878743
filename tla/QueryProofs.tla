------------------------------ MODULE QueryProofs ------------------------------
(***************************************************************************)
(* Proofs about Query, for any events, queries, page limit and size of a    *)
(* read, whatever is stored and expires between two pages: type             *)
(* correctness, no event twice, the order of the pages, full pages, only    *)
(* matches, nothing skipped, and the refinement of Paging.                  *)
(***************************************************************************)
EXTENDS QueryOrderProofs

-----------------------------------------------------------------------------
(* What a query selects *)

LEMMA ClockTyped ==
  ASSUME NEW n \in Nat
  PROVE  IsTime(Clock(n)) /\ Clock(n).at = n * Milli /\ Clock(n).at \in Nat
<1>1. Milli \in Unit /\ Milli \in Nat \ {0}
  BY UnitAssumption, UnitTyped
<1>2. n * Milli \in Nat
  BY <1>1
<1>3. (n * Milli) % Milli = 0
  <2> DEFINE x == n * Milli
             a == x \div Milli
             b == x % Milli
  <2>1. a \in Nat /\ b \in 0 .. Milli - 1 /\ x = a * Milli + b
    BY <1>1, <1>2, Division
  <2> HIDE DEF a, b
  <2>2. a * Milli \in Nat
    BY <1>1, <2>1
  <2>3. ~(n < a)
    <3>1. n < a => n * Milli + Milli <= a * Milli
      BY <1>1, <2>1, NextMultiple
    <3> QED
      BY <1>1, <1>2, <2>1, <2>2, <3>1
  <2>4. ~(a < n)
    <3>1. a < n => a * Milli + Milli <= n * Milli
      BY <1>1, <2>1, NextMultiple
    <3> QED
      BY <1>1, <1>2, <2>1, <2>2, <3>1
  <2>5. a = n
    BY <2>1, <2>3, <2>4
  <2>6. b = 0
    BY <1>2, <2>1, <2>5
  <2> QED
    BY <2>6 DEF b
<1> QED
  BY <1>1, <1>2, <1>3 DEF Clock, IsTime

LEMMA ClockMoves ==
  ASSUME NEW m \in Nat, NEW n \in Nat, m <= n PROVE Clock(m).at <= Clock(n).at
<1>0. Milli \in Nat \ {0}
  BY UnitAssumption, UnitTyped
<1>1. Milli \in Nat \ {0} /\ m * Milli \in Nat /\ n * Milli \in Nat
  BY <1>0
<1>2. m < n => m * Milli + Milli <= n * Milli
  BY <1>1, NextMultiple
<1> QED
  BY <1>1, <1>2 DEF Clock

LEMMA EndTyped ==
  ASSUME TypeOK, NEW q \in Request
  PROVE  IsTime(To(q)) /\ To(q) \in Ends(q) /\ Text(To(q)) \in Nat
<1>1. now \in FirstNow .. LastNow /\ now \in Nat
  BY QueryAssumption DEF TypeOK
<1>2. IsTime(To(q))
  BY <1>1, TextAssumption, ClockTyped DEF To
<1>3. To(q) \in Ends(q)
  BY <1>1 DEF To, Ends
<1> QED
  BY <1>2, <1>3, TextTyped

\* The end of the range of a query without `to` only moves on.
LEMMA EndMoves ==
  ASSUME TypeOK, TypeOK', now <= now', NEW q \in Request
  PROVE  /\ Text(To(q)) <= Text(To(q))' /\ Text(To(q))' \in Nat
         /\ To(q).at <= To(q)'.at /\ To(q)'.at \in Nat
<1> DEFINE t == Clock(now)
           u == Clock(now')
<1>1. now \in Nat /\ now' \in Nat
  BY QueryAssumption DEF TypeOK
<1>2. CASE q.to = None
  <2>1. IsTime(t) /\ IsTime(u) /\ Alike(t, u)
    BY <1>1, ClockTyped DEF Clock, Alike
  <2>2. t.at <= u.at /\ t.at \in Nat /\ u.at \in Nat
    BY <1>1, ClockMoves, ClockTyped
  <2>3. Text(t) <= Text(u) /\ Text(u) \in Nat
    BY <2>1, <2>2, TextOrder, TextTyped
  <2>4. To(q) = t /\ To(q)' = u
    BY <1>2 DEF To, Clock
  <2>5. Text(To(q))' = Text(u)
    BY <2>4 DEF Text
  <2> QED
    BY <2>2, <2>3, <2>4, <2>5
<1>3. CASE q.to # None
  <2>1. To(q) = q.to /\ To(q)' = q.to
    BY <1>3 DEF To
  <2>2. Text(To(q))' = Text(To(q))
    BY <2>1 DEF Text
  <2>3. Text(To(q)) \in Nat /\ To(q).at \in Nat
    BY EndTyped DEF IsTime
  <2> QED
    BY <2>1, <2>2, <2>3
<1> QED
  BY <1>2, <1>3

LEMMA KeyStays ==
  ASSUME TypeOK, TypeOK', now <= now', adapter' = adapter,
         NEW q \in Request, NEW e \in Event, KeyCondition(q, e)
  PROVE  KeyCondition(q, e)'
<1>1. /\ Text(To(q)) <= Text(To(q))'
      /\ Text(To(q)) \in Nat /\ Text(To(q))' \in Nat
  BY EndMoves, EndTyped
<1>2. Text(e.occurredAt) < Text(To(q))
  BY DEF KeyCondition, InTextRange
<1>3. Text(e.occurredAt) < Text(To(q))'
  BY <1>1, <1>2, EventTyped
<1>4. InTextRange(q, e)'
  BY <1>3 DEF KeyCondition, InTextRange
<1> QED
  BY <1>4 DEF KeyCondition, DynamoKey, Conditions, UserKey, SessionKey, JoinedKey

LEMMA MatchStays ==
  ASSUME TypeOK, TypeOK', now <= now', NEW q \in Request, NEW e \in Event, Matches(q, e)
  PROVE  Matches(q, e)'
<1>1. To(q).at <= To(q)'.at /\ To(q).at \in Nat /\ To(q)'.at \in Nat
  BY EndMoves, EndTyped DEF IsTime
<1>2. e.occurredAt.at \in Nat /\ e.occurredAt.at < To(q).at
  BY EventTyped DEF IsTime, Matches
<1>3. e.occurredAt.at < To(q)'.at
  BY <1>1, <1>2
<1> QED
  BY <1>3 DEF Matches

\* Of two joined keys whose first parts are the same application, or cannot be, the
\* equality is that of both parts.
LEMMA JoinedKeys ==
  ASSUME NEW a, NEW b, NEW s \in Seq(Part), NEW t \in Seq(Part), IsId(a), IsId(b),
         Head(a) = Head(b) => a = b
  PROVE  JoinedKey(a, s) = JoinedKey(b, t) <=> a = b /\ s = t
<1>1. a \in Seq(Part) /\ b \in Seq(Part) /\ Len(a) > 0 /\ Len(b) > 0
  BY DEF IsId
<1>2. ASSUME JoinedKey(a, s) = JoinedKey(b, t) PROVE a = b /\ s = t
  <2>1. (a \o s)[1] = a[1] /\ (b \o t)[1] = b[1]
    BY <1>1
  <2>2. a = b
    BY <1>1, <1>2, <2>1 DEF JoinedKey
  <2>3. Len(a \o s) = Len(a) + Len(s) /\ Len(a \o t) = Len(a) + Len(t)
    BY <1>1
  <2>4. Len(s) = Len(t)
    BY <1>1, <1>2, <2>2, <2>3 DEF JoinedKey
  <2>5. ASSUME NEW i \in 1 .. Len(s) PROVE s[i] = t[i]
    <3>1. (a \o s)[Len(a) + i] = s[i] /\ (a \o t)[Len(a) + i] = t[i]
      BY <1>1, <2>4
    <3> QED
      BY <1>2, <2>2, <3>1 DEF JoinedKey
  <2> QED
    BY <2>2, <2>4, <2>5
<1> QED
  BY <1>2 DEF JoinedKey

LEMMA AlikeSymmetric ==
  ASSUME NEW t, NEW u, IsTime(t), IsTime(u), Alike(t, u) PROVE Alike(u, t)
<1>1. t.unit \in Nat /\ u.unit \in Nat
  BY UnitTyped DEF IsTime
<1>2. (IF t.unit < u.unit THEN u.unit ELSE t.unit) = (IF u.unit < t.unit THEN t.unit ELSE u.unit)
  BY <1>1
<1> QED
  BY <1>2 DEF Alike

\* A plain query selects what matches it: the text of the times, the words that
\* stand for no user and no session, the choice of an index and the joining of its
\* keys make no difference.
LEMMA PlainSelects ==
  ASSUME TypeOK, NEW q \in Request, Plain(q), NEW e \in Event
  PROVE  KeyCondition(q, e) /\ FilterExpression(q, e) <=> Matches(q, e)
<1>1. InTextRange(q, e)
        <=> q.from.at <= e.occurredAt.at /\ e.occurredAt.at < To(q).at
  <2>1. IsTime(q.from) /\ IsTime(e.occurredAt) /\ IsTime(To(q))
    BY TextAssumption, EndTyped
  <2>2. Alike(q.from, e.occurredAt) /\ Alike(e.occurredAt, To(q))
    <3>1. Alike(q.from, e.occurredAt) /\ Alike(To(q), e.occurredAt)
      BY EndTyped DEF Plain
    <3> QED
      BY <2>1, <3>1, AlikeSymmetric
  <2>3. Text(q.from) <= Text(e.occurredAt) <=> q.from.at <= e.occurredAt.at
    BY <2>1, <2>2, TextOrder
  <2>4. Text(e.occurredAt) < Text(To(q)) <=> e.occurredAt.at < To(q).at
    BY <2>1, <2>2, TextOrder
  <2> QED
    BY <2>3, <2>4 DEF InTextRange
<1>2. IsId(e.appId) /\ IsId(q.appId) /\ {e.userId, e.sessionId} \subseteq {None} \cup Seq(Part)
      /\ {q.userId, q.sessionId} \subseteq {None} \cup Seq(Part)
  BY TextAssumption
<1>3. ASSUME adapter = "dynamo" PROVE DynamoKey(q, e) <=> Conditions(q, e)
  <2>1. /\ q.userId = None \/ q.sessionId = None
        /\ q.userId # <<"anonymous">> /\ q.sessionId # <<"no-session">>
        /\ q.userId # None \/ q.sessionId # None =>
             (Head(e.appId) = Head(q.appId) => e.appId = q.appId)
    BY <1>3 DEF Plain
  <2>2. <<"anonymous">> \in Seq(Part) /\ <<"no-session">> \in Seq(Part)
    <3>1. "anonymous" \in Part /\ "no-session" \in Part
      BY TextAssumption
    <3> QED
      BY <3>1
  <2>3. CASE q.userId # None
    <3> DEFINE user == IF e.userId = None THEN <<"anonymous">> ELSE e.userId
    <3>1. user \in Seq(Part) /\ q.userId \in Seq(Part)
      BY <1>2, <2>2, <2>3
    <3>2. Head(e.appId) = Head(q.appId) => e.appId = q.appId
      BY <2>1, <2>3
    <3>3. user = q.userId <=> e.userId = q.userId
      BY <2>1, <2>3
    <3>4. UserKey(e) = JoinedKey(e.appId, user)
      BY DEF UserKey
    <3> HIDE DEF user
    <3>5. UserKey(e) = JoinedKey(q.appId, q.userId) <=> e.appId = q.appId /\ user = q.userId
      BY <1>2, <3>1, <3>2, <3>4, JoinedKeys
    <3> QED
      BY <2>1, <2>3, <3>3, <3>5 DEF DynamoKey, Conditions, Asked
  <2>4. CASE q.userId = None /\ q.sessionId # None
    <3> DEFINE session == IF e.sessionId = None THEN <<"no-session">> ELSE e.sessionId
    <3>1. session \in Seq(Part) /\ q.sessionId \in Seq(Part)
      BY <1>2, <2>2, <2>4
    <3>2. Head(e.appId) = Head(q.appId) => e.appId = q.appId
      BY <2>1, <2>4
    <3>3. session = q.sessionId <=> e.sessionId = q.sessionId
      BY <2>1, <2>4
    <3>4. SessionKey(e) = JoinedKey(e.appId, session)
      BY DEF SessionKey
    <3> HIDE DEF session
    <3>5. SessionKey(e) = JoinedKey(q.appId, q.sessionId)
            <=> e.appId = q.appId /\ session = q.sessionId
      BY <1>2, <3>1, <3>2, <3>4, JoinedKeys
    <3> QED
      BY <2>4, <3>3, <3>5 DEF DynamoKey, Conditions, Asked
  <2>5. CASE q.userId = None /\ q.sessionId = None
    BY <2>5 DEF DynamoKey, Conditions, Asked
  <2> QED
    BY <2>3, <2>4, <2>5
<1> QED
  BY <1>1, <1>3 DEF KeyCondition, Conditions, FilterExpression, Matches

-----------------------------------------------------------------------------
(* The invariant of a client that pages *)

\* What has been returned is stored and was selected, and the cursor is behind it.
ReturnedInv ==
  /\ \A e \in Returned :
       e \in Stored /\ KeyCondition(request, e) /\ FilterExpression(request, e)
  /\ cursor # None =>
       /\ cursor \in Stored
       /\ adapter = "memory" => cursor \in Returned
       /\ \A e \in Returned : e = cursor \/ Before(request, e, cursor)

\* The rows of a page are before those of the next ones.
PagesApart ==
  \A i, j \in DOMAIN pages : i < j =>
    \A e \in pages[i], f \in pages[j] : Before(request, e, f)

\* What has matched all the time is there, and where the cursor is exact it has
\* been returned or is behind the cursor.
SteadyInv ==
  /\ \A e \in steady : e \in Rows /\ Matches(request, e)
  /\ Walking /\ ~refused =>
       \A e \in steady : e \in Returned \/ (cursor # None /\ Before(request, cursor, e))

\* No client has asked yet, and a client that was refused has no cursor.
StartInv ==
  /\ request = None => cursor = None /\ pages = <<>> /\ steady = {} /\ ~refused
  /\ refused => cursor = None
  /\ adapter = "memory" => expired = {}

ClientInv == StartInv /\ ReturnedInv /\ PagesApart /\ PagesAreFull /\ SteadyInv

QueryInv == TypeOK /\ Ranked /\ ClientInv

LEMMA InitialQuery == Init => QueryInv
<1> SUFFICES ASSUME Init PROVE QueryInv
  OBVIOUS
<1>1. Cardinality(Event) \in Nat /\ IsFiniteSet(Event)
  BY RowsFinite, QueryAssumption
<1>2. TypeOK
  <2>1. rank \in [Event -> 0 .. Cardinality(Event)]
    BY <1>1 DEF Init
  <2>2. now \in FirstNow .. LastNow
    BY QueryAssumption DEF Init
  <2>3. <<>> \in Seq(SUBSET Event)
    OBVIOUS
  <2>4. request = None /\ cursor = None /\ pages = <<>> /\ refused \in BOOLEAN
    BY DEF Init
  <2>5. adapter \in Adapter /\ expired \subseteq Event /\ steady \subseteq Event
    BY DEF Init
  <2> QED
    BY <2>1, <2>2, <2>3, <2>4, <2>5 DEF TypeOK
<1>3. Ranked
  <2>1. Stored = {} /\ Cardinality({}) = 0
    BY FS_EmptySet DEF Init, Stored
  <2> QED
    BY <2>1 DEF Init, Ranked
<1>4. Returned = {} /\ DOMAIN pages = {}
  BY DEF Init, Returned
<1> QED
  BY <1>2, <1>3, <1>4
  DEF Init, QueryInv, ClientInv, StartInv, ReturnedInv, PagesApart, PagesAreFull, SteadyInv

-----------------------------------------------------------------------------
(* The steps of the database and the clock *)

\* Rows keep their place, and the clock moves on.
Grows ==
  /\ TypeOK' /\ Ranked'
  /\ UNCHANGED <<adapter, request, cursor, pages, refused>>
  /\ now <= now'
  /\ \A e \in Stored : e \in Stored' /\ rank'[e] = rank[e]
  /\ steady' \subseteq steady
  /\ \A e \in steady' : e \notin expired' \ expired
  /\ \A e \in steady \ steady' : e \in expired'
  /\ adapter = "memory" => expired' = expired

LEMMA OrderStays ==
  ASSUME Grows, NEW q, NEW e \in Stored, NEW f \in Stored
  PROVE  Before(q, e, f)' <=> Before(q, e, f)
  BY DEF Grows, Before, TieBefore, Text

LEMMA GrowthKeeps == ASSUME QueryInv, Grows PROVE QueryInv'
<1> USE DEF QueryInv, ClientInv
<1>1. Returned' = Returned /\ request' = request /\ cursor' = cursor
  BY DEF Grows, Returned
<1>2. StartInv'
  BY DEF Grows, StartInv
<1>3. CASE request = None
  <2>1. pages' = <<>> /\ cursor' = None /\ steady' = {} /\ ~refused' /\ Returned' = {}
    BY <1>1, <1>3 DEF StartInv, Grows, Returned
  <2>2. DOMAIN pages' = {}
    BY <2>1
  <2> QED
    BY <1>2, <2>1, <2>2
    DEF Grows, ReturnedInv, PagesApart, PagesAreFull, SteadyInv
<1>4. CASE request # None
  <2>1. PICK q \in Request : q = request /\ q = request'
    BY <1>1, <1>4 DEF TypeOK
  <2>2. Returned \subseteq Stored /\ Returned \subseteq Event
    BY DEF ReturnedInv, Stored
  <2>3. \A e, f \in Stored : Before(q, e, f) => Before(request, e, f)'
    BY <2>1, OrderStays
  <2>4. ReturnedInv'
    <3>1. ASSUME NEW e \in Returned
          PROVE  KeyCondition(request, e)' /\ FilterExpression(request, e)'
      <4>1. KeyCondition(q, e) /\ FilterExpression(q, e)
        BY <2>1, <3>1 DEF ReturnedInv
      <4>2. KeyCondition(q, e)'
        BY <2>2, <4>1, KeyStays DEF Grows
      <4> QED
        BY <2>1, <4>1, <4>2 DEF FilterExpression
    <3>2. ASSUME cursor # None
          PROVE  /\ cursor \in Stored' /\ (adapter' = "memory" => cursor \in Returned)
                 /\ \A e \in Returned : e = cursor \/ Before(request, e, cursor)'
      BY <2>1, <2>2, <2>3, <3>2 DEF ReturnedInv, Grows
    <3>3. \A e \in Returned : e \in Stored'
      BY <2>2 DEF Grows
    <3> QED
      BY <1>1, <3>1, <3>2, <3>3 DEF ReturnedInv
  <2>5. PagesApart'
    <3>1. pages' = pages /\ \A i \in DOMAIN pages : pages[i] \subseteq Stored
      BY <2>2 DEF Grows, Returned
    <3> QED
      BY <2>1, <2>3, <3>1 DEF PagesApart
  <2>6. PagesAreFull'
    BY DEF Grows, PagesAreFull
  <2>7. SteadyInv'
    <3>1. ASSUME NEW e \in steady' PROVE e \in Rows' /\ Matches(request, e)'
      <4>1. e \in Rows /\ Matches(q, e) /\ e \in Event
        BY <2>1, <3>1 DEF Grows, SteadyInv, Rows
      <4>2. Matches(q, e)'
        BY <4>1, MatchStays DEF Grows
      <4>3. e \in Rows'
        BY <3>1, <4>1 DEF Grows, Rows, Stored
      <4> QED
        BY <2>1, <4>2, <4>3
    <3>2. ASSUME Walking', ~refused', NEW e \in steady'
          PROVE  e \in Returned' \/ (cursor' # None /\ Before(request, cursor, e)')
      <4>1. Walking /\ ~refused
        BY <3>2 DEF Grows, Walking, ExactCursor, Plain
      <4>2. e \in steady /\ e \in Stored
        BY <3>2 DEF Grows, SteadyInv, Rows, Stored
      <4>3. e \in Returned \/ (cursor # None /\ Before(q, cursor, e))
        BY <2>1, <4>1, <4>2 DEF SteadyInv
      <4>4. cursor # None => cursor \in Stored
        BY DEF ReturnedInv
      <4> QED
        BY <1>1, <2>1, <2>3, <4>2, <4>3, <4>4
    <3> QED
      BY <3>1, <3>2 DEF SteadyInv
  <2> QED
    BY <1>2, <2>4, <2>5, <2>6, <2>7 DEF Grows
<1> QED
  BY <1>3, <1>4

LEMMA StoreGrows == ASSUME QueryInv, NEW e \in Event, storeEvent(e) PROVE Grows
<1> USE DEF QueryInv, TypeOK
<1>1. Cardinality(Stored) \in Nat /\ Cardinality(Stored) < Cardinality(Event)
  <2>1. Stored \in SUBSET Event /\ Event \in SUBSET Event /\ Stored # Event
    BY DEF Stored, storeEvent
  <2> QED
    BY <2>1, RowsFinite, SmallerSet
<1>2. rank' = [rank EXCEPT ![e] = 1 + Cardinality(Stored)]
  BY DEF storeEvent, Stored
<1>3. Cardinality(Event) \in Nat
  BY RowsFinite
<1>4. TypeOK'
  <2>1. rank' \in [Event -> 0 .. Cardinality(Event)]
    BY <1>1, <1>2, <1>3
  <2> QED
    BY <2>1 DEF storeEvent, clientVars
<1>5. Stored' = Stored \cup {e} /\ e \notin Stored
  <2>1. \A f \in Event : rank'[f] = IF f = e THEN 1 + Cardinality(Stored) ELSE rank[f]
    BY <1>2
  <2>2. 1 + Cardinality(Stored) # 0 /\ rank[e] = 0
    BY <1>1 DEF storeEvent
  <2>3. \A f \in Event : rank'[f] # 0 <=> f = e \/ rank[f] # 0
    BY <2>1, <2>2
  <2> QED
    BY <2>2, <2>3 DEF Stored
<1>6. Ranked'
  <2>1. Cardinality(Stored') = Cardinality(Stored) + 1
    <3>1. IsFiniteSet(Stored)
      BY RowsFinite DEF Stored
    <3> QED
      BY <1>5, <3>1, FS_AddElement
  <2>2. \A f \in Event : rank'[f] = IF f = e THEN 1 + Cardinality(Stored) ELSE rank[f]
    BY <1>2
  <2>3. \A f \in Event : rank[f] \in Nat /\ rank[f] <= Cardinality(Stored)
    BY DEF Ranked
  <2>4. \A f \in Event : rank'[f] <= Cardinality(Stored')
    BY <1>1, <2>1, <2>2, <2>3
  <2>5. ASSUME NEW f \in Stored', NEW g \in Stored', rank'[f] = rank'[g] PROVE f = g
    <3>1. f \in Event /\ g \in Event
      BY <2>5 DEF Stored
    <3> QED
      BY <1>1, <1>5, <2>2, <2>3, <2>5, <3>1 DEF Ranked
  <2> QED
    BY <2>4, <2>5 DEF Ranked
<1> QED
  BY <1>2, <1>4, <1>5, <1>6, QueryAssumption DEF Grows, storeEvent, clientVars, Stored

LEMMA ExpiryGrows == ASSUME QueryInv, NEW e \in Event, expire(e) PROVE Grows
<1>1. TypeOK' /\ Ranked'
  BY DEF QueryInv, TypeOK, Ranked, Stored, expire
<1> QED
  BY <1>1, QueryAssumption DEF Grows, expire, QueryInv, TypeOK, Stored

LEMMA TickGrows == ASSUME QueryInv, tick PROVE Grows
<1>1. now' = now + 1 /\ now \in Nat /\ now' \in FirstNow .. LastNow
  BY QueryAssumption DEF tick, QueryInv, TypeOK
<1>2. TypeOK' /\ Ranked'
  BY <1>1 DEF QueryInv, TypeOK, Ranked, Stored, tick, clientVars
<1> QED
  BY <1>1, <1>2 DEF Grows, tick, clientVars, Stored

LEMMA StutterGrows == ASSUME QueryInv, UNCHANGED vars PROVE Grows
<1>1. now \in Nat
  BY QueryAssumption DEF QueryInv, TypeOK
<1>2. TypeOK' /\ Ranked'
  BY DEF QueryInv, TypeOK, Ranked, Stored, vars
<1> QED
  BY <1>1, <1>2 DEF Grows, vars, Stored

-----------------------------------------------------------------------------
(* The requests of the client *)

\* A request for q with the cursor c was answered by r.
Answered(q, c, r) ==
  /\ UNCHANGED <<adapter, now, rank, expired, refused>>
  /\ request' = q /\ pages' = Append(pages, r.items) /\ cursor' = r.next

LEMMA AnswerFrame ==
  ASSUME NEW q, NEW c, NEW r, Answered(q, c, r)
  PROVE  /\ Rows' = Rows /\ Stored' = Stored
         /\ \A e : KeyCondition(q, e)' <=> KeyCondition(q, e)
         /\ \A e : Matches(q, e)' <=> Matches(q, e)
         /\ \A e, f : Before(q, e, f)' <=> Before(q, e, f)
         /\ Plain(q)' <=> Plain(q)
<1> USE DEF Answered
<1>1. Rows' = Rows /\ Stored' = Stored
  BY DEF Rows, Stored
<1>2. \A e : Matches(q, e)' <=> Matches(q, e)
  BY DEF Matches, To
<1>3. \A e, f : Before(q, e, f)' <=> Before(q, e, f)
  BY DEF Before, TieBefore, Text
<1>4. \A e : KeyCondition(q, e)' <=> KeyCondition(q, e)
  <2>1. \A e : InTextRange(q, e)' <=> InTextRange(q, e)
    BY DEF InTextRange, To, Text
  <2> QED
    BY <2>1 DEF KeyCondition, DynamoKey, Conditions, UserKey, SessionKey, JoinedKey
<1>5. Plain(q)' <=> Plain(q)
  BY DEF Plain
<1> QED
  BY <1>1, <1>2, <1>3, <1>4, <1>5

LEMMA AppendedPages ==
  ASSUME TypeOK, NEW q, NEW c, NEW r, Answered(q, c, r), r.items \subseteq Event
  PROVE  /\ pages' \in Seq(SUBSET Event) /\ Len(pages') = Len(pages) + 1
         /\ Len(pages) \in Nat
         /\ DOMAIN pages = 1 .. Len(pages) /\ DOMAIN pages' = 1 .. Len(pages) + 1
         /\ \A i \in 1 .. Len(pages) : pages'[i] = pages[i]
         /\ pages'[Len(pages) + 1] = r.items
         /\ Returned' = Returned \cup r.items
<1>1. pages \in Seq(SUBSET Event) /\ pages' = Append(pages, r.items)
  BY DEF TypeOK, Answered
<1>2. /\ pages' \in Seq(SUBSET Event) /\ Len(pages') = Len(pages) + 1
      /\ Len(pages) \in Nat
      /\ DOMAIN pages = 1 .. Len(pages) /\ DOMAIN pages' = 1 .. Len(pages) + 1
      /\ \A i \in 1 .. Len(pages) : pages'[i] = pages[i]
      /\ pages'[Len(pages) + 1] = r.items
  BY <1>1
<1>3. \A i \in DOMAIN pages' : i \in DOMAIN pages \/ i = Len(pages) + 1
  BY <1>2
<1>4. Returned' = Returned \cup r.items
  BY <1>2, <1>3 DEF Returned
<1> QED
  BY <1>2, <1>4

\* What was on a page is before what is behind the cursor.
LEMMA ReturnedIsBefore ==
  ASSUME QueryInv, NEW q, NEW c, c = cursor, request = None \/ (request = q /\ c # None),
         NEW f \in Returned
  PROVE  /\ f \in Stored /\ KeyCondition(q, f) /\ FilterExpression(q, f)
         /\ \A e \in Rest(q, c) : Before(q, f, e)
<1> USE DEF QueryInv, ClientInv
<1>1. request = q /\ c # None
  BY DEF StartInv, Returned
<1>2. /\ f \in Stored /\ KeyCondition(q, f) /\ FilterExpression(q, f)
      /\ c \in Stored /\ (f = c \/ Before(q, f, c))
  BY <1>1 DEF ReturnedInv
<1>3. /\ \A e \in Rest(q, c) : Before(q, c, e)
      /\ Rest(q, c) \subseteq Stored /\ Stored \subseteq Event
  BY <1>1, SelectedStored DEF Rest, After, Stored
<1> QED
  BY <1>2, <1>3, BeforeTransitive

LEMMA PageKeeps ==
  ASSUME QueryInv, NEW q \in Request, NEW c, c = cursor, NEW r, Answered(q, c, r),
         request = None \/ (request = q /\ c # None),
         ~refused, PageFits(q, c, r),
         steady' \subseteq {e \in Rows : Matches(q, e)},
         ExactCursor' /\ Plain(q) =>
           /\ PageCuts(q, Rest(q, c), r)
           /\ \A e \in steady' : e \in Returned \/ e \in Rest(q, c)
  PROVE  QueryInv'
<1> USE DEF QueryInv, ClientInv
<1>1. Rest(q, c) \in SUBSET Stored /\ Stored \subseteq Event /\ r.items \subseteq Rest(q, c)
  BY SelectedStored DEF Stored, PageFits
<1>2. /\ request' = q /\ q # None /\ cursor' = r.next
      /\ adapter' = adapter /\ refused' = refused
  BY QueryAssumption DEF Answered
<1>3. TypeOK' /\ Ranked'
  <2>1. cursor' \in Event \cup {None}
    BY <1>1, <1>2 DEF PageFits
  <2>2. pages' \in Seq(SUBSET Event)
    BY <1>1, AppendedPages
  <2>3. steady' \subseteq Event
    BY DEF Rows
  <2>4. TypeOK'
    BY <2>1, <2>2, <2>3 DEF TypeOK, Answered
  <2> QED
    BY <2>4 DEF Ranked, Stored, Answered
<1>4. Returned' = Returned \cup r.items
  BY <1>1, AppendedPages
<1>6. \A f \in Returned :
        /\ f \in Stored /\ KeyCondition(q, f) /\ FilterExpression(q, f)
        /\ \A e \in Rest(q, c) : Before(q, f, e)
  BY ReturnedIsBefore
<1>7. ReturnedInv'
  <2>1. \A e \in Returned' :
          e \in Stored' /\ KeyCondition(q, e)' /\ FilterExpression(q, e)
    BY <1>1, <1>4, <1>6, AnswerFrame DEF Rest, After, Selected
  <2>2. ASSUME r.next # None
        PROVE  /\ r.next \in Stored' /\ (adapter = "memory" => r.next \in Returned')
               /\ \A e \in Returned' : e = r.next \/ Before(q, e, r.next)'
    <3>1. r.next \in Rest(q, c) /\ (adapter = "memory" => r.next \in r.items)
      BY <2>2 DEF PageFits
    <3>2. \A e \in r.items : e = r.next \/ Before(q, e, r.next)
      BY <2>2 DEF PageFits
    <3>3. \A e \in Returned : Before(q, e, r.next)
      BY <1>6, <3>1
    <3> QED
      BY <1>1, <1>4, <3>1, <3>2, <3>3, AnswerFrame
  <2> QED
    BY <1>2, <2>1, <2>2 DEF ReturnedInv, FilterExpression
<1>8. PagesApart'
  <2>1. ASSUME NEW i \in DOMAIN pages', NEW j \in DOMAIN pages', i < j,
               NEW e \in pages'[i], NEW f \in pages'[j]
        PROVE  Before(q, e, f)
    <3>1. i \in DOMAIN pages /\ e \in pages[i] /\ e \in Returned
      BY <1>1, <2>1, AppendedPages DEF Returned
    <3>2. CASE j \in DOMAIN pages
      <4>1. request = q
        BY <3>1 DEF StartInv
      <4> QED
        BY <1>1, <2>1, <3>1, <3>2, <4>1, AppendedPages DEF PagesApart
    <3>3. CASE j \notin DOMAIN pages
      <4>1. j = Len(pages) + 1 /\ f \in Rest(q, c)
        BY <1>1, <2>1, <3>3, AppendedPages
      <4> QED
        BY <1>6, <3>1, <4>1
    <3> QED
      BY <3>2, <3>3
  <2> QED
    BY <1>2, <2>1, AnswerFrame DEF PagesApart
<1>9. PagesAreFull'
  <2>1. ASSUME NEW i \in 1 .. Len(pages)
        PROVE  Cardinality(pages'[i]) = Limit /\ Limit <= Limit
    <3>1. request = q /\ c # None
      BY <2>1 DEF StartInv
    <3>2. Cardinality(pages[i]) = Limit
      BY <1>1, <2>1, <3>1, AppendedPages DEF PagesAreFull
    <3> QED
      BY <1>1, <2>1, <3>2, AppendedPages, QueryAssumption
  <2>2. /\ Cardinality(r.items) <= Limit
        /\ r.next # None => Cardinality(r.items) = Limit
    BY DEF PageFits
  <2> QED
    BY <1>1, <1>2, <2>1, <2>2, AppendedPages DEF PagesAreFull
<1>10. SteadyInv'
  <2>1. \A e \in steady' : e \in Rows' /\ Matches(q, e)'
    BY AnswerFrame
  <2>2. ASSUME Walking', NEW e \in steady'
        PROVE  e \in Returned' \/ (r.next # None /\ Before(q, r.next, e)')
    <3>1. /\ PageCuts(q, Rest(q, c), r)
          /\ e \in Returned \/ e \in Rest(q, c)
      BY <1>2, <2>2, AnswerFrame DEF Walking
    <3>2. CASE e \in Rest(q, c) \ r.items
      <4>1. r.next \in r.items /\ Before(q, r.next, e)
        BY <3>1, <3>2 DEF PageCuts
      <4>2. r.next # None
        BY <1>1, <4>1, QueryAssumption
      <4> QED
        BY <4>1, <4>2, AnswerFrame
    <3> QED
      BY <1>4, <3>1, <3>2
  <2> QED
    BY <1>2, <2>1, <2>2 DEF SteadyInv
<1>11. StartInv'
  BY <1>2 DEF StartInv, Answered
<1> QED
  BY <1>3, <1>7, <1>8, <1>9, <1>10, <1>11

\* In memory the event of a cursor stays among the results.
LEMMA CursorSelected ==
  ASSUME QueryInv, NEW q, request = q, adapter = "memory", cursor # None
  PROVE  cursor \in Selected(q)
<1>1. cursor \in Returned /\ cursor \in Stored /\ expired = {}
  BY DEF QueryInv, ClientInv, ReturnedInv, StartInv
<1> QED
  BY <1>1 DEF QueryInv, ClientInv, ReturnedInv, Selected, Rows, Stored

LEMMA SelectedIfPlain ==
  ASSUME TypeOK, NEW q \in Request, Plain(q)
  PROVE  Selected(q) = {e \in Rows : Matches(q, e)}
  BY PlainSelects DEF Selected, Rows

\* What a request is answered fits, and cuts what is left where the cursor is exact.
LEMMA Answers ==
  ASSUME QueryInv, NEW q, cursor # None => request = q
  PROVE  /\ PageFits(q, cursor, queryEvents(q, cursor))
         /\ ExactRead(q) => PageCuts(q, Rest(q, cursor), queryEvents(q, cursor))
<1>1. adapter = "memory" => cursor \in Selected(q) \cup {None}
  BY CursorSelected
<1> QED
  BY <1>1, PagesFit, ExactPage DEF QueryInv

LEMMA FirstPageKeeps ==
  ASSUME QueryInv, NEW q \in Request, firstPage(q) PROVE QueryInv'
<1>1. /\ request = None /\ cursor = None /\ pages = <<>> /\ ~refused
      /\ adapter' = adapter
  BY DEF QueryInv, ClientInv, StartInv, firstPage
<1>2. PICK c, r : c = cursor /\ r = queryEvents(q, c)
  OBVIOUS
<1>3. Answered(q, c, r)
  <2>1. Append(pages, r.items) = <<r.items>>
    BY <1>1
  <2> QED
    BY <1>1, <1>2, <2>1 DEF firstPage, Answered
<1>4. steady' = {e \in Rows : Matches(q, e)}
  BY DEF firstPage
<1>5. ExactCursor' => ExactRead(q)
  BY <1>1, <1>3 DEF Answered, ExactCursor, ExactRead
<1>6. PageFits(q, c, r) /\ (ExactRead(q) => PageCuts(q, Rest(q, c), r))
  BY <1>1, <1>2, Answers
<1>7. Plain(q) => \A e \in steady' : e \in Rest(q, c)
  BY <1>1, <1>2, <1>4, SelectedIfPlain DEF QueryInv, Rest, After
<1> QED
  BY <1>1, <1>2, <1>3, <1>4, <1>5, <1>6, <1>7, PageKeeps

LEMMA NextPageKeeps == ASSUME QueryInv, nextPage PROVE QueryInv'
<1>1. PICK q \in Request : q = request
  BY DEF QueryInv, TypeOK, nextPage
<1>2. PICK c, r : c = cursor /\ r = queryEvents(q, c)
  OBVIOUS
<1>3. c # None /\ ~refused
  BY <1>2 DEF nextPage, QueryInv, ClientInv, StartInv
<1>4. Answered(q, c, r)
  BY <1>1, <1>2 DEF nextPage, Answered
<1>5. steady' = steady /\ steady \subseteq {e \in Rows : Matches(q, e)}
  BY <1>1 DEF nextPage, QueryInv, ClientInv, SteadyInv
<1>6. ExactCursor' => ExactRead(q) /\ ExactCursor
  BY <1>1, <1>4 DEF Answered, ExactCursor, ExactRead
<1>7. PageFits(q, c, r) /\ (ExactRead(q) => PageCuts(q, Rest(q, c), r))
  BY <1>1, <1>2, Answers
<1>8. ASSUME ExactCursor, Plain(q), NEW e \in steady
      PROVE  e \in Returned \/ e \in Rest(q, c)
  <2>1. e \in Returned \/ Before(q, c, e)
    BY <1>1, <1>2, <1>3, <1>8, QueryAssumption DEF Walking, QueryInv, ClientInv, SteadyInv
  <2>2. e \in Selected(q)
    BY <1>5, <1>8, SelectedIfPlain DEF QueryInv
  <2> QED
    BY <2>1, <2>2 DEF Rest, After
<1> QED
  BY <1>1, <1>2, <1>3, <1>4, <1>5, <1>6, <1>7, <1>8, PageKeeps

LEMMA RefusalKeeps == ASSUME QueryInv, pageRefused PROVE QueryInv'
<1> USE DEF QueryInv, ClientInv, pageRefused
<1>1. /\ request' = request /\ pages' = pages /\ steady' = steady /\ rank' = rank
      /\ adapter' = adapter /\ now' = now /\ expired' = expired
      /\ cursor' = None /\ refused' = TRUE /\ request # None
  OBVIOUS
<1>2. TypeOK' /\ Ranked'
  BY <1>1 DEF TypeOK, Ranked, Stored
<1>3. Returned' = Returned /\ Stored' = Stored /\ Rows' = Rows
  BY <1>1 DEF Returned, Stored, Rows
<1>4. ReturnedInv'
  BY <1>1, <1>3
  DEF ReturnedInv, KeyCondition, DynamoKey, Conditions, FilterExpression, UserKey, SessionKey,
      JoinedKey, InTextRange, To, Clock, Text
<1>5. PagesApart'
  BY <1>1 DEF PagesApart, Before, TieBefore, Text
<1>6. PagesAreFull' /\ StartInv'
  BY <1>1 DEF PagesAreFull, StartInv
<1>7. SteadyInv'
  BY <1>1, <1>3 DEF SteadyInv, Matches, To
<1> QED
  BY <1>2, <1>4, <1>5, <1>6, <1>7

\* Which steps serve the client, and which leave it alone.
LEMMA QueryStep ==
  ASSUME QueryInv, [Next]_vars
  PROVE  Grows \/ (\E q \in Request : firstPage(q)) \/ nextPage \/ pageRefused
  BY StoreGrows, ExpiryGrows, TickGrows, StutterGrows DEF Next

THEOREM QueryInvariant == Spec => []QueryInv
<1>1. QueryInv /\ [Next]_vars => QueryInv'
  BY QueryStep, GrowthKeeps, FirstPageKeeps, NextPageKeeps, RefusalKeeps
<1> QED
  BY <1>1, InitialQuery, PTL DEF Spec

-----------------------------------------------------------------------------
(* The properties *)

\* Every variable keeps its type while a client pages.
THEOREM QueryTypes == Spec => []TypeOK
  BY QueryInvariant, PTL DEF QueryInv

\* No event comes twice: the pages lie one behind the other in a strict order.
THEOREM EventsComeOnce == Spec => []NoEventTwice
<1>1. QueryInv => NoEventTwice
  <2> SUFFICES ASSUME QueryInv, NEW i \in DOMAIN pages, NEW j \in DOMAIN pages, i # j,
                      NEW e \in pages[i], e \in pages[j]
               PROVE  FALSE
    BY DEF NoEventTwice
  <2>1. pages \in Seq(SUBSET Event) /\ TypeOK
    BY DEF QueryInv, TypeOK
  <2>2. e \in Event /\ (i < j \/ j < i)
    BY <2>1
  <2>3. Before(request, e, e)
    BY <2>2 DEF QueryInv, ClientInv, PagesApart
  <2> QED
    BY <2>1, <2>2, <2>3, BeforeIrreflexive
<1> QED
  BY <1>1, QueryInvariant, PTL

\* The pages follow each other in the order of the query.
THEOREM PagesComeInOrder == Spec => []PagesInOrder
<1>1. QueryInv => PagesInOrder
  <2> SUFFICES ASSUME QueryInv, NEW i \in DOMAIN pages, NEW j \in DOMAIN pages, i < j,
                      NEW e \in pages[i], NEW f \in pages[j]
               PROVE  IF request.sort = "asc" THEN Text(e.occurredAt) <= Text(f.occurredAt)
                                              ELSE Text(f.occurredAt) <= Text(e.occurredAt)
    BY DEF PagesInOrder
  <2>1. e \in Event /\ f \in Event
    BY DEF QueryInv, TypeOK
  <2>2. Text(e.occurredAt) \in Int /\ Text(f.occurredAt) \in Int
    BY <2>1, EventTyped
  <2>3. Before(request, e, f)
    BY DEF QueryInv, ClientInv, PagesApart
  <2> QED
    BY <2>2, <2>3 DEF Before
<1> QED
  BY <1>1, QueryInvariant, PTL

\* A page that is followed by another has as many events as were asked for.
THEOREM PagesComeFull == Spec => []PagesAreFull
  BY QueryInvariant, PTL DEF QueryInv, ClientInv

\* A plain query is answered with events that match it.
THEOREM PlainQueriesMatch == Spec => []MatchesIfPlain
<1>1. QueryInv => MatchesIfPlain
  <2> SUFFICES ASSUME QueryInv, request # None, Plain(request), NEW e \in Returned
               PROVE  Matches(request, e)
    BY DEF MatchesIfPlain
  <2>1. e \in Event /\ KeyCondition(request, e) /\ FilterExpression(request, e)
    BY DEF QueryInv, ClientInv, ReturnedInv, Stored
  <2>2. request \in Request
    BY DEF QueryInv, TypeOK
  <2> QED
    BY <2>1, <2>2, PlainSelects DEF QueryInv
<1> QED
  BY <1>1, QueryInvariant, PTL

\* Where the cursor is exact, a client that has come to the end has seen all that
\* was there, and matched, from its first page to its last.
THEOREM NothingIsSkipped == Spec => []NothingSkipped
<1>1. QueryInv => NothingSkipped
  BY DEF QueryInv, ClientInv, SteadyInv, NothingSkipped, Finished, Stopped, Walking
<1> QED
  BY <1>1, QueryInvariant, PTL

-----------------------------------------------------------------------------
(* The refinement of Paging *)

LEMMA WalkBehind ==
  ASSUME Walking, NEW e \in Event, cursor \in Event \cup {None}
  PROVE  Walk!Behind(e) <=> cursor = None \/ Before(request, cursor, e)
  BY QueryAssumption DEF Walk!Behind, Order

\* What is behind the cursor of a plain query is what the walk has before it.
LEMMA WalkRest ==
  ASSUME TypeOK, NEW q \in Request, Plain(q), NEW c \in Event \cup {None}
  PROVE  Rest(q, c) = {e \in Rows : Matches(q, e) /\ (c # None => Before(q, c, e))}
  BY SelectedIfPlain DEF Rest, After

\* A page of a repository is a page of the walk.
LEMMA WalkPage ==
  ASSUME QueryInv, NEW q \in Request, NEW c, c = cursor, NEW r, Answered(q, c, r),
         request = None \/ (request = q /\ c # None),
         ~refused, Walking', PageFits(q, c, r), PageCuts(q, Rest(q, c), r)
  PROVE  Walk!Page(r.items, Rest(q, c))
<1>1. /\ request' = q /\ cursor' = r.next /\ ~refused'
      /\ Rest(q, c) \subseteq Stored /\ Stored \subseteq Event
  BY SelectedStored DEF Answered, Stored
<1>2. (IF Walking THEN Returned ELSE {}) = Returned
  <2>1. CASE request = None
    BY <2>1 DEF QueryInv, ClientInv, StartInv, Returned
  <2>2. CASE request = q /\ c # None
    BY <2>2, AnswerFrame DEF Walking, ExactCursor, Answered
  <2> QED
    BY <2>1, <2>2
<1>3. Returned' = Returned \cup r.items
  BY <1>1, AppendedPages DEF PageFits, QueryInv
<1>4. r.items \subseteq Rest(q, c) \ Returned /\ Cardinality(r.items) <= Limit
  <2>1. ASSUME NEW e \in Rest(q, c), e \in Returned PROVE FALSE
    <3>1. Before(q, e, e) /\ e \in Event
      BY <1>1, <2>1, ReturnedIsBefore
    <3> QED
      BY <3>1, BeforeIrreflexive DEF QueryInv
  <2> QED
    BY <2>1 DEF PageFits
<1>5. \A e, f \in Rest(q, c) : Before(q, e, f) => <<e, f>> \in Order'
  BY <1>1, AnswerFrame DEF Order
<1>6. \A e \in r.items, f \in Rest(q, c) \ r.items : <<e, f>> \in Order'
  BY <1>4, <1>5 DEF PageCuts
<1>7. \/ r.items = Rest(q, c) /\ r.next = None
      \/ /\ r.items # Rest(q, c) /\ r.next \in r.items /\ r.next # None
         /\ \A e \in r.items \ {r.next} : <<e, r.next>> \in Order'
  BY <1>1, <1>4, <1>5, QueryAssumption DEF PageCuts
<1>8. /\ (IF Walking THEN Order ELSE {})' = Order'
      /\ (IF Walking THEN Returned ELSE {})' = Returned'
      /\ (IF Walking THEN cursor ELSE None)' = r.next
      /\ (IF ~Walking THEN "new" ELSE IF refused THEN "stopped"
          ELSE IF cursor = None THEN "arrived" ELSE "walking")'
           = IF r.next = None THEN "arrived" ELSE "walking"
  BY <1>1
<1>9. Walk!Cardinality(r.items) <= Limit
  BY <1>4 DEF Walk!Cardinality, Cardinality
<1>10. CASE r.items = Rest(q, c) /\ r.next = None
  BY <1>2, <1>3, <1>4, <1>6, <1>8, <1>9, <1>10 DEF Walk!Page
<1>11. CASE /\ r.items # Rest(q, c) /\ r.next \in r.items /\ r.next # None
            /\ \A e \in r.items \ {r.next} : <<e, r.next>> \in Order'
  BY <1>2, <1>3, <1>4, <1>6, <1>8, <1>9, <1>11 DEF Walk!Page
<1> QED
  BY <1>7, <1>10, <1>11

LEMMA BeginWalk ==
  ASSUME QueryInv, QueryInv', NEW q \in Request, firstPage(q), Walking'
  PROVE  Walk!Begin
<1>1. /\ request = None /\ cursor = None /\ pages = <<>> /\ ~refused /\ ~Walking
  BY DEF QueryInv, ClientInv, StartInv, firstPage, Walking
<1>2. PICK c, r : c = cursor /\ r = queryEvents(q, c)
  OBVIOUS
<1>3. Answered(q, c, r)
  <2>1. Append(pages, r.items) = <<r.items>>
    BY <1>1
  <2> QED
    BY <1>1, <1>2, <2>1 DEF firstPage, Answered
<1>4. Plain(q) /\ ExactRead(q)
  BY <1>3, AnswerFrame DEF Answered, Walking, ExactCursor, ExactRead
<1>5. PageFits(q, c, r) /\ PageCuts(q, Rest(q, c), r)
  BY <1>1, <1>2, <1>4, Answers
<1>6. Walk!Page(r.items, Rest(q, c))
  BY <1>1, <1>2, <1>3, <1>5, WalkPage
<1>7. Matching' = Rest(q, c) /\ steady' = Rest(q, c)
  <2>1. Rest(q, c) = {e \in Rows : Matches(q, e)}
    BY <1>1, <1>2, <1>4, WalkRest DEF QueryInv
  <2> QED
    BY <1>3, <2>1, AnswerFrame DEF Answered, Matching, firstPage
<1>8. r.items \in SUBSET Event /\ Matching' \subseteq Event /\ Order' \subseteq Event \X Event
  BY <1>5, <1>7, SelectedStored DEF PageFits, Stored, Order
<1> QED
  BY <1>1, <1>6, <1>7, <1>8 DEF Walk!Begin

LEMMA ContinueWalk ==
  ASSUME QueryInv, nextPage, Walking
  PROVE  Walk!Continue
<1>1. PICK q \in Request : q = request
  BY DEF QueryInv, TypeOK, nextPage
<1>2. PICK c, r : c = cursor /\ r = queryEvents(q, c)
  OBVIOUS
<1>3. c # None /\ ~refused /\ c \in Event
  BY <1>2 DEF nextPage, QueryInv, ClientInv, StartInv, TypeOK
<1>4. Answered(q, c, r)
  BY <1>1, <1>2 DEF nextPage, Answered
<1>5. Walking' /\ Plain(q) /\ ExactRead(q)
  <2>1. Plain(q) /\ ExactRead(q) /\ request' = request /\ adapter' = adapter
    BY <1>1, <1>4 DEF Answered, Walking, ExactCursor, ExactRead
  <2> QED
    BY <2>1 DEF Walking, ExactCursor, Plain
<1>6. PageFits(q, c, r) /\ PageCuts(q, Rest(q, c), r)
  BY <1>1, <1>2, <1>5, Answers
<1>7. Walk!Page(r.items, Rest(q, c))
  BY <1>1, <1>2, <1>3, <1>4, <1>5, <1>6, WalkPage
<1>8. Rest(q, c) = {e \in Matching : Walk!Behind(e)}
  <2>1. \A e \in Event : Walk!Behind(e) <=> Before(q, c, e)
    BY <1>1, <1>2, <1>3, WalkBehind
  <2>2. Rest(q, c) = {e \in Rows : Matches(q, e) /\ Before(q, c, e)}
    BY <1>3, <1>5, WalkRest DEF QueryInv
  <2> QED
    BY <1>1, <2>1, <2>2 DEF Matching, Rows
<1>9. Matching' = Matching /\ Order' = Order /\ steady' = steady
  BY <1>1, <1>4, AnswerFrame DEF Answered, Matching, Order, nextPage
<1>10. r.items \in SUBSET Event
  BY <1>6, SelectedStored DEF PageFits, Stored
<1> QED
  BY <1>2, <1>3, <1>5, <1>7, <1>8, <1>9, <1>10 DEF Walk!Continue

LEMMA RefuseWalk == ASSUME QueryInv, pageRefused, Walking PROVE Walk!Refuse
<1>1. /\ request' = request /\ pages' = pages /\ steady' = steady /\ rank' = rank
      /\ adapter' = adapter /\ now' = now /\ expired' = expired
      /\ cursor # None /\ cursor' = None /\ refused' = TRUE /\ ~refused
  BY DEF pageRefused, QueryInv, ClientInv, StartInv
<1>2. Walking'
  BY <1>1 DEF Walking, ExactCursor, Plain
<1>3. Matching' = Matching /\ Order' = Order /\ Returned' = Returned
  BY <1>1
  DEF Matching, Rows, Matches, To, Order, Before, TieBefore, Text, Returned
<1> QED
  BY <1>1, <1>2, <1>3 DEF Walk!Refuse

\* What the database and the clock do: what matched is there until it expires, and
\* stays on its side of the cursor.
LEMMA ChangeWalk ==
  ASSUME QueryInv, QueryInv', Grows, Walking
  PROVE  Walk!Change
<1>1. /\ request' = request /\ cursor' = cursor /\ refused' = refused
      /\ Returned' = Returned /\ adapter' = adapter
  BY DEF Grows, Returned
<1>2. Walking'
  BY <1>1 DEF Walking, ExactCursor, Plain
<1>3. PICK q \in Request : q = request /\ q = request'
  BY <1>1 DEF QueryInv, TypeOK, Walking
<1>4. /\ Matching \subseteq Stored /\ Matching' \subseteq Event /\ Stored \subseteq Event
      /\ Order' \subseteq Event \X Event
  BY DEF Matching, Rows, Stored, Order
<1>5. steady' = steady \cap Matching'
  <2>1. steady' \subseteq steady /\ steady' \subseteq Matching'
    BY DEF Grows, QueryInv, ClientInv, SteadyInv, Matching
  <2>2. \A e \in steady \ steady' : e \notin Matching'
    BY DEF Grows, Matching, Rows
  <2> QED
    BY <2>1, <2>2
<1>6. ASSUME NEW e \in Matching, Walk!Behind(e) PROVE Walk!Behind(e)'
  <2>1. cursor = None \/ (cursor \in Stored /\ Before(q, cursor, e))
    BY <1>3, <1>4, <1>6, WalkBehind DEF QueryInv, ClientInv, ReturnedInv, TypeOK
  <2>2. CASE cursor = None
    BY <1>1, <1>2, <2>2 DEF Walk!Behind
  <2>3. CASE cursor \in Stored /\ Before(q, cursor, e)
    <3>1. Before(q, cursor, e)'
      BY <1>1, <1>4, <2>3, OrderStays
    <3>2. <<cursor, e>> \in Order'
      BY <1>1, <1>3, <1>4, <2>3, <3>1 DEF Order
    <3> QED
      BY <1>1, <1>2, <3>2 DEF Walk!Behind
  <2> QED
    BY <2>1, <2>2, <2>3
<1> QED
  BY <1>1, <1>2, <1>4, <1>5, <1>6 DEF Walk!Change

\* A step maps to one of Paging, and before the walk and outside of it to none.
LEMMA QueryRefines ==
  ASSUME QueryInv, QueryInv', [Next]_vars PROVE [Walk!Next]_Walk!vars
<1>1. CASE ~Walking /\ ~Walking'
  BY <1>1 DEF Walk!vars
<1>2. CASE ~Walking /\ Walking'
  <2>1. request = None
    <3> SUFFICES ASSUME request # None PROVE FALSE
      OBVIOUS
    <3>1. UNCHANGED <<request, adapter>>
      BY QueryStep DEF Grows, firstPage, nextPage, pageRefused
    <3> QED
      BY <1>2, <3>1 DEF Walking, ExactCursor, Plain
  <2>2. request' # None
    BY <1>2 DEF Walking
  <2>3. PICK q \in Request : firstPage(q)
    BY <2>1, <2>2, QueryStep DEF Grows, nextPage, pageRefused
  <2> QED
    BY <1>2, <2>3, BeginWalk DEF Walk!Next
<1>3. CASE Walking
  <2>1. ASSUME NEW q \in Request, firstPage(q) PROVE FALSE
    BY <1>3, <2>1 DEF firstPage, Walking
  <2> QED
    BY <1>3, <2>1, QueryStep, ContinueWalk, RefuseWalk, ChangeWalk DEF Walk!Next
<1> QED
  BY <1>1, <1>2, <1>3

\* For a plain query and an exact cursor, the pages of a repository are a walk
\* through an ordered set that others change.
THEOREM QueryImplementsPaging == Spec => ImplementsWalk
<1>1. Init => Walk!Init
  BY DEF Init, Walking, Walk!Init
<1>2. QueryInv /\ QueryInv' /\ [Next]_vars => [Walk!Next]_Walk!vars
  BY QueryRefines
<1> QED
  BY <1>1, <1>2, QueryInvariant, PTL DEF Spec, ImplementsWalk, Walk!Spec
=============================================================================
