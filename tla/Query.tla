-------------------------------- MODULE Query --------------------------------
(***************************************************************************)
(* The read path: a client that asks for events page by page (handleQuery,  *)
(* queryEvents of the three repositories, the cursors of utils/cursor.ts)   *)
(* while the processor stores more events and the database expires others.  *)
(*                                                                         *)
(* An event is a record: eventId, appId, userId, sessionId, name and        *)
(* occurredAt.  A timestamp is a string in the code and is compared as one: *)
(* it is a record [at, unit] here, at the instant and unit what its last    *)
(* digit counts.  "Z" follows that digit and is greater than ".", ":" and    *)
(* the digits: 10:00:00.5Z sorts after 10:00:00.57Z, and 10:00:00Z after     *)
(* every fraction of its second.                                            *)
(*                                                                         *)
(* An identifier is the sequence of its parts between "#": to join two of   *)
(* them by "#" is to concatenate.                                           *)
(***************************************************************************)
EXTENDS Integers, FiniteSets, Sequences

CONSTANTS
  Adapter,    \* the repositories considered: "memory", "cosmos", "dynamo"
  Event,
  Request,    \* the queries considered
  Part,       \* the strings without "#" that their identifiers are made of
  Limit,      \* events of a page (1 to 200 in the code, default 50)
  ReadCap,    \* rows one read of the database evaluates at most (1 MB)
  Unit,       \* instants of what the last digit of a time may count: a minute,
              \* a second, each tenth of the one before (the schema has no limit)
  Minute,     \* the longest of them
  Milli,      \* that of Date: a millisecond
  Window,     \* the longest range of a query (31 days), in milliseconds
  FirstNow,   \* the millisecond at which the model begins,
  LastNow,    \* and the bound at which it ends
  None

ASSUME QueryAssumption ==
  /\ Adapter \subseteq {"memory", "cosmos", "dynamo"}
  /\ {Limit, ReadCap, Minute, Window} \subseteq Nat \ {0}
  /\ {FirstNow, LastNow} \subseteq Nat /\ FirstNow <= LastNow
  /\ None \notin Event \cup Request /\ IsFiniteSet(Event)
  /\ \A e, f \in Event : e.eventId = f.eventId => e = f

ASSUME UnitAssumption ==
  /\ Unit \subseteq 1 .. Minute /\ {Minute, Milli} \subseteq Unit
  /\ \A u, v \in Unit : u <= v => v % u = 0

\* The digits that are not written are zero.
IsTime(t) == t.at \in Nat /\ t.unit \in Unit /\ t.at % t.unit = 0

IsId(s) == s \in Seq(Part) /\ s # <<>>

\* The order of eventIds is that of their text.
ASSUME TextAssumption ==
  /\ {"anonymous", "no-session"} \subseteq Part
  /\ \A e \in Event : IsTime(e.occurredAt) /\ e.eventId \in Int
  /\ \A q \in Request : IsTime(q.from) /\ (q.to # None => IsTime(q.to))
  /\ \A r \in Event \cup Request :
       /\ IsId(r.appId)
       /\ {r.userId, r.sessionId} \subseteq {None} \cup Seq(Part)

VARIABLES
  adapter,    \* the repository of this deployment
  now,        \* the clock of the service
  rank,       \* the order in which the events were stored, 0 before that
  expired,    \* events removed by their TTL
  request,    \* the query the client is paging through
  cursor,     \* the cursor of its next request: an event's key, or None
  pages,      \* the pages it has got
  refused,    \* whether the last of its requests failed
  steady      \* events that have matched since its first request

clientVars == <<request, cursor, pages, refused, steady>>
vars == <<adapter, now, rank, expired, request, cursor, pages, refused, steady>>

Rows == {e \in Event : rank[e] # 0} \ expired

TypeOK ==
  /\ adapter \in Adapter
  /\ now \in FirstNow .. LastNow
  /\ rank \in [Event -> 0 .. Cardinality(Event)]
  /\ expired \subseteq Event
  /\ request \in Request \cup {None}
  /\ cursor \in Event \cup {None}
  /\ pages \in Seq(SUBSET Event)
  /\ refused \in BOOLEAN
  /\ steady \subseteq Event

-----------------------------------------------------------------------------
(* Validation: a query without `to` ends at the time of each request *)

Clock(n) == [at |-> n * Milli, unit |-> Milli]

To(q) == IF q.to = None THEN Clock(now) ELSE q.to

\* Digits behind the milliseconds are lost.
Date(t) == t.at \div Milli

ValidQuery(q) ==
  /\ Date(q.from) < Date(To(q))
  /\ Date(To(q)) - Date(q.from) <= Window

-----------------------------------------------------------------------------
(* Strings that stand for times *)

\* By the end of what the last digit counts, and with the same end the time with
\* fewer digits is the greater.
Text(t) == (t.at + t.unit) * (Minute + 1) + t.unit

\* Mutant: the end of the range belongs to it.
InClosedRange(q, e) ==
  Text(q.from) <= Text(e.occurredAt) /\ Text(e.occurredAt) <= Text(To(q))

InTextRange(q, e) ==
  Text(q.from) <= Text(e.occurredAt) /\ Text(e.occurredAt) < Text(To(q))

-----------------------------------------------------------------------------
(* What the database is asked for, and in which order it answers *)

Asked(field, value) == field # None => field = value

\* Mutant: the key of an index is that of the user or the session alone.
KeyWithoutApp(app, id) == id

\* The partition key of DynamoDB's user index and session index.
JoinedKey(app, id) == app \o id

\* An event without a user or a session is filed under a word.
UserKey(e) ==
  JoinedKey(e.appId, IF e.userId = None THEN <<"anonymous">> ELSE e.userId)
SessionKey(e) ==
  JoinedKey(e.appId, IF e.sessionId = None THEN <<"no-session">> ELSE e.sessionId)

\* The user index is taken when there is a userId, and a sessionId next to it is
\* left out; the joined key is all that is asked of an index.
DynamoKey(q, e) ==
  IF q.userId # None         THEN UserKey(e) = JoinedKey(q.appId, q.userId)
  ELSE IF q.sessionId # None THEN SessionKey(e) = JoinedKey(q.appId, q.sessionId)
  ELSE e.appId = q.appId

Conditions(q, e) ==
  /\ e.appId = q.appId
  /\ Asked(q.userId, e.userId)
  /\ Asked(q.sessionId, e.sessionId)

\* The facets that are looked up as a key.
KeyCondition(q, e) ==
  /\ InTextRange(q, e)
  /\ IF adapter = "dynamo" THEN DynamoKey(q, e) ELSE Conditions(q, e)

\* anonymousId, types and names.
FilterExpression(q, e) == Asked(q.name, e.name)

\* Rows with the same text in occurredAt: by eventId in DynamoDB's sort key, in
\* the order of insertion elsewhere.
TieBefore(e, f) ==
  IF adapter = "dynamo" THEN e.eventId < f.eventId ELSE rank[e] < rank[f]

\* Mutant: ScanIndexForward is left at its default.
AlwaysAscending(q, e, f) ==
  LET x == Text(e.occurredAt)
      y == Text(f.occurredAt)
  IN  x < y \/ (x = y /\ TieBefore(e, f))

\* Array.sort is stable and its comparison negated: in memory, ties stay in the
\* order of insertion in a descending query too.
Before(q, e, f) ==
  LET x == Text(e.occurredAt)
      y == Text(f.occurredAt)
  IN  IF x = y
      THEN IF q.sort = "asc" \/ adapter = "memory" THEN TieBefore(e, f)
                                                   ELSE TieBefore(f, e)
      ELSE IF q.sort = "asc" THEN x < y ELSE x > y

\* The first n of a set of rows.
First(q, n, S) == {e \in S : Cardinality({f \in S : Before(q, f, e)}) < n}

Last(q, S) == CHOOSE e \in S : \A f \in S \ {e} : Before(q, f, e)

\* Mutant: the event of the cursor is not skipped.
FromCursor(q, c, S) == {e \in S : c # None => e = c \/ Before(q, c, e)}

\* The rows behind a cursor.
After(q, c, S) == {e \in S : c # None => Before(q, c, e)}

-----------------------------------------------------------------------------
(* queryEvents: the page, and the cursor of the next one *)

\* Mutant: the extra item that tells whether there is more is returned.
ReturnsExtraItem(q, c) ==
  LET found == After(q, c, {e \in Rows : KeyCondition(q, e)})
      read  == First(q, IF Limit + 1 < ReadCap THEN Limit + 1 ELSE ReadCap, found)
      items == {e \in read : FilterExpression(q, e)}
  IN  [items |-> items,
       next  |-> IF Cardinality(items) > Limit THEN Last(q, items) ELSE None]

\* Mutant: the cursor is made of the last row read.
DynamoCursorOfExtra(q, c) ==
  LET found == After(q, c, {e \in Rows : KeyCondition(q, e)})
      read  == First(q, IF Limit + 1 < ReadCap THEN Limit + 1 ELSE ReadCap, found)
      items == {e \in read : FilterExpression(q, e)}
  IN  [items |-> First(q, Limit, items),
       next  |-> IF Cardinality(items) > Limit THEN Last(q, read) ELSE None]

\* The limit bounds the rows read, the filter runs on those that were read.
DynamoPage(q, c) ==
  LET found == After(q, c, {e \in Rows : KeyCondition(q, e)})
      read  == First(q, IF Limit + 1 < ReadCap THEN Limit + 1 ELSE ReadCap, found)
      items == {e \in read : FilterExpression(q, e)}
      page  == First(q, Limit, items)
  IN  [items |-> page,
       next  |-> IF Cardinality(items) > Limit THEN Last(q, page) ELSE None]

\* The cursor wraps the continuation token, which stands behind the last row
\* fetched; there is none when nothing is left to fetch.
CosmosPage(q, c) ==
  LET found == After(q, c, {e \in Rows : KeyCondition(q, e) /\ FilterExpression(q, e)})
      items == First(q, Limit + 1, found)
  IN  [items |-> First(q, Limit, items),
       next  |-> IF Cardinality(items) > Limit /\ items # found THEN Last(q, items)
                                                               ELSE None]

\* Mutant: the cursor is made of the extra item.
CursorOfExtraItem(q, c) ==
  LET found == {e \in Rows : KeyCondition(q, e) /\ FilterExpression(q, e)}
      rest  == IF c \in found THEN After(q, c, found) ELSE found
      more  == First(q, Limit + 1, rest)
  IN  [items |-> First(q, Limit, rest),
       next  |-> IF Cardinality(rest) > Limit THEN Last(q, more) ELSE None]

\* A cursor whose event is not among the results is not looked at.
MemoryPage(q, c) ==
  LET found == {e \in Rows : KeyCondition(q, e) /\ FilterExpression(q, e)}
      rest  == IF c \in found THEN After(q, c, found) ELSE found
      page  == First(q, Limit, rest)
  IN  [items |-> page,
       next  |-> IF Cardinality(rest) > Limit THEN Last(q, page) ELSE None]

queryEvents(q, c) ==
  CASE adapter = "dynamo" -> DynamoPage(q, c)
    [] adapter = "cosmos" -> CosmosPage(q, c)
    [] adapter = "memory" -> MemoryPage(q, c)

-----------------------------------------------------------------------------
(* What a query means: all its conditions hold, at the instants written *)

Matches(q, e) ==
  /\ e.appId = q.appId
  /\ q.from.at <= e.occurredAt.at /\ e.occurredAt.at < To(q).at
  /\ Asked(q.userId, e.userId)
  /\ Asked(q.sessionId, e.sessionId)
  /\ Asked(q.name, e.name)

Init ==
  /\ adapter \in Adapter
  /\ now     = FirstNow
  /\ rank    = [e \in Event |-> 0]
  /\ expired = {}
  /\ request = None /\ cursor = None
  /\ pages   = <<>> /\ steady = {}
  /\ refused = FALSE

tick ==
  /\ now < LastNow
  /\ now' = now + 1
  /\ UNCHANGED <<adapter, rank, expired, clientVars>>

\* Mutant: an event that is stored again moves to the end.
StoresAgain(e) ==
  /\ rank' = [rank EXCEPT ![e] = 1 + CHOOSE n \in {rank[f] : f \in Event} :
                                       \A f \in Event : rank[f] <= n]
  /\ UNCHANGED <<adapter, now, expired, clientVars>>

storeEvent(e) ==
  /\ rank[e] = 0
  /\ rank' = [rank EXCEPT ![e] = 1 + Cardinality({f \in Event : rank[f] # 0})]
  /\ UNCHANGED <<adapter, now, expired, clientVars>>

\* The TTL of DynamoDB or Cosmos; the in-memory store keeps everything.
expire(e) ==
  /\ adapter # "memory" /\ e \in Rows
  /\ expired' = expired \cup {e}
  /\ steady'  = steady \ {e}
  /\ UNCHANGED <<adapter, now, rank, request, cursor, pages, refused>>

\* The first request of a client, and each further one with the cursor it was
\* given; it has the last page when there is no nextCursor.
firstPage(q) ==
  /\ request = None /\ ValidQuery(q)
  /\ request' = q
  /\ LET r == queryEvents(q, None) IN pages' = <<r.items>> /\ cursor' = r.next
  /\ steady'  = {e \in Rows : Matches(q, e)}
  /\ UNCHANGED <<adapter, now, rank, expired, refused>>

\* A "#" in the appId of a cursor is taken for that of a joined key of old, and
\* DynamoDB refuses the start key that is made of the part before it: it lies in
\* another partition than the one asked for.
StartKeyFits(q) == adapter = "dynamo" => q.appId = <<Head(q.appId)>>

\* Mutant: the row of the cursor has to be there still.
NeedsCursorRow ==
  /\ request # None /\ cursor # None /\ cursor \in Rows
  /\ ValidQuery(request) /\ StartKeyFits(request)
  /\ LET r == queryEvents(request, cursor) IN
       pages' = Append(pages, r.items) /\ cursor' = r.next
  /\ UNCHANGED <<adapter, now, rank, expired, request, refused, steady>>

nextPage ==
  /\ request # None /\ cursor # None
  /\ ValidQuery(request) /\ StartKeyFits(request)
  /\ LET r == queryEvents(request, cursor) IN
       pages' = Append(pages, r.items) /\ cursor' = r.next
  /\ UNCHANGED <<adapter, now, rank, expired, request, refused, steady>>

\* The validation runs for every page; a client that is refused gives up.
pageRefused ==
  /\ request # None /\ cursor # None
  /\ ~ValidQuery(request) \/ ~StartKeyFits(request)
  /\ cursor' = None /\ refused' = TRUE
  /\ UNCHANGED <<adapter, now, rank, expired, request, pages, steady>>

Next ==
  \/ \E e \in Event : storeEvent(e) \/ expire(e)
  \/ \E q \in Request : firstPage(q)
  \/ nextPage \/ pageRefused
  \/ tick

Spec == Init /\ [][Next]_vars

\* A client goes on asking.
FairSpec == Spec /\ WF_vars(nextPage \/ pageRefused)

-----------------------------------------------------------------------------
(* Properties *)

Stopped == request # None /\ cursor = None
Finished == Stopped /\ ~refused
Returned == UNION {pages[i] : i \in DOMAIN pages}

\* No event comes twice, whatever is stored or expires between two pages.
NoEventTwice ==
  \A i, j \in DOMAIN pages : i # j => pages[i] \cap pages[j] = {}

\* The pages are in the order asked for, one after the other.
PagesInOrder ==
  \A i, j \in DOMAIN pages : i < j =>
    \A e \in pages[i], f \in pages[j] :
      IF request.sort = "asc" THEN Text(e.occurredAt) <= Text(f.occurredAt)
                              ELSE Text(f.occurredAt) <= Text(e.occurredAt)

\* Times whose texts are ordered as the instants are: written with as many digits,
\* or different in the digits that both have.
Alike(t, u) ==
  LET wider == IF t.unit < u.unit THEN u.unit ELSE t.unit
  IN  t.unit = u.unit \/ t.at \div wider # u.at \div wider

Ends(q) == IF q.to = None THEN {Clock(n) : n \in FirstNow .. LastNow} ELSE {q.to}

\* A query within what the repositories agree on: its times and those of the events
\* are Alike, and in DynamoDB it names a user or a session and not both, neither of
\* the words that stand for none, and an application that no other begins with.
Plain(q) ==
  /\ \A e \in Event : \A t \in {q.from} \cup Ends(q) : Alike(t, e.occurredAt)
  /\ adapter = "dynamo" =>
       /\ q.userId = None \/ q.sessionId = None
       /\ q.userId # <<"anonymous">> /\ q.sessionId # <<"no-session">>
       /\ {q.userId, q.sessionId} # {None} =>
            \A e \in Event : Head(e.appId) = Head(q.appId) => e.appId = q.appId

\* Nothing is returned to a plain query that does not match it.
MatchesIfPlain ==
  request # None /\ Plain(request) => \A e \in Returned : Matches(request, e)

\* The cursor is the key of the last event returned, and the database reads as
\* many rows as the page needs: no filter runs after the read, no row is so
\* large that the read is cut.
ExactCursor ==
  \/ adapter = "memory"
  \/ adapter = "dynamo" /\ request.name = None /\ Limit < ReadCap

\* Then a client that has followed the cursors of a plain query to the end has
\* seen each event that was there, and matched, all the time.
NothingSkipped ==
  Finished /\ ExactCursor /\ Plain(request) => steady \subseteq Returned

\* A page is full unless it is the last one, and never longer than the limit.
PagesAreFull ==
  \A i \in DOMAIN pages :
    /\ Cardinality(pages[i]) <= Limit
    /\ i < Len(pages) \/ cursor # None => Cardinality(pages[i]) = Limit

\* The walk of a client whose query is plain and whose cursor is exact, as Paging
\* describes one.
Walking  == request # None /\ ExactCursor /\ Plain(request)
Matching == {e \in Rows : Matches(request, e)}
Order    == {p \in Event \X Event : Before(request, p[1], p[2])}

Walk == INSTANCE Paging WITH
  Item     <- Event,
  Nowhere  <- None,
  there    <- IF Walking THEN Matching ELSE {},
  before   <- IF Walking THEN Order ELSE {},
  position <- IF Walking THEN cursor ELSE None,
  shown    <- IF Walking THEN Returned ELSE {},
  lasting  <- IF Walking THEN steady ELSE {},
  state    <- IF ~Walking THEN "new"
              ELSE IF refused THEN "stopped"
              ELSE IF cursor = None THEN "arrived" ELSE "walking"

\* The pages of an exact cursor are those of a walk through an ordered set: each
\* is the stretch behind the last one of what matches when it is read, and a
\* cursor comes with it exactly if something is left.
ImplementsWalk == Walk!Spec

\* Following the cursors comes to an end though events keep being stored.
PagingEnds == request # None ~> Stopped

(* What the documents say and the code does not do *)

\* "If present, fetch next page": the pages of every repository together hold
\* each event that was there, and matched, all the time.
PagingIsComplete == Finished => steady \subseteq Returned
=============================================================================
