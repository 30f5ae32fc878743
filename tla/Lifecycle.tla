------------------------------- MODULE Lifecycle -------------------------------
(***************************************************************************)
(* The life of one batch, with its content: a client posts it, the adapter  *)
(* of the platform answers, the processor validates it again and writes     *)
(* rows, which the database drops when they expire, and a reader is shown   *)
(* what is left of it.  Pipeline has the failures and the races of the same *)
(* path; here each call works or answers with an error.                     *)
(***************************************************************************)
EXTENDS Documents, Answers

CONSTANTS
  Platform,   \* of "express", "lambda", "azure"
  Post,       \* the requests considered,
  Query,      \* and the queries
  FirstNow,   \* the time at which the model begins,
  LastNow,    \* and the bound at which it ends
  BulkTime,   \* bound on the time between a document's TTL and its write
  None

ASSUME LifecycleAssumption ==
  /\ Platform \subseteq {"express", "lambda", "azure"}
  /\ {FirstNow, LastNow, BulkTime} \subseteq Nat /\ FirstNow <= LastNow
  /\ None \notin Post \cup Query

\* A batch is a sequence of events, with content from the values considered.
ASSUME InputAssumption ==
  \A r \in Post :
    /\ r.events \in Seq(Range(r.events))
    /\ \A e \in Range(r.events) :
         /\ e.occurredAt \in Int
         /\ \A field \in {"properties", "traits"} \cap DOMAIN e : e[field] \in Value

VARIABLES
  platform,    \* where the service is deployed
  now,
  post,        \* the request that was posted, or None
  status,      \* the answer to it
  raw,         \* the events of its raw batch
  receivedAt,
  air,         \* the rows of the storeEvents that is running, by their position
               \* in the batch,
  airAt,       \* and when it began
  outcome,     \* how the last run of the processor ended
  rows,        \* the operational store
  query,       \* the last query, or None,
  code,        \* the status of its answer,
  found        \* and the events in it

requestVars == <<platform, post, status, raw, receivedAt>>
storeVars   == <<air, airAt, outcome, rows>>
readVars    == <<query, code, found>>
vars == <<platform, now, post, status, raw, receivedAt, air, airAt, outcome, rows,
          query, code, found>>

Init ==
  /\ platform \in Platform
  /\ now = FirstNow
  /\ post = None /\ status = 0 /\ raw = <<>> /\ receivedAt = 0
  /\ air = <<>> /\ airAt = 0 /\ outcome = "none" /\ rows = {}
  /\ query = None /\ code = 0 /\ found = {}

\* A storeEvents that runs takes no longer than BulkTime.
tick ==
  /\ now < LastNow
  /\ air # <<>> => now < airAt + BulkTime
  /\ now' = now + 1
  /\ UNCHANGED <<requestVars, storeVars, readVars>>

-----------------------------------------------------------------------------
(* Ingest *)

handlePost(r, works) ==
  /\ post = None
  /\ post'   = r
  /\ status' = PostStatus(platform, r, works)
  /\ IF status' = 202
     THEN raw' = Normalised(r.events) /\ receivedAt' = now
     ELSE UNCHANGED <<raw, receivedAt>>
  /\ UNCHANGED <<platform, now, storeVars, readVars>>

-----------------------------------------------------------------------------
(* The processor, which may get the pointer again *)

RowOf(e) ==
  LET stored == transformToStoredEvent(e, receivedAt, now)
  IN  CASE platform = "express" -> stored
        [] platform = "lambda"  -> DynamoItem(stored)
        [] platform = "azure"   -> CosmosDocument(stored, now)

\* Positions whose events the checks may report as there: none on DynamoDB, and a
\* check of Cosmos DB that is rejected counts as "new".
Duplicates(events) ==
  LET known == {i \in DOMAIN events : \E r \in rows : r.eventId = events[i].eventId}
  IN  CASE platform = "express" -> {known}
        [] platform = "lambda"  -> {{}}
        [] platform = "azure"   -> SUBSET known

rejectBatch ==
  /\ raw # <<>> /\ air = <<>>
  /\ ~Accepts(raw, FALSE)
  /\ outcome' = "poison"
  /\ UNCHANGED <<requestVars, now, air, airAt, rows, readVars>>

handleProcessor ==
  /\ raw # <<>> /\ air = <<>>
  /\ Accepts(raw, FALSE)
  /\ LET events == Normalised(raw) IN
     \E known \in Duplicates(events) :
       /\ air'     = [i \in DOMAIN events \ known |-> RowOf(events[i])]
       /\ airAt'   = now
       /\ outcome' = IF DOMAIN air' = {} THEN "stored" ELSE outcome
  /\ UNCHANGED <<requestVars, now, rows, readVars>>

\* The first write of an event stays.
storeInMemory ==
  /\ platform = "express" /\ air # <<>>
  /\ rows'    = rows \cup
       {air[i] : i \in {k \in DOMAIN air :
          /\ \A r \in rows : r.eventId # air[k].eventId
          /\ \A j \in DOMAIN air : j < k => air[j].eventId # air[k].eventId}}
  /\ outcome' = "stored" /\ air' = <<>>
  /\ UNCHANGED <<requestVars, now, airAt, readVars>>

\* What the databases know a row by.
KeyOf(r) == IF platform = "lambda" THEN <<r.PK, r.SK>> ELSE <<r.pk, r.id>>

\* Writes that run together: of those to one key any may be the last.
LastWrites(S) ==
  {new \in SUBSET S : \A d \in S : \E r \in new : {s \in new : KeyOf(s) = KeyOf(d)} = {r}}

Over(new) == {r \in rows : \A d \in new : KeyOf(d) # KeyOf(r)} \cup new

storeInDynamo ==
  /\ platform = "lambda" /\ air # <<>>
  /\ \E new \in LastWrites(Range(air)) : rows' = Over(new)
  /\ outcome' = "stored" /\ air' = <<>>
  /\ UNCHANGED <<requestVars, now, airAt, readVars>>

\* Cosmos DB refuses a TTL of 0; the other operations of a bulk in which one is
\* refused may be executed or not.  It counts the TTL from the second of the
\* write, _ts.
storeInCosmos ==
  /\ platform = "azure" /\ air # <<>>
  /\ LET refused == {d \in Range(air) : d.ttl = 0} IN
     /\ \E done \in IF refused = {} THEN {Range(air)} ELSE SUBSET (Range(air) \ refused) :
        \E new \in LastWrites(done) :
          rows' = Over({Spread(d, [_ts |-> now \div Second]) : d \in new})
     /\ outcome' = IF refused = {} THEN "stored" ELSE "failed"
  /\ air' = <<>>
  /\ UNCHANGED <<requestVars, now, airAt, readVars>>

-----------------------------------------------------------------------------
(* Expiry, and the reader *)

\* The instant from which the database may drop the row.
Expiry(r) ==
  IF platform = "lambda" THEN r.expiresAt * Second ELSE (r._ts + r.ttl) * Second

Expired(r) == platform # "express" /\ Expiry(r) <= now

drop(r) ==
  /\ r \in rows /\ Expired(r)
  /\ rows' = rows \ {r}
  /\ UNCHANGED <<requestVars, now, air, airAt, outcome, readVars>>

HasSession(r, s) ==
  IF platform = "lambda" THEN r.GSI2PK = s
                         ELSE "context" \in DOMAIN r /\ Truthy(r.context, "sessionId")
                                /\ r.context.sessionId = s

\* Cosmos DB no longer returns what has expired; DynamoDB does until it is gone.
Answer(q) ==
  {r \in rows : /\ platform = "azure" => ~Expired(r)
                /\ q.session # "" => HasSession(r, q.session)}

handleGet(q) ==
  /\ query' = q
  /\ code'  = GetStatus(platform, q)
  /\ found' = IF code' = 200 THEN {mapStoredEventToApiEvent(r) : r \in Answer(q)} ELSE {}
  /\ UNCHANGED <<requestVars, now, storeVars>>

Next ==
  \/ \E r \in Post, works \in BOOLEAN : handlePost(r, works)
  \/ rejectBatch \/ handleProcessor
  \/ storeInMemory \/ storeInDynamo \/ storeInCosmos
  \/ \E r \in rows : drop(r)
  \/ \E q \in Query : handleGet(q)
  \/ tick

Spec == Init /\ [][Next]_vars

-----------------------------------------------------------------------------
(* What the batch means, from what was posted *)

PostedEvents == IF post = None THEN {} ELSE Range(post.events)

\* The session of an event: its context's, or else its actor's.
SessionMeant(e) ==
  IF Truthy(Context(e), "sessionId") THEN e.context.sessionId
  ELSE IF Truthy(e.actor, "sessionId") THEN e.actor.sessionId ELSE ""

\* The context of an event with its session in it.
ContextShown(context, e) ==
  /\ DOMAIN context = DOMAIN Context(e)
                        \cup (IF SessionMeant(e) = "" THEN {} ELSE {"sessionId"})
  /\ \A x \in DOMAIN context :
       context[x] = IF x = "sessionId" /\ SessionMeant(e) # "" THEN SessionMeant(e)
                                                              ELSE Context(e)[x]

\* What the API promises to show of an event.
Shows(a, e) ==
  /\ DOMAIN a = (DOMAIN Parsed(e) \ {"consent"}) \cup {"receivedAt"}
                   \cup (IF SessionMeant(e) = "" THEN {} ELSE {"context"})
  /\ a.receivedAt = receivedAt
  /\ \A x \in DOMAIN a \ {"actor", "context", "receivedAt"} : a[x] = e[x]
  /\ "context" \in DOMAIN a => ContextShown(a.context, e)
  /\ \A id \in {"userId", "anonymousId"} :
       IF id \in DOMAIN e.actor THEN id \in DOMAIN a.actor /\ a.actor[id] = e.actor[id]
                                ELSE id \notin DOMAIN a.actor

\* The values that are n levels below a value, for each n.
Level(v) ==
  LET level[n \in 0 .. maxPropertyDepth + 1] ==
        IF n = 0 THEN {v} ELSE UNION {Range(u.parts) : u \in level[n - 1]}
  IN  level

WithinLimits(v) ==
  /\ Level(v)[maxPropertyDepth + 1] = {}
  /\ \A n \in 0 .. maxPropertyDepth : \A u \in Level(v)[n] :
       /\ u.kind = "string" => u.length <= maxStringLength
       /\ u.kind = "array"  => Len(u.parts) <= maxArrayLength
       /\ u.kind = "object" => Len(u.parts) <= maxKeysPerLevel /\ u.named

ClientAtFault ==
  \/ post.key # "good" \/ post.body # "json"
  \/ ~Accepts(post.events, post.sentAt)

-----------------------------------------------------------------------------
(* Properties *)

\* The raw batch holds valid events, none with a session in its actor only: what
\* the schema and the normalisation promise the processor.
TypeOK ==
  /\ now \in FirstNow .. LastNow /\ airAt \in 0 .. now
  /\ status \in {0, 202, 400, 401, 500}
  /\ outcome \in {"none", "poison", "stored", "failed"}
  /\ \A e \in Range(raw) :
       /\ ValidEvent(e)
       /\ Truthy(e.actor, "sessionId") => Truthy(Context(e), "sessionId")

\* A row is an event that came in with a good write key, and the content of its
\* properties or traits is within each limit at each level.
OnlyValidIsStored ==
  \A r \in rows :
    /\ post.key = "good"
    /\ \A field \in {"properties", "traits"} \cap DOMAIN r : WithinLimits(r[field])

\* The processor's validation rejects what ingest has accepted only if moving
\* the sessionIds made the batch larger than a batch may be.
SecondValidationAgrees ==
  outcome = "poison" => ~(EnvelopeSize(raw, FALSE) <= maxPayloadSize)

\* A row is found under the session its event was sent with, wherever the client
\* put it, and under no other; DynamoDB has a word for events without a session,
\* under which it finds them too.
SessionFindable ==
  \A r \in rows : \E e \in PostedEvents :
    /\ r.eventId = e.eventId /\ r.occurredAt = e.occurredAt
    /\ \A q \in Query : q.session # "" =>
         (HasSession(r, q.session) <=>
            \/ q.session = SessionMeant(e)
            \/ platform = "lambda" /\ SessionMeant(e) = "" /\ q.session = "no-session")

\* On each platform an answer shows an event as it was sent: its session is in the
\* context, nothing else of the context, of the ids of its actor or of its other
\* members is missing or changed, and its consent and what the database keeps
\* beside it are not there.
AnswerIsTheEvent == \A a \in found : \E e \in PostedEvents : Shows(a, e)

\* However often a row is rewritten, and late, the database drops it Retention
\* after the event occurred: less than two seconds before, and after it only by
\* the time a bulk may take.
ExpiresOnItsDay ==
  platform # "express" =>
    \A r \in rows :
      LET due == r.occurredAt + Retention
      IN  due - 2 * Second < Expiry(r) /\ Expiry(r) <= due + BulkTime

\* Storing a batch fails only on Cosmos DB, for the sake of an event that had
\* less than a second left to be kept.
YoungBatchIsStored ==
  outcome = "failed" =>
    /\ platform = "azure"
    /\ \E e \in Range(raw) : e.occurredAt + Retention < airAt + Second

\* A client that is told 400 or 401 has itself to blame and gains nothing by
\* trying again; what the service could not do is answered 500.
FourHundredIsFinal == status \in {400, 401} => ClientAtFault /\ raw = <<>>

(* What the documents say and the code does not do *)

\* "400 Bad Request - Invalid query parameters"
QueryMistakesAre400 ==
  query # None /\ query.mistake # "none" => code = 400
=============================================================================
