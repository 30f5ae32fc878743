# A formal model of the analytics service

This directory holds TLA+ models of the analytics service in `src/`, the TLC
configurations that check them on small instances, and proofs, checked by TLAPS,
that the main results hold for every instance. Paths below are relative to the
repository; `core/` stands for `src/app/core/`, and so on.

## 1. The system

A client posts a batch of events. The ingest function validates it, stores it
whole in an immutable raw store, sends a small pointer message to a queue and
answers 202. The queue triggers the processor, which fetches the batch through
the pointer, validates it again, asks the operational store which events it
already has, and stores the others. Another client pages through the events of
an application with a time range, filters and an opaque cursor. Everything
exists for AWS (Lambda, S3, SQS, DynamoDB), Azure (Functions, Blob Storage,
Storage Queue, Cosmos DB) and, in memory, for the local server.

```
 client --> ingest --(1) raw batch--> raw store
              |                          ^
              +--(2) pointer--> queue    | (4) fetch
              +--(3) 202         |       |
                                 v       |
                             processor --+--(5) duplicate checks, writes--> operational store
                                                                             ^
 reader --> query ----------------------(page, cursor)-----------------------+
```

| Component | State | Operations | What is hard | Correct when |
|---|---|---|---|---|
| ingest (`core/ingest-handler.ts`) | a request in progress | store the raw batch, enqueue, reply | failures and deaths between the steps; client retries carry new batchIds | a 202 means the batch and its pointer are durable; a pointer never precedes its batch |
| raw store (`infra/aws/s3-…`, `infra/azure/blob-…`, `infra/storage/in-memory-raw-…`) | batches | `storeRawBatch`, `getRawBatch` | a call that throws may have taken effect | a batch is written once, whole |
| queue (`infra/aws/sqs.tf`, `lambda.tf`, publishers) | messages, receive counts | enqueue, receive, visibility timeout, redrive, delete | at-least-once delivery, overlapping invocations, unparseable messages | each message leaves in the end, deleted or dead-lettered |
| processor (`core/processor-handler.ts` and its two triggers) | the record an invocation is handling | fetch, validate, check, store, for each record | interleaved invocations, failures swallowed or thrown, several records per invocation | rows belong to the batch they name; nothing is lost without a trace |
| operational store, writes (`dynamodb-…`, `cosmos-…`, `in-memory-operational-…`) | rows | `checkEventExists`, `storeEvents` | check and store are not atomic; chunks, bulks, partial failure, puts that land late | an event has one row however often it is delivered, an eventId one for each application; a deleted message leaves its events stored or a failure on record; rows never vanish by a write |
| operational store, queries; `core/query-handler.ts`, `utils/cursor.ts` | rows; the client's cursor | `queryEvents` | events arrive out of order and expire between pages; filters, limits, ties, times compared as text | pages are disjoint, in order, complete, and come to an end |
| validation and limits (`domain/validation.ts`, `query-validation.ts`, `config/limits.ts`) | – | parse, bound, normalise | two recursions with limits at each level; the second validation sees normalised data, which may be larger | nothing beyond the limits is stored; what ingest accepts the processor accepts |
| authentication (`middleware/auth.ts`, `config/secrets.ts`, `aws/entrypoints.ts`) | cached write keys | validate, load, cache | keys rotate while instances live | a rotated key is accepted everywhere before its predecessor is withdrawn |
| lazy initialisation (`aws/entrypoints.ts`, `functions/*.ts`) | handler instance, first error | create on first use | an error that sticks | what a process refuses depends on its environment alone |
| HTTP adapters (`app/http`, `app/aws`, `app/azure`) | – | map requests and errors | three error mappings | the same mistake gets the same status everywhere |
| retention (`config/retention.ts`) | – | expiry times | rounding; rewrites; events older than the retention period | an event lives for 365 days from its own time |
| documents (`domain/event-mapper.ts`, `putEvent`, the resource of an Upsert) | – | event to row, row to answer | three lists of members that must agree | a reader sees the event as it was sent, and nothing of the database |

## 2. Modules

| Module | What it is |
|---|---|
| `EventStore` | row identity, existence check and write of the three repositories |
| `Pipeline` | the write path: ingest requests, raw store, queue, processor invocations |
| `DurableLog` | what the write path promises, without queue, invocations and failures |
| `PipelineProofs` | theorems about `Pipeline` |
| `MCPipeline` | small sets of events and the symmetry for TLC |
| `Query` | the read path: `queryEvents` of the three repositories and a client that pages |
| `Paging` | what paging promises, without repositories, cursors and clocks |
| `PagingProofs` | a theorem about `Paging` |
| `QueryOrderProofs` | lemmas on the order of texts and rows, on the first and last of a set of rows, and on what a page of each repository is |
| `QueryProofs` | theorems about `Query`, which `QueryOrderProofs` prepares |
| `MCQuery` | events and queries for TLC |
| `Validation` | the schema of a batch and its normalisation, as operators |
| `Retention` | the two expiry times, as operators |
| `Documents` | stored event, item of DynamoDB, document of Cosmos DB, event of the API |
| `Answers` | the status code of a POST and of a GET on the three platforms |
| `Lifecycle` | composes these four: one batch with its content, from the request to the expiry of its rows |
| `LifecycleProofs` | theorems about `Validation`, `Answers` and `Lifecycle` |
| `ContentProofs` | a theorem about the recursions of `Validation`, in `Lifecycle` |
| `MCLifecycle` | JSON values, events, requests and queries for TLC |
| `WriteKeys` | the write key of the ingest endpoint: the secret, instances that keep a copy, a rotation |
| `WriteKeysProofs` | theorems about `WriteKeys` |
| `MCWriteKeys` | the values of the secret for TLC |

### Pipeline

One step is what the code does between two awaits, or one effect of an external
service.

- `handleIngest`, `storeRawBatch`, `enqueue`, `reply` are the steps of
  `handleIngest`; `storeRawFails` and `enqueueFails` are its calls that throw,
  with or without effect; `ingestDies` is the instance or the connection lost.
  A batch identifier stands for the batchId and for `receivedAt`, which are taken
  together. A retry of the client is another request.
- `Receive`, `VisibilityExpires`, `ToDeadLetter`, `Complete` are the queue: the
  event source mapping hands an invocation up to `RecordsMax` messages, a
  message that was not deleted comes back, the redrive policy bounds its
  receipts, and a normal end of the invocation deletes all its messages.
- `NextRecord`, `ParseFails`, `getRawBatch`, `getRawFails`, `checkSettles`,
  `checksDone`, `Returned`, `LogAndReturn` are the loop of
  `createLambdaSQSProcessorHandler` and, inside it, `handleProcessor`. The
  checks of `Promise.allSettled` settle one by one, in any order, on the rows of
  that moment. With one record for each invocation this is the Azure trigger.
- `storeInMemory`; `sendChunk`, `putLands`, `storeRejects`, `storeDone`;
  `bulkItemFails` are the three `storeEvents`. DynamoDB's puts of a chunk are in
  the air together; when one is rejected, `Promise.all` stops waiting for the
  others, which may still land (`strays`, `strayLands`). Cosmos DB's bulk may
  fail in part.
- `Crash` is the time limit of the function at any point.

What a run may go wrong with is the constant `Faults`: `"raw"`, `"queue"`,
`"reply"`, `"fetch"`, `"check"`, `"store"`, `"crash"` and `"overlap"`, each named
for the call that fails; `"overlap"` lets a message come back while its
invocation still runs, which the default timeouts (30 s against 300 s) make
unlikely and nothing forbids. `Oversize` is the set of events whose batch passes
the validation of ingest and fails the one of the processor. `Garbage` are
messages that do not parse.

An event is its key: eventId, appId and occurredAt. The rest of its content never
decides anything on the write path. `SameRow` is what identifies a row in each repository;
the properties do not use it: `HasRow` asks for a row of the event's own application, and
the duplicate check, `HasId`, for one of any.

### Query

`adapter` says which repository is deployed. `firstPage` and `nextPage` are a
client's requests, `storeEvent` and `expire` what happens meanwhile. Rows are
selected by `KeyCondition` (the time range and what is looked up as a key) and
`FilterExpression` (type, name and anonymousId, which all behave the same and are
one field here), ordered by `Before`, cut by the cursor (`After`), and `DynamoPage`,
`CosmosPage`, `MemoryPage` build the page and the next cursor as each repository
does. `ReadCap` is the 1 MB at which DynamoDB cuts a read. Cosmos DB's continuation token
and the order of its ties are external: the token is taken to stand behind the last row
fetched, also when a `to` that defaults to now has moved on.

Two conversions decide what a query means, and both are in the model:

- An identifier is the sequence of its parts between `#`, and DynamoDB's two indexes know an
  application and a user, or a session, by both joined with `#` (`JoinedKey`): a
  concatenation. `DynamoKey` asks an index for the joined key and nothing else, as the code
  does, where the other repositories ask for each field (`Conditions`). `StartKeyFits` is
  what becomes of a cursor whose appId contains a `#`: the code takes it for a joined key of
  an older format and makes the start key of its first part, in a partition that is not
  asked for, and DynamoDB refuses the query.
- Times are strings in the code and are compared as strings. A time is the instant it
  denotes and the `Unit` of its last digit; `Text` gives its place among such strings, where
  `10:00:00.5Z` sorts after `10:00:00.57Z`, and `10:00:00Z` after every fraction of its
  second. The validation compares dates, in milliseconds (`Date`).

`Plain` is a query that the repositories answer as they say. Its times and those of the events
are `Alike`: text orders them as the instants are ordered. In DynamoDB it names a user or a
session, not both, and neither of the words under which events without one are filed; and
if it takes an index, no other application begins with the same part as its own. What is
promised of the content of pages is promised for these; order, disjointness and length of
pages hold for all.

`Walk` maps this state to `Paging`, for a plain query whose cursor is exact: a walk through
an ordered set that others change. What is `there` is what matches the query and has not
expired; the repository's order of it, ties included, is `before`; `position` is the
cursor. `ImplementsWalk` says that each page is the stretch behind the last one, as long
as it may be, and that a cursor is handed out exactly if something is left.

The validation of a query runs for every page (`ValidQuery`): `from` before `to`, and a
range of at most `Window`. `To` is the clock of the service for a query without
`to`; such a client may be refused half-way (`pageRefused`).

### Validation, Retention, Documents, Answers and Lifecycle

`Pipeline` knows an event by its key. These modules have its content, and no races.

- `Validation`: a JSON object is a function from the names of its members; what is
  undefined is not in the domain. `validatePropertiesDepth` and `validateStringLength`
  are the two recursions over properties and traits; the patterns of keys are the flag
  `named`, and `FitsLevel` has what is checked of one value. `Parsed` is what zod keeps of an event, `ValidEvent` and `Accepts` its verdict,
  `NormaliseEvent` the move of `actor.sessionId`. A batch's size is measured on the parsed
  data before the normalisation, as in the code; it is counted in members (`Size`), so that
  moving a sessionId into a new context adds one member, as in the code it adds the text
  of a context.
- `Retention`: `calculateExpiresAt` and `calculateCosmosDbTtl`, with the same roundings.
- `Documents`: `DynamoItem` lists its members as `putEvent` does; `CosmosDocument` spreads
  the event over them; `mapStoredEventToApiEvent` is the other list.
- `Answers`: a request passes a sequence of checks, and the first that fails decides
  (`FirstFailure`). For a query, `QueryError` is who throws and with which words, and
  `SharedGet` and `AzureGet` look at that as the adapters do.
- `Lifecycle`: `handlePost`; `handleProcessor` and `rejectBatch`, which may run again at any
  time, as after a redelivery; the three `storeEvents`, which take up to `BulkTime` from the
  computation of the rows; `drop`, the database's TTL; `handleGet`. A batch may hold an
  eventId twice, and a row on its way is known by its position in the batch (`air`): in
  memory the first of an id stays, and of the writes to one key of a database (`KeyOf`) that
  run together any may be the last (`LastWrites`). The in-memory store
  goes with Express: the local server wires it up without a consumer for its queue, the
  tests have one.

### WriteKeys

`version` counts the values the secret has had. `start` and `retire` are instances
that the platform starts and ends; on Azure Functions and in the local server a
process has the value from its start, on Lambda `fetchAwsSecret` loads it with the
first request that carries a key, and the instance keeps it (`cachedWriteKey` and
`secretCache`, which are filled together). `fetchFails` is a read that fails or finds
no value and keeps nothing. `validateWriteKey`, `missingWriteKey` and `notConfigured` are
the three ways to answer: accepted or 401, 401, and 500. `rotate` and `migrate` are the
operator and the clients; with `careful` they follow the procedure of
`docs/security-at-boundary.md`: add a key, deploy, move the clients, withdraw the old key.

## 3. What is checked

| Run | Instance | Shows |
|---|---|---|
| `pipeline_dynamo` | 2 requests, 2 invocations, 2 events, 2 records each, chunks of 1; crashes and failing calls of raw store, queue and database | type invariant; a pointer has its batch; a 202 is durable; rows belong to their batch; one row for each posted event; no silent loss |
| `pipeline_cosmos` | 2 requests, 2 invocations, 3 events, of which two are one eventId at two times and one is oversize; check and store failures, overlap | one row for each eventId of an application; no silent loss; **refinement** of `DurableLog` |
| `pipeline_memory` | 4 events, one eventId in two applications, one event oversize; in memory | the first write of an event is final, also between concurrent invocations; nothing is lost in silence but to a namesake in another application |
| `pipeline_settles` | an unparseable message, crashes, fetch failures; liveness | every message is deleted or dead-lettered; an accepted batch ends stored, with a failure on record, or in the dead-letter queue |
| `query_pages` | 4 events of 2 applications, 8 queries, three of them not plain, 3 repositories, pages of 1, a clock that passes the window; safety and liveness | no event twice, pages in order, only matches for a plain query, nothing skipped where the cursor is exact, full pages, paging ends; **refinement** of `Paging` |
| `lifecycle` | one of 16 000 requests, some with an eventId twice, 6 queries, 3 platforms, 7 instants | nothing beyond a limit is stored; the second validation agrees with the first but for the size; a session is found wherever the client put it; the answer is the event, its context included; rows expire on their day, rewritten or not; a bulk fails only for events about to expire; a 400 or 401 is the client's fault |
| `write_keys` | 2 clients, 2 instances, both platforms, a secret without a value, one key, two, the other; safety and liveness | an accepted key was valid; a key good all the time is never rejected, also after reads that failed; **no 401 in the documented rotation**; withdrawn keys die out |
| `pipeline_deleted_is_stored` | a rejected put | **violation**: the documents say a message stays if the processor fails |
| `pipeline_suppresses` | an eventId in two applications on Cosmos DB | **violation**: an event is skipped as processed that never was |
| `query_cosmos_skips` | pages of 1 on Cosmos DB | **violation**: an event is on no page |
| `query_dynamo_filters` | a filtered query on DynamoDB | **violation**: paging stops early |
| `error_contract` | one query with each mistake | **violation**: Azure Functions answers 500 to most of them |

**Bounds.** Two requests and two invocations are what the races of the write path
take: a redelivery against its first attempt, a client's retry against the
original, a late put against a later batch. Two events make a batch that can be
half stored, and with `ChunkSize` 1 they take two rounds of puts (25 in the code;
only the fact of several rounds matters). `MaxReceive` 2 (3 in the Terraform
files) has a first delivery, a redelivery and the redrive. `MaxEvents` stands for
100 and `RecordsMax` 2 for a batch size of 10. In `Query`, pages of one event make
each of an application's three events a page boundary, and the clock takes two steps, the second of which
makes the range of the open query too long; a millisecond is two instants, so that times have
one digit too few, as many as a date, and one too many. In `WriteKeys` two instances stand on two
sides of a rotation, and two clients keep one instance waiting while the other is
served; the values are those of a first deployment and a rotation. In `Lifecycle` every
limit is 2 (with `maxPayloadSize` 17 members, two events with a session in the actor fit, and
no longer when the sessions have moved into contexts), and the values of properties and traits are all that exceed one limit at one of
the levels 0 to 3, in arrays and objects; a retention of 6 instants at two for a second and
a clock from 4 to 10 have events that are too old when they come, or when they are written
again. Batches and invocations are interchangeable, and so are the two times of an eventId on
Cosmos DB, which looks at neither; symmetry reduces them in the two large safety runs, and
runs of liveness use none. The runs of `Pipeline`, `Query` and `Lifecycle` say
`CHECK_DEADLOCK FALSE` because the instance comes to rest: all requests made, all messages
gone, all pages read, the clock at its bound.

**Fairness.** `Fairness` of `Pipeline` assumes that the platform polls the queue,
runs what it starts, lets visibility timeouts elapse and applies the redrive
policy. It assumes nothing of clients, of late puts or of failures: a fault may
happen always or never. Weak fairness suffices for `Receive` because messages stay
visible until they are received. `FairSpec` of `Query` says that a client with a
cursor goes on asking. `PagingEnds` holds because there are finitely many events in
a range, however many are stored meanwhile. `FairSpec` of `WriteKeys` says that the
platform ends each instance some day, by recycling it or by a deployment.

**Where the model stops the code's reach.** `QueueDrains` is checked on DynamoDB
with one invocation at a time. `AcceptedSettles` promises no more than the code does: a
failure on record ends a batch too, because the processor logs and swallows it, which is
what `pipeline_deleted_is_stored` is about. `NoSilentLoss` holds on DynamoDB, whose check
never finds anything, and on Cosmos DB for the events of one application. Cosmos DB and the
memory look an eventId up without its application, so that an event can be dropped for a
namesake (`pipeline_suppresses`); `LostOnlyToNamesake` says that this is the only way.
`OneRowPerId` is the other side of the same choice: DynamoDB has the time in its key and a
check that always says no, and the property is not one of its runs. In `pipeline_cosmos` a bulk
that fails in part holds one eventId twice; of two eventIds only the proof speaks. `NothingSkipped` is
restricted by `ExactCursor` to the cases in which the cursor names the last row returned; the
other cases are the two violations of `PagingIsComplete`. `MatchesIfPlain`, `NothingSkipped`
and the refinement are about plain queries. A client whose appId contains a `#` is refused
its second page on DynamoDB (`StartKeyFits`): no run has one, the proofs cover it, and
`NothingSkipped` says nothing of a walk that was refused.

## 4. What is proved

`PipelineProofs` proves, for every set of events, batches, invocations and
messages, every backend and every combination of faults:

| Theorem | Statement |
|---|---|
| `TypeCorrect` | `Spec => []TypeOK` |
| `PointersHaveBatches` | `Spec => []PointerHasBatch` |
| `AcceptedBatchesAreDurable` | `Spec => []AcceptedIsDurable` |
| `RowsHaveBatches` | `Spec => []RowsComeFromBatches` |
| `RowsAreUnique` | `Spec => []OneRowPerEvent` |
| `IdsAreUnique` | `Backend \in {"memory", "cosmos"}` implies `Spec => []OneRowPerId` |
| `LossOnlyToNamesakes` | `Spec => []LostOnlyToNamesake` |
| `NothingLostSilently` | `Backend = "dynamo" \/ NoNamesakes` implies `Spec => []NoSilentLoss` |
| `FirstWritesAreFinal` | `Backend = "memory"` implies `Spec => FirstWriteIsFinal` |
| `PipelineImplementsDurableLog` | `Spec => ImplementsDurableLog` |

They rest on `BackendAssumption`, `EventAssumption` and `PipelineAssumption`, which
TLC evaluates in every run. The argument has these layers, each a lemma on the
initial state and on each action:

1. `PathInvariant` relates a request's place in `handleIngest` to the raw store and
   the queue: before `storeRawBatch` there is neither batch nor pointer, after it the
   batch is there. `PointerHasBatch` alone is not inductive: it does not say that the raw batch
   is there when the request is about to enqueue.
2. `CarryInvariant` says what an invocation carries: its record is a pointer that was
   received, and its unchecked, new and sent events are events of that batch. Rows
   and strays only ever come from there, which gives `RowsComeFromBatches`.
3. `RowInvariant`: `putEvent` removes the rows of its key before it adds one, and
   `FirstWrites` adds one for each key that has none. That keys are unique says something of
   events only because each key is made of what the client posted, and of nothing that a
   delivery adds: this gives `OneRowPerEvent`, and `OneRowPerId` where the key leaves the
   time out.
4. `LossInvariant` follows each message that is in an invocation's `batch` and no
   longer in its `rest` or hands: its events are accounted for, or a failure is logged. For
   the record in hand, each event of the batch is still to be checked, still to be
   sent, in the air, or accounted for, unless the bulk is broken. An event is accounted for
   if it has a row of its own application or, where the check ignores the application, if its
   eventId has one. It uses that no action takes either out of the store. It gives
   `LostOnlyToNamesake`, and `NoSilentLoss` where there is no such check or no two
   applications use one eventId.
5. The refinement maps each action to one of `Record`, `Acknowledge`, `Publish` or a
   stutter of `DurableLog`; `putEvent` publishes an id and replaces a row only by one
   with the same id.
6. `FirstWritesAreFinal`: where the backend is the memory of a process no put is ever in the
   air (`NoStrays`, from the part of `PipelineAssumption` that leaves the in-memory adapters
   without faults), so that `storeInMemory` is the one step that writes, and it only adds.

`WriteKeysProofs` proves, for every set of instances, clients and keys and every
sequence of values, from `WriteKeysAssumption`:

| Theorem | Statement |
|---|---|
| `KeysTypeCorrect` | `Spec => []TypeOK` |
| `AcceptedKeysWereValid` | `Spec => []AcceptedKeyWasValid` |
| `LastingKeysAreAccepted` | `Spec => []NeverRejectsLasting` |
| `RotationWithout401` | `Spec => []ZeroDowntime` |

`CacheInv` says that an instance holds nothing or a value the secret has had since the
instance was started. An answer is then about one of the values from `since` to `version`,
and both properties of answers only get weaker as the secret moves on. `CareInv` is the
invariant behind the rotation: each client of a careful operator holds a key that is
good now and has been since the start of each instance that is up.

`PagingProofs` proves of the abstract `Paging`, for any set of elements, order and page
size, that a client that has come to the end was shown all that was there from the
beginning to the end (`WalkShowsWhatLasts`).

`QueryProofs` proves, for every finite set of events, every set of queries, page limit, size
of a read, window and clock, whatever is stored and expires between two pages:

| Theorem | Statement |
|---|---|
| `QueryTypes` | `Spec => []TypeOK` |
| `EventsComeOnce` | `Spec => []NoEventTwice` |
| `PagesComeInOrder` | `Spec => []PagesInOrder` |
| `PagesComeFull` | `Spec => []PagesAreFull` |
| `PlainQueriesMatch` | `Spec => []MatchesIfPlain` |
| `NothingIsSkipped` | `Spec => []NothingSkipped` |
| `QueryImplementsPaging` | `Spec => ImplementsWalk` |

They rest on `QueryAssumption` (finitely many events, no eventId twice), `UnitAssumption` (of
two units one is a multiple of the other) and `TextAssumption` (a time is a multiple of its
unit; identifiers are sequences of parts, that of an application not empty; eventIds are
ordered). The argument:

1. `TextOrder`: of two times that are `Alike`, text and instant agree on the order, whatever
   the number of their digits. `JoinedKeys`: of two applications that do not begin with the
   same part, or are one, the joined keys differ as the pairs do. So what a plain query
   selects is what matches it (`PlainSelects`).
2. `Before` is a strict total order of the stored rows, ties included, for the tie rule of
   each repository (`BeforeTransitive`, `BeforeTotal`). In memory ties are in the order of
   the writes, so that this needs `Ranked`: no two stored events have the same rank. A finite
   set has a minimal element in such an order (`MinimalElement`), and so `First` and `Last`
   mean what they say.
3. `PagesFit`, one lemma for each repository: a page is a beginning of what is behind the
   cursor, within the limit, full if there is a cursor, and the cursor is not before any row
   of it. `ExactPage` adds that the cursor is the last row of the page, where it is exact.
4. `QueryInv`. None of the theorems' properties is inductive: that pages are disjoint
   now says nothing of the next one. What has been returned is stored, was selected, and is
   not behind the cursor (`ReturnedInv`); the rows of a page are before those of the next
   (`PagesApart`); what has matched all the time has been returned or is behind the
   cursor (`SteadyInv`). It survives storing and expiry because the order of two rows never
   changes, and a range without an end because its end only moves on (`EndMoves`).
5. The refinement maps `firstPage` to `Begin`, `nextPage` to `Continue`, `pageRefused` to
   `Refuse`, and storing, expiry and the clock to `Change` (`BeginWalk`, `ContinueWalk`,
   `RefuseWalk`, `ChangeWalk`).

`LifecycleProofs` proves, for every set of requests, values, limits, platforms, retention
and length of a second:

| Theorem | Statement |
|---|---|
| `LifecycleTypes` | `Spec => []TypeOK` |
| `SecondValidationNeverSurprises` | `Spec => []SecondValidationAgrees` |
| `SessionsAreFindable` | `Spec => []SessionFindable` |
| `AnswersAreFaithful` | `Spec => []AnswerIsTheEvent` |
| `RowsExpireOnTheirDay` | `Spec => []ExpiresOnItsDay` |
| `OnlyOldBatchesFail` | `Spec => []YoungBatchIsStored` |
| `ClientErrorsAreFinal` | `Spec => []FourHundredIsFinal` |
| `StoredIsValid` (in `ContentProofs`) | `Spec => []OnlyValidIsStored` |

They rest on `ValidationAssumption`, `RetentionAssumption`, `LifecycleAssumption` and
`InputAssumption`: a batch is a sequence of events, times are integers, properties and traits
are values, whose parts are values. Nothing is assumed of eventIds, which may repeat, or of
the sessions asked for, which may be the word under which DynamoDB files events that have
none. The argument:

1. `NormalForm`, about one event: what parsing and normalising make of a valid event is
   valid, has no member that the schema does not know, and has no session left to move.
   Hence (`SecondPass`) to parse and normalise an accepted batch again changes nothing, and
   only its size can be held against it. `SessionKept`, `NormalContext` and `NormalContent`
   say what the normalisation keeps, each member of the context among it.
2. `PostAnswers`: a platform's checks give 202 only to a flawless request and 400 or 401
   only to one that is not. So a raw batch came from a flawless request and is its
   normal form (`IngestInvariant`).
3. `RowsInvariant`: each row, and each row on its way, was made from an event of the raw
   batch, has its content and session, and carries the dates computed from it: for Cosmos DB
   a TTL of the time when the bulk began and the second of the write, at most `BulkTime`
   apart. It is inductive because rewriting computes the same from the same event.
4. The expiry theorems follow by arithmetic on `\div` (`Division`): one rounding on
   DynamoDB, two on Cosmos DB.
5. `StoredIsValid` compares the two recursions of the validation with what they are for:
   each value at each level is within the limits, and there is no level below the last.
   TLA+ defines a recursive function as a choice among the solutions of its equation, so
   that the equation has to be shown to have one. For the validations it is the largest set
   of values that is closed under parts and good at each (`DeepSolution`, `ShortSolution`;
   values need not even be well-founded), for `Level` what is reached by a descent of so many
   steps (`LevelEquation`). Then an induction on the level, as a least element of the levels
   that fail (`UpTo`), takes the verdict down (`LevelsAreGood`), and rows have no content but
   that of the event they were made from.

`Spread` is written out where TLC's `@@` would do: the provers cannot look into `@@`.

**Model-checked only.** The liveness properties `QueueDrains`, `AcceptedSettles`, `PagingEnds`
and `LastValuePrevails`: the prover has no rules for fairness. Every invariant and
every other action property of the passing runs is proved.

## 5. What is not modelled

Configuration loading, logging, correlation ids, health checks, the local server's wiring
and the deployment scripts: they keep no state the others read, or run once for a
deployment. The coercions of query strings (`preprocessQueryInput`), patterns and fixed
lengths of names and identifiers. Message retention and expired raw batches: 14 days and a
bucket policy. The Azure queue's own poison queue is the dead-letter queue here. Database
reads that lag behind writes are not distinguished from late writes.

Seen while reading, and not a run of its own:

- Times are compared as text, and both a query and an event may be written with any number
  of fraction digits: `10:00:00Z` sorts after `10:00:00.500Z`, so that an event from before
  `from` can match. `Text` has this order; a query for which it matters is not `Plain`, and
  `query_pages` has one.
- With `#` in identifiers, two pairs of application and user can have one key in DynamoDB's
  indexes. `DynamoKey` has this; queries of such applications are not `Plain`, and
  `query_pages` has one. A second page cannot be had there for an appId with a `#`
  (`StartKeyFits`).
- On DynamoDB a query with a userId and a sessionId ignores the sessionId
  (`dynamodb-event-repository.ts:83-97`); `README.md:340` and the specification's line 311
  document the filter, and the other two repositories apply it. `DynamoKey` does as the code
  does; such a query is not `Plain`, and `query_pages` has one.
- On DynamoDB an eventId that is sent again with another `occurredAt` gets a second row: the
  time belongs to its key, and `checkEventExists` always answers no
  (`dynamodb-event-repository.ts:259`). The specification calls the eventId unique (line 66)
  and speaks of "duplicate rows for the same event" (line 255), which `OneRowPerEvent` reads
  as the event that was posted, `OneRowPerId` as the eventId.
- `README.md:907` of the repository counts the retention from `receivedAt`; the code counts
  it from `occurredAt`, as its own comments say.
- On Express a malformed or oversize body is answered 500: the parser's errors are no
  `AppError`. `docs/ERROR_RESPONSES.md:32` and `:97` promise 400 and 413; no adapter ever
  answers 413. `ExpressPost` does what the code does.
- `MIN_EVENTS_PER_BATCH` has no upper bound; above `MAX_EVENTS_PER_BATCH` every batch is
  refused.

## 6. Plan

1. `Pipeline` and `Query` together: a client that pages while the processor writes, with rows
   that late puts replace.
