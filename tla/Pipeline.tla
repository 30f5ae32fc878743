------------------------------- MODULE Pipeline -------------------------------
(***************************************************************************)
(* The write path: ingest requests (handleIngest), the raw batch store, the *)
(* queue of pointer messages, and the processor invocations that move the   *)
(* events of a batch to the operational store (handleProcessor, called by   *)
(* createLambdaSQSProcessorHandler or                                       *)
(* createAzureFunctionQueueProcessorHandler).                               *)
(*                                                                         *)
(* One step is what happens between two awaits of the code, or one effect   *)
(* of an external service.  A batch identifier stands for the batchId and   *)
(* for the receivedAt stamp, which handleIngest takes in the same           *)
(* synchronous stretch of code.                                            *)
(***************************************************************************)
EXTENDS EventStore

CONSTANTS
  Garbage,      \* queue messages whose body does not parse, sent by others
  Worker,       \* concurrent processor invocations
  None,
  MaxEvents,    \* bound on the events of a request (maxEventsPerBatch)
  RecordsMax,   \* records of one invocation: SQS batch_size, 1 on Azure
  MaxReceive,   \* maxReceiveCount of the redrive policy
  ChunkSize,    \* puts dynamo's storeEvents has in the air (25 in the code)
  Oversize,     \* events whose batch ingest accepts and the processor rejects
  Faults        \* the failures of the environment that a run considers

Message == Batch \cup Garbage

ASSUME PipelineAssumption ==
  /\ Batch \cap Garbage = {}
  /\ None \notin Message
  /\ {MaxEvents, RecordsMax, MaxReceive, ChunkSize} \subseteq Nat \ {0}
  /\ Oversize \subseteq Event
  /\ Faults \subseteq {"raw", "queue", "reply", "fetch", "check", "store",
                       "crash", "overlap"}
  /\ Backend = "memory" => Faults = {}    \* nothing there can fail or outlive

VARIABLES
  ingest,     \* where the request that carries each batch is
  payload,    \* the events of each request
  raw,        \* raw store: the events stored for each batch, {} if none
  queue,      \* state of each pointer message
  receives,   \* ApproximateReceiveCount of each message
  job,        \* the processor invocations
  rows,       \* operational store
  strays,     \* puts whose caller stopped waiting for them
  faultLog    \* batches whose processing was logged as failed, with the cause

ingestVars == <<ingest, payload, raw>>
queueVars  == <<queue, receives>>
storeVars  == <<rows, strays>>
vars == <<ingest, payload, raw, queue, receives, job, rows, strays, faultLog>>

Phase == {"idle", "next", "fetch", "check", "store"}

JobType ==
       [pc        : Phase,
        batch     : SUBSET Message,          \* event.Records
        rest      : SUBSET Message,          \* records the loop has not reached
        msg       : Batch \cup {None},       \* the record being handled
        unchecked : SUBSET Event,            \* duplicate checks not settled
        fresh     : SUBSET Event,            \* newEvents not sent to the store
        sent      : SUBSET Event,            \* puts in the air
        broken    : BOOLEAN]                 \* an operation of the bulk failed

Handles(j) == j.pc \in {"fetch", "check", "store"}

\* An invocation holds a pointer while handleProcessor runs, and no put of it
\* is in the air otherwise.
Job == {j \in JobType : IF Handles(j) THEN j.msg \in Batch ELSE j.sent = {}}

Idle == [pc |-> "idle", batch |-> {}, rest |-> {}, msg |-> None,
         unchecked |-> {}, fresh |-> {}, sent |-> {}, broken |-> FALSE]

TypeOK ==
  /\ ingest \in [Batch -> {"idle", "storing", "enqueuing", "replying",
                           "accepted", "failed"}]
  /\ payload \in [Batch -> SUBSET Event]
  /\ raw \in [Batch -> SUBSET Event]
  /\ queue \in [Message -> {"absent", "visible", "inflight", "deleted", "dead"}]
  /\ receives \in [Message -> 0 .. MaxReceive]
  /\ job \in [Worker -> Job]
  /\ rows \subseteq Row
  /\ strays \subseteq Row
  /\ faultLog \subseteq Batch \X {"fetch", "invalid", "store"}

Init ==
  /\ ingest   = [b \in Batch |-> "idle"]
  /\ payload  = [b \in Batch |-> {}]
  /\ raw      = [b \in Batch |-> {}]
  /\ queue    = [m \in Message |-> IF m \in Garbage THEN "visible" ELSE "absent"]
  /\ receives = [m \in Message |-> 0]
  /\ job      = [w \in Worker |-> Idle]
  /\ rows     = {}
  /\ strays   = {}
  /\ faultLog = {}

-----------------------------------------------------------------------------
(* Ingest: store the raw batch, then enqueue the pointer, then answer 202.  *)
(* A retry of the client is another request, with a new batchId.            *)

handleIngest(b, E) ==
  /\ ingest[b] = "idle"
  /\ ingest'  = [ingest EXCEPT ![b] = "storing"]
  /\ payload' = [payload EXCEPT ![b] = E]
  /\ UNCHANGED <<raw, queueVars, job, storeVars, faultLog>>

\* Mutant: the promise of storeRawBatch is not awaited.
StoreNotAwaited(b) ==
  /\ ingest[b] = "storing"
  /\ raw'    \in {raw, [raw EXCEPT ![b] = payload[b]]}
  /\ ingest' = [ingest EXCEPT ![b] = "enqueuing"]
  /\ UNCHANGED <<payload, queueVars, job, storeVars, faultLog>>

storeRawBatch(b) ==
  /\ ingest[b] = "storing"
  /\ raw'    = [raw EXCEPT ![b] = payload[b]]
  /\ ingest' = [ingest EXCEPT ![b] = "enqueuing"]
  /\ UNCHANGED <<payload, queueVars, job, storeVars, faultLog>>

\* The call throws: the object may have been written all the same.
storeRawFails(b) ==
  /\ "raw" \in Faults
  /\ ingest[b] = "storing"
  /\ raw' \in {raw, [raw EXCEPT ![b] = payload[b]]}
  /\ ingest' = [ingest EXCEPT ![b] = "failed"]
  /\ UNCHANGED <<payload, queueVars, job, storeVars, faultLog>>

\* Mutant: the promise of enqueue is not awaited.
EnqueueNotAwaited(b) ==
  /\ ingest[b] = "enqueuing"
  /\ queue'  \in {queue, [queue EXCEPT ![b] = "visible"]}
  /\ ingest' = [ingest EXCEPT ![b] = "replying"]
  /\ UNCHANGED <<payload, raw, receives, job, storeVars, faultLog>>

enqueue(b) ==
  /\ ingest[b] = "enqueuing"
  /\ queue'  = [queue EXCEPT ![b] = "visible"]
  /\ ingest' = [ingest EXCEPT ![b] = "replying"]
  /\ UNCHANGED <<payload, raw, receives, job, storeVars, faultLog>>

\* Mutant: the error of the queue is logged and not thrown again.
EnqueueErrorSwallowed(b) ==
  /\ "queue" \in Faults
  /\ ingest[b] = "enqueuing"
  /\ queue' \in {queue, [queue EXCEPT ![b] = "visible"]}
  /\ ingest' = [ingest EXCEPT ![b] = "replying"]
  /\ UNCHANGED <<payload, raw, receives, job, storeVars, faultLog>>

\* The call throws: the message may have been sent all the same.
enqueueFails(b) ==
  /\ "queue" \in Faults
  /\ ingest[b] = "enqueuing"
  /\ queue' \in {queue, [queue EXCEPT ![b] = "visible"]}
  /\ ingest' = [ingest EXCEPT ![b] = "failed"]
  /\ UNCHANGED <<payload, raw, receives, job, storeVars, faultLog>>

reply(b) ==
  /\ ingest[b] = "replying"
  /\ ingest' = [ingest EXCEPT ![b] = "accepted"]
  /\ UNCHANGED <<payload, raw, queueVars, job, storeVars, faultLog>>

\* The instance dies, or the connection does: the client sees a failure.
ingestDies(b) ==
  /\ "reply" \in Faults
  /\ ingest[b] \in {"storing", "enqueuing", "replying"}
  /\ ingest' = [ingest EXCEPT ![b] = "failed"]
  /\ UNCHANGED <<payload, raw, queueVars, job, storeVars, faultLog>>

-----------------------------------------------------------------------------
(* The queue and its redrive policy *)

Becomes(w, j) == job' = [job EXCEPT ![w] = j]

\* The poller hands some visible messages to a new invocation.
Receive(w, S) ==
  /\ job[w] = Idle
  /\ S # {} /\ Cardinality(S) <= RecordsMax
  /\ \A m \in S : queue[m] = "visible" /\ receives[m] < MaxReceive
  /\ queue'    = [m \in Message |-> IF m \in S THEN "inflight" ELSE queue[m]]
  /\ receives' = [m \in Message |-> IF m \in S THEN receives[m] + 1 ELSE receives[m]]
  /\ Becomes(w, [Idle EXCEPT !.pc = "next", !.batch = S, !.rest = S])
  /\ UNCHANGED <<ingestVars, storeVars, faultLog>>

\* A received message that was not deleted comes back.  An invocation ends
\* long before that under the default timeouts (lambda_timeout 30 s,
\* sqs_visibility_timeout 300 s); both are variables of the deployment, and
\* the queue is at-least-once: "overlap" lets the invocation still run.
VisibilityExpires(m) ==
  /\ queue[m] = "inflight"
  /\ "overlap" \in Faults \/ \A w \in Worker : m \notin job[w].batch
  /\ queue' = [queue EXCEPT ![m] = "visible"]
  /\ UNCHANGED <<ingestVars, receives, job, storeVars, faultLog>>

\* Mutant: no redrive policy.
NoRedrive(m) ==
  /\ queue[m] = "visible" /\ receives[m] > MaxReceive
  /\ queue' = [queue EXCEPT ![m] = "dead"]
  /\ UNCHANGED <<ingestVars, receives, job, storeVars, faultLog>>

ToDeadLetter(m) ==
  /\ queue[m] = "visible" /\ receives[m] = MaxReceive
  /\ queue' = [queue EXCEPT ![m] = "dead"]
  /\ UNCHANGED <<ingestVars, receives, job, storeVars, faultLog>>

-----------------------------------------------------------------------------
(* One processor invocation: the loop over its records, each record handled *)
(* by handleProcessor.                                                      *)

\* Mutant: the next record starts with what the last one left.
KeepsLastRecord(w) == [job[w] EXCEPT !.pc = "next"]

\* handleProcessor returned: the loop goes on, whatever the result says.
Returned(w) == [Idle EXCEPT !.pc = "next", !.batch = job[w].batch,
                            !.rest = job[w].rest]

\* handleProcessor returned a failure, which is logged and nothing else.
LogAndReturn(w, cause) ==
  /\ faultLog' = faultLog \cup {<<job[w].msg, cause>>}
  /\ Becomes(w, Returned(w))

NextRecord(w) ==
  /\ job[w].pc = "next"
  /\ \E m \in job[w].rest \ Garbage :
       Becomes(w, [job[w] EXCEPT !.pc = "fetch", !.msg = m, !.rest = @ \ {m}])
  /\ UNCHANGED <<ingestVars, queueVars, storeVars, faultLog>>

\* JSON.parse throws and the whole invocation with it: no record of it is
\* deleted, those handled before this one included.
ParseFails(w) ==
  /\ job[w].pc = "next" /\ job[w].rest \cap Garbage # {}
  /\ Becomes(w, Idle)
  /\ UNCHANGED <<ingestVars, queueVars, storeVars, faultLog>>

\* The batch is fetched and validated again; a batch that fails is dropped.
getRawBatch(w) ==
  LET m == job[w].msg IN
  /\ job[w].pc = "fetch" /\ raw[m] # {}
  /\ \/ /\ raw[m] \cap Oversize = {}
        /\ Becomes(w, [job[w] EXCEPT !.pc = "check", !.unchecked = raw[m]])
        /\ UNCHANGED faultLog
     \/ /\ raw[m] \cap Oversize # {}
        /\ LogAndReturn(w, "invalid")
  /\ UNCHANGED <<ingestVars, queueVars, storeVars>>

getRawFails(w) ==
  /\ job[w].pc = "fetch"
  /\ raw[job[w].msg] = {} \/ "fetch" \in Faults
  /\ LogAndReturn(w, "fetch")
  /\ UNCHANGED <<ingestVars, queueVars, storeVars>>

\* One of the checks of Promise.allSettled; a rejected one counts as "new".
checkSettles(w, e) ==
  /\ job[w].pc = "check" /\ e \in job[w].unchecked
  /\ \E known \in {checkEventExists(rows, e)}
                    \cup (IF "check" \in Faults THEN {FALSE} ELSE {}) :
       Becomes(w, [job[w] EXCEPT !.unchecked = @ \ {e},
                                 !.fresh = IF known THEN @ ELSE @ \cup {e}])
  /\ UNCHANGED <<ingestVars, queueVars, storeVars, faultLog>>

\* All checks have settled; with no new event the record is done.
checksDone(w) ==
  /\ job[w].pc = "check" /\ job[w].unchecked = {}
  /\ Becomes(w, IF job[w].fresh = {} THEN Returned(w)
                ELSE [job[w] EXCEPT !.pc = "store"])
  /\ UNCHANGED <<ingestVars, queueVars, storeVars, faultLog>>

RowsOf(w, E) == {[event |-> e, receivedAt |-> job[w].msg] : e \in E}

\* Mutant: Map.set without looking, the last write wins.
LastWriteWins(w) ==
  /\ Backend = "memory" /\ job[w].pc = "store"
  /\ LET new == RowsOf(w, job[w].fresh) IN
     \E S \in FirstWrites({}, new) :
       rows' = {x \in rows : \A r \in S : ~SameRow(x.event, r.event)} \cup S
  /\ Becomes(w, Returned(w))
  /\ UNCHANGED <<ingestVars, queueVars, strays, faultLog>>

\* The in-memory storeEvents runs without yielding.
storeInMemory(w) ==
  /\ Backend = "memory" /\ job[w].pc = "store"
  /\ \E S \in FirstWrites(rows, RowsOf(w, job[w].fresh)) : rows' = rows \cup S
  /\ Becomes(w, Returned(w))
  /\ UNCHANGED <<ingestVars, queueVars, strays, faultLog>>

\* Mutant: only one chunk is sent.
SendOneChunk(w) ==
  /\ Backend # "memory" /\ job[w].pc = "store"
  /\ job[w].sent = {} /\ job[w].fresh # {}
  /\ \E C \in SUBSET job[w].fresh :
       /\ Cardinality(C) = ChunkSize
       /\ Becomes(w, [job[w] EXCEPT !.sent = C, !.fresh = {}])
  /\ UNCHANGED <<ingestVars, queueVars, storeVars, faultLog>>

\* dynamo sends a chunk when all the puts of the one before have ended; cosmos
\* sends one bulk request.
sendChunk(w) ==
  /\ Backend # "memory" /\ job[w].pc = "store"
  /\ job[w].sent = {} /\ job[w].fresh # {}
  /\ \E C \in SUBSET job[w].fresh :
       /\ \/ Backend = "cosmos" /\ C = job[w].fresh
          \/ /\ Backend = "dynamo" /\ C # {}
             /\ Cardinality(C) = ChunkSize \/ C = job[w].fresh
             /\ Cardinality(C) <= ChunkSize
       /\ Becomes(w, [job[w] EXCEPT !.sent = C, !.fresh = @ \ C])
  /\ UNCHANGED <<ingestVars, queueVars, storeVars, faultLog>>

putLands(w, e) ==
  /\ job[w].pc = "store" /\ e \in job[w].sent
  /\ rows' = putEvent(rows, [event |-> e, receivedAt |-> job[w].msg])
  /\ Becomes(w, [job[w] EXCEPT !.sent = @ \ {e}])
  /\ UNCHANGED <<ingestVars, queueVars, strays, faultLog>>

\* An operation of the cosmos bulk answers 400 or more; the others go on.
bulkItemFails(w, e) ==
  /\ "store" \in Faults /\ Backend = "cosmos"
  /\ job[w].pc = "store" /\ e \in job[w].sent
  /\ Becomes(w, [job[w] EXCEPT !.sent = @ \ {e}, !.broken = TRUE])
  /\ UNCHANGED <<ingestVars, queueVars, storeVars, faultLog>>

\* A put of a dynamo chunk is rejected, or the cosmos bulk call throws: nobody
\* waits for the requests in the air any more, each of which may still land.
storeRejects(w) ==
  /\ "store" \in Faults
  /\ job[w].pc = "store" /\ job[w].sent # {}
  /\ strays' = strays \cup RowsOf(w, job[w].sent)
  /\ LogAndReturn(w, "store")
  /\ UNCHANGED <<ingestVars, queueVars, rows>>

\* Mutant: the status codes of the bulk answer are not looked at.
BulkUnchecked(w) ==
  /\ Backend # "memory" /\ job[w].pc = "store"
  /\ job[w].sent = {} /\ job[w].fresh = {}
  /\ Becomes(w, Returned(w))
  /\ UNCHANGED <<ingestVars, queueVars, storeVars, faultLog>>

storeDone(w) ==
  /\ Backend # "memory" /\ job[w].pc = "store"
  /\ job[w].sent = {} /\ job[w].fresh = {}
  /\ \/ /\ ~job[w].broken
        /\ Becomes(w, Returned(w))
        /\ UNCHANGED faultLog
     \/ job[w].broken /\ LogAndReturn(w, "store")
  /\ UNCHANGED <<ingestVars, queueVars, storeVars>>

\* The invocation ended normally: the platform deletes all of its messages
\* (not a copy that has meanwhile gone to the dead-letter queue).
Complete(w) ==
  /\ job[w].pc = "next" /\ job[w].rest = {}
  /\ queue' = [m \in Message |-> IF m \in job[w].batch /\ queue[m] # "dead"
                                 THEN "deleted" ELSE queue[m]]
  /\ Becomes(w, Idle)
  /\ UNCHANGED <<ingestVars, receives, storeVars, faultLog>>

\* The invocation is killed (time limit, memory), or the deletion of its
\* messages fails.  Its requests in the air may still land.
Crash(w) ==
  /\ "crash" \in Faults
  /\ job[w].pc # "idle"
  /\ strays' = strays \cup RowsOf(w, job[w].sent)
  /\ Becomes(w, Idle)
  /\ UNCHANGED <<ingestVars, queueVars, rows, faultLog>>

strayLands(r) ==
  /\ r \in strays
  /\ strays' = strays \ {r}
  /\ rows'   = putEvent(rows, r)
  /\ UNCHANGED <<ingestVars, queueVars, job, faultLog>>

-----------------------------------------------------------------------------
Requests == {E \in SUBSET Event : E # {} /\ Cardinality(E) <= MaxEvents}

IngestStep(b) ==
  \/ \E E \in Requests : handleIngest(b, E)
  \/ storeRawBatch(b) \/ enqueue(b) \/ reply(b)

IngestFault(b) == storeRawFails(b) \/ enqueueFails(b) \/ ingestDies(b)

Work(w) ==
  \/ NextRecord(w) \/ getRawBatch(w) \/ checksDone(w)
  \/ \E e \in Event : checkSettles(w, e) \/ putLands(w, e)
  \/ storeInMemory(w) \/ sendChunk(w) \/ storeDone(w) \/ Complete(w)

WorkFault(w) ==
  \/ ParseFails(w) \/ getRawFails(w) \/ storeRejects(w) \/ Crash(w)
  \/ \E e \in Event : bulkItemFails(w, e)

Next ==
  \/ \E b \in Batch : IngestStep(b) \/ IngestFault(b)
  \/ \E w \in Worker :
       \/ \E S \in SUBSET Message : Receive(w, S)
       \/ Work(w) \/ WorkFault(w)
  \/ \E m \in Message : VisibilityExpires(m) \/ ToDeadLetter(m)
  \/ \E r \in strays : strayLands(r)

Spec == Init /\ [][Next]_vars

\* The platform polls the queue and runs what it starts; a message's timeout
\* elapses.  No failure, no client and no stray put is assumed to be fair.  An
\* unparseable record does not block: JSON.parse throws at once.
Fairness ==
  /\ \A w \in Worker : /\ WF_vars(\E S \in SUBSET Message : Receive(w, S))
                       /\ WF_vars(Work(w) \/ ParseFails(w) \/ getRawFails(w))
  /\ \A m \in Message : WF_vars(VisibilityExpires(m)) /\ WF_vars(ToDeadLetter(m))

FairSpec == Spec /\ Fairness

-----------------------------------------------------------------------------
(* Safety *)

Stored(b) == \A e \in raw[b] : HasRow(rows, e)
Logged(b) == \E c \in {"fetch", "invalid", "store"} : <<b, c>> \in faultLog

\* A pointer on the queue, in flight or already consumed refers to a raw batch
\* that was stored before it, whole: ingest-handler.ts writes the batch first,
\* and no failure or death between the two steps can invert them.
PointerHasBatch ==
  \A b \in Batch : queue[b] # "absent" => raw[b] = payload[b] /\ raw[b] # {}

\* A client that was answered 202 has its batch in the raw store and a pointer
\* to it on the queue (or beyond), whatever else failed.
AcceptedIsDurable ==
  \A b \in Batch :
    ingest[b] = "accepted" =>
      raw[b] = payload[b] /\ raw[b] # {} /\ queue[b] # "absent"

\* Every row, and every put still in the air, is an event of the raw batch
\* whose receivedAt it carries: an invocation that handles several records in
\* a row never mixes the events of one with the pointer of another.
RowsComeFromBatches ==
  \A r \in rows \cup strays : r.event \in raw[r.receivedAt]

\* An event that was posted has one row at most, however often it is delivered:
\* redeliveries, client retries, overlapping invocations and puts that land late
\* all write the same row (the specification's "duplicate deliveries do not create
\* duplicate rows for the same event").
OneRowPerEvent == \A r, s \in rows : r.event = s.event => r = s

\* The same for the eventId, which is what the client makes unique: an eventId
\* that an application sends again with another occurredAt is the same event.
\* The check does not prevent it alone: it fails, and two invocations, or two events
\* of one batch, pass it together.
OneRowPerId ==
  \A r, s \in rows :
    r.event.eventId = s.event.eventId /\ r.event.appId = s.event.appId => r = s

\* A message is deleted only when each event of its batch has a row, or when
\* the log says that the batch failed: no event is lost without a trace.
NoSilentLoss ==
  \A b \in Batch : queue[b] = "deleted" => Stored(b) \/ Logged(b)

\* What is left of NoSilentLoss where an eventId is looked up without its
\* application: an event that is neither stored nor logged as failed was taken
\* for an event of another application, which is stored under the same eventId.
LostOnlyToNamesake ==
  \A b \in Batch :
    queue[b] = "deleted" /\ ~Logged(b) =>
      \A e \in raw[b] :
        \/ HasRow(rows, e)
        \/ /\ Backend \in {"memory", "cosmos"}
           /\ \E r \in rows : /\ r.event.eventId = e.eventId
                             /\ r.event.appId # e.appId

(* Action properties *)

\* In the in-memory store the first write of an event is final: its row, with
\* the receivedAt of the batch that brought it, never changes.
FirstWriteIsFinal == [][rows \subseteq rows']_vars

(* Refinement *)

\* The pipeline implements the abstract write path of DurableLog: the raw store
\* is its log, the requests answered 202 are acked, and the ids that have a row
\* are visible.  In particular no replacement, late put or redelivery ever
\* takes an event out of the operational store.
Log == INSTANCE DurableLog WITH
         log     <- raw,
         acked   <- {b \in Batch : ingest[b] = "accepted"},
         visible <- {r.event.eventId : r \in rows}

ImplementsDurableLog == Log!Spec

(* Liveness *)

\* Every message that reaches the queue leaves it, deleted or dead-lettered,
\* however invocations crash.
QueueDrains ==
  \A m \in Message : queue[m] # "absent" ~> queue[m] \in {"deleted", "dead"}

\* A 202 is followed up: the events of the batch get their rows, or the log says
\* why they did not, or the pointer ends in the dead-letter queue; whatever
\* fails on the way between handleIngest and storeEvents.
AcceptedSettles ==
  \A b \in Batch :
    ingest[b] = "accepted" ~> Stored(b) \/ Logged(b) \/ queue[b] = "dead"

(* What the documents say and the code does not do *)

\* "Messages persist in queue if processor fails": a message is deleted only
\* when its events are in the operational store.
DeletedIsStored == \A b \in Batch : queue[b] = "deleted" => Stored(b)
=============================================================================
