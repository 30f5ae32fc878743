---------------------------- MODULE PipelineProofs ----------------------------
(***************************************************************************)
(* Proofs about Pipeline, for any number of batches, events and invocations *)
(* and any set of failures: type correctness, the order of the ingest       *)
(* path, the provenance and the uniqueness of rows, the absence of silent   *)
(* loss, and the refinement of DurableLog.                                  *)
(***************************************************************************)
EXTENDS Pipeline, TLAPS

-----------------------------------------------------------------------------
(* Type correctness *)

LEMMA IdleIsJob == Idle \in Job
  BY DEF Idle, Job, JobType, Phase, Handles

LEMMA BecomesTyped ==
  ASSUME TypeOK, NEW w \in Worker, NEW j \in Job, Becomes(w, j)
  PROVE  job' \in [Worker -> Job]
  BY DEF TypeOK, Becomes

LEMMA ReturnedIsJob ==
  ASSUME TypeOK, NEW w \in Worker PROVE Returned(w) \in Job
<1>1. job[w] \in JobType
  BY DEF TypeOK, Job
<1> QED
  BY <1>1 DEF Returned, Idle, Job, JobType, Phase, Handles

LEMMA RowsOfTyped ==
  ASSUME TypeOK, NEW w \in Worker, Handles(job[w]), NEW E \in SUBSET Event
  PROVE  RowsOf(w, E) \subseteq Row
<1>1. job[w].msg \in Batch
  BY DEF TypeOK, Job
<1> QED
  BY <1>1 DEF RowsOf, Row

\* Every variable keeps its type in every behaviour of the pipeline.
THEOREM TypeCorrect == Spec => []TypeOK
<1> USE PipelineAssumption DEF Message
<1>1. Init => TypeOK
  BY IdleIsJob DEF Init, TypeOK
<1>2. TypeOK /\ [Next]_vars => TypeOK'
  <2> SUFFICES ASSUME TypeOK, [Next]_vars PROVE TypeOK'
    OBVIOUS
  <2>1. ASSUME NEW b \in Batch, IngestStep(b) PROVE TypeOK'
    <3> USE DEF TypeOK
    <3>1. ASSUME NEW E \in Requests, handleIngest(b, E) PROVE TypeOK'
      BY <3>1 DEF handleIngest, Requests, queueVars, storeVars
    <3>2. CASE storeRawBatch(b)
      BY <3>2 DEF storeRawBatch, queueVars, storeVars
    <3>3. CASE enqueue(b)
      BY <3>3 DEF enqueue, storeVars
    <3>4. CASE reply(b)
      BY <3>4 DEF reply, queueVars, storeVars
    <3> QED
      BY <2>1, <3>1, <3>2, <3>3, <3>4 DEF IngestStep
  <2>2. ASSUME NEW b \in Batch, IngestFault(b) PROVE TypeOK'
    <3> USE DEF TypeOK
    <3>1. CASE storeRawFails(b)
      BY <3>1 DEF storeRawFails, queueVars, storeVars
    <3>2. CASE enqueueFails(b)
      BY <3>2 DEF enqueueFails, storeVars
    <3>3. CASE ingestDies(b)
      BY <3>3 DEF ingestDies, queueVars, storeVars
    <3> QED
      BY <2>2, <3>1, <3>2, <3>3 DEF IngestFault
  <2>3. ASSUME NEW w \in Worker, NEW S \in SUBSET Message, Receive(w, S)
        PROVE  TypeOK'
    <3>1. receives' \in [Message -> 0 .. MaxReceive]
      BY <2>3 DEF Receive, TypeOK
    <3>2. [Idle EXCEPT !.pc = "next", !.batch = S, !.rest = S] \in Job
      BY DEF Job, JobType, Phase, Idle, Handles
    <3>3. job' \in [Worker -> Job]
      BY <2>3, <3>2, BecomesTyped DEF Receive
    <3> QED
      BY <2>3, <3>1, <3>3 DEF Receive, TypeOK, ingestVars, storeVars
  <2>4. ASSUME NEW w \in Worker, Work(w) PROVE TypeOK'
    <3>0. job[w] \in JobType /\ job[w] \in Job
      BY DEF TypeOK, Job
    <3>1. CASE NextRecord(w)
      <4>1. PICK m \in job[w].rest \ Garbage :
              Becomes(w, [job[w] EXCEPT !.pc = "fetch", !.msg = m, !.rest = @ \ {m}])
        BY <3>1 DEF NextRecord
      <4>2. [job[w] EXCEPT !.pc = "fetch", !.msg = m, !.rest = @ \ {m}] \in Job
        BY <3>0 DEF Job, JobType, Phase, Handles
      <4> QED
        BY <3>1, <4>1, <4>2, BecomesTyped
        DEF NextRecord, TypeOK, ingestVars, queueVars, storeVars
    <3>2. CASE getRawBatch(w)
      <4>1. job[w].msg \in Batch /\ raw[job[w].msg] \in SUBSET Event
        BY <3>0, <3>2 DEF getRawBatch, Job, Handles, TypeOK
      <4>2. [job[w] EXCEPT !.pc = "check", !.unchecked = raw[job[w].msg]] \in Job
        BY <3>0, <4>1 DEF Job, JobType, Phase, Handles
      <4>3. job' \in [Worker -> Job]
        BY <3>2, <4>2, ReturnedIsJob, BecomesTyped DEF getRawBatch, LogAndReturn
      <4> QED
        BY <3>2, <4>1, <4>3
        DEF getRawBatch, LogAndReturn, TypeOK, ingestVars, queueVars, storeVars
    <3>3. CASE checksDone(w)
      <4>1. job[w].msg \in Batch
        BY <3>0, <3>3 DEF checksDone, Job, Handles
      <4>2. [job[w] EXCEPT !.pc = "store"] \in Job
        BY <3>0, <4>1 DEF Job, JobType, Phase, Handles
      <4>3. job' \in [Worker -> Job]
        BY <3>3, <4>2, ReturnedIsJob, BecomesTyped DEF checksDone
      <4> QED
        BY <3>3, <4>3 DEF checksDone, TypeOK, ingestVars, queueVars, storeVars
    <3>4. ASSUME NEW e \in Event, checkSettles(w, e) PROVE TypeOK'
      <4>1. PICK known :
              Becomes(w, [job[w] EXCEPT !.unchecked = @ \ {e},
                                        !.fresh = IF known THEN @ ELSE @ \cup {e}])
        BY <3>4 DEF checkSettles
      <4>2. [job[w] EXCEPT !.unchecked = @ \ {e},
                           !.fresh = IF known THEN @ ELSE @ \cup {e}] \in Job
        BY <3>0 DEF Job, JobType, Handles
      <4> QED
        BY <3>4, <4>1, <4>2, BecomesTyped
        DEF checkSettles, TypeOK, ingestVars, queueVars, storeVars
    <3>5. ASSUME NEW e \in Event, putLands(w, e) PROVE TypeOK'
      <4>1. job[w].msg \in Batch
        BY <3>0, <3>5 DEF putLands, Job, Handles
      <4>2. [job[w] EXCEPT !.sent = @ \ {e}] \in Job
        BY <3>0 DEF Job, JobType, Handles
      <4>3. rows' \subseteq Row
        BY <3>5, <4>1 DEF putLands, putEvent, Row, TypeOK
      <4> QED
        BY <3>5, <4>2, <4>3, BecomesTyped DEF putLands, TypeOK, ingestVars, queueVars
    <3>6. CASE storeInMemory(w)
      <4>1. RowsOf(w, job[w].fresh) \subseteq Row
        BY <3>0, <3>6, RowsOfTyped DEF storeInMemory, JobType, Handles
      <4>2. rows' \subseteq Row
        BY <3>6, <4>1 DEF storeInMemory, FirstWrites, TypeOK
      <4> QED
        BY <3>6, <4>2, ReturnedIsJob, BecomesTyped
        DEF storeInMemory, TypeOK, ingestVars, queueVars
    <3>7. CASE sendChunk(w)
      <4>1. PICK C \in SUBSET job[w].fresh :
              Becomes(w, [job[w] EXCEPT !.sent = C, !.fresh = @ \ C])
        BY <3>7 DEF sendChunk
      <4>2. job[w].pc = "store"
        BY <3>7 DEF sendChunk
      <4>3. [job[w] EXCEPT !.sent = C, !.fresh = @ \ C] \in Job
        BY <3>0, <4>2 DEF Job, JobType, Handles
      <4> QED
        BY <3>7, <4>1, <4>3, BecomesTyped
        DEF sendChunk, TypeOK, ingestVars, queueVars, storeVars
    <3>8. CASE storeDone(w)
      <4>1. job[w].msg \in Batch
        BY <3>0, <3>8 DEF storeDone, Job, Handles
      <4>2. job' \in [Worker -> Job]
        BY <3>8, ReturnedIsJob, BecomesTyped DEF storeDone, LogAndReturn
      <4> QED
        BY <3>8, <4>1, <4>2
        DEF storeDone, LogAndReturn, TypeOK, ingestVars, queueVars, storeVars
    <3>9. CASE Complete(w)
      <4>1. queue' \in [Message -> {"absent", "visible", "inflight", "deleted", "dead"}]
        BY <3>9 DEF Complete, TypeOK
      <4> QED
        BY <3>9, <4>1, IdleIsJob, BecomesTyped DEF Complete, TypeOK, ingestVars, storeVars
    <3> QED
      BY <2>4, <3>1, <3>2, <3>3, <3>4, <3>5, <3>6, <3>7, <3>8, <3>9 DEF Work
  <2>5. ASSUME NEW w \in Worker, WorkFault(w) PROVE TypeOK'
    <3>0. job[w] \in JobType /\ job[w] \in Job
      BY DEF TypeOK, Job
    <3>1. CASE ParseFails(w)
      BY <3>1, IdleIsJob, BecomesTyped
      DEF ParseFails, TypeOK, ingestVars, queueVars, storeVars
    <3>2. CASE getRawFails(w)
      <4>1. job[w].msg \in Batch
        BY <3>0, <3>2 DEF getRawFails, Job, Handles
      <4> QED
        BY <3>2, <4>1, ReturnedIsJob, BecomesTyped
        DEF getRawFails, LogAndReturn, TypeOK, ingestVars, queueVars, storeVars
    <3>3. CASE storeRejects(w)
      <4>1. job[w].msg \in Batch /\ RowsOf(w, job[w].sent) \subseteq Row
        BY <3>0, <3>3, RowsOfTyped DEF storeRejects, Job, JobType, Handles
      <4> QED
        BY <3>3, <4>1, ReturnedIsJob, BecomesTyped
        DEF storeRejects, LogAndReturn, TypeOK, ingestVars, queueVars
    <3>4. CASE Crash(w)
      <4>1. ASSUME Handles(job[w]) PROVE RowsOf(w, job[w].sent) \subseteq Row
        BY <3>0, <4>1, RowsOfTyped DEF JobType
      <4>2. RowsOf(w, job[w].sent) \subseteq Row
        BY <3>0, <4>1 DEF Job, RowsOf
      <4> QED
        BY <3>4, <4>2, <4>1, IdleIsJob, BecomesTyped DEF Crash, TypeOK, ingestVars, queueVars
    <3>5. ASSUME NEW e \in Event, bulkItemFails(w, e) PROVE TypeOK'
      <4>1. [job[w] EXCEPT !.sent = @ \ {e}, !.broken = TRUE] \in Job
        BY <3>0 DEF Job, JobType, Handles
      <4> QED
        BY <3>5, <4>1, BecomesTyped
        DEF bulkItemFails, TypeOK, ingestVars, queueVars, storeVars
    <3> QED
      BY <2>5, <3>1, <3>2, <3>3, <3>4, <3>5 DEF WorkFault
  <2>6. ASSUME NEW m \in Message, VisibilityExpires(m) \/ ToDeadLetter(m)
        PROVE  TypeOK'
    BY <2>6 DEF VisibilityExpires, ToDeadLetter, TypeOK, ingestVars, storeVars
  <2>7. ASSUME NEW r \in strays, strayLands(r) PROVE TypeOK'
    BY <2>7 DEF strayLands, putEvent, TypeOK, ingestVars, queueVars
  <2>8. CASE UNCHANGED vars
    BY <2>8 DEF vars, TypeOK
  <2> QED
    BY <2>1, <2>2, <2>3, <2>4, <2>5, <2>6, <2>7, <2>8 DEF Next
<1> QED
  BY <1>1, <1>2, PTL DEF Spec

-----------------------------------------------------------------------------
(* The ingest path *)

\* The strengthening of PointerHasBatch and AcceptedIsDurable: what each phase
\* of a request has already left in the raw store and on the queue.
IngestInv ==
  \A b \in Batch :
    /\ ingest[b] # "idle" => payload[b] # {}
    /\ ingest[b] \in {"idle", "storing"} => raw[b] = {} /\ queue[b] = "absent"
    /\ ingest[b] \in {"enqueuing", "replying", "accepted"} => raw[b] = payload[b]
    /\ ingest[b] \in {"replying", "accepted"} => queue[b] # "absent"
    /\ queue[b] # "absent" => raw[b] = payload[b] /\ raw[b] # {}

\* An invocation holds messages that were sent.
HeldInv ==
  \A w \in Worker :
    /\ job[w].rest \subseteq job[w].batch
    /\ \A m \in job[w].batch : queue[m] # "absent"

PathInv == IngestInv /\ HeldInv

LEMMA BecomesOne ==
  ASSUME TypeOK, NEW w \in Worker, NEW j, Becomes(w, j)
  PROVE  job'[w] = j /\ \A v \in Worker : v # w => job'[v] = job[v]
  BY DEF TypeOK, Becomes

\* The records of an invocation: its batch is fixed until it ends, and the loop
\* only moves forward.
BatchKept(w) ==
  \/ job'[w] = Idle
  \/ job'[w].batch = job[w].batch /\ job'[w].rest \subseteq job[w].rest

LEMMA WorkFrame ==
  ASSUME TypeOK, NEW w \in Worker, Work(w) \/ WorkFault(w)
  PROVE  /\ UNCHANGED <<ingestVars, receives>>
         /\ \A v \in Worker : v # w => job'[v] = job[v]
         /\ BatchKept(w)
         /\ UNCHANGED queue \/ Complete(w)
<1> USE DEF queueVars, Becomes
<1>0. job[w] \in JobType /\ job \in [Worker -> Job]
  BY DEF TypeOK, Job
<1>1. /\ Returned(w).batch = job[w].batch
      /\ Returned(w).rest = job[w].rest
  BY DEF Returned, Idle
<1>2. CASE NextRecord(w)
  BY <1>0, <1>2 DEF NextRecord, BatchKept, JobType
<1>3. CASE getRawBatch(w)
  <2>1. CASE LogAndReturn(w, "invalid")
    BY <1>0, <1>1, <1>3, <2>1 DEF getRawBatch, LogAndReturn, BatchKept
  <2>2. CASE job' = [job EXCEPT ![w] = [job[w] EXCEPT !.pc = "check",
                                               !.unchecked = raw[job[w].msg]]]
    BY <1>0, <1>3, <2>2 DEF getRawBatch, BatchKept, JobType
  <2> QED
    BY <1>3, <2>1, <2>2 DEF getRawBatch
<1>4. CASE checksDone(w)
  BY <1>0, <1>1, <1>4 DEF checksDone, BatchKept, JobType
<1>5. CASE \E e \in Event : checkSettles(w, e)
  BY <1>0, <1>5 DEF checkSettles, BatchKept, JobType
<1>6. CASE \E e \in Event : putLands(w, e)
  BY <1>0, <1>6 DEF putLands, BatchKept, JobType
<1>7. CASE storeInMemory(w)
  BY <1>0, <1>1, <1>7 DEF storeInMemory, BatchKept
<1>8. CASE sendChunk(w)
  BY <1>0, <1>8 DEF sendChunk, BatchKept, JobType
<1>9. CASE storeDone(w)
  BY <1>0, <1>1, <1>9 DEF storeDone, LogAndReturn, BatchKept
<1>10. CASE Complete(w)
  BY <1>0, <1>10 DEF Complete, BatchKept
<1>11. CASE ParseFails(w)
  BY <1>0, <1>11 DEF ParseFails, BatchKept
<1>12. CASE getRawFails(w)
  BY <1>0, <1>1, <1>12 DEF getRawFails, LogAndReturn, BatchKept
<1>13. CASE storeRejects(w)
  BY <1>0, <1>1, <1>13 DEF storeRejects, LogAndReturn, BatchKept
<1>14. CASE Crash(w)
  BY <1>0, <1>14 DEF Crash, BatchKept
<1>15. CASE \E e \in Event : bulkItemFails(w, e)
  BY <1>0, <1>15 DEF bulkItemFails, BatchKept, JobType
<1> QED
  BY <1>2, <1>3, <1>4, <1>5, <1>6, <1>7, <1>8, <1>9, <1>10, <1>11, <1>12,
     <1>13, <1>14, <1>15 DEF Work, WorkFault

\* What the steps of the queue and of the processor leave alone.
LEMMA ProcessorFrame ==
  ASSUME TypeOK, PathInv,
         \/ \E w \in Worker : \/ \E S \in SUBSET Message : Receive(w, S)
                             \/ Work(w) \/ WorkFault(w)
         \/ \E m \in Message : VisibilityExpires(m) \/ ToDeadLetter(m)
         \/ \E r \in strays : strayLands(r)
  PROVE  /\ UNCHANGED ingestVars
         /\ \A m \in Message : queue'[m] = "absent" <=> queue[m] = "absent"
<1>1. ASSUME NEW w \in Worker, NEW S \in SUBSET Message, Receive(w, S)
      PROVE  /\ UNCHANGED ingestVars
             /\ \A m \in Message : queue'[m] = "absent" <=> queue[m] = "absent"
  <2>1. \A m \in S : queue[m] = "visible"
    BY <1>1 DEF Receive
  <2>2. \A m \in Message : queue'[m] = IF m \in S THEN "inflight" ELSE queue[m]
    BY <1>1 DEF Receive
  <2> QED
    BY <1>1, <2>1, <2>2 DEF Receive
<1>2. ASSUME NEW w \in Worker, Work(w) \/ WorkFault(w)
      PROVE  /\ UNCHANGED ingestVars
             /\ \A m \in Message : queue'[m] = "absent" <=> queue[m] = "absent"
  <2>1. CASE Complete(w)
    BY <2>1 DEF Complete, PathInv, HeldInv
  <2> QED
    BY <1>2, <2>1, WorkFrame
<1>3. ASSUME NEW m \in Message, VisibilityExpires(m) \/ ToDeadLetter(m)
      PROVE  /\ UNCHANGED ingestVars
             /\ \A n \in Message : queue'[n] = "absent" <=> queue[n] = "absent"
  BY <1>3 DEF VisibilityExpires, ToDeadLetter, TypeOK
<1>4. ASSUME NEW r \in strays, strayLands(r)
      PROVE  /\ UNCHANGED ingestVars
             /\ \A m \in Message : queue'[m] = "absent" <=> queue[m] = "absent"
  BY <1>4 DEF strayLands, queueVars
<1> QED
  BY <1>1, <1>2, <1>3, <1>4

LEMMA IngestStepPath ==
  ASSUME TypeOK, PathInv, NEW b \in Batch, IngestStep(b) \/ IngestFault(b)
  PROVE  PathInv'
<1> USE PipelineAssumption DEF TypeOK, PathInv, IngestInv, HeldInv, Message
<1>1. ASSUME NEW E \in Requests, handleIngest(b, E) PROVE PathInv'
  BY <1>1 DEF handleIngest, Requests, queueVars
<1>2. CASE storeRawBatch(b)
  BY <1>2 DEF storeRawBatch, queueVars
<1>3. CASE enqueue(b)
  BY <1>3 DEF enqueue
<1>4. CASE reply(b)
  BY <1>4 DEF reply, queueVars
<1>5. CASE storeRawFails(b)
  BY <1>5 DEF storeRawFails, queueVars
<1>6. CASE enqueueFails(b)
  <2>1. CASE queue' = queue
    BY <1>6, <2>1 DEF enqueueFails
  <2>2. CASE queue' = [queue EXCEPT ![b] = "visible"]
    BY <1>6, <2>2 DEF enqueueFails
  <2> QED
    BY <1>6, <2>1, <2>2 DEF enqueueFails
<1>7. CASE ingestDies(b)
  BY <1>7 DEF ingestDies, queueVars
<1> QED
  BY <1>1, <1>2, <1>3, <1>4, <1>5, <1>6, <1>7 DEF IngestStep, IngestFault

LEMMA ReceivePath ==
  ASSUME TypeOK, PathInv, NEW w \in Worker, NEW S \in SUBSET Message, Receive(w, S)
  PROVE  PathInv'
<1> USE PipelineAssumption DEF Message
<1>1. /\ job'[w].batch = S /\ job'[w].rest = S
      /\ \A v \in Worker : v # w => job'[v] = job[v]
  BY DEF Receive, Idle, Becomes, TypeOK
<1>2. \A m \in Message : queue'[m] = IF m \in S THEN "inflight" ELSE queue[m]
  BY DEF Receive
<1>3. \A v \in Worker : job[v].batch \subseteq Message
  BY DEF TypeOK, Job, JobType
<1>4. \A m \in S : queue[m] = "visible"
  BY DEF Receive
<1>5. HeldInv'
  BY <1>1, <1>2, <1>3 DEF PathInv, HeldInv
<1>6. UNCHANGED ingestVars
  BY DEF Receive
<1> QED
  BY <1>2, <1>4, <1>5, <1>6 DEF PathInv, IngestInv, ingestVars

LEMMA WorkPath ==
  ASSUME TypeOK, PathInv, NEW w \in Worker, Work(w) \/ WorkFault(w)
  PROVE  PathInv'
<1> USE PipelineAssumption DEF Message
<1>1. \A m \in Message : (queue'[m] = "absent") <=> (queue[m] = "absent")
  <2>1. CASE Complete(w)
    BY <2>1 DEF Complete, PathInv, HeldInv
  <2> QED
    BY <2>1, WorkFrame
<1>2. \A v \in Worker : job[v].batch \subseteq Message
  BY DEF TypeOK, Job, JobType
<1>3. HeldInv'
  <2> SUFFICES ASSUME NEW v \in Worker
               PROVE  /\ job'[v].rest \subseteq job'[v].batch
                      /\ \A m \in job'[v].batch : queue'[m] # "absent"
    BY DEF HeldInv
  <2>1. CASE v = w
    <3>1. CASE job'[w] = Idle
      BY <2>1, <3>1 DEF Idle
    <3>2. CASE job'[w].batch = job[w].batch /\ job'[w].rest \subseteq job[w].rest
      BY <1>1, <1>2, <2>1, <3>2 DEF PathInv, HeldInv
    <3> QED
      BY <3>1, <3>2, WorkFrame DEF BatchKept
  <2>2. CASE v # w
    BY <1>1, <1>2, <2>2, WorkFrame DEF PathInv, HeldInv
  <2> QED
    BY <2>1, <2>2
<1>4. IngestInv'
  BY <1>1, WorkFrame DEF PathInv, IngestInv, ingestVars
<1> QED
  BY <1>3, <1>4 DEF PathInv

\* Batch and pointer exist as far as the request has come.
THEOREM PathInvariant == Spec => []PathInv
<1>1. Init => PathInv
  BY PipelineAssumption DEF Init, PathInv, IngestInv, HeldInv, Idle, Message
<1>2. TypeOK /\ PathInv /\ [Next]_vars => PathInv'
  <2> SUFFICES ASSUME TypeOK, PathInv, [Next]_vars PROVE PathInv'
    OBVIOUS
  <2>1. ASSUME NEW m \in Message, VisibilityExpires(m) \/ ToDeadLetter(m)
        PROVE  PathInv'
    <3>1. \A n \in Message : queue'[n] = "absent" <=> queue[n] = "absent"
      BY <2>1 DEF VisibilityExpires, ToDeadLetter, TypeOK
    <3>2. \A w \in Worker : job[w].batch \subseteq Message
      BY DEF TypeOK, Job, JobType
    <3>3. UNCHANGED <<ingestVars, job>>
      BY <2>1 DEF VisibilityExpires, ToDeadLetter
    <3> QED
      BY <3>1, <3>2, <3>3 DEF PathInv, IngestInv, HeldInv, ingestVars, Message
  <2>2. ASSUME NEW r \in strays, strayLands(r) PROVE PathInv'
    BY <2>2 DEF strayLands, PathInv, IngestInv, HeldInv, ingestVars, queueVars
  <2>3. CASE UNCHANGED vars
    BY <2>3 DEF vars, PathInv, IngestInv, HeldInv
  <2> QED
    BY <2>1, <2>2, <2>3, IngestStepPath, ReceivePath, WorkPath DEF Next
<1> QED
  BY <1>1, <1>2, TypeCorrect, PTL DEF Spec

\* The write-ahead order of the ingest path: no pointer without its raw batch.
THEOREM PointersHaveBatches == Spec => []PointerHasBatch
<1>1. PathInv => PointerHasBatch
  BY DEF PathInv, IngestInv, PointerHasBatch
<1> QED
  BY <1>1, PathInvariant, PTL

\* What a 202 answer means: raw batch stored whole, pointer sent.
THEOREM AcceptedBatchesAreDurable == Spec => []AcceptedIsDurable
<1>1. PathInv => AcceptedIsDurable
  BY DEF PathInv, IngestInv, AcceptedIsDurable
<1> QED
  BY <1>1, PathInvariant, PTL

-----------------------------------------------------------------------------
(* What only grows *)

\* What the pipeline takes for a stored event: DynamoDB goes by the row itself, the
\* others by the eventId, of whatever application.
Accounted(rs, e) == IF Backend = "dynamo" THEN HasRow(rs, e) ELSE HasId(rs, e)

LEMMA PutAccounts ==
  ASSUME NEW rs, NEW r, NEW e, Accounted(rs, e) PROVE Accounted(putEvent(rs, r), e)
  BY DEF Accounted, HasId, HasRow, putEvent, SameRow

LEMMA RowsGrow ==
  ASSUME [Next]_vars, NEW e, Accounted(rows, e) PROVE Accounted(rows', e)
<1>1. CASE rows' = rows
  BY <1>1
<1>2. CASE \E r : rows' = putEvent(rows, r)
  BY <1>2, PutAccounts
<1>3. CASE rows \subseteq rows'
  BY <1>3 DEF Accounted, HasId, HasRow
<1>4. ASSUME NEW b \in Batch, IngestStep(b) \/ IngestFault(b) PROVE rows' = rows
  BY <1>4
  DEF IngestStep, IngestFault, handleIngest, storeRawBatch, enqueue, reply,
      storeRawFails, enqueueFails, ingestDies, storeVars
<1>5. ASSUME NEW w \in Worker, Work(w) \/ WorkFault(w)
      PROVE  \/ rows' = rows \/ rows \subseteq rows'
             \/ \E r : rows' = putEvent(rows, r)
  BY <1>5
  DEF Work, WorkFault, NextRecord, getRawBatch, checksDone, checkSettles, putLands,
      storeInMemory, sendChunk, storeDone, Complete, ParseFails, getRawFails,
      storeRejects, Crash, bulkItemFails, storeVars
<1>6. ASSUME NEW m \in Message, VisibilityExpires(m) \/ ToDeadLetter(m) PROVE rows' = rows
  BY <1>6 DEF VisibilityExpires, ToDeadLetter, storeVars
<1>7. ASSUME NEW r \in strays, strayLands(r) PROVE rows' = putEvent(rows, r)
  BY <1>7 DEF strayLands
<1>8. ASSUME NEW w \in Worker, NEW S \in SUBSET Message, Receive(w, S) PROVE rows' = rows
  BY <1>8 DEF Receive, storeVars
<1>9. CASE UNCHANGED vars
  BY <1>9 DEF vars
<1> QED
  BY <1>1, <1>2, <1>3, <1>4, <1>5, <1>6, <1>7, <1>8, <1>9 DEF Next

LEMMA LogGrows == ASSUME [Next]_vars PROVE faultLog \subseteq faultLog'
  BY DEF Next, vars, IngestStep, IngestFault, handleIngest, storeRawBatch, enqueue,
         reply, storeRawFails, enqueueFails, ingestDies, Receive,
         VisibilityExpires, ToDeadLetter, Work, WorkFault, NextRecord, getRawBatch,
         checksDone, checkSettles, putLands, storeInMemory, sendChunk, storeDone,
         Complete, ParseFails, getRawFails, storeRejects, Crash, bulkItemFails,
         LogAndReturn, strayLands

\* A raw batch is written once.
LEMMA RawIsImmutable ==
  ASSUME TypeOK, PathInv, [Next]_vars, NEW b \in Batch, raw[b] # {}
  PROVE  raw'[b] = raw[b]
<1>1. ASSUME NEW c \in Batch, IngestStep(c) \/ IngestFault(c) PROVE raw'[b] = raw[b]
  BY <1>1
  DEF IngestStep, IngestFault, handleIngest, storeRawBatch, enqueue, reply,
      storeRawFails, enqueueFails, ingestDies, PathInv, IngestInv, TypeOK
<1>2. CASE UNCHANGED vars
  BY <1>2 DEF vars
<1> QED
  BY <1>1, <1>2, ProcessorFrame DEF Next, ingestVars

LEMMA SentStaysSent ==
  ASSUME TypeOK, PathInv, [Next]_vars, NEW m \in Message, queue[m] # "absent"
  PROVE  queue'[m] # "absent"
<1>1. ASSUME NEW c \in Batch, IngestStep(c) \/ IngestFault(c)
      PROVE  queue'[m] # "absent"
  BY <1>1
  DEF IngestStep, IngestFault, handleIngest, storeRawBatch, enqueue, reply,
      storeRawFails, enqueueFails, ingestDies, queueVars, TypeOK
<1>2. CASE UNCHANGED vars
  BY <1>2 DEF vars
<1> QED
  BY <1>1, <1>2, ProcessorFrame DEF Next

-----------------------------------------------------------------------------
(* What an invocation carries *)

\* The events an invocation still has in its hands belong to the raw batch of
\* the record it is handling, and it has none between two records.
Carries(w) ==
  LET j == job[w] IN
  /\ Handles(j) => j.msg \in j.batch
  /\ j.pc # "check" => j.unchecked = {}
  /\ j.pc \notin {"check", "store"} => j.fresh = {}
  /\ j.pc # "store" => j.sent = {} /\ j.broken = FALSE
  /\ Handles(j) => j.unchecked \cup j.fresh \cup j.sent \subseteq raw[j.msg]
  /\ Backend = "memory" => j.sent = {} /\ j.broken = FALSE

CarryInv == \A w \in Worker : Carries(w)

\* An invocation that does not move keeps what it carries.
LEMMA OthersCarry ==
  ASSUME TypeOK, PathInv, [Next]_vars,
         NEW v \in Worker, job'[v] = job[v], Carries(v)
  PROVE  Carries(v)'
<1>1. Handles(job[v]) => raw'[job[v].msg] = raw[job[v].msg]
  <2> SUFFICES ASSUME Handles(job[v]) PROVE raw'[job[v].msg] = raw[job[v].msg]
    OBVIOUS
  <2>1. job[v].msg \in Batch /\ job[v].msg \in job[v].batch
    BY DEF TypeOK, Job, Carries
  <2>2. raw[job[v].msg] # {}
    BY <2>1 DEF PathInv, HeldInv, IngestInv
  <2> QED
    BY <2>1, <2>2, RawIsImmutable
<1> QED
  BY <1>1 DEF Carries

LEMMA ReturnedFields ==
  ASSUME NEW w \in Worker
  PROVE  /\ Returned(w).pc = "next"
         /\ Returned(w).batch = job[w].batch /\ Returned(w).rest = job[w].rest
         /\ Returned(w).unchecked = {} /\ Returned(w).fresh = {}
         /\ Returned(w).sent = {} /\ Returned(w).broken = FALSE
  BY DEF Returned, Idle

LEMMA WorkCarries ==
  ASSUME TypeOK, PathInv, CarryInv, NEW w \in Worker, Work(w) \/ WorkFault(w)
  PROVE  Carries(w)'
<1> USE DEF Becomes, Handles
<1>0. /\ job[w] \in JobType /\ job \in [Worker -> Job] /\ Carries(w)
      /\ job[w].rest \subseteq job[w].batch
  BY DEF TypeOK, Job, CarryInv, PathInv, HeldInv
<1>1. raw' = raw
  BY WorkFrame DEF ingestVars
<1>2. ASSUME job'[w] = Returned(w) \/ job'[w] = Idle PROVE Carries(w)'
  <2>1. /\ job'[w].pc \in {"next", "idle"}
        /\ job'[w].unchecked = {} /\ job'[w].fresh = {} /\ job'[w].sent = {}
        /\ job'[w].broken = FALSE
    <3>1. CASE job'[w] = Returned(w)
      BY <3>1, ReturnedFields
    <3>2. CASE job'[w] = Idle
      BY <3>2 DEF Idle
    <3> QED
      BY <1>2, <3>1, <3>2
  <2> QED
    BY <2>1 DEF Carries
<1>3. CASE NextRecord(w)
  BY <1>0, <1>1, <1>3 DEF NextRecord, Carries, JobType
<1>4. CASE getRawBatch(w)
  <2>1. CASE LogAndReturn(w, "invalid")
    BY <1>0, <1>2, <2>1 DEF LogAndReturn
  <2>2. CASE job' = [job EXCEPT ![w] = [job[w] EXCEPT !.pc = "check",
                                               !.unchecked = raw[job[w].msg]]]
    BY <1>0, <1>1, <1>4, <2>2 DEF getRawBatch, Carries, JobType
  <2> QED
    BY <1>4, <2>1, <2>2 DEF getRawBatch
<1>5. CASE checksDone(w)
  <2>1. CASE job[w].fresh = {}
    BY <1>0, <1>2, <1>5, <2>1 DEF checksDone
  <2>2. CASE job[w].fresh # {}
    BY <1>0, <1>1, <1>5, <2>2 DEF checksDone, Carries, JobType
  <2> QED
    BY <2>1, <2>2
<1>6. CASE \E e \in Event : checkSettles(w, e)
  BY <1>0, <1>1, <1>6 DEF checkSettles, Carries, JobType
<1>7. CASE \E e \in Event : putLands(w, e)
  BY <1>0, <1>1, <1>7 DEF putLands, Carries, JobType
<1>8. CASE storeInMemory(w)
  BY <1>0, <1>2, <1>8 DEF storeInMemory
<1>9. CASE sendChunk(w)
  <2>1. PICK C \in SUBSET job[w].fresh :
          job' = [job EXCEPT ![w] = [job[w] EXCEPT !.sent = C, !.fresh = @ \ C]]
    BY <1>9 DEF sendChunk
  <2> QED
    BY <1>0, <1>1, <1>9, <2>1 DEF sendChunk, Carries, JobType
<1>10. CASE storeDone(w)
  BY <1>0, <1>2, <1>10 DEF storeDone, LogAndReturn
<1>11. CASE Complete(w) \/ ParseFails(w) \/ Crash(w)
  BY <1>0, <1>2, <1>11 DEF Complete, ParseFails, Crash
<1>12. CASE getRawFails(w) \/ storeRejects(w)
  BY <1>0, <1>2, <1>12 DEF getRawFails, storeRejects, LogAndReturn
<1>13. CASE \E e \in Event : bulkItemFails(w, e)
  BY <1>0, <1>1, <1>13 DEF bulkItemFails, Carries, JobType
<1> QED
  BY <1>3, <1>4, <1>5, <1>6, <1>7, <1>8, <1>9, <1>10, <1>11, <1>12, <1>13
  DEF Work, WorkFault

\* Who moves in a step: one invocation that works, one that starts, or none.
LEMMA Movers ==
  ASSUME TypeOK, [Next]_vars, NEW v \in Worker, job'[v] # job[v]
  PROVE  Work(v) \/ WorkFault(v) \/ \E S \in SUBSET Message : Receive(v, S)
<1>1. ASSUME NEW b \in Batch, IngestStep(b) \/ IngestFault(b) PROVE job' = job
  BY <1>1
  DEF IngestStep, IngestFault, handleIngest, storeRawBatch, enqueue, reply,
      storeRawFails, enqueueFails, ingestDies
<1>2. ASSUME NEW w \in Worker, Work(w) \/ WorkFault(w), w # v PROVE job'[v] = job[v]
  BY <1>2, WorkFrame
<1>3. ASSUME NEW w \in Worker, NEW S \in SUBSET Message, Receive(w, S), w # v
      PROVE  job'[v] = job[v]
  BY <1>3, BecomesOne DEF Receive
<1> QED
  BY <1>1, <1>2, <1>3
  DEF Next, vars, VisibilityExpires, ToDeadLetter, strayLands

\* Invocations carry pointers they received and events of their batches only.
THEOREM CarryInvariant == Spec => []CarryInv
<1>1. Init => CarryInv
  BY DEF Init, CarryInv, Carries, Idle, Handles
<1>2. TypeOK /\ PathInv /\ CarryInv /\ [Next]_vars => CarryInv'
  <2> SUFFICES ASSUME TypeOK, PathInv, CarryInv, [Next]_vars, NEW v \in Worker
               PROVE  Carries(v)'
    BY DEF CarryInv
  <2>1. CASE job'[v] = job[v]
    BY <2>1, OthersCarry DEF CarryInv
  <2>2. CASE Work(v) \/ WorkFault(v)
    BY <2>2, WorkCarries
  <2>3. ASSUME NEW S \in SUBSET Message, Receive(v, S) PROVE Carries(v)'
    <3>1. job'[v] = [Idle EXCEPT !.pc = "next", !.batch = S, !.rest = S]
      BY <2>3, BecomesOne DEF Receive
    <3> QED
      BY <3>1 DEF Carries, Idle, Handles
  <2> QED
    BY <2>1, <2>2, <2>3, Movers
<1> QED
  BY <1>1, <1>2, TypeCorrect, PathInvariant, PTL DEF Spec

-----------------------------------------------------------------------------
(* Rows *)

\* What the writes keep, whatever the key of the backend is.
KeysAreUnique == \A r, s \in rows : SameRow(r.event, s.event) => r = s

RowInv == RowsComeFromBatches /\ KeysAreUnique

\* The events whose rows an invocation writes or leaves in the air.
LEMMA CarriedEvents ==
  ASSUME TypeOK, CarryInv, NEW w \in Worker, NEW r,
         r \in RowsOf(w, job[w].sent) \cup RowsOf(w, job[w].fresh)
  PROVE  r.event \in raw[r.receivedAt]
<1>1. Carries(w)
  BY DEF CarryInv
<1> QED
  BY <1>1 DEF Carries, RowsOf, Handles

\* Which steps touch the operational store or the puts in the air.
LEMMA RowSteps ==
  ASSUME TypeOK, [Next]_vars
  PROVE  \/ UNCHANGED storeVars
         \/ \E w \in Worker :
              \/ \E e \in Event : putLands(w, e)
              \/ storeInMemory(w) \/ storeRejects(w) \/ Crash(w)
         \/ \E r \in strays : strayLands(r)
<1>1. ASSUME NEW b \in Batch, IngestStep(b) \/ IngestFault(b) PROVE UNCHANGED storeVars
  BY <1>1
  DEF IngestStep, IngestFault, handleIngest, storeRawBatch, enqueue, reply,
      storeRawFails, enqueueFails, ingestDies
<1>2. ASSUME NEW w \in Worker, NEW S \in SUBSET Message, Receive(w, S)
      PROVE  UNCHANGED storeVars
  BY <1>2 DEF Receive
<1>3. ASSUME NEW w \in Worker, Work(w)
      PROVE  \/ UNCHANGED storeVars
             \/ \E e \in Event : putLands(w, e)
             \/ storeInMemory(w)
  BY <1>3
  DEF Work, NextRecord, getRawBatch, checksDone, checkSettles, sendChunk, storeDone,
      Complete
<1>4. ASSUME NEW w \in Worker, WorkFault(w)
      PROVE  UNCHANGED storeVars \/ storeRejects(w) \/ Crash(w)
  BY <1>4 DEF WorkFault, ParseFails, getRawFails, bulkItemFails
<1>5. ASSUME NEW m \in Message, VisibilityExpires(m) \/ ToDeadLetter(m)
      PROVE  UNCHANGED storeVars
  BY <1>5 DEF VisibilityExpires, ToDeadLetter
<1> QED
  BY <1>1, <1>2, <1>3, <1>4, <1>5 DEF Next, vars, storeVars

LEMMA PutKeepsOneRow ==
  ASSUME NEW rs, \A x, y \in rs : SameRow(x.event, y.event) => x = y, NEW r
  PROVE  \A x, y \in putEvent(rs, r) : SameRow(x.event, y.event) => x = y
  BY DEF putEvent, SameRow

\* No write leaves two rows of one key.
THEOREM RowInvariant == Spec => []RowInv
<1>1. Init => RowInv
  BY DEF Init, RowInv, RowsComeFromBatches, KeysAreUnique
<1>2. TypeOK /\ PathInv /\ CarryInv /\ RowInv /\ [Next]_vars => RowInv'
  <2> SUFFICES ASSUME TypeOK, PathInv, CarryInv, RowInv, [Next]_vars PROVE RowInv'
    OBVIOUS
  <2>1. ASSUME NEW r \in Row, r.event \in raw[r.receivedAt]
        PROVE  r.event \in raw'[r.receivedAt]
    BY <2>1, RawIsImmutable DEF Row
  <2>2. CASE UNCHANGED storeVars
    BY <2>1, <2>2 DEF RowInv, RowsComeFromBatches, KeysAreUnique, storeVars, TypeOK
  <2>3. ASSUME NEW w \in Worker, NEW e \in Event, putLands(w, e) PROVE RowInv'
    <3> DEFINE r == [event |-> e, receivedAt |-> job[w].msg]
    <3>1. rows' = putEvent(rows, r) /\ strays' = strays /\ raw' = raw
      BY <2>3 DEF putLands, ingestVars
    <3>2. r \in RowsOf(w, job[w].sent)
      BY <2>3 DEF putLands, RowsOf
    <3>3. r.event \in raw[r.receivedAt]
      BY <3>2, CarriedEvents
    <3> HIDE DEF r
    <3>4. RowsComeFromBatches'
      BY <3>1, <3>3 DEF RowInv, RowsComeFromBatches, putEvent
    <3>5. KeysAreUnique'
      BY <3>1, PutKeepsOneRow DEF RowInv, KeysAreUnique
    <3> QED
      BY <3>4, <3>5 DEF RowInv
  <2>4. ASSUME NEW w \in Worker, storeInMemory(w) PROVE RowInv'
    <3>1. PICK S \in FirstWrites(rows, RowsOf(w, job[w].fresh)) : rows' = rows \cup S
      BY <2>4 DEF storeInMemory
    <3>2. raw' = raw /\ strays' = strays
      BY <2>4 DEF storeInMemory, ingestVars
    <3>3. \A r \in S : r.event \in raw[r.receivedAt]
      BY <3>1, CarriedEvents DEF FirstWrites
    <3>4. RowsComeFromBatches'
      BY <3>1, <3>2, <3>3 DEF RowInv, RowsComeFromBatches
    <3>5. KeysAreUnique'
      BY <3>1 DEF RowInv, KeysAreUnique, FirstWrites, SameRow
    <3> QED
      BY <3>4, <3>5 DEF RowInv
  <2>5. ASSUME NEW w \in Worker, storeRejects(w) \/ Crash(w) PROVE RowInv'
    <3>1. /\ rows' = rows /\ raw' = raw
          /\ strays' = strays \cup RowsOf(w, job[w].sent)
      BY <2>5 DEF storeRejects, Crash, ingestVars
    <3> QED
      BY <3>1, CarriedEvents DEF RowInv, RowsComeFromBatches, KeysAreUnique
  <2>6. ASSUME NEW r \in strays, strayLands(r) PROVE RowInv'
    <3>1. /\ rows' = putEvent(rows, r) /\ raw' = raw
          /\ strays' = strays \ {r}
      BY <2>6 DEF strayLands, ingestVars
    <3>2. RowsComeFromBatches'
      BY <3>1 DEF RowInv, RowsComeFromBatches, putEvent
    <3>3. KeysAreUnique'
      BY <3>1, PutKeepsOneRow DEF RowInv, KeysAreUnique
    <3> QED
      BY <3>2, <3>3 DEF RowInv
  <2> QED
    BY <2>2, <2>3, <2>4, <2>5, <2>6, RowSteps
<1> QED
  BY <1>1, <1>2, TypeCorrect, PathInvariant, CarryInvariant, PTL DEF Spec

\* Every row is an event of the batch whose receivedAt it carries.
THEOREM RowsHaveBatches == Spec => []RowsComeFromBatches
  BY RowInvariant, PTL DEF RowInv

\* No redelivery, retry, overlap or late put makes a second row for a posted event:
\* the key of each backend is made of what the client posted.
THEOREM RowsAreUnique == Spec => []OneRowPerEvent
<1>1. RowInv => OneRowPerEvent
  BY DEF RowInv, KeysAreUnique, OneRowPerEvent, SameRow
<1> QED
  BY <1>1, RowInvariant, PTL

\* Where the key leaves the time of the event out, an eventId has one row for each
\* application, also if the client sends it again with another time.
THEOREM IdsAreUnique ==
  ASSUME Backend \in {"memory", "cosmos"} PROVE Spec => []OneRowPerId
<1>1. RowInv => OneRowPerId
  BY DEF RowInv, KeysAreUnique, OneRowPerId, SameRow
<1> QED
  BY <1>1, RowInvariant, PTL

\* In memory no put is ever in the air: what may fail or be killed in the middle
\* of a write is a database.
NoStrays == Backend = "memory" => strays = {}

LEMMA StraysInvariant == Spec => []NoStrays
<1>1. Init => NoStrays
  BY DEF Init, NoStrays
<1>2. TypeOK /\ NoStrays /\ [Next]_vars => NoStrays'
  <2> SUFFICES ASSUME TypeOK, NoStrays, [Next]_vars, Backend = "memory"
               PROVE  strays' = {}
    BY DEF NoStrays
  <2>1. Faults = {} /\ strays = {}
    BY PipelineAssumption DEF NoStrays
  <2>2. ASSUME NEW w \in Worker, storeRejects(w) \/ Crash(w) PROVE FALSE
    BY <2>1, <2>2 DEF storeRejects, Crash
  <2>3. ASSUME NEW w \in Worker, NEW e \in Event, putLands(w, e) PROVE strays' = strays
    BY <2>3 DEF putLands
  <2>4. ASSUME NEW w \in Worker, storeInMemory(w) PROVE strays' = strays
    BY <2>4 DEF storeInMemory
  <2> QED
    BY <2>1, <2>2, <2>3, <2>4, RowSteps DEF storeVars
<1> QED
  BY <1>1, <1>2, TypeCorrect, PTL DEF Spec

\* The in-memory store never changes or drops a row, whichever invocations write
\* the same events at the same time.
THEOREM FirstWritesAreFinal ==
  ASSUME Backend = "memory" PROVE Spec => FirstWriteIsFinal
<1>1. TypeOK /\ CarryInv /\ NoStrays /\ [Next]_vars => [rows \subseteq rows']_vars
  <2> SUFFICES ASSUME TypeOK, CarryInv, NoStrays, [Next]_vars PROVE rows \subseteq rows'
    OBVIOUS
  <2>1. ASSUME NEW w \in Worker, NEW e \in Event, putLands(w, e) PROVE FALSE
    BY <2>1 DEF putLands, CarryInv, Carries
  <2>2. ASSUME NEW r \in strays, strayLands(r) PROVE FALSE
    BY <2>2 DEF NoStrays
  <2>3. ASSUME NEW w \in Worker, storeInMemory(w) PROVE rows \subseteq rows'
    BY <2>3 DEF storeInMemory
  <2>4. ASSUME NEW w \in Worker, storeRejects(w) \/ Crash(w) PROVE rows' = rows
    BY <2>4 DEF storeRejects, Crash
  <2> QED
    BY <2>1, <2>2, <2>3, <2>4, RowSteps DEF storeVars
<1> QED
  BY <1>1, TypeCorrect, CarryInvariant, StraysInvariant, PTL DEF Spec, FirstWriteIsFinal

-----------------------------------------------------------------------------
(* No event is lost without a trace *)

AllAccounted(b) == \A e \in raw[b] : Accounted(rows, e)
Traced(b) == AllAccounted(b) \/ Logged(b)

\* Where the events of the records an invocation has taken up are: those of an
\* earlier record are stored or logged, and each event of the current one is
\* still carried or accounted for, unless the bulk is known to have failed.
Settles(w) ==
  LET j == job[w] IN
  /\ \A b \in Batch : b \in j.batch /\ b \notin j.rest =>
       (Handles(j) /\ j.msg = b) \/ Traced(b)
  /\ j.pc \in {"check", "store"} /\ j.broken = FALSE =>
       \A e \in raw[j.msg] :
         e \in j.unchecked \cup j.fresh \cup j.sent \/ Accounted(rows, e)

NoUntracedLoss == \A b \in Batch : queue[b] = "deleted" => Traced(b)
LossInv == NoUntracedLoss /\ \A w \in Worker : Settles(w)

LEMMA TracedStays ==
  ASSUME TypeOK, PathInv, [Next]_vars, NEW b \in Batch, queue[b] # "absent", Traced(b)
  PROVE  Traced(b)'
<1>1. raw'[b] = raw[b]
  BY RawIsImmutable DEF PathInv, IngestInv
<1>2. CASE AllAccounted(b)
  BY <1>1, <1>2, RowsGrow DEF Traced, AllAccounted
<1>3. CASE Logged(b)
  BY <1>3, LogGrows DEF Traced, Logged
<1> QED
  BY <1>2, <1>3 DEF Traced

LEMMA OthersSettle ==
  ASSUME TypeOK, PathInv, CarryInv, [Next]_vars,
         NEW v \in Worker, job'[v] = job[v], Settles(v)
  PROVE  Settles(v)'
<1>1. \A b \in Batch : b \in job[v].batch /\ Traced(b) => Traced(b)'
  BY TracedStays DEF PathInv, HeldInv
<1>2. job[v].pc \in {"check", "store"} => raw'[job[v].msg] = raw[job[v].msg]
  <2> SUFFICES ASSUME job[v].pc \in {"check", "store"}
               PROVE  raw'[job[v].msg] = raw[job[v].msg]
    OBVIOUS
  <2>1. job[v].msg \in Batch /\ job[v].msg \in job[v].batch
    BY DEF TypeOK, Job, CarryInv, Carries, Handles
  <2> QED
    BY <2>1, RawIsImmutable DEF PathInv, HeldInv, IngestInv
<1> QED
  BY <1>1, <1>2, RowsGrow DEF Settles

LEMMA WorkSettles ==
  ASSUME TypeOK, PathInv, CarryInv, NEW w \in Worker, Settles(w),
         Work(w) \/ WorkFault(w), [Next]_vars
  PROVE  Settles(w)'
<1> USE DEF Becomes, Handles
<1>0. /\ job[w] \in JobType /\ job \in [Worker -> Job] /\ Carries(w)
      /\ Handles(job[w]) => job[w].msg \in Batch
  BY DEF TypeOK, Job, CarryInv
<1>1. raw' = raw
  BY WorkFrame DEF ingestVars
<1>m. PICK m : m = job[w].msg      \* the record, whatever the job becomes
  OBVIOUS
<1>2. \A b \in Batch : b \in job[w].batch /\ Traced(b) => Traced(b)'
  BY TracedStays DEF PathInv, HeldInv
<1>3. ASSUME job'[w] = Idle PROVE Settles(w)'
  BY <1>3 DEF Settles, Idle
\* After handleProcessor returns, the record it handled has to be traced.
<1>4. ASSUME Handles(job[w]), Traced(m)', job'[w] = Returned(w)
      PROVE  Settles(w)'
  <2>1. /\ job'[w].pc = "next"
        /\ job'[w].batch = job[w].batch /\ job'[w].rest = job[w].rest
    BY <1>4, ReturnedFields
  <2>2. \A b \in Batch : b \in job[w].batch /\ b \notin job[w].rest => Traced(b)'
    BY <1>2, <1>4, <1>m DEF Settles
  <2> QED
    BY <2>1, <2>2 DEF Settles
<1>5. ASSUME NEW cause \in {"fetch", "invalid", "store"}, Handles(job[w]),
             LogAndReturn(w, cause)
      PROVE  Settles(w)'
  <2>1. <<m, cause>> \in faultLog'
    BY <1>5, <1>m DEF LogAndReturn
  <2>2. Traced(m)'
    BY <2>1 DEF Traced, Logged
  <2> QED
    BY <1>0, <1>4, <1>5, <2>2 DEF LogAndReturn
<1>6. CASE NextRecord(w)
  <2>1. PICK n \in job[w].rest \ Garbage :
          job' = [job EXCEPT ![w] = [job[w] EXCEPT !.pc = "fetch", !.msg = n,
                                                   !.rest = @ \ {n}]]
    BY <1>6 DEF NextRecord
  <2>2. /\ job'[w].pc = "fetch" /\ job'[w].msg = n
        /\ job'[w].batch = job[w].batch /\ job'[w].rest = job[w].rest \ {n}
    BY <1>0, <2>1 DEF JobType
  <2>3. \A b \in Batch : b \in job[w].batch /\ b \notin job[w].rest => Traced(b)
    BY <1>6 DEF NextRecord, Settles
  <2> QED
    BY <1>2, <2>2, <2>3 DEF Settles
<1>7. CASE getRawBatch(w)
  <2>1. CASE LogAndReturn(w, "invalid")
    BY <1>5, <1>7, <2>1 DEF getRawBatch
  <2>2. CASE job' = [job EXCEPT ![w] = [job[w] EXCEPT !.pc = "check",
                                               !.unchecked = raw[job[w].msg]]]
    <3>1. /\ job'[w].pc = "check" /\ job'[w].msg = job[w].msg
          /\ job'[w].batch = job[w].batch /\ job'[w].rest = job[w].rest
          /\ job'[w].unchecked = raw[job[w].msg]
      BY <1>0, <2>2 DEF JobType
    <3> QED
      BY <1>1, <1>2, <1>7, <3>1 DEF getRawBatch, Settles
  <2> QED
    BY <1>7, <2>1, <2>2 DEF getRawBatch
<1>8. CASE checksDone(w)
  <2>1. CASE job[w].fresh = {}
    <3>1. job'[w] = Returned(w)
      BY <1>0, <1>8, <2>1 DEF checksDone
    <3>2. \A e \in raw[m] : Accounted(rows, e)
      BY <1>0, <1>8, <1>m, <2>1 DEF checksDone, Carries, Settles
    <3>3. AllAccounted(m)'
      BY <1>1, <3>2, RowsGrow DEF AllAccounted
    <3> QED
      BY <1>4, <1>8, <3>1, <3>3 DEF checksDone, Traced
  <2>2. CASE job[w].fresh # {}
    <3>1. /\ job'[w].pc = "store" /\ job'[w].msg = job[w].msg
          /\ job'[w].batch = job[w].batch /\ job'[w].rest = job[w].rest
          /\ job'[w].unchecked = job[w].unchecked /\ job'[w].fresh = job[w].fresh
          /\ job'[w].sent = job[w].sent /\ job'[w].broken = job[w].broken
      BY <1>0, <1>8, <2>2 DEF checksDone, JobType
    <3> QED
      BY <1>1, <1>2, <1>8, <3>1, RowsGrow DEF checksDone, Settles
  <2> QED
    BY <2>1, <2>2
<1>9. ASSUME NEW e \in Event, checkSettles(w, e) PROVE Settles(w)'
  <2>1. PICK known \in {checkEventExists(rows, e)}
                          \cup (IF "check" \in Faults THEN {FALSE} ELSE {}) :
          job' = [job EXCEPT ![w] =
                    [job[w] EXCEPT !.unchecked = @ \ {e},
                                   !.fresh = IF known THEN @ ELSE @ \cup {e}]]
    BY <1>9 DEF checkSettles
  <2>2. /\ job'[w].pc = "check" /\ job'[w].msg = job[w].msg
        /\ job'[w].batch = job[w].batch /\ job'[w].rest = job[w].rest
        /\ job'[w].unchecked = job[w].unchecked \ {e}
        /\ job'[w].fresh = IF known THEN job[w].fresh ELSE job[w].fresh \cup {e}
        /\ job'[w].sent = job[w].sent /\ job'[w].broken = job[w].broken
    BY <1>0, <1>9, <2>1 DEF checkSettles, JobType
  <2>3. known => Accounted(rows', e)
    BY <2>1, RowsGrow DEF checkEventExists, Accounted
  <2> QED
    BY <1>1, <1>2, <1>9, <2>2, <2>3, RowsGrow DEF checkSettles, Settles
<1>10. ASSUME NEW e \in Event, putLands(w, e) PROVE Settles(w)'
  <2>1. /\ job'[w].pc = "store" /\ job'[w].msg = job[w].msg
        /\ job'[w].batch = job[w].batch /\ job'[w].rest = job[w].rest
        /\ job'[w].unchecked = job[w].unchecked /\ job'[w].fresh = job[w].fresh
        /\ job'[w].sent = job[w].sent \ {e} /\ job'[w].broken = job[w].broken
    BY <1>0, <1>10 DEF putLands, JobType
  <2>2. [event |-> e, receivedAt |-> job[w].msg] \in rows'
    BY <1>10 DEF putLands, putEvent
  <2>3. Accounted(rows', e)
    BY <2>2 DEF Accounted, HasId, HasRow
  <2> QED
    BY <1>1, <1>2, <1>10, <2>1, <2>3, RowsGrow DEF putLands, Settles
<1>11. CASE storeInMemory(w)
  <2>1. PICK S \in FirstWrites(rows, RowsOf(w, job[w].fresh)) : rows' = rows \cup S
    BY <1>11 DEF storeInMemory
  <2>2. ASSUME NEW e \in job[w].fresh PROVE Accounted(rows', e)
    <3> DEFINE n == [event |-> e, receivedAt |-> job[w].msg]
    <3>1. n \in RowsOf(w, job[w].fresh)
      BY DEF RowsOf
    <3>2. \E x \in rows \cup S : SameRow(x.event, n.event)
      BY <2>1, <3>1 DEF FirstWrites
    <3> QED
      BY <1>11, <2>1, <3>2 DEF Accounted, HasId, SameRow, storeInMemory
  <2>3. \A e \in raw[m] : Accounted(rows', e)
    BY <1>0, <1>11, <1>m, <2>2, RowsGrow DEF storeInMemory, Carries, Settles
  <2>4. AllAccounted(m)'
    BY <1>1, <2>3 DEF AllAccounted
  <2> QED
    BY <1>0, <1>4, <1>11, <2>4 DEF storeInMemory, Traced
<1>12. CASE sendChunk(w)
  <2>1. PICK C \in SUBSET job[w].fresh :
          job' = [job EXCEPT ![w] = [job[w] EXCEPT !.sent = C, !.fresh = @ \ C]]
    BY <1>12 DEF sendChunk
  <2>2. /\ job'[w].pc = "store" /\ job'[w].msg = job[w].msg
        /\ job'[w].batch = job[w].batch /\ job'[w].rest = job[w].rest
        /\ job'[w].unchecked = job[w].unchecked /\ job'[w].fresh = job[w].fresh \ C
        /\ job'[w].sent = C /\ job'[w].broken = job[w].broken
    BY <1>0, <1>12, <2>1 DEF sendChunk, JobType
  <2> QED
    BY <1>1, <1>2, <1>12, <2>2, RowsGrow DEF sendChunk, Settles
<1>13. CASE storeDone(w)
  <2>1. CASE job[w].broken
    BY <1>5, <1>13, <2>1 DEF storeDone
  <2>2. CASE ~job[w].broken
    <3>1. job[w].broken = FALSE
      BY <1>0, <2>2 DEF JobType
    <3>2. \A e \in raw[m] : Accounted(rows, e)
      BY <1>0, <1>13, <1>m, <3>1 DEF storeDone, Carries, Settles
    <3>3. AllAccounted(m)'
      BY <1>1, <3>2, RowsGrow DEF AllAccounted
    <3> QED
      BY <1>0, <1>4, <1>13, <2>2, <3>3 DEF storeDone, Traced
  <2> QED
    BY <2>1, <2>2
<1>14. CASE Complete(w) \/ ParseFails(w) \/ Crash(w)
  BY <1>0, <1>3, <1>14 DEF Complete, ParseFails, Crash
<1>15. CASE getRawFails(w) \/ storeRejects(w)
  BY <1>5, <1>15 DEF getRawFails, storeRejects
<1>16. ASSUME NEW e \in Event, bulkItemFails(w, e) PROVE Settles(w)'
  <2>1. /\ job'[w].pc = "store" /\ job'[w].msg = job[w].msg
        /\ job'[w].batch = job[w].batch /\ job'[w].rest = job[w].rest
        /\ job'[w].broken = TRUE
    BY <1>0, <1>16 DEF bulkItemFails, JobType
  <2> QED
    BY <1>2, <1>16, <2>1 DEF bulkItemFails, Settles
<1> QED
  BY <1>6, <1>7, <1>8, <1>9, <1>10, <1>11, <1>12, <1>13, <1>14, <1>15, <1>16
  DEF Work, WorkFault

\* A message is deleted by an invocation that has gone through its whole batch.
LEMMA Deletions ==
  ASSUME TypeOK, [Next]_vars, NEW b \in Batch, queue'[b] = "deleted"
  PROVE  queue[b] = "deleted" \/ \E w \in Worker : Complete(w) /\ b \in job[w].batch
<1> USE DEF Message
<1>1. ASSUME NEW c \in Batch, IngestStep(c) \/ IngestFault(c)
      PROVE  queue[b] = "deleted"
  BY <1>1
  DEF IngestStep, IngestFault, handleIngest, storeRawBatch, enqueue, reply,
      storeRawFails, enqueueFails, ingestDies, queueVars, TypeOK
<1>2. ASSUME NEW w \in Worker, NEW S \in SUBSET Message, Receive(w, S)
      PROVE  queue[b] = "deleted"
  <2>1. queue'[b] = IF b \in S THEN "inflight" ELSE queue[b]
    BY <1>2 DEF Receive
  <2> QED
    BY <2>1
<1>3. ASSUME NEW w \in Worker, Work(w) \/ WorkFault(w)
      PROVE  queue[b] = "deleted" \/ (Complete(w) /\ b \in job[w].batch)
  <2>1. CASE Complete(w)
    BY <2>1 DEF Complete
  <2> QED
    BY <1>3, <2>1, WorkFrame
<1>4. ASSUME NEW m \in Message, VisibilityExpires(m) \/ ToDeadLetter(m)
      PROVE  queue[b] = "deleted"
  BY <1>4 DEF VisibilityExpires, ToDeadLetter, TypeOK
<1> QED
  BY <1>1, <1>2, <1>3, <1>4 DEF Next, vars, strayLands, queueVars

\* Each message that an invocation is through with is stored or has its failure logged.
THEOREM LossInvariant == Spec => []LossInv
<1>1. Init => LossInv
  BY PipelineAssumption
  DEF Init, LossInv, NoUntracedLoss, Settles, Idle, Handles, Message
<1>2. TypeOK /\ PathInv /\ CarryInv /\ LossInv /\ [Next]_vars => LossInv'
  <2> SUFFICES ASSUME TypeOK, PathInv, CarryInv, LossInv, [Next]_vars PROVE LossInv'
    OBVIOUS
  <2>1. ASSUME NEW v \in Worker PROVE Settles(v)'
    <3>1. CASE job'[v] = job[v]
      BY <3>1, OthersSettle DEF LossInv
    <3>2. CASE Work(v) \/ WorkFault(v)
      BY <3>2, WorkSettles DEF LossInv
    <3>3. ASSUME NEW S \in SUBSET Message, Receive(v, S) PROVE Settles(v)'
      <4>1. job'[v] = [Idle EXCEPT !.pc = "next", !.batch = S, !.rest = S]
        BY <3>3, BecomesOne DEF Receive
      <4> QED
        BY <4>1 DEF Settles, Idle
    <3> QED
      BY <3>1, <3>2, <3>3, Movers
  <2>2. ASSUME NEW b \in Batch, queue'[b] = "deleted" PROVE Traced(b)'
    <3>1. CASE queue[b] = "deleted"
      BY <3>1, TracedStays DEF LossInv, NoUntracedLoss, Traced
    <3>2. ASSUME NEW w \in Worker, Complete(w), b \in job[w].batch PROVE Traced(b)'
      <4>1. Traced(b)
        BY <3>2 DEF LossInv, Settles, Complete, Handles
      <4> QED
        BY <3>2, <4>1, TracedStays DEF PathInv, HeldInv
    <3> QED
      BY <2>2, <3>1, <3>2, Deletions
  <2> QED
    BY <2>1, <2>2 DEF LossInv, NoUntracedLoss, Traced
<1> QED
  BY <1>1, <1>2, TypeCorrect, PathInvariant, CarryInvariant, PTL DEF Spec

\* A deleted message leaves an error in the log, or each of its events stored or, where
\* an eventId is looked up without its application, mistaken for one that is.
THEOREM LossOnlyToNamesakes == Spec => []LostOnlyToNamesake
<1>1. TypeOK /\ LossInv => LostOnlyToNamesake
  <2> SUFFICES ASSUME TypeOK, LossInv, NEW b \in Batch, queue[b] = "deleted", ~Logged(b),
                      NEW e \in raw[b], ~HasRow(rows, e)
               PROVE  /\ Backend \in {"memory", "cosmos"}
                      /\ \E r \in rows : /\ r.event.eventId = e.eventId
                                        /\ r.event.appId # e.appId
    BY DEF LostOnlyToNamesake
  <2>1. Accounted(rows, e)
    BY DEF LossInv, NoUntracedLoss, Traced, AllAccounted
  <2> QED
    BY <2>1, BackendAssumption DEF Accounted, HasId, HasRow
<1> QED
  BY <1>1, TypeCorrect, LossInvariant, PTL

\* No two applications use one eventId.
NoNamesakes == \A e, f \in Event : e.eventId = f.eventId => e.appId = f.appId

\* On DynamoDB, and wherever no two applications use one eventId, a deleted message
\* leaves all of its events stored, or an error in the log.
THEOREM NothingLostSilently ==
  ASSUME Backend = "dynamo" \/ NoNamesakes PROVE Spec => []NoSilentLoss
<1>1. TypeOK /\ LossInv => NoSilentLoss
  <2> SUFFICES ASSUME TypeOK, LossInv, NEW b \in Batch, queue[b] = "deleted", ~Logged(b),
                      NEW e \in raw[b]
               PROVE  HasRow(rows, e)
    BY DEF NoSilentLoss, Stored
  <2>1. Accounted(rows, e)
    BY DEF LossInv, NoUntracedLoss, Traced, AllAccounted
  <2>2. e \in Event /\ \A r \in rows : r.event \in Event
    BY DEF TypeOK, Row
  <2> QED
    BY <2>1, <2>2 DEF Accounted, HasId, HasRow, NoNamesakes
<1> QED
  BY <1>1, TypeCorrect, LossInvariant, PTL

-----------------------------------------------------------------------------
(* The refinement of DurableLog *)

Acked == {b \in Batch : ingest[b] = "accepted"}
IdsOf(rs) == {r.event.eventId : r \in rs}

\* What the actions of the abstract specification say of this one's variables.
LEMMA LogSteps ==
  /\ \A b \in Batch, E \in SUBSET Event :
       /\ raw[b] = {} /\ E # {} /\ raw' = [raw EXCEPT ![b] = E]
            /\ Acked' = Acked /\ rows' = rows => Log!Next
       /\ raw[b] # {} /\ Acked' = Acked \cup {b} /\ raw' = raw /\ rows' = rows => Log!Next
       /\ E \subseteq raw[b] /\ IdsOf(rows') = IdsOf(rows) \cup {e.eventId : e \in E}
            /\ raw' = raw /\ Acked' = Acked => Log!Next
  /\ raw' = raw /\ Acked' = Acked /\ rows' = rows => UNCHANGED Log!vars
<1>1. ASSUME NEW b \in Batch, NEW E \in SUBSET Event,
             raw[b] = {}, E # {}, raw' = [raw EXCEPT ![b] = E],
             Acked' = Acked, rows' = rows
      PROVE  Log!Next
  BY <1>1 DEF Log!Next, Log!Record, Acked
<1>2. ASSUME NEW b \in Batch, raw[b] # {}, Acked' = Acked \cup {b},
             raw' = raw, rows' = rows
      PROVE  Log!Next
  <2>1. Log!Acknowledge(b)
    BY <1>2 DEF Log!Acknowledge, Acked
  <2> QED
    BY <2>1 DEF Log!Next
<1>3. ASSUME NEW b \in Batch, NEW E \in SUBSET Event, E \subseteq raw[b],
             IdsOf(rows') = IdsOf(rows) \cup {e.eventId : e \in E},
             raw' = raw, Acked' = Acked
      PROVE  Log!Next
  <2>1. Log!Publish(b, E)
    BY <1>3 DEF Log!Publish, Log!Ids, Acked, IdsOf
  <2> QED
    BY <2>1 DEF Log!Next
<1>4. ASSUME raw' = raw, Acked' = Acked, rows' = rows PROVE UNCHANGED Log!vars
  BY <1>4 DEF Log!vars, Acked
<1> QED
  BY <1>1, <1>2, <1>3, <1>4

LEMMA IngestRefines ==
  ASSUME TypeOK, PathInv, NEW b \in Batch, IngestStep(b) \/ IngestFault(b)
  PROVE  [Log!Next]_Log!vars
<1>0. rows' = rows /\ ingest \in [Batch -> {"idle", "storing", "enqueuing",
                                            "replying", "accepted", "failed"}]
  BY DEF IngestStep, IngestFault, handleIngest, storeRawBatch, enqueue, reply,
         storeRawFails, enqueueFails, ingestDies, storeVars, TypeOK
<1>1. ASSUME ingest[b] = "storing", raw' = [raw EXCEPT ![b] = payload[b]], Acked' = Acked
      PROVE  Log!Next
  BY <1>0, <1>1, LogSteps DEF TypeOK, PathInv, IngestInv
<1>2. ASSUME NEW s, ingest[b] # "accepted", s # "accepted",
             ingest' = [ingest EXCEPT ![b] = s]
      PROVE  Acked' = Acked
  BY <1>0, <1>2 DEF Acked
<1>3. ASSUME NEW E \in Requests, handleIngest(b, E) PROVE [Log!Next]_Log!vars
  BY <1>0, <1>2, <1>3, LogSteps DEF handleIngest
<1>4. CASE storeRawBatch(b) \/ storeRawFails(b)
  BY <1>0, <1>1, <1>2, <1>4, LogSteps DEF storeRawBatch, storeRawFails
<1>5. CASE enqueue(b) \/ enqueueFails(b) \/ ingestDies(b)
  <2>1. Acked' = Acked
    BY <1>2, <1>5 DEF enqueue, enqueueFails, ingestDies
  <2> QED
    BY <1>0, <1>5, <2>1, LogSteps DEF enqueue, enqueueFails, ingestDies
<1>6. CASE reply(b)
  <2>1. raw[b] # {}
    BY <1>6 DEF reply, PathInv, IngestInv
  <2>2. Acked' = Acked \cup {b}
    BY <1>0, <1>6 DEF reply, Acked
  <2> QED
    BY <1>0, <1>6, <2>1, <2>2, LogSteps DEF reply
<1> QED
  BY <1>3, <1>4, <1>5, <1>6 DEF IngestStep, IngestFault

LEMMA PutIds ==
  ASSUME NEW rs, NEW r
  PROVE  IdsOf(putEvent(rs, r)) = IdsOf(rs) \cup {r.event.eventId}
  BY DEF IdsOf, putEvent, SameRow

LEMMA ProcessorRefines ==
  ASSUME TypeOK, CarryInv, RowInv, [Next]_vars, UNCHANGED ingestVars
  PROVE  [Log!Next]_Log!vars
<1>0. raw' = raw /\ Acked' = Acked
  BY DEF ingestVars, Acked
\* A put that lands publishes one event of the batch it belongs to.
<1>1. ASSUME NEW r \in Row, r.event \in raw[r.receivedAt], rows' = putEvent(rows, r)
      PROVE  Log!Next
  <2> DEFINE E == {r.event}
  <2>1. r.receivedAt \in Batch /\ E \in SUBSET Event
    BY DEF Row
  <2>2. IdsOf(rows') = IdsOf(rows) \cup {e.eventId : e \in E}
    BY <1>1, PutIds
  <2>3. E \subseteq raw[r.receivedAt]
    BY <1>1
  <2> HIDE DEF E
  <2> QED
    BY <1>0, <2>1, <2>2, <2>3, LogSteps
<1>2. CASE rows' = rows
  BY <1>0, <1>2, LogSteps
<1>3. ASSUME NEW w \in Worker, NEW e \in Event, putLands(w, e) PROVE Log!Next
  <2> DEFINE r == [event |-> e, receivedAt |-> job[w].msg]
  <2>1. r \in RowsOf(w, job[w].sent) /\ rows' = putEvent(rows, r)
    BY <1>3 DEF putLands, RowsOf
  <2>2. r \in Row
    BY <1>3 DEF putLands, TypeOK, Job, Handles, Row
  <2>3. r.event \in raw[r.receivedAt]
    BY <2>1, CarriedEvents
  <2> HIDE DEF r
  <2> QED
    BY <1>1, <2>1, <2>2, <2>3
<1>4. ASSUME NEW w \in Worker, storeInMemory(w) PROVE Log!Next
  <2>1. PICK S \in FirstWrites(rows, RowsOf(w, job[w].fresh)) : rows' = rows \cup S
    BY <1>4 DEF storeInMemory
  <2> DEFINE E == {r.event : r \in S}
  <2>2. job[w].msg \in Batch /\ raw[job[w].msg] \subseteq Event
    BY <1>4 DEF storeInMemory, TypeOK, Job, Handles
  <2>3. \A r \in S : r.receivedAt = job[w].msg /\ r.event \in raw[r.receivedAt]
    BY <2>1, CarriedEvents DEF FirstWrites, RowsOf
  <2>4. E \subseteq raw[job[w].msg]
    BY <2>3
  <2>5. IdsOf(rows') = IdsOf(rows) \cup {e.eventId : e \in E}
    BY <2>1 DEF IdsOf
  <2> QED
    BY <1>0, <2>2, <2>4, <2>5, LogSteps
<1>5. ASSUME NEW r \in strays, strayLands(r) PROVE Log!Next
  BY <1>1, <1>5 DEF strayLands, RowInv, RowsComeFromBatches, TypeOK
<1> QED
  BY <1>2, <1>3, <1>4, <1>5, RowSteps DEF storeVars, storeRejects, Crash

\* The pipeline implements the abstract write path: batches are recorded once,
\* a 202 is given for a recorded batch only, and what is visible stays so.
THEOREM PipelineImplementsDurableLog == Spec => ImplementsDurableLog
<1>1. Init => Log!Init
  BY DEF Init, Log!Init
<1>2. TypeOK /\ PathInv /\ CarryInv /\ RowInv /\ [Next]_vars => [Log!Next]_Log!vars
  <2> SUFFICES ASSUME TypeOK, PathInv, CarryInv, RowInv, [Next]_vars
               PROVE  [Log!Next]_Log!vars
    OBVIOUS
  <2>1. ASSUME NEW b \in Batch, IngestStep(b) \/ IngestFault(b)
        PROVE  [Log!Next]_Log!vars
    BY <2>1, IngestRefines
  <2>2. CASE UNCHANGED ingestVars
    BY <2>2, ProcessorRefines
  <2>3. CASE UNCHANGED vars
    BY <2>2, <2>3 DEF vars, ingestVars
  <2> QED
    BY <2>1, <2>2, <2>3, ProcessorFrame DEF Next
<1> QED
  BY <1>1, <1>2, TypeCorrect, PathInvariant, CarryInvariant, RowInvariant, PTL
  DEF Spec, ImplementsDurableLog, Log!Spec
=============================================================================
