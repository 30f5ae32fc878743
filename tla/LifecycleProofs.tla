---------------------------- MODULE LifecycleProofs ----------------------------
(***************************************************************************)
(* Proofs about Lifecycle and the operators it is composed of.  Objects are *)
(* functions, so the lemmas on Restrict and Spread come first; NormalForm,  *)
(* SessionKept and NormalContent say what the normalisation makes of a      *)
(* valid event; RowMade and Stamped say what a row has of it.  The          *)
(* invariants are IngestInvariant (the raw batch), RowsInvariant (the rows  *)
(* and what is on its way), and one for each theorem that needs more.       *)
(***************************************************************************)
EXTENDS Lifecycle, SequenceTheorems, TLAPS

-----------------------------------------------------------------------------
(* Objects *)

\* A restricted object has these members, as they were.
LEMMA Restricted ==
  ASSUME NEW f, NEW S
  PROVE  /\ DOMAIN Restrict(f, S) = S
         /\ \A x \in S : Restrict(f, S)[x] = f[x]
  BY DEF Restrict

\* In {...base, ...over} the members of over win.
LEMMA Spreads ==
  ASSUME NEW f, NEW g
  PROVE  /\ DOMAIN Spread(f, g) = DOMAIN f \cup DOMAIN g
         /\ \A x \in DOMAIN g : Spread(f, g)[x] = g[x]
         /\ \A x \in DOMAIN f \ DOMAIN g : Spread(f, g)[x] = f[x]
  BY DEF Spread

\* The empty object has no members.
LEMMA NoMembers == DOMAIN <<>> = {}
  OBVIOUS

\* What Restrict and Spread make is determined by its members.
LEMMA Functions ==
  ASSUME NEW f, NEW g
  PROVE  /\ Restrict(f, g) = [x \in DOMAIN Restrict(f, g) |-> Restrict(f, g)[x]]
         /\ Spread(f, g) = [x \in DOMAIN Spread(f, g) |-> Spread(f, g)[x]]
  BY DEF Restrict, Spread

-----------------------------------------------------------------------------
(* The normalisation of a valid event *)

\* A parsed event has the known members of the event, the required ones among them.
LEMMA ParsedFields ==
  ASSUME NEW e, ValidEvent(e)
  PROVE  /\ DOMAIN Parsed(e) = DOMAIN e \cap KnownFields(e)
         /\ \A x \in DOMAIN Parsed(e) : Parsed(e)[x] = e[x]
         /\ RequiredFields(e) \subseteq DOMAIN Parsed(e)
         /\ {"eventId", "type", "occurredAt", "source", "actor"} \subseteq DOMAIN Parsed(e)
<1>1. RequiredFields(e) \subseteq DOMAIN e /\ RequiredFields(e) \subseteq KnownFields(e)
  BY DEF ValidEvent, KnownFields
<1>2. {"eventId", "type", "occurredAt", "source", "actor"} \subseteq RequiredFields(e)
  BY DEF RequiredFields
<1> QED
  BY <1>1, <1>2, Restricted DEF Parsed

Moves(e) == Truthy(e.actor, "sessionId") /\ ~Truthy(Context(e), "sessionId")

\* The members of a normalised event.
LEMMA NormalisedFields ==
  ASSUME NEW p, "actor" \in DOMAIN p, Moves(p)
  PROVE  /\ DOMAIN NormaliseEvent(p) = DOMAIN p \cup {"context"}
         /\ \A x \in DOMAIN p \ {"actor", "context"} : NormaliseEvent(p)[x] = p[x]
         /\ NormaliseEvent(p).actor = Without(p.actor, "sessionId")
         /\ NormaliseEvent(p).context
              = Spread(Context(p), [sessionId |-> p.actor.sessionId])
<1> DEFINE m == [context |-> Spread(Context(p), [sessionId |-> p.actor.sessionId]),
                 actor   |-> Without(p.actor, "sessionId")]
<1>1. NormaliseEvent(p) = Spread(p, m)
  BY DEF NormaliseEvent, Moves
<1>2. DOMAIN m = {"context", "actor"}
  OBVIOUS
<1>3. m.context = Spread(Context(p), [sessionId |-> p.actor.sessionId])
       /\ m.actor = Without(p.actor, "sessionId")
  OBVIOUS
<1> HIDE DEF m
<1>4. /\ DOMAIN Spread(p, m) = DOMAIN p \cup {"context", "actor"}
      /\ Spread(p, m)["context"] = m["context"] /\ Spread(p, m)["actor"] = m["actor"]
      /\ \A x \in DOMAIN p \ {"actor", "context"} : Spread(p, m)[x] = p[x]
  <2>1. DOMAIN Spread(p, m) = DOMAIN p \cup DOMAIN m
    BY Spreads
  <2>2. \A x \in DOMAIN m : Spread(p, m)[x] = m[x]
    BY Spreads
  <2>3. \A x \in DOMAIN p \ DOMAIN m : Spread(p, m)[x] = p[x]
    BY Spreads
  <2> QED
    BY <1>2, <2>1, <2>2, <2>3
<1> QED
  BY <1>1, <1>3, <1>4

\* An event that has no session to move stays as it is.
LEMMA Unmoved ==
  ASSUME NEW p, ~Moves(p)
  PROVE  NormaliseEvent(p) = p
  BY DEF NormaliseEvent, Moves

\* An actor loses its session and nothing else.
LEMMA WithoutSession ==
  ASSUME NEW actor
  PROVE  /\ ~Truthy(Without(actor, "sessionId"), "sessionId")
         /\ \A id \in {"userId", "anonymousId"} :
              /\ id \in DOMAIN Without(actor, "sessionId") <=> id \in DOMAIN actor
              /\ id \in DOMAIN actor => Without(actor, "sessionId")[id] = actor[id]
              /\ Truthy(Without(actor, "sessionId"), id) <=> Truthy(actor, id)
<1>1. DOMAIN Without(actor, "sessionId") = DOMAIN actor \ {"sessionId"}
  BY Restricted DEF Without
<1>2. \A x \in DOMAIN actor \ {"sessionId"} : Without(actor, "sessionId")[x] = actor[x]
  BY Restricted DEF Without
<1> QED
  BY <1>1, <1>2 DEF Truthy

\* What ingest stores of a valid event is valid, holds nothing that the schema
\* does not know, and has no session in its actor only.
LEMMA NormalForm ==
  ASSUME NEW e, ValidEvent(e)
  PROVE  LET n == NormaliseEvent(Parsed(e)) IN
         /\ ValidEvent(n)
         /\ Parsed(n) = n
         /\ ~Moves(n)
         /\ n.eventId = e.eventId /\ n.occurredAt = e.occurredAt
<1> DEFINE p == Parsed(e)
           n == NormaliseEvent(p)
           Base == {"eventId", "type", "occurredAt", "source", "actor"}
<1>1. /\ DOMAIN p = DOMAIN e \cap KnownFields(e)
      /\ \A x \in DOMAIN p : p[x] = e[x]
      /\ RequiredFields(e) \subseteq DOMAIN p /\ Base \subseteq DOMAIN p
  BY ParsedFields
<1>2. /\ DOMAIN p \subseteq DOMAIN n /\ DOMAIN n \subseteq DOMAIN p \cup {"context"}
      /\ \A x \in DOMAIN p \ {"actor", "context"} : n[x] = p[x]
  <2>1. CASE Moves(p)
    BY <1>1, <2>1, NormalisedFields
  <2>2. CASE ~Moves(p)
    BY <1>1, <2>2, Unmoved
  <2> QED
    BY <2>1, <2>2
<1>3. \A id \in {"userId", "anonymousId"} : Truthy(n.actor, id) <=> Truthy(e.actor, id)
  <2>1. CASE Moves(p)
    <3>1. n.actor = Without(p.actor, "sessionId") /\ p.actor = e.actor
      BY <1>1, <2>1, NormalisedFields
    <3> HIDE DEF n, p
    <3> QED
      BY <3>1, WithoutSession
  <2>2. CASE ~Moves(p)
    BY <1>1, <2>2, Unmoved
  <2> QED
    BY <2>1, <2>2
<1>4. ~Moves(n)
  <2>1. CASE Moves(p)
    BY <1>1, <2>1, NormalisedFields, WithoutSession DEF Moves
  <2>2. CASE ~Moves(p)
    BY <1>1, <2>2, Unmoved
  <2> QED
    BY <2>1, <2>2
<1>5. n.type = e.type /\ n.eventId = e.eventId /\ n.occurredAt = e.occurredAt
  BY <1>1, <1>2
<1>6. RequiredFields(n) = RequiredFields(e) /\ KnownFields(n) = KnownFields(e)
  BY <1>5 DEF RequiredFields, KnownFields
<1>7. DOMAIN n \subseteq KnownFields(n)
  BY <1>1, <1>2, <1>6 DEF KnownFields
<1>8. Parsed(n) = n
  <2>1. DOMAIN n \cap KnownFields(n) = DOMAIN n
    BY <1>7
  <2>2. n = [x \in DOMAIN n |-> n[x]]
    <3>1. p = [x \in DOMAIN p |-> p[x]]
      BY Functions DEF Parsed
    <3>2. n = p \/ \E m : n = Spread(p, m)
      BY DEF NormaliseEvent
    <3> HIDE DEF p, n
    <3>3. CASE n = p
      BY <3>1, <3>3
    <3>4. ASSUME NEW m, n = Spread(p, m) PROVE n = [x \in DOMAIN n |-> n[x]]
      BY <3>4, Functions
    <3> QED
      BY <3>2, <3>3, <3>4
  <2> QED
    BY <2>1, <2>2 DEF Parsed, Restrict
<1>9. ValidEvent(n)
  <2>1. RequiredFields(n) \subseteq DOMAIN n
    BY <1>1, <1>2, <1>6
  <2>2. Truthy(n.actor, "userId") \/ Truthy(n.actor, "anonymousId")
    BY <1>3 DEF ValidEvent
  <2>3. ASSUME NEW field \in DOMAIN n \cap {"properties", "traits"}
        PROVE  ValidContent(n[field])
    <3>1. field \in DOMAIN p /\ field # "actor" /\ field # "context"
      BY <1>2
    <3>2. n[field] = e[field]
      BY <1>1, <1>2, <3>1
    <3> QED
      BY <3>1, <3>2 DEF ValidEvent
  <2> HIDE DEF n
  <2> QED
    BY <1>8, <2>1, <2>2, <2>3 DEF ValidEvent
<1> QED
  BY <1>4, <1>5, <1>8, <1>9

-----------------------------------------------------------------------------
(* The answer to a POST *)

\* FirstFailure is 202 if every check holds, and else the status of one that does not.
LEMMA FirstFailureIs ==
  ASSUME NEW checks, DOMAIN checks \subseteq 1 .. 5
  PROVE  \/ FirstFailure(checks) = 202 /\ \A i \in DOMAIN checks : checks[i].holds
         \/ \E i \in DOMAIN checks :
              ~checks[i].holds /\ FirstFailure(checks) = checks[i].status
<1> DEFINE failed == {i \in DOMAIN checks : ~checks[i].holds}
<1>1. CASE failed = {}
  BY <1>1 DEF FirstFailure
<1>2. CASE failed # {}
  <2>1. \E i \in failed : \A j \in failed : i <= j
    <3>1. failed \subseteq {1, 2, 3, 4, 5}
      OBVIOUS
    <3> HIDE DEF failed
    <3>2. SUFFICES ASSUME \A i \in failed : \E j \in failed : ~(i <= j)
                   PROVE  FALSE
      BY Zenon
    <3>3. 1 \notin failed
      BY <3>1, <3>2
    <3>4. 2 \notin failed
      BY <3>1, <3>2, <3>3
    <3>5. 3 \notin failed
      BY <3>1, <3>2, <3>3, <3>4
    <3>6. 4 \notin failed
      BY <3>1, <3>2, <3>3, <3>4, <3>5
    <3>7. 5 \notin failed
      BY <3>1, <3>2, <3>3, <3>4, <3>5, <3>6
    <3>8. failed = {}
      BY <3>1, <3>3, <3>4, <3>5, <3>6, <3>7
    <3> QED
      BY <1>2, <3>8
  <2>2. FirstFailure(checks) = checks[CHOOSE i \in failed : \A j \in failed : i <= j].status
    BY <1>2 DEF FirstFailure
  <2>3. (CHOOSE i \in failed : \A j \in failed : i <= j) \in failed
    BY <2>1
  <2> QED
    BY <2>2, <2>3
<1> QED
  BY <1>1, <1>2

\* The key is good, there is a JSON body, and it passes the validation.
Flawless(r) == r.key = "good" /\ r.body = "json" /\ Accepts(r.events, r.sentAt)

\* What an answer says of the request.
Says(s, r) ==
  \/ s = 202 /\ Flawless(r)
  \/ s \in {400, 401} /\ ~Flawless(r)
  \/ s = 500

\* Each platform's answer says so.
LEMMA PostAnswers ==
  ASSUME NEW p, NEW r, NEW works \in BOOLEAN
  PROVE  Says(PostStatus(p, r, works), r)
<1>1. CASE p = "express"
  <2> DEFINE checks ==
        <<Else(500, r.body # "malformed"),
          Else(500, r.body = "json" => TextSize(r) <= maxPayloadSize),
          Else(401, r.key = "good"),
          Else(400, r.body = "json" /\ Accepts(r.events, r.sentAt)),
          Else(500, works)>>
  <2>1. PostStatus(p, r, works) = FirstFailure(checks)
    BY <1>1 DEF PostStatus, ExpressPost
  <2>2. DOMAIN checks = 1 .. 5
    OBVIOUS
  <2>3. /\ checks[1].status = 500 /\ checks[2].status = 500 /\ checks[5].status = 500
        /\ checks[3].status = 401 /\ checks[4].status = 400
        /\ checks[3].holds <=> r.key = "good"
        /\ checks[4].holds <=> (r.body = "json" /\ Accepts(r.events, r.sentAt))
    BY DEF Else
  <2> HIDE DEF checks
  <2>4. ASSUME FirstFailure(checks) = 202, \A i \in DOMAIN checks : checks[i].holds
        PROVE  Says(FirstFailure(checks), r)
    <3>1. checks[3].holds /\ checks[4].holds
      BY <2>2, <2>4
    <3> QED
      BY <2>3, <2>4, <3>1 DEF Says, Flawless
  <2>5. ASSUME NEW i \in DOMAIN checks, ~checks[i].holds,
               FirstFailure(checks) = checks[i].status
        PROVE  Says(FirstFailure(checks), r)
    <3>1. i \in 1 .. 5
      BY <2>2
    <3> QED
      BY <2>3, <2>5, <3>1 DEF Says, Flawless
  <2>6. DOMAIN checks \subseteq 1 .. 5
    BY <2>2
  <2> QED
    BY <2>1, <2>4, <2>5, <2>6, FirstFailureIs
<1>2. CASE p # "express"
  <2> DEFINE checks ==
        <<Else(401, r.key = "good"),
          Else(400, r.body = "json"),
          Else(400, Accepts(r.events, r.sentAt)),
          Else(500, works)>>
  <2>1. PostStatus(p, r, works) = FirstFailure(checks)
    BY <1>2 DEF PostStatus, FunctionPost
  <2>2. DOMAIN checks = 1 .. 4
    OBVIOUS
  <2>3. /\ checks[1].status = 401 /\ checks[4].status = 500
        /\ checks[2].status = 400 /\ checks[3].status = 400
        /\ checks[1].holds <=> r.key = "good"
        /\ checks[2].holds <=> r.body = "json"
        /\ checks[3].holds <=> Accepts(r.events, r.sentAt)
    BY DEF Else
  <2> HIDE DEF checks
  <2>4. ASSUME FirstFailure(checks) = 202, \A i \in DOMAIN checks : checks[i].holds
        PROVE  Says(FirstFailure(checks), r)
    <3>1. checks[1].holds /\ checks[2].holds /\ checks[3].holds
      BY <2>2, <2>4
    <3> QED
      BY <2>3, <2>4, <3>1 DEF Says, Flawless
  <2>5. ASSUME NEW i \in DOMAIN checks, ~checks[i].holds,
               FirstFailure(checks) = checks[i].status
        PROVE  Says(FirstFailure(checks), r)
    <3>1. i \in 1 .. 4
      BY <2>2
    <3> QED
      BY <2>3, <2>5, <3>1 DEF Says, Flawless
  <2>6. DOMAIN checks \subseteq 1 .. 5
    BY <2>2
  <2> QED
    BY <2>1, <2>4, <2>5, <2>6, FirstFailureIs
<1> QED
  BY <1>1, <1>2

-----------------------------------------------------------------------------
(* Ingest *)

\* What is in the raw store came from a flawless request.
IngestInvariant ==
  /\ status \in {0, 202, 400, 401, 500}
  /\ post = None => raw = <<>>
  /\ raw # <<>> => post \in Post /\ Flawless(post) /\ raw = Normalised(post.events)
  /\ FourHundredIsFinal

LEMMA IngestInit == Init => IngestInvariant
  BY DEF Init, IngestInvariant, FourHundredIsFinal

LEMMA IngestNext == IngestInvariant /\ [Next]_vars => IngestInvariant'
<1> SUFFICES ASSUME IngestInvariant, [Next]_vars PROVE IngestInvariant'
  OBVIOUS
<1>1. ASSUME NEW r \in Post, NEW works \in BOOLEAN, handlePost(r, works)
      PROVE  IngestInvariant'
  <2>1. post = None /\ post' = r /\ status' = PostStatus(platform, r, works)
    BY <1>1 DEF handlePost
  <2>2. IF status' = 202 THEN raw' = Normalised(r.events) ELSE raw' = raw
    BY <1>1 DEF handlePost
  <2>3. raw = <<>> /\ r # None
    BY <2>1, LifecycleAssumption DEF IngestInvariant
  <2>4. /\ status' \in {202, 400, 401, 500}
        /\ status' = 202 => Flawless(r)
        /\ status' \in {400, 401} => ~Flawless(r)
    BY <2>1, PostAnswers DEF Says
  <2>5. FourHundredIsFinal'
    BY <2>1, <2>2, <2>3, <2>4 DEF FourHundredIsFinal, ClientAtFault, Flawless
  <2> QED
    BY <2>1, <2>2, <2>3, <2>4, <2>5 DEF IngestInvariant
<1>2. ASSUME UNCHANGED requestVars PROVE IngestInvariant'
  BY <1>2 DEF requestVars, IngestInvariant, FourHundredIsFinal, ClientAtFault, Flawless
<1>3. ASSUME ~\E r \in Post, works \in BOOLEAN : handlePost(r, works)
      PROVE  UNCHANGED requestVars
  BY <1>3 DEF Next, vars, rejectBatch, handleProcessor, storeInMemory, storeInDynamo,
              storeInCosmos, drop, handleGet, tick, requestVars
<1> QED
  BY <1>1, <1>2, <1>3

\* A 400 or a 401 is the fault of the client, and nothing was stored for it.
THEOREM ClientErrorsAreFinal == Spec => []FourHundredIsFinal
<1>1. IngestInvariant => FourHundredIsFinal
  BY DEF IngestInvariant
<1> QED
  BY <1>1, IngestInit, IngestNext, PTL DEF Spec

-----------------------------------------------------------------------------
(* The second validation *)

\* To a batch that was accepted, parsing and normalising again do nothing.
LEMMA SecondPass ==
  ASSUME NEW events, events \in Seq(Range(events)), NEW sentAt, Accepts(events, sentAt)
  PROVE  /\ DOMAIN Normalised(events) = DOMAIN events
         /\ Len(Normalised(events)) = Len(events)
         /\ \A i \in DOMAIN events : ValidEvent(Normalised(events)[i])
         /\ ParsedEvents(Normalised(events)) = Normalised(events)
         /\ Normalised(Normalised(events)) = Normalised(events)
<1> DEFINE n == Normalised(events)
<1>1. DOMAIN n = DOMAIN events /\ \A i \in DOMAIN n : n[i] = NormaliseEvent(Parsed(events[i]))
  BY DEF Normalised
<1>2. n = [i \in DOMAIN n |-> n[i]]
  BY <1>1 DEF Normalised
<1>3. \A i \in DOMAIN events : ValidEvent(events[i])
  BY DEF Accepts
<1>4. Len(events) \in Nat /\ DOMAIN events = 1 .. Len(events)
  BY LenProperties
<1>5. \A i \in DOMAIN n : ValidEvent(n[i]) /\ Parsed(n[i]) = n[i] /\ ~Moves(n[i])
  BY <1>1, <1>3, NormalForm
<1>6. Len(n) = Len(events)
  BY <1>1, <1>2, <1>4
<1>7. ParsedEvents(n) = n
  BY <1>2, <1>5 DEF ParsedEvents
<1>8. Normalised(n) = n
  <2>1. \A i \in DOMAIN n : NormaliseEvent(Parsed(n[i])) = n[i]
    BY <1>5, Unmoved
  <2>2. Normalised(n) = [i \in DOMAIN n |-> NormaliseEvent(Parsed(n[i]))]
    BY DEF Normalised
  <2> HIDE DEF n
  <2> QED
    BY <1>2, <2>1, <2>2
<1> QED
  BY <1>1, <1>5, <1>6, <1>7, <1>8

\* The batch in the raw store, once it is there.
LEMMA RawIsNormal ==
  ASSUME IngestInvariant, raw # <<>>
  PROVE  /\ post \in Post /\ Flawless(post)
         /\ DOMAIN raw = DOMAIN post.events
         /\ \A i \in DOMAIN raw : /\ raw[i] = NormaliseEvent(Parsed(post.events[i]))
                                  /\ ValidEvent(post.events[i])
         /\ Len(raw) \in minEventsPerBatch .. maxEventsPerBatch
         /\ \A i \in DOMAIN raw : ValidEvent(raw[i])
         /\ ParsedEvents(raw) = raw
         /\ Normalised(raw) = raw
<1>1. post \in Post /\ Flawless(post) /\ raw = Normalised(post.events)
  BY DEF IngestInvariant
<1>2. Accepts(post.events, post.sentAt)
  BY <1>1 DEF Flawless
<1>3. post.events \in Seq(Range(post.events))
  BY <1>1, InputAssumption
<1>4. \A i \in DOMAIN post.events : ValidEvent(post.events[i])
  BY <1>2 DEF Accepts
<1>5. Len(post.events) \in minEventsPerBatch .. maxEventsPerBatch
  BY <1>2 DEF Accepts
<1>6. \A i \in DOMAIN post.events :
        Normalised(post.events)[i] = NormaliseEvent(Parsed(post.events[i]))
  BY DEF Normalised
<1> QED
  BY <1>1, <1>2, <1>3, <1>4, <1>5, <1>6, SecondPass

\* What is in the raw batch was posted, at a time.
LEMMA PostedEvent ==
  ASSUME IngestInvariant, raw # <<>>, NEW i \in DOMAIN raw
  PROVE  /\ post.events[i] \in PostedEvents /\ ValidEvent(post.events[i])
         /\ raw[i] = NormaliseEvent(Parsed(post.events[i]))
         /\ raw[i].eventId = post.events[i].eventId
         /\ raw[i].occurredAt = post.events[i].occurredAt
         /\ raw[i].occurredAt \in Int
         /\ \A field \in {"properties", "traits"} \cap DOMAIN post.events[i] :
              post.events[i][field] \in Value
<1>1. /\ post \in Post /\ DOMAIN raw = DOMAIN post.events
      /\ raw[i] = NormaliseEvent(Parsed(post.events[i])) /\ ValidEvent(post.events[i])
  BY RawIsNormal
<1>2. post.events[i] \in Range(post.events) /\ post # None
  BY <1>1, LifecycleAssumption DEF Range
<1>3. /\ raw[i].eventId = post.events[i].eventId
      /\ raw[i].occurredAt = post.events[i].occurredAt
  BY <1>1, NormalForm
<1>4. /\ post.events[i].occurredAt \in Int
      /\ \A field \in {"properties", "traits"} \cap DOMAIN post.events[i] :
           post.events[i][field] \in Value
  BY <1>1, <1>2, InputAssumption
<1> QED
  BY <1>1, <1>2, <1>3, <1>4 DEF PostedEvents

\* The invariant of the outcome: nothing is rejected before it is posted.
OutcomeInvariant ==
  /\ raw = <<>> => outcome # "poison"
  /\ SecondValidationAgrees

LEMMA OutcomeInit == Init => OutcomeInvariant
  BY DEF Init, OutcomeInvariant, SecondValidationAgrees

LEMMA OutcomeNext == IngestInvariant /\ OutcomeInvariant /\ [Next]_vars => OutcomeInvariant'
<1> SUFFICES ASSUME IngestInvariant, OutcomeInvariant, [Next]_vars
             PROVE  OutcomeInvariant'
  OBVIOUS
<1>1. ASSUME NEW r \in Post, NEW works \in BOOLEAN, handlePost(r, works)
      PROVE  OutcomeInvariant'
  <2>1. raw = <<>>
    BY <1>1 DEF handlePost, IngestInvariant
  <2>2. outcome' = outcome
    BY <1>1 DEF handlePost, storeVars
  <2> QED
    BY <2>1, <2>2 DEF OutcomeInvariant, SecondValidationAgrees
<1>2. CASE rejectBatch
  <2>1. raw # <<>> /\ raw' = raw /\ ~Accepts(raw, FALSE)
    BY <1>2 DEF rejectBatch, requestVars
  <2>2. /\ Len(raw) \in minEventsPerBatch .. maxEventsPerBatch
        /\ \A i \in DOMAIN raw : ValidEvent(raw[i])
        /\ ParsedEvents(raw) = raw
    BY <2>1, RawIsNormal
  <2>3. ~(EnvelopeSize(raw, FALSE) <= maxPayloadSize)
    BY <2>1, <2>2 DEF Accepts
  <2> QED
    BY <2>1, <2>3 DEF OutcomeInvariant, SecondValidationAgrees
<1>3. ASSUME raw' = raw, outcome' \in {outcome, "stored", "failed"}
      PROVE  OutcomeInvariant'
  BY <1>3 DEF OutcomeInvariant, SecondValidationAgrees
<1>4. CASE handleProcessor
  BY <1>3, <1>4 DEF handleProcessor, requestVars
<1>5. CASE storeInMemory \/ storeInDynamo \/ storeInCosmos
  BY <1>3, <1>5 DEF storeInMemory, storeInDynamo, storeInCosmos, requestVars
<1>6. ASSUME NEW r \in rows, drop(r)
      PROVE  OutcomeInvariant'
  BY <1>3, <1>6 DEF drop, requestVars
<1>7. ASSUME NEW q \in Query, handleGet(q)
      PROVE  OutcomeInvariant'
  BY <1>3, <1>7 DEF handleGet, requestVars, storeVars
<1>8. CASE tick \/ UNCHANGED vars
  BY <1>3, <1>8 DEF tick, vars, requestVars, storeVars
<1> QED
  BY <1>1, <1>2, <1>4, <1>5, <1>6, <1>7, <1>8 DEF Next

\* The processor's validation never turns down what ingest has accepted, unless
\* the moved sessionIds made the batch larger than a batch may be.
THEOREM SecondValidationNeverSurprises == Spec => []SecondValidationAgrees
<1>1. OutcomeInvariant => SecondValidationAgrees
  BY DEF OutcomeInvariant
<1> QED
  BY <1>1, IngestInit, IngestNext, OutcomeInit, OutcomeNext, PTL DEF Spec

-----------------------------------------------------------------------------
(* Rows and their expiry *)

\* Rounding down to whole seconds loses less than a second.
LEMMA Division ==
  ASSUME NEW x \in Int
  PROVE  /\ x \div Second \in Int
         /\ (x \div Second) * Second <= x
         /\ x < (x \div Second) * Second + Second
<1> Second \in Nat \ {0}
  BY RetentionAssumption
<1> QED
  OBVIOUS

\* A row that DynamoDB has, one that Cosmos DB is about to get, and one it has.
DynamoDates(r) == r.expiresAt = calculateExpiresAt(r.occurredAt)

CosmosAir(r) == r.ttl = calculateCosmosDbTtl(r.occurredAt, airAt)

CosmosDates(r) ==
  \E at, written \in Nat :
    /\ at <= written /\ written <= at + BulkTime
    /\ r.ttl = calculateCosmosDbTtl(r.occurredAt, at) /\ r.ttl # 0
    /\ r._ts = written \div Second

\* One rounding, of the due time.
LEMMA DynamoExpiry ==
  ASSUME NEW r, r.occurredAt \in Int, DynamoDates(r)
  PROVE  LET due == r.occurredAt + Retention IN
         due - 2 * Second < r.expiresAt * Second /\ r.expiresAt * Second <= due + BulkTime
<1> DEFINE due == r.occurredAt + Retention
<1>1. due \in Int /\ Second \in Nat \ {0} /\ BulkTime \in Nat
  BY RetentionAssumption, LifecycleAssumption
<1>2. r.expiresAt = due \div Second
  BY DEF DynamoDates, calculateExpiresAt
<1> HIDE DEF due
<1>3. /\ (due \div Second) * Second <= due
      /\ due < (due \div Second) * Second + Second
      /\ (due \div Second) * Second \in Int
  BY <1>1, Division
<1>4. due - 2 * Second < r.expiresAt * Second /\ r.expiresAt * Second <= due + BulkTime
  BY <1>1, <1>2, <1>3
<1> QED
  BY <1>4 DEF due

\* Two roundings, of the TTL and of the time of the write, and the delay between them.
LEMMA CosmosExpiry ==
  ASSUME NEW r, r.occurredAt \in Int, CosmosDates(r)
  PROVE  LET due == r.occurredAt + Retention IN
         /\ due - 2 * Second < (r._ts + r.ttl) * Second
         /\ (r._ts + r.ttl) * Second <= due + BulkTime
<1>0. PICK at \in Nat, written \in Nat :
        /\ at <= written /\ written <= at + BulkTime
        /\ r.ttl = calculateCosmosDbTtl(r.occurredAt, at) /\ r.ttl # 0
        /\ r._ts = written \div Second
  BY DEF CosmosDates
<1> DEFINE due == r.occurredAt + Retention
           left == (due - at) \div Second
           sec  == written \div Second
<1>1. due \in Int /\ Second \in Nat \ {0} /\ BulkTime \in Nat
  BY RetentionAssumption, LifecycleAssumption
<1>2. r.ttl = left /\ r._ts = sec
  <2>1. r.occurredAt + Retention - at = due - at
    BY <1>0, RetentionAssumption
  <2>2. calculateCosmosDbTtl(r.occurredAt, at) = IF left > 0 THEN left ELSE 0
    BY <2>1 DEF calculateCosmosDbTtl
  <2> QED
    BY <1>0, <2>2
<1> HIDE DEF due
<1>3. left \in Int /\ left * Second <= due - at /\ due - at < left * Second + Second
  BY <1>1, Division
<1>4. sec \in Int /\ sec * Second <= written /\ written < sec * Second + Second
  BY Division
<1> HIDE DEF left, sec
<1>5. (sec + left) * Second = sec * Second + left * Second
  BY <1>1, <1>3, <1>4
<1>6. sec * Second \in Int /\ left * Second \in Int
  BY <1>1, <1>3, <1>4
<1>7. /\ due - 2 * Second < (sec + left) * Second
      /\ (sec + left) * Second <= due + BulkTime
  BY <1>0, <1>1, <1>3, <1>4, <1>5, <1>6
<1> QED
  BY <1>2, <1>7 DEF due

\* The members of an event that the API documents.
ApiFields(e) ==
  {"eventId", "type", "occurredAt", "source", "actor", "context"}
    \cup (IF e.type = "identify" THEN {"traits"} ELSE {"name", "properties"})

SameContent(r, e) ==
  /\ "receivedAt" \in DOMAIN r /\ r.receivedAt = receivedAt
  /\ r.type = e.type
  /\ \A x \in ApiFields(e) : /\ x \in DOMAIN r <=> x \in DOMAIN e
                             /\ x \in DOMAIN e => r[x] = e[x]

\* What a row has of the event it was made from.
MadeFrom(r, e) ==
  /\ SameContent(r, e)
  /\ DOMAIN r \cap {"properties", "traits"} \subseteq DOMAIN e
  /\ {"eventId", "occurredAt"} \subseteq DOMAIN r
  /\ platform = "azure" => "ttl" \in DOMAIN r
  /\ r.eventId = e.eventId /\ r.occurredAt = e.occurredAt
  /\ platform = "lambda" => r.GSI2PK = SessionOf(e)
  /\ platform # "lambda" =>
       /\ "context" \in DOMAIN r <=> "context" \in DOMAIN e
       /\ "context" \in DOMAIN e => r.context = e.context

FromRaw(r) == \E i \in DOMAIN raw : MadeFrom(r, raw[i])

\* Every row that is stored, or on its way, comes from an event of the raw batch,
\* and carries the dates of it.
RowsInvariant ==
  /\ raw = <<>> => air = <<>> /\ rows = {}
  /\ platform \in {"express", "lambda", "azure"}
  /\ now \in Nat /\ airAt \in Nat
  /\ air # <<>> => airAt <= now /\ now <= airAt + BulkTime
  /\ \A d \in Range(air) : FromRaw(d)
  /\ \A r \in rows : FromRaw(r)
  /\ platform = "lambda" => \A r \in Range(air) \cup rows : DynamoDates(r)
  /\ platform = "azure" => /\ \A d \in Range(air) : CosmosAir(d)
                           /\ \A r \in rows : CosmosDates(r)

\* Each platform's row has what it should of the event.
LEMMA RowMade ==
  ASSUME NEW e, Parsed(e) = e, ValidEvent(e), platform \in {"express", "lambda", "azure"}
  PROVE  /\ MadeFrom(RowOf(e), e)
         /\ platform = "lambda" => DynamoDates(RowOf(e))
         /\ platform = "azure" => RowOf(e).ttl = calculateCosmosDbTtl(RowOf(e).occurredAt, now)
<1> DEFINE d == transformToStoredEvent(e, receivedAt, now)
<1>1. DOMAIN e = DOMAIN e \cap KnownFields(e)
  BY Restricted DEF Parsed
<1>2. {"eventId", "type", "occurredAt", "source", "actor"} \subseteq DOMAIN e
  BY DEF ValidEvent, RequiredFields
<1>3. DOMAIN d = DOMAIN e \cup {"receivedAt", "processedAt"}
      /\ \A x \in DOMAIN e \ {"receivedAt", "processedAt"} : d[x] = e[x]
  BY Spreads DEF transformToStoredEvent, Spread
<1>4. {"receivedAt", "processedAt", "ttl", "_ts", "id", "pk", "PK", "SK", "GSI2PK", "expiresAt"}
        \cap DOMAIN e = {}
  BY <1>1 DEF KnownFields, RequiredFields
<1>5. /\ d.eventId = e.eventId /\ d.occurredAt = e.occurredAt
      /\ "context" \in DOMAIN d <=> "context" \in DOMAIN e
      /\ "context" \in DOMAIN e => d.context = e.context
  BY <1>2, <1>3
<1>6. {"eventId", "occurredAt"} \subseteq DOMAIN d
  BY <1>2, <1>3
<1>7. "ttl" \notin DOMAIN d
  BY <1>3, <1>4
<1>8. d.receivedAt = receivedAt /\ "receivedAt" \in DOMAIN d
  BY DEF transformToStoredEvent, Spread
<1>9. /\ d.type = e.type
       /\ \A x \in ApiFields(e) : /\ x \in DOMAIN d <=> x \in DOMAIN e
                                  /\ x \in DOMAIN e => d[x] = e[x]
  BY <1>2, <1>3 DEF ApiFields
<1>10. DOMAIN d \cap {"properties", "traits"} \subseteq DOMAIN e
  BY <1>3
<1> HIDE DEF d
<1>11. SameContent(d, e)
  BY <1>8, <1>9 DEF SameContent
<1>12. ApiFields(e) \cap {"ttl", "id", "pk", "PK", "SK", "GSI2PK", "expiresAt", "receivedAt"} = {}
  BY DEF ApiFields
<1>13. CASE platform = "express"
  BY <1>5, <1>6, <1>10, <1>11, <1>13 DEF RowOf, MadeFrom, d
<1>14. CASE platform = "lambda"
  <2>1. RowOf(e) = DynamoItem(d)
    BY <1>14 DEF RowOf, d
  <2> DEFINE base == Restrict(d, DOMAIN d \cap ItemFields(d))
             keys == [PK |-> d.source, SK |-> <<d.occurredAt, d.eventId>>,
                      GSI2PK |-> SessionOf(d),
                      expiresAt |-> calculateExpiresAt(d.occurredAt)]
  <2>2. RowOf(e) = Spread(base, keys)
    BY <2>1 DEF DynamoItem
  <2>3. DOMAIN base = DOMAIN d \cap ItemFields(d) /\ \A x \in DOMAIN base : base[x] = d[x]
    BY Restricted
  <2>4. {"eventId", "occurredAt"} \subseteq DOMAIN base
    BY <1>6, <2>3 DEF ItemFields
  <2>5. DOMAIN keys = {"PK", "SK", "GSI2PK", "expiresAt"}
        /\ keys.GSI2PK = SessionOf(d) /\ keys.expiresAt = calculateExpiresAt(d.occurredAt)
    OBVIOUS
  <2> HIDE DEF base, keys
  <2>6. /\ {"eventId", "occurredAt"} \subseteq DOMAIN RowOf(e)
        /\ RowOf(e).eventId = d.eventId /\ RowOf(e).occurredAt = d.occurredAt
        /\ RowOf(e).GSI2PK = SessionOf(d)
        /\ RowOf(e).expiresAt = calculateExpiresAt(d.occurredAt)
    <3>1. /\ DOMAIN Spread(base, keys) = DOMAIN base \cup DOMAIN keys
          /\ \A x \in DOMAIN keys : Spread(base, keys)[x] = keys[x]
          /\ \A x \in DOMAIN base \ DOMAIN keys : Spread(base, keys)[x] = base[x]
      BY Spreads
    <3> QED
      BY <2>2, <2>3, <2>4, <2>5, <3>1
  <2>7. SameContent(RowOf(e), e)
    <3>1. /\ DOMAIN Spread(base, keys) = DOMAIN base \cup DOMAIN keys
          /\ \A x \in DOMAIN base \ DOMAIN keys : Spread(base, keys)[x] = base[x]
      BY Spreads
    <3>2. ItemFields(d) = ApiFields(e) \cup {"receivedAt", "processedAt"}
      BY <1>9 DEF ItemFields, ApiFields
    <3>3. \A x \in ApiFields(e) \cup {"receivedAt"} :
            /\ x \in DOMAIN RowOf(e) <=> x \in DOMAIN d
            /\ x \in DOMAIN d => RowOf(e)[x] = d[x]
      BY <1>12, <2>2, <2>3, <2>5, <3>1, <3>2
    <3>4. "type" \in ApiFields(e) /\ "type" \in DOMAIN d
      BY <1>2, <1>3 DEF ApiFields
    <3> QED
      BY <1>8, <1>9, <3>3, <3>4 DEF SameContent
  <2>8. SessionOf(d) = SessionOf(e)
    <3>1. Context(d) = Context(e)
      BY <1>5 DEF Context
    <3>2. "context" \in DOMAIN e => Context(e) = e.context /\ d.context = e.context
      BY <1>5 DEF Context
    <3>3. "context" \notin DOMAIN e => ~Truthy(Context(e), "sessionId")
      BY NoMembers DEF Context, Truthy
    <3> QED
      BY <3>1, <3>2, <3>3 DEF SessionOf, Truthy
  <2>9. DOMAIN RowOf(e) \cap {"properties", "traits"} \subseteq DOMAIN e
    <3>1. DOMAIN Spread(base, keys) = DOMAIN base \cup DOMAIN keys
      BY Spreads
    <3> QED
      BY <1>10, <2>2, <2>3, <2>5, <3>1
  <2> QED
    BY <1>5, <1>14, <2>6, <2>7, <2>8, <2>9 DEF MadeFrom, DynamoDates
<1>15. CASE platform = "azure"
  <2> DEFINE base == [id |-> d.eventId, pk |-> d.source,
                      ttl |-> calculateCosmosDbTtl(d.occurredAt, now)]
  <2>1. RowOf(e) = Spread(base, d)
    BY <1>15 DEF RowOf, CosmosDocument, d
  <2>2. DOMAIN base = {"id", "pk", "ttl"} /\ base.ttl = calculateCosmosDbTtl(d.occurredAt, now)
    OBVIOUS
  <2> HIDE DEF base
  <2>3. /\ DOMAIN Spread(base, d) = DOMAIN base \cup DOMAIN d
        /\ \A x \in DOMAIN d : Spread(base, d)[x] = d[x]
        /\ \A x \in DOMAIN base \ DOMAIN d : Spread(base, d)[x] = base[x]
    BY Spreads
  <2>4. /\ {"eventId", "occurredAt", "ttl"} \subseteq DOMAIN RowOf(e)
        /\ RowOf(e).eventId = d.eventId /\ RowOf(e).occurredAt = d.occurredAt
        /\ RowOf(e).ttl = calculateCosmosDbTtl(d.occurredAt, now)
        /\ "context" \in DOMAIN RowOf(e) <=> "context" \in DOMAIN d
        /\ "context" \in DOMAIN d => RowOf(e).context = d.context
    BY <1>6, <1>7, <2>1, <2>2, <2>3
  <2>5. SameContent(RowOf(e), e)
    <3>1. \A x \in ApiFields(e) \cup {"receivedAt"} :
            /\ x \in DOMAIN RowOf(e) <=> x \in DOMAIN d
            /\ x \in DOMAIN d => RowOf(e)[x] = d[x]
      BY <1>12, <2>1, <2>2, <2>3
    <3>2. "type" \in ApiFields(e) /\ "type" \in DOMAIN d
      BY <1>2, <1>3 DEF ApiFields
    <3> QED
      BY <1>8, <1>9, <3>1, <3>2 DEF SameContent
  <2>6. DOMAIN RowOf(e) \cap {"properties", "traits"} \subseteq DOMAIN e
    BY <1>10, <2>1, <2>2, <2>3
  <2> QED
    BY <1>5, <1>15, <2>4, <2>5, <2>6 DEF MadeFrom
<1> QED
  BY <1>13, <1>14, <1>15

\* Nothing is on its way in the empty batch.
LEMMA EmptyRange == Range(<<>>) = {}
  BY DEF Range

LEMMA RowsInit == Init => RowsInvariant
<1> SUFFICES ASSUME Init PROVE RowsInvariant
  OBVIOUS
<1>1. platform \in {"express", "lambda", "azure"} /\ now \in Nat
  BY LifecycleAssumption DEF Init
<1> QED
  BY <1>1, EmptyRange DEF Init, RowsInvariant

\* Rows that were there, or on their way, stay right as time goes by.
LEMMA RowsKept ==
  ASSUME RowsInvariant, platform' = platform, raw' = raw, receivedAt' = receivedAt,
         now' \in Nat, airAt' \in Nat,
         air' \in {air, <<>>}, rows' \subseteq rows \cup Range(air),
         platform = "azure" => rows' \subseteq rows,
         air' # <<>> => airAt' = airAt /\ airAt' <= now' /\ now' <= airAt' + BulkTime
  PROVE  RowsInvariant'
<1>0. Range(air)' \subseteq Range(air)
  BY EmptyRange DEF Range
<1>1. \A r \in Range(air) \cup rows : FromRaw(r)
  BY DEF RowsInvariant
<1>2. \A r : FromRaw(r)' <=> FromRaw(r)
  BY DEF FromRaw, MadeFrom, SameContent
<1>3. \A r \in Range(air)' \cup rows' : FromRaw(r)'
  BY <1>0, <1>1, <1>2
<1>4. raw' = <<>> => air' = <<>> /\ rows' = {}
  BY EmptyRange DEF RowsInvariant
<1>5. platform' = "lambda" => \A r \in Range(air)' \cup rows' : DynamoDates(r)'
  BY <1>0 DEF RowsInvariant, DynamoDates
<1>6. platform' = "azure" =>
        (\A d \in Range(air)' : CosmosAir(d)') /\ (\A r \in rows' : CosmosDates(r)')
  <2>1. SUFFICES ASSUME platform = "azure"
                 PROVE  (\A d \in Range(air)' : CosmosAir(d)') /\ (\A r \in rows' : CosmosDates(r)')
    OBVIOUS
  <2>2. \A d \in Range(air)' : CosmosAir(d)'
    <3>1. CASE air' = <<>>
      BY <3>1, EmptyRange DEF Range
    <3>2. CASE air' # <<>>
      BY <1>0, <2>1, <3>2 DEF RowsInvariant, CosmosAir
    <3> QED
      BY <3>1, <3>2
  <2>3. \A r \in rows' : CosmosDates(r)'
    BY <2>1 DEF RowsInvariant, CosmosDates
  <2> QED
    BY <2>2, <2>3
<1> QED
  BY <1>3, <1>4, <1>5, <1>6 DEF RowsInvariant

\* What Cosmos DB makes of a document that it takes.
LEMMA Stamped ==
  ASSUME NEW d \in Range(air), IngestInvariant, RowsInvariant, platform = "azure", d.ttl # 0
  PROVE  LET s == Spread(d, [_ts |-> now \div Second])
         IN  FromRaw(s) /\ CosmosDates(s)
<1> DEFINE s == Spread(d, [_ts |-> now \div Second])
<1>1. PICK i \in DOMAIN raw : MadeFrom(d, raw[i])
  BY DEF RowsInvariant, FromRaw
<1>2. /\ s._ts = now \div Second
      /\ DOMAIN s = DOMAIN d \cup {"_ts"}
      /\ \A x \in DOMAIN d \ {"_ts"} : s[x] = d[x]
  BY DEF Spread
<1> HIDE DEF s
<1>3. /\ s.eventId = d.eventId /\ s.occurredAt = d.occurredAt /\ s.ttl = d.ttl
      /\ "context" \in DOMAIN s <=> "context" \in DOMAIN d
      /\ "context" \in DOMAIN d => s.context = d.context
      /\ {"eventId", "occurredAt", "ttl"} \subseteq DOMAIN s
  BY <1>1, <1>2 DEF MadeFrom
<1>4. SameContent(s, raw[i])
  <2>0. raw # <<>>
    BY EmptyRange DEF RowsInvariant
  <2>1. ApiFields(raw[i]) \cap {"_ts"} = {}
    BY DEF ApiFields
  <2>2. SameContent(d, raw[i]) /\ raw[i].type = d.type
    BY <1>1 DEF MadeFrom, SameContent
  <2>3. s.type = d.type
    <3>1. "type" \in ApiFields(raw[i]) /\ ValidEvent(raw[i])
      BY <2>0, RawIsNormal DEF ApiFields
    <3> QED
      BY <1>2, <2>2, <3>1 DEF SameContent, ValidEvent, RequiredFields
  <2> QED
    BY <1>2, <2>1, <2>2, <2>3 DEF SameContent
<1>5. MadeFrom(s, raw[i])
  <2>1. DOMAIN s \cap {"properties", "traits"} \subseteq DOMAIN raw[i]
    BY <1>1, <1>2 DEF MadeFrom
  <2> QED
    BY <1>1, <1>3, <1>4, <2>1 DEF MadeFrom
<1>6. /\ d.ttl = calculateCosmosDbTtl(d.occurredAt, airAt)
      /\ airAt \in Nat /\ now \in Nat /\ airAt <= now /\ now <= airAt + BulkTime
  <2>1. air # <<>>
    BY EmptyRange
  <2> QED
    BY <2>1 DEF RowsInvariant, CosmosAir
<1>7. CosmosDates(s)
  BY <1>2, <1>3, <1>6 DEF CosmosDates
<1>8. FromRaw(s)
  BY <1>5 DEF FromRaw
<1> QED
  BY <1>7, <1>8 DEF s

\* Each action keeps the rows right.
LEMMA RowsNext == IngestInvariant /\ RowsInvariant /\ [Next]_vars => RowsInvariant'
<1> SUFFICES ASSUME IngestInvariant, RowsInvariant, [Next]_vars
             PROVE  RowsInvariant'
  OBVIOUS
<1>0. /\ now \in Nat /\ airAt \in Nat
      /\ air # <<>> => airAt <= now /\ now <= airAt + BulkTime
  BY DEF RowsInvariant
<1>1. ASSUME NEW r \in Post, NEW works \in BOOLEAN, handlePost(r, works)
      PROVE  RowsInvariant'
  <2>1. air = <<>> /\ rows = {}
    BY <1>1 DEF handlePost, IngestInvariant, RowsInvariant
  <2>2. air' = <<>> /\ rows' = {} /\ platform' = platform /\ now' = now /\ airAt' = airAt
    BY <1>1, <2>1 DEF handlePost, storeVars
  <2>3. Range(air)' = {}
    BY <2>2, EmptyRange DEF Range
  <2> QED
    BY <1>0, <2>2, <2>3 DEF RowsInvariant
<1>2. CASE handleProcessor
  <2>1. PICK known : /\ air' = [i \in DOMAIN Normalised(raw) \ known |->
                                   RowOf(Normalised(raw)[i])]
                     /\ airAt' = now
    BY <1>2 DEF handleProcessor
  <2>2. /\ raw # <<>> /\ raw' = raw /\ platform' = platform /\ now' = now /\ rows' = rows
        /\ receivedAt' = receivedAt
    BY <1>2 DEF handleProcessor, requestVars
  <2>3. /\ Normalised(raw) = raw /\ ParsedEvents(raw) = raw
        /\ \A i \in DOMAIN raw : ValidEvent(raw[i])
    BY <2>2, RawIsNormal
  <2>4. \A i \in DOMAIN raw : Parsed(raw[i]) = raw[i]
    BY <2>3 DEF ParsedEvents
  <2>5. \A d \in Range(air)' : \E i \in DOMAIN raw : d = RowOf(raw[i])
    BY <2>1, <2>3 DEF Range
  <2>6. \A i \in DOMAIN raw :
          /\ MadeFrom(RowOf(raw[i]), raw[i])
          /\ platform = "lambda" => DynamoDates(RowOf(raw[i]))
          /\ platform = "azure" =>
               RowOf(raw[i]).ttl = calculateCosmosDbTtl(RowOf(raw[i]).occurredAt, now)
    BY <2>3, <2>4, RowMade DEF RowsInvariant
  <2>7. \A d \in Range(air)' :
          /\ FromRaw(d)
          /\ platform = "lambda" => DynamoDates(d)
          /\ platform = "azure" => d.ttl = calculateCosmosDbTtl(d.occurredAt, now)
    BY <2>5, <2>6 DEF FromRaw
  <2>8. \A r : (FromRaw(r)' <=> FromRaw(r)) /\ (DynamoDates(r)' <=> DynamoDates(r))
                 /\ (CosmosDates(r)' <=> CosmosDates(r))
    BY <2>2 DEF FromRaw, MadeFrom, SameContent, DynamoDates, CosmosDates
  <2>9. \A r \in rows : FromRaw(r) /\ (platform = "lambda" => DynamoDates(r))
                          /\ (platform = "azure" => CosmosDates(r))
    BY DEF RowsInvariant
  <2>10. \A d \in Range(air)' : platform' = "azure" => CosmosAir(d)'
    BY <2>1, <2>2, <2>7 DEF CosmosAir
  <2>11. \A r \in Range(air)' \cup rows' : FromRaw(r)' /\ (platform' = "lambda" => DynamoDates(r)')
    BY <2>2, <2>7, <2>8, <2>9
  <2>12. \A r \in rows' : platform' = "azure" => CosmosDates(r)'
    BY <2>2, <2>8, <2>9
  <2>13. now' \in Nat /\ airAt' \in Nat /\ airAt' <= now' /\ now' <= airAt' + BulkTime
    BY <1>0, <2>1, <2>2, LifecycleAssumption
  <2>14. platform' \in {"express", "lambda", "azure"} /\ raw' # <<>>
    BY <2>2 DEF RowsInvariant
  <2> QED
    BY <2>10, <2>11, <2>12, <2>13, <2>14 DEF RowsInvariant
<1>3. CASE storeInMemory
  <2>1. /\ platform = "express" /\ platform' = platform /\ raw' = raw /\ now' = now
        /\ receivedAt' = receivedAt /\ airAt' = airAt /\ air' = <<>>
    BY <1>3 DEF storeInMemory, requestVars
  <2>2. rows' \subseteq rows \cup Range(air)
    BY <1>3 DEF storeInMemory, Range
  <2> QED
    BY <1>0, <2>1, <2>2, RowsKept
<1>4. CASE storeInDynamo
  <2>1. /\ platform = "lambda" /\ platform' = platform /\ raw' = raw /\ now' = now
        /\ receivedAt' = receivedAt /\ airAt' = airAt /\ air' = <<>>
    BY <1>4 DEF storeInDynamo, requestVars
  <2>2. rows' \subseteq rows \cup Range(air)
    BY <1>4 DEF storeInDynamo, LastWrites, Over
  <2> QED
    BY <1>0, <2>1, <2>2, RowsKept
<1>5. CASE storeInCosmos
  <2>1. /\ platform = "azure" /\ platform' = platform /\ raw' = raw /\ now' = now
        /\ receivedAt' = receivedAt /\ airAt' = airAt /\ air' = <<>> /\ air # <<>>
    BY <1>5 DEF storeInCosmos, requestVars
  <2> DEFINE refused == {d \in Range(air) : d.ttl = 0}
             stamped(new) == {Spread(d, [_ts |-> now \div Second]) : d \in new}
  <2>2. PICK done \in IF refused = {} THEN {Range(air)} ELSE SUBSET (Range(air) \ refused) :
          \E new \in LastWrites(done) : rows' = Over(stamped(new))
    BY <1>5 DEF storeInCosmos
  <2>3. PICK new \in LastWrites(done) : rows' = Over(stamped(new))
    BY <2>2
  <2>4. \A d \in new : d \in Range(air) /\ d.ttl # 0
    BY <2>2 DEF LastWrites
  <2>5. \A r \in rows' : r \in rows \/ \E d \in new : r = Spread(d, [_ts |-> now \div Second])
    BY <2>3 DEF Over
  <2>6. \A d \in new : /\ FromRaw(Spread(d, [_ts |-> now \div Second]))
                       /\ CosmosDates(Spread(d, [_ts |-> now \div Second]))
    BY <2>1, <2>4, Stamped
  <2>7. \A r \in rows' : FromRaw(r) /\ CosmosDates(r)
    BY <2>1, <2>5, <2>6 DEF RowsInvariant
  <2>8. \A r : (FromRaw(r)' <=> FromRaw(r)) /\ (CosmosDates(r)' <=> CosmosDates(r))
    BY <2>1 DEF FromRaw, MadeFrom, SameContent, CosmosDates
  <2>9. \A r \in rows' : FromRaw(r)' /\ CosmosDates(r)'
    BY <2>7, <2>8
  <2>10. raw' # <<>> /\ Range(air)' = {}
    BY <2>1, EmptyRange DEF RowsInvariant, Range
  <2> QED
    BY <1>0, <2>1, <2>9, <2>10 DEF RowsInvariant
<1>6. CASE tick
  <2>1. /\ platform' = platform /\ raw' = raw /\ now' = now + 1 /\ airAt' = airAt
        /\ receivedAt' = receivedAt
        /\ air' = air /\ rows' = rows
        /\ air # <<>> => now < airAt + BulkTime
    BY <1>6 DEF tick, requestVars, storeVars
  <2>2. now' \in Nat /\ (air # <<>> => airAt <= now' /\ now' <= airAt + BulkTime)
    BY <1>0, <2>1, LifecycleAssumption
  <2> QED
    BY <1>0, <2>1, <2>2, RowsKept
<1>7. ASSUME NEW r \in rows, drop(r)
      PROVE  RowsInvariant'
  BY <1>0, <1>7, RowsKept DEF drop, requestVars
<1>8. ASSUME NEW q \in Query, handleGet(q)
      PROVE  RowsInvariant'
  BY <1>0, <1>8, RowsKept DEF handleGet, requestVars, storeVars
<1>9. CASE rejectBatch \/ UNCHANGED vars
  BY <1>0, <1>9, RowsKept DEF rejectBatch, vars, requestVars
<1> QED
  BY <1>1, <1>2, <1>3, <1>4, <1>5, <1>6, <1>7, <1>8, <1>9 DEF Next

\* The time of an event is the time it was posted with.
LEMMA RowTime ==
  ASSUME IngestInvariant, RowsInvariant, NEW r \in rows
  PROVE  r.occurredAt \in Int
<1>1. raw # <<>>
  BY DEF RowsInvariant
<1>2. PICK i \in DOMAIN raw : r.occurredAt = raw[i].occurredAt
  BY DEF RowsInvariant, FromRaw, MadeFrom
<1> QED
  BY <1>1, <1>2, PostedEvent

\* DynamoDB and Cosmos DB drop an event Retention after it occurred: less than two
\* seconds before, and no later than that by more than a bulk takes.
THEOREM RowsExpireOnTheirDay == Spec => []ExpiresOnItsDay
<1>1. IngestInvariant /\ RowsInvariant => ExpiresOnItsDay
  <2> SUFFICES ASSUME IngestInvariant, RowsInvariant, platform # "express", NEW r \in rows
               PROVE  LET due == r.occurredAt + Retention
                      IN  due - 2 * Second < Expiry(r) /\ Expiry(r) <= due + BulkTime
    BY DEF ExpiresOnItsDay
  <2>1. r.occurredAt \in Int
    BY RowTime
  <2>2. CASE platform = "lambda"
    BY <2>1, <2>2, DynamoExpiry DEF RowsInvariant, Expiry
  <2>3. CASE platform = "azure"
    BY <2>1, <2>3, CosmosExpiry DEF RowsInvariant, Expiry
  <2> QED
    BY <2>2, <2>3 DEF RowsInvariant
<1> QED
  BY <1>1, IngestInit, IngestNext, RowsInit, RowsNext, PTL DEF Spec

-----------------------------------------------------------------------------
(* Sessions *)

\* The normalisation keeps the session of an event, and puts it into the context.
LEMMA SessionKept ==
  ASSUME NEW e, ValidEvent(e)
  PROVE  LET n == NormaliseEvent(Parsed(e))
         IN  /\ Truthy(Context(n), "sessionId") => SessionMeant(e) = n.context.sessionId
                                                   /\ SessionMeant(e) # ""
             /\ ~Truthy(Context(n), "sessionId") => SessionMeant(e) = ""
             /\ Truthy(Context(n), "sessionId") => "context" \in DOMAIN n
<1> DEFINE p == Parsed(e)
           n == NormaliseEvent(p)
<1>1. /\ DOMAIN p = DOMAIN e \cap KnownFields(e)
      /\ \A x \in DOMAIN p : p[x] = e[x]
      /\ "actor" \in DOMAIN p
  BY ParsedFields
<1>2. p.actor = e.actor /\ Context(p) = Context(e)
  BY <1>1 DEF Context, KnownFields
<1>3. \A object : Truthy(Context(object), "sessionId") =>
        "context" \in DOMAIN object /\ Context(object) = object.context
  BY NoMembers DEF Truthy, Context
<1> HIDE DEF p
<1>4. CASE Moves(p)
  <2> DEFINE session == [sessionId |-> p.actor.sessionId]
  <2>1. "context" \in DOMAIN n /\ n.context = Spread(Context(p), session)
    BY <1>1, <1>4, NormalisedFields
  <2>2. DOMAIN session = {"sessionId"} /\ session.sessionId = p.actor.sessionId
    OBVIOUS
  <2> HIDE DEF session
  <2>3. "sessionId" \in DOMAIN n.context /\ n.context.sessionId = p.actor.sessionId
    <3>1. /\ DOMAIN Spread(Context(p), session) = DOMAIN Context(p) \cup DOMAIN session
          /\ \A x \in DOMAIN session : Spread(Context(p), session)[x] = session[x]
      BY Spreads
    <3> QED
      BY <2>1, <2>2, <3>1
  <2>4. ~Truthy(Context(e), "sessionId") /\ Truthy(e.actor, "sessionId")
    BY <1>2, <1>4 DEF Moves
  <2>5. SessionMeant(e) = p.actor.sessionId /\ p.actor.sessionId # ""
    BY <1>2, <2>4 DEF SessionMeant, Truthy
  <2>6. Context(n) = n.context
    BY <2>1 DEF Context
  <2> HIDE DEF n
  <2>7. Truthy(Context(n), "sessionId")
    BY <2>3, <2>5, <2>6 DEF Truthy
  <2> QED
    BY <2>1, <2>3, <2>5, <2>7 DEF n, p
<1>5. CASE ~Moves(p)
  <2>1. n = p
    BY <1>5, Unmoved
  <2>2. Truthy(Context(p), "sessionId") \/ ~Truthy(e.actor, "sessionId")
    BY <1>2, <1>5 DEF Moves
  <2>3. ~Truthy(Context(p), "sessionId") => SessionMeant(e) = ""
    BY <1>2, <2>2 DEF SessionMeant
  <2>4. ASSUME Truthy(Context(p), "sessionId")
        PROVE  /\ "context" \in DOMAIN p
               /\ SessionMeant(e) = p.context.sessionId /\ SessionMeant(e) # ""
    <3>1. "context" \in DOMAIN p /\ Context(p) = p.context /\ Context(e) = e.context
      BY <1>2, <1>3, <2>4
    <3>2. SessionMeant(e) = e.context.sessionId
      BY <1>2, <2>4 DEF SessionMeant
    <3> QED
      BY <1>2, <2>4, <3>1, <3>2 DEF Truthy
  <2> QED
    BY <2>1, <2>3, <2>4 DEF p
<1> QED
  BY <1>4, <1>5

\* A row of a normalised event is found under its session alone, or on DynamoDB under
\* the word for none.
LEMMA FoundUnder ==
  ASSUME NEW r, NEW e, ValidEvent(e), MadeFrom(r, NormaliseEvent(Parsed(e))),
         NEW s, s # ""
  PROVE  HasSession(r, s) <=>
           \/ s = SessionMeant(e)
           \/ platform = "lambda" /\ SessionMeant(e) = "" /\ s = "no-session"
<1> DEFINE meant == SessionMeant(e)
           n == NormaliseEvent(Parsed(e))
<1>1. /\ Truthy(Context(n), "sessionId") => meant = n.context.sessionId /\ meant # ""
      /\ ~Truthy(Context(n), "sessionId") => meant = ""
      /\ Truthy(Context(n), "sessionId") => "context" \in DOMAIN n
  BY SessionKept
<1>2. "context" \in DOMAIN n => Context(n) = n.context
  BY DEF Context
<1>3. MadeFrom(r, n)
  OBVIOUS
<1> HIDE DEF meant, n
<1>4. CASE platform = "lambda"
  <2>1. r.GSI2PK = SessionOf(n)
    BY <1>3, <1>4 DEF MadeFrom
  <2>2. CASE Truthy(Context(n), "sessionId")
    BY <1>1, <1>4, <2>1, <2>2 DEF HasSession, SessionOf, meant
  <2>3. CASE ~Truthy(Context(n), "sessionId")
    BY <1>1, <1>4, <2>1, <2>3 DEF HasSession, SessionOf, meant
  <2> QED
    BY <2>2, <2>3
<1>5. CASE platform # "lambda"
  <2>1. /\ "context" \in DOMAIN r <=> "context" \in DOMAIN n
        /\ "context" \in DOMAIN n => r.context = n.context
    BY <1>3, <1>5 DEF MadeFrom
  <2>2. CASE Truthy(Context(n), "sessionId")
    BY <1>1, <1>2, <1>5, <2>1, <2>2 DEF HasSession, meant
  <2>3. CASE ~Truthy(Context(n), "sessionId")
    <3>1. ~HasSession(r, s)
      BY <1>2, <1>5, <2>1, <2>3 DEF HasSession
    <3> QED
      BY <1>1, <1>5, <2>3, <3>1 DEF meant
  <2> QED
    BY <2>2, <2>3
<1> QED
  BY <1>4, <1>5

\* A row is found under the session its event was sent with and, but for the word that
\* DynamoDB has for no session, under no other.
THEOREM SessionsAreFindable == Spec => []SessionFindable
<1>1. IngestInvariant /\ RowsInvariant => SessionFindable
  <2> SUFFICES ASSUME IngestInvariant, RowsInvariant, NEW r \in rows
               PROVE  \E e \in PostedEvents :
                        /\ r.eventId = e.eventId /\ r.occurredAt = e.occurredAt
                        /\ \A q \in Query : q.session # "" =>
                             (HasSession(r, q.session) <=>
                                \/ q.session = SessionMeant(e)
                                \/ /\ platform = "lambda" /\ SessionMeant(e) = ""
                                   /\ q.session = "no-session")
    BY DEF SessionFindable
  <2>1. raw # <<>>
    BY DEF RowsInvariant
  <2>2. PICK i \in DOMAIN raw : MadeFrom(r, raw[i])
    BY DEF RowsInvariant, FromRaw
  <2>3. PICK e : e = post.events[i]
    OBVIOUS
  <2>4. /\ e \in PostedEvents /\ ValidEvent(e) /\ MadeFrom(r, NormaliseEvent(Parsed(e)))
        /\ raw[i].eventId = e.eventId /\ raw[i].occurredAt = e.occurredAt
    BY <2>1, <2>2, <2>3, PostedEvent
  <2>5. r.eventId = e.eventId /\ r.occurredAt = e.occurredAt
    BY <2>2, <2>4 DEF MadeFrom
  <2> QED
    BY <2>4, <2>5, FoundUnder
<1> QED
  BY <1>1, IngestInit, IngestNext, RowsInit, RowsNext, PTL DEF Spec

-----------------------------------------------------------------------------
(* What Cosmos DB refuses *)

YoungInvariant ==
  /\ airAt <= now
  /\ raw = <<>> => outcome # "failed"
  /\ YoungBatchIsStored

LEMMA YoungInit == Init => YoungInvariant
<1> SUFFICES ASSUME Init PROVE YoungInvariant
  OBVIOUS
<1>1. now \in Nat /\ airAt = 0
  BY LifecycleAssumption DEF Init
<1> QED
  BY <1>1 DEF Init, YoungInvariant, YoungBatchIsStored

\* A TTL of 0 comes from an event that is about to expire.
LEMMA Refused ==
  ASSUME IngestInvariant, RowsInvariant, platform = "azure", NEW d \in Range(air), d.ttl = 0
  PROVE  \E e \in Range(raw) : e.occurredAt + Retention < airAt + Second
<1>1. raw # <<>> /\ airAt \in Nat /\ Retention \in Nat /\ Second \in Nat \ {0}
  BY EmptyRange, RetentionAssumption DEF RowsInvariant
<1>2. PICK i \in DOMAIN raw : d.occurredAt = raw[i].occurredAt
  BY DEF RowsInvariant, FromRaw, MadeFrom
<1>5. d.occurredAt \in Int
  BY <1>1, <1>2, PostedEvent
<1> DEFINE left == d.occurredAt + Retention - airAt
<1>6. calculateCosmosDbTtl(d.occurredAt, airAt)
        = IF left \div Second > 0 THEN left \div Second ELSE 0
  BY DEF calculateCosmosDbTtl
<1>7. left \in Int /\ left = (d.occurredAt + Retention) - airAt
  BY <1>1, <1>5
<1>8. calculateCosmosDbTtl(d.occurredAt, airAt) = 0
  BY DEF RowsInvariant, CosmosAir
<1> HIDE DEF left
<1>9. left \div Second \in Int /\ left < (left \div Second) * Second + Second
  BY <1>7, Division
<1>10. left \div Second <= 0
  BY <1>6, <1>8, <1>9
<1>11. (left \div Second) * Second <= 0
  BY <1>1, <1>9, <1>10
<1>12. left < Second
  BY <1>1, <1>7, <1>9, <1>11
<1>13. raw[i].occurredAt + Retention < airAt + Second
  BY <1>1, <1>2, <1>5, <1>7, <1>12
<1> QED
  BY <1>13 DEF Range

LEMMA YoungNext ==
  IngestInvariant /\ RowsInvariant /\ YoungInvariant /\ [Next]_vars => YoungInvariant'
<1> SUFFICES ASSUME IngestInvariant, RowsInvariant, YoungInvariant, [Next]_vars
             PROVE  YoungInvariant'
  OBVIOUS
<1>0. now \in Nat /\ airAt \in Nat /\ airAt <= now /\ platform' = platform
  BY DEF RowsInvariant, YoungInvariant, Next, vars, handlePost, rejectBatch, handleProcessor,
         storeInMemory, storeInDynamo, storeInCosmos, drop, handleGet, tick, requestVars
<1>1. ASSUME NEW r \in Post, NEW works \in BOOLEAN, handlePost(r, works)
      PROVE  YoungInvariant'
  <2>1. raw = <<>> /\ outcome' = outcome /\ now' = now /\ airAt' = airAt
    BY <1>1 DEF handlePost, storeVars, IngestInvariant
  <2> QED
    BY <1>0, <2>1 DEF YoungInvariant, YoungBatchIsStored
<1>2. ASSUME raw' = raw, now' = now, airAt' = airAt, outcome' # "failed" \/ outcome' = outcome
      PROVE  YoungInvariant'
  BY <1>0, <1>2 DEF YoungInvariant, YoungBatchIsStored
<1>3. CASE handleProcessor
  <2>1. raw' = raw /\ now' = now /\ airAt' = now /\ outcome' \in {outcome, "stored"}
    BY <1>3 DEF handleProcessor, requestVars
  <2>2. CASE outcome' # "failed"
    BY <1>0, <2>1, <2>2 DEF YoungInvariant, YoungBatchIsStored
  <2>3. CASE outcome' = "failed"
    <3>1. outcome = "failed" /\ raw # <<>>
      BY <2>1, <2>3 DEF YoungInvariant
    <3>2. platform = "azure"
      BY <3>1 DEF YoungInvariant, YoungBatchIsStored
    <3>3. PICK e \in Range(raw) : e.occurredAt + Retention < airAt + Second
      BY <3>1 DEF YoungInvariant, YoungBatchIsStored
    <3>4. e.occurredAt \in Int
      <4>1. PICK i \in DOMAIN raw : e = raw[i]
        BY <3>3 DEF Range
      <4> QED
        BY <3>1, <4>1, PostedEvent
    <3>5. e.occurredAt + Retention < airAt' + Second
      BY <1>0, <2>1, <3>3, <3>4, RetentionAssumption
    <3> QED
      BY <1>0, <2>1, <3>1, <3>2, <3>5 DEF YoungInvariant, YoungBatchIsStored
  <2> QED
    BY <2>2, <2>3
<1>4. CASE storeInCosmos
  <2>1. /\ platform = "azure" /\ raw' = raw /\ now' = now /\ airAt' = airAt /\ air # <<>>
        /\ outcome' = IF {d \in Range(air) : d.ttl = 0} = {} THEN "stored" ELSE "failed"
    BY <1>4 DEF storeInCosmos, requestVars
  <2>2. CASE {d \in Range(air) : d.ttl = 0} = {}
    BY <1>2, <2>1, <2>2
  <2>3. CASE {d \in Range(air) : d.ttl = 0} # {}
    <3>1. \E e \in Range(raw) : e.occurredAt + Retention < airAt + Second
      BY <2>1, <2>3, Refused
    <3>2. raw # <<>>
      BY <2>1 DEF RowsInvariant
    <3> QED
      BY <1>0, <2>1, <3>1, <3>2 DEF YoungInvariant, YoungBatchIsStored
  <2> QED
    BY <2>2, <2>3
<1>5. CASE storeInMemory \/ storeInDynamo \/ rejectBatch
  BY <1>2, <1>5 DEF storeInMemory, storeInDynamo, rejectBatch, requestVars
<1>6. CASE tick
  <2>1. now' = now + 1 /\ airAt' = airAt /\ raw' = raw /\ outcome' = outcome
    BY <1>6 DEF tick, requestVars, storeVars
  <2>2. airAt' <= now'
    BY <1>0, <2>1
  <2> QED
    BY <1>0, <2>1, <2>2 DEF YoungInvariant, YoungBatchIsStored
<1>7. ASSUME NEW r \in rows, drop(r)
      PROVE  YoungInvariant'
  BY <1>2, <1>7 DEF drop, requestVars
<1>8. ASSUME NEW q \in Query, handleGet(q)
      PROVE  YoungInvariant'
  BY <1>2, <1>8 DEF handleGet, requestVars, storeVars
<1>9. CASE UNCHANGED vars
  BY <1>2, <1>9 DEF vars
<1> QED
  BY <1>1, <1>3, <1>4, <1>5, <1>6, <1>7, <1>8, <1>9 DEF Next

\* Storing a batch fails only on Cosmos DB, for an event with less than a second
\* left when the attempt began.
THEOREM OnlyOldBatchesFail == Spec => []YoungBatchIsStored
<1>1. YoungInvariant => YoungBatchIsStored
  BY DEF YoungInvariant
<1> QED
  BY <1>1, IngestInit, IngestNext, RowsInit, RowsNext, YoungInit, YoungNext, PTL DEF Spec

-----------------------------------------------------------------------------
(* Types *)

TypeInvariant ==
  /\ now \in FirstNow .. LastNow /\ airAt \in 0 .. now
  /\ outcome \in {"none", "poison", "stored", "failed"}

LEMMA TypeInit == Init => TypeInvariant
<1> SUFFICES ASSUME Init PROVE TypeInvariant
  OBVIOUS
<1>1. now \in FirstNow .. LastNow /\ 0 \in 0 .. now
  BY LifecycleAssumption DEF Init
<1> QED
  BY <1>1 DEF Init, TypeInvariant

LEMMA TypeNext == TypeInvariant /\ [Next]_vars => TypeInvariant'
<1> SUFFICES ASSUME TypeInvariant, [Next]_vars PROVE TypeInvariant'
  OBVIOUS
<1>1. ASSUME now' = now, airAt' \in {airAt, now},
             outcome' \in {outcome, "poison", "stored", "failed"}
      PROVE  TypeInvariant'
  <2>1. now \in Nat /\ airAt \in 0 .. now /\ now \in 0 .. now
    BY LifecycleAssumption DEF TypeInvariant
  <2> QED
    BY <1>1, <2>1 DEF TypeInvariant
<1>2. CASE tick
  <2>1. now < LastNow /\ now' = now + 1 /\ airAt' = airAt /\ outcome' = outcome
    BY <1>2 DEF tick, storeVars
  <2>2. now' \in FirstNow .. LastNow /\ airAt' \in 0 .. now'
    BY <2>1, LifecycleAssumption DEF TypeInvariant
  <2> QED
    BY <2>1, <2>2 DEF TypeInvariant
<1>3. ASSUME NEW r \in Post, NEW works \in BOOLEAN, handlePost(r, works)
      PROVE  TypeInvariant'
  BY <1>1, <1>3 DEF handlePost, storeVars
<1>4. CASE rejectBatch \/ handleProcessor
  BY <1>1, <1>4 DEF rejectBatch, handleProcessor
<1>5. CASE storeInMemory \/ storeInDynamo \/ storeInCosmos
  BY <1>1, <1>5 DEF storeInMemory, storeInDynamo, storeInCosmos
<1>6. ASSUME NEW r \in rows, drop(r)
      PROVE  TypeInvariant'
  BY <1>1, <1>6 DEF drop
<1>7. ASSUME NEW q \in Query, handleGet(q)
      PROVE  TypeInvariant'
  BY <1>1, <1>7 DEF handleGet, storeVars
<1>8. CASE UNCHANGED vars
  BY <1>1, <1>8 DEF vars
<1> QED
  BY <1>2, <1>3, <1>4, <1>5, <1>6, <1>7, <1>8 DEF Next

\* The batch that the processor reads is valid and normalised, and no attempt to
\* store it has a time ahead of the clock.
THEOREM LifecycleTypes == Spec => []TypeOK
<1>1. IngestInvariant /\ TypeInvariant => TypeOK
  <2> SUFFICES ASSUME IngestInvariant, TypeInvariant PROVE TypeOK
    OBVIOUS
  <2>1. ASSUME NEW e \in Range(raw)
        PROVE  /\ ValidEvent(e)
               /\ Truthy(e.actor, "sessionId") => Truthy(Context(e), "sessionId")
    <3>1. PICK i \in DOMAIN raw : e = raw[i]
      BY <2>1 DEF Range
    <3>2. raw # <<>>
      BY <3>1, NoMembers
    <3>3. raw[i] = NormaliseEvent(Parsed(post.events[i])) /\ ValidEvent(post.events[i])
      BY <3>1, <3>2, RawIsNormal
    <3> QED
      BY <3>1, <3>3, NormalForm DEF Moves
  <2> QED
    BY <2>1 DEF TypeOK, TypeInvariant, IngestInvariant
<1> QED
  BY <1>1, IngestInit, IngestNext, TypeInit, TypeNext, PTL DEF Spec

-----------------------------------------------------------------------------
(* Answers *)

\* An answer shows an event of the raw batch.
ShownAs(a, e) ==
  /\ DOMAIN a = (ApiFields(e) \cap DOMAIN e) \cup {"receivedAt"}
  /\ a.receivedAt = receivedAt
  /\ \A x \in ApiFields(e) \cap DOMAIN e : a[x] = e[x]

AnswerInvariant ==
  /\ raw = <<>> => found = {}
  /\ \A a \in found : \E i \in DOMAIN raw : ShownAs(a, raw[i])

\* The API event of a row shows the event that the row was made from.
LEMMA RowShown ==
  ASSUME NEW r, NEW e, SameContent(r, e)
  PROVE  ShownAs(mapStoredEventToApiEvent(r), e)
<1> DEFINE a == mapStoredEventToApiEvent(r)
           F == {"eventId", "type", "occurredAt", "receivedAt", "source", "actor", "context"}
                  \cup (IF r.type = "identify" THEN {"traits"} ELSE {"name", "properties"})
<1>1. F = ApiFields(e) \cup {"receivedAt"}
  BY DEF SameContent, ApiFields
<1>2. a = Restrict(r, DOMAIN r \cap F)
  BY DEF mapStoredEventToApiEvent
<1> HIDE DEF F
<1>3. DOMAIN a = DOMAIN r \cap F /\ \A x \in DOMAIN r \cap F : a[x] = r[x]
  BY <1>2, Restricted
<1>4. DOMAIN r \cap F = (ApiFields(e) \cap DOMAIN e) \cup {"receivedAt"}
  BY <1>1 DEF SameContent
<1> HIDE DEF a
<1>5. a.receivedAt = receivedAt /\ \A x \in ApiFields(e) \cap DOMAIN e : a[x] = e[x]
  BY <1>3, <1>4 DEF SameContent
<1>6. ShownAs(a, e)
  BY <1>3, <1>4, <1>5 DEF ShownAs
<1> QED
  BY <1>6 DEF a

LEMMA AnswerInit == Init => AnswerInvariant
  BY DEF Init, AnswerInvariant

LEMMA AnswerNext ==
  IngestInvariant /\ RowsInvariant /\ AnswerInvariant /\ [Next]_vars => AnswerInvariant'
<1> SUFFICES ASSUME IngestInvariant, RowsInvariant, AnswerInvariant, [Next]_vars
             PROVE  AnswerInvariant'
  OBVIOUS
<1>1. ASSUME NEW r \in Post, NEW works \in BOOLEAN, handlePost(r, works)
      PROVE  AnswerInvariant'
  <2>1. raw = <<>> /\ found' = found
    BY <1>1 DEF handlePost, readVars, IngestInvariant
  <2> QED
    BY <2>1 DEF AnswerInvariant
<1>2. ASSUME NEW q \in Query, handleGet(q)
      PROVE  AnswerInvariant'
  <2>1. raw' = raw /\ receivedAt' = receivedAt
    BY <1>2 DEF handleGet, requestVars
  <2>2. \A a \in found' : \E r \in rows : a = mapStoredEventToApiEvent(r)
    BY <1>2 DEF handleGet, Answer
  <2>3. \A r \in rows : \E i \in DOMAIN raw : SameContent(r, raw[i])
    BY DEF RowsInvariant, FromRaw, MadeFrom
  <2>4. \A a \in found' : \E i \in DOMAIN raw : ShownAs(a, raw[i])
    BY <2>2, <2>3, RowShown
  <2>5. \A a \in found' : \E i \in DOMAIN raw' : ShownAs(a, raw[i])'
    BY <2>1, <2>4 DEF ShownAs
  <2>6. raw' = <<>> => found' = {}
    BY <2>1, <2>2 DEF RowsInvariant
  <2> QED
    BY <2>5, <2>6 DEF AnswerInvariant
<1>3. ASSUME raw' = raw, receivedAt' = receivedAt, found' = found
      PROVE  AnswerInvariant'
  BY <1>3 DEF AnswerInvariant, ShownAs
<1>4. ASSUME NEW r \in rows, drop(r)
      PROVE  AnswerInvariant'
  BY <1>3, <1>4 DEF drop, requestVars, readVars
<1>5. CASE rejectBatch \/ handleProcessor \/ tick \/ UNCHANGED vars
  BY <1>3, <1>5 DEF rejectBatch, handleProcessor, tick, vars, requestVars, readVars
<1>6. CASE storeInMemory \/ storeInDynamo \/ storeInCosmos
  BY <1>3, <1>6 DEF storeInMemory, storeInDynamo, storeInCosmos, requestVars, readVars
<1> QED
  BY <1>1, <1>2, <1>4, <1>5, <1>6 DEF Next

\* The context of a normalised event is the one that was posted, with the session.
LEMMA NormalContext ==
  ASSUME NEW e, ValidEvent(e), "context" \in DOMAIN NormaliseEvent(Parsed(e))
  PROVE  ContextShown(NormaliseEvent(Parsed(e)).context, e)
<1> DEFINE p == Parsed(e)
           n == NormaliseEvent(p)
<1>1. /\ DOMAIN p = DOMAIN e \cap KnownFields(e)
      /\ \A x \in DOMAIN p : p[x] = e[x]
      /\ "actor" \in DOMAIN p
  BY ParsedFields
<1>2. p.actor = e.actor /\ Context(p) = Context(e)
  BY <1>1 DEF Context, KnownFields
<1>3. "context" \in DOMAIN n
  OBVIOUS
<1> HIDE DEF p
<1>4. CASE Moves(p)
  <2> DEFINE session == [sessionId |-> p.actor.sessionId]
  <2>1. n.context = Spread(Context(e), session)
    BY <1>1, <1>2, <1>4, NormalisedFields
  <2>2. DOMAIN session = {"sessionId"} /\ session["sessionId"] = p.actor.sessionId
    OBVIOUS
  <2> HIDE DEF session
  <2>3. SessionMeant(e) = p.actor.sessionId /\ SessionMeant(e) # ""
    <3>1. ~Truthy(Context(e), "sessionId") /\ Truthy(e.actor, "sessionId")
      BY <1>2, <1>4 DEF Moves
    <3> QED
      BY <1>2, <3>1 DEF SessionMeant, Truthy
  <2>4. /\ DOMAIN Spread(Context(e), session) = DOMAIN Context(e) \cup DOMAIN session
        /\ \A x \in DOMAIN session : Spread(Context(e), session)[x] = session[x]
        /\ \A x \in DOMAIN Context(e) \ DOMAIN session :
             Spread(Context(e), session)[x] = Context(e)[x]
    BY Spreads
  <2> HIDE DEF n
  <2> QED
    BY <2>1, <2>2, <2>3, <2>4 DEF ContextShown, n, p
<1>5. CASE ~Moves(p)
  <2>1. n = p
    BY <1>5, Unmoved
  <2>2. n.context = Context(e)
    BY <1>2, <1>3, <2>1 DEF Context
  <2>3. Truthy(Context(e), "sessionId") \/ ~Truthy(e.actor, "sessionId")
    BY <1>2, <1>5 DEF Moves
  <2>4. Context(e) = e.context
    BY <1>1, <1>3, <2>1 DEF Context
  <2>5. Truthy(Context(e), "sessionId") => /\ SessionMeant(e) = Context(e)["sessionId"]
                                          /\ "sessionId" \in DOMAIN Context(e)
    BY <2>4 DEF SessionMeant, Truthy
  <2>6. ~Truthy(Context(e), "sessionId") => SessionMeant(e) = ""
    BY <2>3 DEF SessionMeant
  <2>7. CASE Truthy(Context(e), "sessionId")
    BY <2>2, <2>5, <2>7 DEF ContextShown, p
  <2>8. CASE ~Truthy(Context(e), "sessionId")
    BY <2>2, <2>6, <2>8 DEF ContextShown, p
  <2> QED
    BY <2>7, <2>8
<1> QED
  BY <1>4, <1>5

\* The members of a normalised event, its context and its actor, as they were posted.
LEMMA NormalContent ==
  ASSUME NEW e, ValidEvent(e)
  PROVE  LET n == NormaliseEvent(Parsed(e)) IN
         /\ ApiFields(n) \cap DOMAIN n
              = (DOMAIN Parsed(e) \ {"consent"})
                  \cup (IF SessionMeant(e) = "" THEN {} ELSE {"context"})
         /\ \A x \in (ApiFields(n) \cap DOMAIN n) \ {"actor", "context"} : n[x] = e[x]
         /\ "context" \in DOMAIN n => ContextShown(n.context, e)
         /\ "actor" \in DOMAIN n
         /\ \A id \in {"userId", "anonymousId"} :
              /\ id \in DOMAIN n.actor <=> id \in DOMAIN e.actor
              /\ id \in DOMAIN e.actor => n.actor[id] = e.actor[id]
<1> DEFINE p == Parsed(e)
           n == NormaliseEvent(p)
<1>1. /\ DOMAIN p = DOMAIN e \cap KnownFields(e)
      /\ \A x \in DOMAIN p : p[x] = e[x]
      /\ {"eventId", "type", "occurredAt", "source", "actor"} \subseteq DOMAIN p
  BY ParsedFields
<1>2. KnownFields(e) = ApiFields(e) \cup {"consent"} /\ "consent" \notin ApiFields(e)
      /\ "context" \in ApiFields(e)
  BY DEF KnownFields, RequiredFields, ApiFields
<1>3. p.actor = e.actor /\ p.type = e.type
  BY <1>1
<1>4. /\ Truthy(Context(n), "sessionId") => SessionMeant(e) # "" /\ "context" \in DOMAIN n
      /\ ~Truthy(Context(n), "sessionId") => SessionMeant(e) = ""
  BY SessionKept
<1> HIDE DEF p
<1>5. "context" \in DOMAIN n => ContextShown(n.context, e)
  BY NormalContext DEF p
<1>6. CASE Moves(p)
  <2>1. /\ DOMAIN n = DOMAIN p \cup {"context"}
        /\ \A x \in DOMAIN p \ {"actor", "context"} : n[x] = p[x]
        /\ n.actor = Without(p.actor, "sessionId")
    BY <1>1, <1>6, NormalisedFields
  <2>2. SessionMeant(e) # ""
    <3>1. Truthy(e.actor, "sessionId") /\ ~Truthy(Context(e), "sessionId")
      BY <1>1, <1>2, <1>3, <1>6 DEF Moves, Context
    <3> QED
      BY <3>1 DEF SessionMeant, Truthy
  <2>3. n.type = e.type
    BY <1>1, <1>3, <2>1
  <2> HIDE DEF n
  <2>4. ApiFields(n) = ApiFields(e)
    BY <2>3 DEF ApiFields
  <2>5. ApiFields(n) \cap DOMAIN n = (DOMAIN p \ {"consent"}) \cup {"context"}
    BY <1>1, <1>2, <2>1, <2>4
  <2>6. \A id \in {"userId", "anonymousId"} :
          /\ id \in DOMAIN n.actor <=> id \in DOMAIN e.actor
          /\ id \in DOMAIN e.actor => n.actor[id] = e.actor[id]
    BY <1>3, <2>1, WithoutSession
  <2> QED
    BY <1>1, <1>5, <2>1, <2>2, <2>5, <2>6 DEF n, p
<1>7. CASE ~Moves(p)
  <2>1. n = p
    BY <1>7, Unmoved
  <2>2. ApiFields(n) = ApiFields(e)
    BY <1>3, <2>1 DEF ApiFields
  <2> HIDE DEF n
  <2>3. ApiFields(n) \cap DOMAIN n = DOMAIN p \ {"consent"}
    BY <1>1, <1>2, <2>1, <2>2
  <2>4. SessionMeant(e) # "" => "context" \in DOMAIN p \ {"consent"}
    BY <1>4, <2>1 DEF n
  <2>5. ApiFields(n) \cap DOMAIN n = (DOMAIN p \ {"consent"})
          \cup (IF SessionMeant(e) = "" THEN {} ELSE {"context"})
    BY <2>3, <2>4
  <2> QED
    BY <1>1, <1>3, <1>5, <2>1, <2>5 DEF n, p
<1> QED
  BY <1>6, <1>7

\* Whatever the platform, a reader is shown the event as it was sent.
THEOREM AnswersAreFaithful == Spec => []AnswerIsTheEvent
<1>1. IngestInvariant /\ AnswerInvariant => AnswerIsTheEvent
  <2> SUFFICES ASSUME IngestInvariant, AnswerInvariant, NEW a \in found
               PROVE  \E e \in PostedEvents : Shows(a, e)
    BY DEF AnswerIsTheEvent
  <2>1. raw # <<>>
    BY DEF AnswerInvariant
  <2>2. PICK i \in DOMAIN raw : ShownAs(a, raw[i])
    BY DEF AnswerInvariant
  <2>3. PICK e : e = post.events[i]
    OBVIOUS
  <2> DEFINE n == NormaliseEvent(Parsed(e))
  <2>4. e \in PostedEvents /\ ValidEvent(e) /\ raw[i] = n
    BY <2>1, <2>3, PostedEvent
  <2>5. /\ ApiFields(n) \cap DOMAIN n
             = (DOMAIN Parsed(e) \ {"consent"})
                 \cup (IF SessionMeant(e) = "" THEN {} ELSE {"context"})
        /\ \A x \in (ApiFields(n) \cap DOMAIN n) \ {"actor", "context"} : n[x] = e[x]
        /\ "context" \in DOMAIN n => ContextShown(n.context, e)
        /\ "actor" \in DOMAIN n
        /\ \A id \in {"userId", "anonymousId"} :
             /\ id \in DOMAIN n.actor <=> id \in DOMAIN e.actor
             /\ id \in DOMAIN e.actor => n.actor[id] = e.actor[id]
    BY <2>4, NormalContent
  <2>6. ShownAs(a, n)
    BY <2>2, <2>4
  <2>7. "actor" \in ApiFields(n) \cap DOMAIN n /\ "receivedAt" \notin ApiFields(n)
    BY <2>5 DEF ApiFields
  <2> HIDE DEF n
  <2>8. /\ DOMAIN a = (ApiFields(n) \cap DOMAIN n) \cup {"receivedAt"}
        /\ a.receivedAt = receivedAt /\ a.actor = n.actor
        /\ \A x \in ApiFields(n) \cap DOMAIN n : a[x] = n[x]
    BY <2>6, <2>7 DEF ShownAs
  <2>9. /\ DOMAIN a = (DOMAIN Parsed(e) \ {"consent"}) \cup {"receivedAt"}
                        \cup (IF SessionMeant(e) = "" THEN {} ELSE {"context"})
        /\ \A x \in DOMAIN a \ {"actor", "context", "receivedAt"} : a[x] = e[x]
    BY <2>5, <2>8
  <2>10. ASSUME "context" \in DOMAIN a PROVE ContextShown(a.context, e)
    <3>1. "context" \in ApiFields(n) \cap DOMAIN n
      BY <2>8, <2>10
    <3> QED
      BY <2>5, <2>8, <3>1
  <2>11. \A id \in {"userId", "anonymousId"} :
           IF id \in DOMAIN e.actor THEN id \in DOMAIN a.actor /\ a.actor[id] = e.actor[id]
                                    ELSE id \notin DOMAIN a.actor
    BY <2>5, <2>8
  <2>12. Shows(a, e)
    BY <2>8, <2>9, <2>10, <2>11 DEF Shows
  <2> QED
    BY <2>4, <2>12
<1> QED
  BY <1>1, IngestInit, IngestNext, RowsInit, RowsNext, AnswerInit, AnswerNext, PTL DEF Spec
=============================================================================
