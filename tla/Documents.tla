------------------------------ MODULE Documents ------------------------------
(***************************************************************************)
(* What becomes of an event between the processor and an answer: the stored *)
(* event, the row of each repository, and the event that the API returns.   *)
(***************************************************************************)
EXTENDS Validation, Retention

transformToStoredEvent(e, receivedAt, processedAt) ==
  Spread(e, [receivedAt |-> receivedAt, processedAt |-> processedAt])

SessionOf(e) == IF Truthy(Context(e), "sessionId") THEN e.context.sessionId
                                                   ELSE "no-session"

ItemFields(e) ==
  {"eventId", "type", "occurredAt", "receivedAt", "processedAt", "source",
   "actor", "context"}
    \cup (IF e.type = "identify" THEN {"traits"} ELSE {"name", "properties"})

\* putEvent lists the members it stores; a consent is none of them.  The keys of
\* the session index carry the appId too, which is the same for all events here.
DynamoItem(e) ==
  Spread(Restrict(e, DOMAIN e \cap ItemFields(e)),
         [PK |-> e.source, SK |-> <<e.occurredAt, e.eventId>>, GSI2PK |-> SessionOf(e),
          expiresAt |-> calculateExpiresAt(e.occurredAt)])

\* The resource of an Upsert: members of the event would win over the others.
CosmosDocument(e, now) ==
  Spread([id |-> e.eventId, pk |-> e.source,
          ttl |-> calculateCosmosDbTtl(e.occurredAt, now)], e)

-----------------------------------------------------------------------------
(* The API *)

\* Only the members that the API documents.
mapStoredEventToApiEvent(row) ==
  Restrict(row, DOMAIN row \cap
    ({"eventId", "type", "occurredAt", "receivedAt", "source", "actor", "context"}
       \cup (IF row.type = "identify" THEN {"traits"} ELSE {"name", "properties"})))
=============================================================================
