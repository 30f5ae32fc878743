------------------------------ MODULE Validation ------------------------------
(***************************************************************************)
(* createValidateIngestRequestEnvelope of domain/validation.ts, which runs  *)
(* when a batch is posted and again when the processor has fetched it.      *)
(*                                                                         *)
(* A JSON object is a function from the names of its members; a member that *)
(* is undefined is not in its domain, as in the text of JSON.  What the     *)
(* client puts into properties or traits is a member of Value: a record     *)
(* with its kind, its length if it is a string, its parts if it is an array *)
(* or an object, and whether all keys of it match PROPERTY_KEY_PATTERN.     *)
(* Sizes are counted in members instead of characters.                      *)
(***************************************************************************)
EXTENDS Integers, Sequences, FiniteSets, Functions

CONSTANTS
  Value,              \* the JSON values considered, closed under parts
  maxPropertyDepth,
  maxKeysPerLevel,
  maxArrayLength,
  maxStringLength,
  minEventsPerBatch,
  maxEventsPerBatch,
  maxPayloadSize      \* maxPayloadSizeBytes, in members

Limits == {maxPropertyDepth, maxKeysPerLevel, maxArrayLength, maxStringLength,
           minEventsPerBatch, maxEventsPerBatch, maxPayloadSize}

ASSUME ValidationAssumption ==
  /\ Limits \subseteq Nat \ {0}
  /\ \A v \in Value : v.parts \in Seq(Value) /\ v.kind \in {"string", "scalar", "array", "object"}

-----------------------------------------------------------------------------
(* The content of properties and traits *)

\* The limits on the number and the names of the members of one value.
FitsLevel(v) ==
  /\ v.kind = "array" => Len(v.parts) <= maxArrayLength
  /\ v.kind = "object" => Len(v.parts) <= maxKeysPerLevel /\ v.named

\* The recursion of the mutant ArraysAreNoLevel.
ArraysAreFree[at \in Value \X (0 .. maxPropertyDepth + 1)] ==
  LET v == at[1]  depth == at[2] IN
  /\ depth <= maxPropertyDepth /\ FitsLevel(v)
  /\ \A i \in DOMAIN v.parts :
       ArraysAreFree[<<v.parts[i], IF v.kind = "array" THEN depth ELSE depth + 1>>]

\* Called with a value and its depth.
validatePropertiesDepth[at \in Value \X (0 .. maxPropertyDepth + 1)] ==
  LET v == at[1]  depth == at[2] IN
  /\ depth <= maxPropertyDepth /\ FitsLevel(v)
  /\ \A i \in DOMAIN v.parts : validatePropertiesDepth[<<v.parts[i], depth + 1>>]

validateStringLength[v \in Value] ==
  /\ v.kind = "string" => v.length <= maxStringLength
  /\ \A i \in DOMAIN v.parts : validateStringLength[v.parts[i]]

\* Mutant: arrays are no level of their own.
ArraysAreNoLevel(v) ==
  v.kind = "object" /\ ArraysAreFree[<<v, 0>>] /\ validateStringLength[v]

ValidContent(v) ==
  v.kind = "object" /\ validatePropertiesDepth[<<v, 0>>] /\ validateStringLength[v]

-----------------------------------------------------------------------------
(* Events: what the schema keeps of one, and when it accepts it *)

\* JavaScript's truth of a string member.
Truthy(object, field) == field \in DOMAIN object /\ object[field] # ""

RequiredFields(e) ==
  {"eventId", "type", "occurredAt", "source", "actor"}
    \cup (IF e.type = "identify" THEN {} ELSE {"name"})

KnownFields(e) ==
  RequiredFields(e) \cup {"context", "consent"}
    \cup (IF e.type = "identify" THEN {"traits"} ELSE {"properties"})

\* The object {...base, ...over}.
Spread(base, over) ==
  [field \in DOMAIN base \cup DOMAIN over |->
     IF field \in DOMAIN over THEN over[field] ELSE base[field]]

\* Members that the schema does not know are left out of the parsed event.
Parsed(e) == Restrict(e, DOMAIN e \cap KnownFields(e))

ValidEvent(e) ==
  /\ RequiredFields(e) \subseteq DOMAIN e
  /\ Truthy(e.actor, "userId") \/ Truthy(e.actor, "anonymousId")
  /\ \A field \in DOMAIN Parsed(e) \cap {"properties", "traits"} : ValidContent(e[field])

\* The length of JSON.stringify(data), which sees parsed events.
Size(e) ==
  Cardinality(DOMAIN e) + Cardinality(DOMAIN e.actor)
    + IF "context" \in DOMAIN e THEN Cardinality(DOMAIN e.context) ELSE 0

EnvelopeSize(events, sentAt) ==
  FoldFunction(+, IF sentAt THEN 1 ELSE 0, [i \in DOMAIN events |-> Size(events[i])])

ParsedEvents(events) == [i \in DOMAIN events |-> Parsed(events[i])]

\* safeParse succeeds.
Accepts(events, sentAt) ==
  /\ Len(events) \in minEventsPerBatch .. maxEventsPerBatch
  /\ \A i \in DOMAIN events : ValidEvent(events[i])
  /\ EnvelopeSize(ParsedEvents(events), sentAt) <= maxPayloadSize

-----------------------------------------------------------------------------
(* Normalisation: actor.sessionId moves to the context unless there is one *)

Context(e) == IF "context" \in DOMAIN e THEN e.context ELSE <<>>

Without(object, field) == Restrict(object, DOMAIN object \ {field})

\* Mutant: the event gets a new actor instead of a copy without the sessionId.
DropsActor(e) ==
  IF Truthy(e.actor, "sessionId") /\ ~Truthy(Context(e), "sessionId")
  THEN Spread(e, [context |-> Spread(Context(e), [sessionId |-> e.actor.sessionId]),
                  actor   |-> Restrict(e.actor, {})])
  ELSE e

\* Mutant: the sessionId moves only into a context that is there.
NeedsContext(e) ==
  IF Truthy(e.actor, "sessionId") /\ ~Truthy(Context(e), "sessionId")
  THEN Spread(Spread(e, [actor |-> Without(e.actor, "sessionId")]),
              IF "context" \in DOMAIN e
              THEN [context |-> Spread(e.context, [sessionId |-> e.actor.sessionId])]
              ELSE <<>>)
  ELSE e

\* Mutant: the event gets a new context instead of a copy with the sessionId.
NewContext(e) ==
  IF Truthy(e.actor, "sessionId") /\ ~Truthy(Context(e), "sessionId")
  THEN Spread(e, [context |-> [sessionId |-> e.actor.sessionId],
                  actor   |-> Without(e.actor, "sessionId")])
  ELSE e

NormaliseEvent(e) ==
  IF Truthy(e.actor, "sessionId") /\ ~Truthy(Context(e), "sessionId")
  THEN Spread(e, [context |-> Spread(Context(e), [sessionId |-> e.actor.sessionId]),
                  actor   |-> Without(e.actor, "sessionId")])
  ELSE e

\* The data of a successful validation.
Normalised(events) ==
  [i \in DOMAIN events |-> NormaliseEvent(Parsed(events[i]))]
=============================================================================
