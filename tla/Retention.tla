------------------------------ MODULE Retention ------------------------------
(***************************************************************************)
(* config/retention.ts: when the operational store forgets an event.        *)
(* Times are instants; the databases count whole seconds of Second instants *)
(* (milliseconds in the code).                                              *)
(***************************************************************************)
EXTENDS Integers

CONSTANTS
  Retention,   \* RETENTION_DAYS in instants
  Second

ASSUME RetentionAssumption == Retention \in Nat /\ Second \in Nat \ {0}

\* DynamoDB: the second at which the row expires.
calculateExpiresAt(occurredAt) == (occurredAt + Retention) \div Second

\* Mutant: the TTL is the retention period, counted from the write.
FixedTtl(occurredAt, now) == Retention \div Second

\* Mutant: milliseconds are turned into seconds twice.
DividesTwice(occurredAt, now) ==
  LET ttl == ((occurredAt + Retention - now) \div Second) \div Second
  IN  IF ttl > 0 THEN ttl ELSE 0

\* Cosmos DB: the seconds that the document lives from its write.
calculateCosmosDbTtl(occurredAt, now) ==
  LET ttl == (occurredAt + Retention - now) \div Second
  IN  IF ttl > 0 THEN ttl ELSE 0
=============================================================================
