------------------------------ MODULE EventStore ------------------------------
(***************************************************************************)
(* The operational store behind the EventRepository interface              *)
(* (src/infra/interfaces.ts), as the processor uses it.  Three backends    *)
(* implement the interface and differ in what identifies a row:            *)
(*                                                                         *)
(*   memory   a Map keyed by eventId; the first write wins                 *)
(*   cosmos   id = eventId inside partition pk = appId; a write replaces   *)
(*   dynamo   PK = appId, SK = occurredAt#eventId; a write replaces        *)
(*                                                                         *)
(* and in what checkEventExists looks at.  An event is a record with the   *)
(* fields eventId, appId and occurredAt (the rest of its content never     *)
(* decides anything here); a row pairs it with the batch whose receivedAt  *)
(* it carries.                                                             *)
(***************************************************************************)
EXTENDS Naturals, FiniteSets

CONSTANTS Backend, Event, Batch

ASSUME BackendAssumption == Backend \in {"memory", "cosmos", "dynamo"}
ASSUME EventAssumption ==
  \A e \in Event : {"eventId", "appId", "occurredAt"} \subseteq DOMAIN e

Row == [event : Event, receivedAt : Batch]

-----------------------------------------------------------------------------
(* Row identity, existence check and writes *)

\* Mutant: the time of the event belongs to the id of its document.
KeyHasTime(e, f) ==
  e.eventId = f.eventId /\ e.appId = f.appId /\ e.occurredAt = f.occurredAt

SameRow(e, f) ==
  /\ e.eventId = f.eventId
  /\ Backend \in {"cosmos", "dynamo"} => e.appId = f.appId
  /\ Backend = "dynamo" => e.occurredAt = f.occurredAt

\* Some row carries the event's id, of whatever application.
HasId(rs, e) == \E r \in rs : r.event.eventId = e.eventId

\* The event has a row: one of its own application with its id.
HasRow(rs, e) ==
  \E r \in rs : r.event.eventId = e.eventId /\ r.event.appId = e.appId

\* cosmos counts documents with the id across partitions, dynamo answers
\* "no" without looking.
checkEventExists(rs, e) == Backend # "dynamo" /\ HasId(rs, e)

\* Mutant: the key is built with receivedAt, as each delivery has its own.
KeyHasReceivedAt(rs, r) ==
  {x \in rs : ~(SameRow(x.event, r.event) /\ x.receivedAt = r.receivedAt)} \cup {r}

\* PutItem and Upsert: the row with the same key is replaced.
putEvent(rs, r) == {x \in rs : ~SameRow(x.event, r.event)} \cup {r}

\* Mutant: storeEvents returns at the first duplicate instead of going on.
StopAtDuplicate(rs, new) ==
  {S \in SUBSET new : S = new \/ \E n \in new \ S : HasId(rs \cup S, n.event)}

\* What the loop of the in-memory storeEvents may add, in whatever order the
\* events come: one event for each key that has no row yet, none for the others.
FirstWrites(rs, new) ==
  {S \in SUBSET new :
     /\ \A r \in S : \A x \in rs : ~SameRow(x.event, r.event)
     /\ \A r, s \in S : SameRow(r.event, s.event) => r = s
     /\ \A n \in new : \E x \in rs \cup S : SameRow(x.event, n.event)}
=============================================================================
