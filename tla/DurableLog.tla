------------------------------ MODULE DurableLog ------------------------------
(***************************************************************************)
(* What the write path promises, without its queue, its invocations and its *)
(* failures: batches are recorded whole and once, a client is answered 202  *)
(* only for a recorded batch, and what readers can see are events of        *)
(* recorded batches, which they never stop seeing.  Pipeline implements it. *)
(***************************************************************************)
CONSTANTS Batch, Event

VARIABLES
  log,      \* the events recorded for each batch, {} if none
  acked,    \* the batches whose client was answered 202
  visible   \* the eventIds a reader can find

vars == <<log, acked, visible>>

Ids(E) == {e.eventId : e \in E}

Init == log = [b \in Batch |-> {}] /\ acked = {} /\ visible = {}

Record(b, E) ==
  /\ log[b] = {} /\ E # {}
  /\ log' = [log EXCEPT ![b] = E]
  /\ UNCHANGED <<acked, visible>>

Acknowledge(b) ==
  /\ log[b] # {}
  /\ acked' = acked \cup {b}
  /\ UNCHANGED <<log, visible>>

Publish(b, E) ==
  /\ E \subseteq log[b]
  /\ visible' = visible \cup Ids(E)
  /\ UNCHANGED <<log, acked>>

Next ==
  \E b \in Batch : \E E \in SUBSET Event :
    Record(b, E) \/ Acknowledge(b) \/ Publish(b, E)

Spec == Init /\ [][Next]_vars
=============================================================================
