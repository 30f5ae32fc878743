------------------------------ MODULE MCPipeline ------------------------------
(***************************************************************************)
(* Instances of Pipeline for TLC.                                           *)
(***************************************************************************)
EXTENDS Pipeline, TLC

CONSTANTS b1, b2, w1, w2, t1, t2

Ev(id, app, at) == [eventId |-> id, appId |-> app, occurredAt |-> at]

OneEvent == {Ev("i1", "a", 1)}

\* Two events of one application.
TwoEvents == {Ev("i1", "a", 1), Ev("i2", "a", 2)}

\* An eventId at two times, and another.
TwoTimes == {Ev("i1", "a", t1), Ev("i1", "a", t2), Ev("i2", "a", 2)}

SecondEvent == {Ev("i2", "a", 2)}

\* An eventId in two applications.
Namesakes == {Ev("i1", "a", 1), Ev("i1", "b", 1)}

\* With two events, and one whose batch is too large for the processor.
FourEvents == TwoEvents \cup Namesakes \cup {Ev("i3", "a", 3)}

ThirdEvent == {Ev("i3", "a", 3)}

Symmetry == Permutations({b1, b2}) \cup Permutations({w1, w2})
              \cup Permutations({t1, t2})
=============================================================================
