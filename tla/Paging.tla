-------------------------------- MODULE Paging --------------------------------
(***************************************************************************)
(* What a client that follows cursors is promised: a walk through an        *)
(* ordered set that others change meanwhile.  A page is the stretch of what *)
(* is there, at the time it is read, behind the last one.  No repository,   *)
(* no cursor and no clock appear here.                                      *)
(***************************************************************************)
EXTENDS Naturals, FiniteSets

CONSTANTS Item, Limit, Nowhere

VARIABLES
  there,      \* the items of the walk that are there now
  before,     \* their order, a set of pairs
  position,   \* the last item of the last page, Nowhere before the first
  shown,      \* the items of all pages
  lasting,    \* the items that have been there since the first page
  state       \* "new", "walking", "arrived", or "stopped" by a refusal

vars == <<there, before, position, shown, lasting, state>>

Behind(e) == position = Nowhere \/ <<position, e>> \in before

Init ==
  /\ there = {} /\ before = {}
  /\ position = Nowhere /\ shown = {} /\ lasting = {}
  /\ state = "new"

\* Items come and go; what was behind the position and stays, stays behind it.
Change ==
  /\ state # "new"
  /\ there' \subseteq Item /\ before' \subseteq Item \X Item
  /\ \A e \in there \cap there' : Behind(e) => Behind(e)'
  /\ lasting' = lasting \cap there'
  /\ UNCHANGED <<position, shown, state>>

\* P is the first part of the rest, in the order of `before`, and at the end it
\* is all of it.
Page(P, rest) ==
  /\ P \subseteq rest \ shown /\ Cardinality(P) <= Limit
  /\ \A e \in P, f \in rest \ P : <<e, f>> \in before'
  /\ shown' = shown \cup P
  /\ \/ P = rest /\ state' = "arrived" /\ position' = Nowhere
     \/ /\ P # rest /\ state' = "walking" /\ position' \in P
        /\ \A e \in P \ {position'} : <<e, position'>> \in before'

\* With its first page a walk is given its set and its order.
Begin ==
  /\ state = "new"
  /\ there' \subseteq Item /\ before' \subseteq Item \X Item
  /\ lasting' = there'
  /\ \E P \in SUBSET Item : Page(P, there')

Continue ==
  /\ state = "walking"
  /\ UNCHANGED <<there, before, lasting>>
  /\ \E P \in SUBSET Item : Page(P, {e \in there : Behind(e)})

Refuse ==
  /\ state = "walking"
  /\ state' = "stopped" /\ position' = Nowhere
  /\ UNCHANGED <<there, before, shown, lasting>>

Next == Change \/ Begin \/ Continue \/ Refuse

Spec == Init /\ [][Next]_vars

\* A client that follows the cursors of queryEvents to the end has been shown
\* every item that was there all the time.
LastingShown == state = "arrived" => lasting \subseteq shown
=============================================================================
