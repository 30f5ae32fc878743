----------------------------- MODULE PagingProofs -----------------------------
(***************************************************************************)
(* What following the pages of Paging to the end gives, for any set of      *)
(* items, any page limit, and any changes between two pages.                *)
(***************************************************************************)
EXTENDS Paging, TLAPS

\* While the walk goes on, what lasts is on a page or behind the position.
WalkInvariant ==
  /\ lasting \subseteq there
  /\ state = "walking" => \A e \in lasting : e \in shown \/ Behind(e)
  /\ LastingShown

LEMMA WalkBegins == Init => WalkInvariant
  BY DEF Init, WalkInvariant, LastingShown

LEMMA ChangeKeeps == ASSUME WalkInvariant, Change PROVE WalkInvariant'
<1>1. (lasting \subseteq there)'
  BY DEF WalkInvariant, Change
<1>2. ASSUME state' = "walking", NEW e \in lasting'
      PROVE  e \in shown' \/ Behind(e)'
  BY <1>2 DEF WalkInvariant, Change
<1>3. LastingShown'
  BY DEF WalkInvariant, Change, LastingShown
<1> QED
  BY <1>1, <1>2, <1>3 DEF WalkInvariant

\* What lasts and was shown, or is in the rest, is shown or behind afterwards.
LEMMA PageKeeps ==
  ASSUME NEW P, NEW rest, Page(P, rest),
         \A e \in lasting' : e \in shown \/ e \in rest
  PROVE  /\ state' = "walking" => \A e \in lasting' : e \in shown' \/ Behind(e)'
         /\ LastingShown'
<1>1. CASE P = rest /\ state' = "arrived" /\ position' = Nowhere
  BY <1>1 DEF Page, LastingShown
<1>2. CASE P # rest /\ state' = "walking" /\ position' \in P
  <2>1. ASSUME NEW e \in lasting' PROVE e \in shown' \/ Behind(e)'
    <3>1. CASE e \in shown \/ e \in P
      BY <3>1 DEF Page
    <3>2. CASE e \in rest \ P
      BY <1>2, <3>2 DEF Page, Behind
    <3> QED
      BY <3>1, <3>2
  <2> QED
    BY <1>2, <2>1 DEF LastingShown
<1> QED
  BY <1>1, <1>2 DEF Page

\* A client that follows the cursors of queryEvents to the end has been shown
\* every item that was there all the time, whatever came and went meanwhile.
THEOREM WalkShowsWhatLasts == Spec => []LastingShown
<1>1. ASSUME WalkInvariant, [Next]_vars PROVE WalkInvariant'
  <2>1. CASE Change
    BY <1>1, <2>1, ChangeKeeps
  <2>2. CASE Begin
    <3>1. PICK P \in SUBSET Item : Page(P, there')
      BY <2>2 DEF Begin
    <3>2. lasting' = there'
      BY <2>2 DEF Begin
    <3> QED
      BY <3>1, <3>2, PageKeeps DEF WalkInvariant
  <2>3. CASE Continue
    <3>1. PICK P \in SUBSET Item : Page(P, {e \in there : Behind(e)})
      BY <2>3 DEF Continue
    <3>2. lasting' = lasting /\ there' = there /\ state = "walking"
      BY <2>3 DEF Continue
    <3>3. \A e \in lasting' : e \in shown \/ e \in {f \in there : Behind(f)}
      BY <1>1, <3>2 DEF WalkInvariant
    <3> QED
      BY <1>1, <3>1, <3>2, <3>3, PageKeeps DEF WalkInvariant
  <2>4. CASE Refuse
    BY <1>1, <2>4 DEF Refuse, WalkInvariant, LastingShown
  <2>5. CASE UNCHANGED vars
    BY <1>1, <2>5 DEF vars, WalkInvariant, LastingShown, Behind
  <2> QED
    BY <1>1, <2>1, <2>2, <2>3, <2>4, <2>5 DEF Next
<1>2. WalkInvariant => LastingShown
  BY DEF WalkInvariant
<1> QED
  BY <1>1, <1>2, WalkBegins, PTL DEF Spec
=============================================================================
