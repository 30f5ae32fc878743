--------------------------- MODULE QueryOrderProofs ---------------------------
(***************************************************************************)
(* What Query's operators compute, for any events, queries and page limit:  *)
(* text orders times as the instants are, the rows of a query are totally   *)
(* ordered, First and Last are the beginning and the end of a set of rows,  *)
(* and queryEvents returns the first rows behind a cursor.                  *)
(***************************************************************************)
EXTENDS Query, FiniteSetTheorems, TLAPS

-----------------------------------------------------------------------------
(* Times and their text *)

LEMMA Division ==
  ASSUME NEW n \in Nat, NEW d \in Nat \ {0}
  PROVE  /\ n \div d \in Nat /\ n % d \in 0 .. d - 1
         /\ n = (n \div d) * d + (n % d)
<1>1. n \div d \in Nat
  OBVIOUS
<1>2. n % d \in 0 .. d - 1
  OBVIOUS
<1>3. n = d * (n \div d) + (n % d)
  OBVIOUS
<1>4. d * (n \div d) = (n \div d) * d
  BY <1>1
<1> QED
  BY <1>1, <1>2, <1>3, <1>4

\* One multiple below another is below it by one at least.
LEMMA NextMultiple ==
  ASSUME NEW a \in Nat, NEW b \in Nat, a < b, NEW width \in Nat
  PROVE  a * width + width <= b * width
<1>1. PICK d \in Nat : b = a + 1 + d
  <2>1. b - a - 1 \in Nat /\ b = a + 1 + (b - a - 1)
    OBVIOUS
  <2> QED
    BY <2>1
<1>2. b * width = a * width + width + d * width
  BY <1>1
<1>3. a * width \in Nat /\ d * width \in Nat
  OBVIOUS
<1> QED
  BY <1>2, <1>3

LEMMA UnitTyped == ASSUME NEW u \in Unit PROVE u \in Nat \ {0} /\ u <= Minute
  BY UnitAssumption, QueryAssumption

LEMMA TextTyped == ASSUME NEW t, IsTime(t) PROVE Text(t) \in Nat
<1>1. t.at \in Nat /\ t.unit \in Nat /\ Minute \in Nat
  BY UnitTyped, QueryAssumption DEF IsTime
<1>2. (t.at + t.unit) * (Minute + 1) \in Nat
  BY <1>1
<1> QED
  BY <1>1, <1>2 DEF Text

\* A time is a multiple of its unit.
LEMMA WholeUnits ==
  ASSUME NEW t, IsTime(t)
  PROVE  t.at = (t.at \div t.unit) * t.unit /\ t.at \div t.unit \in Nat
<1>1. t.at \in Nat /\ t.unit \in Nat \ {0} /\ t.at % t.unit = 0
  BY UnitTyped DEF IsTime
<1>2. /\ t.at \div t.unit \in Nat
      /\ t.at = (t.at \div t.unit) * t.unit + (t.at % t.unit)
  BY <1>1, Division
<1> HIDE DEF IsTime
<1> DEFINE a == t.at \div t.unit
<1>3. a * t.unit \in Nat
  BY <1>1, <1>2
<1> HIDE DEF a
<1>4. t.at = a * t.unit + 0
  BY <1>1, <1>2 DEF a
<1> QED
  BY <1>2, <1>3, <1>4 DEF a

\* The text is ordered by where the last digit's unit ends.
LEMMA EndsFirst ==
  ASSUME NEW t, NEW u, IsTime(t), IsTime(u), t.at + t.unit < u.at + u.unit
  PROVE  Text(t) < Text(u)
<1>1. /\ t.at \in Nat /\ t.unit \in Nat /\ t.unit <= Minute /\ Minute \in Nat
      /\ u.at \in Nat /\ u.unit \in Nat
  BY UnitTyped, QueryAssumption DEF IsTime
<1> DEFINE x == (t.at + t.unit) * (Minute + 1)
           y == (u.at + u.unit) * (Minute + 1)
<1>2. x + (Minute + 1) <= y
  BY <1>1, NextMultiple
<1>3. x \in Nat /\ y \in Nat
  BY <1>1
<1>4. Text(t) = x + t.unit /\ Text(u) = y + u.unit
  BY DEF Text
<1> QED
  BY <1>1, <1>2, <1>3, <1>4

\* A time and one with more digits that differ in the digits that both have.
LEMMA WiderOrder ==
  ASSUME NEW t, NEW u, IsTime(t), IsTime(u), u.unit < t.unit,
         t.at \div t.unit # u.at \div t.unit
  PROVE  \/ t.at < u.at /\ Text(t) < Text(u)
         \/ u.at < t.at /\ Text(u) < Text(t)
<1> DEFINE wide == t.unit
           fine == u.unit
           a == t.at \div wide
           b == u.at \div fine
           c == u.at \div wide
           s == u.at % wide
           m == wide \div fine
<1>1. /\ t.at \in Nat /\ u.at \in Nat /\ wide \in Nat \ {0} /\ fine \in Nat \ {0}
      /\ wide % fine = 0
  <2>1. t.at \in Nat /\ u.at \in Nat /\ wide \in Unit /\ fine \in Unit
    BY DEF IsTime
  <2>2. wide \in Nat \ {0} /\ fine \in Nat \ {0} /\ fine <= wide
    BY <2>1, UnitTyped
  <2> QED
    BY <2>1, <2>2, UnitAssumption
<1>2. /\ a \in Nat /\ t.at = a * wide
      /\ b \in Nat /\ u.at = b * fine
  BY WholeUnits
<1>3. c \in Nat /\ s \in 0 .. wide - 1 /\ u.at = c * wide + s
  BY <1>1, Division
<1>4. m \in Nat /\ wide = m * fine
  <2>1. m \in Nat /\ wide = m * fine + (wide % fine)
    BY <1>1, Division
  <2> HIDE DEF m
  <2>2. m * fine \in Nat
    BY <1>1, <2>1
  <2> QED
    BY <1>1, <2>1, <2>2
<1>5. a # c
  OBVIOUS
<1> HIDE DEF a, b, c, s, m
<1>6. a * wide \in Nat /\ c * wide \in Nat /\ a * m \in Nat
  BY <1>1, <1>2, <1>3, <1>4
<1>7. CASE c < a
  <2>1. c * wide + wide <= a * wide
    BY <1>1, <1>2, <1>3, <1>7, NextMultiple
  <2>2. u.at < t.at
    BY <1>1, <1>2, <1>3, <1>6, <2>1
  <2>3. t.at = (a * m) * fine
    BY <1>1, <1>2, <1>4
  <2>4. b < a * m
    <3> SUFFICES ASSUME a * m <= b PROVE FALSE
      BY <1>2, <1>6
    <3>1. (a * m) * fine <= b * fine
      <4>1. CASE a * m = b
        BY <4>1, <1>1, <1>2
      <4>2. CASE a * m < b
        <5>1. (a * m) * fine + fine <= b * fine
          BY <1>1, <1>2, <1>6, <4>2, NextMultiple
        <5> QED
          BY <1>1, <1>2, <2>3, <5>1
      <4> QED
        BY <1>2, <1>6, <4>1, <4>2
    <3> QED
      BY <1>1, <1>2, <2>2, <2>3, <3>1
  <2>5. b * fine + fine <= (a * m) * fine
    BY <1>1, <1>2, <1>6, <2>4, NextMultiple
  <2>6. u.at + u.unit < t.at + t.unit
    BY <1>1, <1>2, <2>3, <2>5
  <2> QED
    BY <2>2, <2>6, EndsFirst
<1>8. CASE a < c
  <2>1. a * wide + wide <= c * wide
    BY <1>1, <1>2, <1>3, <1>8, NextMultiple
  <2>2. t.at + t.unit <= u.at
    BY <1>1, <1>2, <1>3, <1>6, <2>1
  <2>3. t.at < u.at /\ t.at + t.unit < u.at + u.unit
    BY <1>1, <2>2
  <2> QED
    BY <2>3, EndsFirst
<1> QED
  BY <1>2, <1>3, <1>5, <1>7, <1>8

\* Times that are written alike are ordered by their text.
LEMMA TextOrder ==
  ASSUME NEW t, NEW u, IsTime(t), IsTime(u), Alike(t, u)
  PROVE  /\ Text(t) < Text(u) <=> t.at < u.at
         /\ Text(t) <= Text(u) <=> t.at <= u.at
<1>1. /\ t.at \in Nat /\ t.unit \in Nat /\ Text(t) \in Nat
      /\ u.at \in Nat /\ u.unit \in Nat /\ Text(u) \in Nat
  BY UnitTyped, TextTyped DEF IsTime
<1>2. CASE t.unit = u.unit
  <2>1. t.at < u.at => Text(t) < Text(u)
    BY <1>1, <1>2, EndsFirst
  <2>2. u.at < t.at => Text(u) < Text(t)
    BY <1>1, <1>2, EndsFirst
  <2>3. t.at = u.at => Text(t) = Text(u)
    BY <1>2 DEF Text
  <2> QED
    BY <1>1, <2>1, <2>2, <2>3
<1>3. CASE u.unit < t.unit
  <2>1. t.at \div t.unit # u.at \div t.unit
    BY <1>1, <1>3 DEF Alike
  <2> QED
    BY <1>1, <1>3, <2>1, WiderOrder
<1>4. CASE t.unit < u.unit
  <2>1. u.at \div u.unit # t.at \div u.unit
    BY <1>1, <1>4 DEF Alike
  <2> QED
    BY <1>1, <1>4, <2>1, WiderOrder
<1> QED
  BY <1>1, <1>2, <1>3, <1>4

LEMMA EventTyped ==
  ASSUME NEW e \in Event
  PROVE  IsTime(e.occurredAt) /\ Text(e.occurredAt) \in Nat /\ e.eventId \in Int
  BY TextAssumption, TextTyped

-----------------------------------------------------------------------------
(* The order of the rows of a query *)

Stored == {e \in Event : rank[e] # 0}

\* No two rows were stored at once.
Ranked ==
  /\ \A e \in Event : rank[e] <= Cardinality(Stored)
  /\ \A e, f \in Stored : rank[e] = rank[f] => e = f

LEMMA BeforeIrreflexive ==
  ASSUME TypeOK, NEW q, NEW e \in Event PROVE ~Before(q, e, e)
<1>1. rank[e] \in Int /\ e.eventId \in Int /\ Text(e.occurredAt) \in Int
  BY EventTyped DEF TypeOK
<1> QED
  BY <1>1 DEF Before, TieBefore

LEMMA BeforeTransitive ==
  ASSUME TypeOK, NEW q, NEW e \in Event, NEW f \in Event, NEW g \in Event,
         Before(q, e, f), Before(q, f, g)
  PROVE  Before(q, e, g)
<1>1. \A x \in {e, f, g} :
        rank[x] \in Int /\ x.eventId \in Int /\ Text(x.occurredAt) \in Int
  BY EventTyped DEF TypeOK
<1> QED
  BY <1>1 DEF Before, TieBefore

LEMMA BeforeTotal ==
  ASSUME TypeOK, Ranked, NEW q, NEW e \in Stored, NEW f \in Stored, e # f
  PROVE  Before(q, e, f) \/ Before(q, f, e)
<1>1. \A x \in {e, f} :
        rank[x] \in Int /\ x.eventId \in Int /\ Text(x.occurredAt) \in Int
  BY EventTyped DEF TypeOK, Stored
<1>2. rank[e] # rank[f] /\ e.eventId # f.eventId
  BY QueryAssumption DEF Ranked, Stored
<1> QED
  BY <1>1, <1>2 DEF Before, TieBefore

\* A row is never before one that is not behind it.
LEMMA BeforeAsymmetric ==
  ASSUME TypeOK, NEW q, NEW e \in Event, NEW f \in Event, Before(q, e, f)
  PROVE  ~Before(q, f, e)
  BY BeforeTransitive, BeforeIrreflexive

-----------------------------------------------------------------------------
(* The first and the last of a set of rows *)

LEMMA RowsFinite ==
  ASSUME NEW S \in SUBSET Event
  PROVE  IsFiniteSet(S) /\ Cardinality(S) \in Nat
<1>1. IsFiniteSet(S)
  BY QueryAssumption, FS_Subset
<1> QED
  BY <1>1, FS_CardinalityType

LEMMA SmallerSet ==
  ASSUME NEW S \in SUBSET Event, NEW T \in SUBSET S
  PROVE  Cardinality(T) <= Cardinality(S) /\ (T # S => Cardinality(T) < Cardinality(S))
<1>1. IsFiniteSet(S) /\ Cardinality(S) \in Nat /\ Cardinality(T) \in Nat
  BY RowsFinite
<1> QED
  BY <1>1, FS_Subset

\* A finite set has a minimal element in any strict order: one with the fewest
\* predecessors.
LEMMA MinimalElement ==
  ASSUME NEW S \in SUBSET Event, S # {}, NEW R,
         \A e \in S : <<e, e>> \notin R,
         \A e, f, g \in S : <<e, f>> \in R /\ <<f, g>> \in R => <<e, g>> \in R
  PROVE  \E m \in S : \A e \in S : <<e, m>> \notin R
<1> DEFINE Below(e) == {f \in S : <<f, e>> \in R}
           Belows == {Below(e) : e \in S}
<1>1. IsFiniteSet(S)
  BY RowsFinite
<1>2. IsWellFoundedOn(StrictSubsetOrdering(S), FiniteSubsetsOf(S))
  BY FS_StrictSubsetOrderingWellFounded
<1>3. FiniteSubsetsOf(S) = SUBSET S
  BY <1>1, FS_FiniteSubsetsOfFinite
<1>4. Belows \subseteq FiniteSubsetsOf(S) /\ Belows # {}
  <2>1. \A e \in S : Below(e) \in SUBSET S /\ Below(e) \in Belows
    OBVIOUS
  <2> HIDE DEF Below
  <2> QED
    BY <1>3, <2>1
<1> HIDE DEF Belows
<1>5. PICK B \in Belows : \A C \in Belows : <<C, B>> \notin StrictSubsetOrdering(S)
  BY <1>2, <1>4, WFMin
<1>6. PICK m \in S : B = Below(m)
  BY <1>5 DEF Belows
<1>7. ASSUME NEW e \in S, <<e, m>> \in R PROVE FALSE
  <2>1. Below(e) \subseteq Below(m) /\ e \in Below(m) /\ e \notin Below(e)
    BY <1>7
  <2>2. Below(e) \in SUBSET S /\ Below(m) \in SUBSET S /\ Below(e) # Below(m)
    BY <2>1
  <2>3. <<Below(e), Below(m)>> \in StrictSubsetOrdering(S)
    BY <2>1, <2>2 DEF StrictSubsetOrdering
  <2> QED
    BY <1>5, <1>6, <2>3 DEF Belows
<1> QED
  BY <1>7

LEMMA LeastRow ==
  ASSUME TypeOK, Ranked, NEW q, NEW S \in SUBSET Stored, S # {}
  PROVE  \E m \in S : \A e \in S \ {m} : Before(q, m, e)
<1> DEFINE R == {p \in Event \X Event : Before(q, p[1], p[2])}
<1>1. S \in SUBSET Event
  BY DEF Stored
<1>2. \A e, f \in S : <<e, f>> \in R <=> Before(q, e, f)
  BY <1>1
<1>3. \A e \in S : <<e, e>> \notin R
  BY <1>1, <1>2, BeforeIrreflexive
<1>4. \A e, f, g \in S : <<e, f>> \in R /\ <<f, g>> \in R => <<e, g>> \in R
  BY <1>1, <1>2, BeforeTransitive
<1> HIDE DEF R
<1>5. PICK m \in S : \A e \in S : <<e, m>> \notin R
  BY <1>1, <1>3, <1>4, MinimalElement
<1> QED
  BY <1>2, <1>5, BeforeTotal

LEMMA GreatestRow ==
  ASSUME TypeOK, Ranked, NEW q, NEW S \in SUBSET Stored, S # {}
  PROVE  \E m \in S : \A e \in S \ {m} : Before(q, e, m)
<1> DEFINE R == {p \in Event \X Event : Before(q, p[2], p[1])}
<1>1. S \in SUBSET Event
  BY DEF Stored
<1>2. \A e, f \in S : <<e, f>> \in R <=> Before(q, f, e)
  BY <1>1
<1>3. \A e \in S : <<e, e>> \notin R
  BY <1>1, <1>2, BeforeIrreflexive
<1>4. \A e, f, g \in S : <<e, f>> \in R /\ <<f, g>> \in R => <<e, g>> \in R
  BY <1>1, <1>2, BeforeTransitive
<1> HIDE DEF R
<1>5. PICK m \in S : \A e \in S : <<e, m>> \notin R
  BY <1>1, <1>3, <1>4, MinimalElement
<1> QED
  BY <1>2, <1>5, BeforeTotal

\* The row a cursor is made of.
LEMMA LastIsGreatest ==
  ASSUME TypeOK, Ranked, NEW q, NEW S \in SUBSET Stored, S # {}
  PROVE  /\ Last(q, S) \in S
         /\ \A e \in S \ {Last(q, S)} : Before(q, e, Last(q, S))
  BY GreatestRow DEF Last

\* The rows of a set before one of its rows.
Ahead(q, S, e) == {f \in S : Before(q, f, e)}

LEMMA FirstIsSubset == ASSUME NEW q, NEW n, NEW S PROVE First(q, n, S) \subseteq S
  BY DEF First

\* First(q, n, S) is the beginning of S.
LEMMA FirstIsBeginning ==
  ASSUME TypeOK, Ranked, NEW q, NEW n \in Nat, NEW S \in SUBSET Stored,
         NEW e \in First(q, n, S), NEW f \in S \ First(q, n, S)
  PROVE  Before(q, e, f)
<1>1. e \in S /\ S \subseteq Event
  BY DEF First, Stored
<1>2. ASSUME Before(q, f, e) PROVE FALSE
  <2>1. Ahead(q, S, f) \subseteq Ahead(q, S, e) /\ Ahead(q, S, e) \subseteq Event
    BY <1>1, <1>2, BeforeTransitive DEF Ahead
  <2>2. Cardinality(Ahead(q, S, f)) <= Cardinality(Ahead(q, S, e))
    BY <2>1, SmallerSet
  <2>3. Cardinality(Ahead(q, S, f)) \in Nat /\ Cardinality(Ahead(q, S, e)) \in Nat
    BY <2>1, RowsFinite
  <2> QED
    BY <2>2, <2>3 DEF First, Ahead
<1> QED
  BY <1>1, <1>2, BeforeTotal

\* It has n rows at the most,
LEMMA FirstIsShort ==
  ASSUME TypeOK, Ranked, NEW q, NEW n \in Nat, NEW S \in SUBSET Stored
  PROVE  Cardinality(First(q, n, S)) <= n
<1> DEFINE F == First(q, n, S)
<1>1. S \subseteq Event /\ F \subseteq S /\ F \in SUBSET Event
  BY FirstIsSubset DEF Stored
<1>2. CASE F = {}
  BY <1>2, FS_EmptySet
<1>3. CASE F # {}
  <2> HIDE DEF F
  <2>1. PICK m \in F : \A e \in F \ {m} : Before(q, e, m)
    BY <1>1, <1>3, GreatestRow
  <2>2. F \ {m} \subseteq Ahead(q, S, m) /\ Ahead(q, S, m) \in SUBSET Event
    BY <1>1, <2>1 DEF Ahead
  <2>3. Cardinality(Ahead(q, S, m)) < n
    BY <2>1 DEF F, First, Ahead
  <2>4. Cardinality(F \ {m}) = Cardinality(F) - 1
    BY <1>1, <2>1, RowsFinite, FS_RemoveElement
  <2>5. Cardinality(F \ {m}) <= Cardinality(Ahead(q, S, m))
    BY <2>2, SmallerSet
  <2>6. /\ Cardinality(F) \in Nat /\ Cardinality(Ahead(q, S, m)) \in Nat
    BY <1>1, <2>2, RowsFinite
  <2> QED
    BY <2>3, <2>4, <2>5, <2>6 DEF F
<1> QED
  BY <1>2, <1>3

\* and n of them unless it is all of S.
LEMMA FirstIsFull ==
  ASSUME TypeOK, Ranked, NEW q, NEW n \in Nat, NEW S \in SUBSET Stored,
         First(q, n, S) # S
  PROVE  Cardinality(First(q, n, S)) = n
<1> DEFINE F == First(q, n, S)
<1>1. S \subseteq Event /\ F \subseteq S /\ F \in SUBSET Event /\ S \ F # {}
  BY FirstIsSubset DEF Stored
<1> HIDE DEF F
<1>2. PICK m \in S \ F : \A e \in (S \ F) \ {m} : Before(q, m, e)
  BY <1>1, LeastRow
<1>3. Ahead(q, S, m) \subseteq F
  BY <1>1, <1>2, BeforeAsymmetric, BeforeIrreflexive DEF Ahead
<1>4. Cardinality(Ahead(q, S, m)) \in Nat /\ Cardinality(F) \in Nat
  BY <1>1, <1>3, RowsFinite
<1>5. Cardinality(Ahead(q, S, m)) >= n
  BY <1>2, <1>4 DEF F, First, Ahead
<1>6. Cardinality(Ahead(q, S, m)) <= Cardinality(F)
  BY <1>1, <1>3, SmallerSet
<1>7. Cardinality(F) <= n
  BY FirstIsShort DEF F
<1> QED
  BY <1>4, <1>5, <1>6, <1>7 DEF F

LEMMA FirstIsAll ==
  ASSUME TypeOK, Ranked, NEW q, NEW n \in Nat, NEW S \in SUBSET Stored
  PROVE  First(q, n, S) = S <=> Cardinality(S) <= n
<1>1. S \in SUBSET Event /\ First(q, n, S) \in SUBSET S
  BY FirstIsSubset DEF Stored
<1>2. Cardinality(S) \in Nat /\ Cardinality(First(q, n, S)) \in Nat
  BY <1>1, RowsFinite
<1>3. CASE First(q, n, S) = S
  BY <1>3, FirstIsShort
<1>4. CASE First(q, n, S) # S
  BY <1>1, <1>2, <1>4, FirstIsFull, SmallerSet
<1> QED
  BY <1>3, <1>4

\* The first rows of the first rows: what a page is when one more was read.
LEMMA FirstOfMore ==
  ASSUME TypeOK, Ranked, NEW q, NEW n \in Nat, NEW S \in SUBSET Stored
  PROVE  First(q, n, First(q, n + 1, S)) = First(q, n, S)
<1> DEFINE T == First(q, n + 1, S)
<1>1. T \subseteq S /\ S \subseteq Event /\ n + 1 \in Nat
  BY FirstIsSubset DEF Stored
<1>2. ASSUME NEW e \in T PROVE Ahead(q, T, e) = Ahead(q, S, e)
  <2>1. ASSUME NEW f \in S, Before(q, f, e), f \notin T PROVE FALSE
    <3>1. Before(q, e, f)
      BY <1>1, <2>1, FirstIsBeginning
    <3> QED
      BY <1>1, <2>1, <3>1, BeforeAsymmetric
  <2> QED
    BY <1>1, <2>1 DEF Ahead
<1>3. ASSUME NEW e \in S, Cardinality(Ahead(q, S, e)) < n PROVE e \in T
  <2>1. Ahead(q, S, e) \in SUBSET Event
    BY <1>1 DEF Ahead
  <2>2. Cardinality(Ahead(q, S, e)) < n + 1
    BY <1>3, <2>1, RowsFinite
  <2> QED
    BY <2>2 DEF First, Ahead
<1> HIDE DEF T
<1>4. First(q, n, T) = {e \in T : Cardinality(Ahead(q, T, e)) < n}
  BY DEF First, Ahead
<1>5. First(q, n, S) = {e \in S : Cardinality(Ahead(q, S, e)) < n}
  BY DEF First, Ahead
<1>6. First(q, n, T) = First(q, n, S)
  BY <1>1, <1>2, <1>3, <1>4, <1>5
<1> QED
  BY <1>6 DEF T

-----------------------------------------------------------------------------
(* queryEvents *)

Selected(q) == {e \in Rows : KeyCondition(q, e) /\ FilterExpression(q, e)}

\* What a page with a cursor is taken from.
Rest(q, c) == After(q, c, Selected(q))

LEMMA SelectedStored ==
  ASSUME NEW q, NEW c PROVE Rest(q, c) \in SUBSET Stored /\ Selected(q) \in SUBSET Stored
  BY DEF Rest, After, Selected, Rows, Stored

\* One row more than the limit fills the page, and the page has a last row.
LEMMA FullPage ==
  ASSUME TypeOK, Ranked, NEW q, NEW T \in SUBSET Stored, Cardinality(T) > Limit
  PROVE  /\ First(q, Limit, T) # T
         /\ Cardinality(First(q, Limit, T)) = Limit
         /\ Last(q, First(q, Limit, T)) \in First(q, Limit, T)
         /\ \A e \in First(q, Limit, T) :
              e = Last(q, First(q, Limit, T)) \/ Before(q, e, Last(q, First(q, Limit, T)))
<1> DEFINE F == First(q, Limit, T)
<1>1. Limit \in Nat \ {0}
  BY QueryAssumption
<1>2. T \in SUBSET Event /\ F \in SUBSET Stored /\ Cardinality(T) \in Nat
  BY FirstIsSubset, RowsFinite DEF Stored
<1>3. F # T
  BY <1>1, <1>2, FirstIsAll
<1>4. Cardinality(F) = Limit
  BY <1>1, <1>3, FirstIsFull
<1>5. F # {}
  BY <1>1, <1>4, FS_EmptySet
<1> HIDE DEF F
<1>6. /\ Last(q, F) \in F
      /\ \A e \in F \ {Last(q, F)} : Before(q, e, Last(q, F))
  BY <1>2, <1>5, LastIsGreatest
<1> QED
  BY <1>3, <1>4, <1>6 DEF F

\* A page lies behind its cursor, within the limit; and if a next cursor comes
\* with it, it is full and ends at that cursor or before it.
PageFits(q, c, r) ==
  /\ r.items \subseteq Rest(q, c)
  /\ Cardinality(r.items) <= Limit
  /\ r.next # None =>
       /\ r.next \in Rest(q, c)
       /\ Cardinality(r.items) = Limit
       /\ \A e \in r.items : e = r.next \/ Before(q, e, r.next)
       /\ adapter # "cosmos" => r.next \in r.items

LEMMA DynamoPageFits ==
  ASSUME TypeOK, Ranked, NEW q, NEW c, adapter = "dynamo"
  PROVE  PageFits(q, c, DynamoPage(q, c))
<1> DEFINE found == After(q, c, {e \in Rows : KeyCondition(q, e)})
           read  == First(q, IF Limit + 1 < ReadCap THEN Limit + 1 ELSE ReadCap, found)
           items == {e \in read : FilterExpression(q, e)}
           page  == First(q, Limit, items)
<1>1. /\ DynamoPage(q, c).items = page
      /\ DynamoPage(q, c).next = IF Cardinality(items) > Limit THEN Last(q, page) ELSE None
  BY DEF DynamoPage
<1>2. read \subseteq found /\ page \subseteq items
  BY FirstIsSubset
<1>3. items \subseteq Rest(q, c)
  <2> HIDE DEF read
  <2> QED
    BY <1>2 DEF Rest, After, Selected
<1> HIDE DEF items
<1>4. items \in SUBSET Stored /\ Limit \in Nat
  BY <1>3, SelectedStored, QueryAssumption
<1>5. Cardinality(page) <= Limit
  BY <1>4, FirstIsShort
<1>6. CASE Cardinality(items) > Limit
  <2> HIDE DEF page
  <2>1. DynamoPage(q, c).next = Last(q, page)
    BY <1>1, <1>6
  <2>2. /\ Cardinality(page) = Limit /\ Last(q, page) \in page
        /\ \A e \in page : e = Last(q, page) \/ Before(q, e, Last(q, page))
    BY <1>4, <1>6, FullPage DEF page
  <2> QED
    BY <1>1, <1>2, <1>3, <1>5, <2>1, <2>2 DEF PageFits
<1>7. CASE ~(Cardinality(items) > Limit)
  <2> HIDE DEF page
  <2> QED
    BY <1>1, <1>2, <1>3, <1>5, <1>7 DEF PageFits
<1> QED
  BY <1>6, <1>7

LEMMA CosmosPageFits ==
  ASSUME TypeOK, Ranked, NEW q, NEW c, adapter = "cosmos"
  PROVE  PageFits(q, c, CosmosPage(q, c))
<1> DEFINE found == Rest(q, c)
           items == First(q, Limit + 1, found)
           page  == First(q, Limit, items)
<1>1. /\ CosmosPage(q, c).items = page
      /\ CosmosPage(q, c).next =
           IF Cardinality(items) > Limit /\ items # found THEN Last(q, items) ELSE None
  BY DEF CosmosPage, Rest, Selected
<1>2. items \subseteq found /\ page \subseteq items
  BY FirstIsSubset
<1>3. found \in SUBSET Stored /\ Limit \in Nat /\ Limit + 1 \in Nat
  BY SelectedStored, QueryAssumption
<1>4. Cardinality(page) <= Limit
  BY <1>2, <1>3, FirstIsShort
<1>5. CASE Cardinality(items) > Limit /\ items # found
  <2>0. items \in SUBSET Stored
    BY <1>2, <1>3
  <2> HIDE DEF items
  <2>1. items # {}
    BY <1>3, <1>5, FS_EmptySet
  <2>2. /\ Last(q, items) \in items
        /\ \A e \in items \ {Last(q, items)} : Before(q, e, Last(q, items))
    BY <2>0, <2>1, LastIsGreatest
  <2>3. Cardinality(page) = Limit
    BY <1>3, <1>5, <2>0, FullPage
  <2>4. CosmosPage(q, c).next = Last(q, items)
    BY <1>1, <1>5
  <2> HIDE DEF page, found
  <2>5. Last(q, items) \in Rest(q, c) /\ page \subseteq Rest(q, c)
    BY <1>2, <2>2 DEF found
  <2>6. \A e \in page : e = Last(q, items) \/ Before(q, e, Last(q, items))
    BY <1>2, <2>2
  <2> QED
    BY <1>1, <1>4, <2>3, <2>4, <2>5, <2>6 DEF PageFits
<1>6. CASE ~(Cardinality(items) > Limit /\ items # found)
  <2>1. CosmosPage(q, c).next = None
    BY <1>1, <1>6
  <2> HIDE DEF page, items
  <2> QED
    BY <1>1, <1>2, <1>4, <2>1 DEF PageFits
<1> QED
  BY <1>5, <1>6

\* In memory the cursor is an event of the results.
LEMMA MemoryRest ==
  ASSUME NEW q, NEW c \in Selected(q) \cup {None}
  PROVE  LET rest == Rest(q, c)
             page == First(q, Limit, rest)
         IN  /\ MemoryPage(q, c).items = page
             /\ MemoryPage(q, c).next =
                  IF Cardinality(rest) > Limit THEN Last(q, page) ELSE None
<1>1. None \notin Selected(q)
  BY QueryAssumption DEF Selected, Rows
<1>2. (IF c \in Selected(q) THEN After(q, c, Selected(q)) ELSE Selected(q)) = Rest(q, c)
  BY <1>1 DEF Rest, After
<1> QED
  BY <1>2 DEF MemoryPage, Selected

LEMMA MemoryPageFits ==
  ASSUME TypeOK, Ranked, NEW q, NEW c \in Selected(q) \cup {None}
  PROVE  PageFits(q, c, MemoryPage(q, c))
<1> DEFINE rest == Rest(q, c)
           page == First(q, Limit, rest)
<1>1. /\ MemoryPage(q, c).items = page
      /\ MemoryPage(q, c).next = IF Cardinality(rest) > Limit THEN Last(q, page) ELSE None
  BY MemoryRest
<1>2. page \subseteq rest /\ rest \in SUBSET Stored /\ Limit \in Nat
  BY FirstIsSubset, SelectedStored, QueryAssumption
<1>3. Cardinality(page) <= Limit
  BY <1>2, FirstIsShort
<1>4. CASE Cardinality(rest) > Limit
  <2>1. /\ Cardinality(page) = Limit /\ Last(q, page) \in page
        /\ \A e \in page : e = Last(q, page) \/ Before(q, e, Last(q, page))
    BY <1>2, <1>4, FullPage
  <2> HIDE DEF page
  <2> QED
    BY <1>1, <1>2, <1>3, <1>4, <2>1 DEF PageFits
<1>5. CASE ~(Cardinality(rest) > Limit)
  <2> HIDE DEF page
  <2> QED
    BY <1>1, <1>2, <1>3, <1>5 DEF PageFits
<1> QED
  BY <1>4, <1>5

LEMMA PagesFit ==
  ASSUME TypeOK, Ranked, NEW q, NEW c,
         adapter = "memory" => c \in Selected(q) \cup {None}
  PROVE  PageFits(q, c, queryEvents(q, c))
<1>1. adapter \in {"memory", "cosmos", "dynamo"}
  BY QueryAssumption DEF TypeOK
<1>2. /\ adapter = "dynamo" => queryEvents(q, c) = DynamoPage(q, c)
      /\ adapter = "cosmos" => queryEvents(q, c) = CosmosPage(q, c)
      /\ adapter = "memory" => queryEvents(q, c) = MemoryPage(q, c)
  BY DEF queryEvents
<1> QED
  BY <1>1, <1>2, DynamoPageFits, CosmosPageFits, MemoryPageFits

\* Where the cursor is exact, the page is the beginning of what is behind the old
\* one: all of it, or up to the new one.
PageCuts(q, rest, r) ==
  /\ r.items \subseteq rest
  /\ \A e \in r.items, f \in rest \ r.items : Before(q, e, f)
  /\ \/ r.items = rest /\ r.next = None
     \/ /\ r.items # rest /\ r.next \in r.items
        /\ \A e \in r.items \ {r.next} : Before(q, e, r.next)

ExactRead(q) ==
  adapter = "memory" \/ (adapter = "dynamo" /\ q.name = None /\ Limit < ReadCap)

LEMMA ExactItems ==
  ASSUME TypeOK, Ranked, NEW q, NEW c, ExactRead(q),
         adapter = "memory" => c \in Selected(q) \cup {None}
  PROVE  LET r == queryEvents(q, c) IN
         /\ r.items = First(q, Limit, Rest(q, c))
         /\ r.next = IF r.items = Rest(q, c) THEN None ELSE Last(q, r.items)
<1> DEFINE rest == Rest(q, c)
           page == First(q, Limit, rest)
<1>1. rest \in SUBSET Stored /\ Limit \in Nat \ {0} /\ Cardinality(rest) \in Nat
  BY SelectedStored, RowsFinite, QueryAssumption DEF Stored
<1>2. page = rest <=> ~(Cardinality(rest) > Limit)
  BY <1>1, FirstIsAll
<1>3. CASE adapter = "memory"
  <2>1. queryEvents(q, c) = MemoryPage(q, c)
    BY <1>3 DEF queryEvents
  <2> QED
    BY <1>2, <1>3, <2>1, MemoryRest
<1>4. CASE adapter = "dynamo" /\ q.name = None /\ Limit < ReadCap
  <2> DEFINE read == First(q, Limit + 1, rest)
  <2>1. queryEvents(q, c) = DynamoPage(q, c)
    BY <1>4 DEF queryEvents
  <2>2. (IF Limit + 1 < ReadCap THEN Limit + 1 ELSE ReadCap) = Limit + 1
    BY <1>4, QueryAssumption
  <2>3. \A e : FilterExpression(q, e)
    BY <1>4 DEF FilterExpression, Asked
  <2>4. After(q, c, {e \in Rows : KeyCondition(q, e)}) = rest
    BY <2>3 DEF Rest, Selected
  <2>5. {e \in read : FilterExpression(q, e)} = read
    BY <2>3
  <2>6. /\ DynamoPage(q, c).items = First(q, Limit, read)
        /\ DynamoPage(q, c).next =
             IF Cardinality(read) > Limit THEN Last(q, First(q, Limit, read)) ELSE None
    <3> HIDE DEF rest
    <3> QED
      BY <2>2, <2>4, <2>5 DEF DynamoPage
  <2>7. First(q, Limit, read) = page
    BY <1>1, FirstOfMore
  <2>8. Cardinality(read) > Limit <=> Cardinality(rest) > Limit
    <3>1. read \subseteq rest /\ read \in SUBSET Event /\ rest \in SUBSET Event
      BY <1>1, FirstIsSubset DEF Stored
    <3>2. Cardinality(read) \in Nat /\ Cardinality(read) <= Cardinality(rest)
      BY <3>1, RowsFinite, SmallerSet
    <3>3. read # rest => Cardinality(read) = Limit + 1
      BY <1>1, FirstIsFull
    <3> QED
      BY <1>1, <3>2, <3>3
  <2> HIDE DEF read, page, rest
  <2> QED
    BY <1>2, <2>1, <2>6, <2>7, <2>8 DEF page, rest
<1> QED
  BY <1>3, <1>4 DEF ExactRead

LEMMA ExactPage ==
  ASSUME TypeOK, Ranked, NEW q, NEW c, ExactRead(q),
         adapter = "memory" => c \in Selected(q) \cup {None}
  PROVE  PageCuts(q, Rest(q, c), queryEvents(q, c))
<1> DEFINE rest == Rest(q, c)
           r    == queryEvents(q, c)
<1>1. rest \in SUBSET Stored /\ Limit \in Nat \ {0}
  BY SelectedStored, QueryAssumption
<1>2. /\ r.items = First(q, Limit, rest)
      /\ r.next = IF r.items = rest THEN None ELSE Last(q, r.items)
  BY ExactItems
<1> HIDE DEF r, rest
<1>3. r.items \subseteq rest
  BY <1>2, FirstIsSubset
<1>4. \A e \in r.items, f \in rest \ r.items : Before(q, e, f)
  BY <1>1, <1>2, FirstIsBeginning
<1>5. ASSUME r.items # rest
      PROVE  r.next \in r.items /\ \A e \in r.items \ {r.next} : Before(q, e, r.next)
  <2>1. Cardinality(r.items) = Limit
    BY <1>1, <1>2, <1>5, FirstIsFull
  <2>2. r.items # {}
    BY <1>1, <2>1, FS_EmptySet
  <2> QED
    BY <1>1, <1>2, <1>3, <1>5, <2>2, LastIsGreatest
<1> QED
  BY <1>2, <1>3, <1>4, <1>5 DEF PageCuts, r, rest
=============================================================================
