---------------------------- MODULE ContentProofs ----------------------------
(***************************************************************************)
(* What is stored is within the limits.  The recursions of Validation and   *)
(* Level are each the choice of a function that satisfies an equation; the  *)
(* first lemmas exhibit a solution, so that the equations can be used.  The *)
(* two validations only say something of a value and its parts: that they   *)
(* say it of every level below is proved by induction on the level.         *)
(***************************************************************************)
EXTENDS LifecycleProofs, WellFoundedInduction

Depths == 0 .. maxPropertyDepth + 1

\* The parts of a value are values.
LEMMA PartsAreValues ==
  ASSUME NEW v \in Value
  PROVE  /\ \A i \in DOMAIN v.parts : v.parts[i] \in Value
         /\ Range(v.parts) = {v.parts[i] : i \in DOMAIN v.parts}
         /\ Range(v.parts) \subseteq Value
<1>1. v.parts \in Seq(Value)
  BY ValidationAssumption
<1> QED
  BY <1>1 DEF Range

LEMMA DepthBound == maxPropertyDepth \in Nat
  BY ValidationAssumption DEF Limits

-----------------------------------------------------------------------------
(* The recursion on the depth *)

Deep(f, v, depth) ==
  /\ depth <= maxPropertyDepth /\ FitsLevel(v)
  /\ \A i \in DOMAIN v.parts : f[<<v.parts[i], depth + 1>>]

DepthRule(f) == [at \in Value \X Depths |-> Deep(f, at[1], at[2])]

\* A set of values at depths with which it is closed under parts.
DeepClosed(S) ==
  \A at \in S : /\ at[2] <= maxPropertyDepth /\ FitsLevel(at[1])
                /\ \A i \in DOMAIN at[1].parts : <<at[1].parts[i], at[2] + 1>> \in S

DeepOnes == UNION {S \in SUBSET (Value \X Depths) : DeepClosed(S)}

\* The largest closed set solves the equation.
LEMMA DeepSolution ==
  LET f == [at \in Value \X Depths |-> at \in DeepOnes] IN f = DepthRule(f)
<1> DEFINE f == [at \in Value \X Depths |-> at \in DeepOnes]
<1>1. DeepClosed(DeepOnes) /\ DeepOnes \subseteq Value \X Depths
  BY DEF DeepOnes, DeepClosed
<1>2. ASSUME NEW at \in Value \X Depths
      PROVE  (at \in DeepOnes) = Deep(f, at[1], at[2])
  <2> DEFINE v == at[1]
             depth == at[2]
  <2>1. v \in Value /\ depth \in Depths /\ at = <<v, depth>>
    OBVIOUS
  <2>2. ASSUME at \in DeepOnes PROVE Deep(f, v, depth)
    <3>1. /\ depth <= maxPropertyDepth /\ FitsLevel(v)
          /\ \A i \in DOMAIN v.parts : <<v.parts[i], depth + 1>> \in DeepOnes
      BY <1>1, <2>2 DEF DeepClosed
    <3>2. \A i \in DOMAIN v.parts : f[<<v.parts[i], depth + 1>>]
      BY <1>1, <3>1
    <3> QED
      BY <3>1, <3>2 DEF Deep
  <2>3. ASSUME Deep(f, v, depth) PROVE at \in DeepOnes
    <3>1. depth + 1 \in Depths
      BY <2>1, <2>3, DepthBound DEF Deep, Depths
    <3>2. \A i \in DOMAIN v.parts : <<v.parts[i], depth + 1>> \in DeepOnes
      <4>1. SUFFICES ASSUME NEW i \in DOMAIN v.parts
                     PROVE  <<v.parts[i], depth + 1>> \in DeepOnes
        OBVIOUS
      <4>2. <<v.parts[i], depth + 1>> \in Value \X Depths
        BY <2>1, <3>1, PartsAreValues
      <4>3. f[<<v.parts[i], depth + 1>>]
        BY <2>3 DEF Deep
      <4> QED
        BY <4>2, <4>3
    <3>3. DeepClosed(DeepOnes \cup {at})
      <4> SUFFICES ASSUME NEW x \in DeepOnes \cup {at}
                   PROVE  /\ x[2] <= maxPropertyDepth /\ FitsLevel(x[1])
                          /\ \A i \in DOMAIN x[1].parts :
                               <<x[1].parts[i], x[2] + 1>> \in DeepOnes \cup {at}
        BY DEF DeepClosed
      <4>1. CASE x \in DeepOnes
        BY <1>1, <4>1 DEF DeepClosed
      <4>2. CASE x = at
        BY <2>3, <3>2, <4>2 DEF Deep
      <4> QED
        BY <4>1, <4>2
    <3> QED
      BY <1>1, <3>3 DEF DeepOnes
  <2>4. Deep(f, v, depth) \in BOOLEAN
    BY DEF Deep
  <2> HIDE DEF f
  <2> QED
    BY <2>2, <2>3, <2>4
<1> HIDE DEF f
<1>3. [at \in Value \X Depths |-> at \in DeepOnes] = DepthRule(f)
  BY <1>2 DEF DepthRule
<1> QED
  BY <1>3 DEF f

\* What validatePropertiesDepth returns for a value and for its parts.
LEMMA DepthEquation ==
  ASSUME NEW v \in Value, NEW depth \in Depths
  PROVE  validatePropertiesDepth[<<v, depth>>]
           <=> Deep(validatePropertiesDepth, v, depth)
<1>1. validatePropertiesDepth = CHOOSE f : f = DepthRule(f)
  BY DEF validatePropertiesDepth, DepthRule, Deep, Depths
<1>2. validatePropertiesDepth = DepthRule(validatePropertiesDepth)
  BY <1>1, DeepSolution
<1>3. <<v, depth>> \in Value \X Depths
  OBVIOUS
<1> QED
  BY <1>2, <1>3 DEF DepthRule

-----------------------------------------------------------------------------
(* The recursion on strings *)

Short(f, v) ==
  /\ v.kind = "string" => v.length <= maxStringLength
  /\ \A i \in DOMAIN v.parts : f[v.parts[i]]

ShortRule(f) == [v \in Value |-> Short(f, v)]

ShortClosed(S) ==
  \A v \in S : /\ v.kind = "string" => v.length <= maxStringLength
               /\ \A i \in DOMAIN v.parts : v.parts[i] \in S

ShortOnes == UNION {S \in SUBSET Value : ShortClosed(S)}

\* The largest closed set solves the equation.
LEMMA ShortSolution ==
  LET f == [v \in Value |-> v \in ShortOnes] IN f = ShortRule(f)
<1> DEFINE f == [v \in Value |-> v \in ShortOnes]
<1>1. ShortClosed(ShortOnes) /\ ShortOnes \subseteq Value
  BY DEF ShortOnes, ShortClosed
<1>2. ASSUME NEW v \in Value
      PROVE  (v \in ShortOnes) = Short(f, v)
  <2>2. ASSUME v \in ShortOnes PROVE Short(f, v)
    <3>1. /\ v.kind = "string" => v.length <= maxStringLength
          /\ \A i \in DOMAIN v.parts : v.parts[i] \in ShortOnes
      BY <1>1, <2>2 DEF ShortClosed
    <3>2. \A i \in DOMAIN v.parts : f[v.parts[i]]
      BY <1>1, <3>1
    <3> QED
      BY <3>1, <3>2 DEF Short
  <2>3. ASSUME Short(f, v) PROVE v \in ShortOnes
    <3>1. \A i \in DOMAIN v.parts : v.parts[i] \in ShortOnes
      BY <2>3, PartsAreValues DEF Short
    <3>2. ShortClosed(ShortOnes \cup {v})
      <4> SUFFICES ASSUME NEW x \in ShortOnes \cup {v}
                   PROVE  /\ x.kind = "string" => x.length <= maxStringLength
                          /\ \A i \in DOMAIN x.parts : x.parts[i] \in ShortOnes \cup {v}
        BY DEF ShortClosed
      <4>1. CASE x \in ShortOnes
        BY <1>1, <4>1 DEF ShortClosed
      <4>2. CASE x = v
        BY <2>3, <3>1, <4>2 DEF Short
      <4> QED
        BY <4>1, <4>2
    <3> QED
      BY <1>1, <3>2 DEF ShortOnes
  <2>4. Short(f, v) \in BOOLEAN
    BY DEF Short
  <2> HIDE DEF f
  <2> QED
    BY <2>2, <2>3, <2>4
<1> HIDE DEF f
<1>3. [v \in Value |-> v \in ShortOnes] = ShortRule(f)
  BY <1>2 DEF ShortRule
<1> QED
  BY <1>3 DEF f

\* What validateStringLength returns for a value and for its parts.
LEMMA ShortEquation ==
  ASSUME NEW v \in Value
  PROVE  validateStringLength[v] <=> Short(validateStringLength, v)
<1>1. validateStringLength = CHOOSE f : f = ShortRule(f)
  BY DEF validateStringLength, ShortRule, Short
<1>2. validateStringLength = ShortRule(validateStringLength)
  BY <1>1, ShortSolution
<1> QED
  BY <1>2 DEF ShortRule

-----------------------------------------------------------------------------
(* The levels below a value *)

LevelRule(f, v) ==
  [n \in 0 .. maxPropertyDepth + 1 |->
     IF n = 0 THEN {v} ELSE UNION {Range(u.parts) : u \in f[n - 1]}]

\* A way down from a value, one part at a time.
Descent(p, v, n) ==
  /\ p \in [0 .. n -> Value] /\ p[0] = v
  /\ \A i \in 0 .. n - 1 : p[i + 1] \in Range(p[i].parts)

Reached(v, n) == {w \in Value : \E p \in [0 .. n -> Value] : Descent(p, v, n) /\ p[n] = w}

\* What is one level further down.
LEMMA ReachedNext ==
  ASSUME NEW v \in Value, NEW n \in Nat \ {0}
  PROVE  Reached(v, n) = UNION {Range(u.parts) : u \in Reached(v, n - 1)}
<1>1. ASSUME NEW w \in Reached(v, n)
      PROVE  \E u \in Reached(v, n - 1) : w \in Range(u.parts)
  <2>1. PICK p \in [0 .. n -> Value] : Descent(p, v, n) /\ p[n] = w
    BY DEF Reached
  <2> DEFINE q == [i \in 0 .. n - 1 |-> p[i]]
  <2>2. q \in [0 .. n - 1 -> Value] /\ \A i \in 0 .. n - 1 : q[i] = p[i]
    OBVIOUS
  <2>3. n - 1 \in 0 .. n - 1 /\ n - 1 \in Nat
    OBVIOUS
  <2> HIDE DEF q
  <2>4. Descent(q, v, n - 1)
    BY <2>1, <2>2, <2>3 DEF Descent
  <2>5. q[n - 1] \in Reached(v, n - 1)
    BY <2>2, <2>3, <2>4 DEF Reached
  <2>6. w \in Range(p[n - 1].parts)
    BY <2>1, <2>3 DEF Descent
  <2> QED
    BY <2>2, <2>3, <2>5, <2>6
<1>2. ASSUME NEW u \in Reached(v, n - 1), NEW w \in Range(u.parts)
      PROVE  w \in Reached(v, n)
  <2>1. PICK p \in [0 .. n - 1 -> Value] : Descent(p, v, n - 1) /\ p[n - 1] = u
    BY DEF Reached
  <2>2. w \in Value
    BY PartsAreValues DEF Reached
  <2> DEFINE q == [i \in 0 .. n |-> IF i = n THEN w ELSE p[i]]
  <2>3. /\ q \in [0 .. n -> Value] /\ q[n] = w
        /\ \A i \in 0 .. n - 1 : q[i] = p[i]
    BY <2>2
  <2> HIDE DEF q
  <2>4. ASSUME NEW i \in 0 .. n - 1
        PROVE  q[i + 1] \in Range(q[i].parts)
    <3>1. CASE i = n - 1
      BY <2>1, <2>3, <3>1
    <3>2. CASE i # n - 1
      BY <2>1, <2>3, <3>2 DEF Descent
    <3> QED
      BY <3>1, <3>2
  <2>5. Descent(q, v, n)
    BY <2>1, <2>3, <2>4 DEF Descent
  <2> QED
    BY <2>2, <2>3, <2>5 DEF Reached
<1> QED
  BY <1>1, <1>2

\* At level 0 there is the value, and below a level the parts of what is there.
LEMMA LevelEquation ==
  ASSUME NEW v \in Value
  PROVE  /\ Level(v)[0] = {v}
         /\ \A n \in 0 .. maxPropertyDepth :
              Level(v)[n + 1] = UNION {Range(u.parts) : u \in Level(v)[n]}
<1> DEFINE f == [n \in 0 .. maxPropertyDepth + 1 |-> Reached(v, n)]
<1>1. Reached(v, 0) = {v}
  <2>1. [i \in 0 .. 0 |-> v] \in [0 .. 0 -> Value] /\ Descent([i \in 0 .. 0 |-> v], v, 0)
    BY DEF Descent
  <2> QED
    BY <2>1 DEF Reached, Descent
<1>2. ASSUME NEW n \in 0 .. maxPropertyDepth + 1
      PROVE  Reached(v, n) = IF n = 0 THEN {v}
                                      ELSE UNION {Range(u.parts) : u \in f[n - 1]}
  <2>1. CASE n = 0
    BY <1>1, <2>1
  <2>2. CASE n # 0
    <3>1. n \in Nat \ {0} /\ f[n - 1] = Reached(v, n - 1)
      BY <2>2, DepthBound
    <3> QED
      BY <2>2, <3>1, ReachedNext
  <2> QED
    BY <2>1, <2>2
<1>3. f = LevelRule(f, v)
  <2> HIDE DEF f
  <2>1. [n \in 0 .. maxPropertyDepth + 1 |-> Reached(v, n)] = LevelRule(f, v)
    BY <1>2 DEF LevelRule
  <2> QED
    BY <2>1 DEF f
<1>4. Level(v) = CHOOSE g : g = LevelRule(g, v)
  BY DEF Level, LevelRule
<1> HIDE DEF f
<1>5. Level(v) = LevelRule(Level(v), v)
  BY <1>3, <1>4
<1>6. Level(v)[0] = {v}
  BY <1>5, DepthBound DEF LevelRule
<1>7. ASSUME NEW n \in 0 .. maxPropertyDepth
      PROVE  Level(v)[n + 1] = UNION {Range(u.parts) : u \in Level(v)[n]}
  <2>1. n + 1 \in 0 .. maxPropertyDepth + 1 /\ n + 1 # 0 /\ (n + 1) - 1 = n
    BY DepthBound
  <2> QED
    BY <1>5, <2>1 DEF LevelRule
<1> QED
  BY <1>6, <1>7

\* Induction up to a bound, for a set of levels.
LEMMA UpTo ==
  ASSUME NEW max \in Nat, NEW T, 0 \in T, \A n \in 0 .. max : n \in T => n + 1 \in T
  PROVE  0 .. max + 1 \subseteq T
<1> DEFINE Missing == (0 .. max + 1) \ T
           Less == OpToRel(<, Nat)
<1>1. SUFFICES ASSUME Missing # {} PROVE FALSE
  OBVIOUS
<1>2. Missing \subseteq Nat
  OBVIOUS
<1>3. IsWellFoundedOn(Less, Nat)
  BY NatLessThanWellFounded
<1>4. \A m, n \in Nat : m < n => <<m, n>> \in Less
  BY Zenon DEF OpToRel
<1> HIDE DEF Missing, Less
<1>5. PICK n \in Missing : \A m \in Missing : <<m, n>> \notin Less
  BY <1>1, <1>2, <1>3, WFMin
<1>6. n \in 0 .. max + 1 /\ n \notin T /\ n # 0
  BY <1>5 DEF Missing
<1>7. n - 1 \in Missing
  BY <1>6 DEF Missing
<1>8. n - 1 < n
  BY <1>6
<1> QED
  BY <1>2, <1>4, <1>5, <1>7, <1>8

\* Each level holds values, deep and short ones if the value is both.
LEMMA LevelsAreGood ==
  ASSUME NEW v \in Value, validatePropertiesDepth[<<v, 0>>], validateStringLength[v]
  PROVE  \A n \in 0 .. maxPropertyDepth + 1 : \A u \in Level(v)[n] :
           u \in Value /\ validatePropertiesDepth[<<u, n>>] /\ validateStringLength[u]
<1> DEFINE Good(u, n) == /\ u \in Value
                         /\ validatePropertiesDepth[<<u, n>>] /\ validateStringLength[u]
           T == {n \in 0 .. maxPropertyDepth + 1 : \A u \in Level(v)[n] : Good(u, n)}
<1>1. 0 \in T
  BY LevelEquation, DepthBound
<1>2. ASSUME NEW n \in 0 .. maxPropertyDepth, n \in T
      PROVE  n + 1 \in T
  <2>1. n \in Depths /\ n + 1 \in 0 .. maxPropertyDepth + 1
    BY DepthBound DEF Depths
  <2>2. ASSUME NEW w \in Level(v)[n + 1] PROVE Good(w, n + 1)
    <3>1. PICK u \in Level(v)[n] : w \in Range(u.parts)
      BY <2>2, LevelEquation
    <3>2. Good(u, n)
      BY <1>2
    <3>3. PICK i \in DOMAIN u.parts : w = u.parts[i]
      BY <3>1, <3>2, PartsAreValues
    <3>4. w \in Value
      BY <3>2, <3>3, PartsAreValues
    <3>5. validatePropertiesDepth[<<w, n + 1>>]
      BY <2>1, <3>2, <3>3, DepthEquation DEF Deep
    <3>6. validateStringLength[w]
      BY <3>2, <3>3, ShortEquation DEF Short
    <3> QED
      BY <3>4, <3>5, <3>6
  <2> QED
    BY <2>1, <2>2
<1> HIDE DEF T
<1>3. 0 .. maxPropertyDepth + 1 \subseteq T
  BY <1>1, <1>2, UpTo, DepthBound
<1> QED
  BY <1>3 DEF T

\* Content that the schema accepts is within each limit at each level, and nothing is
\* deeper than it may be.
LEMMA ValidIsWithinLimits ==
  ASSUME NEW v \in Value, ValidContent(v)
  PROVE  WithinLimits(v)
<1>1. \A n \in 0 .. maxPropertyDepth + 1 : \A u \in Level(v)[n] :
        u \in Value /\ validatePropertiesDepth[<<u, n>>] /\ validateStringLength[u]
  BY LevelsAreGood DEF ValidContent
<1>2. Level(v)[maxPropertyDepth + 1] = {}
  <2>1. maxPropertyDepth + 1 \in Depths /\ ~(maxPropertyDepth + 1 <= maxPropertyDepth)
    BY DepthBound DEF Depths
  <2> QED
    BY <1>1, <2>1, DepthEquation DEF Deep, Depths
<1>3. ASSUME NEW n \in 0 .. maxPropertyDepth, NEW u \in Level(v)[n]
      PROVE  /\ u.kind = "string" => u.length <= maxStringLength
             /\ u.kind = "array"  => Len(u.parts) <= maxArrayLength
             /\ u.kind = "object" => Len(u.parts) <= maxKeysPerLevel /\ u.named
  <2>1. n \in Depths
    BY DepthBound DEF Depths
  <2>2. u \in Value /\ validatePropertiesDepth[<<u, n>>] /\ validateStringLength[u]
    BY <1>1, <2>1 DEF Depths
  <2>3. Deep(validatePropertiesDepth, u, n) /\ Short(validateStringLength, u)
    BY <2>1, <2>2, DepthEquation, ShortEquation
  <2> QED
    BY <2>3 DEF Deep, Short, FitsLevel
<1> QED
  BY <1>2, <1>3 DEF WithinLimits

-----------------------------------------------------------------------------
(* The rows *)

\* The content of the raw batch is what was posted, and within the limits.
LEMMA RawIsWithinLimits ==
  ASSUME IngestInvariant, raw # <<>>, NEW i \in DOMAIN raw,
         NEW field \in {"properties", "traits"}, field \in DOMAIN raw[i]
  PROVE  WithinLimits(raw[i][field])
<1> DEFINE e == post.events[i]
           n == NormaliseEvent(Parsed(e))
<1>1. raw[i] = n /\ ValidEvent(e) /\ post \in Post /\ i \in DOMAIN post.events
  BY RawIsNormal
<1>2. /\ DOMAIN Parsed(e) \subseteq DOMAIN e /\ "actor" \in DOMAIN Parsed(e)
      /\ \A x \in DOMAIN Parsed(e) : Parsed(e)[x] = e[x]
  BY <1>1, ParsedFields
<1>3. field \in DOMAIN Parsed(e) /\ n[field] = Parsed(e)[field]
  <2>1. field \in DOMAIN n /\ field # "actor" /\ field # "context"
    BY <1>1
  <2>2. CASE Moves(Parsed(e))
    BY <1>2, <2>1, <2>2, NormalisedFields
  <2>3. CASE ~Moves(Parsed(e))
    BY <2>1, <2>3, Unmoved
  <2> QED
    BY <2>2, <2>3
<1>4. field \in DOMAIN e /\ n[field] = e[field]
  BY <1>2, <1>3
<1>5. e[field] \in Value
  BY <1>4, PostedEvent
<1>6. ValidContent(e[field])
  BY <1>1, <1>3 DEF ValidEvent
<1> HIDE DEF n, e
<1> QED
  BY <1>1, <1>4, <1>5, <1>6, ValidIsWithinLimits

\* Only what came in with a good key and is within every limit at every level is
\* stored.
THEOREM StoredIsValid == Spec => []OnlyValidIsStored
<1>1. IngestInvariant /\ RowsInvariant => OnlyValidIsStored
  <2> SUFFICES ASSUME IngestInvariant, RowsInvariant, NEW r \in rows
               PROVE  /\ post.key = "good"
                      /\ \A field \in {"properties", "traits"} \cap DOMAIN r :
                           WithinLimits(r[field])
    BY DEF OnlyValidIsStored
  <2>1. raw # <<>>
    BY DEF RowsInvariant
  <2>2. post.key = "good"
    BY <2>1, RawIsNormal DEF Flawless
  <2>3. PICK i \in DOMAIN raw : MadeFrom(r, raw[i])
    BY DEF RowsInvariant, FromRaw
  <2>4. ASSUME NEW field \in {"properties", "traits"} \cap DOMAIN r
        PROVE  WithinLimits(r[field])
    <3>1. field \in DOMAIN raw[i]
      BY <2>3 DEF MadeFrom
    <3>2. field \in ApiFields(raw[i])
      <4>1. ValidEvent(raw[i]) /\ raw[i] = Parsed(raw[i])
        BY <2>1, RawIsNormal DEF ParsedEvents
      <4>2. field \in KnownFields(raw[i])
        BY <3>1, <4>1, ParsedFields
      <4> QED
        BY <4>2 DEF KnownFields, RequiredFields, ApiFields
    <3>3. r[field] = raw[i][field]
      BY <2>3, <3>1, <3>2 DEF MadeFrom, SameContent
    <3> QED
      BY <2>1, <3>1, <3>3, RawIsWithinLimits
  <2> QED
    BY <2>2, <2>4
<1> QED
  BY <1>1, IngestInit, IngestNext, RowsInit, RowsNext, PTL DEF Spec
=============================================================================
