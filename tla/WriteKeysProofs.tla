---------------------------- MODULE WriteKeysProofs ----------------------------
(***************************************************************************)
(* Proofs about WriteKeys, for any number of instances, clients and keys,   *)
(* any sequence of values of the secret, and with or without failures of    *)
(* its reads: type correctness, what an answer says about the key, and the  *)
(* rotation without a 401.                                                  *)
(***************************************************************************)
EXTENDS WriteKeys, TLAPS

LEMMA VersionIsInterval ==
  /\ Len(Values) \in Nat \ {0}
  /\ Version = 1 .. Len(Values)
  /\ \A n \in Version : Values[n] \in Value
<1>1. Values \in Seq(Value) /\ Values # <<>>
  BY WriteKeysAssumption
<1> QED
  BY <1>1 DEF Version

-----------------------------------------------------------------------------
(* Type correctness *)

LEMMA AnsweredTyped ==
  ASSUME TypeOK, NEW c \in Client, Waiting(c), NEW answer \in Answer,
         Answered(c, answer), UNCHANGED <<platform, careful, version, started, held>>,
         cached' \in [Instance -> Value]
  PROVE  TypeOK'
<1>1. started[call[c].at] \in Version \cup {0}
  BY DEF TypeOK
<1>2. call' \in [Client -> [pc : {"ready", "waiting"} \cup Answer,
                            at : Instance \cup {None}, since : Version \cup {0}]]
  BY <1>1 DEF TypeOK, Answered
<1>3. \A d \in Client : Waiting(d)' => Waiting(d) /\ call'[d] = call[d]
  BY DEF Answered, TypeOK, Waiting, Answer
<1> QED
  BY <1>2, <1>3 DEF TypeOK, Up, Waiting

\* Every variable keeps its type, and who waits does so at an instance that is up.
THEOREM KeysTypeCorrect == Spec => []TypeOK
<1> USE VersionIsInterval
<1>1. Init => TypeOK
  BY DEF Init, TypeOK, Value, Waiting
<1>2. TypeOK /\ [Next]_vars => TypeOK'
  <2> SUFFICES ASSUME TypeOK, [Next]_vars PROVE TypeOK'
    OBVIOUS
  <2>1. CASE rotate
    BY <2>1 DEF rotate, TypeOK, instanceVars, Up, Waiting
  <2>2. ASSUME NEW i \in Instance, start(i) PROVE TypeOK'
    <3>1. cached' \in [Instance -> Value]
      BY <2>2 DEF start, TypeOK
    <3> QED
      BY <2>2, <3>1 DEF start, TypeOK, secretVars, Up, Waiting
  <2>3. ASSUME NEW i \in Instance, retire(i) PROVE TypeOK'
    <3>1. call' \in [Client -> [pc : {"ready", "waiting"} \cup Answer,
                                at : Instance \cup {None}, since : Version \cup {0}]]
      BY <2>3 DEF retire, TypeOK, Answer
    <3>2. \A d \in Client : Waiting(d)' => Waiting(d) /\ call'[d] = call[d] /\ call[d].at # i
      BY <2>3 DEF retire, TypeOK, Waiting
    <3> QED
      BY <2>3, <3>1, <3>2 DEF retire, TypeOK, secretVars, Up, Waiting, Value
  <2>4. ASSUME NEW c \in Client, NEW k \in Key, migrate(c, k) PROVE TypeOK'
    BY <2>4 DEF migrate, TypeOK, secretVars, instanceVars, Up, Waiting
  <2>5. ASSUME NEW c \in Client, NEW i \in Instance, send(c, i) PROVE TypeOK'
    BY <2>5 DEF send, TypeOK, secretVars, instanceVars, Up, Waiting
  <2>6. ASSUME NEW c \in Client, fetchAwsSecret(c) PROVE TypeOK'
    BY <2>6 DEF fetchAwsSecret, TypeOK, secretVars, Up, Waiting
  <2>7. ASSUME NEW c \in Client, fetchFails(c) \/ notConfigured(c) PROVE TypeOK'
    BY <2>7, AnsweredTyped
    DEF fetchFails, notConfigured, Answer, secretVars, instanceVars, TypeOK
  <2>8. ASSUME NEW c \in Client, validateWriteKey(c) \/ missingWriteKey(c) PROVE TypeOK'
    <3>1. PICK answer \in {"accepted", "rejected"} : Answered(c, answer)
      BY <2>8 DEF validateWriteKey, missingWriteKey
    <3> QED
      BY <2>8, <3>1, AnsweredTyped
      DEF validateWriteKey, missingWriteKey, Answer, secretVars, instanceVars, TypeOK
  <2>9. CASE UNCHANGED vars
    BY <2>9 DEF vars, TypeOK, Up, Waiting
  <2> QED
    BY <2>1, <2>2, <2>3, <2>4, <2>5, <2>6, <2>7, <2>8, <2>9 DEF Next
<1> QED
  BY <1>1, <1>2, PTL DEF Spec

-----------------------------------------------------------------------------
(* What an instance holds: a value the secret has had since its start *)

CacheInv ==
  \A i \in Instance :
    /\ started[i] <= version
    /\ cached[i] # Unset =>
         Up(i) /\ \E n \in started[i] .. version : cached[i] = Values[n]

LEMMA CacheInvariant == Spec => []CacheInv
<1> USE VersionIsInterval
<1>1. Init => CacheInv
  BY DEF Init, CacheInv
<1>2. TypeOK /\ CacheInv /\ [Next]_vars => CacheInv'
  <2> SUFFICES ASSUME TypeOK, CacheInv, [Next]_vars PROVE CacheInv'
    OBVIOUS
  <2>0. \A i \in Instance : started[i] \in Nat /\ version \in Nat
    BY DEF TypeOK
  <2>1. CASE rotate
    BY <2>0, <2>1 DEF rotate, CacheInv, instanceVars, Up
  <2>2. ASSUME NEW i \in Instance, start(i) PROVE CacheInv'
    <3> SUFFICES ASSUME NEW j \in Instance
                 PROVE  /\ started'[j] <= version'
                        /\ cached'[j] # Unset =>
                             started'[j] # 0 /\ \E n \in started'[j] .. version' :
                                                 cached'[j] = Values[n]
      BY DEF CacheInv, Up
    <3>1. CASE j # i
      BY <2>0, <2>2, <3>1 DEF start, CacheInv, secretVars, TypeOK, Up
    <3>2. CASE j = i
      <4>1. started'[i] = version /\ version # 0 /\ version' = version
        BY <2>2 DEF start, TypeOK, secretVars
      <4>2. cached'[i] \in {Unset, Values[version]}
        BY <2>2 DEF start, TypeOK, CacheInv
      <4> QED
        BY <2>0, <3>2, <4>1, <4>2
    <3> QED
      BY <3>1, <3>2
  <2>3. ASSUME NEW i \in Instance, retire(i) PROVE CacheInv'
    BY <2>0, <2>3 DEF retire, CacheInv, secretVars, TypeOK, Up
  <2>4. ASSUME NEW c \in Client, fetchAwsSecret(c) PROVE CacheInv'
    <3>1. call[c].at \in Instance /\ Up(call[c].at)
      BY <2>4 DEF fetchAwsSecret, TypeOK
    <3> QED
      BY <2>0, <2>4, <3>1 DEF fetchAwsSecret, CacheInv, secretVars, TypeOK, Up
  <2>5. CASE UNCHANGED <<version, started, cached>>
    BY <2>5 DEF CacheInv, Up
  <2> QED
    BY <2>1, <2>2, <2>3, <2>4, <2>5
    DEF Next, vars, migrate, send, fetchFails, notConfigured, validateWriteKey, missingWriteKey,
        secretVars, instanceVars
<1> QED
  BY <1>1, <1>2, KeysTypeCorrect, PTL DEF Spec

-----------------------------------------------------------------------------
(* What an answer says about the key *)

AnswerInv == AcceptedKeyWasValid /\ NeverRejectsLasting

\* The answers that the validation gives.
LEMMA AnswerFits ==
  ASSUME TypeOK, CacheInv, NEW c \in Client,
         validateWriteKey(c) \/ missingWriteKey(c)
  PROVE  LET s == started[call[c].at] IN
         \/ /\ Answered(c, "accepted")
            /\ \E n \in s .. version : Values[n] # Unset /\ held[c] \in Values[n]
         \/ Answered(c, "rejected") /\ ~GoodSince(s, held[c])
<1> DEFINE i == call[c].at
<1>1. i \in Instance /\ Up(i) /\ started[i] \in Version /\ version \in Version
  BY DEF validateWriteKey, missingWriteKey, TypeOK, Up
<1>2. started[i] <= version
  BY <1>1 DEF CacheInv
<1>3. CASE missingWriteKey(c)
  <2>1. version \in started[i] .. version
    BY <1>1, <1>2, VersionIsInterval
  <2> QED
    BY <1>3, <2>1 DEF missingWriteKey, GoodSince, Allows
<1>4. CASE validateWriteKey(c)
  <2>1. PICK n \in started[i] .. version : cached[i] = Values[n]
    BY <1>1, <1>4 DEF CacheInv, validateWriteKey
  <2>2. Allows(n, held[c]) <=> held[c] \in cached[i]
    BY <1>4, <2>1 DEF Allows, validateWriteKey
  <2> QED
    BY <1>4, <2>1, <2>2 DEF validateWriteKey, GoodSince
<1> QED
  BY <1>3, <1>4

\* Steps that answer nothing, and let the secret only move on, keep it true.
LEMMA AnswersStay ==
  ASSUME TypeOK, AnswerInv, version' \in {version, version + 1}, held' = held,
         \A c \in Client : call'[c] = call[c] \/ call'[c].pc \notin {"accepted", "rejected"}
  PROVE  AnswerInv'
<1>1. version \in Nat
  BY VersionIsInterval DEF TypeOK
<1>2. \A c \in Client : call[c].since .. version \subseteq call[c].since .. version'
  BY <1>1, VersionIsInterval DEF TypeOK
<1>3. AcceptedKeyWasValid'
  BY <1>2 DEF AnswerInv, AcceptedKeyWasValid
<1>4. NeverRejectsLasting'
  BY <1>2 DEF AnswerInv, NeverRejectsLasting, GoodSince, Allows
<1> QED
  BY <1>3, <1>4 DEF AnswerInv

LEMMA AnswerInvariant == Spec => []AnswerInv
<1>1. Init => AnswerInv
  BY DEF Init, AnswerInv, AcceptedKeyWasValid, NeverRejectsLasting
<1>2. TypeOK /\ CacheInv /\ AnswerInv /\ [Next]_vars => AnswerInv'
  <2> SUFFICES ASSUME TypeOK, CacheInv, AnswerInv, [Next]_vars PROVE AnswerInv'
    OBVIOUS
  <2>1. CASE rotate
    BY <2>1, AnswersStay DEF rotate
  <2>2. ASSUME NEW i \in Instance, start(i) \/ retire(i) PROVE AnswerInv'
    <3>1. \A c \in Client : call'[c] = call[c] \/ call'[c].pc \notin {"accepted", "rejected"}
      BY <2>2 DEF start, retire
    <3> QED
      BY <2>2, <3>1, AnswersStay DEF start, retire, secretVars
  <2>3. ASSUME NEW c \in Client, NEW k \in Key, migrate(c, k) PROVE AnswerInv'
    <3>1. \A d \in Client : d # c => call'[d] = call[d] /\ held'[d] = held[d]
      BY <2>3 DEF migrate, TypeOK
    <3>2. call'[c].pc = "ready" /\ version' = version
      BY <2>3 DEF migrate, TypeOK, secretVars
    <3> QED
      BY <3>1, <3>2 DEF AnswerInv, AcceptedKeyWasValid, NeverRejectsLasting, GoodSince, Allows
  <2>4. ASSUME NEW c \in Client, NEW i \in Instance, send(c, i) PROVE AnswerInv'
    <3>1. \A d \in Client : call'[d] = call[d] \/ call'[d].pc \notin {"accepted", "rejected"}
      BY <2>4 DEF send, TypeOK
    <3> QED
      BY <2>4, <3>1, AnswersStay DEF send, secretVars
  <2>5. ASSUME NEW c \in Client, fetchAwsSecret(c) PROVE AnswerInv'
    BY <2>5, AnswersStay DEF fetchAwsSecret, secretVars
  <2>6. ASSUME NEW c \in Client, fetchFails(c) \/ notConfigured(c) PROVE AnswerInv'
    <3>1. \A d \in Client : call'[d] = call[d] \/ call'[d].pc \notin {"accepted", "rejected"}
      BY <2>6 DEF fetchFails, notConfigured, Answered, TypeOK
    <3> QED
      BY <2>6, <3>1, AnswersStay DEF fetchFails, notConfigured, secretVars
  <2>7. ASSUME NEW c \in Client, validateWriteKey(c) \/ missingWriteKey(c) PROVE AnswerInv'
    <3>1. version' = version /\ held' = held
      BY <2>7 DEF validateWriteKey, missingWriteKey, secretVars
    <3>2. \A d \in Client : d # c => call'[d] = call[d]
      BY <2>7 DEF validateWriteKey, missingWriteKey, Answered, TypeOK
    <3>3. \A a \in Answer : Answered(c, a) =>
            call'[c].pc = a /\ call'[c].since = started[call[c].at]
      BY DEF Answered, TypeOK
    <3>4. \A n, k : Allows(n, k)' <=> Allows(n, k)
      BY DEF Allows
    <3> QED
      BY <2>7, <3>1, <3>2, <3>3, <3>4, AnswerFits
      DEF AnswerInv, AcceptedKeyWasValid, NeverRejectsLasting, GoodSince, Answer
  <2>8. CASE UNCHANGED vars
    BY <2>8, AnswersStay DEF vars
  <2> QED
    BY <2>1, <2>2, <2>3, <2>4, <2>5, <2>6, <2>7, <2>8 DEF Next
<1> QED
  BY <1>1, <1>2, KeysTypeCorrect, CacheInvariant, PTL DEF Spec

\* A key is accepted only if the secret has held it since the start of the
\* instance that answered.
THEOREM AcceptedKeysWereValid == Spec => []AcceptedKeyWasValid
<1>1. AnswerInv => AcceptedKeyWasValid
  BY DEF AnswerInv
<1> QED
  BY <1>1, AnswerInvariant, PTL

\* A key that has been good since the start of the instance that answered is
\* never rejected.
THEOREM LastingKeysAreAccepted == Spec => []NeverRejectsLasting
<1>1. AnswerInv => NeverRejectsLasting
  BY DEF AnswerInv
<1> QED
  BY <1>1, AnswerInvariant, PTL

-----------------------------------------------------------------------------
(* The rotation: whoever is careful holds a key that is good everywhere *)

CareInv ==
  careful => \A c \in Client :
    /\ Allows(version, held[c])
    /\ \A i \in Instance : Up(i) => GoodSince(started[i], held[c])
    /\ call[c].pc # "rejected"

\* The documented procedure rotates the key without a single 401.
THEOREM RotationWithout401 == Spec => []ZeroDowntime
<1> USE VersionIsInterval
<1>1. Init => CareInv
  BY DEF Init, CareInv, Up
<1>2. TypeOK /\ CacheInv /\ CareInv /\ [Next]_vars => CareInv'
  <2> SUFFICES ASSUME TypeOK, CacheInv, CareInv, [Next]_vars, careful PROVE CareInv'
    BY DEF CareInv, Next, vars, rotate, start, retire, migrate, send, fetchAwsSecret,
           fetchFails, notConfigured, validateWriteKey, missingWriteKey, secretVars
  <2> USE DEF CareInv, GoodSince, Allows
  <2>0. version \in Nat /\ \A i \in Instance : started[i] \in Nat
    BY DEF TypeOK
  <2>1. CASE rotate
    BY <2>0, <2>1 DEF rotate, instanceVars, Up
  <2>2. ASSUME NEW i \in Instance, start(i) PROVE CareInv'
    <3>1. started'[i] = version /\ \A j \in Instance : j # i => started'[j] = started[j]
      BY <2>2 DEF start, TypeOK
    <3>2. version' = version /\ held' = held /\ call' = call /\ careful' = careful
      BY <2>2 DEF start, secretVars
    <3>3. \A n \in version .. version : n = version
      BY <2>0
    <3> QED
      BY <3>1, <3>2, <3>3 DEF Up
  <2>3. ASSUME NEW i \in Instance, retire(i) PROVE CareInv'
    <3>1. \A d \in Client : call'[d] = call[d] \/ call'[d].pc = "failed"
      BY <2>3 DEF retire
    <3>2. \A j \in Instance : started'[j] # 0 => started[j] # 0 /\ started'[j] = started[j]
      BY <2>3 DEF retire, TypeOK
    <3> QED
      BY <2>3, <3>1, <3>2 DEF retire, secretVars, Up
  <2>4. ASSUME NEW c \in Client, NEW k \in Key, migrate(c, k) PROVE CareInv'
    BY <2>4 DEF migrate, TypeOK, secretVars, instanceVars, Up
  <2>5. ASSUME NEW c \in Client, NEW i \in Instance, send(c, i) PROVE CareInv'
    <3>1. \A d \in Client : call'[d] = call[d] \/ call'[d].pc = "waiting"
      BY <2>5 DEF send, TypeOK
    <3> QED
      BY <2>5, <3>1 DEF send, secretVars, instanceVars, Up
  <2>6. ASSUME NEW c \in Client, fetchAwsSecret(c) PROVE CareInv'
    BY <2>6 DEF fetchAwsSecret, secretVars, Up
  <2>7. ASSUME NEW c \in Client, fetchFails(c) \/ notConfigured(c) PROVE CareInv'
    <3>1. \A d \in Client : call'[d] = call[d] \/ call'[d].pc = "failed"
      BY <2>7 DEF fetchFails, notConfigured, Answered, TypeOK
    <3> QED
      BY <2>7, <3>1 DEF fetchFails, notConfigured, secretVars, instanceVars, Up
  <2>8. ASSUME NEW c \in Client, validateWriteKey(c) \/ missingWriteKey(c) PROVE CareInv'
    <3>1. call[c].at \in Instance /\ Up(call[c].at)
      BY <2>8 DEF validateWriteKey, missingWriteKey, TypeOK
    <3>2. Answered(c, "accepted")
      BY <2>8, <3>1, AnswerFits
    <3>3. \A d \in Client : call'[d] = call[d] \/ call'[d].pc = "accepted"
      BY <3>2 DEF Answered, TypeOK
    <3> QED
      BY <2>8, <3>3 DEF validateWriteKey, missingWriteKey, secretVars, instanceVars, Up
  <2>9. CASE UNCHANGED vars
    BY <2>9 DEF vars, Up
  <2> QED
    BY <2>1, <2>2, <2>3, <2>4, <2>5, <2>6, <2>7, <2>8, <2>9 DEF Next
<1>3. CareInv => ZeroDowntime
  BY DEF CareInv, ZeroDowntime
<1> QED
  BY <1>1, <1>2, <1>3, KeysTypeCorrect, CacheInvariant, PTL DEF Spec
=============================================================================
