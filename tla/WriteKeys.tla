------------------------------- MODULE WriteKeys -------------------------------
(***************************************************************************)
(* The write key of the ingest endpoint while it is rotated: the secret, the *)
(* instances that keep a copy of it (getWriteKey and fetchAwsSecret on       *)
(* Lambda, the environment of the process on Azure Functions and the local   *)
(* server), and clients that send one request after the other.              *)
(*                                                                         *)
(* A value of the secret is the set of its comma-separated keys, or Unset    *)
(* for a secret that has been created and has no value yet.                 *)
(***************************************************************************)
EXTENDS Integers, Sequences

CONSTANTS
  Platform,   \* the platforms considered: "lambda", "functions"
  Instance,
  Client,
  Key,
  Values,     \* the values the secret takes, one after the other
  None,
  Faults      \* "fetch": a call of Secrets Manager may fail

Version == DOMAIN Values
Unset == {None}
Value == (SUBSET Key) \cup {Unset}

ASSUME WriteKeysAssumption ==
  /\ Platform \subseteq {"lambda", "functions"}
  /\ Values \in Seq(Value) /\ Values # <<>>
  /\ None \notin Instance \cup Key
  /\ Faults \subseteq {"fetch"}

VARIABLES
  platform,   \* the platform of this deployment
  careful,    \* operator and clients follow docs/security-at-boundary.md
  version,    \* the value the secret has now
  started,    \* that at the start of each instance, 0 for one that is not up
  cached,     \* the value each instance holds, Unset if it holds none
  held,       \* the key each client sends, None for a request without one
  call        \* the last request of each client

secretVars   == <<platform, careful, version>>
instanceVars == <<started, cached>>
vars == <<platform, careful, version, started, cached, held, call>>

Answer == {"accepted", "rejected", "failed"}

Up(i) == started[i] # 0
Waiting(c) == call[c].pc = "waiting"

\* at is the instance that handles the request, which is up; since is what
\* started was for the instance that answered it.
TypeOK ==
  /\ platform \in Platform
  /\ careful \in BOOLEAN
  /\ version \in Version
  /\ started \in [Instance -> Version \cup {0}]
  /\ cached \in [Instance -> Value]
  /\ held \in [Client -> Key \cup {None}]
  /\ call \in [Client -> [pc : {"ready", "waiting"} \cup Answer,
                          at : Instance \cup {None}, since : Version \cup {0}]]
  /\ \A c \in Client : Waiting(c) => call[c].at \in Instance /\ Up(call[c].at)

\* No instance rejects the key for what the secret said in version n.
Allows(n, k) == k # None /\ (Values[n] = Unset \/ k \in Values[n])

\* The key has been good ever since version m.
GoodSince(m, k) == \A n \in m .. version : Allows(n, k)

Init ==
  /\ platform \in Platform
  /\ careful \in BOOLEAN
  /\ version = 1
  /\ started = [i \in Instance |-> 0]
  /\ cached  = [i \in Instance |-> Unset]
  /\ held \in [Client -> Key \cup {None}]
  /\ careful => \A c \in Client : Allows(1, held[c])
  /\ call = [c \in Client |-> [pc |-> "ready", at |-> None, since |-> 0]]

-----------------------------------------------------------------------------
(* The operator and the clients *)

\* The next value is put into the secret; who is careful waits for the clients
\* to have moved to a key that stays.
rotate ==
  /\ version + 1 \in Version
  /\ careful => \A c \in Client : Allows(version + 1, held[c])
  /\ version' = version + 1
  /\ UNCHANGED <<platform, careful, instanceVars, held, call>>

\* A client takes another key between two requests; who is careful waits until
\* the instances from before the key was added are gone.
migrate(c, k) ==
  /\ ~Waiting(c)
  /\ careful => /\ Allows(version, k)
                /\ \A i \in Instance : Up(i) => GoodSince(started[i], k)
  /\ held' = [held EXCEPT ![c] = k]
  /\ call' = [call EXCEPT ![c] = [pc |-> "ready", at |-> None, since |-> 0]]
  /\ UNCHANGED <<secretVars, instanceVars>>

\* Lambda gives an instance one request at a time.
send(c, i) ==
  /\ ~Waiting(c) /\ Up(i)
  /\ platform = "lambda" => \A d \in Client : Waiting(d) => call[d].at # i
  /\ call' = [call EXCEPT ![c] = [pc |-> "waiting", at |-> i, since |-> 0]]
  /\ UNCHANGED <<secretVars, instanceVars, held>>

-----------------------------------------------------------------------------
(* The instances *)

\* Azure resolves the Key Vault reference when it starts the process; an instance
\* of Lambda starts with nothing.
start(i) ==
  /\ ~Up(i)
  /\ started' = [started EXCEPT ![i] = version]
  /\ cached'  = IF platform = "functions" THEN [cached EXCEPT ![i] = Values[version]]
                                          ELSE cached
  /\ UNCHANGED <<secretVars, held, call>>

Answered(c, answer) ==
  call' = [call EXCEPT ![c] = [pc |-> answer, at |-> None, since |-> started[call[c].at]]]

\* Mutant: what the instance had loaded is found again by the next one.
KeepsValue(i) ==
  /\ Up(i)
  /\ started' = [started EXCEPT ![i] = 0]
  /\ call' = [c \in Client |->
       IF Waiting(c) /\ call[c].at = i
       THEN [pc |-> "failed", at |-> None, since |-> started[i]] ELSE call[c]]
  /\ cached' \in {cached, [cached EXCEPT ![i] = Unset]}
  /\ UNCHANGED <<secretVars, held>>

\* Mutant: the requests of an instance that ends are forgotten.
ForgetsRequests(i) ==
  /\ Up(i)
  /\ started' = [started EXCEPT ![i] = 0]
  /\ cached'  = [cached EXCEPT ![i] = Unset]
  /\ UNCHANGED <<secretVars, held, call>>

\* Recycled, replaced by a deployment, or ended with the request it handles.
retire(i) ==
  /\ Up(i)
  /\ started' = [started EXCEPT ![i] = 0]
  /\ cached'  = [cached EXCEPT ![i] = Unset]
  /\ call' = [c \in Client |->
       IF Waiting(c) /\ call[c].at = i
       THEN [pc |-> "failed", at |-> None, since |-> started[i]] ELSE call[c]]
  /\ UNCHANGED <<secretVars, held>>

\* A request that carries a key makes an instance of Lambda without a value load
\* the secret, which it keeps from then on.
fetchAwsSecret(c) ==
  /\ platform = "lambda" /\ Waiting(c) /\ held[c] # None
  /\ cached[call[c].at] = Unset /\ Values[version] # Unset
  /\ cached' = [cached EXCEPT ![call[c].at] = Values[version]]
  /\ UNCHANGED <<secretVars, started, held, call>>

\* Mutant: the instance goes on with an empty value.
KeepsFailure(c) ==
  /\ platform = "lambda" /\ Waiting(c) /\ held[c] # None
  /\ cached[call[c].at] = Unset
  /\ Values[version] = Unset \/ "fetch" \in Faults
  /\ cached' = [cached EXCEPT ![call[c].at] = {}]
  /\ Answered(c, "failed")
  /\ UNCHANGED <<secretVars, started, held>>

\* An error is not kept: the next request tries again.
fetchFails(c) ==
  /\ platform = "lambda" /\ Waiting(c) /\ held[c] # None
  /\ cached[call[c].at] = Unset
  /\ Values[version] = Unset \/ "fetch" \in Faults
  /\ Answered(c, "failed")
  /\ UNCHANGED <<secretVars, instanceVars, held>>

\* A process of Azure without a value answers 500, even to a request without a
\* key.
notConfigured(c) ==
  /\ platform = "functions" /\ Waiting(c)
  /\ cached[call[c].at] = Unset
  /\ Answered(c, "failed")
  /\ UNCHANGED <<secretVars, instanceVars, held>>

\* Mutant: of the two keys only the lengths are compared.
ComparesLengths(c) ==
  /\ Waiting(c) /\ held[c] # None /\ cached[call[c].at] # Unset
  /\ Answered(c, "accepted")
  /\ UNCHANGED <<secretVars, instanceVars, held>>

validateWriteKey(c) ==
  /\ Waiting(c) /\ held[c] # None /\ cached[call[c].at] # Unset
  /\ Answered(c, IF held[c] \in cached[call[c].at] THEN "accepted" ELSE "rejected")
  /\ UNCHANGED <<secretVars, instanceVars, held>>

\* On Lambda a missing key is rejected before the secret is looked at.
missingWriteKey(c) ==
  /\ Waiting(c) /\ held[c] = None
  /\ platform = "lambda" \/ cached[call[c].at] # Unset
  /\ Answered(c, "rejected")
  /\ UNCHANGED <<secretVars, instanceVars, held>>

-----------------------------------------------------------------------------
Next ==
  \/ rotate
  \/ \E i \in Instance : start(i) \/ retire(i)
  \/ \E c \in Client :
       \/ \E k \in Key : migrate(c, k)
       \/ \E i \in Instance : send(c, i)
       \/ fetchAwsSecret(c) \/ fetchFails(c) \/ notConfigured(c)
       \/ validateWriteKey(c) \/ missingWriteKey(c)

Spec == Init /\ [][Next]_vars

\* The platform ends every instance some day, by recycling or a deployment.
FairSpec == Spec /\ \A i \in Instance : WF_vars(retire(i))

-----------------------------------------------------------------------------
(* Properties *)

\* A key is accepted only if the secret has held it since the instance that
\* answered was started: a value that was already withdrawn then is not used.
AcceptedKeyWasValid ==
  \A c \in Client : call[c].pc = "accepted" =>
    \E n \in call[c].since .. version : Values[n] # Unset /\ held[c] \in Values[n]

\* A key that has been good since the start of the instance that answered is
\* never rejected, however the secret was rotated meanwhile and whenever the
\* instance read it.
NeverRejectsLasting ==
  \A c \in Client : call[c].pc = "rejected" => ~GoodSince(call[c].since, held[c])

\* "Support multiple keys simultaneously for zero-downtime rotation": who
\* follows the procedure never sees a 401.
ZeroDowntime == careful => \A c \in Client : call[c].pc # "rejected"

\* When the secret no longer changes, the instances that hold another value die
\* out: withdrawn keys stop working, and a secret that was missing is found.
LastValuePrevails ==
  version = Len(Values) ~>
    [](\A i \in Instance : Up(i) => cached[i] \in {Unset, Values[version]})
=============================================================================
