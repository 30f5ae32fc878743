----------------------------- MODULE MCLifecycle -----------------------------
(***************************************************************************)
(* Instances of Lifecycle for TLC: the limits are 2, so that a value can    *)
(* exceed each of them at each of its levels.                               *)
(***************************************************************************)
EXTENDS Lifecycle, TLC

-----------------------------------------------------------------------------
(* JSON values: strings, what holds up to three of them, and what holds one *)
(* of those, twice                                                          *)

V(kind, length, named, parts) ==
  [kind |-> kind, length |-> length, named |-> named, parts |-> parts]

Leaves == {V("string", n, TRUE, <<>>) : n \in {2, 3}} \cup {V("scalar", 0, TRUE, <<>>)}

Holding(Parts) ==
  {V(kind, 0, TRUE, p) : kind \in {"array", "object"}, p \in Parts}
    \cup {V("object", 0, FALSE, p) : p \in Parts \ {<<>>}}

One(S)   == {<<v>> : v \in S}
UpTo3(S) == UNION {[1 .. n -> S] : n \in 0 .. 3}

V1 == Holding(UpTo3(Leaves \ {V("string", 3, TRUE, <<>>)}) \cup One(Leaves))
V2 == Holding(One(V1))
V3 == {V("object", 0, TRUE, p) : p \in One(V2)}

Values == Leaves \cup V1 \cup V2 \cup V3

-----------------------------------------------------------------------------
(* Events: an old one and young ones; a session in the actor, in the        *)
(* context, in both or in neither; members that the schema does not know    *)

Track(id, at, actor) ==
  [eventId |-> id, type |-> "track", occurredAt |-> at, source |-> "a",
   actor |-> actor, name |-> "n"]

User == [userId |-> "u"]

Old     == Track(1, 0, User)
Young   == Track(2, 3, [userId |-> "u", sessionId |-> "s"])
Empty   == [context |-> [sessionId |-> "", locale |-> "de"]]
             @@ Track(3, 3, [anonymousId |-> "x", sessionId |-> "s"])
Both    == [context |-> [sessionId |-> "t"], consent |-> "yes"]
             @@ Track(4, 3, [userId |-> "u", sessionId |-> "s"])
Identify(v) == [traits |-> v, ttl |-> 99]
             @@ Restrict([Track(5, 3, User) EXCEPT !.type = "identify"],
                         {"eventId", "type", "occurredAt", "source", "actor"})
Nobody  == Track(6, 3, [userId |-> "", sessionId |-> "s"])
Content(v) == [properties |-> v] @@ Track(7, 4, User)

\* The same event again, with a session, and at a later time.
Again      == [context |-> [sessionId |-> "t"]] @@ Track(9, 3, User)
AgainLater == [Again EXCEPT !.occurredAt = 4]

Flat == V("object", 0, TRUE, <<>>)

Request(key, body, events, sentAt, padding) ==
  [key |-> key, body |-> body, events |-> events, sentAt |-> sentAt,
   padding |-> padding]

Good(events) == Request("good", "json", events, FALSE, 0)

\* Two events with a session in the actor fit into a batch, but no longer when the
\* sessions have moved into contexts of their own.
Posts ==
  {Good(<<Content(v)>>) : v \in {u \in Values : u.kind \in {"array", "object"}}}
    \cup {Good(s) : s \in {<<Old>>, <<Old, Young>>, <<Empty>>, <<Both>>, <<Nobody>>,
                           <<Identify(Flat), Young>>, <<>>, <<Old, Young, Empty>>,
                           <<Young, [Young EXCEPT !.eventId = 8]>>,
                           <<Track(9, 3, User), Again>>,
                           <<AgainLater, Track(9, 3, User)>>}}
    \cup {[Good(<<Young>>) EXCEPT !.sentAt = TRUE, !.padding = 9],
          [Good(<<Old>>) EXCEPT !.key = "bad"],
          [Good(<<>>) EXCEPT !.body = "malformed"],
          [Good(<<>>) EXCEPT !.body = "none", !.key = "none"]}

NoPosts == {}

Ask(mistake, session, trouble) ==
  [mistake |-> mistake, session |-> session, trouble |-> trouble]

Queries ==
  {Ask("none", s, {}) : s \in {"", "s", "t", "no-session"}}
    \cup {Ask("none", "", {"Invalid"}), Ask("window", "", {})}

Mistakes ==
  {Ask(m, "", {}) : m \in {"missing", "time", "limit", "range", "window", "cursor"}}
=============================================================================
