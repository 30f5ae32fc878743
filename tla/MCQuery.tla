------------------------------- MODULE MCQuery -------------------------------
(***************************************************************************)
(* Instances of Query for TLC.                                              *)
(***************************************************************************)
EXTENDS Query

\* A millisecond is two instants: a time may be written with a digit more, and
\* with one less.
Units    == {1, 2, 4}
Finer(n) == [at |-> n, unit |-> 1]
Whole(n) == [at |-> n, unit |-> 2]
Short(n) == [at |-> n, unit |-> 4]

Ev(id, app, t, user, session, name) ==
  [eventId |-> id, appId |-> app, occurredAt |-> t,
   userId |-> user, sessionId |-> session, name |-> name]

Query(app, to, user, session, name, sort) ==
  [appId |-> app, from |-> Whole(0), to |-> to,
   userId |-> user, sessionId |-> session, name |-> name, sort |-> sort]

Parts == {"a", "b", "c", "u", "s", "t", "anonymous", "no-session"}

A  == <<"a">>
AB == <<"a", "b">>
C  == <<"c">>
U  == <<"u">>
S  == <<"s">>

\* Three events of the application c: two share a time and a session, two a user;
\* and one of a#b with that user and that session.  The times have one digit, two or
\* three.
Events ==
  {Ev(1, C, Short(4), U, S, "n"), Ev(2, C, Short(4), None, S, "m"),
   Ev(3, AB, Finer(5), U, S, "n"), Ev(4, C, Whole(10), U, <<"t">>, "n")}

\* Plain: a userId or a sessionId, which two applications know; with and without a
\* filter; a range that ends at the instant of an event, which it excludes, and one
\* that ends now.
PlainQueries ==
  {Query(C, None, None, None, None, "asc"), Query(C, Short(12), None, None, None, "desc"),
   Query(C, Whole(10), U, None, None, "desc"), Query(C, Short(12), None, S, None, "asc"),
   Query(C, Short(12), None, None, "n", "desc")}

\* Not plain: a userId next to a sessionId, an end that starts with the digits of an
\* event that has fewer, and a user of a whose key is that of a user of a#b.
OtherQueries ==
  {Query(C, Short(12), U, S, None, "asc"), Query(C, Whole(6), None, None, None, "desc"),
   Query(A, Short(12), <<"b", "u">>, None, None, "asc")}

Queries == PlainQueries \cup OtherQueries

FilteredQuery == {Query(C, Short(12), None, None, "n", "asc")}
PlainQuery    == {Query(C, Short(12), None, None, None, "asc")}
=============================================================================
