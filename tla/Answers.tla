------------------------------- MODULE Answers -------------------------------
(***************************************************************************)
(* The status code that each platform gives to a request: Express           *)
(* (app/http), Lambda (app/aws) and Azure Functions (app/azure).            *)
(*                                                                         *)
(* A posted request is a record: key ("good", "bad", "none"), body ("json", *)
(* "malformed", "none"), events, sentAt (whether it is there) and padding,  *)
(* what its text is longer than the parsed data.  A query is a record:      *)
(* mistake (what is wrong with its parameters, or "none"), session (a       *)
(* sessionId to filter by, or "") and trouble, the words in the error that  *)
(* the database throws, {} if it throws none.                               *)
(***************************************************************************)
EXTENDS Validation

\* The status of the first check that fails, 202 if none does.
FirstFailure(checks) ==
  LET failed == {i \in DOMAIN checks : ~checks[i].holds}
  IN  IF failed = {} THEN 202
      ELSE checks[CHOOSE i \in failed : \A j \in failed : i <= j].status

Else(status, holds) == [holds |-> holds, status |-> status]

-----------------------------------------------------------------------------
(* POST *)

TextSize(r) == EnvelopeSize(r.events, r.sentAt) + r.padding

\* express.json comes before the authentication, and its errors are no AppError;
\* a request without a body reaches the validation as {}.
ExpressPost(r, works) ==
  FirstFailure(
    <<Else(500, r.body # "malformed"),
      Else(500, r.body = "json" => TextSize(r) <= maxPayloadSize),
      Else(401, r.key = "good"),
      Else(400, r.body = "json" /\ Accepts(r.events, r.sentAt)),
      Else(500, works)>>)

\* Mutant: every error that reaches the last catch is a client's.
CatchAll400(r, works) ==
  FirstFailure(
    <<Else(401, r.key = "good"),
      Else(400, r.body = "json"),
      Else(400, Accepts(r.events, r.sentAt)),
      Else(400, works)>>)

\* Lambda and Azure Functions check in the same order.
FunctionPost(r, works) ==
  FirstFailure(
    <<Else(401, r.key = "good"),
      Else(400, r.body = "json"),
      Else(400, Accepts(r.events, r.sentAt)),
      Else(500, works)>>)

PostStatus(platform, r, works) ==
  IF platform = "express" THEN ExpressPost(r, works) ELSE FunctionPost(r, works)

-----------------------------------------------------------------------------
(* GET: the error thrown, by whom, and with which words in its message *)

NoError == [by |-> "nobody", words |-> {}]

\* The message of a ZodError is the text of its issues, and the issue of a time
\* says "validation": "datetime".
QueryError(platform, q) ==
  CASE q.mistake = "missing" /\ platform = "azure" ->
         [by |-> "adapter", words |-> {"Missing required query parameters"}]
    [] q.mistake = "missing" /\ platform # "azure" -> [by |-> "zod", words |-> {}]
    [] q.mistake = "time" -> [by |-> "zod", words |-> {"validation"}]
    [] q.mistake \in {"limit", "range", "window"} -> [by |-> "zod", words |-> {}]
    [] q.mistake = "cursor" -> [by |-> "handleQuery", words |-> {"Invalid"}]
    [] q.mistake = "none" ->
         IF q.trouble = {} THEN NoError ELSE [by |-> "database", words |-> q.trouble]

\* Express and Lambda ask who threw the error, or for the word "Invalid".
SharedGet(error) == IF error.by = "zod" \/ "Invalid" \in error.words THEN 400 ELSE 500

\* Azure Functions looks for words only.
AzureGet(error) ==
  IF error.words \cap {"Missing required query parameters", "validation"} # {}
  THEN 400 ELSE 500

GetStatus(platform, q) ==
  LET error == QueryError(platform, q)
  IN  IF error = NoError THEN 200
      ELSE IF platform = "azure" THEN AzureGet(error) ELSE SharedGet(error)
=============================================================================
