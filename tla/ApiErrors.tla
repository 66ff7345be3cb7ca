------------------------------- MODULE ApiErrors -------------------------------
(***************************************************************************)
(* How _request classes what Cloudflare answers: the exceptions the rest   *)
(* of the program tells apart, and what the dialogs call them.             *)
(***************************************************************************)
EXTENDS Naturals

\* Answers, and the exceptions they become.

NoAnswer == 0
Statuses == {NoAnswer, 200, 401, 403, 429, 500}

\* What is in the body: no JSON, JSON that is no object, an envelope without success,
\* one without the result asked for, and a good one.
Bodies == {"text", "array", "failure", "no_result", "result"}
HttpAnswer == [status : Statuses, body : Bodies]

ErrorClasses == {"connection", "auth", "rate", "api", "result"}

\* _request, then _require_result or _require_list.  The body is parsed before the
\* status is looked at, so a rejected token is an API error if the body is no JSON
\* object.
ClassOf(a) ==
  LET parsed == a.body \notin {"text", "array"}
  IN  CASE a.status = NoAnswer -> "connection"
        [] a.status # NoAnswer /\ ~parsed -> "api"
        [] a.status \in {401, 403} /\ parsed -> "auth"
        [] a.status = 429 /\ parsed -> "rate"
        [] (a.status = 500 /\ parsed) \/ (a.status = 200 /\ a.body = "failure") -> "api"
        [] a.status = 200 /\ a.body = "no_result" -> "result"
        [] a.status = 200 /\ a.body = "result" -> "ok"

\* What Cloudflare thinks of a request: it rejects the token (wrong or inactive), the
\* token lacks the permission for this one (a 403, or less in the result), or has it.
\* What it answers then, and what becomes of these answers.
Standings == {"rejected", "limited", "allowed"}
AnswersTo(standing) ==
  {a \in HttpAnswer : /\ standing = "rejected" => a.status # 200
                      /\ standing = "allowed" => a.status \notin {401, 403}}
ClassesTo == [standing \in Standings |-> {ClassOf(a) : a \in AnswersTo(standing)}]

\* _error_key: what the dialogs make of an error.
ErrorKey(class) ==
  CASE class = "auth" -> "invalid_auth"
    [] class = "rate" -> "rate_limit"
    [] class = "connection" -> "cannot_connect"
    [] OTHER -> "unknown"
Keys == {ErrorKey(class) : class \in ErrorClasses} \cup {"none"}

================================================================================
