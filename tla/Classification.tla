--------------------------- MODULE Classification ---------------------------
(***************************************************************************)
(* What a failed answer of the upstream is taken for: Probe of             *)
(* internal/classify, and Engine.ClassifyFailureWithBody, which makes the  *)
(* row of the isolation ledger out of it.  Pure.                           *)
(*                                                                         *)
(* A body is the set of marks the classifier looks for in the error code   *)
(* and message, with "text" for anything else; the empty set is no body.   *)
(* A duration is named by the status whose ban_NNN_seconds it is.          *)
(***************************************************************************)
EXTENDS Integers

CONSTANT ActionOn       \* action_on_401 .. action_on_429

Classics == {401, 402, 403, 429}
Marks    == {"auth", "quota", "denied", "missing", "text"}

ASSUME ActionAssumption == ActionOn \in [Classics -> {"ban", "disable", "delete"}]

NoWindow == 0           \* DurationForStatus of a status it has no duration for
Hinted   == 1           \* until the time named in Retry-After or x-ratelimit-reset

Kinds == {"reauth", "quota_exhausted", "rate_limited", "permission_denied",
          "model_unavailable", "healthy", "probe_error", "unknown"}

statusOr(status, default) == IF status > 0 THEN status ELSE default

Judgment(kind, advice, isolate, status) ==
  [kind |-> kind, advice |-> advice, isolate |-> isolate, status |-> status]

(* The advice for a disabled credential (keep, enable) is for display: the *)
(* engine asks without that flag.                                          *)
Judge(status, body) ==
  CASE status = 401 \/ "auth" \in body ->
         Judgment("reauth", "delete", TRUE, statusOr(status, 401))
    [] "quota" \in body ->
         Judgment("quota_exhausted", "disable", TRUE, statusOr(status, 402))
    [] status = 429 -> Judgment("rate_limited", "ban", TRUE, 429)
    [] status = 402 -> Judgment("quota_exhausted", "disable", TRUE, 402)
    [] status = 403 \/ "denied" \in body ->
         Judgment("permission_denied", "disable", TRUE, statusOr(status, 403))
    [] status = 404 \/ "missing" \in body ->
         Judgment("model_unavailable", "keep", FALSE, statusOr(status, 404))
    [] status \in 200..299 -> Judgment("healthy", "keep", FALSE, status)
    [] status > 0          -> Judgment("probe_error", "keep", status \in Classics, status)
    [] OTHER               -> Judgment("unknown", "keep", FALSE, 0)

ActionForStatus(status)   == IF status \in Classics THEN ActionOn[status] ELSE "ban"
DurationForStatus(status) == IF status \in Classics THEN status ELSE NoWindow

(* Whether the failure isolates at all, and the row it asks for.  Every    *)
(* classic status is judged isolating, so the engine's own exception for   *)
(* them, when there is no body, adds nothing.                              *)
Isolates(status, body) == Judge(status, body).isolate

Window(j) ==
  DurationForStatus(
    CASE j.kind = "rate_limited" \/ j.status = 429 -> 429
      [] j.status = 401 \/ j.kind = "reauth"       -> 401
      [] j.status = 402 \/ j.kind = "quota_exhausted" -> 402
      [] OTHER -> 403)

ResetOf(j, hinted) ==
  IF hinted /\ (j.kind = "rate_limited" \/ j.status = 429) THEN Hinted ELSE Window(j)

ClassifiedAction(j) ==
  CASE j.advice = "ban" -> "ban"
    [] j.kind = "quota_exhausted" -> ActionOn[402]
    [] OTHER -> ActionForStatus(j.status)

ClassifyFailureWithBody(status, body, hinted) ==
  LET j == Judge(status, body)
  IN  [status |-> j.status, kind |-> j.kind, action |-> ClassifiedAction(j),
       window |-> ResetOf(j, hinted)]

(* statusOrFallback of internal/probe.                                     *)
statusOrFallback(status) == IF status \in Classics THEN status ELSE 403
=============================================================================
