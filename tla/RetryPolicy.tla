---------------------------- MODULE RetryPolicy -----------------------------
(* What becomes of the error a handler raises: classify_error of              *)
(* execution/policies.py.  An error is what the classification reads of it:   *)
(* its class, its error code, and what its text mentions.                     *)

Error(class, code, mentions) == [class |-> class, code |-> code, mentions |-> mentions]
Plain(class) == Error(class, "", "nothing")

HumanCodes == {"CAPTCHA", "AUTH_REQUIRED", "LOGIN_REQUIRED", "SELLERSPRITE_LOGIN_REQUIRED",
               "PERMISSION_REQUIRED", "SELLERSPRITE_PERMISSION_REQUIRED", "TMD_BLOCKED",
               "UNAUTHORIZED"}
RateCodes == {"RATE_LIMIT", "TOO_MANY_REQUESTS", "HTTP_429"}

\* A Python TimeoutError and a ConnectionError are OSErrors as well.
AsksForPerson(e) ==
  \/ e.class = "HumanActionRequired"
  \/ e.code \in HumanCodes
  \/ e.mentions = "human marker"

TimedOut(e) == e.class \in {"TimeoutError", "PipelineTimeout"} \/ e.code = "DOWNLOAD_TIMEOUT"

Transient(e) ==
  \/ e.class \in {"OSError", "ConnectionError"}
  \/ e.code \in RateCodes
  \/ e.mentions = "rate limit"

\* classify_error: the first rule that fits.
Classified(e) ==
  IF e.class = "CancellationRequested" THEN "cancelled"
  ELSE IF AsksForPerson(e) THEN "human_required"
  ELSE IF TimedOut(e) THEN "timed_out"
  ELSE IF Transient(e) THEN "retryable"
  ELSE "permanent"
=============================================================================
