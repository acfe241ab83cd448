---------------------------- MODULE ExecutionRows ----------------------------
(* The rows of execution_nodes and execution_attempts and what each method of *)
(* ExecutionRepository (src/execution/repository.py) writes into their        *)
(* columns.  Every operator maps the row a method has read to the row it      *)
(* leaves; when the rows are read and written is the business of the modules  *)
(* that use this one.                                                         *)
(*                                                                            *)
(* Data is abstracted to what the protocol tells apart:                       *)
(*   lease_token   a uuid drawn by each claim: the number of the attempt it   *)
(*                 belongs to, 0 for NULL;                                    *)
(*   resume_token  a uuid drawn when a node is created or re-opened: how many *)
(*                 have been drawn, 0 for a node that does not exist yet;     *)
(*   output        output_snapshot/output_fingerprint: the number of the      *)
(*                 attempt that computed them, 0 for NULL;                    *)
(*   lease, next_retry   lease_expires_at and next_retry_at, -1 for NULL.     *)
EXTENDS Integers, FiniteSets

CONSTANTS
  Inputs,          \* input fingerprints
  NoInput,         \* the input of a node that does not exist
  NoWorker,        \* NULL in worker_id
  MaxAttempts      \* RetryPolicy.max_attempts

ASSUME RowsAssumption ==
  /\ NoInput \notin Inputs
  /\ MaxAttempts \in Nat \ {0}

NodeStatus == {"pending", "running", "succeeded", "failed", "retry_wait",
               "human_required", "cancelled", "skipped", "timed_out"}

ErrorDisposition ==
  {"retryable", "human_required", "permanent", "cancelled", "timed_out"}

\* ALLOWED_TRANSITIONS as a set of pairs <<before, after>>.
AllowedTransitions ==
  ({"pending"} \X {"running", "cancelled", "skipped"})
  \cup ({"running"} \X {"succeeded", "failed", "retry_wait", "human_required",
                        "cancelled", "timed_out"})
  \cup ({"retry_wait", "human_required", "failed", "timed_out"}
          \X {"pending", "cancelled"})

\* The states of a node in which no attempt is under way or still to come.
Settled == {"succeeded", "failed", "human_required", "cancelled", "skipped",
            "timed_out"}

------------------------------------------------------------------------------
(* execution_nodes *)

Absent ==
  [status |-> "absent", generation |-> 0, attempt_count |-> 0,
   input |-> NoInput, output |-> 0, worker_id |-> NoWorker, lease_token |-> 0,
   lease |-> -1, next_retry |-> -1, resume_token |-> 0]

CreatedRow(i) ==
  [status |-> "pending", generation |-> 1, attempt_count |-> 0,
   input |-> i, output |-> 0, worker_id |-> NoWorker, lease_token |-> 0,
   lease |-> -1, next_retry |-> -1, resume_token |-> 1]

\* Mutant of InputInvalidates: skipped nodes stay skipped.
InputInvalidates_Succeeded(row, i) == row.status = "succeeded" /\ i # row.input

\* ensure_node leaves a finished node alone unless its input has changed.
InputInvalidates(row, i) == row.status \in {"succeeded", "skipped"} /\ i # row.input

\* Mutant of InputReplaceable: a running node's input is replaced as well.
InputReplaceable_Running(row, i) ==
  row.status \notin {"absent", "succeeded"} /\ ~InputInvalidates(row, i)

\* ensure_node refuses a new input for a running node and replaces the input
\* of every other node that has not succeeded.
InputReplaceable(row, i) ==
  /\ row.status \notin {"absent", "running", "succeeded"}
  /\ ~InputInvalidates(row, i)

ReplacedInputRow(row, i) == [row EXCEPT !.input = i]

\* Mutant of InputInvalidatedRow: the generation stays.
InputInvalidatedRow_SameGeneration(row, i) ==
  [row EXCEPT !.status = "pending", !.input = i, !.output = 0, !.resume_token = @ + 1]

InputInvalidatedRow(row, i) ==
  [row EXCEPT !.status = "pending", !.generation = @ + 1, !.input = i,
              !.output = 0, !.resume_token = @ + 1]

ClaimedRow(row, w, expiry) ==
  [row EXCEPT !.status = "running", !.attempt_count = @ + 1, !.worker_id = w,
              !.lease_token = row.attempt_count + 1, !.lease = expiry,
              !.next_retry = -1]

SucceededRow(row) ==
  [row EXCEPT !.status = "succeeded", !.output = row.attempt_count,
              !.worker_id = NoWorker, !.lease_token = 0, !.lease = -1,
              !.next_retry = -1]

\* Mutant of FailTarget: the disposition is stored as if it were a status.
FailTarget_Raw(row, disposition) ==
  IF disposition \in {"retryable", "timed_out"} /\ row.attempt_count < MaxAttempts
  THEN "retry_wait" ELSE disposition

\* The status `fail` chooses from the classified error.
FailTarget(row, disposition) ==
  CASE disposition \in {"retryable", "timed_out"} /\ row.attempt_count < MaxAttempts
         -> "retry_wait"
    [] disposition \in {"human_required", "cancelled"} -> disposition
    [] disposition = "timed_out" /\ row.attempt_count >= MaxAttempts -> "timed_out"
    [] OTHER -> "failed"

\* `retry` is the time at which the retry is due, had the node to wait for one.
FailedRow(row, disposition, retry) ==
  [row EXCEPT !.status = FailTarget(row, disposition),
              !.worker_id = NoWorker, !.lease_token = 0, !.lease = -1,
              !.next_retry = IF FailTarget(row, disposition) = "retry_wait"
                             THEN retry ELSE -1]

\* Mutant of PromotedRow: a retry starts to count its attempts anew.
PromotedRow_FreshBudget(row) ==
  [row EXCEPT !.status = "pending", !.next_retry = -1, !.attempt_count = 0]

PromotedRow(row) == [row EXCEPT !.status = "pending", !.next_retry = -1]

\* Mutant of RecoveryTarget: one retry too many.
RecoveryTarget_OneMore(row, max_attempts) ==
  IF row.attempt_count <= max_attempts THEN "retry_wait" ELSE "failed"

\* The status `recover_stale` chooses, for the max_attempts its caller passes.
RecoveryTarget(row, max_attempts) ==
  IF row.attempt_count < max_attempts THEN "retry_wait" ELSE "failed"

RecoveredRow(row, max_attempts, retry) ==
  [row EXCEPT !.status = RecoveryTarget(row, max_attempts),
              !.worker_id = NoWorker, !.lease_token = 0, !.lease = -1,
              !.next_retry = IF RecoveryTarget(row, max_attempts) = "retry_wait"
                             THEN retry ELSE -1]

ResultInvalidatedRow(row) ==
  [row EXCEPT !.status = "pending", !.generation = @ + 1, !.output = 0,
              !.resume_token = @ + 1]

\* The three operator requests: the statuses each accepts, and whether it
\* starts a new generation.
Operations == {"resume", "retry", "force_rerun"}

OperationAllows(op) ==
  CASE op = "resume"      -> {"human_required"}
    [] op = "retry"       -> {"failed", "timed_out"}
    [] op = "force_rerun" -> {"succeeded", "skipped", "cancelled"}

\* Mutants of ResetRow: the generation, or the resume token, is not renewed.
ResetRow_SameGeneration(row, op) ==
  [row EXCEPT !.status = "pending", !.next_retry = -1, !.output = 0,
              !.resume_token = @ + 1]
ResetRow_SameToken(row, op) ==
  [row EXCEPT !.status = "pending", !.next_retry = -1, !.output = 0,
              !.generation = IF op = "force_rerun" THEN @ + 1 ELSE @]

ResetRow(row, op) ==
  [row EXCEPT !.status = "pending",
              !.generation = IF op = "force_rerun" THEN @ + 1 ELSE @,
              !.worker_id = NoWorker, !.lease_token = 0, !.lease = -1,
              !.next_retry = -1, !.output = 0, !.resume_token = @ + 1]

SkippedRow(row) == [row EXCEPT !.status = "skipped"]

\* Mutant of Cancellable: whatever is not running is cancelled.
Cancellable_Skipped == NodeStatus \ {"running", "succeeded"}

\* The statuses cancel_run ends; a running node is left to its worker.
Cancellable == {"pending", "retry_wait", "human_required", "failed", "timed_out"}

CancelledRow(row) == [row EXCEPT !.status = "cancelled", !.next_retry = -1]

------------------------------------------------------------------------------
(* execution_attempts *)

AttemptStatus == NodeStatus \cup {"absent", "stale"}

NoAttempt == [status |-> "absent", generation |-> 0, worker_id |-> NoWorker,
              input |-> NoInput]

\* The row that claim inserts for the node row it has just updated.
ClaimedAttempt(row, w) ==
  [status |-> "running", generation |-> row.generation, worker_id |-> w,
   input |-> row.input]

\* finished_at, finish_reason and the error columns follow the status.
FinishedAttempt(a, status) == [a EXCEPT !.status = status]

------------------------------------------------------------------------------
(* aggregate_run_status over the rows of one run *)

\* `rows` is the set of node rows that exist, `exports` those of stage "export";
\* the first status of the list below that some node has decides.
AggregateRunStatus(rows, exports, run_status, export_required) ==
  LET statuses == {r.status : r \in rows}
      Some(S)  == statuses \cap S # {}
  IN  IF Some({"running"})
        THEN IF run_status = "cancel_requested" THEN "cancel_requested" ELSE "running"
      ELSE IF Some({"human_required"})         THEN "human_required"
      ELSE IF Some({"retry_wait", "pending"})  THEN "retry_wait"
      ELSE IF Some({"failed", "timed_out"})    THEN "failed"
      ELSE IF Some({"cancelled"})              THEN "cancelled"
      ELSE IF rows = {}                        THEN "failed"
      ELSE IF export_required /\ exports = {}  THEN "retry_wait"
      ELSE IF export_required /\ \E e \in exports : e.status # "succeeded"
        THEN "failed"
      ELSE "success"

RunStatus == {"running", "cancel_requested", "human_required", "retry_wait",
              "failed", "cancelled", "success"}
=============================================================================
