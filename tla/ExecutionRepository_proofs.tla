---------------------- MODULE ExecutionRepository_proofs ----------------------
(* Proofs about ExecutionRepository for all nodes, workers, inputs and bounds. *)
(* The inductive invariant IInv is a conjunction over the nodes of RowInv, a   *)
(* formula about one row with its attempts and keys.  The first lemmas show    *)
(* that each method's effect on the rows of one node preserves RowInv; the     *)
(* steps of the specification then follow node by node.  The refinement of     *)
(* ExclusiveGrants and the history of attempts and leases come after it.       *)
EXTENDS ExecutionRepository, TLAPS

USE RowsAssumption, RepositoryAssumption

------------------------------------------------------------------------------
(* Rows written by more than one method have the type of rows *)

LEMMA ReopenedRowType ==
  ASSUME NEW row \in NodeRow, NEW g \in Nat, NEW r \in 0 .. (MaxRenewals + 1)
  PROVE  [row EXCEPT !.status = "pending", !.generation = g,
                     !.worker_id = NoWorker, !.lease_token = 0, !.lease = -1,
                     !.next_retry = -1, !.output = 0, !.resume_token = r] \in NodeRow
<1>1. -1 \in -1 .. LeaseTicks
  OBVIOUS
<1>. QED
  BY <1>1 DEF NodeRow, NodeStatus

LEMMA ReleasedRowType ==
  ASSUME NEW row \in NodeRow, NEW s \in NodeStatus, NEW r \in Nat \cup {-1}
  PROVE  [row EXCEPT !.status = s, !.worker_id = NoWorker, !.lease_token = 0,
                     !.lease = -1, !.next_retry = r] \in NodeRow
<1>1. -1 \in -1 .. LeaseTicks
  OBVIOUS
<1>. QED
  BY <1>1 DEF NodeRow

LEMMA TimedRowType ==
  ASSUME NEW row \in NodeRow, NEW l \in -1 .. LeaseTicks, NEW r \in Nat \cup {-1}
  PROVE  [row EXCEPT !.lease = l, !.next_retry = r] \in NodeRow
BY DEF NodeRow

------------------------------------------------------------------------------
(* Methods that write the node's row only *)

\* A newly created node has no attempt, no output and no key.
LEMMA CreatedRowInv ==
  ASSUME NEW row, NEW atts, NEW keys, NEW i \in Inputs,
         RowInv(row, atts, keys), row.status = "absent"
  PROVE  RowInv(CreatedRow(i), atts, keys)
<1>. DEFINE new == CreatedRow(i)
<1>1. new \in NodeRow
  <2>1. -1 \in -1 .. LeaseTicks /\ 1 \in 0 .. (MaxRenewals + 1)
    OBVIOUS
  <2>. QED
    BY <2>1 DEF NodeRow, NodeStatus, CreatedRow
<1>2. RunsItsLatestAttempt(new, atts)
  BY DEF RowInv, RunsItsLatestAttempt, CreatedRow, Absent
<1>3. HasCurrentOutput(new, atts, keys)
  BY DEF RowInv, HasCurrentOutput, CreatedRow, Absent
<1>4. WithinRetryBudget(new)
  BY DEF RowInv, NodeRow, AttemptNos, WithinRetryBudget, CreatedRow, Absent
<1>5. AttemptsNumbered(new, atts)
  BY DEF RowInv, WithinRetryBudget, AttemptsNumbered, CreatedRow, Absent
<1>6. KeysSettled(new, keys)
  BY DEF RowInv, NodeRow, ResultKey, KeysSettled, CreatedRow, Absent
<1>. QED
  BY <1>1, <1>2, <1>3, <1>4, <1>5, <1>6 DEF RowInv

\* A new input reaches a node only while nobody works on it and it has no output.
LEMMA ReplacedInputRowInv ==
  ASSUME NEW row, NEW atts, NEW keys, NEW i \in Inputs,
         RowInv(row, atts, keys), InputReplaceable(row, i)
  PROVE  RowInv(ReplacedInputRow(row, i), atts, keys)
<1>. DEFINE new == ReplacedInputRow(row, i)
<1>1. new \in NodeRow
  BY DEF RowInv, NodeRow, NodeStatus, AttemptNos, InputReplaceable, InputInvalidates, ReplacedInputRow
<1>2. RunsItsLatestAttempt(new, atts)
  BY DEF RowInv, RunsItsLatestAttempt, InputReplaceable, InputInvalidates, ReplacedInputRow
<1>3. HasCurrentOutput(new, atts, keys)
  BY DEF RowInv, HasCurrentOutput, InputReplaceable, InputInvalidates, ReplacedInputRow
<1>4. WithinRetryBudget(new)
  BY DEF RowInv, NodeRow, AttemptNos, WithinRetryBudget, InputReplaceable, InputInvalidates, ReplacedInputRow
<1>5. AttemptsNumbered(new, atts)
  BY DEF RowInv, WithinRetryBudget, AttemptsNumbered, InputReplaceable, InputInvalidates, ReplacedInputRow
<1>6. KeysSettled(new, keys)
  BY DEF RowInv, NodeRow, ResultKey, KeysSettled, InputReplaceable, InputInvalidates, ReplacedInputRow
<1>. QED
  BY <1>1, <1>2, <1>3, <1>4, <1>5, <1>6 DEF RowInv

\* Re-opening a finished node for a new input grants it one more attempt.
LEMMA InputInvalidatedRowInv ==
  ASSUME NEW row, NEW atts, NEW keys, NEW i \in Inputs,
         RowInv(row, atts, keys), InputInvalidates(row, i),
         row.resume_token <= MaxRenewals
  PROVE  RowInv(InputInvalidatedRow(row, i), atts, keys)
<1>. DEFINE new == InputInvalidatedRow(row, i)
<1>1. new \in NodeRow
  <2>1. /\ row \in NodeRow
        /\ row.resume_token + 1 \in 0 .. (MaxRenewals + 1)
        /\ row.generation + 1 \in Nat
    BY DEF RowInv, NodeRow
  <2>. QED
    BY <2>1 DEF NodeRow, NodeStatus, InputInvalidates, InputInvalidatedRow
<1>2. RunsItsLatestAttempt(new, atts)
  BY DEF RowInv, RunsItsLatestAttempt, InputInvalidates, InputInvalidatedRow
<1>3. HasCurrentOutput(new, atts, keys)
  BY DEF RowInv, HasCurrentOutput, InputInvalidates, InputInvalidatedRow
<1>4. WithinRetryBudget(new)
  BY DEF RowInv, NodeRow, AttemptNos, WithinRetryBudget, InputInvalidates, InputInvalidatedRow
<1>5. AttemptsNumbered(new, atts)
  BY DEF RowInv, WithinRetryBudget, AttemptsNumbered, InputInvalidates, InputInvalidatedRow
<1>6. KeysSettled(new, keys)
  BY DEF RowInv, NodeRow, ResultKey, KeysSettled, InputInvalidates, InputInvalidatedRow
<1>. QED
  BY <1>1, <1>2, <1>3, <1>4, <1>5, <1>6 DEF RowInv

\* So does re-opening a node whose result no longer validates.
LEMMA ResultInvalidatedRowInv ==
  ASSUME NEW row, NEW atts, NEW keys, 
         RowInv(row, atts, keys), row.status = "succeeded",
         row.resume_token <= MaxRenewals
  PROVE  RowInv(ResultInvalidatedRow(row), atts, keys)
<1>. DEFINE new == ResultInvalidatedRow(row)
<1>1. new \in NodeRow
  <2>1. /\ row \in NodeRow
        /\ row.resume_token + 1 \in 0 .. (MaxRenewals + 1)
        /\ row.generation + 1 \in Nat
    BY DEF RowInv, NodeRow
  <2>. QED
    BY <2>1 DEF NodeRow, NodeStatus, ResultInvalidatedRow
<1>2. RunsItsLatestAttempt(new, atts)
  BY DEF RowInv, RunsItsLatestAttempt, ResultInvalidatedRow
<1>3. HasCurrentOutput(new, atts, keys)
  BY DEF RowInv, HasCurrentOutput, ResultInvalidatedRow
<1>4. WithinRetryBudget(new)
  BY DEF RowInv, NodeRow, AttemptNos, WithinRetryBudget, ResultInvalidatedRow
<1>5. AttemptsNumbered(new, atts)
  BY DEF RowInv, WithinRetryBudget, AttemptsNumbered, ResultInvalidatedRow
<1>6. KeysSettled(new, keys)
  BY DEF RowInv, NodeRow, ResultKey, KeysSettled, ResultInvalidatedRow
<1>. QED
  BY <1>1, <1>2, <1>3, <1>4, <1>5, <1>6 DEF RowInv

\* So does an operator's request.
LEMMA ResetRowInv ==
  ASSUME NEW row, NEW atts, NEW keys, NEW op \in Operations,
         RowInv(row, atts, keys), row.status \in OperationAllows(op),
         row.resume_token <= MaxRenewals
  PROVE  RowInv(ResetRow(row, op), atts, keys)
<1>. DEFINE new == ResetRow(row, op)
<1>1. new \in NodeRow
  <2>1. /\ row \in NodeRow
        /\ row.resume_token + 1 \in 0 .. (MaxRenewals + 1)
        /\ row.generation + 1 \in Nat
    BY DEF RowInv, NodeRow
  <2>2. (IF op = "force_rerun" THEN row.generation + 1 ELSE row.generation) \in Nat
    BY <2>1 DEF NodeRow
  <2>. QED
    BY <2>1, <2>2, ReopenedRowType DEF ResetRow
<1>2. RunsItsLatestAttempt(new, atts)
  BY DEF RowInv, RunsItsLatestAttempt, Operations, OperationAllows, ResetRow
<1>3. HasCurrentOutput(new, atts, keys)
  BY DEF RowInv, HasCurrentOutput, Operations, OperationAllows, ResetRow
<1>4. WithinRetryBudget(new)
  BY DEF RowInv, NodeRow, AttemptNos, WithinRetryBudget, Operations, OperationAllows, ResetRow
<1>5. AttemptsNumbered(new, atts)
  BY DEF RowInv, WithinRetryBudget, AttemptsNumbered, Operations, OperationAllows, ResetRow
<1>6. KeysSettled(new, keys)
  BY DEF RowInv, NodeRow, ResultKey, KeysSettled, Operations, OperationAllows, ResetRow
<1>. QED
  BY <1>1, <1>2, <1>3, <1>4, <1>5, <1>6 DEF RowInv

\* Skipping leaves everything but the status alone.
LEMMA SkippedRowInv ==
  ASSUME NEW row, NEW atts, NEW keys, 
         RowInv(row, atts, keys), <<row.status, "skipped">> \in AllowedTransitions
  PROVE  RowInv(SkippedRow(row), atts, keys)
<1>. DEFINE new == SkippedRow(row)
<1>0. row.status = "pending"
  BY DEF AllowedTransitions
<1>1. new \in NodeRow
  BY <1>0 DEF RowInv, NodeRow, NodeStatus, AttemptNos, SkippedRow
<1>2. RunsItsLatestAttempt(new, atts)
  BY <1>0 DEF RowInv, RunsItsLatestAttempt, SkippedRow
<1>3. HasCurrentOutput(new, atts, keys)
  BY <1>0 DEF RowInv, HasCurrentOutput, SkippedRow
<1>4. WithinRetryBudget(new)
  BY <1>0 DEF RowInv, NodeRow, AttemptNos, WithinRetryBudget, SkippedRow
<1>5. AttemptsNumbered(new, atts)
  BY <1>0 DEF RowInv, WithinRetryBudget, AttemptsNumbered, SkippedRow
<1>6. KeysSettled(new, keys)
  BY <1>0 DEF RowInv, NodeRow, ResultKey, KeysSettled, SkippedRow
<1>. QED
  BY <1>1, <1>2, <1>3, <1>4, <1>5, <1>6 DEF RowInv

\* Cancelling and promoting write the status and the retry time.
LEMMA CancelledRowInv ==
  ASSUME NEW row, NEW atts, NEW keys, 
         RowInv(row, atts, keys), row.status \in Cancellable
  PROVE  RowInv(CancelledRow(row), atts, keys)
<1>. DEFINE new == CancelledRow(row)
<1>1. new \in NodeRow
  BY DEF RowInv, NodeRow, NodeStatus, AttemptNos, Cancellable, CancelledRow
<1>2. RunsItsLatestAttempt(new, atts)
  BY DEF RowInv, RunsItsLatestAttempt, Cancellable, CancelledRow
<1>3. HasCurrentOutput(new, atts, keys)
  BY DEF RowInv, HasCurrentOutput, Cancellable, CancelledRow
<1>4. WithinRetryBudget(new)
  BY DEF RowInv, NodeRow, AttemptNos, WithinRetryBudget, Cancellable, CancelledRow
<1>5. AttemptsNumbered(new, atts)
  BY DEF RowInv, WithinRetryBudget, AttemptsNumbered, Cancellable, CancelledRow
<1>6. KeysSettled(new, keys)
  BY DEF RowInv, NodeRow, ResultKey, KeysSettled, Cancellable, CancelledRow
<1>. QED
  BY <1>1, <1>2, <1>3, <1>4, <1>5, <1>6 DEF RowInv

\* Promotion needs an attempt left in the budget.
LEMMA PromotedRowInv ==
  ASSUME NEW row, NEW atts, NEW keys, 
         RowInv(row, atts, keys), RetryDue(row)
  PROVE  RowInv(PromotedRow(row), atts, keys)
<1>. DEFINE new == PromotedRow(row)
<1>1. new \in NodeRow
  BY DEF RowInv, NodeRow, NodeStatus, AttemptNos, RetryDue, PromotedRow
<1>2. RunsItsLatestAttempt(new, atts)
  BY DEF RowInv, RunsItsLatestAttempt, RetryDue, PromotedRow
<1>3. HasCurrentOutput(new, atts, keys)
  BY DEF RowInv, HasCurrentOutput, RetryDue, PromotedRow
<1>4. WithinRetryBudget(new)
  BY DEF RowInv, NodeRow, AttemptNos, WithinRetryBudget, RetryDue, PromotedRow
<1>5. AttemptsNumbered(new, atts)
  BY DEF RowInv, WithinRetryBudget, AttemptsNumbered, RetryDue, PromotedRow
<1>6. KeysSettled(new, keys)
  BY DEF RowInv, NodeRow, ResultKey, KeysSettled, RetryDue, PromotedRow
<1>. QED
  BY <1>1, <1>2, <1>3, <1>4, <1>5, <1>6 DEF RowInv

------------------------------------------------------------------------------
(* Methods that write an attempt's row as well *)

\* A claim opens the attempt with the next number, which the budget still allows.
LEMMA ClaimedRowInv ==
  ASSUME NEW row, NEW atts, NEW keys, NEW w \in Workers,
         RowInv(row, atts, keys), row.status = "pending"
  PROVE  /\ row.attempt_count + 1 \in AttemptNos
         /\ RowInv(ClaimedRow(row, w, LeaseTicks),
                   [atts EXCEPT ![row.attempt_count + 1] =
                      ClaimedAttempt(ClaimedRow(row, w, LeaseTicks), w)],
                   keys)
<1>. DEFINE new == ClaimedRow(row, w, LeaseTicks)
            k == row.attempt_count + 1
            newAtts == [atts EXCEPT ![k] = ClaimedAttempt(new, w)]
<1>1. k \in AttemptNos /\ row.attempt_count \in Nat
  BY DEF RowInv, NodeRow, WithinRetryBudget, AttemptNos
<1>2. /\ new.status = "running" /\ new.attempt_count = k /\ new.lease_token = k
      /\ new.worker_id = w /\ new.generation = row.generation
      /\ new.input = row.input /\ new.output = row.output
      /\ new.resume_token = row.resume_token
  BY DEF RowInv, NodeRow, ClaimedRow
<1>3. new \in NodeRow
  <2>1. LeaseTicks \in -1 .. LeaseTicks /\ row \in NodeRow
    BY DEF RowInv
  <2>. QED
    BY <1>1, <2>1 DEF NodeRow, NodeStatus, ClaimedRow
<1>4. ClaimedAttempt(new, w) =
        [status |-> "running", generation |-> row.generation, worker_id |-> w,
         input |-> row.input]
  BY <1>2 DEF ClaimedAttempt
<1>5. newAtts \in [AttemptNos -> AttemptRow]
  BY <1>1, <1>4 DEF RowInv, NodeRow, AttemptRow, AttemptStatus, NodeStatus
<1>6. \A j \in AttemptNos : newAtts[j] = IF j = k THEN ClaimedAttempt(new, w) ELSE atts[j]
  BY <1>1 DEF RowInv
<1>7. RunsItsLatestAttempt(new, newAtts)
  BY <1>1, <1>2, <1>4, <1>6 DEF RowInv, RunsItsLatestAttempt
<1>8. HasCurrentOutput(new, newAtts, keys)
  BY <1>2 DEF RowInv, HasCurrentOutput
<1>9. WithinRetryBudget(new)
  BY <1>1, <1>2 DEF RowInv, NodeRow, WithinRetryBudget
<1>10. AttemptsNumbered(new, newAtts)
  BY <1>1, <1>2, <1>4, <1>6 DEF RowInv, AttemptsNumbered, AttemptNos
<1>11. KeysSettled(new, keys)
  BY <1>2 DEF RowInv, KeysSettled
<1>. QED
  BY <1>1, <1>3, <1>5, <1>7, <1>8, <1>9, <1>10, <1>11 DEF RowInv

\* Success closes the running attempt and writes the result of the row's key.
LEMMA SucceededRowInv ==
  ASSUME NEW row, NEW atts, NEW keys,
         RowInv(row, atts, keys), row.status = "running"
  PROVE  RowInv(SucceededRow(row),
                [atts EXCEPT ![row.attempt_count] = FinishedAttempt(@, "succeeded")],
                keys \cup {[generation |-> row.generation, input |-> row.input]})
<1>. DEFINE new == SucceededRow(row)
            k == row.attempt_count
            newAtts == [atts EXCEPT ![k] = FinishedAttempt(@, "succeeded")]
            newKeys == keys \cup {[generation |-> row.generation, input |-> row.input]}
<1>1. k \in AttemptNos /\ k # 0
  BY DEF RowInv, RunsItsLatestAttempt, AttemptNos
<1>2. /\ new.status = "succeeded" /\ new.attempt_count = k /\ new.lease_token = 0
      /\ new.worker_id = NoWorker /\ new.generation = row.generation
      /\ new.input = row.input /\ new.output = k
      /\ new.resume_token = row.resume_token
  BY DEF RowInv, NodeRow, SucceededRow
<1>3. new \in NodeRow
  <2>1. -1 \in -1 .. LeaseTicks /\ row \in NodeRow
    BY DEF RowInv
  <2>. QED
    BY <1>1, <2>1 DEF NodeRow, NodeStatus, SucceededRow
<1>4. newAtts[k] = [status |-> "succeeded", generation |-> row.generation,
                    worker_id |-> row.worker_id, input |-> row.input]
  BY <1>1 DEF RowInv, RunsItsLatestAttempt, FinishedAttempt
<1>5. \A j \in AttemptNos : j # k => newAtts[j] = atts[j]
  BY <1>1 DEF RowInv
<1>6. newAtts \in [AttemptNos -> AttemptRow]
  BY <1>1, <1>4, <1>5 DEF RowInv, NodeRow, AttemptRow, AttemptStatus, NodeStatus
<1>7. newKeys \in SUBSET ResultKey
  BY DEF RowInv, NodeRow, ResultKey
<1>8. RunsItsLatestAttempt(new, newAtts)
  BY <1>1, <1>2, <1>4, <1>5 DEF RowInv, RunsItsLatestAttempt
<1>9. HasCurrentOutput(new, newAtts, newKeys)
  BY <1>1, <1>2, <1>4 DEF HasCurrentOutput
<1>10. WithinRetryBudget(new)
  BY <1>2 DEF RowInv, WithinRetryBudget
<1>11. AttemptsNumbered(new, newAtts)
  BY <1>1, <1>2, <1>4, <1>5 DEF RowInv, AttemptsNumbered, AttemptNos
<1>12. KeysSettled(new, newKeys)
  BY <1>2 DEF RowInv, NodeRow, KeysSettled
<1>. QED
  BY <1>3, <1>6, <1>7, <1>8, <1>9, <1>10, <1>11, <1>12 DEF RowInv

\* Failure closes the running attempt; it leaves a retry only within the budget.
LEMMA FailedRowInv ==
  ASSUME NEW row, NEW atts, NEW keys, NEW disposition \in ErrorDisposition,
         NEW backoff \in Backoffs,
         RowInv(row, atts, keys), row.status = "running"
  PROVE  RowInv(FailedRow(row, disposition, backoff),
                [atts EXCEPT ![row.attempt_count] = FinishedAttempt(@, FailTarget(row, disposition))],
                keys)
<1>. DEFINE new == FailedRow(row, disposition, backoff)
            k == row.attempt_count
            newAtts == [atts EXCEPT ![k] = FinishedAttempt(@, FailTarget(row, disposition))]
<1>1. k \in AttemptNos /\ k # 0 /\ row.output = 0
  BY DEF RowInv, RunsItsLatestAttempt, HasCurrentOutput, AttemptNos
<1>2. /\ backoff \in Nat
      /\ FailTarget(row, disposition) \in
           {"failed", "retry_wait", "human_required", "cancelled", "timed_out"}
      /\ FailTarget(row, disposition) = "retry_wait" => row.attempt_count < MaxAttempts
  BY DEF FailTarget, ErrorDisposition
<1>3. /\ new.attempt_count = k /\ new.lease_token = 0
      /\ new.worker_id = NoWorker /\ new.generation = row.generation
      /\ new.input = row.input /\ new.output = 0
      /\ new.resume_token = row.resume_token
      /\ new.status \notin {"running", "succeeded", "pending", "absent"}
      /\ new.status = "retry_wait" => k < MaxAttempts /\ new.next_retry # -1
  BY <1>1, <1>2 DEF RowInv, NodeRow, FailedRow
<1>4. new \in NodeRow
  <2>1. row \in NodeRow /\ FailTarget(row, disposition) \in NodeStatus
    BY <1>2 DEF RowInv, NodeStatus
  <2>2. (IF FailTarget(row, disposition) = "retry_wait" THEN backoff ELSE -1) \in Nat \cup {-1}
    BY <1>2
  <2>. QED
    BY <2>1, <2>2, ReleasedRowType DEF FailedRow
<1>5. newAtts[k] = [status |-> FailTarget(row, disposition), generation |-> row.generation,
                    worker_id |-> row.worker_id, input |-> row.input]
  BY <1>1 DEF RowInv, RunsItsLatestAttempt, FinishedAttempt
<1>6. \A j \in AttemptNos : j # k => newAtts[j] = atts[j]
  BY <1>1 DEF RowInv
<1>7. newAtts \in [AttemptNos -> AttemptRow]
  BY <1>1, <1>2, <1>5, <1>6 DEF RowInv, NodeRow, AttemptRow, AttemptStatus, NodeStatus
<1>8. RunsItsLatestAttempt(new, newAtts)
  BY <1>1, <1>2, <1>3, <1>5, <1>6 DEF RowInv, RunsItsLatestAttempt
<1>9. HasCurrentOutput(new, newAtts, keys)
  BY <1>3 DEF HasCurrentOutput
<1>10. WithinRetryBudget(new)
  BY <1>3 DEF RowInv, WithinRetryBudget
<1>11. AttemptsNumbered(new, newAtts)
  BY <1>1, <1>2, <1>3, <1>5, <1>6 DEF RowInv, AttemptsNumbered, AttemptNos
<1>12. KeysSettled(new, keys)
  BY <1>3 DEF RowInv, KeysSettled
<1>. QED
  BY <1>4, <1>7, <1>8, <1>9, <1>10, <1>11, <1>12 DEF RowInv

\* Recovery of a stale lease closes the attempt as "stale" in the same way.
LEMMA RecoveredRowInv ==
  ASSUME NEW row, NEW atts, NEW keys, NEW m \in 1 .. MaxAttempts,
         NEW backoff \in Backoffs,
         RowInv(row, atts, keys), row.status = "running"
  PROVE  RowInv(RecoveredRow(row, m, backoff),
                [atts EXCEPT ![row.attempt_count] = FinishedAttempt(@, "stale")],
                keys)
<1>. DEFINE new == RecoveredRow(row, m, backoff)
            k == row.attempt_count
            newAtts == [atts EXCEPT ![k] = FinishedAttempt(@, "stale")]
<1>1. k \in AttemptNos /\ k # 0 /\ row.output = 0
  BY DEF RowInv, RunsItsLatestAttempt, HasCurrentOutput, AttemptNos
<1>2. /\ backoff \in Nat
      /\ RecoveryTarget(row, m) \in {"failed", "retry_wait"}
      /\ RecoveryTarget(row, m) = "retry_wait" => row.attempt_count < MaxAttempts
  BY <1>1 DEF RecoveryTarget, AttemptNos
<1>3. /\ new.attempt_count = k /\ new.lease_token = 0
      /\ new.worker_id = NoWorker /\ new.generation = row.generation
      /\ new.input = row.input /\ new.output = 0
      /\ new.resume_token = row.resume_token
      /\ new.status \notin {"running", "succeeded", "pending", "absent"}
      /\ new.status = "retry_wait" => k < MaxAttempts /\ new.next_retry # -1
  BY <1>1, <1>2 DEF RowInv, NodeRow, RecoveredRow
<1>4. new \in NodeRow
  <2>1. row \in NodeRow /\ RecoveryTarget(row, m) \in NodeStatus
    BY <1>2 DEF RowInv, NodeStatus
  <2>2. (IF RecoveryTarget(row, m) = "retry_wait" THEN backoff ELSE -1) \in Nat \cup {-1}
    BY <1>2
  <2>. QED
    BY <2>1, <2>2, ReleasedRowType DEF RecoveredRow
<1>5. newAtts[k] = [status |-> "stale", generation |-> row.generation,
                    worker_id |-> row.worker_id, input |-> row.input]
  BY <1>1 DEF RowInv, RunsItsLatestAttempt, FinishedAttempt
<1>6. \A j \in AttemptNos : j # k => newAtts[j] = atts[j]
  BY <1>1 DEF RowInv
<1>7. newAtts \in [AttemptNos -> AttemptRow]
  BY <1>1, <1>2, <1>5, <1>6 DEF RowInv, NodeRow, AttemptRow, AttemptStatus, NodeStatus
<1>8. RunsItsLatestAttempt(new, newAtts)
  BY <1>1, <1>2, <1>3, <1>5, <1>6 DEF RowInv, RunsItsLatestAttempt
<1>9. HasCurrentOutput(new, newAtts, keys)
  BY <1>3 DEF HasCurrentOutput
<1>10. WithinRetryBudget(new)
  BY <1>3 DEF RowInv, WithinRetryBudget
<1>11. AttemptsNumbered(new, newAtts)
  BY <1>1, <1>2, <1>3, <1>5, <1>6 DEF RowInv, AttemptsNumbered, AttemptNos
<1>12. KeysSettled(new, keys)
  BY <1>3 DEF RowInv, KeysSettled
<1>. QED
  BY <1>4, <1>7, <1>8, <1>9, <1>10, <1>11, <1>12 DEF RowInv

------------------------------------------------------------------------------
(* The inductive invariant *)

\* The passing of time moves no status, lease token or counter.
LEMMA TickedRowInv ==
  ASSUME NEW row, NEW atts, NEW keys, RowInv(row, atts, keys)
  PROVE  RowInv(TickedRow(row), atts, keys)
<1>. DEFINE new == TickedRow(row)
<1>1. /\ row \in NodeRow
      /\ (IF row.lease >= 0 THEN row.lease - 1 ELSE row.lease) \in -1 .. LeaseTicks
      /\ (IF row.next_retry > 0 THEN row.next_retry - 1 ELSE row.next_retry)
           \in Nat \cup {-1}
      /\ row.next_retry # -1 =>
           (IF row.next_retry > 0 THEN row.next_retry - 1 ELSE row.next_retry) # -1
  BY DEF RowInv, NodeRow
<1>2. new \in NodeRow
  BY <1>1, TimedRowType DEF TickedRow
<1>3. /\ new.status = row.status /\ new.attempt_count = row.attempt_count
      /\ new.lease_token = row.lease_token /\ new.worker_id = row.worker_id
      /\ new.generation = row.generation /\ new.input = row.input
      /\ new.output = row.output /\ new.resume_token = row.resume_token
      /\ row.next_retry # -1 => new.next_retry # -1
  BY <1>1 DEF NodeRow, TickedRow
<1>. QED
  BY <1>2, <1>3
  DEF RowInv, RunsItsLatestAttempt, HasCurrentOutput, WithinRetryBudget,
      AttemptsNumbered, KeysSettled

\* How a step preserves IInv: every node keeps RowInv, no attempt_count shrinks,
\* the attempts opened so far keep their generation and worker, and every claim
\* is an old one or names an attempt opened for it.
LEMMA StepInv ==
  ASSUME IInv,
         run' \in RunStatus,
         node' = [n \in Nodes |-> node'[n]],
         attempt' = [n \in Nodes |-> attempt'[n]],
         results' = [n \in Nodes |-> results'[n]],
         claim' \in [Workers -> Claim \cup {NoClaim}],
         \A n \in Nodes :
           /\ RowInv(node'[n], attempt'[n], results'[n])
           /\ node'[n].attempt_count >= node[n].attempt_count
           /\ \A k \in AttemptNos : k <= node[n].attempt_count =>
                /\ attempt'[n][k].generation = attempt[n][k].generation
                /\ attempt'[n][k].worker_id = attempt[n][k].worker_id,
         \A w \in Workers : claim'[w] # NoClaim =>
           claim'[w] = claim[w] \/ ClaimInv(w, claim[w])'
  PROVE  IInv'
<1>1. TypeOK'
  BY DEF IInv, TypeOK, RowInv
<1>2. ASSUME NEW w \in Workers, claim'[w] # NoClaim, claim'[w] = claim[w]
      PROVE  ClaimInv(w, claim[w])'
  <2>1. claim[w] \in Claim /\ ClaimInv(w, claim[w])
    BY <1>2 DEF IInv, TypeOK
  <2>2. /\ claim[w].node \in Nodes /\ claim[w].attempt_no \in AttemptNos
        /\ claim[w].attempt_no \in Int
    BY <2>1 DEF Claim, AttemptNos
  <2>3. /\ node[claim[w].node] \in NodeRow
        /\ node'[claim[w].node] \in NodeRow
    BY <2>2 DEF IInv, RowInv
  <2>4. /\ node[claim[w].node].attempt_count \in Int
        /\ node'[claim[w].node].attempt_count \in Int
    BY <2>3 DEF NodeRow, AttemptNos
  <2>. QED
    BY <1>2, <2>1, <2>2, <2>4 DEF ClaimInv
<1>. QED
  BY <1>1, <1>2 DEF IInv

\* The initial state has no rows.
LEMMA InitInv == Init => IInv
<1>. SUFFICES ASSUME Init PROVE IInv
  OBVIOUS
<1>1. Absent \in NodeRow /\ NoAttempt \in AttemptRow
  <2>1. -1 \in -1 .. LeaseTicks /\ 0 \in 0 .. (MaxRenewals + 1)
    OBVIOUS
  <2>. QED
    BY <2>1 DEF Absent, NoAttempt, NodeRow, AttemptRow, AttemptStatus
<1>2. TypeOK
  BY <1>1 DEF Init, TypeOK, RunStatus
<1>3. ASSUME NEW n \in Nodes PROVE RowInv(node[n], attempt[n], results[n])
  BY <1>1, <1>2, <1>3
  DEF Init, TypeOK, RowInv, RunsItsLatestAttempt, HasCurrentOutput,
      WithinRetryBudget, AttemptsNumbered, KeysSettled, Absent, NoAttempt, AttemptNos
<1>. QED
  BY <1>2, <1>3 DEF Init, IInv

\* A step that writes one node's row and nothing else.
LEMMA RowStepInv ==
  ASSUME IInv, NEW n \in Nodes, NEW row,
         SetNode(n, row), UNCHANGED <<attempt, results, run, claim>>,
         RowInv(row, attempt[n], results[n]),
         row.attempt_count = node[n].attempt_count
  PROVE  IInv'
<1>1. /\ node \in [Nodes -> NodeRow] /\ attempt \in [Nodes -> [AttemptNos -> AttemptRow]]
      /\ results \in [Nodes -> SUBSET ResultKey] /\ run \in RunStatus
      /\ claim \in [Workers -> Claim \cup {NoClaim}]
  BY DEF IInv, TypeOK
<1>2. /\ node' = [m \in Nodes |-> node'[m]] /\ node'[n] = row
      /\ \A m \in Nodes : m # n => node'[m] = node[m]
  BY <1>1 DEF SetNode
<1>3. ASSUME NEW m \in Nodes
      PROVE  /\ RowInv(node'[m], attempt'[m], results'[m])
             /\ node'[m].attempt_count >= node[m].attempt_count
  <2>1. node[m] \in NodeRow /\ node[m].attempt_count \in Int
    BY <1>1 DEF NodeRow, AttemptNos
  <2>2. RowInv(node[m], attempt[m], results[m])
    BY DEF IInv
  <2>. QED
    BY <1>2, <2>1, <2>2
<1>. QED
  BY <1>1, <1>2, <1>3, StepInv

\* ensure_node in its three cases, the invalidations, the requests and skipping.
LEMMA RowActionsInv ==
  ASSUME IInv, NEW n \in Nodes,
         \/ \E i \in Inputs :
              CreateNode(n, i) \/ ReplaceInput(n, i) \/ InvalidateForInputChange(n, i)
         \/ InvalidateSucceeded(n)
         \/ \E op \in Operations : ResetToPending(n, op)
         \/ MarkSkipped(n)
  PROVE  IInv'
<1>1. RowInv(node[n], attempt[n], results[n]) /\ node[n] \in NodeRow
  BY DEF IInv, RowInv
<1>2. ASSUME NEW i \in Inputs, CreateNode(n, i) PROVE IInv'
  <2>1. CreatedRow(i).attempt_count = node[n].attempt_count
    BY <1>1, <1>2 DEF CreateNode, CreatedRow, RowInv, WithinRetryBudget
  <2>. QED
    BY <1>1, <1>2, <2>1, CreatedRowInv, RowStepInv DEF CreateNode
<1>3. ASSUME NEW i \in Inputs, ReplaceInput(n, i) PROVE IInv'
  <2>1. ReplacedInputRow(node[n], i).attempt_count = node[n].attempt_count
    BY <1>1 DEF NodeRow, ReplacedInputRow
  <2>. QED
    BY <1>1, <1>3, <2>1, ReplacedInputRowInv, RowStepInv DEF ReplaceInput
<1>4. ASSUME NEW i \in Inputs, InvalidateForInputChange(n, i) PROVE IInv'
  <2>1. InputInvalidatedRow(node[n], i).attempt_count = node[n].attempt_count
    BY <1>1 DEF NodeRow, InputInvalidatedRow
  <2>. QED
    BY <1>1, <1>4, <2>1, InputInvalidatedRowInv, RowStepInv
    DEF InvalidateForInputChange, Renewable
<1>5. ASSUME InvalidateSucceeded(n) PROVE IInv'
  <2>1. ResultInvalidatedRow(node[n]).attempt_count = node[n].attempt_count
    BY <1>1 DEF NodeRow, ResultInvalidatedRow
  <2>. QED
    BY <1>1, <1>5, <2>1, ResultInvalidatedRowInv, RowStepInv
    DEF InvalidateSucceeded, Renewable
<1>6. ASSUME NEW op \in Operations, ResetToPending(n, op) PROVE IInv'
  <2>1. ResetRow(node[n], op).attempt_count = node[n].attempt_count
    BY <1>1 DEF NodeRow, ResetRow
  <2>. QED
    BY <1>1, <1>6, <2>1, ResetRowInv, RowStepInv DEF ResetToPending, Renewable
<1>7. ASSUME MarkSkipped(n) PROVE IInv'
  <2>1. SkippedRow(node[n]).attempt_count = node[n].attempt_count
    BY <1>1 DEF NodeRow, SkippedRow
  <2>. QED
    BY <1>1, <1>7, <2>1, SkippedRowInv, RowStepInv DEF MarkSkipped
<1>. QED
  BY <1>2, <1>3, <1>4, <1>5, <1>6, <1>7

\* Steps that write the rows of any number of nodes, but nothing in the other
\* tables.
LEMMA BulkStepInv ==
  ASSUME IInv, run' \in RunStatus, UNCHANGED <<attempt, results, claim>>,
         node' = [n \in Nodes |-> node'[n]],
         \A n \in Nodes :
           /\ RowInv(node'[n], attempt[n], results[n])
           /\ node'[n].attempt_count = node[n].attempt_count
  PROVE  IInv'
<1>1. /\ node \in [Nodes -> NodeRow] /\ attempt \in [Nodes -> [AttemptNos -> AttemptRow]]
      /\ results \in [Nodes -> SUBSET ResultKey]
      /\ claim \in [Workers -> Claim \cup {NoClaim}]
  BY DEF IInv, TypeOK
<1>2. ASSUME NEW n \in Nodes PROVE node'[n].attempt_count >= node[n].attempt_count
  <2>1. node[n].attempt_count \in {0} \cup AttemptNos
    BY <1>1 DEF NodeRow
  <2>2. node[n].attempt_count \in Int
    BY <2>1 DEF AttemptNos
  <2>. QED
    BY <2>2
<1>. QED
  BY <1>1, <1>2, StepInv

LEMMA PromoteInv == ASSUME IInv, PromoteDueRetries PROVE IInv'
<1>1. ASSUME NEW n \in Nodes
      PROVE  /\ RowInv(node'[n], attempt[n], results[n])
             /\ node'[n].attempt_count = node[n].attempt_count
  <2>1. RowInv(node[n], attempt[n], results[n]) /\ node[n] \in NodeRow
    BY DEF IInv, RowInv
  <2>2. PromotedRow(node[n]).attempt_count = node[n].attempt_count
    BY <2>1 DEF NodeRow, PromotedRow
  <2>. QED
    BY <2>1, <2>2, PromotedRowInv DEF PromoteDueRetries
<1>. QED
  BY <1>1, BulkStepInv DEF PromoteDueRetries, IInv, TypeOK

LEMMA CancelInv == ASSUME IInv, CancelRun PROVE IInv'
<1>1. ASSUME NEW n \in Nodes
      PROVE  /\ RowInv(node'[n], attempt[n], results[n])
             /\ node'[n].attempt_count = node[n].attempt_count
  <2>1. RowInv(node[n], attempt[n], results[n]) /\ node[n] \in NodeRow
    BY DEF IInv, RowInv
  <2>2. CancelledRow(node[n]).attempt_count = node[n].attempt_count
    BY <2>1 DEF NodeRow, CancelledRow
  <2>. QED
    BY <2>1, <2>2, CancelledRowInv DEF CancelRun
<1>. QED
  BY <1>1, BulkStepInv DEF CancelRun, RunStatus

LEMMA TickInv == ASSUME IInv, Tick PROVE IInv'
<1>1. ASSUME NEW n \in Nodes
      PROVE  /\ RowInv(node'[n], attempt[n], results[n])
             /\ node'[n].attempt_count = node[n].attempt_count
  <2>1. RowInv(node[n], attempt[n], results[n]) /\ node[n] \in NodeRow
    BY DEF IInv, RowInv
  <2>2. TickedRow(node[n]).attempt_count = node[n].attempt_count
    BY <2>1 DEF NodeRow, TickedRow
  <2>. QED
    BY <2>1, <2>2, TickedRowInv DEF Tick
<1>. QED
  BY <1>1, BulkStepInv DEF Tick, IInv, TypeOK

LEMMA UpdateRunStatusInv ==
  ASSUME IInv, NEW export_required \in BOOLEAN, UpdateRunStatus(export_required)
  PROVE  IInv'
<1>1. run' \in RunStatus
  BY DEF UpdateRunStatus, AggregateRunStatus, RunStatus
<1>2. ASSUME NEW n \in Nodes PROVE RowInv(node[n], attempt[n], results[n])
  BY DEF IInv
<1>. QED
  BY <1>1, <1>2, BulkStepInv DEF UpdateRunStatus, IInv, TypeOK

------------------------------------------------------------------------------
(* Claims *)

\* A claim opens the next attempt of a pending node and remembers it.
LEMMA ClaimStepInv ==
  ASSUME IInv, NEW w \in Workers, NEW n \in Nodes, ClaimNode(w, n)
  PROVE  IInv'
<1>. DEFINE row == ClaimedRow(node[n], w, LeaseTicks)
            k == node[n].attempt_count + 1
<1>1. /\ node \in [Nodes -> NodeRow] /\ attempt \in [Nodes -> [AttemptNos -> AttemptRow]]
      /\ results \in [Nodes -> SUBSET ResultKey] /\ run \in RunStatus
      /\ claim \in [Workers -> Claim \cup {NoClaim}]
      /\ RowInv(node[n], attempt[n], results[n]) /\ node[n].status = "pending"
  BY DEF IInv, TypeOK, ClaimNode
<1>2. /\ row.attempt_count = k /\ row.generation = node[n].generation
      /\ row.input = node[n].input /\ row.generation \in Nat
  <2>1. node[n] \in NodeRow
    BY <1>1
  <2>. QED
    BY <2>1 DEF ClaimedRow, NodeRow
<1>3. /\ k \in AttemptNos
      /\ RowInv(row, [attempt[n] EXCEPT ![k] = ClaimedAttempt(row, w)], results[n])
  BY <1>1, ClaimedRowInv
<1>4. /\ node' = [node EXCEPT ![n] = row]
      /\ attempt' = [attempt EXCEPT ![n][k] = ClaimedAttempt(row, w)]
      /\ claim' = [claim EXCEPT ![w] =
           [node |-> n, attempt_no |-> k, generation |-> row.generation]]
      /\ UNCHANGED <<results, run>>
  BY <1>2 DEF ClaimNode, SetNode
<1>5. /\ node'[n] = row /\ attempt'[n] = [attempt[n] EXCEPT ![k] = ClaimedAttempt(row, w)]
      /\ attempt'[n][k] = ClaimedAttempt(row, w)
      /\ \A j \in AttemptNos : j # k => attempt'[n][j] = attempt[n][j]
      /\ \A m \in Nodes : m # n => node'[m] = node[m] /\ attempt'[m] = attempt[m]
      /\ node' = [m \in Nodes |-> node'[m]]
      /\ attempt' = [m \in Nodes |-> attempt'[m]]
      /\ results' = [m \in Nodes |-> results'[m]]
  BY <1>1, <1>3, <1>4
<1>6. node[n].attempt_count \in Nat
  BY <1>1, <1>3 DEF AttemptNos, NodeRow
<1>7. ASSUME NEW m \in Nodes
      PROVE  /\ RowInv(node'[m], attempt'[m], results'[m])
             /\ node'[m].attempt_count >= node[m].attempt_count
             /\ \A j \in AttemptNos : j <= node[m].attempt_count =>
                  /\ attempt'[m][j].generation = attempt[m][j].generation
                  /\ attempt'[m][j].worker_id = attempt[m][j].worker_id
  <2>1. CASE m = n
    BY <1>2, <1>3, <1>4, <1>5, <1>6, <2>1
  <2>2. CASE m # n
    <3>1. node[m] \in NodeRow /\ RowInv(node[m], attempt[m], results[m])
      BY DEF IInv, RowInv
    <3>2. node[m].attempt_count \in {0} \cup AttemptNos
      BY <3>1 DEF NodeRow
    <3>3. node[m].attempt_count \in Int
      BY <3>2 DEF AttemptNos
    <3>. QED
      BY <1>4, <1>5, <2>2, <3>1, <3>3
  <2>. QED
    BY <2>1, <2>2
<1>8. claim' \in [Workers -> Claim \cup {NoClaim}]
  BY <1>1, <1>2, <1>3, <1>4 DEF Claim
<1>9. ASSUME NEW v \in Workers, claim'[v] # NoClaim
      PROVE  claim'[v] = claim[v] \/ ClaimInv(v, claim[v])'
  <2>1. CASE v = w
    <3>1. claim'[v] = [node |-> n, attempt_no |-> k, generation |-> row.generation]
      BY <1>1, <1>4, <2>1
    <3>2. /\ claim'[v].node = n /\ claim'[v].attempt_no = k
          /\ claim'[v].generation = row.generation
      BY <3>1
    <3>3. /\ attempt'[n][k].generation = row.generation
          /\ attempt'[n][k].worker_id = w
      BY <1>5 DEF ClaimedAttempt
    <3>4. k <= node'[n].attempt_count
      BY <1>2, <1>5, <1>6
    <3>. QED
      BY <2>1, <3>2, <3>3, <3>4 DEF ClaimInv
  <2>2. CASE v # w
    BY <1>1, <1>4, <2>2
  <2>. QED
    BY <2>1, <2>2
<1>10. run' \in RunStatus
  BY <1>1, <1>4
<1>. QED
  BY <1>5, <1>7, <1>8, <1>9, <1>10, StepInv

\* What a worker that still holds the lease knows of its node.
LEMMA LeaseHolder ==
  ASSUME IInv, NEW w \in Workers, HoldsLease(w)
  PROVE  /\ claim[w] \in Claim
         /\ node[claim[w].node].status = "running"
         /\ claim[w].attempt_no = node[claim[w].node].attempt_count
         /\ RowInv(node[claim[w].node], attempt[claim[w].node], results[claim[w].node])
<1>1. claim[w] \in Claim
  BY DEF HoldsLease, IInv, TypeOK
<1>2. claim[w].node \in Nodes
  BY <1>1 DEF Claim
<1>3. RowInv(node[claim[w].node], attempt[claim[w].node], results[claim[w].node])
  BY <1>2 DEF IInv
<1>. QED
  BY <1>1, <1>3 DEF HoldsLease, LockedNode, RowInv, RunsItsLatestAttempt

\* A worker ends its claim by writing the rows of its node, the attempt of the
\* claim and possibly a result key.
LEMMA FinishStepInv ==
  ASSUME IInv, NEW w \in Workers, NEW n \in Nodes, NEW k \in AttemptNos,
         NEW row, NEW status, NEW keys,
         row.attempt_count = node[n].attempt_count,
         RowInv(row, [attempt[n] EXCEPT ![k] = FinishedAttempt(@, status)], keys),
         SetNode(n, row), FinishAttempt(n, k, status),
         results' = [results EXCEPT ![n] = keys],
         claim' = [claim EXCEPT ![w] = NoClaim], UNCHANGED run
  PROVE  IInv'
<1>1. /\ node \in [Nodes -> NodeRow] /\ attempt \in [Nodes -> [AttemptNos -> AttemptRow]]
      /\ results \in [Nodes -> SUBSET ResultKey] /\ run \in RunStatus
      /\ claim \in [Workers -> Claim \cup {NoClaim}]
  BY DEF IInv, TypeOK
<1>2. /\ node'[n] = row
      /\ attempt'[n] = [attempt[n] EXCEPT ![k] = FinishedAttempt(@, status)]
      /\ results'[n] = keys
      /\ \A m \in Nodes : m # n =>
           node'[m] = node[m] /\ attempt'[m] = attempt[m] /\ results'[m] = results[m]
      /\ node' = [m \in Nodes |-> node'[m]]
      /\ attempt' = [m \in Nodes |-> attempt'[m]]
      /\ results' = [m \in Nodes |-> results'[m]]
  BY <1>1 DEF SetNode, FinishAttempt
<1>3. \A j \in AttemptNos :
         /\ attempt'[n][j].generation = attempt[n][j].generation
         /\ attempt'[n][j].worker_id = attempt[n][j].worker_id
  <2>1. ASSUME NEW j \in AttemptNos
        PROVE  attempt'[n][j] = IF j = k THEN FinishedAttempt(attempt[n][j], status)
                                         ELSE attempt[n][j]
    BY <1>1, <1>2
  <2>2. ASSUME NEW j \in AttemptNos PROVE attempt[n][j] \in AttemptRow
    BY <1>1
  <2>. QED
    BY <2>1, <2>2 DEF FinishedAttempt, AttemptRow
<1>4. ASSUME NEW m \in Nodes
      PROVE  /\ RowInv(node'[m], attempt'[m], results'[m])
             /\ node'[m].attempt_count >= node[m].attempt_count
             /\ \A j \in AttemptNos : j <= node[m].attempt_count =>
                  /\ attempt'[m][j].generation = attempt[m][j].generation
                  /\ attempt'[m][j].worker_id = attempt[m][j].worker_id
  <2>1. node[m] \in NodeRow /\ RowInv(node[m], attempt[m], results[m])
    BY DEF IInv, RowInv
  <2>2. node[m].attempt_count \in {0} \cup AttemptNos
    BY <2>1 DEF NodeRow
  <2>3. node[m].attempt_count \in Int
    BY <2>2 DEF AttemptNos
  <2>4. CASE m = n
    <3>1. RowInv(node'[n], attempt'[n], results'[n])
      BY <1>2
    <3>2. node'[n].attempt_count >= node[n].attempt_count
      BY <1>2, <2>3, <2>4
    <3>. QED
      BY <1>3, <2>4, <3>1, <3>2
  <2>5. CASE m # n
    BY <1>2, <2>1, <2>3, <2>5
  <2>. QED
    BY <2>4, <2>5
<1>5. claim' \in [Workers -> Claim \cup {NoClaim}]
  BY <1>1
<1>6. ASSUME NEW v \in Workers, claim'[v] # NoClaim PROVE claim'[v] = claim[v]
  BY <1>1, <1>6
<1>. QED
  BY <1>1, <1>2, <1>4, <1>5, <1>6, StepInv

LEMMA SucceedInv ==
  ASSUME IInv, NEW w \in Workers, Succeed(w)
  PROVE  IInv'
<1>. DEFINE n == claim[w].node
            k == claim[w].attempt_no
            key == [generation |-> node[n].generation, input |-> node[n].input]
<1>1. /\ n \in Nodes /\ k \in AttemptNos /\ k = node[n].attempt_count
      /\ node[n].status = "running" /\ RowInv(node[n], attempt[n], results[n])
  BY LeaseHolder DEF Succeed, Claim
<1>2. RowInv(SucceededRow(node[n]),
             [attempt[n] EXCEPT ![k] = FinishedAttempt(@, "succeeded")],
             results[n] \cup {key})
  BY <1>1, SucceededRowInv
<1>3. SucceededRow(node[n]).attempt_count = node[n].attempt_count
  BY <1>1 DEF RowInv, NodeRow, SucceededRow
<1>4. /\ SetNode(n, SucceededRow(node[n])) /\ FinishAttempt(n, k, "succeeded")
      /\ results' = [results EXCEPT ![n] = results[n] \cup {key}]
      /\ claim' = [claim EXCEPT ![w] = NoClaim] /\ UNCHANGED run
  BY DEF Succeed
<1>. QED
  BY <1>1, <1>2, <1>3, <1>4, FinishStepInv

LEMMA FailInv ==
  ASSUME IInv, NEW w \in Workers, NEW disposition \in ErrorDisposition,
         NEW backoff \in Backoffs, Fail(w, disposition, backoff)
  PROVE  IInv'
<1>. DEFINE n == claim[w].node
            k == claim[w].attempt_no
            target == FailTarget(node[n], disposition)
<1>1. /\ n \in Nodes /\ k \in AttemptNos /\ k = node[n].attempt_count
      /\ node[n].status = "running" /\ RowInv(node[n], attempt[n], results[n])
  BY LeaseHolder DEF Fail, Claim
<1>2. RowInv(FailedRow(node[n], disposition, backoff),
             [attempt[n] EXCEPT ![k] = FinishedAttempt(@, target)], results[n])
  BY <1>1, FailedRowInv
<1>3. FailedRow(node[n], disposition, backoff).attempt_count = node[n].attempt_count
  BY <1>1 DEF RowInv, NodeRow, FailedRow
<1>4. /\ SetNode(n, FailedRow(node[n], disposition, backoff)) /\ FinishAttempt(n, k, target)
      /\ results' = [results EXCEPT ![n] = results[n]]
      /\ claim' = [claim EXCEPT ![w] = NoClaim] /\ UNCHANGED run
  BY DEF Fail, IInv, TypeOK
<1>. QED
  BY <1>1, <1>2, <1>3, <1>4, FinishStepInv

LEMMA DropClaimInv ==
  ASSUME IInv, NEW w \in Workers, DropClaim(w)
  PROVE  IInv'
BY DEF IInv, TypeOK, DropClaim, ClaimInv

\* A heartbeat renews the time left on a lease that has not expired.
LEMMA HeartbeatInv ==
  ASSUME IInv, NEW w \in Workers, Heartbeat(w)
  PROVE  IInv'
<1>. DEFINE n == claim[w].node
            row == [node[n] EXCEPT !.lease = LeaseTicks]
<1>1. n \in Nodes /\ RowInv(node[n], attempt[n], results[n]) /\ node[n] \in NodeRow
  BY LeaseHolder DEF Heartbeat, Claim, RowInv
<1>2. row \in NodeRow
  <2>1. LeaseTicks \in -1 .. LeaseTicks
    OBVIOUS
  <2>. QED
    BY <1>1, <2>1 DEF NodeRow
<1>3. /\ row.status = node[n].status /\ row.attempt_count = node[n].attempt_count
      /\ row.lease_token = node[n].lease_token /\ row.worker_id = node[n].worker_id
      /\ row.generation = node[n].generation /\ row.input = node[n].input
      /\ row.output = node[n].output /\ row.resume_token = node[n].resume_token
      /\ row.next_retry = node[n].next_retry
  BY <1>1 DEF NodeRow
<1>4. RowInv(row, attempt[n], results[n])
  BY <1>1, <1>2, <1>3
  DEF RowInv, RunsItsLatestAttempt, HasCurrentOutput, WithinRetryBudget,
      AttemptsNumbered, KeysSettled
<1>5. SetNode(n, row) /\ UNCHANGED <<attempt, results, run, claim>>
  BY DEF Heartbeat, SetNode
<1>. QED
  BY <1>1, <1>3, <1>4, <1>5, RowStepInv

\* Recovery closes the attempt of every stale node and leaves the others alone.
LEMMA RecoverInv ==
  ASSUME IInv, NEW m \in 1 .. MaxAttempts, NEW backoff \in Backoffs,
         RecoverStale(m, backoff)
  PROVE  IInv'
<1>1. /\ node \in [Nodes -> NodeRow] /\ attempt \in [Nodes -> [AttemptNos -> AttemptRow]]
      /\ results \in [Nodes -> SUBSET ResultKey] /\ run \in RunStatus
      /\ claim \in [Workers -> Claim \cup {NoClaim}]
  BY DEF IInv, TypeOK
<1>2. ASSUME NEW n \in Nodes
      PROVE  /\ RowInv(node'[n], attempt'[n], results'[n])
             /\ node'[n].attempt_count >= node[n].attempt_count
             /\ \A j \in AttemptNos :
                  /\ attempt'[n][j].generation = attempt[n][j].generation
                  /\ attempt'[n][j].worker_id = attempt[n][j].worker_id
  <2>1. RowInv(node[n], attempt[n], results[n]) /\ node[n] \in NodeRow
    BY DEF IInv, RowInv
  <2>2. node[n].attempt_count \in {0} \cup AttemptNos
    BY <2>1 DEF NodeRow
  <2>3. node[n].attempt_count \in Int
    BY <2>2 DEF AttemptNos
  <2>4. results'[n] = results[n]
    BY DEF RecoverStale
  <2>5. CASE ~Stale(node[n])
    <3>1. node'[n] = node[n] /\ attempt'[n] = [j \in AttemptNos |-> attempt[n][j]]
      BY <2>5 DEF RecoverStale
    <3>2. attempt'[n] = attempt[n]
      BY <1>1, <3>1
    <3>. QED
      BY <2>1, <2>3, <2>4, <3>1, <3>2
  <2>6. CASE Stale(node[n])
    <3>. DEFINE k == node[n].attempt_count
    <3>1. /\ node[n].status = "running" /\ node[n].lease_token = k /\ k \in AttemptNos
          /\ \A j \in AttemptNos : attempt[n][j].status = "running" <=> j = k
      BY <2>1, <2>6 DEF Stale, RowInv, RunsItsLatestAttempt
    <3>2. node'[n] = RecoveredRow(node[n], m, backoff)
      BY <2>6 DEF RecoverStale
    <3>3. attempt'[n] = [j \in AttemptNos |->
             IF j = k THEN FinishedAttempt(attempt[n][j], "stale") ELSE attempt[n][j]]
      BY <2>6, <3>1 DEF RecoverStale
    <3>4. attempt'[n] = [attempt[n] EXCEPT ![k] = FinishedAttempt(@, "stale")]
      BY <1>1, <3>1, <3>3
    <3>5. RowInv(node'[n], attempt'[n], results'[n])
      <4>1. RowInv(RecoveredRow(node[n], m, backoff),
                   [attempt[n] EXCEPT ![k] = FinishedAttempt(@, "stale")], results[n])
        BY <2>1, <3>1, RecoveredRowInv
      <4>. QED
        BY <2>4, <3>2, <3>4, <4>1
    <3>6. node'[n].attempt_count = node[n].attempt_count
      BY <2>1, <3>2 DEF NodeRow, RecoveredRow
    <3>7. ASSUME NEW j \in AttemptNos
          PROVE  /\ attempt'[n][j].generation = attempt[n][j].generation
                 /\ attempt'[n][j].worker_id = attempt[n][j].worker_id
      <4>1. attempt[n][j] \in AttemptRow
        BY <1>1
      <4>. QED
        BY <3>3, <4>1 DEF FinishedAttempt, AttemptRow
    <3>. QED
      BY <2>3, <3>5, <3>6, <3>7
  <2>. QED
    BY <2>5, <2>6
<1>3. /\ node' = [n \in Nodes |-> node'[n]] /\ attempt' = [n \in Nodes |-> attempt'[n]]
      /\ results' = [n \in Nodes |-> results'[n]] /\ UNCHANGED <<results, run, claim>>
  BY <1>1 DEF RecoverStale
<1>. QED
  BY <1>1, <1>2, <1>3, StepInv

LEMMA NextInv == IInv /\ [Next]_vars => IInv'
<1>. SUFFICES ASSUME IInv, [Next]_vars PROVE IInv'
  OBVIOUS
<1>1. CASE \E n \in Nodes :
             \/ \E i \in Inputs :
                  CreateNode(n, i) \/ ReplaceInput(n, i) \/ InvalidateForInputChange(n, i)
             \/ InvalidateSucceeded(n)
             \/ \E op \in Operations : ResetToPending(n, op)
             \/ MarkSkipped(n)
  BY <1>1, RowActionsInv
<1>2. CASE \E w \in Workers, n \in Nodes : ClaimNode(w, n)
  BY <1>2, ClaimStepInv
<1>3. CASE \E w \in Workers : Heartbeat(w) \/ Succeed(w) \/ DropClaim(w)
  BY <1>3, HeartbeatInv, SucceedInv, DropClaimInv
<1>4. CASE \E w \in Workers, disposition \in ErrorDisposition, backoff \in Backoffs :
             Fail(w, disposition, backoff)
  BY <1>4, FailInv
<1>5. CASE PromoteDueRetries
  BY <1>5, PromoteInv
<1>6. CASE \E m \in 1 .. MaxAttempts, backoff \in Backoffs : RecoverStale(m, backoff)
  BY <1>6, RecoverInv
<1>7. CASE CancelRun
  BY <1>7, CancelInv
<1>8. CASE \E export_required \in BOOLEAN : UpdateRunStatus(export_required)
  BY <1>8, UpdateRunStatusInv
<1>9. CASE Tick
  BY <1>9, TickInv
<1>10. CASE UNCHANGED vars
  BY <1>10 DEF vars, IInv, TypeOK, ClaimInv
<1>. QED
  BY <1>1, <1>2, <1>3, <1>4, <1>5, <1>6, <1>7, <1>8, <1>9, <1>10 DEF Next

\* The rows of execution_nodes and execution_attempts always have their types,
\* and the bounds on attempt numbers and resume tokens are never exceeded.
THEOREM TypeCorrect == Spec => []TypeOK
<1>1. IInv => TypeOK
  BY DEF IInv
<1>. QED
  BY <1>1, InitInv, NextInv, PTL DEF Spec

\* execution_nodes and execution_attempts always agree on what is running.
THEOREM AttemptsAlwaysAgree == Spec => []AttemptsAgree
<1>1. IInv => AttemptsAgree
  BY DEF IInv, RowInv, AttemptsAgree
<1>. QED
  BY <1>1, InitInv, NextInv, PTL DEF Spec

\* A committed output always belongs to the node's generation and input.
THEOREM OutputAlwaysCurrent == Spec => []OutputIsCurrent
<1>1. IInv => OutputIsCurrent
  BY DEF IInv, RowInv, OutputIsCurrent
<1>. QED
  BY <1>1, InitInv, NextInv, PTL DEF Spec

\* Whatever fails, expires or crashes, automatic retries end at max_attempts.
THEOREM RetriesBounded == Spec => []RetryBudget
<1>1. IInv => RetryBudget
  BY DEF IInv, RowInv, RetryBudget
<1>. QED
  BY <1>1, InitInv, NextInv, PTL DEF Spec

------------------------------------------------------------------------------
(* What a step does to the status, the generation and the resume token *)

StatusStep(r, s) ==
  \/ s.status = r.status
  \/ r.status = "absent" /\ s.status = "pending"
  \/ /\ <<r.status, s.status>> \in AllowedTransitions
     /\ s.generation = r.generation
     /\ r.status \in Settled /\ s.status = "pending" =>
          s.resume_token = r.resume_token + 1
  \/ /\ s.status = "pending"
     /\ s.generation = r.generation + 1
     /\ s.resume_token = r.resume_token + 1

LEMMA EveryStatusStep ==
  ASSUME IInv, [Next]_vars, NEW n \in Nodes
  PROVE  StatusStep(node[n], node'[n])
<1>. DEFINE r == node[n]
            s == node'[n]
<1>1. node \in [Nodes -> NodeRow] /\ r \in NodeRow
  BY DEF IInv, TypeOK
<1>2. CASE UNCHANGED node
  BY <1>2 DEF StatusStep
<1>3. ASSUME NEW m \in Nodes, NEW row, SetNode(m, row), StatusStep(node[m], row)
      PROVE  StatusStep(r, s)
  <2>1. s = IF n = m THEN row ELSE r
    BY <1>1, <1>3 DEF SetNode
  <2>. QED
    BY <1>3, <2>1 DEF StatusStep
<1>4. ASSUME NEW m \in Nodes, NEW i \in Inputs,
             CreateNode(m, i) \/ ReplaceInput(m, i) \/ InvalidateForInputChange(m, i)
      PROVE  StatusStep(r, s)
  <2>1. node[m] \in NodeRow
    BY <1>1
  <2>2. CASE CreateNode(m, i)
    <3>1. StatusStep(node[m], CreatedRow(i))
      BY <2>2 DEF CreateNode, StatusStep, CreatedRow
    <3>. QED
      BY <1>3, <2>2, <3>1 DEF CreateNode
  <2>3. CASE ReplaceInput(m, i)
    <3>1. StatusStep(node[m], ReplacedInputRow(node[m], i))
      BY <2>1 DEF StatusStep, ReplacedInputRow, NodeRow
    <3>. QED
      BY <1>3, <2>3, <3>1 DEF ReplaceInput
  <2>4. CASE InvalidateForInputChange(m, i)
    <3>1. StatusStep(node[m], InputInvalidatedRow(node[m], i))
      BY <2>1 DEF StatusStep, InputInvalidatedRow, NodeRow
    <3>. QED
      BY <1>3, <2>4, <3>1 DEF InvalidateForInputChange
  <2>. QED
    BY <1>4, <2>2, <2>3, <2>4
<1>5. ASSUME NEW m \in Nodes, InvalidateSucceeded(m) \/ MarkSkipped(m)
      PROVE  StatusStep(r, s)
  <2>1. node[m] \in NodeRow
    BY <1>1
  <2>2. CASE InvalidateSucceeded(m)
    <3>1. StatusStep(node[m], ResultInvalidatedRow(node[m]))
      BY <2>1 DEF StatusStep, ResultInvalidatedRow, NodeRow
    <3>. QED
      BY <1>3, <2>2, <3>1 DEF InvalidateSucceeded
  <2>3. CASE MarkSkipped(m)
    <3>1. StatusStep(node[m], SkippedRow(node[m]))
      BY <2>1, <2>3 DEF MarkSkipped, StatusStep, SkippedRow, NodeRow
    <3>. QED
      BY <1>3, <2>3, <3>1 DEF MarkSkipped
  <2>. QED
    BY <1>5, <2>2, <2>3
<1>6. ASSUME NEW m \in Nodes, NEW op \in Operations, ResetToPending(m, op)
      PROVE  StatusStep(r, s)
  <2>1. node[m] \in NodeRow
    BY <1>1
  <2>2. StatusStep(node[m], ResetRow(node[m], op))
    <3>1. CASE op = "force_rerun"
      BY <2>1, <3>1 DEF StatusStep, ResetRow, NodeRow
    <3>2. CASE op # "force_rerun"
      BY <1>6, <2>1, <3>2
      DEF ResetToPending, Operations, OperationAllows, StatusStep, ResetRow, NodeRow,
          AllowedTransitions
    <3>. QED
      BY <3>1, <3>2
  <2>. QED
    BY <1>3, <1>6, <2>2 DEF ResetToPending
<1>7. ASSUME NEW w \in Workers, NEW m \in Nodes, ClaimNode(w, m)
      PROVE  StatusStep(r, s)
  <2>1. node[m] \in NodeRow
    BY <1>1
  <2>2. StatusStep(node[m], ClaimedRow(node[m], w, LeaseTicks))
    BY <1>7, <2>1
    DEF ClaimNode, StatusStep, ClaimedRow, NodeRow, AllowedTransitions, Settled
  <2>. QED
    BY <1>3, <1>7, <2>2 DEF ClaimNode
<1>8. ASSUME NEW w \in Workers, Heartbeat(w) PROVE StatusStep(r, s)
  <2>1. claim[w].node \in Nodes
    BY <1>8, LeaseHolder DEF Heartbeat, Claim
  <2>2. s = IF n = claim[w].node THEN [r EXCEPT !.lease = LeaseTicks] ELSE r
    BY <1>1, <1>8, <2>1 DEF Heartbeat
  <2>. QED
    BY <1>1, <2>2 DEF StatusStep, NodeRow
<1>9. ASSUME NEW w \in Workers, Succeed(w) PROVE StatusStep(r, s)
  <2>. DEFINE m == claim[w].node
  <2>1. m \in Nodes /\ node[m] \in NodeRow /\ node[m].status = "running"
    BY <1>1, <1>9, LeaseHolder DEF Succeed, Claim
  <2>2. StatusStep(node[m], SucceededRow(node[m]))
    BY <2>1 DEF StatusStep, SucceededRow, NodeRow, AllowedTransitions
  <2>. QED
    BY <1>3, <1>9, <2>1, <2>2 DEF Succeed
<1>10. ASSUME NEW w \in Workers, NEW d \in ErrorDisposition, NEW b \in Backoffs,
              Fail(w, d, b)
       PROVE  StatusStep(r, s)
  <2>. DEFINE m == claim[w].node
  <2>1. m \in Nodes /\ node[m] \in NodeRow /\ node[m].status = "running"
    BY <1>1, <1>10, LeaseHolder DEF Fail, Claim
  <2>2. FailTarget(node[m], d) \in
          {"failed", "retry_wait", "human_required", "cancelled", "timed_out"}
    BY DEF FailTarget, ErrorDisposition
  <2>3. /\ FailedRow(node[m], d, b).status = FailTarget(node[m], d)
        /\ FailedRow(node[m], d, b).generation = node[m].generation
    BY <2>1 DEF FailedRow, NodeRow
  <2>4. StatusStep(node[m], FailedRow(node[m], d, b))
    BY <2>1, <2>2, <2>3 DEF StatusStep, AllowedTransitions
  <2>. QED
    BY <1>3, <1>10, <2>1, <2>4 DEF Fail
<1>11. ASSUME PromoteDueRetries PROVE StatusStep(r, s)
  <2>1. s = IF RetryDue(r) THEN PromotedRow(r) ELSE r
    BY <1>11 DEF PromoteDueRetries
  <2>. QED
    BY <1>1, <2>1
    DEF RetryDue, PromotedRow, StatusStep, NodeRow, AllowedTransitions, Settled
<1>12. ASSUME NEW m \in 1 .. MaxAttempts, NEW b \in Backoffs, RecoverStale(m, b)
       PROVE  StatusStep(r, s)
  <2>1. s = IF Stale(r) THEN RecoveredRow(r, m, b) ELSE r
    BY <1>12 DEF RecoverStale
  <2>2. RecoveryTarget(r, m) \in {"failed", "retry_wait"}
    BY DEF RecoveryTarget
  <2>3. /\ RecoveredRow(r, m, b).status = RecoveryTarget(r, m)
        /\ RecoveredRow(r, m, b).generation = r.generation
    BY <1>1 DEF RecoveredRow, NodeRow
  <2>. QED
    BY <2>1, <2>2, <2>3 DEF Stale, StatusStep, AllowedTransitions
<1>13. ASSUME CancelRun PROVE StatusStep(r, s)
  <2>1. s = IF r.status \in Cancellable THEN CancelledRow(r) ELSE r
    BY <1>13 DEF CancelRun
  <2>. QED
    BY <1>1, <2>1
    DEF Cancellable, CancelledRow, StatusStep, NodeRow, AllowedTransitions
<1>14. ASSUME Tick PROVE StatusStep(r, s)
  <2>1. s = TickedRow(r)
    BY <1>14 DEF Tick
  <2>. QED
    BY <1>1, <2>1 DEF TickedRow, StatusStep, NodeRow
<1>. QED
  BY <1>2, <1>4, <1>5, <1>6, <1>7, <1>8, <1>9, <1>10, <1>11, <1>12, <1>13, <1>14
  DEF Next, vars, DropClaim, UpdateRunStatus

\* Every status change of every method follows ALLOWED_TRANSITIONS.
THEOREM TransitionsLegal == Spec => LegalTransitions
<1>1. ASSUME IInv, [Next]_vars, NEW n \in Nodes
      PROVE  \/ node[n].status = "absent"
             \/ node'[n].status = node[n].status
             \/ <<node[n].status, node'[n].status>> \in AllowedTransitions
             \/ node'[n].generation = node[n].generation + 1 /\ node'[n].status = "pending"
  BY <1>1, EveryStatusStep DEF StatusStep
<1>2. IInv /\ [Next]_vars => [\A n \in Nodes :
             \/ node[n].status = "absent"
             \/ node'[n].status = node[n].status
             \/ <<node[n].status, node'[n].status>> \in AllowedTransitions
             \/ node'[n].generation = node[n].generation + 1
                /\ node'[n].status = "pending"]_vars
  BY <1>1
<1>. QED
  BY <1>2, InitInv, NextInv, PTL DEF Spec, LegalTransitions

\* A settled node is re-opened only under a new resume token.
THEOREM ReopeningTokensFresh == Spec => ReopeningRenewsToken
<1>1. ASSUME IInv, [Next]_vars, NEW n \in Nodes,
             node[n].status \in Settled, node'[n].status \notin Settled
      PROVE  node'[n].resume_token > node[n].resume_token
  <2>1. node[n].resume_token \in Int
    BY <1>1 DEF IInv, TypeOK, NodeRow
  <2>. QED
    <3>1. StatusStep(node[n], node'[n])
      BY <1>1, EveryStatusStep
    <3>2. <<node[n].status, node'[n].status>> \in AllowedTransitions
            => node'[n].status = "pending"
      BY <1>1 DEF AllowedTransitions, Settled
    <3>3. node'[n].resume_token = node[n].resume_token + 1
      <4>1. node'[n].status # node[n].status /\ node[n].status # "absent"
        BY <1>1 DEF Settled
      <4>. QED
        BY <1>1, <3>1, <3>2, <4>1 DEF StatusStep
    <3>. QED
      BY <2>1, <3>3
<1>2. IInv /\ [Next]_vars => [\A n \in Nodes :
             node[n].status \in Settled /\ node'[n].status \notin Settled =>
               node'[n].resume_token > node[n].resume_token]_vars
  BY <1>1
<1>. QED
  BY <1>2, InitInv, NextInv, PTL DEF Spec, ReopeningRenewsToken

\* A result key is committed at most once: a node that succeeds has no result of
\* its generation yet, because every way back from "succeeded" starts a new one.
THEOREM ResultsCommittedOnce == Spec => CommitOncePerKey
<1>1. ASSUME IInv, [Next]_vars, NEW n \in Nodes,
             node[n].status # "succeeded", node'[n].status = "succeeded"
      PROVE  [generation |-> node'[n].generation, input |-> node'[n].input]
               \notin results[n]
  <2>1. node'[n].generation = node[n].generation
    BY <1>1, EveryStatusStep DEF StatusStep
  <2>2. \A key \in results[n] : key.generation = node[n].generation =>
          node[n].status = "succeeded"
    BY <1>1 DEF IInv, RowInv, KeysSettled
  <2>3. [generation |-> node'[n].generation, input |-> node'[n].input].generation
          = node[n].generation
    BY <2>1
  <2>. QED
    BY <1>1, <2>2, <2>3
<1>2. IInv /\ [Next]_vars => [\A n \in Nodes :
             node[n].status # "succeeded" /\ node'[n].status = "succeeded" =>
               [generation |-> node'[n].generation, input |-> node'[n].input]
                 \notin results[n]]_vars
  BY <1>1
<1>. QED
  BY <1>2, InitInv, NextInv, PTL DEF Spec, CommitOncePerKey

------------------------------------------------------------------------------
(* What a step does to the attempts of a node and to its lease, and from it    *)
(* that ended attempts are history and that a lost lease stays lost.           *)

\* An attempt row is left alone, opened by a claim, or ended while it was running.
AttemptStep(n, k) ==
  \/ attempt'[n][k] = attempt[n][k]
  \/ k = node[n].attempt_count + 1
  \/ attempt[n][k].status = "running" /\ attempt'[n][k].status # "running"

\* A node that is running afterwards has been claimed for the next attempt, or
\* was running before under the same lease, which nothing prolongs once it is over.
LeaseStep(r, s) ==
  s.status = "running" =>
    \/ s.lease_token = r.attempt_count + 1
    \/ /\ r.status = "running"
       /\ s.generation = r.generation /\ s.lease_token = r.lease_token
       /\ s.worker_id = r.worker_id
       /\ s.lease >= 0 => r.lease >= 0

LEMMA AttemptTables ==
  ASSUME IInv
  PROVE  /\ node \in [Nodes -> NodeRow]
         /\ attempt \in [Nodes -> [AttemptNos -> AttemptRow]]
         /\ claim \in [Workers -> Claim \cup {NoClaim}]
         /\ \A n \in Nodes : RowInv(node[n], attempt[n], results[n])
BY DEF IInv, TypeOK

\* The last attempt of a node is the one a worker that holds its lease ends.
LEMMA FinishedAttemptStep ==
  ASSUME IInv, NEW w \in Workers, HoldsLease(w), NEW status, status # "running",
         FinishAttempt(claim[w].node, claim[w].attempt_no, status),
         NEW n \in Nodes, NEW k \in AttemptNos
  PROVE  AttemptStep(n, k)
<1>. DEFINE m == claim[w].node
            j == claim[w].attempt_no
<1>1. m \in Nodes /\ j \in AttemptNos /\ attempt[m][j].status = "running"
  BY LeaseHolder DEF HoldsLease, RunningAttempt, Claim
<1>2. attempt[m][j] \in AttemptRow
  BY <1>1, AttemptTables
<1>3. attempt'[n][k] = IF n = m /\ k = j THEN FinishedAttempt(attempt[m][j], status)
                       ELSE attempt[n][k]
  BY <1>1, AttemptTables DEF FinishAttempt
<1>4. FinishedAttempt(attempt[m][j], status).status = status
  BY <1>2 DEF FinishedAttempt, AttemptRow
<1>. QED
  BY <1>1, <1>3, <1>4 DEF AttemptStep

LEMMA EveryAttemptStep ==
  ASSUME IInv, [Next]_vars, NEW n \in Nodes, NEW k \in AttemptNos
  PROVE  AttemptStep(n, k)
<1>1. CASE UNCHANGED attempt
  BY <1>1 DEF AttemptStep
<1>2. ASSUME NEW w \in Workers, NEW m \in Nodes, ClaimNode(w, m) PROVE AttemptStep(n, k)
  <2>1. node[m] \in NodeRow
    BY AttemptTables
  <2>2. ClaimedRow(node[m], w, LeaseTicks).attempt_count = node[m].attempt_count + 1
    BY <2>1 DEF ClaimedRow, NodeRow
  <2>3. \/ attempt'[n][k] = attempt[n][k]
        \/ n = m /\ k = node[m].attempt_count + 1
    BY <1>2, <2>2, AttemptTables DEF ClaimNode
  <2>. QED
    BY <2>3 DEF AttemptStep
<1>3. ASSUME NEW w \in Workers, Succeed(w) PROVE AttemptStep(n, k)
  BY <1>3, FinishedAttemptStep DEF Succeed
<1>4. ASSUME NEW w \in Workers, NEW d \in ErrorDisposition, NEW b \in Backoffs, Fail(w, d, b)
      PROVE  AttemptStep(n, k)
  <2>1. FailTarget(node[claim[w].node], d) # "running"
    BY DEF FailTarget, ErrorDisposition
  <2>. QED
    BY <1>4, <2>1, FinishedAttemptStep DEF Fail
<1>5. ASSUME NEW m \in 1 .. MaxAttempts, NEW b \in Backoffs, RecoverStale(m, b)
      PROVE  AttemptStep(n, k)
  <2>1. attempt[n][k] \in AttemptRow
    BY AttemptTables
  <2>2. FinishedAttempt(attempt[n][k], "stale").status = "stale"
    BY <2>1 DEF FinishedAttempt, AttemptRow
  <2>. QED
    BY <1>5, <2>2 DEF RecoverStale, AttemptStep
<1>. QED
  BY <1>1, <1>2, <1>3, <1>4, <1>5
  DEF Next, vars, CreateNode, ReplaceInput, InvalidateForInputChange, Heartbeat, DropClaim,
      PromoteDueRetries, InvalidateSucceeded, MarkSkipped, ResetToPending, CancelRun,
      UpdateRunStatus, Tick

\* A node that is not running after the step is no business of LeaseStep's.
LEMMA EveryLeaseStep ==
  ASSUME IInv, [Next]_vars, NEW n \in Nodes
  PROVE  LeaseStep(node[n], node'[n])
<1>. DEFINE r == node[n]
            s == node'[n]
<1>1. r \in NodeRow /\ r.lease \in Int
  BY AttemptTables DEF NodeRow
<1>2. CASE s = r
  BY <1>2 DEF LeaseStep
<1>3. CASE s.status # "running"
  BY <1>3 DEF LeaseStep
<1>4. ASSUME NEW w \in Workers, NEW m \in Nodes, ClaimNode(w, m)
      PROVE  LeaseStep(r, s)
  <2>1. s = IF n = m THEN ClaimedRow(r, w, LeaseTicks) ELSE r
    BY <1>4, AttemptTables DEF ClaimNode, SetNode
  <2>. QED
    BY <1>1, <2>1 DEF LeaseStep, ClaimedRow, NodeRow
<1>5. ASSUME NEW w \in Workers, Heartbeat(w) PROVE LeaseStep(r, s)
  <2>1. claim[w].node \in Nodes
    BY <1>5, LeaseHolder DEF Heartbeat, Claim
  <2>2. s = IF n = claim[w].node THEN [r EXCEPT !.lease = LeaseTicks] ELSE r
    BY <1>5, <2>1, AttemptTables DEF Heartbeat
  <2>3. n = claim[w].node => r.lease >= 0
    BY <1>5 DEF Heartbeat, HoldsLease, LockedNode
  <2>. QED
    BY <1>1, <2>2, <2>3 DEF LeaseStep, NodeRow
<1>6. CASE Tick
  <2>1. s = TickedRow(r)
    BY <1>6 DEF Tick
  <2>2. /\ s.status = r.status /\ s.generation = r.generation
        /\ s.lease_token = r.lease_token /\ s.worker_id = r.worker_id
        /\ s.lease = IF r.lease >= 0 THEN r.lease - 1 ELSE r.lease
    BY <1>1, <2>1 DEF TickedRow, NodeRow
  <2>. QED
    BY <1>1, <2>2 DEF LeaseStep
<1>7. ASSUME NEW m \in Nodes, NEW row, SetNode(m, row), row.status # "running"
      PROVE  LeaseStep(r, s)
  <2>1. s = IF n = m THEN row ELSE r
    BY <1>7, AttemptTables DEF SetNode
  <2>. QED
    BY <1>2, <1>3, <1>7, <2>1
<1>8. ASSUME NEW m \in Nodes, NEW i \in Inputs,
             CreateNode(m, i) \/ ReplaceInput(m, i) \/ InvalidateForInputChange(m, i)
      PROVE  LeaseStep(r, s)
  <2>1. node[m] \in NodeRow
    BY AttemptTables
  <2>2. /\ CreatedRow(i).status # "running"
        /\ InputReplaceable(node[m], i) => ReplacedInputRow(node[m], i).status # "running"
        /\ InputInvalidatedRow(node[m], i).status # "running"
    BY <2>1 DEF CreatedRow, InputReplaceable, ReplacedInputRow, InputInvalidatedRow, NodeRow
  <2>. QED
    BY <1>7, <1>8, <2>2 DEF CreateNode, ReplaceInput, InvalidateForInputChange
<1>9. ASSUME NEW m \in Nodes,
             \/ InvalidateSucceeded(m) \/ MarkSkipped(m)
             \/ \E op \in Operations : ResetToPending(m, op)
      PROVE  LeaseStep(r, s)
  <2>1. node[m] \in NodeRow
    BY AttemptTables
  <2>2. /\ ResultInvalidatedRow(node[m]).status # "running"
        /\ SkippedRow(node[m]).status # "running"
        /\ \A op \in Operations : ResetRow(node[m], op).status # "running"
    BY <2>1 DEF ResultInvalidatedRow, SkippedRow, ResetRow, NodeRow
  <2>. QED
    BY <1>7, <1>9, <2>2 DEF InvalidateSucceeded, MarkSkipped, ResetToPending
<1>10. ASSUME NEW w \in Workers, Succeed(w) PROVE LeaseStep(r, s)
  <2>1. claim[w].node \in Nodes /\ node[claim[w].node] \in NodeRow
    BY <1>10, LeaseHolder, AttemptTables DEF Succeed, Claim
  <2>2. SucceededRow(node[claim[w].node]).status # "running"
    BY <2>1 DEF SucceededRow, NodeRow
  <2>. QED
    BY <1>7, <1>10, <2>1, <2>2 DEF Succeed
<1>11. ASSUME NEW w \in Workers, NEW d \in ErrorDisposition, NEW b \in Backoffs, Fail(w, d, b)
       PROVE  LeaseStep(r, s)
  <2>1. claim[w].node \in Nodes /\ node[claim[w].node] \in NodeRow
    BY <1>11, LeaseHolder, AttemptTables DEF Fail, Claim
  <2>2. FailTarget(node[claim[w].node], d) # "running"
    BY DEF FailTarget, ErrorDisposition
  <2>3. FailedRow(node[claim[w].node], d, b).status # "running"
    BY <2>1, <2>2 DEF FailedRow, NodeRow
  <2>. QED
    BY <1>7, <1>11, <2>1, <2>3 DEF Fail
<1>12. ASSUME PromoteDueRetries \/ CancelRun
                \/ \E m \in 1 .. MaxAttempts, b \in Backoffs : RecoverStale(m, b)
       PROVE  LeaseStep(r, s)
  <2>1. \A m \in 1 .. MaxAttempts, b \in Backoffs : RecoveredRow(r, m, b).status # "running"
    BY <1>1 DEF RecoveredRow, RecoveryTarget, NodeRow
  <2>2. PromotedRow(r).status # "running" /\ CancelledRow(r).status # "running"
    BY <1>1 DEF PromotedRow, CancelledRow, NodeRow
  <2>3. s = r \/ s.status # "running"
    BY <1>12, <2>1, <2>2 DEF PromoteDueRetries, CancelRun, RecoverStale
  <2>. QED
    BY <1>2, <1>3, <2>3
<1>. QED
  BY <1>2, <1>4, <1>5, <1>6, <1>8, <1>9, <1>10, <1>11, <1>12
  DEF Next, vars, DropClaim, UpdateRunStatus

------------------------------------------------------------------------------

\* An attempt that has ended keeps its row for ever, and only the next attempt is
\* ever opened: execution_attempts is a history.
THEOREM AttemptsAreHistory == Spec => AttemptHistory
<1>1. ASSUME IInv, [Next]_vars, NEW n \in Nodes, NEW k \in AttemptNos
      PROVE  /\ attempt[n][k].status \notin {"absent", "running"} =>
                  attempt'[n][k] = attempt[n][k]
             /\ attempt[n][k].status = "absent" /\ attempt'[n][k] # attempt[n][k] =>
                  k = node[n].attempt_count + 1
  <2>1. AttemptStep(n, k)
    BY <1>1, EveryAttemptStep
  <2>2. attempt[n][k].status = "absent" <=> k > node[n].attempt_count
    BY <1>1, AttemptTables DEF RowInv, AttemptsNumbered
  <2>3. node[n].attempt_count \in Int
    BY <1>1, AttemptTables DEF NodeRow, AttemptNos
  <2>. QED
    BY <2>1, <2>2, <2>3 DEF AttemptStep
<1>2. IInv /\ [Next]_vars => [\A n \in Nodes : \A k \in AttemptNos :
             /\ attempt[n][k].status \notin {"absent", "running"} =>
                  attempt'[n][k] = attempt[n][k]
             /\ attempt[n][k].status = "absent" /\ attempt'[n][k] # attempt[n][k] =>
                  k = node[n].attempt_count + 1]_vars
  BY <1>1
<1>. QED
  BY <1>2, InitInv, NextInv, PTL DEF Spec, AttemptHistory

\* Neither time, nor a heartbeat, nor recovery and a new claim gives a worker back
\* the lease it has lost.
THEOREM LostLeasesStayLost == Spec => LostLeaseStaysLost
<1>1. ASSUME IInv, [Next]_vars, NEW w \in Workers,
             claim[w] # NoClaim, claim'[w] = claim[w], HoldsLease(w)'
      PROVE  HoldsLease(w)
  <2>. DEFINE c == claim[w]
              n == c.node
              k == c.attempt_no
  <2>1. c \in Claim /\ n \in Nodes /\ k \in AttemptNos /\ k \in Int
    BY <1>1, AttemptTables DEF Claim, AttemptNos
  <2>2. k <= node[n].attempt_count /\ node[n].attempt_count \in Int
    BY <1>1, <2>1, AttemptTables DEF IInv, ClaimInv, NodeRow, AttemptNos
  <2>3. /\ node'[n].status = "running" /\ node'[n].generation = c.generation
        /\ node'[n].lease_token = k /\ node'[n].worker_id = w /\ node'[n].lease >= 0
        /\ attempt'[n][k].status = "running" /\ attempt'[n][k].generation = c.generation
    BY <1>1 DEF HoldsLease, LockedNode, RunningAttempt
  <2>4. /\ node[n].status = "running" /\ node[n].generation = c.generation
        /\ node[n].lease_token = k /\ node[n].worker_id = w /\ node[n].lease >= 0
    BY <1>1, <2>1, <2>2, <2>3, EveryLeaseStep DEF LeaseStep
  <2>5. attempt'[n][k] = attempt[n][k]
    BY <1>1, <2>1, <2>2, <2>3, EveryAttemptStep DEF AttemptStep
  <2>. QED
    BY <1>1, <2>3, <2>4, <2>5 DEF HoldsLease, LockedNode, RunningAttempt
<1>2. IInv /\ [Next]_vars => [\A w \in Workers :
             claim[w] # NoClaim /\ claim'[w] = claim[w] /\ ~HoldsLease(w) =>
               ~HoldsLease(w)']_vars
  BY <1>1
<1>. QED
  BY <1>2, InitInv, NextInv, PTL DEF Spec, LostLeaseStaysLost

------------------------------------------------------------------------------
(* ExecutionRepository implements ExclusiveGrants, for all constants: every    *)
(* method is one action of the abstract specification or none, under the       *)
(* inductive invariant.                                                        *)

USE DEF Grants!vars

------------------------------------------------------------------------------
(* What a method shows of a node *)

\* The part of a row that the abstract specification sees.
View(row) == <<row.status = "running", row.attempt_count, row.generation, row.output>>

LEMMA Tables ==
  ASSUME IInv
  PROVE  /\ node \in [Nodes -> NodeRow]
         /\ results \in [Nodes -> SUBSET ResultKey]
         /\ claim \in [Workers -> Claim \cup {NoClaim}]
         /\ \A n \in Nodes : node[n].attempt_count \in Int /\ node[n].generation \in Int
         /\ \A w \in Workers : claim[w] # NoClaim =>
              claim[w] \in Claim /\ claim[w].node \in Nodes
<1>1. /\ node \in [Nodes -> NodeRow] /\ results \in [Nodes -> SUBSET ResultKey]
      /\ claim \in [Workers -> Claim \cup {NoClaim}]
  BY DEF IInv, TypeOK
<1>2. ASSUME NEW n \in Nodes
      PROVE  node[n].attempt_count \in Int /\ node[n].generation \in Int
  <2>1. node[n] \in NodeRow
    BY <1>1
  <2>. QED
    BY <2>1 DEF NodeRow, AttemptNos
<1>3. ASSUME NEW w \in Workers, claim[w] # NoClaim
      PROVE  claim[w] \in Claim /\ claim[w].node \in Nodes
  BY <1>1, <1>3 DEF Claim
<1>. QED
  BY <1>1, <1>2, <1>3

\* A method that changes nothing the workers can see.
LEMMA SilentStep ==
  ASSUME UNCHANGED <<results, claim>>,
         \A n \in Nodes : View(node'[n]) = View(node[n])
  PROVE  UNCHANGED Grants!vars
BY DEF View

\* The same for a method that writes one row.
LEMMA SilentRowStep ==
  ASSUME IInv, NEW n \in Nodes, NEW row, SetNode(n, row), View(row) = View(node[n]),
         UNCHANGED <<results, claim>>
  PROVE  UNCHANGED Grants!vars
<1>1. \A m \in Nodes : node'[m] = IF m = n THEN row ELSE node[m]
  BY Tables DEF SetNode
<1>. QED
  BY <1>1, SilentStep

\* A method that opens a new generation of a node nobody works on.
LEMMA RenewStep ==
  ASSUME IInv, NEW n \in Nodes, NEW row, SetNode(n, row),
         node[n].status # "running",
         View(row) = <<FALSE, node[n].attempt_count, node[n].generation + 1, 0>>,
         UNCHANGED <<results, claim>>
  PROVE  Grants!Renew(n)
<1>1. \A m \in Nodes : node'[m] = IF m = n THEN row ELSE node[m]
  BY Tables DEF SetNode
<1>2. /\ (row.status = "running") = FALSE /\ row.attempt_count = node[n].attempt_count
      /\ row.generation = node[n].generation + 1 /\ row.output = 0
  BY DEF View
<1>3. \A m \in Nodes : /\ (node'[m].status = "running") = (node[m].status = "running")
                       /\ node'[m].attempt_count = node[m].attempt_count
                       /\ m # n => node'[m] = node[m]
  BY <1>1, <1>2
<1>. QED
  BY <1>1, <1>2, <1>3 DEF Grants!Renew

------------------------------------------------------------------------------
(* The methods, one by one *)

LEMMA EnsureImplements ==
  ASSUME IInv, NEW n \in Nodes, NEW i \in Inputs,
         CreateNode(n, i) \/ ReplaceInput(n, i) \/ InvalidateForInputChange(n, i)
  PROVE  Grants!Renew(n) \/ UNCHANGED Grants!vars
<1>1. node[n] \in NodeRow /\ RowInv(node[n], attempt[n], results[n])
  BY Tables DEF IInv
<1>2. CASE CreateNode(n, i)
  <2>1. node[n].attempt_count = 0 /\ node[n].generation = 0
    BY <1>1, <1>2 DEF CreateNode, RowInv, WithinRetryBudget, KeysSettled
  <2>2. /\ (CreatedRow(i).status = "running") = FALSE
        /\ CreatedRow(i).attempt_count = 0
        /\ CreatedRow(i).generation = 0 + 1 /\ CreatedRow(i).output = 0
    BY DEF CreatedRow
  <2>3. View(CreatedRow(i)) = <<FALSE, 0, 0 + 1, 0>>
    BY <2>2 DEF View
  <2>. QED
    BY <1>2, <2>1, <2>3, RenewStep DEF CreateNode
<1>3. CASE ReplaceInput(n, i)
  <2>1. View(ReplacedInputRow(node[n], i)) = View(node[n])
    BY <1>1 DEF View, ReplacedInputRow, NodeRow
  <2>. QED
    BY <1>3, <2>1, SilentRowStep DEF ReplaceInput
<1>4. CASE InvalidateForInputChange(n, i)
  <2>1. View(InputInvalidatedRow(node[n], i)) =
          <<FALSE, node[n].attempt_count, node[n].generation + 1, 0>>
    BY <1>1 DEF View, InputInvalidatedRow, NodeRow
  <2>. QED
    BY <1>4, <2>1, RenewStep DEF InvalidateForInputChange, InputInvalidates
<1>. QED
  BY <1>2, <1>3, <1>4

LEMMA RequestImplements ==
  ASSUME IInv, NEW n \in Nodes,
         \/ InvalidateSucceeded(n) \/ MarkSkipped(n)
         \/ \E op \in Operations : ResetToPending(n, op)
  PROVE  Grants!Renew(n) \/ UNCHANGED Grants!vars
<1>1. node[n] \in NodeRow /\ RowInv(node[n], attempt[n], results[n])
  BY Tables DEF IInv
<1>2. CASE InvalidateSucceeded(n)
  <2>1. View(ResultInvalidatedRow(node[n])) =
          <<FALSE, node[n].attempt_count, node[n].generation + 1, 0>>
    BY <1>1 DEF View, ResultInvalidatedRow, NodeRow
  <2>. QED
    BY <1>2, <2>1, RenewStep DEF InvalidateSucceeded
<1>3. CASE MarkSkipped(n)
  <2>1. View(SkippedRow(node[n])) = View(node[n])
    BY <1>1, <1>3 DEF MarkSkipped, AllowedTransitions, View, SkippedRow, NodeRow
  <2>. QED
    BY <1>3, <2>1, SilentRowStep DEF MarkSkipped
<1>4. ASSUME NEW op \in Operations, ResetToPending(n, op)
      PROVE  Grants!Renew(n) \/ UNCHANGED Grants!vars
  <2>1. node[n].status # "running"
    BY <1>4 DEF ResetToPending, Operations, OperationAllows
  <2>2. CASE op = "force_rerun"
    <3>1. View(ResetRow(node[n], op)) =
            <<FALSE, node[n].attempt_count, node[n].generation + 1, 0>>
      BY <1>1, <2>2 DEF View, ResetRow, NodeRow
    <3>. QED
      BY <1>4, <2>1, <3>1, RenewStep DEF ResetToPending
  <2>3. CASE op # "force_rerun"
    <3>1. node[n].output = 0
      BY <1>1, <1>4, <2>3
      DEF ResetToPending, Operations, OperationAllows, RowInv, HasCurrentOutput
    <3>2. View(ResetRow(node[n], op)) = View(node[n])
      BY <1>1, <2>1, <2>3, <3>1 DEF View, ResetRow, NodeRow
    <3>. QED
      BY <1>4, <3>2, SilentRowStep DEF ResetToPending
  <2>. QED
    BY <2>2, <2>3
<1>. QED
  BY <1>2, <1>3, <1>4

\* The claim is the grant; a pending node has a generation and no output.
LEMMA ClaimImplements ==
  ASSUME IInv, NEW w \in Workers, NEW n \in Nodes, ClaimNode(w, n)
  PROVE  Grants!Grant(w, n)
<1>. DEFINE row == ClaimedRow(node[n], w, LeaseTicks)
            c == [node |-> n, attempt_no |-> row.attempt_count, generation |-> row.generation]
<1>1. node[n] \in NodeRow /\ RowInv(node[n], attempt[n], results[n])
  BY Tables DEF IInv
<1>2. /\ row.status = "running" /\ row.attempt_count = node[n].attempt_count + 1
      /\ row.generation = node[n].generation /\ row.output = node[n].output
  BY <1>1 DEF ClaimedRow, NodeRow
<1>3. /\ node[n].status = "pending" /\ claim[w] = NoClaim
      /\ \A m \in Nodes : node'[m] = IF m = n THEN row ELSE node[m]
      /\ \A v \in Workers : claim'[v] = IF v = w THEN c ELSE claim[v]
      /\ UNCHANGED results
  BY Tables DEF ClaimNode, SetNode
<1>4. node[n].output = 0 /\ node[n].generation # 0
  BY <1>1, <1>3 DEF RowInv, HasCurrentOutput, KeysSettled
<1>5. Ticket(c) = {<<n, node[n].attempt_count + 1>>} /\ Ticket(NoClaim) = {}
  <2>1. "attempt_no" \in DOMAIN c /\ "attempt_no" \notin DOMAIN NoClaim
    BY DEF NoClaim
  <2>2. c # NoClaim
    BY <2>1
  <2>. QED
    BY <1>2, <2>2 DEF Ticket
<1>. QED
  BY <1>2, <1>3, <1>4, <1>5 DEF Grants!Grant
\* Only the worker of the last grant ends it: LeaseHolder says that its ticket is
\* the last one.
LEMMA HolderHolds ==
  ASSUME IInv, NEW w \in Workers, HoldsLease(w)
  PROVE  /\ claim[w].node \in Nodes
         /\ Grants!Holds(w, claim[w].node)
<1>. DEFINE n == claim[w].node
<1>1. /\ claim[w] \in Claim /\ claim[w] # NoClaim /\ n \in Nodes
      /\ node[n].status = "running" /\ claim[w].attempt_no = node[n].attempt_count
  BY LeaseHolder DEF HoldsLease, Claim
<1>2. Ticket(claim[w]) = {<<n, node[n].attempt_count>>}
  BY <1>1 DEF Ticket
<1>. QED
  BY <1>1, <1>2 DEF Grants!Holds

LEMMA SucceedImplements ==
  ASSUME IInv, NEW w \in Workers, Succeed(w)
  PROVE  \E n \in Nodes : Grants!Commit(w, n)
<1>. DEFINE n == claim[w].node
            row == SucceededRow(node[n])
            key == [generation |-> node[n].generation, input |-> node[n].input]
<1>1. /\ n \in Nodes /\ Grants!Holds(w, n) /\ node[n].status = "running"
      /\ node[n] \in NodeRow /\ RowInv(node[n], attempt[n], results[n])
  BY HolderHolds, LeaseHolder, Tables DEF Succeed
<1>2. /\ row.status = "succeeded" /\ row.attempt_count = node[n].attempt_count
      /\ row.generation = node[n].generation /\ row.output = node[n].attempt_count
  BY <1>1 DEF SucceededRow, NodeRow
<1>3. /\ \A m \in Nodes : node'[m] = IF m = n THEN row ELSE node[m]
      /\ \A m \in Nodes : results'[m] = IF m = n THEN results[m] \cup {key} ELSE results[m]
      /\ \A v \in Workers : claim'[v] = IF v = w THEN NoClaim ELSE claim[v]
  BY <1>1, Tables DEF Succeed, SetNode
<1>4. node[n].generation \notin {k.generation : k \in results[n]}
  BY <1>1 DEF RowInv, KeysSettled
<1>5. {k.generation : k \in results'[n]} =
        {k.generation : k \in results[n]} \cup {node[n].generation}
  <2>1. results'[n] = results[n] \cup {key} /\ key.generation = node[n].generation
    BY <1>1, <1>3
  <2>. QED
    BY <2>1
<1>6. Ticket(NoClaim) = {}
  BY DEF Ticket
<1>7. UNCHANGED <<[m \in Nodes |-> node[m].attempt_count],
                  [m \in Nodes |-> node[m].generation]>>
  BY <1>2, <1>3
<1>8. /\ \A m \in Nodes : (node'[m].status = "running") =
                          IF m = n THEN FALSE ELSE node[m].status = "running"
      /\ \A m \in Nodes : node'[m].output =
                          IF m = n THEN node[n].attempt_count ELSE node[m].output
  BY <1>2, <1>3
<1>9. \A m \in Nodes : {k.generation : k \in results'[m]} =
        IF m = n THEN {k.generation : k \in results[n]} \cup {node[n].generation}
        ELSE {k.generation : k \in results[m]}
  BY <1>3, <1>5
<1>10. \A v \in Workers : Ticket(claim'[v]) = IF v = w THEN {} ELSE Ticket(claim[v])
  BY <1>3, <1>6
<1>. QED
  BY <1>1, <1>4, <1>7, <1>8, <1>9, <1>10 DEF Grants!Commit

LEMMA FailImplements ==
  ASSUME IInv, NEW w \in Workers, NEW d \in ErrorDisposition, NEW b \in Backoffs,
         Fail(w, d, b)
  PROVE  \E n \in Nodes : Grants!GiveUp(w, n)
<1>. DEFINE n == claim[w].node
            row == FailedRow(node[n], d, b)
<1>1. n \in Nodes /\ Grants!Holds(w, n) /\ node[n] \in NodeRow
  BY HolderHolds, Tables DEF Fail
<1>2. FailTarget(node[n], d) # "running"
  BY DEF FailTarget, ErrorDisposition
<1>3. /\ row.status # "running" /\ row.attempt_count = node[n].attempt_count
      /\ row.generation = node[n].generation /\ row.output = node[n].output
  BY <1>1, <1>2 DEF FailedRow, NodeRow
<1>4. /\ \A m \in Nodes : node'[m] = IF m = n THEN row ELSE node[m]
      /\ \A v \in Workers : claim'[v] = IF v = w THEN NoClaim ELSE claim[v]
      /\ UNCHANGED results
  BY <1>1, Tables DEF Fail, SetNode
<1>5. Ticket(NoClaim) = {}
  BY DEF Ticket
<1>6. /\ \A m \in Nodes : (node'[m].status = "running") =
                          IF m = n THEN FALSE ELSE node[m].status = "running"
      /\ \A v \in Workers : Ticket(claim'[v]) = IF v = w THEN {} ELSE Ticket(claim[v])
      /\ UNCHANGED results
  BY <1>3, <1>4, <1>5
<1>7. UNCHANGED <<[m \in Nodes |-> node[m].attempt_count],
                  [m \in Nodes |-> node[m].generation],
                  [m \in Nodes |-> node[m].output]>>
  BY <1>3, <1>4
<1>. QED
  BY <1>1, <1>6, <1>7 DEF Grants!GiveUp

LEMMA DropImplements ==
  ASSUME IInv, NEW w \in Workers, DropClaim(w)
  PROVE  Grants!Forget(w)
<1>1. \A v \in Workers : claim'[v] = IF v = w THEN NoClaim ELSE claim[v]
  BY Tables DEF DropClaim
<1>2. Ticket(NoClaim) = {} /\ UNCHANGED <<node, results>>
  BY DEF Ticket, DropClaim
<1>. QED
  BY <1>1, <1>2 DEF Grants!Forget

\* Recovery revokes the grants on the nodes whose lease has run out.
LEMMA RecoverImplements ==
  ASSUME IInv, NEW m \in 1 .. MaxAttempts, NEW b \in Backoffs, RecoverStale(m, b)
  PROVE  Grants!Revoke
<1>. DEFINE S == {n \in Nodes : Stale(node[n])}
<1>1. ASSUME NEW n \in Nodes
      PROVE  /\ (node'[n].status = "running") = ((node[n].status = "running") /\ n \notin S)
             /\ node'[n].attempt_count = node[n].attempt_count
             /\ node'[n].generation = node[n].generation
             /\ node'[n].output = node[n].output
  <2>1. node'[n] = IF Stale(node[n]) THEN RecoveredRow(node[n], m, b) ELSE node[n]
    BY DEF RecoverStale
  <2>2. RecoveryTarget(node[n], m) # "running"
    BY DEF RecoveryTarget
  <2>. QED
    BY <2>1, <2>2, Tables DEF RecoveredRow, NodeRow
<1>2. S \in SUBSET Nodes
  OBVIOUS
<1>. QED
  BY <1>1, <1>2 DEF RecoverStale, Grants!Revoke

\* Promotion, cancellation, the clock and heartbeats are none of the workers'
\* business.
LEMMA RestImplements ==
  ASSUME IInv,
         \/ PromoteDueRetries \/ CancelRun \/ Tick
         \/ \E export_required \in BOOLEAN : UpdateRunStatus(export_required)
         \/ \E w \in Workers : Heartbeat(w)
  PROVE  UNCHANGED Grants!vars
<1>1. ASSUME NEW n \in Nodes PROVE View(node'[n]) = View(node[n])
  <2>1. node[n] \in NodeRow
    BY Tables
  <2>2. CASE PromoteDueRetries
    BY <2>1, <2>2 DEF PromoteDueRetries, RetryDue, PromotedRow, View, NodeRow
  <2>3. CASE CancelRun
    BY <2>1, <2>3 DEF CancelRun, Cancellable, CancelledRow, View, NodeRow
  <2>4. CASE Tick
    BY <2>1, <2>4 DEF Tick, TickedRow, View, NodeRow
  <2>5. CASE \E export_required \in BOOLEAN : UpdateRunStatus(export_required)
    BY <2>5 DEF UpdateRunStatus
  <2>6. ASSUME NEW w \in Workers, Heartbeat(w) PROVE View(node'[n]) = View(node[n])
    <3>1. claim[w].node \in Nodes
      BY <2>6, HolderHolds DEF Heartbeat
    <3>2. node'[n] = IF n = claim[w].node THEN [node[n] EXCEPT !.lease = LeaseTicks] ELSE node[n]
      BY <2>6, <3>1, Tables DEF Heartbeat
    <3>. QED
      BY <2>1, <3>2 DEF View, NodeRow
  <2>. QED
    BY <2>2, <2>3, <2>4, <2>5, <2>6
<1>2. UNCHANGED <<results, claim>>
  BY DEF PromoteDueRetries, CancelRun, Tick, UpdateRunStatus, Heartbeat
<1>. QED
  BY <1>1, <1>2, SilentStep

------------------------------------------------------------------------------

LEMMA InitImplements == Init => Grants!Init
<1>. SUFFICES ASSUME Init PROVE Grants!Init
  OBVIOUS
<1>1. \A n \in Nodes : /\ node[n].status # "running" /\ node[n].attempt_count = 0
                       /\ node[n].generation = 0 /\ node[n].output = 0
                       /\ results[n] = {}
  BY DEF Init, Absent
<1>2. \A w \in Workers : Ticket(claim[w]) = {}
  BY DEF Init, Ticket
<1>. QED
  BY <1>1, <1>2 DEF Grants!Init

LEMMA StepImplements == IInv /\ [Next]_vars => [Grants!Next]_(Grants!vars)
<1>. SUFFICES ASSUME IInv, [Next]_vars PROVE Grants!Next \/ UNCHANGED Grants!vars
  OBVIOUS
<1>1. CASE \E n \in Nodes, i \in Inputs :
             CreateNode(n, i) \/ ReplaceInput(n, i) \/ InvalidateForInputChange(n, i)
  BY <1>1, EnsureImplements DEF Grants!Next
<1>2. CASE \E n \in Nodes : \/ InvalidateSucceeded(n) \/ MarkSkipped(n)
                           \/ \E op \in Operations : ResetToPending(n, op)
  BY <1>2, RequestImplements DEF Grants!Next
<1>3. CASE \E w \in Workers, n \in Nodes : ClaimNode(w, n)
  BY <1>3, ClaimImplements DEF Grants!Next
<1>4. CASE \E w \in Workers : Succeed(w)
  BY <1>4, SucceedImplements DEF Grants!Next
<1>5. CASE \E w \in Workers, d \in ErrorDisposition, b \in Backoffs : Fail(w, d, b)
  BY <1>5, FailImplements DEF Grants!Next
<1>6. CASE \E w \in Workers : DropClaim(w)
  BY <1>6, DropImplements DEF Grants!Next
<1>7. CASE \E m \in 1 .. MaxAttempts, b \in Backoffs : RecoverStale(m, b)
  BY <1>7, RecoverImplements DEF Grants!Next
<1>8. CASE \/ PromoteDueRetries \/ CancelRun \/ Tick
           \/ \E export_required \in BOOLEAN : UpdateRunStatus(export_required)
           \/ \E w \in Workers : Heartbeat(w)
  BY <1>8, RestImplements
<1>9. CASE UNCHANGED vars
  BY <1>9, SilentStep DEF vars, View
<1>. QED
  BY <1>1, <1>2, <1>3, <1>4, <1>5, <1>6, <1>7, <1>8, <1>9 DEF Next

\* For any nodes, workers, inputs, leases and retries the repository implements
\* exclusive grants: no step of it is anything else to the workers than a new
\* round, a grant, the commit or the end of the last grant, or a revocation.
THEOREM RepositoryImplementsGrants == Spec => ImplementsGrants
<1>. QED
  BY InitInv, NextInv, InitImplements, StepImplements, PTL
  DEF Spec, ImplementsGrants, Grants!Spec
==============================================================================
