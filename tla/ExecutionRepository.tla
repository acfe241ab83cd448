------------------------- MODULE ExecutionRepository -------------------------
(* The execution repository of one run (src/execution/repository.py): the     *)
(* table of execution nodes, their attempts, the result rows written with a   *)
(* success, and the run's status, under every method of ExecutionRepository.  *)
(* A method is one transaction and here one step; RepositoryTransactions      *)
(* looks inside the transactions.                                             *)
(*                                                                            *)
(* Workers are threads of this or another process that execute nodes.  A      *)
(* worker keeps the Claim that `claim` returned until it commits, fails,      *)
(* loses it or dies, whatever has become of the node meanwhile.               *)
(*                                                                            *)
(* Time is discrete and relative: `lease` and `next_retry` are the ticks      *)
(* left, so that a lease is held while lease >= 0 (lease_expires_at >= now)   *)
(* and stale once it is -1, and a retry is due at 0.                          *)
EXTENDS ExecutionRows

CONSTANTS
  Nodes,        \* the (scope_type, scope_key, stage) triples of the run
  ExportNodes,  \* those of stage "export"
  Workers,      \* threads that execute nodes, with their worker_id
  LeaseTicks,   \* lease_seconds, in ticks
  Backoffs,     \* the backoff_seconds callers pass to fail and recover_stale, in ticks
  MaxRenewals   \* bound: how often one node is re-opened (its resume token renewed)

ASSUME RepositoryAssumption ==
  /\ ExportNodes \subseteq Nodes
  /\ NoWorker \notin Workers
  /\ LeaseTicks \in Nat \ {0}
  /\ Backoffs \subseteq Nat
  /\ MaxRenewals \in Nat

VARIABLES
  node,     \* execution_nodes
  attempt,  \* execution_attempts, by node and attempt_no
  results,  \* by node, the (generation, input) of the result keys written
  run,      \* run_logs.status
  claim     \* by worker, the Claim it holds

vars == <<node, attempt, results, run, claim>>

AttemptNos == 1 .. (MaxAttempts + MaxRenewals)

NodeRow ==
  [status : NodeStatus \cup {"absent"}, generation : Nat,
   attempt_count : {0} \cup AttemptNos, input : Inputs \cup {NoInput},
   output : {0} \cup AttemptNos, worker_id : Workers \cup {NoWorker},
   lease_token : {0} \cup AttemptNos, lease : -1 .. LeaseTicks,
   next_retry : Nat \cup {-1}, resume_token : 0 .. (MaxRenewals + 1)]

AttemptRow ==
  [status : AttemptStatus, generation : Nat,
   worker_id : Workers \cup {NoWorker}, input : Inputs \cup {NoInput}]

ResultKey == [generation : Nat, input : Inputs \cup {NoInput}]

NoClaim == [node |-> NoWorker]
Claim == [node : Nodes, attempt_no : AttemptNos, generation : Nat]

TypeOK ==
  /\ node \in [Nodes -> NodeRow]
  /\ attempt \in [Nodes -> [AttemptNos -> AttemptRow]]
  /\ results \in [Nodes -> SUBSET ResultKey]
  /\ run \in RunStatus
  /\ claim \in [Workers -> Claim \cup {NoClaim}]

Init ==
  /\ node = [n \in Nodes |-> Absent]
  /\ attempt = [n \in Nodes |-> [k \in AttemptNos |-> NoAttempt]]
  /\ results = [n \in Nodes |-> {}]
  /\ run = "running"
  /\ claim = [w \in Workers |-> NoClaim]

------------------------------------------------------------------------------
(* ensure_node: what it does to the row depends on the status it finds *)

SetNode(n, row) == node' = [node EXCEPT ![n] = row]

\* Bound: a node is re-opened at most MaxRenewals times.
Renewable(n) == node[n].resume_token <= MaxRenewals

CreateNode(n, i) ==
  /\ node[n].status = "absent"
  /\ SetNode(n, CreatedRow(i))
  /\ UNCHANGED <<attempt, results, run, claim>>

ReplaceInput(n, i) ==
  /\ InputReplaceable(node[n], i)
  /\ SetNode(n, ReplacedInputRow(node[n], i))
  /\ UNCHANGED <<attempt, results, run, claim>>

InvalidateForInputChange(n, i) ==
  /\ InputInvalidates(node[n], i)
  /\ Renewable(n)
  /\ SetNode(n, InputInvalidatedRow(node[n], i))
  /\ UNCHANGED <<attempt, results, run, claim>>

------------------------------------------------------------------------------
(* The life of a claim *)

ClaimNode(w, n) ==
  /\ claim[w] = NoClaim
  /\ node[n].status = "pending"
  /\ LET row == ClaimedRow(node[n], w, LeaseTicks) IN
       /\ SetNode(n, row)
       /\ attempt' = [attempt EXCEPT ![n][row.attempt_count] = ClaimedAttempt(row, w)]
       /\ claim' = [claim EXCEPT ![w] =
            [node |-> n, attempt_no |-> row.attempt_count, generation |-> row.generation]]
  /\ UNCHANGED <<results, run>>

\* _locked_node: the row still belongs to claim c of worker w.
LockedNode(w, c) ==
  LET row == node[c.node] IN
    /\ row.status = "running"
    /\ row.generation = c.generation
    /\ row.lease_token = c.attempt_no
    /\ row.worker_id = w
    /\ row.lease >= 0

\* _running_attempt: the attempt has not been ended by anybody else.
RunningAttempt(c) ==
  LET a == attempt[c.node][c.attempt_no] IN
    a.status = "running" /\ a.generation = c.generation

\* Mutant of HoldsLease: whoever has a claim on a running node.
HoldsLease_AnyRunning(w) == claim[w] # NoClaim /\ node[claim[w].node].status = "running"

\* Without this, heartbeat, succeed and fail raise LeaseLost.
HoldsLease(w) ==
  claim[w] # NoClaim /\ LockedNode(w, claim[w]) /\ RunningAttempt(claim[w])

\* Mutant of Heartbeat: an expired lease is renewed.
Heartbeat_Expired(w) ==
  /\ claim[w] # NoClaim
  /\ RunningAttempt(claim[w])
  /\ node' = [node EXCEPT ![claim[w].node].lease = LeaseTicks]
  /\ UNCHANGED <<attempt, results, run, claim>>

Heartbeat(w) ==
  /\ HoldsLease(w)
  /\ node' = [node EXCEPT ![claim[w].node].lease = LeaseTicks]
  /\ UNCHANGED <<attempt, results, run, claim>>

FinishAttempt(n, k, status) ==
  attempt' = [attempt EXCEPT ![n][k] = FinishedAttempt(@, status)]

\* succeed: the result writer runs in the same transaction and leaves an
\* existing row of its result_key alone.
Succeed(w) ==
  /\ HoldsLease(w)
  /\ LET n == claim[w].node IN
       /\ SetNode(n, SucceededRow(node[n]))
       /\ FinishAttempt(n, claim[w].attempt_no, "succeeded")
       /\ results' = [results EXCEPT ![n] = @ \cup
            {[generation |-> node[n].generation, input |-> node[n].input]}]
  /\ claim' = [claim EXCEPT ![w] = NoClaim]
  /\ UNCHANGED run

Fail(w, disposition, backoff) ==
  /\ HoldsLease(w)
  /\ LET n == claim[w].node IN
       /\ SetNode(n, FailedRow(node[n], disposition, backoff))
       /\ FinishAttempt(n, claim[w].attempt_no, FailTarget(node[n], disposition))
  /\ claim' = [claim EXCEPT ![w] = NoClaim]
  /\ UNCHANGED <<results, run>>

\* The worker dies, or gives up on a LeaseLost.
DropClaim(w) ==
  /\ claim[w] # NoClaim
  /\ claim' = [claim EXCEPT ![w] = NoClaim]
  /\ UNCHANGED <<node, attempt, results, run>>

------------------------------------------------------------------------------
(* Recovery *)

RetryDue(row) == row.status = "retry_wait" /\ row.next_retry <= 0

PromoteDueRetries ==
  /\ \E n \in Nodes : RetryDue(node[n])
  /\ node' = [n \in Nodes |-> IF RetryDue(node[n]) THEN PromotedRow(node[n]) ELSE node[n]]
  /\ UNCHANGED <<attempt, results, run, claim>>

Stale(row) == row.status = "running" /\ row.lease < 0

\* Mutants of RecoverStale: the attempt is left open, or every attempt of the
\* node is ended.
RecoverStale_AttemptLeft(max_attempts, backoff) ==
  /\ \E n \in Nodes : Stale(node[n])
  /\ node' = [n \in Nodes |->
        IF Stale(node[n]) THEN RecoveredRow(node[n], max_attempts, backoff) ELSE node[n]]
  /\ UNCHANGED <<attempt, results, run, claim>>
RecoverStale_EveryAttempt(max_attempts, backoff) ==
  /\ \E n \in Nodes : Stale(node[n])
  /\ node' = [n \in Nodes |->
        IF Stale(node[n]) THEN RecoveredRow(node[n], max_attempts, backoff) ELSE node[n]]
  /\ attempt' = [n \in Nodes |-> [k \in AttemptNos |->
        IF Stale(node[n]) /\ k <= node[n].attempt_count
        THEN FinishedAttempt(attempt[n][k], "stale")
        ELSE attempt[n][k]]]
  /\ UNCHANGED <<results, run, claim>>

\* All nodes whose lease has run out, with the attempts they were running.  A
\* run is recovered with the policy's max_attempts, a cancelled one with 1.
RecoverStale(max_attempts, backoff) ==
  /\ \E n \in Nodes : Stale(node[n])
  /\ node' = [n \in Nodes |->
        IF Stale(node[n]) THEN RecoveredRow(node[n], max_attempts, backoff) ELSE node[n]]
  /\ attempt' = [n \in Nodes |-> [k \in AttemptNos |->
        IF /\ Stale(node[n])
           /\ k = node[n].lease_token
           /\ attempt[n][k].status = "running"
        THEN FinishedAttempt(attempt[n][k], "stale")
        ELSE attempt[n][k]]]
  /\ UNCHANGED <<results, run, claim>>

------------------------------------------------------------------------------
(* Operators and the pipeline change a node nobody is executing *)

InvalidateSucceeded(n) ==
  /\ node[n].status = "succeeded"
  /\ Renewable(n)
  /\ SetNode(n, ResultInvalidatedRow(node[n]))
  /\ UNCHANGED <<attempt, results, run, claim>>

\* resume_human, retry_node and force_rerun; a request that names an outdated
\* resume token changes nothing.
ResetToPending(n, op) ==
  /\ node[n].status \in OperationAllows(op)
  /\ Renewable(n)
  /\ SetNode(n, ResetRow(node[n], op))
  /\ UNCHANGED <<attempt, results, run, claim>>

MarkSkipped(n) ==
  /\ <<node[n].status, "skipped">> \in AllowedTransitions
  /\ SetNode(n, SkippedRow(node[n]))
  /\ UNCHANGED <<attempt, results, run, claim>>

CancelRun ==
  /\ run' = "cancel_requested"
  /\ node' = [n \in Nodes |->
        IF node[n].status \in Cancellable THEN CancelledRow(node[n]) ELSE node[n]]
  /\ UNCHANGED <<attempt, results, claim>>

Rows(S) == {node[n] : n \in {m \in S : node[m].status # "absent"}}

UpdateRunStatus(export_required) ==
  /\ run' = AggregateRunStatus(Rows(Nodes), Rows(ExportNodes), run, export_required)
  /\ UNCHANGED <<node, attempt, results, claim>>

TickedRow(row) ==
  [row EXCEPT !.lease = IF @ >= 0 THEN @ - 1 ELSE @,
              !.next_retry = IF @ > 0 THEN @ - 1 ELSE @]

Tick ==
  /\ node' = [n \in Nodes |-> TickedRow(node[n])]
  /\ UNCHANGED <<attempt, results, run, claim>>

------------------------------------------------------------------------------

Next ==
  \/ \E n \in Nodes, i \in Inputs :
       CreateNode(n, i) \/ ReplaceInput(n, i) \/ InvalidateForInputChange(n, i)
  \/ \E w \in Workers, n \in Nodes : ClaimNode(w, n)
  \/ \E w \in Workers : Heartbeat(w) \/ Succeed(w) \/ DropClaim(w)
  \/ \E w \in Workers, disposition \in ErrorDisposition, backoff \in Backoffs :
       Fail(w, disposition, backoff)
  \/ PromoteDueRetries
  \/ \E max_attempts \in 1 .. MaxAttempts, backoff \in Backoffs :
       RecoverStale(max_attempts, backoff)
  \/ \E n \in Nodes : InvalidateSucceeded(n) \/ MarkSkipped(n)
  \/ \E n \in Nodes, op \in Operations : ResetToPending(n, op)
  \/ CancelRun
  \/ \E export_required \in BOOLEAN : UpdateRunStatus(export_required)
  \/ Tick

Spec == Init /\ [][Next]_vars

------------------------------------------------------------------------------
(* Safety, stated for one node's row, its attempts and its result keys *)

\* A node is "running" exactly while its latest attempt is: the row carries that
\* attempt's lease and worker, the attempt was opened for the node's present
\* generation and input, and no other attempt of the node is open.
RunsItsLatestAttempt(row, attempts) ==
  /\ row.status = "running" =>
       /\ row.lease_token = row.attempt_count
       /\ row.attempt_count \in AttemptNos
       /\ attempts[row.attempt_count] =
            [status |-> "running", generation |-> row.generation,
             worker_id |-> row.worker_id, input |-> row.input]
  /\ row.status # "running" => row.lease_token = 0 /\ row.worker_id = NoWorker
  /\ \A k \in AttemptNos : attempts[k].status = "running" =>
       row.status = "running" /\ k = row.attempt_count

\* A node has an output exactly while it is "succeeded"; the output was computed
\* by the node's latest attempt, for the generation and input the row carries
\* now, and the result row of that key has been written.
HasCurrentOutput(row, attempts, keys) ==
  /\ row.status = "succeeded" <=> row.output # 0
  /\ row.output # 0 =>
       /\ row.output = row.attempt_count
       /\ attempts[row.output].status = "succeeded"
       /\ attempts[row.output].generation = row.generation
       /\ attempts[row.output].input = row.input
       /\ [generation |-> row.generation, input |-> row.input] \in keys

\* The program makes MaxAttempts attempts on its own account and one more for
\* every time the node was re-opened; a node that waits for a retry has one left.
WithinRetryBudget(row) ==
  LET granted == row.resume_token - 1
  IN  /\ row.status = "absent" => row.attempt_count = 0
      /\ row.status # "absent" =>
           /\ row.resume_token > 0
           /\ row.attempt_count <= MaxAttempts + granted
      /\ row.status = "pending" => row.attempt_count < MaxAttempts + granted
      /\ row.status = "retry_wait" =>
           row.attempt_count < MaxAttempts /\ row.next_retry # -1

\* Attempts are numbered without gaps, up to the node's attempt_count.
AttemptsNumbered(row, attempts) ==
  \A k \in AttemptNos : attempts[k].status = "absent" <=> k > row.attempt_count

\* A node has a generation from its creation on; of the keys written so far none
\* is of a later one, and a key of the present one means the node has succeeded.
KeysSettled(row, keys) ==
  /\ row.status = "absent" <=> row.generation = 0
  /\ \A key \in keys : /\ key.generation <= row.generation
                       /\ key.generation = row.generation => row.status = "succeeded"

\* Every recovery decision in recover_stale and _locked_node rests on this
\* agreement between execution_nodes and execution_attempts.
AttemptsAgree == \A n \in Nodes : RunsItsLatestAttempt(node[n], attempt[n])

\* A committed output is never that of an outdated attempt, generation or input:
\* _locked_node fences late workers, ensure_node refuses a new input for a
\* running node, and whatever re-opens a node clears its output.
OutputIsCurrent == \A n \in Nodes : HasCurrentOutput(node[n], attempt[n], results[n])

\* Automatic retries (fail and recover_stale) stop at RetryPolicy.max_attempts;
\* every further attempt was granted by a request or an invalidation, each of
\* which renews the resume token.
RetryBudget == \A n \in Nodes : WithinRetryBudget(node[n])

------------------------------------------------------------------------------
(* What a step may never do *)

\* A result key is committed once: no step makes a node succeed for a
\* (generation, input) for which its result has been written before, whatever
\* crashes, late workers, retries and re-runs came in between.
CommitOncePerKey ==
  [][\A n \in Nodes :
       node[n].status # "succeeded" /\ node'[n].status = "succeeded" =>
         [generation |-> node'[n].generation, input |-> node'[n].input]
           \notin results[n]]_vars

\* Attempt history is immutable (execution_attempts, design document section
\* 6.2): an attempt that has ended keeps its row for ever, and a step opens
\* attempts only with the next number.
AttemptHistory ==
  [][\A n \in Nodes : \A k \in AttemptNos :
       /\ attempt[n][k].status \notin {"absent", "running"} =>
            attempt'[n][k] = attempt[n][k]
       /\ attempt[n][k].status = "absent" /\ attempt'[n][k] # attempt[n][k] =>
            k = node[n].attempt_count + 1]_vars

\* A node changes its status along ALLOWED_TRANSITIONS, also in the methods that
\* write it without calling validate_transition; only a new generation may
\* leave a status the table closes.
LegalTransitions ==
  [][\A n \in Nodes :
       \/ node[n].status = "absent"
       \/ node'[n].status = node[n].status
       \/ <<node[n].status, node'[n].status>> \in AllowedTransitions
       \/ node'[n].generation = node[n].generation + 1 /\ node'[n].status = "pending"]_vars

\* A worker whose lease has expired or been taken away never gets it back: its
\* heartbeat thread and its late commits are refused for good, and a lease it is
\* granted later belongs to another claim.
LostLeaseStaysLost ==
  [][\A w \in Workers :
       claim[w] # NoClaim /\ claim'[w] = claim[w] /\ ~HoldsLease(w) => ~HoldsLease(w)']_vars

\* A settled node is re-opened only under a new resume token, so that a request
\* holding the token it was shown before is refused.
ReopeningRenewsToken ==
  [][\A n \in Nodes :
       node[n].status \in Settled /\ node'[n].status \notin Settled =>
         node'[n].resume_token > node[n].resume_token]_vars

------------------------------------------------------------------------------
(* What the repository promises to its workers *)

Ticket(c) == IF c = NoClaim THEN {} ELSE {<<c.node, c.attempt_no>>}

Grants == INSTANCE ExclusiveGrants WITH
  held      <- [n \in Nodes |-> node[n].status = "running"],
  grants    <- [n \in Nodes |-> node[n].attempt_count],
  round     <- [n \in Nodes |-> node[n].generation],
  result    <- [n \in Nodes |-> node[n].output],
  committed <- [n \in Nodes |-> {key.generation : key \in results[n]}],
  ticket    <- [w \in Workers |-> Ticket(claim[w])]

\* Leases, heartbeats, retries, recovery, cancellation and operator requests
\* together are an implementation of exclusive grants: a worker that has been
\* overtaken commits nothing, no two workers hold one node, and a generation of
\* a node is committed once, by the attempt made last.
ImplementsGrants == Grants!Spec

------------------------------------------------------------------------------
(* The inductive invariant behind the safety properties *)

RowInv(row, attempts, keys) ==
  /\ row \in NodeRow
  /\ attempts \in [AttemptNos -> AttemptRow]
  /\ keys \in SUBSET ResultKey
  /\ RunsItsLatestAttempt(row, attempts)
  /\ HasCurrentOutput(row, attempts, keys)
  /\ WithinRetryBudget(row)
  /\ AttemptsNumbered(row, attempts)
  /\ KeysSettled(row, keys)

\* A claim names an attempt that was opened for it.
ClaimInv(w, c) ==
  /\ c.attempt_no <= node[c.node].attempt_count
  /\ attempt[c.node][c.attempt_no].generation = c.generation
  /\ attempt[c.node][c.attempt_no].worker_id = w

IInv ==
  /\ TypeOK
  /\ \A n \in Nodes : RowInv(node[n], attempt[n], results[n])
  /\ \A w \in Workers : claim[w] # NoClaim => ClaimInv(w, claim[w])
=============================================================================
