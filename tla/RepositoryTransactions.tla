----------------------- MODULE RepositoryTransactions -----------------------
(* The transactions of ExecutionRepository on one node, statement by          *)
(* statement, over SQLite with the driver's default transaction control       *)
(* (src/db/session.py): a SELECT runs outside a transaction and sees the last *)
(* commit, and the first INSERT or UPDATE takes the write lock that is kept   *)
(* until the commit.  A method is therefore one step per SELECT and one       *)
(* atomic step for its writes, and other sessions may commit between them.    *)
(*                                                                            *)
(* claim and recover_stale write through a conditional UPDATE, which looks at *)
(* the row again; every other method lets the ORM flush the columns it has    *)
(* changed, by primary key, whatever the row contains by then.                *)
(*                                                                            *)
(* Here time is absolute, and the lease and next_retry of a row are points in *)
(* time.                                                                      *)
EXTENDS ExecutionRows

CONSTANTS
  Workers,      \* worker threads, each with a heartbeat thread
  Recoverers,   \* threads that call recover_stale: every process does at its start
  Requests,     \* threads that call the methods that read, check and flush
  Methods,      \* the methods that are called (a run of TLC studies some of them)
  Dispositions, \* the dispositions of the errors handlers end with
  LeaseTicks,   \* lease_seconds; retries are due at once
  SlowSessions, \* a session of a lease holder may stay open while its lease runs out
  MaxTime,      \* bound of the clock
  MaxClaims     \* bound: how often the node is claimed

ASSUME TransactionsAssumption ==
  /\ NoWorker \notin Workers
  /\ Methods \subseteq {"claim", "heartbeat", "succeed", "fail", "recover", "promote",
                        "cancel"} \cup Operations
  /\ Dispositions \subseteq ErrorDisposition
  /\ LeaseTicks \in Nat \ {0}
  /\ SlowSessions \in BOOLEAN
  /\ MaxTime \in Nat /\ MaxClaims \in Nat

VARIABLES
  node,     \* the row of execution_nodes
  attempt,  \* its rows of execution_attempts
  claim,    \* by worker, the Claim it holds
  txn,      \* by thread, what its open session has read
  now       \* the clock

vars == <<node, attempt, claim, txn, now>>

AttemptNos == 1 .. MaxClaims

Threads == (Workers \X {"main", "heartbeat"})
             \cup (Recoverers \X {"recover"}) \cup (Requests \X {"request"})

NoClaim == [attempt_no |-> 0, generation |-> 0, input |-> NoInput]
Idle == [method |-> "none"]

Init ==
  /\ \E i \in Inputs : node = CreatedRow(i)
  /\ attempt = [k \in AttemptNos |-> NoAttempt]
  /\ claim = [w \in Workers |-> NoClaim]
  /\ txn = [t \in Threads |-> Idle]
  /\ now = 0

------------------------------------------------------------------------------
(* Sessions *)

\* A session is opened with the SELECT of the node; c is the claim it acts for,
\* arg what else the caller passed.
Select(t, method, c, arg) ==
  /\ txn[t] = Idle
  /\ method \in Methods
  /\ txn' = [txn EXCEPT ![t] = [method |-> method, row |-> node, att |-> NoAttempt,
                                claim |-> c, arg |-> arg, time |-> now]]

Reading(t, method) == txn[t] # Idle /\ txn[t].method = method

Close(t) == txn' = [txn EXCEPT ![t] = Idle]

\* Mutant of Flush: the whole row is written.
Flush_WholeRow(loaded, new) == new

\* The flush writes the attributes whose value differs from the one loaded.  A
\* new resume token is a fresh uuid.
Flush(loaded, new) ==
  [f \in DOMAIN node |->
     IF new[f] = loaded[f] THEN node[f]
     ELSE IF f = "resume_token" THEN node[f] + 1
     ELSE new[f]]

Rejected(t) == Close(t) /\ UNCHANGED <<node, attempt, claim, now>>

------------------------------------------------------------------------------
(* claim *)

SelectForClaim(w) ==
  /\ claim[w] = NoClaim
  /\ node.status = "pending"
  /\ node.attempt_count < MaxClaims
  /\ Select(<<w, "main">>, "claim", NoClaim, "none")
  /\ UNCHANGED <<node, attempt, claim, now>>

ClaimCondition(read) ==
  node.status = "pending" /\ node.attempt_count = read.attempt_count

\* The attempt and the Claim carry the generation and the input of the row that
\* was read, not of the row that is updated.
ClaimWon(w) ==
  LET t == <<w, "main">>
      read == txn[t].row
      no == read.attempt_count + 1
  IN  /\ Reading(t, "claim")
      /\ ClaimCondition(read)
      /\ node' = ClaimedRow(node, w, txn[t].time + LeaseTicks)
      /\ attempt' = [attempt EXCEPT ![no] = ClaimedAttempt(read, w)]
      /\ claim' = [claim EXCEPT ![w] =
           [attempt_no |-> no, generation |-> read.generation, input |-> read.input]]
      /\ Close(t)
      /\ UNCHANGED now

ClaimLost(w) ==
  /\ Reading(<<w, "main">>, "claim")
  /\ ~ClaimCondition(txn[<<w, "main">>].row)
  /\ Rejected(<<w, "main">>)

------------------------------------------------------------------------------
(* heartbeat, succeed, fail: _locked_node, _running_attempt, flush *)

LockedNode(w, c) ==
  /\ node.status = "running"
  /\ node.generation = c.generation
  /\ node.lease_token = c.attempt_no
  /\ node.worker_id = w
  /\ node.lease # -1 /\ node.lease >= now

RunningAttempt(c) ==
  /\ attempt[c.attempt_no].status = "running"
  /\ attempt[c.attempt_no].generation = c.generation

SelectLockedNode(w) ==
  /\ claim[w] # NoClaim
  /\ LockedNode(w, claim[w])
  /\ \/ Select(<<w, "heartbeat">>, "heartbeat", claim[w], "none")
     \/ Select(<<w, "main">>, "succeed", claim[w], "none")
     \/ \E d \in Dispositions : Select(<<w, "main">>, "fail", claim[w], d)
  /\ UNCHANGED <<node, attempt, claim, now>>

ForClaim(t) ==
  txn[t] # Idle /\ txn[t].method \in {"heartbeat", "succeed", "fail"}

SelectRunningAttempt(t) ==
  /\ ForClaim(t) /\ txn[t].att = NoAttempt
  /\ RunningAttempt(txn[t].claim)
  /\ txn' = [txn EXCEPT ![t].att = attempt[txn[t].claim.attempt_no]]
  /\ UNCHANGED <<node, attempt, claim, now>>

\* LeaseLost, from either SELECT, ends the worker's claim.
LeaseLost(w) ==
  /\ claim[w] # NoClaim
  /\ IF txn[<<w, "main">>] = Idle
     THEN ~LockedNode(w, claim[w])
     ELSE txn[<<w, "main">>].att = NoAttempt /\ ~RunningAttempt(claim[w])
  /\ Close(<<w, "main">>)
  /\ claim' = [claim EXCEPT ![w] = NoClaim]
  /\ UNCHANGED <<node, attempt, now>>

HeartbeatLost(w) ==
  LET t == <<w, "heartbeat">> IN
    /\ Reading(t, "heartbeat")
    /\ txn[t].att = NoAttempt /\ ~RunningAttempt(txn[t].claim)
    /\ Rejected(t)

FlushHeartbeat(w) ==
  LET t == <<w, "heartbeat">> IN
    /\ Reading(t, "heartbeat") /\ txn[t].att # NoAttempt
    /\ node' = Flush(txn[t].row, [txn[t].row EXCEPT !.lease = txn[t].time + LeaseTicks])
    /\ Close(t)
    /\ UNCHANGED <<attempt, claim, now>>

\* The row and attempt status a finished handler leaves.
Outcome(t) ==
  IF txn[t].method = "succeed"
  THEN [row |-> SucceededRow(txn[t].row), status |-> "succeeded"]
  ELSE [row |-> FailedRow(txn[t].row, txn[t].arg, txn[t].time),
        status |-> FailTarget(txn[t].row, txn[t].arg)]

FlushOutcome(w) ==
  LET t == <<w, "main">> IN
    /\ ForClaim(t) /\ txn[t].att # NoAttempt
    /\ node' = Flush(txn[t].row, Outcome(t).row)
    /\ attempt' = [attempt EXCEPT ![claim[w].attempt_no] =
                     FinishedAttempt(@, Outcome(t).status)]
    /\ claim' = [claim EXCEPT ![w] = NoClaim]
    /\ Close(t)
    /\ UNCHANGED now

\* The process of the worker dies, and its two sessions are rolled back.
Crash(w) ==
  /\ claim[w] # NoClaim
  /\ claim' = [claim EXCEPT ![w] = NoClaim]
  /\ txn' = [txn EXCEPT ![<<w, "main">>] = Idle, ![<<w, "heartbeat">>] = Idle]
  /\ UNCHANGED <<node, attempt, now>>

------------------------------------------------------------------------------
(* recover_stale: the node, its running attempt, the conditional UPDATE *)

SelectStale(p) ==
  /\ node.status = "running" /\ node.lease # -1 /\ node.lease < now
  /\ Select(<<p, "recover">>, "recover", NoClaim, "none")
  /\ UNCHANGED <<node, attempt, claim, now>>

SelectStaleAttempt(p) ==
  LET t == <<p, "recover">>
      att == attempt[txn[t].row.lease_token]
  IN  /\ Reading(t, "recover") /\ txn[t].arg = "none"
      /\ txn' = [txn EXCEPT ![t].arg = "attempt",
                            ![t].att = IF att.status = "running" THEN att ELSE NoAttempt]
      /\ UNCHANGED <<node, attempt, claim, now>>

\* Mutant of StaleCondition: the row is not looked at again.
StaleCondition_None(read, time) == TRUE

StaleCondition(read, time) ==
  /\ node.status = "running"
  /\ node.lease_token = read.lease_token
  /\ node.worker_id = read.worker_id
  /\ node.lease = read.lease
  /\ node.lease < time

UpdateStale(p) ==
  LET t == <<p, "recover">>
      read == txn[t].row
  IN  /\ Reading(t, "recover") /\ txn[t].arg = "attempt"
      /\ StaleCondition(read, txn[t].time)
      /\ node' = RecoveredRow(node, MaxAttempts, txn[t].time)
      /\ attempt' = [attempt EXCEPT ![read.lease_token] =
           IF txn[t].att = NoAttempt THEN @ ELSE FinishedAttempt(@, "stale")]
      /\ Close(t)
      /\ UNCHANGED <<claim, now>>

StaleLost(p) ==
  LET t == <<p, "recover">> IN
    /\ Reading(t, "recover") /\ txn[t].arg = "attempt"
    /\ ~StaleCondition(txn[t].row, txn[t].time)
    /\ Rejected(t)

------------------------------------------------------------------------------
(* promote_due_retries, cancel_run, resume_human, retry_node and force_rerun  *)
(* read the node, check its status, and flush; ensure_node, mark_skipped and  *)
(* invalidate_succeeded do the same.                                          *)

Readable(method) ==
  CASE method = "promote" -> node.status = "retry_wait" /\ node.next_retry <= now
    [] method = "cancel" -> node.status \in Cancellable
    [] method \in Operations -> node.status \in OperationAllows(method)

FlushMethods == Operations \cup {"promote", "cancel"}

SelectForUpdate(r) ==
  /\ \E method \in FlushMethods :
       Readable(method) /\ Select(<<r, "request">>, method, NoClaim, "none")
  /\ UNCHANGED <<node, attempt, claim, now>>

Updated(t) ==
  LET row == txn[t].row IN
    CASE txn[t].method = "promote" -> PromotedRow(row)
      [] txn[t].method = "cancel" -> CancelledRow(row)
      [] txn[t].method \in Operations -> ResetRow(row, txn[t].method)

FlushUpdate(r) ==
  LET t == <<r, "request">> IN
    /\ txn[t] # Idle /\ txn[t].method \in FlushMethods
    /\ node' = Flush(txn[t].row, Updated(t))
    /\ Close(t)
    /\ UNCHANGED <<attempt, claim, now>>

------------------------------------------------------------------------------

\* A session lasts milliseconds and a lease 90 seconds: unless sessions are slow,
\* time does not pass between the SELECT and the flush of a lease holder.
Tick ==
  /\ now < MaxTime
  /\ SlowSessions \/ \A t \in Threads : ~ForClaim(t)
  /\ now' = now + 1
  /\ UNCHANGED <<node, attempt, claim, txn>>

Next ==
  \/ \E w \in Workers :
       \/ SelectForClaim(w) \/ ClaimWon(w) \/ ClaimLost(w)
       \/ SelectLockedNode(w) \/ LeaseLost(w) \/ HeartbeatLost(w)
       \/ FlushHeartbeat(w) \/ FlushOutcome(w) \/ Crash(w)
  \/ \E t \in Threads : SelectRunningAttempt(t)
  \/ \E p \in Recoverers :
       SelectStale(p) \/ SelectStaleAttempt(p) \/ UpdateStale(p) \/ StaleLost(p)
  \/ \E r \in Requests : SelectForUpdate(r) \/ FlushUpdate(r)
  \/ Tick

Spec == Init /\ [][Next]_vars
------------------------------------------------------------------------------
(* What holds however the statements interleave *)

\* The node is "running" exactly while its latest attempt is.  It holds for the
\* conditional updates of claim and recover_stale under any interleaving, and for
\* heartbeat beside succeed and fail because a flush writes changed columns only.
AttemptsAgree ==
  /\ node.status = "running" =>
       /\ node.lease_token = node.attempt_count
       /\ attempt[node.attempt_count].status = "running"
       /\ attempt[node.attempt_count].worker_id = node.worker_id
       /\ attempt[node.attempt_count].generation = node.generation
  /\ \A k \in AttemptNos : attempt[k].status = "running" =>
       node.status = "running" /\ k = node.attempt_count

\* A running node is taken from its worker only after its lease has run out: it
\* leaves "running" with the commit or failure of the claim that holds the lease,
\* or by a recover_stale that finds that very lease expired.
OnlyExpiredLeasesTaken ==
  [][node.status = "running" /\ node'.status # "running" =>
       \/ node.lease < now
       \/ \E w \in Workers :
            claim[w].attempt_no = node.lease_token /\ claim'[w] = NoClaim]_vars
=============================================================================
