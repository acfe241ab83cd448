------------------------------ MODULE Pipeline ------------------------------
(* One run of the recoverable pipeline (src/pipeline/recoverable.py): the     *)
(* stages of its products over the node rows of ExecutionRows, driven by the  *)
(* worker thread of one server process that crashes and is restarted, while   *)
(* users cancel, retry, resume and re-run (src/agent/runner.py).              *)
(*                                                                            *)
(* A node is <<scope, stage>>.  Its input is the sequence of the dependencies *)
(* that go into its fingerprint; the status and generation of an upstream     *)
(* node stand for its output, which is computed once per generation.  Of the  *)
(* outputs only what steers the pipeline is kept: the products found, whether *)
(* a match has suppliers, a profit exists and records are left to export.     *)
(* A retry is due at 0 and not yet due at 1; a lease is held at 0.            *)
EXTENDS ExecutionRows, Discovery

CONSTANTS
  MarketCap,      \* mjjl_max_products_per_run
  ExportEnabled,  \* config["export"]
  Unlimited,      \* the stages whose failures count nothing against MaxSurprises
  MaxSurprises,   \* bound: crashes, failures, empty outputs, lost export files, and
                  \* reads and writes of the database that fail
  MaxRequests     \* bound: what users do

ASSUME PipelineAssumption ==
  /\ MarketCap \in Nat /\ MaxSurprises \in Nat /\ MaxRequests \in Nat
  /\ ExportEnabled \in BOOLEAN

VARIABLES
  node,       \* execution_nodes
  output,     \* by node, what its last success put out
  run,        \* run_logs.status
  driver,     \* where _run_job and _execute are, with the local variables of the latter
  seen,       \* the status of the run that _run_job has read for its report
  job,        \* the job's status
  cancel,     \* the job's cancel_requested
  client,     \* where cancel_job is after it has released the lock
  recovering, \* whether a timer of _schedule_cancel_recovery is set
  surprises, requests   \* how much of the bounds is used up

bounds == <<surprises, requests>>
threads == <<client, recovering, seen>>
vars == <<node, output, run, driver, seen, job, cancel, client, recovering, surprises, requests>>

Stages == <<"source_discovery", "ingest", "market", "match", "profit", "score",
            "filter", "export">>
AsinStages == {"ingest", "market", "match", "profit", "score"}

Source == <<"run", "source_discovery">>
FilterNode == <<"run", "filter">>
ExportNode == <<"run", "export">>
NodeIds == {Source, FilterNode, ExportNode} \cup (Asins \X AsinStages)

JobStatus == {"queued", "running", "cancel_requested", "retry_wait",
              "human_required", "failed", "cancelled", "success"}

\* At "visit" the driver is about to look at node <<Head(todo), stage>>.
Idle == [pc |-> "idle", stage |-> 1, todo |-> <<>>, products |-> <<>>,
         market |-> {}, doomed |-> FALSE]

Init ==
  /\ node = [n \in NodeIds |-> Absent]
  /\ output = [n \in NodeIds |-> IF n = Source THEN <<>> ELSE FALSE]
  /\ run = "running"
  /\ driver = Idle
  /\ job = "queued"
  /\ cancel = FALSE
  /\ seen = "none" /\ client = "idle" /\ recovering = FALSE
  /\ surprises = 0 /\ requests = 0

Stage == Stages[driver.stage]
Current == <<Head(driver.todo), Stage>>

------------------------------------------------------------------------------
(* What the driver reads *)

Succeeded(n) == node[n].status = "succeeded"

\* _node_dependency; the generation of a node that is missing is 0.
Dependency(n) == <<node[n].status, node[n].generation>>

\* The outputs the driver holds in memory: of the stages that succeeded, and of
\* market only if this execution has come by.
HasSuppliers(a) == Succeeded(<<a, "match">>) /\ output[<<a, "match">>]
HasProfit(a) == Succeeded(<<a, "profit">>) /\ output[<<a, "profit">>]
HasExport == Succeeded(FilterNode) /\ output[FilterNode]

\* _dump_record
Record(a, loaded) ==
  <<IF HasSuppliers(a) THEN node[<<a, "match">>].generation ELSE 0,
    IF HasProfit(a) THEN node[<<a, "profit">>].generation ELSE 0,
    a \in loaded, Dependency(<<a, "score">>)>>

\* The input of node n, for a driver that works on `products` and has loaded the
\* market evidence of those in `loaded`.
InputOf(n, products, loaded) ==
  LET Up(stage) == Dependency(<<n[1], stage>>)
  IN CASE n[2] = "source_discovery" -> <<>>
       [] n[2] = "ingest" -> <<Dependency(Source)>>
       [] n[2] = "market" -> <<Up("ingest")>>
       [] n[2] = "match"  -> <<Up("ingest"), Up("market"), n[1] \in loaded>>
       [] n[2] = "profit" -> <<Up("match")>>
       [] n[2] = "score"  -> <<Up("profit"), Up("market"), n[1] \in loaded>>
       [] n[2] = "filter" -> [i \in DOMAIN products |-> Record(products[i], loaded)]
       [] n[2] = "export" -> <<Dependency(FilterNode)>>

InputNow(n) == InputOf(n, driver.products, driver.market)

\* The nodes the driver skips, by a business rule.
Skips(n, products) ==
  CASE n[2] = "market" -> \E i \in DOMAIN products : products[i] = n[1] /\ i > MarketCap
    [] n[2] = "profit" -> ~HasSuppliers(n[1])
    [] n[2] = "score"  -> ~HasProfit(n[1])
    [] n[2] = "export" -> ~ExportEnabled \/ ~HasExport
    [] OTHER           -> FALSE

\* The profit stage passes over products that were not matched.
PassesOver(n) == n[2] = "profit" /\ ~Succeeded(<<n[1], "match">>)

\* Mutant of Waiting: a node that waits for its retry does not hold the stage.
Waiting_NoRetry(stage) ==
  \E n \in NodeIds : n[2] = stage /\ node[n].status \in {"pending", "running"}

\* _stage_waiting
Waiting(stage) ==
  \E n \in NodeIds :
    n[2] = stage /\ node[n].status \in {"pending", "running", "retry_wait"}

\* update_run_status over the rows of `table`, for a run of status `status`.
Aggregate(table, status, export_required) ==
  AggregateRunStatus({table[n] : n \in {m \in NodeIds : table[m].status # "absent"}},
                     {table[ExportNode]} \ {Absent}, status, export_required)

------------------------------------------------------------------------------
(* What a visit does to the rows: ensure_node, and then skip_node or run_node *)

\* ensure_node raises rather than replace the input of a running node.
Refuses(n) == node[n].status = "running" /\ node[n].input # InputNow(n)

EnsuredRow(row, i) ==
  IF row.status = "absent"           THEN CreatedRow(i)
  ELSE IF InputInvalidates(row, i)   THEN InputInvalidatedRow(row, i)
  ELSE IF InputReplaceable(row, i)   THEN ReplacedInputRow(row, i)
  ELSE row

Ensured(n) == [node EXCEPT ![n] = EnsuredRow(@, InputNow(n))]

\* skip_node
Skipped(n) ==
  [Ensured(n) EXCEPT ![n] = IF @.status = "pending" THEN SkippedRow(@) ELSE @]

Due(row) == row.status = "retry_wait" /\ row.next_retry = 0
Promoted(table) == [n \in NodeIds |-> IF Due(table[n]) THEN PromotedRow(table[n]) ELSE table[n]]

\* run_node up to the claim; a retry that waits is promoted with all that are due.
Ready(n, valid) ==
  LET rows == [Ensured(n) EXCEPT ![n] =
                 IF @.status = "succeeded" /\ ~valid THEN ResultInvalidatedRow(@) ELSE @]
  IN  IF rows[n].status = "retry_wait" THEN Promoted(rows) ELSE rows

Claimed(n, valid) ==
  [Ready(n, valid) EXCEPT ![n] = IF @.status = "pending" THEN ClaimedRow(@, "worker", 0) ELSE @]

\* Whether run_node goes on to the handler.
Executes(n, valid) == Ready(n, valid)[n].status = "pending"

------------------------------------------------------------------------------
(* Where the driver goes from a node whose status is now `status` *)

Return(pc) == driver' = [driver EXCEPT !.pc = pc, !.todo = <<>>, !.doomed = FALSE]

\* Without a source there is nothing to do: the run waits, or it fails.
LeaveSource(table, status) ==
  IF status = "succeeded"
  THEN /\ driver' = [driver EXCEPT !.pc = "visit", !.stage = 2, !.doomed = FALSE,
                                   !.todo = output'[Source]]
       /\ UNCHANGED run
  ELSE IF status \in {"human_required", "retry_wait", "cancelled"}
  THEN Return("returned") /\ run' = Aggregate(table, run, FALSE)
  ELSE Return("raised") /\ run' = "failed"

\* A product whose market evidence has to wait keeps the products after it from
\* the browser.
MarketBreaks(n, status) ==
  n[2] = "market" /\ status \in {"human_required", "retry_wait", "cancelled"}

LeaveNode(n, status) ==
  /\ driver' = [driver EXCEPT
       !.pc = "visit", !.doomed = FALSE,
       !.todo = IF MarketBreaks(n, status) THEN <<>> ELSE Tail(@),
       !.products = IF n[2] = "ingest" /\ status = "succeeded" THEN Append(@, n[1]) ELSE @,
       !.market = IF n[2] = "market" /\ status = "succeeded" THEN @ \cup {n[1]} ELSE @]
  /\ UNCHANGED run

\* The driver goes on without a look at the node.
Continue == driver' = [driver EXCEPT !.todo = Tail(@)] /\ UNCHANGED run

Leave(n, table) ==
  IF n = Source THEN LeaveSource(table, table[n].status) ELSE LeaveNode(n, table[n].status)

------------------------------------------------------------------------------
(* The driver *)

Visiting == driver.pc = "visit" /\ driver.todo # <<>>

VisitRefused ==
  /\ Visiting /\ ~PassesOver(Current) /\ Refuses(Current)
  /\ Return("raised")
  /\ UNCHANGED <<node, output, run, job, cancel, bounds, threads>>

PassOver ==
  /\ Visiting /\ PassesOver(Current)
  /\ Continue
  /\ UNCHANGED <<node, output, job, cancel, bounds, threads>>

Skip ==
  /\ Visiting /\ ~PassesOver(Current) /\ ~Refuses(Current) /\ Skips(Current, driver.products)
  /\ node' = Skipped(Current)
  /\ Continue
  /\ UNCHANGED <<output, job, cancel, bounds, threads>>

Surprise(cost) ==
  /\ surprises + cost <= MaxSurprises
  /\ surprises' = surprises + cost
  /\ UNCHANGED requests

\* The result rows of a node are written in the transaction that makes it
\* succeed; only the files of an export can be lost to the success validator.
\* Cancellation is checked once before the handler and once after it.
Visit ==
  /\ Visiting /\ ~PassesOver(Current) /\ ~Refuses(Current) /\ ~Skips(Current, driver.products)
  /\ \E valid \in BOOLEAN :
       /\ valid \/ (Current = ExportNode /\ Succeeded(ExportNode))
       /\ Surprise(IF valid THEN 0 ELSE 1)
       /\ node' = Claimed(Current, valid)
       /\ IF Executes(Current, valid)
          THEN /\ driver' = [driver EXCEPT !.pc = "handler", !.doomed = cancel]
               /\ UNCHANGED <<output, run>>
          ELSE UNCHANGED output /\ Leave(Current, node')
  /\ UNCHANGED <<job, cancel, threads>>

\* What a handler puts out if all goes well, and what it may put out.
PlainOutput(n) ==
  CASE n = Source                   -> Catalogue
    [] n[2] \in {"match", "profit"} -> TRUE
    [] n = FilterNode               -> \E i \in DOMAIN driver.products :
                                         Succeeded(<<driver.products[i], "score">>)
    [] OTHER                        -> FALSE

Outputs(n) ==
  IF n = Source THEN DiscoveredProducts
  ELSE {FALSE, PlainOutput(n)}

HandlerSucceeds ==
  /\ driver.pc = "handler" /\ ~driver.doomed
  /\ \E out \in Outputs(Current) :
       /\ Surprise(IF out = PlainOutput(Current) THEN 0 ELSE 1)
       /\ output' = [output EXCEPT ![Current] = out]
  /\ node' = [node EXCEPT ![Current] = SucceededRow(@)]
  /\ Leave(Current, node')
  /\ UNCHANGED <<job, cancel, threads>>

\* The codes of SellerSprite that no person and no retry within the call resolves,
\* and those that ask for a person.
SellerSpriteErrors ==
  {Error("SellerSpriteWorkflowError", code, "nothing") :
     code \in {"ASIN_MISMATCH", "EXPORT_FAILED", "DOWNLOAD_TIMEOUT", "INVALID_EXPORT",
              "AMBIGUOUS_DOWNLOAD", "INTERNAL"}}
  \cup {Error("HumanActionRequired", code, "nothing") :
          code \in {"EXTENSION_UNAVAILABLE", "SELLERSPRITE_LOGIN_REQUIRED", "CAPTCHA",
                   "SELLERSPRITE_PERMISSION_REQUIRED", "SELLERSPRITE_QUOTA_EXCEEDED",
                   "NEEDS_HUMAN"}}

\* What a handler raises: the deadline of the stage and the failures of files and
\* of the database anywhere, and what is particular to its stage.
Errors(stage) ==
  {Plain("TimeoutError"), Plain("OSError"), Plain("OperationalError")}
  \cup (CASE stage = "source_discovery" -> DiscoveryErrors
          [] stage = "market"           -> SellerSpriteErrors
          [] OTHER                      -> {})

\* How the stages of long duration report that they were cancelled while they ran:
\* as an error of their own.
OwnCancellation(stage) ==
  CASE stage = "match"  -> {Plain("PipelineCancelled")}
    [] stage = "market" -> {Error("SellerSpriteWorkflowError", "CANCELLED", "nothing")}
    [] OTHER            -> {}

Cancellations ==
  IF ~cancel THEN {}
  ELSE {Plain("CancellationRequested")} \cup (IF driver.doomed THEN {} ELSE OwnCancellation(Stage))

\* A match that times out fails the whole run when it has one product only,
\* whether the node waits for a retry or not.
HandlerFails ==
  /\ driver.pc = "handler"
  /\ \E e \in Cancellations \cup (IF driver.doomed THEN {} ELSE Errors(Stage)) :
       /\ Surprise(IF e \in Cancellations \/ Stage \in Unlimited THEN 0 ELSE 1)
       /\ node' = [node EXCEPT ![Current] = FailedRow(@, Classified(e), 1)]
       /\ IF Stage = "match" /\ e.class = "TimeoutError" /\ Len(driver.products) = 1
          THEN Return("raised") /\ run' = "failed"
          ELSE Leave(Current, node')
  /\ UNCHANGED <<output, job, cancel, threads>>

\* The barrier after a stage, and the end of the run.
NextStage ==
  /\ driver.pc = "visit" /\ driver.todo = <<>>
  /\ IF Stage \in AsinStages /\ Waiting(Stage)
     THEN Return("returned") /\ run' = Aggregate(node, run, FALSE)
     ELSE IF Stage = "export"
     THEN Return("returned") /\ run' = Aggregate(node, run, ExportEnabled /\ HasExport)
     ELSE /\ driver' = [driver EXCEPT
               !.stage = @ + 1,
               !.todo = IF Stages[driver.stage + 1] \in AsinStages
                        THEN driver.products ELSE <<"run">>]
          /\ UNCHANGED run
  /\ UNCHANGED <<node, output, job, cancel, bounds, threads>>

------------------------------------------------------------------------------
(* The job that runs the pipeline: AgentRuntime, for a single job *)

Recovered(table, max_attempts, retry) ==
  [n \in NodeIds |-> IF table[n].status = "running" /\ table[n].lease < 0
                     THEN RecoveredRow(table[n], max_attempts, retry) ELSE table[n]]

\* run_recoverable_pipeline or resume_recoverable_pipeline, up to the first visit.
\* The worker loop drops a queued job whose cancellation was requested: it stays
\* "queued", in no queue.
Start ==
  /\ driver.pc = "idle" /\ job = "queued" /\ ~cancel
  /\ job' = "running" /\ run' = "running"
  /\ node' = Recovered(node, MaxAttempts, 1)
  /\ driver' = [Idle EXCEPT !.pc = "visit", !.todo = <<"run">>]
  /\ UNCHANGED <<output, cancel, bounds, threads>>

\* The preflight or the guard of the market data refuses; the pipeline is not begun.
PreflightFails ==
  /\ driver.pc = "idle" /\ job = "queued" /\ ~cancel
  /\ Surprise(1)
  /\ job' = "failed"
  /\ UNCHANGED <<node, output, run, driver, cancel, threads>>

Proceed(from, to) ==
  driver.pc = from /\ driver' = [driver EXCEPT !.pc = to]

\* After a pipeline that has returned, the one look at the flag: _mark_cancelled.
MarkCancelled ==
  /\ driver.pc = "returned" /\ cancel
  /\ job' = "cancelled"
  /\ driver' = Idle
  /\ UNCHANGED <<node, output, run, cancel, bounds, threads>>

Collect ==
  /\ ~cancel /\ Proceed("returned", "collect")
  /\ UNCHANGED <<node, output, run, job, cancel, bounds, threads>>

\* The exports are looked up and audited, which may raise.
CollectFails ==
  /\ Proceed("collect", "raised") /\ Surprise(1)
  /\ UNCHANGED <<node, output, run, job, cancel, threads>>

\* _run_status; a run that cannot be read is reported as one that was.
ReadStatus ==
  /\ Proceed("collect", "report")
  /\ \/ seen' = run /\ UNCHANGED bounds
     \/ seen' = "unreadable" /\ Surprise(1)
  /\ UNCHANGED <<node, output, run, job, cancel, client, recovering>>

\* A success may lack the evidence that the job's configuration asks for.
ReportedAs(status) ==
  IF status \in {"unreadable", "success"} THEN {"success", "failed"}
  ELSE IF status = "running" THEN {"retry_wait"}
  ELSE {status}

\* The job's status by what was read, whatever has been requested since.
Report ==
  /\ driver.pc = "report"
  /\ job' \in ReportedAs(seen)
  /\ driver' = Idle /\ seen' = "none"
  /\ UNCHANGED <<node, output, run, cancel, client, recovering, bounds>>

\* The except clause, which looks at the flag under the lock.
ReportError ==
  /\ driver.pc = "raised"
  /\ job' = IF cancel THEN "cancelled" ELSE "failed"
  /\ driver' = Idle
  /\ UNCHANGED <<node, output, run, cancel, bounds, threads>>

\* _schedule_retry
Requeue ==
  /\ driver.pc = "idle" /\ job = "retry_wait"
  /\ job' = "queued"
  /\ UNCHANGED <<node, output, run, driver, cancel, bounds, threads>>

\* Time passes: retries fall due, and leases nobody renews run out.
ElapsedRow(n) ==
  [node[n] EXCEPT
     !.lease = IF driver.pc = "handler" /\ n = Current THEN @ ELSE -1,
     !.next_retry = IF @ > 0 THEN 0 ELSE @]

Elapse ==
  /\ node' = [n \in NodeIds |-> ElapsedRow(n)]
  /\ UNCHANGED <<output, run, driver, job, cancel, bounds, threads>>

Crash ==
  /\ driver.pc # "down"
  /\ Surprise(1)
  /\ driver' = [Idle EXCEPT !.pc = "down"]
  /\ client' = "idle" /\ recovering' = FALSE /\ seen' = "none"
  /\ UNCHANGED <<node, output, run, job, cancel>>

\* The server starts: _recover_interrupted_runs, then _load_jobs, which takes
\* the status of a job that was under way from the run.
UnderWay == {"running", "cancel_requested", "retry_wait"}

Restart ==
  /\ driver.pc = "down"
  /\ node' = Promoted(Recovered(node, MaxAttempts, 0))
  /\ run' = IF run \notin UnderWay THEN run
            ELSE IF node'[Source].status = "absent" THEN "retry_wait"
            ELSE Aggregate(node', run, TRUE)
  /\ job' = IF job \notin UnderWay THEN job
            ELSE IF run' \in {"running", "retry_wait"} THEN "queued"
            ELSE run'
  /\ cancel' = (cancel /\ ~(job \in UnderWay /\ job' = "queued"))
  /\ recovering' = (job' = "cancel_requested")
  /\ driver' = Idle
  /\ UNCHANGED <<output, client, seen, bounds>>

Cancelled(table) ==
  [n \in NodeIds |-> IF table[n].status \in Cancellable THEN CancelledRow(table[n]) ELSE table[n]]

\* _schedule_cancel_recovery, which a restart sets off: until no node of the run
\* is running, leases that have run out end their nodes for good.
RecoverCancelled ==
  /\ recovering /\ job = "cancel_requested"
  /\ node' = Cancelled(Recovered(node, 1, 0))
  /\ run' = Aggregate(node', "cancel_requested", TRUE)
  /\ recovering' = (run' = "cancel_requested")
  /\ job' = IF run' = "cancel_requested" THEN job ELSE "cancelled"
  /\ UNCHANGED <<output, driver, cancel, client, seen, bounds>>

------------------------------------------------------------------------------
(* Users *)

Request ==
  /\ driver.pc # "down"
  /\ requests < MaxRequests
  /\ requests' = requests + 1
  /\ UNCHANGED surprises

\* The part of cancel_job under the lock.  One request at a time is on its way
\* through the rest, which needs a run that has got nodes.
CancelJob ==
  /\ Request
  /\ client = "idle"
  /\ job \in {"queued", "running", "cancel_requested"}
  /\ job' = IF job = "queued" THEN "cancelled" ELSE "cancel_requested"
  /\ cancel' = (cancel \/ job # "cancel_requested")
  /\ client' = IF cancel' /\ node[Source].status # "absent" THEN "cancel_run" ELSE "idle"
  /\ UNCHANGED <<node, output, run, driver, recovering, seen>>

\* After the lock is released, two transactions: the nodes that wait are cancelled,
\* and then the status of the run follows.
CancelRun ==
  /\ client = "cancel_run"
  /\ node' = Cancelled(node)
  /\ run' = "cancel_requested"
  /\ client' = "update_run"
  /\ UNCHANGED <<output, driver, job, cancel, recovering, seen, bounds>>

UpdateRun ==
  /\ client = "update_run"
  /\ run' = Aggregate(node, run, TRUE)
  /\ client' = "idle"
  /\ UNCHANGED <<node, output, driver, job, cancel, recovering, seen, bounds>>

\* What either of them raises is swallowed.
CancelFails ==
  /\ client # "idle"
  /\ Surprise(1)
  /\ client' = "idle"
  /\ UNCHANGED <<node, output, run, driver, job, cancel, recovering, seen>>

\* operate_node: resume, retry or force-rerun one node while the job rests.
OperateNode(n, op) ==
  /\ Request
  /\ driver.pc = "idle"
  /\ job \notin {"queued", "running", "cancel_requested"}
  /\ node[n].status \in OperationAllows(op)
  /\ node' = [node EXCEPT ![n] = ResetRow(@, op)]
  /\ job' = "queued" /\ cancel' = FALSE
  /\ UNCHANGED <<output, run, driver, threads>>

\* _prepare_recoverable_retry
RetriedRow(row) ==
  IF row.status \in {"failed", "timed_out"} THEN ResetRow(row, "retry")
  ELSE IF row.status = "cancelled" THEN ResetRow(row, "force_rerun")
  ELSE row

\* retry_job: without a node to retry it starts another run instead.
RetryJob ==
  /\ Request
  /\ driver.pc = "idle"
  /\ job \in {"failed", "cancelled"}
  /\ \E n \in NodeIds : RetriedRow(node[n]) # node[n]
  /\ node' = [n \in NodeIds |-> RetriedRow(node[n])]
  /\ job' = "queued" /\ cancel' = FALSE
  /\ UNCHANGED <<output, run, driver, threads>>

------------------------------------------------------------------------------

Handler == HandlerSucceeds \/ HandlerFails
EndOfJob == MarkCancelled \/ Collect \/ CollectFails \/ ReadStatus \/ Report \/ ReportError

Next ==
  \/ Start \/ PreflightFails \/ VisitRefused \/ PassOver \/ Skip \/ Visit
  \/ Handler \/ NextStage \/ EndOfJob
  \/ Requeue \/ Elapse \/ Crash \/ Restart \/ RecoverCancelled
  \/ CancelJob \/ CancelRun \/ UpdateRun \/ CancelFails \/ RetryJob
  \/ \E n \in NodeIds, op \in Operations : OperateNode(n, op)

Spec == Init /\ [][Next]_vars

\* The worker thread takes the next step of _run_job and _execute and a request
\* that is under way goes on, timers fire, time passes and a server that is down
\* is started again.
Fairness ==
  /\ WF_vars(Start \/ PreflightFails \/ VisitRefused \/ PassOver \/ Skip \/ Visit
               \/ Handler \/ NextStage \/ EndOfJob)
  /\ WF_vars(CancelRun \/ UpdateRun)
  /\ WF_vars(Requeue) /\ WF_vars(RecoverCancelled)
  /\ WF_vars(Elapse) /\ WF_vars(Restart)

FairSpec == Spec /\ Fairness
------------------------------------------------------------------------------

\* The products that were found last, their nodes, and the products whose market
\* evidence a driver would load.
FoundNow == output[Source]
NodesNow == {Source, FilterNode, ExportNode}
              \cup {<<FoundNow[i], stage>> : i \in DOMAIN FoundNow, stage \in AsinStages}
LoadedNow == {a \in Asins : Succeeded(<<a, "market">>) /\ ~Skips(<<a, "market">>, FoundNow)}

\* Market evidence of a product that has come to be beyond the cap stays.
StatusAllowed(n) ==
  IF ~Skips(n, FoundNow) THEN {"succeeded"}
  ELSE IF n[2] = "market" THEN {"skipped", "succeeded"} ELSE {"skipped"}

\* Every node of the products that were found has been executed, or skipped by
\* its rule, for what the nodes it depends on have put out last.
AllCurrent ==
  \A n \in NodesNow :
    /\ node[n].status \in StatusAllowed(n)
    /\ node[n].input = InputOf(n, FoundNow, LoadedNow)

\* An execution ends in success, and is reported as one, only when every node is up
\* to date, through whatever crashes, retries, cancellations, resumed and re-run nodes
\* the run went: the filter and the export are never those of earlier results.
SuccessIsEarned ==
  \/ driver.pc \in {"returned", "collect"} /\ run = "success"
  \/ driver.pc = "report" /\ seen = "success"
  => AllCurrent

\* No handler is started while a product of the run still waits in an earlier
\* stage: the barriers hold whatever was retried, resumed or recovered.
StagesInOrder ==
  [][driver'.pc = "handler" /\ driver.pc = "visit" =>
       \A earlier \in 1 .. (driver.stage - 1) : ~Waiting(Stages[earlier])]_vars

\* What a driver would work on now.
ProductsNow == SelectSeq(FoundNow, LAMBDA a : Succeeded(<<a, "ingest">>))

\* The market stage ends at a cancelled node.
BehindCancelled(n) ==
  /\ n[2] = "market"
  /\ \E i, j \in DOMAIN ProductsNow :
       i < j /\ ProductsNow[j] = n[1] /\ node[<<ProductsNow[i], "market">>].status = "cancelled"

\* Whether an execution that starts now comes to run node n: its product has been
\* found and ingested, and neither a rule, which skip_node does not apply to a node
\* that waits for its retry, nor a match that has failed since, nor a cancelled node
\* keeps the driver from it.
Reached(n) ==
  /\ n = Source \/ node[Source].status # "cancelled"
  /\ n[1] = "run" \/ n[1] \in Range(IF n[2] = "ingest" THEN FoundNow ELSE ProductsNow)
  /\ ~(node[n].status = "retry_wait" /\ Skips(n, ProductsNow))
  /\ ~PassesOver(n) /\ ~BehindCancelled(n)

Stranded ==
  \E n \in NodeIds : node[n].status \in {"pending", "retry_wait"} /\ ~Reached(n)

\* A cancellation that came after _run_job had looked at the flag for the last time:
\* the report overwrites it, and the worker drops the job when its retry is due; or
\* the job waits for the end of the cancellation, which only a restart would see to.
LeftQueued == job = "queued" /\ cancel
LeftCancelling == job = "cancel_requested" /\ driver.pc = "idle" /\ ~recovering

\* A job that runs or waits comes to rest, with a result or a question to the user:
\* crashes are recovered, retries end, and cancellations are carried out.  There are
\* three exceptions, and in each the job or a node is left where it is for good: a
\* node that executions do not come to any more, a job that the worker has dropped,
\* and a cancellation nobody completes.
JobsRest ==
  \/ []<>(job \in {"success", "failed", "cancelled", "human_required"})
  \/ <>[]Stranded
  \/ <>[]LeftQueued
  \/ <>[]LeftCancelling
=============================================================================
