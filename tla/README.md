# Goods-Selector in TLA+

Goods-Selector discovers Amazon products, enriches them with market data from
the SellerSprite browser extension, matches them with suppliers on 1688,
computes profit and scores, filters, and exports reports.  A run takes hours and
depends on browsers, logins and sites that block it, so it is executed by a
*recoverable* core: every stage of every product is a row of a SQLite table that
is claimed under a lease, committed once, retried, resumed, cancelled and
recovered after a crash.  These modules model that core and what it drives.

All paths below are relative to `src/`.  `DESIGN` is
`docs/superpowers/specs/2026-07-15-asin-recoverable-execution-design.md`.

## 1. The system

| part | state | operations | meets | modelled in |
|---|---|---|---|---|
| **Execution repository** `execution/repository.py`, `execution/models.py`, `db/models.py`, `db/session.py` | tables `execution_nodes`, `execution_attempts`, `execution_operations`, `run_logs.status` | ensure_node, claim, heartbeat, succeed, fail, promote_due_retries, recover_stale, invalidate_succeeded, resume_human, retry_node, force_rerun, mark_skipped, cancel_run, update_run_status | workers of several processes, requests of the API, through one database | `ExecutionRows`, `ExecutionRepository`, `RepositoryTransactions` |
| **Coordinator** `execution/coordinator.py`, `policies.py`, `handlers.py` | the claim under way, a heartbeat thread | run_node, skip_node, recover_stale; classification of errors, backoff | repository; handlers of the pipeline | `RetryPolicy`, `Pipeline`, `RepositoryTransactions` |
| **Artifact publication** `execution/artifacts.py` | files, temporary files, `artifact_manifests` | publish, reconcile | the export handler and its success validator | `ArtifactSets` |
| **Recoverable pipeline** `pipeline/recoverable.py` (`orchestrator.py` supplies the handlers) | what one execution has loaded: products, market evidence, matches, profits | run, resume; eight stages with barriers between them | coordinator; one worker thread | `Pipeline`; match to filter with their contents in `Appraisal` |
| **Agent runtime** `agent/runner.py`, `agent/state.py` | jobs, queue, worker thread, timers, `agent_jobs.json` | start_run, cancel_job, cancel_run, retry_job, operate_node, the worker loop, restart recovery | HTTP threads, timers, worker thread; repository at a restart | `AgentRuntime` |
| **SellerSprite export** `agent/sellersprite_service.py`, `sellersprite_batch.py`, `agent/tools/browser_downloads.py`, `sellersprite_browser.py`, `sellersprite_importer.py`, `db/sellersprite_repository.py` | the page of a shared Chrome, the download directory, `sellersprite_imports` | a batch of exports with retries; recognition of a download; import; manifest | the market stage, the API, the command line; other programs write to the directory | `SellerSpriteExport` |
| **Amazon acquisition** `crawlers/` | caches, cookies | keyword search and best sellers, with the pages of the products | the source node's handler | `Discovery` |
| **1688 sourcing** `matchers/__init__.py`, `alibaba_*.py`, `imported_suppliers.py` | result and detail caches, circuit breaker: JSON files | match_suppliers | the match nodes' handlers, the manual queue | `Sourcing`, `SupplierSources`, `OfferReadings` |
| **Manual queue** `agent/manual_queue.py` | a JSON file | enqueue, decide, import | sourcing and requests | `Sourcing` |
| **Match verification** `matchers/verifier.py`, `match_evidence.py`, `product_spec.py`, `sourcing_slice.py`, `domain/` | `sourcing_recommendations` and evidence tables | scoring, comparison, the strict gate, the recommendation | sourcing; the pipeline finalises the recommendation | `ProductProfiles`, `SupplierMatching`, `Appraisal` |
| **Profit, score, filters** `analyzers/profit_model.py`, `scorer.py`, `pipeline/filters.py` | `profit_snapshots`, `scores` | pure functions over product, offers, market | profit, score and filter nodes | `Economics`, `Appraisal` |
| **Migrations** `db/init_db.py`, `db/migrate.py`, `db/migrations/` | `schema_migrations`, the tables themselves | create_all, five migrations | every process at its start | `Migrations` |
| HTTP API, chat tools, seller research, history, events, provenance, review decisions, preflight, settings, browser setup, reports, front end, CLI, scripts | none or an append-only log | | | not modelled, reasons in `PROJECT.json` and section 6 |

What is hard, and which property it gave rise to, is listed line by line under
`hazards` in `PROJECT.json`.  In short:

* **Leases.** A worker may be overtaken at any point and may come back late.
  The lease is fenced with a token, but a session of SQLite with the driver's
  default transaction control reads outside a transaction and flushes by
  primary key, so the check and the write can be separated.
* **Re-opening.** New input, a failed validation, a forced re-run and a resume
  re-open settled nodes; outputs, result rows, tokens and files of the earlier
  generation must not be taken for current ones, nor those of later stages.
* **Crashes.** Between a claim and its commit, between two file renames, between
  renames and manifest, between the change of a job and the writing of the job
  file, between two nodes of a run.
* **Threads.** Requests, timers and an ending worker thread share a queue, and
  some methods give its lock up half way.
* **A world that answers late.** Downloads finish after their export was given
  up, in a directory other programs write to.
* **Waiting.** Retries, questions to a human, and jobs that are queued again:
  each must come to an end.
* **Sites that refuse.** A search or a page answers with a captcha, a login, a TMD
  block, or nothing; which of these is a failure, a question to a person or an
  empty success decides what the whole run does.
* **Evidence.** A recommendation is put together by a verifier, a gate, a profit
  ranking and a filter, in four nodes that are cached and re-run on their own.
* **Old databases.** Two processes may start at once on a database of any age, and
  end in the middle.

## 2. Modules

```
ExecutionRows                        rows and what each method makes of a row
  |-- ExecutionRepository            many nodes, atomic methods        (safety)
  |     |   implements ExclusiveGrants   (what the methods promise a worker)
  |     `-- ExecutionRepository_proofs
  |-- RepositoryTransactions         one node, statement by statement  (interleavings)
  |     `-- RepositoryTransactions_proofs
  |-- ArtifactSets                   export node + files + manifests   (crashes)
  |     `-- ArtifactSets_proofs
  `-- Pipeline                       all nodes of a run + one job      (stages, liveness)
        |-- Pipeline_proofs
        `-- Discovery -- RetryPolicy     outcomes of the source node; fate of an error
AgentRuntime                         jobs, queue, threads, timers, restart
  `-- AgentRuntime_proofs
SellerSpriteExport                   batch, session, download directory, manifests
  `-- SellerSpriteExport_proofs
Sourcing                             match_suppliers, caches, circuit, manual queue
  `-- SupplierSources                keywords, searches, offer pages
Appraisal                            one product from match to export, re-run and resumed
  |-- OfferReadings                  what is read of cards, items and pages
  `-- Economics                      profit, score, hard filters, ranks
        `-- SupplierMatching         verifiers, evidence, decision
              `-- ProductProfiles    specifications and profiles, compared
Suppliers_proofs                     about Sourcing and about Appraisal
PythonLists                          sorted and filtered lists, for the modules above
Migrations                           create_all, five migrations, two processes
  `-- Migrations_proofs
MC*                                  instances for TLC
```

**ExecutionRows** is what the four node modules share: the status sets,
`ALLOWED_TRANSITIONS`, and for every method of the repository an operator that
gives the row it leaves (`ClaimedRow`, `SucceededRow`, `FailedRow`,
`RecoveredRow`, `ResetRow`, ...) with the guard of the method beside it, and
`AggregateRunStatus`.  The relation of a row to the code is therefore stated once.
An output is named by the number of the attempt that computed it, a lease token
by the attempt it was issued to, a resume token by how often it has been renewed.

**ExecutionRepository** has one action per method, over any number of nodes,
workers and inputs.  A worker keeps the `Claim` it was given until it commits,
is refused or is dropped, however late; time is what is left of a lease and of a
backoff, and passes in `Tick`.  The rows of `execution_operations`, an audit log
nothing reads back, are left out.

**ExclusiveGrants** is what these methods are for: work on a node is granted to one
worker at a time, a grant may be revoked whatever its holder believes, and in each
round of a node one grant commits at most.  `ExecutionRepository!Grants`
instantiates it with a refinement mapping (a grant is an attempt, a round a
generation, a ticket a worker's claim); the mapping is checked by TLC and proved.

**RepositoryTransactions** takes the same methods apart: one step per SELECT and
one atomic step for the writes, with absolute time, for one node.  A conditional
UPDATE (`claim`, `recover_stale`) looks at the row again; every other method
flushes the columns it has changed (`Flush`).  With `SlowSessions` a lease may
run out between a holder's SELECT and its flush; without it the session (some
milliseconds) is short against the lease (90 s).

**ArtifactSets** follows one export node through claim, `CheckPublished`
(reconcile), rendering, registration of the manifest rows, measuring, the
renames one by one, verification and commit, with a crash possible at each point,
and the success validator that looks at the set when the run is resumed.  The history
variables `rendered` and `replaced` keep the input of each attempt and the inputs a
generation had before, so that a file can be asked whose records it shows.

**Pipeline** is `_execute` of `pipeline/recoverable.py`: the driver walks through
the stages, visits the nodes, skips them by rule, executes them, breaks off a
stage, and returns, raises or goes on at each barrier.  It is joined with the
life of the one job that runs it: re-queueing, operations on nodes, crash and restart,
each in one step, and report and cancellation in the steps between which `_run_job` and
`cancel_job` hold no lock.  The report looks at the flag once (`MarkCancelled` or
`Collect`), collects the exports, reads the status of the run (`ReadStatus`, into `seen`)
and then writes the job whatever has been requested since (`Report`); an exception
looks at the flag under the lock (`ReportError`).  A cancellation changes the job
(`CancelJob`), then the nodes (`CancelRun`), then the run (`UpdateRun`), and an error of
the last two is swallowed (`CancelFails`).  One request at a time is in that second part,
and it is entered when the run has nodes, as `run_log_id` comes with the first progress.
A job may also fail before its pipeline is begun (`PreflightFails`).  The queue is that
of `AgentRuntime`; a queued job that is asked to cancel is not started, as the worker
drops it.  A fingerprint is the sequence of what goes into it.
Outputs are chosen, and only what steers the driver is kept of them.  What the source
node may come to is computed: **Discovery** gives the outcomes of a keyword search or
of a category list for every way the pages may answer, and **RetryPolicy** is
`classify_error` over the class, code and text of what was raised.

**AgentRuntime** is the job table under its lock.  Each locked section is one
action; `operate_node` and `retry_job`, which give the lock up, are two.  The
pipeline is a step that may end with any status; the file is a copy of jobs and
queue that a failed write leaves old; `Restart` is the constructor.

**SellerSpriteExport** is the loop of `run_reverse_keyword_batch` over
`run_reverse_keyword_export` with its retries, down to the poll of the download
directory.  The browser finishes or loses what was requested whenever it likes,
and other programs copy and rewrite files.

**Sourcing** is `match_suppliers`: cache, imports, open platform, Scrapling, browser,
mocks; the opening of the offers' pages, the caches' expiry, the circuit breaker with
its cooldown, cancellation and crash, and the manual queue as a file that the worker
and a request each read, change and write back.  **SupplierSources** has the plan of
keywords and what each search makes of the answers of the site.  A loop that adds to
a list until there is enough is given by what it has found (`Asked`, `SeenBefore`,
`Gained`), not by its rounds, so that the proofs can speak of it.

**Appraisal** computes what `Pipeline` chooses: one product's match, profit, score,
recommendation and candidates, from what the searches found to what is exported, in
passes that crash, rest on cached nodes and have stages re-run by force.  Its data
are the four modules below it.  A text is the set of the phrases the code's tables
find in it; money, scores and sizes are integers, divisions round down.  These
modules hold no state: they are the pure functions of `matchers/`, `domain/` and
`analyzers/`, one operator per function.  **PythonLists** has what they say of lists: a
list is sorted by counting, for each position, how many come before it (`Arranged`), and
filtered by arranging the positions that are kept (`Picked`), which is what a sort and a
comprehension do and what can be proved about without induction over the list.

**Migrations** takes `create_all` statement by statement (SQLite's driver opens no
transaction for DDL) and each migration as one transaction, for two processes that
may end anywhere; a writer of the evidence tables then uses the result.

## 3. Runs

Bounds are named constants of the modules, given in the `.cfg` files.

| run | asks | bounds, and why they suffice |
|---|---|---|
| `Repository_safety` | Do rows, attempts and result keys agree under any order of claims, late commits, recoveries, retries, re-openings and cancellations, and is `ExclusiveGrants` implemented? | One node (nodes do not interact, except in bulk updates that treat each by itself; the proofs cover any number), two workers, two inputs, two attempts, one renewal of the token: a worker is overtaken by the other, both inputs alternate, the budget is used up and renewed. |
| `Transactions_interleaved` | Do they still agree when the statements of two workers with heartbeats, two recoverers and a request interleave? | Two of each competitor; the clock goes to 3, the lease lasts 1, so two leases in succession run out. |
| `Artifacts_crash` | Does a crash anywhere in the publication, and a change of the records, leave manifests, files and node consistent, and of which records is an export? | Three record sets that grow, shrink and change; four claims, two generations: a crash, a further crash in the repair, and a new set. |
| `Pipeline_run` | Is success earned, also as it is reported, and are the barriers kept? | Two products (so that one can be ahead), a market cap of one (so that one of them has no market node), two surprises (failure, crash, empty output, lost export, failed preflight, failed collection, unreadable status, failed cancellation), one request, which may be a cancellation between any two steps of the report. |
| `Pipeline_rest` | Does every job come to rest? | One product, two surprises, one request.  Failures of the match count nothing against the surprises (`Unlimited`), so that only `max_attempts` ends their retries; one stage suffices, since all share `fail` and `recover_stale`.  The exceptions are those of section 3; two of their clauses need two products or three requests and do not occur within these bounds. |
| `Runtime_jobs` | Is no job lost, and is one executed at a time? | Two jobs, two runs, two request threads, two worker threads (the ending one and the new one); three requests, one restart, failed write or failed preflight. |
| `SellerSprite_batch` | Does a call leave one manifest at most, of its own download, and does every batch end? | One caller, two ASINs, one retry (`max_retries` is 0 or 1), three file names, one file copied or rewritten, two exports in all. |
| `Sourcing` | Are no mocks passed off as offers, do the recorded attempts tell what happened, is a page never applied to another offer, does the queue hold what was queued? | Two matches (so that caches, circuit and queue of the first meet the second) of three products: one of a target category with two queries, one found by picture or title, one without a keyword; three offers; answers empty, full, blocked or asking for a login; the clock passes both expiries; one edit by a person. |
| `Sourcing_block` (violation) | Is a product whose searches are blocked queued for a person? | One match. |
| `Appraisal` | Is what is recommended and exported earned by its own evidence, and does it stay so when stages are cached, resumed and re-run? | Nine scenarios of a product, its finds and its market, three passes, two forced re-runs: each stage can be cached, redone and invalidated by the one before. |
| `Appraisal_moq` (violation) | Does a recommended offer's own page respect the MOQ limit? | One pass. |
| `Migrations` | Is no database refused, every repaired value audited, no id given twice? | 47 databases: none, one from before the migrations, and the original 0001 with every status and every sign of the two counts (the repair looks at nothing else); two processes, three starts, two writes. |

`CHECK_DEADLOCK FALSE` stands where counters of requests, crashes or time are used
up and nothing is left to do.  `ExecutionRepository` and `AgentRuntime` have their type
invariants checked in a run; `Pipeline`, `RepositoryTransactions`, `Migrations` and
`Sourcing` have theirs in the inductive invariants of their proofs, and so has `Appraisal`.

What makes the properties worth a run:

* *ImplementsGrants*, *CommitOncePerKey*, *LostLeaseStaysLost*: any worker may be
  overtaken between any two of its calls and come back after the node was
  re-opened, re-claimed and finished by another.
* *CommittedSetsComplete*, *RegenerationWorks*, *ExportIsOneRecordSet*: the crash falls
  between two renames or between the renames and the manifest, and the records change
  before the repair; the set then holds files of two attempts on two inputs.
* *SuccessIsEarned*, *StagesInOrder*, *JobsRest*: nodes of several products wait, fail
  and are re-opened while the driver walks on, timers and restarts take the job up
  again, and a cancellation comes between any two steps of the report.
* *JobsAreAttended*, *RestartKeepsQueue*, *OpenRunsAreTakenUp*: a request that gives
  up the lock half way, a worker that is ending, a write that fails, a restart.
* *EvidenceIsOwn*, *EvidenceOnce*: a download comes late, is copied, or is written to
  while it is looked at.
* *AttemptsAreHonest*, *DetailIsOwn*, *QueueExactUnlessOverlap*: cached offers, pages
  that redirect, and two writers of one file.
* *RecommendationIsEarned*, *ProfitOfItsOffer*, *ExportedIsRecommended*,
  *RecommendationRepeats*: verdict, profit, score and candidates come from four nodes
  of which any may be a cached one of an earlier generation.
* *RepairIsPossible*, *RepairsAreAudited*, *IdsAreNeverReused*: the two processes race,
  one ends between two statements, and rows written later take ids of deleted ones.

### What the violations show

They are listed under `findings` with the sentence they contradict.

1. *BlockIsQueued*: the browser search catches the TMD error of each keyword as one
   failed query, so a fully blocked product is "no supplier" and never queued.
2. *RecommendedWithinMoq*: a card that names no minimum order is given 1, which the
   offer's page does not replace, so the hard filter passes what the page forbids.

### Divergences met while modelling that have no run

They are described here so that the guards and exceptions in the modules can be
understood.  All of them are what the code does, and the modules do the same unless
it is said otherwise.

Repository, pipeline, runtime:

* `cancel_run`, `promote_due_retries`, `resume_human`, `retry_node` and
  `force_rerun` flush without a condition.  Two requests with one resume token
  both take effect; a promotion or a cancellation can overwrite a claim.
  `Transactions_interleaved` therefore leaves `cancel` out of its `Methods` (with
  it `AttemptsAgree` fails within seconds) and has one request thread.
* A run that is cancelled just before a crash is queued again after the restart
  (`runner.py:555`), against DESIGN:370.
* `operate_node` gives the lock up between its check and the re-opening of the node
  (`runner.py:157`), so a node can be re-opened while a retried job executes
  the same run.  `Pipeline` assumes one job and one driver per run.
* When the market stage is broken off (`recoverable.py:743`) the keywords of the
  products after the break are not loaded, their match fingerprints change, and
  finished matches are done again, against the comment at `recoverable.py:504`.
* Some nodes that wait are not come to any more: `skip_node` leaves a node in
  `retry_wait` as it is, the profit stage passes over a product whose new match failed, a
  forced re-run of the source or of the ingestion can drop a product whose nodes wait, a
  cancelled market node ends its stage for the products behind it, and a cancelled source
  ends the run.  The first three and the last two are the clauses of `Reached`; a job with
  such a node (`Stranded`) may be queued and come back for ever, the first exception of
  `JobsRest`.  The exception holds while the node is out of reach and no longer: a node
  that was re-opened, or waits behind nothing that is cancelled, has to be executed.  The
  last two do not occur within the bounds of `Pipeline_rest`: with two products, or three
  requests, TLC shows that they are needed.
* `cancel_job` does not accept a job that waits for its retry.
* `_run_job` looks at the flag of a job that has returned once (`runner.py:309`) and
  writes the job under a later lock (`runner.py:329`) without looking again.  A
  cancellation in between is reported over.  If the report is `retry_wait`, the timer
  queues the job and the worker drops it (`runner.py:233`), so it stays "queued": the
  second exception of `JobsRest` (`LeftQueued`), and the exception of `JobsAreAttended`.
  If the run was set to `cancel_requested` before its status is read, the job is
  reported as that, and nothing but a restart sets off the recovery that would end
  it: the third exception (`LeftCancelling`).
* `cancel_job` cancels nodes and run after it has released the lock (`runner.py:100`).  If
  the job ends and is retried in between, the nodes of the retry are cancelled; if the
  database refuses, the job is cancelled and its run goes on being open.
* The status a filter reads is not checked, and a status that cannot be read counts
  as a success (`runner.py:833`).  `SuccessIsEarned` speaks of a status that was read.
* `publish` checks neither generation nor lease, so a worker that was suspended for
  longer than its lease can replace the files of its successor.
* `succeed` checks the lease in a SELECT and flushes by primary key
  (`repository.py:288`); with `recover_stale` in between, an attempt marked `stale`
  becomes `succeeded`, against DESIGN:282 and 286.  `SlowSessions = TRUE` shows it.
* A successful export need not be that of its node's records.  The worker dies between
  its last rename and the commit of the export, and the records change before the retry.
  An input replaced before a success keeps the generation, and the name of the set has
  the generation only (`recoverable.py:572`); so `export_handler` finds the old set
  complete, takes it over and succeeds for the new records with the files of the old
  ones, against DESIGN:307 ("the aggregate input fingerprint of filter and export changes
  too, so they are executed again").  A property that ties the files to the input of the
  node is violated within seconds, with one change of the records.  What holds, and is
  checked and proved, is *ExportIsOneRecordSet*: the export has every file of one input
  that its generation has had, and nothing but files of such inputs; only where no input
  was replaced is that the input of the node.
* `publish` marks rows of names that are no longer exported `invalid`, and
  `reconcile` then demands their files (`artifacts.py:58`, DESIGN:336).  If a file is
  missing the regeneration fails, the exception of `RegenerationWorks`; if they are all
  there, files of records no longer exported are committed with the new set, which
  `ExportIsOneRecordSet` allows for.
* A restart aggregates the rows of a run that is being done again, finds the old
  `succeeded` rows of the later stages, and reports success (`runner.py:565`,
  `repository.py:692`, DESIGN:380).
* A server restarted within the lease of the source node takes the running node for
  a failed one (`recoverable.py:196`, DESIGN:386).
* A cancellation seen inside a match (`orchestrator.py:484`) is classified as
  permanent, and the node becomes `failed`, while `tests/test_execution_coordinator.py:56`
  and DESIGN section 12 have a late cancellation not recorded as a failure.  The same
  goes for the "CANCELLED" of `sellersprite_service.py:235`.
* SQLite's "database is locked" is classified as permanent.

Discovery and SellerSprite:

* A category list stopped by a captcha or a failed page returns nothing, and the
  source node succeeds with no products (DESIGN:345).
* A network error of the keyword search reaches the policy wrapped in a
  `RuntimeError`, hence as permanent (DESIGN:344); so does "all details were captchas".
* A captcha page is written to the HTML cache before it is recognised, and deleted
  afterwards.
* A download that comes after its export was given up is taken for that of the next
  ASIN (`browser_downloads.py:170`, against line 3 there).

Sourcing:

* A cache hit saves its entry with a new creation time, and a cached page is saved
  with a new expiry: neither expires while it is used.
* The enrichment does not look at the circuit breaker; a cancellation inside the
  picture analysis is swallowed until the next check.
* Where a product has no target queries, translated market keywords are put behind
  the numeric ones only (`matchers/__init__.py:161`), against the comment at line 151.
* A mock whose hash happens to be all digits counts as a real offer id and is
  relabelled "heuristic".
* Two writers of the manual queue use one temporary name (`manual_queue.py:94`); an
  overlap loses a change or an item, the exception in *QueueExactUnlessOverlap*.
* One failed keyword of the wholesale interface loses the results of all of them.

Evidence, profit, score:

* The profit takes the price of a tier, the supply score the base price first.
* A repeat rate of exactly 1 is 100 %, one above 1 a percentage.
* The MOQ filter takes the least MOQ of all offers, not that of the one offered.
* A product without a selling price fails its profit node with an `AttributeError`
  (`orchestrator.py:917`), against the comment at `recoverable.py:438`.
* A recommendation may name one offer, the cost of the first accepted one and the
  profit of a third; the profit snapshot names the first of the ranked offers even if
  that one has no price.  *ProfitOfItsOffer* states how far they can be apart.
* The matcher enriches the product it is given, a cached match does not; so a resumed
  run computes other inputs and redoes profit and score (`recoverable.py:504`).
* A forced match that fails leaves the "recommend" of the earlier one in its row: the
  condition on the match node in *RecommendationIsEarned*.
* A picture that cannot be loaded is "no match, 0.3" in one of the verifiers.
* A package larger than every FBA tier pays the last one.
* A second snapshot for the same run, product and offer violates a UNIQUE constraint.

Migrations:

* The command `seller_research` (`main.py:115`) applies 0004 before `create_all` has
  run; when the process then ends between a CREATE TABLE and the CREATE INDEX that
  follows it, `result_key` stays without its unique index (DESIGN:230, `init_db.py:19`).
  `Migrations` starts by the command line too, but its properties do not speak of it.
* Two first starts on no database can meet "table already exists" in `create_all`,
  and a process that waits longer than five seconds for the lock fails: both are ends
  of a start that a later start repairs.

## 4. Fairness

* `Pipeline!FairSpec`: the worker thread takes its next step (weak fairness of the
  steps of `_run_job` and `_execute` together), a cancellation that is on its way goes
  on (`CancelRun`, `UpdateRun`), timers fire (`Requeue`, `RecoverCancelled`), time
  passes (`Elapse`), and a server that is down is started again.  Handlers end,
  because every site call has a timeout; how they end is not constrained.  Crashes
  and failures are bounded, but for those of the match, which may fail whenever it is
  tried.  Nothing is assumed of users.
* `SellerSpriteExport!FairSpec`: weak fairness of each caller's thread, and strong
  fairness of `TimeOut`: in the model the deadline cannot strike between the two looks
  at a file, so a caller that goes from the first look back to waiting again and
  again could put it off for ever under weak fairness, while the code compares the
  clock in every round (`browser_downloads.py:159`).
* The other modules are checked for safety only.

## 5. Proofs

Everything is proved for any sets of nodes, workers, inputs, products, offers, jobs,
runs, threads and databases, finite or not, and any values of the bounds, under the
named assumptions on the constants, which TLC evaluates:

* `RowsAssumption`, `RepositoryAssumption`, `TransactionsAssumption`,
  `ArtifactsAssumption`, `ExportAssumption`, `PipelineAssumption`, `RuntimeAssumption`,
  `MigrationsAssumption`: the bounds are numbers, and the values that stand for "none"
  are none of the others.
* `CatalogueAssumption`: a page lists a product once.
* `DatabasesAssumption`, `PayloadsAssumption`: the databases that are met are those the
  program has made, and rows to be saved have a place for their id.
* `SourcingAssumption`, `AnswersAssumption`, `PagesAssumption`: the two kinds of mock are
  told from offers, a search names offers, and an offer page that names any offer
  names the one it shows.  `PlansAssumption` says that a plan of keywords is a list,
  which it is as a fold over lists, and which the prover cannot see.
* `AppraisalAssumption`, `ScenariosAssumption`: the bounds are numbers, a price and a
  confidence are numbers, what a search finds is a list, an imported item has a title or
  a name (`_item_to_imported_supplier` drops one that has neither), and market data that
  are absent say nothing.  `ScoresAssumption` and `AmountsAssumption` say of the products
  and finds at hand that scores, net profits and margins are integers: scores are sums
  over sets of attributes, which the prover cannot add up, and the amounts come from
  what the sources print.  `CurvesAreNumbers` says it of the two curves.

Two groups of theorems have premises besides, and state them.  `ManifestsNameOwnExports`
and `FilesServeOneCall` assume one caller (`OneCaller`).  The two of
`RepositoryTransactions_proofs` assume `ShortSessions` (no lease runs out within a session
of its holder), `NoCancelRun` (nobody cancels the run) and `OneRequester` (one thread at a
time promotes or re-opens the node).  The code enforces none of the three, so the two
theorems are about part of its executions; without any one of them TLC finds both
properties violated, which are the divergences of section 3.

| module | theorem | property |
|---|---|---|
| `ExecutionRepository_proofs` | `TypeCorrect` | `TypeOK` |
| | `AttemptsAlwaysAgree` | a node runs exactly while its latest attempt does |
| | `OutputAlwaysCurrent` | an output is that of the latest attempt, for the present generation and input |
| | `RetriesBounded` | attempts stop at `max_attempts` plus the number of re-openings |
| | `TransitionsLegal` | status changes follow `ALLOWED_TRANSITIONS`, or open a generation |
| | `ReopeningTokensFresh` | a settled node is re-opened only under a new token |
| | `ResultsCommittedOnce` | no result key is committed twice |
| | `AttemptsAreHistory` | ended attempts are not rewritten, their numbers not used again |
| | `LostLeasesStayLost` | a claim that lost its lease never holds the node again |
| | `RepositoryImplementsGrants` | every behaviour is one of `ExclusiveGrants` |
| `RepositoryTransactions_proofs` | `AttemptsAgreeInterleaved` | node and attempts agree in the interleavings of claims, heartbeats, outcomes, recoveries and one thread that promotes or re-opens, under the three premises above |
| | `LeasesRespected` | in the same interleavings and under the same premises, a running node is ended by its holder, or once its lease has run out |
| `ArtifactSets_proofs` | `CommittedSetsAreComplete` | a committed manifest describes the file on the disk |
| | `SuccessIsPublication` | success means that the whole set is committed and complete |
| | `ExportsMatchRecords` | a successful export holds one whole record set of those the node has had in its generation, and nothing of others; that of its present records only if none were replaced |
| | `RegenerationSucceeds` | a set left incomplete by a crash can be made again, if its records were not replaced |
| `Pipeline_proofs` | `TypeCorrect` | rows, outputs, driver, run and job keep their types |
| | `SuccessEarned` | an execution that ends in success, and one whose success has been read for the report, has every node up to date |
| | `BarriersHold` | no stage is begun while a node of an earlier one waits |
| `AgentRuntime_proofs` | `OneJobExecutes` | one job is executed at a time |
| | `TypeCorrect` | `TypeOK` |
| | `UncancelledJobsAttended` | running jobs have threads, queued jobs that nobody has cancelled are in the queue or just taken, the queue has a worker; a queued job with `cancel_requested` may be lost (section 3) |
| | `QueueSurvivesRestart` | a restart takes up the queued jobs, unless the last write failed |
| | `OpenRunsResume` | a restart leaves no run open without a job |
| `SellerSpriteExport_proofs` | `CallsSaveOnce` | a call leaves one manifest at most |
| | `HumanEndsBatch` | nothing follows an outcome that needs a human |
| | `ManifestsNameOwnExports` | a manifest names the export of its own ASIN |
| | `FilesServeOneCall` | a file is evidence for one call |
| `Suppliers_proofs` | `QueueForgetsNothing` | the queue counts every block and shows the last decision, unless two writers overlapped |
| | `DetailsStayOwn` | a page is applied to its own offer only |
| | `MocksStayOut` | no mock is returned where mocks are not allowed, but for the one with a number as its id |
| | `AttemptsTellTruth` | what is recorded of a query is what became of it |
| | `AppraisalType` | rows, record and place keep their shape |
| | `RecommendationEarned` | what is recommended was accepted by the last match, each accepted offer on its own profile and pictures |
| | `RecommendationRepeated` | a final recommendation stays until the product is matched again |
| | `ExportedRecommended` | a candidate is exported exactly when it is recommended |
| | `SnapshotOfOffer` | a profit is recorded with its offer, unless that has no price |
| `Migrations_proofs` | `RepairNeverRefused` | every original row fits the new constraints once it is repaired |
| | `HistoryAudited` | every row is kept, and every value that is replaced is audited |
| | `IdsIssuedOnce` | no id of an evidence row is given out twice |

**The repository.**  `AttemptsAgree` is not inductive: that a claim
creates an attempt under a number nobody uses needs `AttemptsNumbered`; that a late
worker's lease check fails needs that its claim names an attempt opened for it
(`ClaimInv`); that a key is fresh needs that keys of the present generation exist only
while the node is `succeeded` (`KeysSettled`).  `IInv` is the conjunction of these with
the typed rows and the properties themselves, one `RowInv` per node, since no method
lets one node's row depend on another's.  There is a lemma per row operator
(`ClaimedRowInv`, `FailedRowInv`, ...: the operator preserves `RowInv`), one for the
frame (`StepInv`: if every row keeps `RowInv` and no `attempt_count` shrinks, claims
stay good), one per action, and `NextInv`.  `TransitionsLegal` rests on the case
analysis of `EveryStatusStep`.

The refinement looks at what a method shows of its node (`View`): whether it is
running, how often it was claimed, its generation and its output.  Each action is
then a grant, a commit, a revocation, a new round, the loss of a ticket, or a
stutter; that a commit is by the last grant of its round is `AttemptsAgree`.

The leases: every step leaves an ended attempt alone (`AttemptStep`) and makes a node
running only by a new attempt or under the lease it ran under (`LeaseStep`); a lease
that has run out is not prolonged, and a token names one attempt, so a claim that is
out of date stays so.

**The statements.**  What a session has read may be out of date by the time it writes, so
`SessionsInv` says for each open session how far it still holds (`Fine`).  A claim that
sees the attempt count it has read sees its node unclaimed.  A holder that has passed its
lease check is still the holder, and only the lease may have been renewed
(`SameButLease`).  A recovery has read the lease token of an attempt that exists, and when
it found no running attempt there is none.  A request has read a node at rest.  A write
then makes of the present row what the method would make of it in one step.  The frame
(`Keeps`) says which changes of the row leave a session of another thread `Fine`.

**The files.**  That a set is complete when it is committed is found out by `reconcile`
itself; that a repair does not fail, and which records a set shows, is not.
`IInv` says of each handler what it has made so far (`PublicationInv`: the names it
registered, the temporary files, the hashes, the renamed files), that the one at work
holds the lease (`Engaged`, so there is one: a crashed process is gone), and of the
present set where its files come from (`FromRecords`: attempts on the present input or on
those it replaced; sets of later generations are empty).  Where nothing was replaced this
makes `Verify` succeed: every logged name is one the handler has just renamed.  That a set
found complete is one whole record set, though several attempts on several inputs may
have left files, is `OneSet`: some attempt registered the set last, and the rows of all
its names have no hash yet or its own; a valid set has hashes, so the files of these names
are all of that attempt.  `Reconciled` and `NodeStep` are the frames, for the steps that
reconcile a set and for those that change the node with no handler at work.
`ValidateInv` also shows that within this model the validator never rejects the result of
a success.

**The pipeline.**  That nobody waits behind the driver (`BarrierInv`) is nearly inductive;
that success is earned is not, since a node the driver has passed carries a fingerprint
of the outputs that were there when it was visited, by this execution or by an earlier
one.  `WalkInv` says that as long as nothing
behind the driver is amiss (`Undisturbed`), every node behind it has the input it would
be given now and a status its rule allows.  For a node that rests in the cache this
needs what nodes of *earlier* executions were computed from: `RecordedInv` (a finished
node has recorded what the node before it had put out, or something older) and `RuleInv`
(one that is up to date was skipped or executed as its rule says of the present
outputs).  `ListInv` ties what is left to do to the list of the products, whose order
and whose market cap are those of the source's output; the loop that makes that list is
a recursive function, about which `HydratedType` and `DiscoveredType` say what is needed.
`ReturnedInv` is the conclusion, at the end of an execution and up to its report: while
the driver collects, nobody re-opens a node, and a cancellation or the passing of time
leaves finished nodes alone, so that what `seen` says of the run still holds of the nodes.
That a cancel recovery is set off only where no driver is at work (`RecoveringInv`) is an
invariant of its own.

**The runtime.**  `IInv` says that only the worker thread the runtime knows of is alive
(`OnlyTheWorkerLives`), which `_ensure_worker_locked` needs to start no second one, and
that running jobs have threads, which needs the shapes of jobs and threads.  For the
queue, `QInv` adds what threads hold (`ThreadsHold`: a job that exists, a run that has
been started) and what requests remember after they have given the lock up
(`ClientsAsk`), that there are finitely many jobs, so that a restart can list them, that a
job named after a run works on it, and that the file has every queued job as it is unless
its last write failed (`FileHasQueued`).  Each step is first shown to be an edit of one
job's row, a move of the queue and a move of the file (`JobsMove`, `FileMoves`, ...); a
restart is treated by itself.

**The export of keywords.**  A call leaves one manifest because the numbers left to a
batch belong to it alone (`Numbered`, `Apart`) and no manifest has one of them, but that
of a call which has just saved (`Unsaved`); failures after the save are never retried.
With one caller, `EvidenceInv` follows a download from the click: it is requested with
the present ASIN on the page (`OnPage`, `Attributed`); what came since the snapshot is
an old copy with an old time, was given up, or is the attempt's own (`Recognised`,
`Chose`); and the files of manifests were all there at the snapshot (`Kept`).  With two
callers, page and directory change in between.

**Sourcing.**  Each search is shown to find offers and nothing else (`TextFinds`,
`PifatuanFinds`, `ScraplingFinds`, `BrowserFinds`).  `OffersOK` then says of every offer in
a match or in the cache that it is a mock exactly if its id is one of a mock, whatever
its method has been renamed to, and that its detail is its own; `Run` that the mock that
is known by its id is only where mocks were allowed, since a cache entry has passed
`IsReusable`.  `Desk` relates the file of the queue, the copies of the two writers and the
match: the worker has a copy exactly while it is about to write one, and a copy that is
alone is the file.  `DetailsOwn` is where the identity check of the offer page
(`SameOffer`) does its work.

**The appraisal.**  Four nodes feed each other and each may be computed, loaded or left
alone, in this pass or in another.  `AInv` says that it makes no difference: what a pass
has in memory after a stage is a function of what the match node has put out
(`Carried`: `AppraisedOffers`, `AppraisedProfit`, `AppraisedScore`), and a final
recommendation is that function of it (`Standing`, `Settled`).  For a cached node this
needs what it was computed from: the input of a profit node names the generation of the
match it was fed with, and only one of the present generation holds the profit of the
present offers (`ProfitRow`, with `ProfitInput` for the older ones); the input of a score
node holds its offers and its profit (`ScoreRow`).  Whether the product in the input is
the enriched one does not matter to the outputs, only to how often they are computed.
That a profit node can be skipped or fail and nothing is lost by it needs why: no offers,
or no price.

The rest is about functions.  An offer that was read carries the profile of its words
through the verifiers (`Keeps`), a page only replaces it by the profile of the page
(`PageIsRead`), and a sort or a filter of offers gives offers of the list
(`SortedPlaces`, `PickedPlaces`); so an offer the strict gate takes was compared on the
profile it still shows, and its picture is not a "no" (`MatchKept`, `EvidenceKeeps`,
`StrictGateKeeps`, `GatedEarned`).  That a ranking by profit begins with the offer whose
profit is reported, unless that offer has no profit, follows from the order of its keys
(`KeyOrder`, `RankingRanks`).  `SettledStands` joins them: what is settled recommends to
buy exactly when the score is passed, and its two offers are offers of the match, since a
score needs market data, a profit and an offer.  `ArrangedPlaces` carries all of this:
where a strict order tells the members of a finite set apart, counting those before each
gives every place once.

**Migrations.**  A table that still has its original form holds rows of the original
program (`OriginalInv`), because nobody writes evidence before 0002 is applied
(`ProcessInv`: a process is ready only when all five are).  For such rows the repair is
followed column by column (`RepairedConfidence` and its like): the result is allowed, and
every value that differs has its entry (`Honest`).  Ids stay below the high-water mark of
their table, which survives the rebuild (`TablesInv`, `IssuedInv`).

**Means.**  Induction over the numbers is done by taking the least number that fails
(`LeastNumber`, from the well-foundedness of `<`), since the library's induction
theorems take an operator as a parameter; a recursive function is shown to exist the same
way before its equation is used (`GainExists`).

**Only model-checked**: the liveness properties `JobsRest` and `BatchesEnd`, which rest
on fairness and ENABLED; that the scores and amounts of `Appraisal` and the plans of
`Sourcing` are numbers and lists, which TLC evaluates as assumptions for the instances
(`FoldLeft`, `MapThenSumSet` and their LAMBDAs are opaque to the prover); and the outcomes
of `Discovery` beyond what `Pipeline_proofs` needs.  The two properties of section 3 that
the code violates are refuted by TLC.

## 6. What is left out, and what is assumed

* **Late workers in `ArtifactSets`.** A crashed worker is gone; a process that is
  suspended beyond its lease and then goes on publishing is excluded
  (`RecoverExport`), because the code does not fence it (section 3).
* **Nobody touches exported files** but the handler, so `Validate` accepts every
  success; its rejection of a set whose files were deleted or edited is written in the
  action and never taken.
* **One job, one driver in `Pipeline`.** Several jobs and the queue are in
  `AgentRuntime`, where the pipeline is a step.  Operations on nodes come only
  while the job rests.  "No candidates", "supplier evidence missing" and their like, which
  turn a finished run into a failed job, are a choice of `ReportedAs`.  Between the start
  of a job and the first visit of its pipeline nothing comes in between (`Start`).
* **Runs are known early.** The job's `run_log_id` is set by the first progress
  event; `Progress` may come at any time after the pipeline has started.
* **Timers** of one job are collapsed into a set.
* **Retry budget.** `fail` and `recover_stale` of a run use one `max_attempts`;
  `RecoverStale` takes any smaller value, since cancellation recovery passes 1.
* **One caller in `SellerSprite_*`.** Two callers attach to the same page and the
  same directory; nothing keeps them apart, so the evidence properties fail at once.
  `HUMAN` stands for the five codes a human has to deal with.  Timeouts are
  nondeterministic.  An old copy that is written to afterwards has a fresh time and
  cannot be told from a download, so `Rewrite` touches downloads only.  A download
  takes any unused name.
* **The heartbeat thread** is modelled in `RepositoryTransactions`; `run_node`'s
  deadline and the classification of errors are choices of the outcome.
* **Discovery.** One product or two, a page for each; what a page says is one of a few
  kinds.  The paid interfaces, parsing, cookies and the HTML cache are left out.
* **Sourcing.** The circuit is closed or open at the start, and never opened by a match,
  since the block that would open it does not arrive (section 3); exhaustive queries
  are on, as by default.  The image search and the scripts that log in are left out.
  A search page names offers of 1688 (`AnswersAssumption`), and a page that names any
  offer names the one it shows (`PagesAssumption`): the code has nothing else to go by
  when it asks whether a page is that of the offer.
* **Appraisal.** One product, with an ASIN; the states in which a node waits for its
  retry or for a person are those of `Pipeline` and are passed over.  The curves of
  the score (`ProfitCurve`, `BsrCurve`) are constants, since they are exponentials and
  logarithms.  The market data are given.
* **Migrations.** Only the columns the migrations look at are kept of a row.  A database
  is one the program has made: its tables are absent, in the original form of 0001 or in
  the strict form (`Found`), with the values the original program wrote (`OriginalRow`,
  `DatabasesAssumption`).  A process
  that meets the lock of another may fail at any time, as after five seconds.
* **Not modelled**, with the reasons in `PROJECT.json`: the HTTP API (its routes call
  the runtime, whose methods are actions), chat tools, history, events and provenance
  (nothing reads them back), review decisions (one append), preflight and settings
  (their one effect is an action of `AgentRuntime`), browser setup (I/O with a person),
  seller research (a pure analysis beside the pipeline, saved in one transaction), the
  market data of `analyzers/maijiajingling.py` (a browser page read into given values),
  report rendering, front end, CLI, scripts, benchmarks.  Parsing of pages, prompts,
  wording and layout stay out for good.

## 7. Plan

Done: the repository with its abstract specification and its statements; artifacts;
pipeline with discovery and error classification; runtime; SellerSprite; sourcing with
the manual queue; profiles, evidence, profit, score and filters as functions and in the
appraisal of a product; migrations.  Every safety property the runs check is a
theorem, and so is the refinement.

Left: a second product in `Appraisal`, for the ranks of candidates among several; the
analysis of the seller research.
