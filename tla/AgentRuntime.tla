---------------------------- MODULE AgentRuntime ----------------------------
(* The job queue of the server (src/agent/runner.py): request threads, timers *)
(* and a worker thread share the jobs and the queue under one lock.  Methods  *)
(* that give the lock up in between are two steps.  The jobs are mirrored in  *)
(* a JSON file; the runs in the database are what a restart goes by.          *)
(*                                                                            *)
(* A pipeline is a run that is being executed, and ends with any status that  *)
(* Pipeline can end it with.  The id "recovered-run-<id>" is the run itself.  *)
EXTENDS Naturals, Sequences, SequencesExt

CONSTANTS
  Jobs,          \* the ids that new jobs get
  Runs,          \* ids of rows of run_logs
  Threads,       \* worker threads
  Clients,       \* threads of the HTTP server
  NoRun, NoJob, NoThread,
  MaxRequests,   \* bound: requests of the clients
  MaxSurprises   \* bound: restarts, files that cannot be written, failed preflights

ASSUME RuntimeAssumption ==
  /\ NoRun \notin Runs /\ NoThread \notin Threads /\ NoJob \notin Jobs \cup Runs
  /\ Jobs \cap Runs = {}
  /\ MaxRequests \in Nat /\ MaxSurprises \in Nat

VARIABLES
  jobs,     \* _jobs
  queue,    \* _queue
  worker,   \* _worker
  thread,   \* by worker thread, where it is and which job it has taken
  client,   \* by request thread, what it does after giving up the lock
  timers,   \* the timers that are set: <<"retry" or "cancel", job>>
  run,      \* by row of run_logs, its status
  file,     \* the JSON file
  stale,    \* whether the last write of the file failed
  requests, surprises  \* how much of the bounds is used up

vars == <<jobs, queue, worker, thread, client, timers, run, file, stale, requests, surprises>>

JobIds == Jobs \cup Runs
JobStatus == {"queued", "running", "success", "failed", "retry_wait",
              "human_required", "cancel_requested", "cancelled"}
RunStatus == JobStatus \ {"queued"}
OpenRun == {"running", "retry_wait", "human_required", "cancel_requested"}

Absent == [status |-> "absent", cancel |-> FALSE, run |-> NoRun]
NewJob(r) == [status |-> "queued", cancel |-> FALSE, run |-> r]
Gone == [pc |-> "none", job |-> NoJob, run |-> NoRun]
Looping == [Gone EXCEPT !.pc = "loop"]
Quiet == [pc |-> "idle", job |-> NoJob, run |-> NoRun]

Init ==
  /\ jobs = [j \in JobIds |-> Absent]
  /\ queue = <<>>
  /\ worker = NoThread
  /\ thread = [t \in Threads |-> Gone]
  /\ client = [c \in Clients |-> Quiet]
  /\ timers = {}
  /\ run = [r \in Runs |-> "none"]
  /\ file = [jobs |-> jobs, queue |-> queue]
  /\ stale = FALSE
  /\ requests = 0 /\ surprises = 0

------------------------------------------------------------------------------
(* Under the lock *)

Surprise == surprises < MaxSurprises /\ surprises' = surprises + 1

\* _persist_jobs_locked, the last change a locked section makes.  A file that
\* cannot be written is ignored.
Persist ==
  \/ /\ file' = [jobs |-> jobs', queue |-> queue']
     /\ stale' = FALSE
     /\ UNCHANGED surprises
  \/ /\ Surprise
     /\ stale' = TRUE
     /\ UNCHANGED file

KeepFile == UNCHANGED <<file, stale, surprises>>

Alive(t) == t # NoThread /\ thread[t].pc # "none"

\* Mutant of EnsureWorker: a worker is started for every job.
EnsureWorker_Always ==
  \E t \in Threads :
    /\ thread[t].pc = "none"
    /\ worker' = t
    /\ thread' = [thread EXCEPT ![t] = Looping]

\* _ensure_worker_locked
EnsureWorker ==
  IF Alive(worker) THEN UNCHANGED <<worker, thread>>
  ELSE \E t \in Threads :
         /\ thread[t].pc = "none"
         /\ worker' = t
         /\ thread' = [thread EXCEPT ![t] = Looping]

Enqueued(j) == IF Contains(queue, j) THEN queue ELSE Append(queue, j)

\* The elements of seq that are in kept, in their order.
Selected(seq, kept) ==
  LET upTo[n \in 0..Len(seq)] ==
        IF n = 0 THEN <<>>
        ELSE IF seq[n] \in kept THEN Append(upTo[n - 1], seq[n]) ELSE upTo[n - 1]
  IN  upTo[Len(seq)]

------------------------------------------------------------------------------
(* Requests *)

Request(c) ==
  /\ client[c] = Quiet
  /\ requests < MaxRequests
  /\ requests' = requests + 1

\* The id of a job is a new one, which no request has reserved for a copy.
Fresh(j) == jobs[j] = Absent /\ \A d \in Clients : client[d].job # j

\* start_run
StartRun(c) ==
  /\ Request(c)
  /\ \E j \in Jobs :
       /\ Fresh(j)
       /\ jobs' = [jobs EXCEPT ![j] = NewJob(NoRun)]
       /\ queue' = Append(queue, j)
  /\ EnsureWorker /\ Persist
  /\ UNCHANGED <<client, timers, run>>

\* cancel_job, while it holds the lock.
CancelJob(c) ==
  /\ Request(c)
  /\ \E j \in JobIds :
       /\ jobs[j].status \in {"queued", "running", "cancel_requested"}
       /\ CASE jobs[j].status = "queued" ->
                 /\ jobs' = [jobs EXCEPT ![j].status = "cancelled", ![j].cancel = TRUE]
                 /\ queue' = Selected(queue, JobIds \ {j})
                 /\ Persist
            [] jobs[j].status = "running" ->
                 /\ jobs' = [jobs EXCEPT ![j].status = "cancel_requested", ![j].cancel = TRUE]
                 /\ UNCHANGED queue
                 /\ Persist
            [] OTHER -> UNCHANGED <<jobs, queue>> /\ KeepFile
       /\ client' = [client EXCEPT ![c] = [pc |-> "cancel_run", job |-> j, run |-> NoRun]]
  /\ UNCHANGED <<worker, thread, timers, run>>

\* What the status of a run can become when its nodes are cancelled.
CancelOutcome == {"cancel_requested", "cancelled", "retry_wait", "failed", "success"}

\* cancel_job, after it has given up the lock.
CancelRun(c) ==
  LET job == jobs[client[c].job]
  IN  /\ client[c].pc = "cancel_run"
      /\ IF job.run # NoRun /\ job.cancel
         THEN \E s \in CancelOutcome : run' = [run EXCEPT ![job.run] = s]
         ELSE UNCHANGED run
      /\ client' = [client EXCEPT ![c] = Quiet]
      /\ UNCHANGED <<jobs, queue, worker, thread, timers, requests>>
      /\ KeepFile

\* operate_node: the job is looked at, a node of its run is re-opened, and the
\* job is queued.
OperateNode(c) ==
  /\ Request(c)
  /\ \E j \in JobIds :
       /\ jobs[j].run # NoRun
       /\ jobs[j].status \notin {"queued", "running", "cancel_requested"}
       /\ client' = [client EXCEPT ![c] = [pc |-> "operate", job |-> j, run |-> jobs[j].run]]
  /\ UNCHANGED <<jobs, queue, worker, thread, timers, run>> /\ KeepFile

ReopenNode(c) ==
  /\ client[c].pc = "operate"
  /\ client' = [client EXCEPT ![c].pc = "operated"]
  /\ UNCHANGED <<jobs, queue, worker, thread, timers, run, requests>> /\ KeepFile

\* The repository refuses what the status or the token of the node does not allow.
RefuseNode(c) ==
  /\ client[c].pc = "operate"
  /\ client' = [client EXCEPT ![c] = Quiet]
  /\ UNCHANGED <<jobs, queue, worker, thread, timers, run, requests>> /\ KeepFile

\* Mutant of QueueOperated: the file is not written.
QueueOperated_NotSaved(c) ==
  /\ client[c].pc = "operated"
  /\ jobs' = [jobs EXCEPT ![client[c].job].status = "queued", ![client[c].job].cancel = FALSE]
  /\ queue' = Enqueued(client[c].job)
  /\ EnsureWorker /\ KeepFile
  /\ client' = [client EXCEPT ![c] = Quiet]
  /\ UNCHANGED <<timers, run, requests>>

QueueOperated(c) ==
  /\ client[c].pc = "operated"
  /\ jobs' = [jobs EXCEPT ![client[c].job].status = "queued", ![client[c].job].cancel = FALSE]
  /\ queue' = Enqueued(client[c].job)
  /\ EnsureWorker /\ Persist
  /\ client' = [client EXCEPT ![c] = Quiet]
  /\ UNCHANGED <<timers, run, requests>>

\* retry_job: the copy of the job is known to nobody until it is queued.
RetryJob(c) ==
  /\ Request(c)
  /\ \E j \in JobIds, new \in Jobs :
       /\ jobs[j].status \in {"failed", "cancelled"}
       /\ Fresh(new)
       /\ client' = [client EXCEPT ![c] = [pc |-> "retry", job |-> new, run |-> jobs[j].run]]
  /\ UNCHANGED <<jobs, queue, worker, thread, timers, run>> /\ KeepFile

\* Without a node to retry the copy starts a run of its own.
PrepareRetry(c) ==
  /\ client[c].pc = "retry"
  /\ \E r \in {client[c].run, NoRun} :
       client' = [client EXCEPT ![c].pc = "retried", ![c].run = r]
  /\ UNCHANGED <<jobs, queue, worker, thread, timers, run, requests>> /\ KeepFile

QueueRetried(c) ==
  /\ client[c].pc = "retried"
  /\ jobs' = [jobs EXCEPT ![client[c].job] = NewJob(client[c].run)]
  /\ queue' = Append(queue, client[c].job)
  /\ EnsureWorker /\ Persist
  /\ client' = [client EXCEPT ![c] = Quiet]
  /\ UNCHANGED <<timers, run, requests>>

------------------------------------------------------------------------------
(* The worker thread *)

At(t, pc) == thread[t].pc = pc
Goes(t, pc) == thread' = [thread EXCEPT ![t].pc = pc]
Loops(t) == thread' = [thread EXCEPT ![t] = Looping]

\* _worker_loop: the worker takes the next job, or it ends.
TakeJob(t) ==
  /\ At(t, "loop")
  /\ IF queue = <<>>
     THEN /\ worker' = NoThread
          /\ thread' = [thread EXCEPT ![t] = Gone]
          /\ UNCHANGED queue
     ELSE LET j == Head(queue)
              dropped == jobs[j].status = "cancelled" \/ jobs[j].cancel
          IN  /\ queue' = Tail(queue)
              /\ thread' = IF dropped THEN thread
                           ELSE [thread EXCEPT ![t].pc = "taken", ![t].job = j]
              /\ UNCHANGED worker
  /\ UNCHANGED <<jobs, client, timers, run, requests>> /\ KeepFile

\* _run_job up to the preflight.
BeginJob(t) ==
  LET j == thread[t].job
  IN  /\ At(t, "taken")
      /\ UNCHANGED <<queue, worker, client, timers, run, requests>>
      /\ IF jobs[j].cancel
         THEN /\ jobs' = [jobs EXCEPT ![j].status = "cancelled"]
              /\ Loops(t) /\ KeepFile
         ELSE /\ jobs' = [jobs EXCEPT ![j].status = "running"]
              /\ Goes(t, "preflight") /\ Persist

\* _mark_cancelled, or the handler of exceptions at the end of _run_job.
EndJob(t, failed) ==
  LET j == thread[t].job
  IN  /\ jobs' = [jobs EXCEPT ![j].status = IF failed /\ ~jobs[j].cancel THEN "failed" ELSE "cancelled"]
      /\ Loops(t)
      /\ UNCHANGED <<queue, worker, client, timers, requests>>

PreflightFails(t) ==
  /\ At(t, "preflight")
  /\ Surprise
  /\ EndJob(t, TRUE)
  /\ file' = [jobs |-> jobs', queue |-> queue] /\ stale' = FALSE
  /\ UNCHANGED run

CancelledBeforePipeline(t) ==
  /\ At(t, "preflight") /\ jobs[thread[t].job].cancel
  /\ EndJob(t, FALSE) /\ Persist
  /\ UNCHANGED run

\* Mutant of StartPipeline: the row of a new run is not committed before it is used.
StartPipeline_NoRow(t) ==
  LET j == thread[t].job
  IN  /\ At(t, "preflight") /\ ~jobs[j].cancel
      /\ \E r \in Runs :
           /\ IF jobs[j].run = NoRun THEN run[r] = "none" ELSE r = jobs[j].run
           /\ thread' = [thread EXCEPT ![t].pc = "pipeline", ![t].run = r]
      /\ UNCHANGED <<jobs, queue, worker, client, timers, run, requests>>
      /\ Persist

\* resume_pipeline if the job has a run, run_pipeline if not.
StartPipeline(t) ==
  LET j == thread[t].job
  IN  /\ At(t, "preflight") /\ ~jobs[j].cancel
      /\ \E r \in Runs :
           /\ IF jobs[j].run = NoRun THEN run[r] = "none" ELSE r = jobs[j].run
           /\ run' = [run EXCEPT ![r] = "running"]
           /\ thread' = [thread EXCEPT ![t].pc = "pipeline", ![t].run = r]
      /\ UNCHANGED <<jobs, queue, worker, client, timers, requests>>
      /\ Persist

\* _handle_pipeline_progress tells the job its run.
Progress(t) ==
  LET j == thread[t].job
  IN  /\ At(t, "pipeline")
      /\ jobs[j].status \in {"running", "cancel_requested"}
      /\ jobs[j].run # thread[t].run
      /\ jobs' = [jobs EXCEPT ![j].run = thread[t].run]
      /\ UNCHANGED <<queue, worker, thread, client, timers, run, requests>>
      /\ Persist

PipelineRaises(t) ==
  /\ At(t, "pipeline")
  /\ \E s \in RunStatus : run' = [run EXCEPT ![thread[t].run] = s]
  /\ EndJob(t, TRUE) /\ Persist

\* The job is cancelled, or it gets the run whose result is looked at next.
PipelineReturns(t) ==
  LET j == thread[t].job
  IN  /\ At(t, "pipeline")
      /\ \E s \in RunStatus : run' = [run EXCEPT ![thread[t].run] = s]
      /\ IF jobs[j].cancel THEN EndJob(t, FALSE)
         ELSE /\ jobs' = [jobs EXCEPT ![j].run = thread[t].run]
              /\ Goes(t, "returned")
              /\ UNCHANGED <<queue, worker, client, timers, requests>>
      /\ Persist

\* Mutant of JobOutcome: a run that waits for a lease keeps its job running.
JobOutcome_Running(s) == IF s = "success" THEN {"success", "failed"} ELSE {s}

\* What becomes of the job of a run of status s.  A success without the evidence
\* the job asks for is a failure.
JobOutcome(s) ==
  CASE s = "running" -> {"retry_wait"}
    [] s = "success" -> {"success", "failed"}
    [] OTHER         -> {s}

\* _run_status, without the lock: a status that cannot be read is a success.
ReadStatus(t) ==
  /\ At(t, "returned")
  /\ \E s \in {run[thread[t].run], "success"} :
       thread' = [thread EXCEPT ![t].pc = "report", ![t].run = s]
  /\ UNCHANGED <<jobs, queue, worker, client, timers, run, requests>> /\ KeepFile

Report(t) ==
  LET j == thread[t].job
  IN  /\ At(t, "report")
      /\ \E s \in JobOutcome(thread[t].run) : jobs' = [jobs EXCEPT ![j].status = s]
      /\ timers' = IF jobs'[j].status = "retry_wait" THEN timers \cup {<<"retry", j>>} ELSE timers
      /\ Loops(t)
      /\ UNCHANGED <<queue, worker, client, run, requests>>
      /\ Persist

------------------------------------------------------------------------------
(* Timers and restarts *)

\* _schedule_retry
RetryTimer(j) ==
  /\ <<"retry", j>> \in timers
  /\ timers' = timers \ {<<"retry", j>>}
  /\ IF jobs[j].status = "retry_wait"
     THEN /\ jobs' = [jobs EXCEPT ![j].status = "queued"]
          /\ queue' = Enqueued(j)
          /\ EnsureWorker /\ Persist
     ELSE UNCHANGED <<jobs, queue, worker, thread>> /\ KeepFile
  /\ UNCHANGED <<client, run, requests>>

\* _schedule_cancel_recovery; the timer is set again until no node is running.
CancelTimer(j) ==
  /\ <<"cancel", j>> \in timers
  /\ \E s \in CancelOutcome \cup {"human_required"} :
       /\ run' = [run EXCEPT ![jobs[j].run] = s]
       /\ timers' = IF s = "cancel_requested" THEN timers ELSE timers \ {<<"cancel", j>>}
       /\ UNCHANGED <<queue, worker, thread, client, requests>>
       /\ IF s # "cancel_requested" /\ jobs[j].status = "cancel_requested"
          THEN jobs' = [jobs EXCEPT ![j].status = "cancelled"] /\ Persist
          ELSE UNCHANGED jobs /\ KeepFile

\* _load_jobs: the status of a job that was under way is taken from its run.
Restored(job) ==
  IF job.status \notin {"running", "cancel_requested", "retry_wait"} THEN job
  ELSE IF job.run = NoRun THEN [job EXCEPT !.status = "failed"]
  ELSE IF run'[job.run] \in {"running", "retry_wait"}
       THEN [job EXCEPT !.status = "queued", !.cancel = FALSE]
       ELSE [job EXCEPT !.status = run'[job.run]]

\* Mutant of Missing: only runs that were being executed are looked for.
Missing_Running(r) ==
  /\ run'[r] \in {"running", "retry_wait"}
  /\ \A j \in JobIds : file.jobs[j].run # r

\* _restore_missing_sqlite_jobs: an open run that no job in the file names.
Missing(r) ==
  /\ run'[r] \in OpenRun
  /\ \A j \in JobIds : file.jobs[j].run # r

RecoveredJob(r) ==
  CASE run'[r] = "human_required"   -> [NewJob(r) EXCEPT !.status = "human_required"]
    [] run'[r] = "cancel_requested" -> [NewJob(r) EXCEPT !.status = "cancel_requested", !.cancel = TRUE]
    [] OTHER                        -> NewJob(r)

\* The process dies at any point and is started again: _recover_interrupted_runs,
\* _load_jobs and _restore_missing_sqlite_jobs.
Restart ==
  /\ Surprise
  /\ run' \in [Runs -> RunStatus \cup {"none"}]
  /\ \A r \in Runs :
       IF run[r] \in {"running", "cancel_requested", "retry_wait"}
       THEN run'[r] # "none" ELSE run'[r] = run[r]
  /\ jobs' = [j \in JobIds |-> IF j \in Runs /\ Missing(j) THEN RecoveredJob(j)
                               ELSE Restored(file.jobs[j])]
  /\ LET queued == {j \in JobIds : jobs'[j].status = "queued"}
         kept == Selected(file.queue, queued)
     IN  queue' = kept \o SetToSeq(queued \ ToSet(kept))
  /\ timers' = {<<"cancel", j>> : j \in {i \in JobIds : jobs'[i].status = "cancel_requested"}}
  /\ \E t \in Threads :
       IF queue' = <<>> THEN worker' = NoThread /\ thread' = [u \in Threads |-> Gone]
       ELSE worker' = t /\ thread' = [u \in Threads |-> IF u = t THEN Looping ELSE Gone]
  /\ client' = [c \in Clients |-> Quiet]
  /\ file' = [jobs |-> jobs', queue |-> queue'] /\ stale' = FALSE
  /\ UNCHANGED requests

------------------------------------------------------------------------------

Work(t) ==
  \/ TakeJob(t) \/ BeginJob(t) \/ CancelledBeforePipeline(t) \/ StartPipeline(t)
  \/ PipelineRaises(t) \/ PipelineReturns(t) \/ ReadStatus(t) \/ Report(t)

Next ==
  \/ \E c \in Clients :
       \/ StartRun(c) \/ CancelJob(c) \/ CancelRun(c) \/ OperateNode(c) \/ ReopenNode(c)
       \/ RefuseNode(c) \/ QueueOperated(c) \/ RetryJob(c) \/ PrepareRetry(c) \/ QueueRetried(c)
  \/ \E t \in Threads : Work(t) \/ PreflightFails(t) \/ Progress(t)
  \/ \E j \in JobIds : RetryTimer(j) \/ CancelTimer(j)
  \/ Restart

Spec == Init /\ [][Next]_vars
------------------------------------------------------------------------------

Executing(t) == thread[t].pc \notin {"none", "loop"}

TypeOK ==
  /\ \A j \in JobIds : /\ jobs[j].status \in JobStatus \cup {"absent"}
                       /\ jobs[j].cancel \in BOOLEAN
                       /\ jobs[j].run \in Runs \cup {NoRun}
  /\ ToSet(queue) \subseteq JobIds
  /\ worker \in Threads \cup {NoThread}
  /\ \A t \in Threads : /\ (Executing(t) => jobs[thread[t].job].status # "absent")
                         /\ (At(t, "pipeline") => run[thread[t].run] # "none")
  /\ run \in [Runs -> RunStatus \cup {"none"}]

\* However requests, timers and ending workers interleave, one job is executed
\* at a time; _run_job changes process-wide settings on that account.
OneJobAtATime == \A t, u \in Threads : Executing(t) /\ Executing(u) => t = u

RunningJobsHaveThreads ==
  \A j \in JobIds : jobs[j].status = "running" =>
    \E t \in Threads : Executing(t) /\ thread[t].job = j

QueuedJobsAreKnown ==
  \A j \in JobIds : jobs[j].status = "queued" /\ ~jobs[j].cancel =>
    Contains(queue, j) \/ \E t \in Threads : At(t, "taken") /\ thread[t].job = j

QueueHasWorker == queue # <<>> => Alive(worker)

\* No job is lost: a queued one is in the queue or has just been taken, a running
\* one has a thread that runs it, and while the queue holds a job there is a
\* worker.  A job that was cancelled while its result was read is the exception:
\* its retry is queued, and dropped by the worker.
JobsAreAttended == RunningJobsHaveThreads /\ QueuedJobsAreKnown /\ QueueHasWorker

\* A restart keeps every queued job queued, provided the last write of the file
\* went through, with the run it works on.
RestartKeepsQueue ==
  [][Restart /\ ~stale => \A j \in JobIds :
       jobs[j].status = "queued" => /\ jobs'[j].status = "queued" /\ Contains(queue', j)
                                    /\ jobs'[j].run = jobs[j].run]_vars

Finished == {"success", "failed", "cancelled"}

\* The jobs the file has for a run, of which there may be none, are finished.
FinishedInFile(r) == \A j \in JobIds : file.jobs[j].run = r => file.jobs[j].status \in Finished

\* After a restart every open run has a job that goes on with it, whatever the
\* file had lost, unless the file has jobs for it that are all finished.
OpenRunsAreTakenUp ==
  [][Restart => \A r \in Runs : run'[r] \in OpenRun =>
       \/ \E j \in JobIds : jobs'[j].run = r /\ jobs'[j].status \notin Finished
       \/ FinishedInFile(r) /\ \E j \in JobIds : file.jobs[j].run = r]_vars
=============================================================================
