------------------------- MODULE AgentRuntime_proofs -------------------------
(* For any number of jobs, runs, threads and requests: one job is executed at a *)
(* time, no job is lost from the queue but one that was cancelled while its     *)
(* result was read, and a restart finds all that was open.                      *)
EXTENDS AgentRuntime, FiniteSetTheorems, WellFoundedInduction, TLAPS

JobRow(row) == row = [status |-> row.status, cancel |-> row.cancel, run |-> row.run]
JobTable(table) == /\ table = [j \in JobIds |-> table[j]]
                   /\ \A j \in JobIds : JobRow(table[j])
ThreadRow(row) == row = [pc |-> row.pc, job |-> row.job, run |-> row.run]

\* The shape of the tables, of what is in memory and of what is in the file.
Shapes ==
  /\ JobTable(jobs)
  /\ JobTable(file.jobs)
  /\ thread = [t \in Threads |-> thread[t]]
  /\ \A t \in Threads : ThreadRow(thread[t])
  /\ worker \in Threads \cup {NoThread}

\* A thread that has not ended is the one _worker points at: a worker gives the
\* place up in the same locked section in which it finds the queue empty.
OnlyTheWorkerLives == \A t \in Threads : thread[t].pc # "none" => t = worker

IInv == Shapes /\ OnlyTheWorkerLives /\ RunningJobsHaveThreads

------------------------------------------------------------------------------
(* What the steps do to the threads and to the jobs *)

\* A locked section that queues a job starts a worker if there is none alive.
LEMMA WorkerStarted ==
  ASSUME IInv, EnsureWorker
  PROVE  /\ thread' = [t \in Threads |-> thread'[t]]
         /\ \A t \in Threads : ThreadRow(thread'[t])
         /\ worker' \in Threads \cup {NoThread}
         /\ \A t \in Threads : thread'[t].pc # "none" => t = worker'
         /\ \A t \in Threads : Executing(t) => thread'[t] = thread[t]
<1>1. CASE Alive(worker)
  BY <1>1 DEF EnsureWorker, IInv, Shapes, OnlyTheWorkerLives
<1>2. CASE ~Alive(worker)
  <2>1. \A t \in Threads : thread[t].pc = "none"
    BY <1>2, RuntimeAssumption DEF Alive, IInv, OnlyTheWorkerLives
  <2>2. PICK t \in Threads : worker' = t /\ thread' = [thread EXCEPT ![t] = Looping]
    BY <1>2 DEF EnsureWorker
  <2>3. ThreadRow(Looping)
    BY DEF ThreadRow, Looping, Gone
  <2>4. thread' = [u \in Threads |-> IF u = t THEN Looping ELSE thread[u]]
    BY <2>2 DEF IInv, Shapes
  <2>. QED
    BY <2>1, <2>2, <2>3, <2>4 DEF IInv, Shapes, Executing
<1>. QED
  BY <1>1, <1>2

\* A step of the worker thread itself changes its own row only.
LEMMA ThreadMoves ==
  ASSUME IInv, NEW t \in Threads, thread[t].pc # "none",
         NEW row, ThreadRow(row), thread' = [thread EXCEPT ![t] = row], worker' = worker
  PROVE  /\ thread' = [u \in Threads |-> IF u = t THEN row ELSE thread[u]]
         /\ \A u \in Threads : ThreadRow(thread'[u])
         /\ \A u \in Threads : thread'[u].pc # "none" => u = worker'
BY DEF IInv, Shapes, OnlyTheWorkerLives

\* The file holds a copy of the jobs or stays what it was.
LEMMA FileShape ==
  ASSUME IInv, JobTable(jobs'), Persist \/ KeepFile
  PROVE  JobTable(file'.jobs)
<1>1. file'.jobs = jobs' \/ file' = file
  BY DEF Persist, KeepFile
<1>. QED
  BY <1>1 DEF IInv, Shapes

\* A change of one job's status to another one than "running" leaves every
\* running job with the thread it had.
LEMMA StatusChange ==
  ASSUME IInv, NEW j, NEW row, JobRow(row), row.status # "running",
         jobs' = [jobs EXCEPT ![j] = row]
  PROVE  /\ JobTable(jobs')
         /\ \A i \in JobIds : jobs'[i].status = "running" =>
              i # j /\ jobs[i].status = "running"
BY DEF IInv, Shapes, JobTable

------------------------------------------------------------------------------
(* The kinds of steps *)

\* A job is queued, or queued again.
LEMMA JobQueued ==
  ASSUME IInv, NEW j, NEW row, JobRow(row), row.status # "running",
         jobs' = [jobs EXCEPT ![j] = row], EnsureWorker, Persist
  PROVE  IInv'
<1>1. JobTable(file'.jobs)
  BY StatusChange, FileShape
<1>2. ASSUME NEW i \in JobIds, jobs'[i].status = "running"
      PROVE  \E t \in Threads : Executing(t)' /\ thread'[t].job = i
  <2>1. PICK t \in Threads : Executing(t) /\ thread[t].job = i
    BY <1>2, StatusChange DEF IInv, RunningJobsHaveThreads
  <2>. QED
    BY <2>1, WorkerStarted DEF Executing
<1>. QED
  BY <1>1, <1>2, StatusChange, WorkerStarted
  DEF IInv, Shapes, OnlyTheWorkerLives, RunningJobsHaveThreads

\* A request or a timer changes the status of a job and leaves the threads alone.
LEMMA JobSettled ==
  ASSUME IInv, NEW j, NEW row, JobRow(row), row.status # "running",
         jobs' = [jobs EXCEPT ![j] = row], UNCHANGED <<worker, thread>>, Persist \/ KeepFile
  PROVE  IInv'
<1>1. JobTable(file'.jobs)
  BY StatusChange, FileShape
<1>. QED
  BY <1>1, StatusChange DEF IInv, Shapes, OnlyTheWorkerLives, RunningJobsHaveThreads, Executing

\* A thread moves on, and the jobs that run are its own and those of others.
LEMMA WorkerStep ==
  ASSUME IInv, NEW t \in Threads, thread[t].pc # "none",
         NEW row, ThreadRow(row), thread' = [thread EXCEPT ![t] = row], worker' = worker,
         JobTable(jobs'), JobTable(file'.jobs),
         \A i \in JobIds : jobs'[i].status = "running" =>
           \/ row.pc \notin {"none", "loop"} /\ row.job = i
           \/ jobs[i].status = "running" /\ ~(Executing(t) /\ thread[t].job = i)
  PROVE  IInv'
<1>1. ASSUME NEW i \in JobIds, jobs'[i].status = "running"
      PROVE  \E u \in Threads : Executing(u)' /\ thread'[u].job = i
  <2>1. CASE row.pc \notin {"none", "loop"} /\ row.job = i
    BY <2>1, ThreadMoves DEF Executing
  <2>2. CASE jobs[i].status = "running" /\ ~(Executing(t) /\ thread[t].job = i)
    <3>1. PICK u \in Threads : Executing(u) /\ thread[u].job = i
      BY <2>2 DEF IInv, RunningJobsHaveThreads
    <3>2. thread'[u] = thread[u]
      BY <2>2, <3>1, ThreadMoves
    <3>. QED
      BY <3>1, <3>2 DEF Executing
  <2>. QED
    BY <1>1, <2>1, <2>2
<1>. QED
  BY <1>1, ThreadMoves DEF IInv, Shapes, OnlyTheWorkerLives, RunningJobsHaveThreads

\* The worker thread ends the job it has, or only the row of its run changes.
LEMMA JobEnded ==
  ASSUME IInv, NEW t \in Threads, thread[t].pc \notin {"none", "loop"},
         NEW row, JobRow(row), row.status # "running",
         jobs' = [jobs EXCEPT ![thread[t].job] = row],
         Loops(t), worker' = worker, Persist \/ KeepFile \/ file'.jobs = jobs'
  PROVE  IInv'
<1>1. JobTable(jobs')
  BY StatusChange
<1>2. JobTable(file'.jobs)
  BY <1>1, FileShape
<1>3. ThreadRow(Looping)
  BY DEF ThreadRow, Looping, Gone
<1>4. thread' = [thread EXCEPT ![t] = Looping]
  BY DEF Loops
<1>5. \A i \in JobIds : jobs'[i].status = "running" => jobs[i].status = "running" /\ thread[t].job # i
  BY StatusChange
<1>. QED
  BY <1>1, <1>2, <1>3, <1>4, <1>5, WorkerStep

\* The worker thread goes on with its job, whose row changes or not.
LEMMA JobGoesOn ==
  ASSUME IInv, NEW t \in Threads, thread[t].pc \notin {"none", "loop"},
         NEW row, ThreadRow(row), row.pc \notin {"none", "loop"}, row.job = thread[t].job,
         thread' = [thread EXCEPT ![t] = row], worker' = worker,
         \/ jobs' = jobs
         \/ \E r : JobRow(r) /\ jobs' = [jobs EXCEPT ![thread[t].job] = r],
         Persist \/ KeepFile
  PROVE  IInv'
<1>1. JobTable(jobs')
  BY DEF IInv, Shapes, JobTable
<1>2. JobTable(file'.jobs)
  BY <1>1, FileShape
<1>3. \A i \in JobIds : i # thread[t].job => jobs'[i] = jobs[i]
  BY DEF IInv, Shapes, JobTable
<1>. QED
  BY <1>1, <1>2, <1>3, WorkerStep

------------------------------------------------------------------------------
(* Assignments to fields of a job or of a thread, as new rows *)

JobGets(j, status, cancel) ==
  \/ jobs' = [jobs EXCEPT ![j].status = status, ![j].cancel = cancel]
  \/ jobs' = [jobs EXCEPT ![j].status = status] /\ cancel = jobs[j].cancel

JobIsTold(j, r) == jobs' = [jobs EXCEPT ![j].run = r]

ThreadGets(t, pc, r) ==
  \/ thread' = [thread EXCEPT ![t].pc = pc, ![t].run = r]
  \/ thread' = [thread EXCEPT ![t].pc = pc] /\ r = thread[t].run

LEMMA JobRewritten ==
  ASSUME IInv, NEW j, NEW status, NEW cancel, JobGets(j, status, cancel)
  PROVE  \E row : /\ JobRow(row) /\ row.status = status /\ row.cancel = cancel
                 /\ row.run = jobs[j].run /\ jobs' = [jobs EXCEPT ![j] = row]
<1>. DEFINE row == [status |-> status, cancel |-> cancel, run |-> jobs[j].run]
<1>1. JobRow(row) /\ row.status = status /\ row.cancel = cancel /\ row.run = jobs[j].run
  BY DEF JobRow
<1>2. jobs' = [jobs EXCEPT ![j] = row]
  <2>1. CASE j \in JobIds
    <3>1. PICK old : old = jobs[j]
      OBVIOUS
    <3>2. PICK st, ca, ru : old = [status |-> st, cancel |-> ca, run |-> ru]
      BY <2>1, <3>1 DEF IInv, Shapes, JobTable, JobRow
    <3>3. PICK told : told = [old EXCEPT !.status = status]
      OBVIOUS
    <3>4. told = [status |-> status, cancel |-> ca, run |-> ru]
      BY <3>2, <3>3
    <3>6. [told EXCEPT !.cancel = cancel] = [status |-> status, cancel |-> cancel, run |-> ru]
      BY <3>4
    <3>7. jobs[j].run = ru /\ old.cancel = ca
      BY <3>1, <3>2
    <3>8. [old EXCEPT !.status = status, !.cancel = cancel] = row
      <4>1. [old EXCEPT !.status = status, !.cancel = cancel] = [told EXCEPT !.cancel = cancel]
        BY <3>3
      <4>. QED
        BY <4>1, <3>6, <3>7
    <3>9. cancel = old.cancel => [old EXCEPT !.status = status] = row
      BY <3>3, <3>4, <3>7
    <3>5. \/ jobs' = [jobs EXCEPT ![j] = [old EXCEPT !.status = status, !.cancel = cancel]]
          \/ cancel = old.cancel /\ jobs' = [jobs EXCEPT ![j] = [old EXCEPT !.status = status]]
      BY <3>1 DEF JobGets
    <3>. QED
      BY <3>5, <3>8, <3>9
  <2>2. CASE j \notin JobIds
    BY <2>2 DEF JobGets, IInv, Shapes, JobTable
  <2>. QED
    BY <2>1, <2>2
<1>. QED
  BY <1>1, <1>2

LEMMA JobEdited ==
  ASSUME IInv, NEW j, NEW status, NEW cancel,
         \/ jobs' = [jobs EXCEPT ![j].status = status, ![j].cancel = cancel]
         \/ jobs' = [jobs EXCEPT ![j].status = status] /\ cancel = jobs[j].cancel
  PROVE  \E row : JobRow(row) /\ row.status = status /\ jobs' = [jobs EXCEPT ![j] = row]
<1>1. JobGets(j, status, cancel)
  BY DEF JobGets
<1>. QED
  BY <1>1, JobRewritten

LEMMA RunRewritten ==
  ASSUME IInv, NEW j, NEW r, JobIsTold(j, r)
  PROVE  \E row : /\ JobRow(row) /\ row.status = jobs[j].status /\ row.cancel = jobs[j].cancel
                 /\ row.run = r /\ jobs' = [jobs EXCEPT ![j] = row]
<1>. DEFINE row == [status |-> jobs[j].status, cancel |-> jobs[j].cancel, run |-> r]
<1>1. /\ JobRow(row) /\ row.status = jobs[j].status /\ row.cancel = jobs[j].cancel
      /\ row.run = r
  BY DEF JobRow
<1>2. jobs' = [jobs EXCEPT ![j] = row]
  <2>1. CASE j \in JobIds
    <3>1. [jobs[j] EXCEPT !.run = r] = row
      BY <2>1 DEF IInv, Shapes, JobTable, JobRow
    <3>2. jobs' = [jobs EXCEPT ![j] = [jobs[j] EXCEPT !.run = r]]
      BY DEF JobIsTold
    <3>. QED
      BY <3>1, <3>2
  <2>2. CASE j \notin JobIds
    BY <2>2 DEF JobIsTold, IInv, Shapes, JobTable
  <2>. QED
    BY <2>1, <2>2
<1>. QED
  BY <1>1, <1>2

LEMMA RunAssigned ==
  ASSUME IInv, NEW j, NEW r, jobs' = [jobs EXCEPT ![j].run = r]
  PROVE  \E row : /\ JobRow(row) /\ row.status = jobs[j].status
                 /\ jobs' = [jobs EXCEPT ![j] = row]
<1>1. JobIsTold(j, r)
  BY DEF JobIsTold
<1>. QED
  BY <1>1, RunRewritten

LEMMA ThreadRewritten ==
  ASSUME IInv, NEW t \in Threads, NEW pc, NEW r, ThreadGets(t, pc, r)
  PROVE  \E row : /\ ThreadRow(row) /\ row.pc = pc /\ row.job = thread[t].job /\ row.run = r
                 /\ thread' = [thread EXCEPT ![t] = row]
<1>. DEFINE row == [pc |-> pc, job |-> thread[t].job, run |-> r]
<1>1. ThreadRow(row) /\ row.pc = pc /\ row.job = thread[t].job /\ row.run = r
  BY DEF ThreadRow
<1>2. thread' = [thread EXCEPT ![t] = row]
  BY DEF ThreadGets, IInv, Shapes, ThreadRow
<1>. QED
  BY <1>1, <1>2

LEMMA ThreadEdited ==
  ASSUME IInv, NEW t \in Threads, NEW pc, NEW r,
         \/ thread' = [thread EXCEPT ![t].pc = pc, ![t].run = r]
         \/ thread' = [thread EXCEPT ![t].pc = pc] /\ r = thread[t].run
  PROVE  \E row : /\ ThreadRow(row) /\ row.pc = pc /\ row.job = thread[t].job
                 /\ thread' = [thread EXCEPT ![t] = row]
<1>1. ThreadGets(t, pc, r)
  BY DEF ThreadGets
<1>. QED
  BY <1>1, ThreadRewritten

LEMMA JobTaken ==
  ASSUME IInv, NEW t \in Threads, NEW j,
         thread' = [thread EXCEPT ![t].pc = "taken", ![t].job = j]
  PROVE  \E row : /\ ThreadRow(row) /\ row.pc = "taken" /\ row.job = j
                 /\ thread' = [thread EXCEPT ![t] = row]
<1>. DEFINE row == [pc |-> "taken", job |-> j, run |-> thread[t].run]
<1>1. ThreadRow(row) /\ row.pc = "taken" /\ row.job = j
  BY DEF ThreadRow
<1>2. thread' = [thread EXCEPT ![t] = [thread[t] EXCEPT !.pc = "taken", !.job = j]]
  BY DEF IInv, Shapes
<1>3. [thread[t] EXCEPT !.pc = "taken", !.job = j] = row
  <2>1. PICK p, i, r : thread[t] = [pc |-> p, job |-> i, run |-> r]
    BY DEF IInv, Shapes, ThreadRow
  <2>2. [thread[t] EXCEPT !.pc = "taken", !.job = j]
          = [[thread[t] EXCEPT !.pc = "taken"] EXCEPT !.job = j]
    OBVIOUS
  <2>3. /\ [thread[t] EXCEPT !.pc = "taken"] = [pc |-> "taken", job |-> i, run |-> r]
        /\ thread[t].run = r
    BY <2>1
  <2>4. [[pc |-> "taken", job |-> i, run |-> r] EXCEPT !.job = j]
          = [pc |-> "taken", job |-> j, run |-> r]
    OBVIOUS
  <2>. QED
    BY <2>2, <2>3, <2>4
<1>. QED
  BY <1>1, <1>2, <1>3

\* Nothing the invariant speaks of changes.
LEMMA NothingMoves ==
  ASSUME IInv, UNCHANGED <<jobs, worker, thread, file>>
  PROVE  IInv'
BY DEF IInv, Shapes, JobTable, OnlyTheWorkerLives, RunningJobsHaveThreads, Executing

------------------------------------------------------------------------------
(* Requests and timers *)

LEMMA ClientStep ==
  ASSUME IInv, NEW c \in Clients,
         \/ StartRun(c) \/ CancelJob(c) \/ CancelRun(c) \/ OperateNode(c) \/ ReopenNode(c)
         \/ RefuseNode(c) \/ QueueOperated(c) \/ RetryJob(c) \/ PrepareRetry(c) \/ QueueRetried(c)
  PROVE  IInv'
<1>1. \A r : JobRow(NewJob(r)) /\ NewJob(r).status = "queued"
  BY DEF JobRow, NewJob
<1>2. CASE StartRun(c)
  <2>1. PICK j \in Jobs : jobs' = [jobs EXCEPT ![j] = NewJob(NoRun)]
    BY <1>2 DEF StartRun
  <2>. QED
    BY <1>1, <1>2, <2>1, JobQueued DEF StartRun
<1>3. CASE CancelJob(c)
  <2>1. PICK j \in JobIds :
          \/ /\ \/ jobs' = [jobs EXCEPT ![j].status = "cancelled", ![j].cancel = TRUE]
                \/ jobs' = [jobs EXCEPT ![j].status = "cancel_requested", ![j].cancel = TRUE]
             /\ Persist
          \/ UNCHANGED jobs /\ KeepFile
    BY <1>3 DEF CancelJob
  <2>2. UNCHANGED <<worker, thread>>
    BY <1>3 DEF CancelJob
  <2>3. CASE UNCHANGED jobs /\ KeepFile
    BY <2>2, <2>3, NothingMoves DEF KeepFile
  <2>4. CASE Persist /\ ~UNCHANGED jobs
    <3>1. \E row : /\ JobRow(row) /\ row.status \in {"cancelled", "cancel_requested"}
                  /\ jobs' = [jobs EXCEPT ![j] = row]
      <4>1. CASE jobs' = [jobs EXCEPT ![j].status = "cancelled", ![j].cancel = TRUE]
        BY <4>1, JobEdited
      <4>2. CASE jobs' = [jobs EXCEPT ![j].status = "cancel_requested", ![j].cancel = TRUE]
        BY <4>2, JobEdited
      <4>. QED
        BY <2>1, <2>4, <4>1, <4>2
    <3>2. PICK row : /\ JobRow(row) /\ row.status \in {"cancelled", "cancel_requested"}
                     /\ jobs' = [jobs EXCEPT ![j] = row]
      BY <3>1
    <3>. QED
      BY <2>2, <2>4, <3>2, JobSettled
  <2>5. CASE Persist /\ UNCHANGED jobs
    BY <2>2, <2>5, FileShape
    DEF IInv, Shapes, JobTable, OnlyTheWorkerLives, RunningJobsHaveThreads, Executing
  <2>. QED
    BY <2>1, <2>3, <2>4, <2>5
<1>4. CASE CancelRun(c)
  BY <1>4, NothingMoves DEF CancelRun, KeepFile
<1>5. CASE OperateNode(c)
  BY <1>5, NothingMoves DEF OperateNode, KeepFile
<1>6. CASE ReopenNode(c)
  BY <1>6, NothingMoves DEF ReopenNode, KeepFile
<1>7. CASE RefuseNode(c)
  BY <1>7, NothingMoves DEF RefuseNode, KeepFile
<1>8. CASE QueueOperated(c)
  <2>1. PICK row : JobRow(row) /\ row.status = "queued" /\ jobs' = [jobs EXCEPT ![client[c].job] = row]
    BY <1>8, JobEdited DEF QueueOperated
  <2>. QED
    BY <1>8, <2>1, JobQueued DEF QueueOperated
<1>9. CASE RetryJob(c)
  BY <1>9, NothingMoves DEF RetryJob, KeepFile
<1>10. CASE PrepareRetry(c)
  BY <1>10, NothingMoves DEF PrepareRetry, KeepFile
<1>11. CASE QueueRetried(c)
  BY <1>1, <1>11, JobQueued DEF QueueRetried
<1>. QED
  BY <1>2, <1>3, <1>4, <1>5, <1>6, <1>7, <1>8, <1>9, <1>10, <1>11

LEMMA TimerStep ==
  ASSUME IInv, NEW j \in JobIds, RetryTimer(j) \/ CancelTimer(j)
  PROVE  IInv'
<1>1. CASE RetryTimer(j)
  <2>1. CASE jobs[j].status = "retry_wait"
    <3>1. PICK row : JobRow(row) /\ row.status = "queued" /\ jobs' = [jobs EXCEPT ![j] = row]
      BY <1>1, <2>1, JobEdited DEF RetryTimer
    <3>. QED
      BY <1>1, <2>1, <3>1, JobQueued DEF RetryTimer
  <2>2. CASE jobs[j].status # "retry_wait"
    BY <1>1, <2>2, NothingMoves DEF RetryTimer, KeepFile
  <2>. QED
    BY <2>1, <2>2
<1>2. CASE CancelTimer(j)
  <2>1. CASE jobs' = [jobs EXCEPT ![j].status = "cancelled"] /\ Persist
    <3>1. PICK row : JobRow(row) /\ row.status = "cancelled" /\ jobs' = [jobs EXCEPT ![j] = row]
      BY <2>1, JobEdited
    <3>. QED
      BY <1>2, <2>1, <3>1, JobSettled DEF CancelTimer
  <2>2. CASE UNCHANGED jobs /\ KeepFile
    BY <1>2, <2>2, NothingMoves DEF CancelTimer, KeepFile
  <2>. QED
    BY <1>2, <2>1, <2>2 DEF CancelTimer
<1>. QED
  BY <1>1, <1>2

------------------------------------------------------------------------------
(* The worker thread *)

LEMMA TakeJobStep ==
  ASSUME IInv, NEW t \in Threads, TakeJob(t)
  PROVE  IInv'
<1>1. JobTable(jobs') /\ JobTable(file'.jobs)
  BY DEF TakeJob, KeepFile, IInv, Shapes, JobTable
<1>2. thread[t].pc = "loop" /\ t = worker /\ jobs' = jobs
  BY DEF TakeJob, At, IInv, OnlyTheWorkerLives
<1>3. CASE queue = <<>>
  <2>1. worker' = NoThread /\ thread' = [u \in Threads |-> IF u = t THEN Gone ELSE thread[u]]
    BY <1>3 DEF TakeJob, IInv, Shapes
  <2>2. ThreadRow(Gone) /\ Gone.pc = "none"
    BY DEF ThreadRow, Gone
  <2>3. \A u \in Threads : Executing(u) => u # t
    BY <1>2 DEF Executing
  <2>. QED
    BY <1>1, <1>2, <2>1, <2>2, <2>3
    DEF IInv, Shapes, OnlyTheWorkerLives, RunningJobsHaveThreads, Executing
<1>4. CASE queue # <<>>
  <2>1. CASE thread' = thread
    BY <1>1, <1>2, <1>4, <2>1
    DEF TakeJob, IInv, Shapes, OnlyTheWorkerLives, RunningJobsHaveThreads, Executing
  <2>2. CASE thread' = [thread EXCEPT ![t].pc = "taken", ![t].job = Head(queue)]
    <3>1. PICK row : ThreadRow(row) /\ thread' = [thread EXCEPT ![t] = row]
      BY <2>2, JobTaken
    <3>2. worker' = worker
      BY <1>4 DEF TakeJob
    <3>3. ~Executing(t)
      BY <1>2 DEF Executing
    <3>. QED
      BY <1>1, <1>2, <3>1, <3>2, <3>3, WorkerStep
  <2>. QED
    BY <1>4, <2>1, <2>2 DEF TakeJob
<1>. QED
  BY <1>3, <1>4

LEMMA EndJobStep ==
  ASSUME IInv, NEW t \in Threads, thread[t].pc \notin {"none", "loop"}, NEW failed,
         EndJob(t, failed), Persist \/ KeepFile \/ file'.jobs = jobs'
  PROVE  IInv'
<1>. DEFINE j == thread[t].job
            status == IF failed /\ ~jobs[j].cancel THEN "failed" ELSE "cancelled"
<1>1. jobs' = [jobs EXCEPT ![j].status = status] /\ status # "running"
  BY DEF EndJob
<1>2. Loops(t) /\ worker' = worker
  BY DEF EndJob
<1>. HIDE DEF status
<1>3. PICK row : JobRow(row) /\ row.status = status /\ jobs' = [jobs EXCEPT ![j] = row]
  BY <1>1, JobEdited
<1>. QED
  BY <1>1, <1>2, <1>3, JobEnded

LEMMA BeginJobStep ==
  ASSUME IInv, NEW t \in Threads, BeginJob(t)
  PROVE  IInv'
<1>. DEFINE j == thread[t].job
<1>1. thread[t].pc = "taken" /\ worker' = worker
  BY DEF BeginJob, At
<1>2. CASE jobs[j].cancel
  <2>1. PICK row : JobRow(row) /\ row.status = "cancelled" /\ jobs' = [jobs EXCEPT ![j] = row]
    BY <1>2, JobEdited DEF BeginJob
  <2>. QED
    BY <1>1, <1>2, <2>1, JobEnded DEF BeginJob
<1>3. CASE ~jobs[j].cancel
  <2>1. PICK row : JobRow(row) /\ jobs' = [jobs EXCEPT ![j] = row]
    BY <1>3, JobEdited DEF BeginJob
  <2>2. PICK next : /\ ThreadRow(next) /\ next.pc = "preflight" /\ next.job = j
                    /\ thread' = [thread EXCEPT ![t] = next]
    <3>1. thread' = [thread EXCEPT ![t].pc = "preflight"]
      BY <1>3 DEF BeginJob, Goes
    <3>. QED
      BY <3>1, ThreadEdited
  <2>3. Persist
    BY <1>3 DEF BeginJob
  <2>. QED
    BY <1>1, <2>1, <2>2, <2>3, JobGoesOn
<1>. QED
  BY <1>2, <1>3

LEMMA StartPipelineStep ==
  ASSUME IInv, NEW t \in Threads, StartPipeline(t)
  PROVE  IInv'
<1>1. PICK r \in Runs : thread' = [thread EXCEPT ![t].pc = "pipeline", ![t].run = r]
  BY DEF StartPipeline
<1>2. PICK next : /\ ThreadRow(next) /\ next.pc = "pipeline" /\ next.job = thread[t].job
                  /\ thread' = [thread EXCEPT ![t] = next]
  BY <1>1, ThreadEdited
<1>. QED
  BY <1>2, JobGoesOn DEF StartPipeline, At

LEMMA PipelineReturnsStep ==
  ASSUME IInv, NEW t \in Threads, PipelineReturns(t)
  PROVE  IInv'
<1>1. CASE jobs[thread[t].job].cancel
  BY <1>1, EndJobStep DEF PipelineReturns, At
<1>2. CASE ~jobs[thread[t].job].cancel
  <2>1. PICK row : JobRow(row) /\ jobs' = [jobs EXCEPT ![thread[t].job] = row]
    BY <1>2, RunAssigned DEF PipelineReturns
  <2>2. PICK next : /\ ThreadRow(next) /\ next.pc = "returned" /\ next.job = thread[t].job
                    /\ thread' = [thread EXCEPT ![t] = next]
    BY <1>2, ThreadEdited DEF PipelineReturns, Goes
  <2>. QED
    BY <1>2, <2>1, <2>2, JobGoesOn DEF PipelineReturns, At
<1>. QED
  BY <1>1, <1>2

LEMMA ReadStatusStep ==
  ASSUME IInv, NEW t \in Threads, ReadStatus(t)
  PROVE  IInv'
<1>1. PICK s : thread' = [thread EXCEPT ![t].pc = "report", ![t].run = s]
  BY DEF ReadStatus
<1>2. PICK next : /\ ThreadRow(next) /\ next.pc = "report" /\ next.job = thread[t].job
                  /\ thread' = [thread EXCEPT ![t] = next]
  BY <1>1, ThreadEdited
<1>. QED
  BY <1>2, JobGoesOn DEF ReadStatus, At

LEMMA ReportStep ==
  ASSUME IInv, NEW t \in Threads, Report(t)
  PROVE  IInv'
<1>1. PICK s \in JobOutcome(thread[t].run) : jobs' = [jobs EXCEPT ![thread[t].job].status = s]
  BY DEF Report
<1>2. s # "running"
  BY <1>1 DEF JobOutcome
<1>3. PICK row : JobRow(row) /\ row.status = s /\ jobs' = [jobs EXCEPT ![thread[t].job] = row]
  BY <1>1, JobEdited
<1>. QED
  BY <1>2, <1>3, JobEnded DEF Report, At

\* _handle_pipeline_progress tells the job its run: the thread does not move.
LEMMA ProgressStep ==
  ASSUME IInv, NEW t \in Threads, Progress(t)
  PROVE  IInv'
<1>1. JobTable(jobs') /\ \A i \in JobIds : jobs'[i].status = jobs[i].status
  <2>1. PICK row : /\ JobRow(row) /\ row.status = jobs[thread[t].job].status
                   /\ jobs' = [jobs EXCEPT ![thread[t].job] = row]
    BY RunAssigned DEF Progress
  <2>. QED
    BY <2>1 DEF IInv, Shapes, JobTable
<1>2. JobTable(file'.jobs)
  BY <1>1, FileShape DEF Progress
<1>. QED
  BY <1>1, <1>2
  DEF Progress, IInv, Shapes, OnlyTheWorkerLives, RunningJobsHaveThreads, Executing

LEMMA ThreadStep ==
  ASSUME IInv, NEW t \in Threads, Work(t) \/ PreflightFails(t) \/ Progress(t)
  PROVE  IInv'
<1>1. CASE CancelledBeforePipeline(t)
  BY <1>1, EndJobStep DEF CancelledBeforePipeline, At
<1>2. CASE PipelineRaises(t)
  BY <1>2, EndJobStep DEF PipelineRaises, At
<1>3. CASE PreflightFails(t)
  <2>1. file'.jobs = jobs'
    BY <1>3 DEF PreflightFails
  <2>. QED
    BY <1>3, <2>1, EndJobStep DEF PreflightFails, At
<1>. QED
  BY <1>1, <1>2, <1>3, TakeJobStep, BeginJobStep, StartPipelineStep, PipelineReturnsStep,
     ReadStatusStep, ReportStep, ProgressStep
  DEF Work

------------------------------------------------------------------------------
(* A restart *)

\* What is taken from the file or from an open run is not running any more.
LEMMA NothingRunsAfterRestart ==
  ASSUME IInv, Restart
  PROVE  JobTable(jobs') /\ \A j \in JobIds : jobs'[j].status # "running"
<1>1. ASSUME NEW j \in JobIds PROVE JobRow(jobs'[j]) /\ jobs'[j].status # "running"
  <2>1. jobs'[j] = IF j \in Runs /\ Missing(j) THEN RecoveredJob(j) ELSE Restored(file.jobs[j])
    BY <1>1 DEF Restart
  <2>2. JobRow(RecoveredJob(j)) /\ RecoveredJob(j).status # "running"
    BY DEF RecoveredJob, NewJob, JobRow
  <2>3. JobRow(file.jobs[j])
    BY <1>1 DEF IInv, Shapes, JobTable
  <2>4. JobRow(Restored(file.jobs[j])) /\ Restored(file.jobs[j]).status # "running"
    BY <2>3 DEF Restored, JobRow
  <2>. QED
    BY <2>1, <2>2, <2>4
<1>2. jobs' = [j \in JobIds |-> jobs'[j]]
  BY DEF Restart
<1>. QED
  BY <1>1, <1>2 DEF JobTable

LEMMA RestartStep ==
  ASSUME IInv, Restart
  PROVE  IInv'
<1>1. JobTable(file'.jobs)
  BY NothingRunsAfterRestart DEF Restart
<1>2. PICK t \in Threads :
        \/ worker' = NoThread /\ thread' = [u \in Threads |-> Gone]
        \/ worker' = t /\ thread' = [u \in Threads |-> IF u = t THEN Looping ELSE Gone]
  BY DEF Restart
<1>3. ThreadRow(Gone) /\ ThreadRow(Looping) /\ Gone.pc = "none"
  BY DEF ThreadRow, Gone, Looping
<1>. QED
  BY <1>1, <1>2, <1>3, NothingRunsAfterRestart
  DEF IInv, Shapes, OnlyTheWorkerLives, RunningJobsHaveThreads

------------------------------------------------------------------------------

LEMMA InitInv == Init => IInv
<1>. SUFFICES ASSUME Init PROVE IInv
  OBVIOUS
<1>1. JobRow(Absent) /\ Absent.status # "running" /\ ThreadRow(Gone) /\ Gone.pc = "none"
  BY DEF JobRow, Absent, ThreadRow, Gone
<1>. QED
  BY <1>1 DEF Init, IInv, Shapes, JobTable, OnlyTheWorkerLives, RunningJobsHaveThreads

LEMMA NextInv == IInv /\ [Next]_vars => IInv'
<1>. SUFFICES ASSUME IInv, [Next]_vars PROVE IInv'
  OBVIOUS
<1>1. CASE UNCHANGED vars
  BY <1>1, NothingMoves DEF vars
<1>. QED
  BY <1>1, ClientStep, ThreadStep, TimerStep, RestartStep DEF Next

LEMMA RuntimeInvariant == Spec => []IInv
  BY InitInv, NextInv, PTL DEF Spec

\* One job is executed at a time: a second worker is never started beside one
\* that has not ended (_ensure_worker_locked, _worker_loop).
THEOREM OneJobExecutes == Spec => []OneJobAtATime
<1>1. IInv => OneJobAtATime
  BY DEF IInv, OnlyTheWorkerLives, OneJobAtATime, Executing
<1>. QED
  BY <1>1, RuntimeInvariant, PTL

\* A job whose status is "running" has a thread that executes it, through every
\* cancellation, retry and restart (_run_job, _load_jobs).
THEOREM RunningJobsAreExecuted == Spec => []RunningJobsHaveThreads
<1>1. IInv => RunningJobsHaveThreads
  BY DEF IInv
<1>. QED
  BY <1>1, RuntimeInvariant, PTL

------------------------------------------------------------------------------
(* Types, the queue and the file *)

JobRecord == [status : JobStatus \cup {"absent"}, cancel : BOOLEAN, run : Runs \cup {NoRun}]

\* The job "recovered-run-<id>" works on the run it is named after.
JobsOK(table) ==
  /\ table \in [JobIds -> JobRecord]
  /\ \A j \in JobIds : table[j].status = "absent" => table[j] = Absent
  /\ \A r \in Runs : table[r].status # "absent" => table[r].run = r

Known(table) == {j \in JobIds : table[j].status # "absent"}
Started(runs) == {r \in Runs : runs[r] # "none"}

\* The run a job names is a row of run_logs.
RunsExist(table, runs) == \A j \in JobIds : table[j].run \in Started(runs) \cup {NoRun}

Tables ==
  /\ JobsOK(jobs) /\ JobsOK(file.jobs)
  /\ RunsExist(jobs, run) /\ RunsExist(file.jobs, run)
  /\ queue \in Seq(JobIds) /\ file.queue \in Seq(JobIds)
  /\ run \in [Runs -> RunStatus \cup {"none"}]

\* What has ever been made is finite, so a restart can list it.
FinitelyMany ==
  IsFiniteSet(Known(jobs)) /\ IsFiniteSet(Known(file.jobs)) /\ IsFiniteSet(Started(run))

QueuedExist == \A j \in JobIds : Contains(queue, j) => j \in Known(jobs)

\* What a thread holds while it is at a job: a job that exists, a run that has
\* been started, and at the end the status it has read.
Holds(row, table, runs) ==
  row.pc \notin {"none", "loop"} =>
    /\ row.job \in Known(table)
    /\ row.pc \in {"pipeline", "returned"} =>
         row.run \in Started(runs) /\ (row.job \in Runs => row.run = row.job)
    /\ row.pc = "report" => row.run \in RunStatus

ThreadsHold == \A t \in Threads : Holds(thread[t], jobs, run)

\* What a request remembers after it has given the lock up.
Asks(row, table, runs) ==
  /\ row = [pc |-> row.pc, job |-> row.job, run |-> row.run]
  /\ row.pc \in {"operate", "operated"} => row.job \in Known(table)
  /\ row.pc \in {"retry", "retried"} => 
       row.job \in Jobs /\ row.run \in Started(runs) \cup {NoRun}

ClientsAsk ==
  /\ client = [c \in Clients |-> client[c]]
  /\ \A c \in Clients : Asks(client[c], jobs, run)

\* Unless the last write failed, the file has every queued job as it is.
FileHasQueued == ~stale => \A j \in JobIds : jobs[j].status = "queued" => file.jobs[j] = jobs[j]

QInv == /\ Tables /\ FinitelyMany /\ QueuedExist /\ ThreadsHold /\ ClientsAsk /\ FileHasQueued
        /\ QueuedJobsAreKnown /\ QueueHasWorker

------------------------------------------------------------------------------
(* The sequences of the queue *)

Earlier == {p \in Nat \X Nat : p[1] < p[2]}

\* A set of numbers that is not empty has a least one.
LEMMA LeastNumber ==
  ASSUME NEW T, T \subseteq Nat, T # {}
  PROVE  \E x \in T : \A y \in T : x <= y
<1>1. IsWellFoundedOn(Earlier, Nat)
  <2>1. OpToRel(<, Nat) = Earlier
    BY DEF OpToRel, Earlier
  <2>. QED
    BY <2>1, NatLessThanWellFounded
<1>2. PICK x \in T : \A y \in T : ~ (<<y, x>> \in Earlier)
  BY <1>1, WFMin
<1>3. \A y \in T : ~(y < x)
  BY <1>2 DEF Earlier
<1>. QED
  BY <1>3

\* What Selected has after n elements, given what it had before.
Chosen(seq, kept, upTo, n) ==
  IF n = 0 THEN <<>>
  ELSE IF seq[n] \in kept THEN Append(upTo[n - 1], seq[n]) ELSE upTo[n - 1]

IsSelection(seq, kept, upTo, m) == upTo = [n \in 0..m |-> Chosen(seq, kept, upTo, n)]

\* The recursion of Selected has a solution for any length.
LEMMA SelectionExists ==
  ASSUME NEW seq, NEW kept, NEW m \in Nat
  PROVE  \E upTo : IsSelection(seq, kept, upTo, m)
<1>. DEFINE Missed == {n \in Nat : ~ \E upTo : IsSelection(seq, kept, upTo, n)}
<1>1. SUFFICES ASSUME Missed # {} PROVE FALSE
  OBVIOUS
<1>2. PICK n \in Missed : \A k \in Missed : n <= k
  BY <1>1, LeastNumber
<1>3. n # 0
  <2>. DEFINE first == [k \in 0..0 |-> <<>>]
  <2>1. IsSelection(seq, kept, first, 0)
    BY DEF IsSelection, Chosen
  <2>. QED
    BY <1>2, <2>1
<1>4. PICK before : IsSelection(seq, kept, before, n - 1)
  BY <1>2, <1>3
<1>. DEFINE upTo == [k \in 0..n |-> Chosen(seq, kept, before, k)]
<1>5. \A k \in 0..(n - 1) : upTo[k] = before[k]
  BY <1>2, <1>3, <1>4 DEF IsSelection
<1>6. ASSUME NEW k \in 0..n
      PROVE  Chosen(seq, kept, before, k) = Chosen(seq, kept, upTo, k)
  <2>1. k = 0 \/ k - 1 \in 0..(n - 1)
    BY <1>2
  <2>2. k = 0 \/ upTo[k - 1] = before[k - 1]
    BY <1>5, <2>1
  <2>. HIDE DEF upTo
  <2>. QED
    BY <2>2 DEF Chosen
<1>7. IsSelection(seq, kept, upTo, n)
  BY <1>6 DEF IsSelection
<1>. QED
  BY <1>2, <1>7

LEMMA AppendedElements ==
  ASSUME NEW S, NEW seq \in Seq(S), NEW x \in S
  PROVE  /\ Append(seq, x) \in Seq(S)
         /\ \A e : Contains(Append(seq, x), e) <=> e = x \/ Contains(seq, e)
<1>. DEFINE more == Append(seq, x)
<1>1. more \in Seq(S) /\ Len(more) = Len(seq) + 1 /\ Len(seq) \in Nat
  OBVIOUS
<1>2. more[Len(seq) + 1] = x /\ \A i \in 1..Len(seq) : more[i] = seq[i]
  OBVIOUS
<1>. HIDE DEF more
<1>3. ASSUME NEW e, Contains(more, e) PROVE e = x \/ Contains(seq, e)
  <2>1. PICK i \in 1..(Len(seq) + 1) : more[i] = e
    BY <1>1, <1>3 DEF Contains
  <2>2. i = Len(seq) + 1 \/ i \in 1..Len(seq)
    BY <1>1
  <2>. QED
    BY <1>2, <2>1, <2>2 DEF Contains
<1>4. ASSUME NEW e, e = x \/ Contains(seq, e) PROVE Contains(more, e)
  <2>1. Len(seq) + 1 \in 1..Len(more) /\ \A i \in 1..Len(seq) : i \in 1..Len(more)
    BY <1>1
  <2>. QED
    BY <1>2, <1>4, <2>1 DEF Contains
<1>. QED
  BY <1>1, <1>3, <1>4 DEF more

\* Selected keeps the elements that are in kept and no others.
LEMMA SelectedElements ==
  ASSUME NEW S, NEW seq \in Seq(S), NEW kept
  PROVE  /\ Selected(seq, kept) \in Seq(S)
         /\ \A e : Contains(Selected(seq, kept), e) <=> Contains(seq, e) /\ e \in kept
<1>1. PICK upTo : /\ IsSelection(seq, kept, upTo, Len(seq))
                  /\ Selected(seq, kept) = upTo[Len(seq)]
  <2>. DEFINE Equation(f) == f = [n \in 0..Len(seq) |->
                IF n = 0 THEN <<>>
                ELSE IF seq[n] \in kept THEN Append(f[n - 1], seq[n]) ELSE f[n - 1]]
  <2>1. \A f : Equation(f) <=> IsSelection(seq, kept, f, Len(seq))
    BY DEF IsSelection, Chosen
  <2>2. \E f : Equation(f)
    <3>1. \E f : IsSelection(seq, kept, f, Len(seq))
      <4>1. Len(seq) \in Nat
        OBVIOUS
      <4>. QED
        BY <4>1, SelectionExists
    <3>. HIDE DEF Equation
    <3>. QED
      BY <2>1, <3>1
  <2>3. Selected(seq, kept) = (CHOOSE f : Equation(f))[Len(seq)]
    BY DEF Selected
  <2>. HIDE DEF Equation
  <2>. QED
    BY <2>1, <2>2, <2>3
<1>. DEFINE Good(n) == /\ upTo[n] \in Seq(S)
                       /\ \A e : Contains(upTo[n], e) <=> e \in kept /\ \E i \in 1..n : seq[i] = e
            Bad == {n \in 0..Len(seq) : ~Good(n)}
<1>2. ASSUME Bad # {} PROVE FALSE
  <2>1. PICK n \in Bad : \A k \in Bad : n <= k
    <3>1. Bad \subseteq Nat
      OBVIOUS
    <3>. HIDE DEF Bad
    <3>. QED
      BY <1>2, <3>1, LeastNumber
  <2>2. upTo[n] = Chosen(seq, kept, upTo, n)
    BY <1>1, <2>1 DEF IsSelection
  <2>3. CASE n = 0
    <3>1. upTo[n] = <<>>
      BY <2>2, <2>3 DEF Chosen
    <3>2. upTo[n] \in Seq(S) /\ \A e : ~Contains(upTo[n], e)
      BY <3>1 DEF Contains
    <3>3. 1..n = {}
      BY <2>3
    <3>. QED
      BY <2>1, <3>2, <3>3
  <2>4. CASE n # 0
    <3>1. Good(n - 1) /\ n \in 1..Len(seq)
      <4>1. n \in 1..Len(seq) /\ n - 1 \in 0..Len(seq) /\ ~(n <= n - 1)
        BY <2>1, <2>4
      <4>2. n - 1 \notin Bad
        BY <2>1, <4>1
      <4>. HIDE DEF Good
      <4>. QED
        BY <4>1, <4>2
    <3>2. \A e : (\E i \in 1..n : seq[i] = e) <=> (e = seq[n] \/ \E i \in 1..(n - 1) : seq[i] = e)
      BY <2>1, <2>4
    <3>3. CASE seq[n] \in kept
      <4>1. upTo[n] = Append(upTo[n - 1], seq[n])
        BY <2>2, <2>4, <3>3 DEF Chosen
      <4>2. upTo[n] \in Seq(S) /\ \A e : Contains(upTo[n], e) <=> (e = seq[n] \/ Contains(upTo[n - 1], e))
        <5>1. upTo[n - 1] \in Seq(S) /\ seq[n] \in S
          BY <3>1
        <5>. QED
          BY <4>1, <5>1, AppendedElements
      <4>. QED
        BY <2>1, <3>1, <3>2, <3>3, <4>2
    <3>4. CASE seq[n] \notin kept
      <4>1. upTo[n] = upTo[n - 1]
        BY <2>2, <2>4, <3>4 DEF Chosen
      <4>. QED
        BY <2>1, <3>1, <3>2, <3>4, <4>1
    <3>. QED
      BY <3>3, <3>4
  <2>. QED
    BY <2>3, <2>4
<1>3. Good(Len(seq))
  <2>1. Len(seq) \in 0..Len(seq)
    OBVIOUS
  <2>. HIDE DEF Good
  <2>. QED
    BY <1>2, <2>1
<1>. QED
  BY <1>1, <1>3 DEF Contains

LEMMA TailElements ==
  ASSUME NEW S, NEW seq \in Seq(S), seq # <<>>
  PROVE  /\ Head(seq) \in S /\ Tail(seq) \in Seq(S) /\ Contains(seq, Head(seq))
         /\ \A e : Contains(Tail(seq), e) => Contains(seq, e)
         /\ \A e : Contains(seq, e) => e = Head(seq) \/ Contains(Tail(seq), e)
<1>. DEFINE rest == Tail(seq)
<1>1. /\ Head(seq) = seq[1] /\ Head(seq) \in S
      /\ rest \in Seq(S) /\ Len(rest) = Len(seq) - 1 /\ Len(seq) \in Nat \ {0}
  OBVIOUS
<1>2. \A i \in 1..Len(rest) : rest[i] = seq[i + 1]
  OBVIOUS
<1>. HIDE DEF rest
<1>3. ASSUME NEW e, Contains(rest, e) PROVE Contains(seq, e)
  <2>1. PICK i \in 1..Len(rest) : rest[i] = e
    BY <1>3 DEF Contains
  <2>2. i + 1 \in 1..Len(seq) /\ seq[i + 1] = e
    BY <1>1, <1>2, <2>1
  <2>. QED
    BY <2>2 DEF Contains
<1>4. ASSUME NEW e, Contains(seq, e) PROVE e = Head(seq) \/ Contains(rest, e)
  <2>1. PICK i \in 1..Len(seq) : seq[i] = e
    BY <1>4 DEF Contains
  <2>2. CASE i = 1
    BY <1>1, <2>1, <2>2
  <2>3. CASE i # 1
    <3>1. i - 1 \in 1..Len(rest) /\ (i - 1) + 1 = i
      BY <1>1, <2>3
    <3>2. rest[i - 1] = e
      BY <1>2, <2>1, <3>1
    <3>. QED
      BY <3>1, <3>2 DEF Contains
  <2>. QED
    BY <2>2, <2>3
<1>5. Contains(seq, Head(seq))
  <2>1. 1 \in 1..Len(seq)
    BY <1>1
  <2>. QED
    BY <1>1, <2>1 DEF Contains
<1>. QED
  BY <1>1, <1>3, <1>4, <1>5 DEF rest

\* A finite set can be listed.
LEMMA ListedElements ==
  ASSUME NEW S, IsFiniteSet(S)
  PROVE  SetToSeq(S) \in Seq(S) /\ \A e \in S : Contains(SetToSeq(S), e)
<1>. DEFINE n == Cardinality(S)
            list == SetToSeq(S)
<1>1. n \in Nat /\ ExistsBijection(1..n, S)
  BY FS_CardinalityType
<1>2. \E f \in [1..n -> S] : IsInjective(f)
  BY <1>1 DEF ExistsBijection, Bijection, Injection, IsInjective
<1>3. list \in [1..n -> S] /\ IsInjective(list)
  BY <1>2 DEF SetToSeq
<1>4. list \in Injection(1..n, S)
  BY <1>3 DEF Injection, IsInjective
<1>5. IsFiniteSet(1..n) /\ Cardinality(1..n) = n
  BY <1>1, FS_Interval
<1>6. list \in Surjection(1..n, S)
  BY <1>4, <1>5, FS_Injection
<1>7. list \in Seq(S) /\ Len(list) = n
  BY <1>1, <1>3
<1>. QED
  BY <1>6, <1>7 DEF Surjection, Contains

LEMMA ConcatenatedElements ==
  ASSUME NEW S, NEW one \in Seq(S), NEW two \in Seq(S)
  PROVE  /\ one \o two \in Seq(S)
         /\ \A e : Contains(one, e) \/ Contains(two, e) => Contains(one \o two, e)
<1>. DEFINE both == one \o two
<1>1. both \in Seq(S) /\ Len(both) = Len(one) + Len(two) /\ Len(one) \in Nat /\ Len(two) \in Nat
  OBVIOUS
<1>2. \A i \in 1..Len(one) : both[i] = one[i]
  OBVIOUS
<1>3. \A i \in 1..Len(two) : both[Len(one) + i] = two[i]
  OBVIOUS
<1>. HIDE DEF both
<1>4. ASSUME NEW e, Contains(one, e) PROVE Contains(both, e)
  <2>1. \A i \in 1..Len(one) : i \in 1..Len(both)
    BY <1>1
  <2>. QED
    BY <1>2, <1>4, <2>1 DEF Contains
<1>5. ASSUME NEW e, Contains(two, e) PROVE Contains(both, e)
  <2>1. \A i \in 1..Len(two) : Len(one) + i \in 1..Len(both)
    BY <1>1
  <2>. QED
    BY <1>3, <1>5, <2>1 DEF Contains
<1>. QED
  BY <1>1, <1>4, <1>5 DEF both

------------------------------------------------------------------------------
(* What the steps do to the tables *)

\* The row of one job is written, which then exists.
Edits(j, row) ==
  /\ j \in JobIds /\ row \in JobRecord /\ row.status # "absent"
  /\ row.run \in Started(run) \cup {NoRun}
  /\ j \in Runs => row.run = j
  /\ jobs' = [jobs EXCEPT ![j] = row]

JobsMove == UNCHANGED jobs \/ \E j, row : Edits(j, row)

RunsMove == UNCHANGED run \/ \E r, s : s \in RunStatus /\ run' = [run EXCEPT ![r] = s]

\* The file is written, or the write fails, or no job becomes queued.
FileMoves ==
  \/ file' = [jobs |-> jobs', queue |-> queue'] /\ stale' = FALSE
  \/ file' = file /\ stale' = TRUE
  \/ /\ UNCHANGED <<file, stale>>
     /\ \A j \in JobIds : jobs'[j].status = "queued" => jobs'[j] = jobs[j]

ThreadsMove == \A t \in Threads : thread'[t] = thread[t] \/ Holds(thread'[t], jobs', run')

ClientsMove ==
  \/ UNCHANGED client
  \/ \E c, row : client' = [client EXCEPT ![c] = row] /\ Asks(row, jobs', run')

LEMMA JobsMoved ==
  ASSUME QInv, JobsMove
  PROVE  /\ JobsOK(jobs') /\ Known(jobs) \subseteq Known(jobs') /\ IsFiniteSet(Known(jobs'))
         /\ RunsExist(jobs', run)
<1>1. JobsOK(jobs) /\ IsFiniteSet(Known(jobs)) /\ RunsExist(jobs, run)
  BY DEF QInv, Tables, FinitelyMany
<1>2. CASE UNCHANGED jobs
  BY <1>1, <1>2
<1>3. CASE \E j, row : Edits(j, row)
  <2>1. PICK j, row : Edits(j, row)
    BY <1>3
  <2>2. /\ jobs' \in [JobIds -> JobRecord]
        /\ jobs'[j] = row /\ \A i \in JobIds : i # j => jobs'[i] = jobs[i]
    BY <1>1, <2>1 DEF Edits, JobsOK
  <2>3. JobsOK(jobs') /\ Known(jobs') = Known(jobs) \cup {j}
    BY <1>1, <2>1, <2>2 DEF Edits, JobsOK, Known
  <2>4. RunsExist(jobs', run)
    BY <1>1, <2>1, <2>2 DEF Edits, RunsExist
  <2>. QED
    BY <1>1, <2>3, <2>4, FS_AddElement
<1>. QED
  BY <1>2, <1>3 DEF JobsMove

LEMMA RunsMoved ==
  ASSUME QInv, RunsMove
  PROVE  /\ run' \in [Runs -> RunStatus \cup {"none"}]
         /\ Started(run) \subseteq Started(run') /\ IsFiniteSet(Started(run'))
<1>1. run \in [Runs -> RunStatus \cup {"none"}] /\ IsFiniteSet(Started(run))
  BY DEF QInv, Tables, FinitelyMany
<1>2. CASE UNCHANGED run
  BY <1>1, <1>2
<1>3. CASE \E r, s : s \in RunStatus /\ run' = [run EXCEPT ![r] = s]
  <2>1. PICK r, s : s \in RunStatus /\ run' = [run EXCEPT ![r] = s]
    BY <1>3
  <2>2. "none" \notin RunStatus
    BY DEF RunStatus, JobStatus
  <2>3. run' \in [Runs -> RunStatus \cup {"none"}] /\ Started(run) \subseteq Started(run')
    BY <1>1, <2>1, <2>2 DEF Started
  <2>4. Started(run') \in SUBSET (Started(run) \cup {r})
    BY <1>1, <2>1 DEF Started
  <2>5. IsFiniteSet(Started(run) \cup {r})
    BY <1>1, FS_AddElement
  <2>. QED
    BY <2>3, <2>4, <2>5, FS_Subset
<1>. QED
  BY <1>2, <1>3 DEF RunsMove

\* The part of QInv that every step but a restart keeps for the same reasons.
LEMMA Frame ==
  ASSUME QInv, JobsMove, RunsMove, FileMoves, ThreadsMove, ClientsMove, queue' \in Seq(JobIds),
         \A j \in JobIds : Contains(queue', j) => Contains(queue, j) \/ j \in Known(jobs'),
         QueuedJobsAreKnown', QueueHasWorker'
  PROVE  QInv'
<1>1. /\ JobsOK(jobs') /\ Known(jobs) \subseteq Known(jobs') /\ IsFiniteSet(Known(jobs'))
      /\ RunsExist(jobs', run)
  BY JobsMoved
<1>2. /\ run' \in [Runs -> RunStatus \cup {"none"}]
      /\ Started(run) \subseteq Started(run') /\ IsFiniteSet(Started(run'))
  BY RunsMoved
<1>3. /\ JobsOK(file'.jobs) /\ file'.queue \in Seq(JobIds) /\ IsFiniteSet(Known(file'.jobs))
  BY <1>1 DEF FileMoves, QInv, Tables, FinitelyMany
<1>4. RunsExist(jobs', run') /\ RunsExist(file'.jobs, run')
  <2>1. RunsExist(jobs', run')
    BY <1>1, <1>2 DEF RunsExist
  <2>2. RunsExist(file.jobs, run')
    BY <1>2 DEF RunsExist, QInv, Tables
  <2>. QED
    BY <2>1, <2>2 DEF FileMoves
<1>5. FileHasQueued'
  BY DEF FileMoves, FileHasQueued, QInv
<1>6. ThreadsHold'
  <2>1. ASSUME NEW t \in Threads PROVE Holds(thread'[t], jobs', run')
    BY <1>1, <1>2 DEF ThreadsMove, ThreadsHold, Holds, QInv
  <2>. QED
    BY <2>1 DEF ThreadsHold
<1>7. ClientsAsk'
  <2>1. \A c \in Clients : Asks(client[c], jobs', run')
    BY <1>1, <1>2 DEF QInv, ClientsAsk, Asks
  <2>2. client = [c \in Clients |-> client[c]]
    BY DEF QInv, ClientsAsk
  <2>3. CASE UNCHANGED client
    BY <2>1, <2>2, <2>3 DEF ClientsAsk
  <2>4. CASE \E c, row : client' = [client EXCEPT ![c] = row] /\ Asks(row, jobs', run')
    <3>1. PICK c, row : client' = [client EXCEPT ![c] = row] /\ Asks(row, jobs', run')
      BY <2>4
    <3>2. client' = [d \in Clients |-> IF d = c THEN row ELSE client[d]]
      BY <2>2, <3>1
    <3>. QED
      BY <2>1, <3>1, <3>2 DEF ClientsAsk
  <2>. QED
    BY <2>3, <2>4 DEF ClientsMove
<1>8. QueuedExist'
  BY <1>1 DEF QueuedExist, QInv
<1>. QED
  BY <1>1, <1>2, <1>3, <1>4, <1>5, <1>6, <1>7, <1>8 DEF QInv, Tables, FinitelyMany

\* A job is queued: the kind of step that starts a worker.
LEMMA Queued ==
  ASSUME IInv, QInv, NEW j \in JobIds, NEW row, Edits(j, row), EnsureWorker, Persist,
         queue' = Enqueued(j) \/ queue' = Append(queue, j), UNCHANGED run, ClientsMove
  PROVE  QInv'
<1>1. /\ queue' \in Seq(JobIds)
      /\ \A i : Contains(queue, i) => Contains(queue', i)
      /\ \A i : Contains(queue', i) => Contains(queue, i) \/ i = j
      /\ Contains(queue', j)
  <2>1. queue \in Seq(JobIds)
    BY DEF QInv, Tables
  <2>2. CASE queue' = queue /\ Contains(queue, j)
    BY <2>1, <2>2
  <2>3. CASE queue' = Append(queue, j)
    BY <2>1, <2>3, AppendedElements
  <2>. QED
    BY <2>2, <2>3 DEF Enqueued
<1>2. jobs'[j] = row /\ \A i \in JobIds : i # j => jobs'[i] = jobs[i]
  BY DEF Edits, QInv, Tables, JobsOK
<1>3. JobsMove /\ RunsMove /\ FileMoves
  BY DEF JobsMove, RunsMove, FileMoves, Persist
<1>4. \A t \in Threads : thread'[t] = thread[t] \/ (~Executing(t) /\ thread'[t] = Looping)
  <2>1. CASE Alive(worker)
    BY <2>1 DEF EnsureWorker
  <2>2. CASE ~Alive(worker)
    <3>1. PICK t \in Threads :
            thread[t].pc = "none" /\ thread' = [thread EXCEPT ![t] = Looping]
      BY <2>2 DEF EnsureWorker
    <3>. QED
      BY <3>1 DEF IInv, Shapes, Executing
  <2>. QED
    BY <2>1, <2>2
<1>5. ThreadsMove
  <2>1. Holds(Looping, jobs', run')
    BY DEF Holds, Looping, Gone
  <2>. QED
    BY <1>4, <2>1 DEF ThreadsMove
<1>6. QueuedJobsAreKnown'
  <2>1. ASSUME NEW i \in JobIds, jobs'[i].status = "queued", ~jobs'[i].cancel
        PROVE  \/ Contains(queue', i)
               \/ \E t \in Threads : thread'[t].pc = "taken" /\ thread'[t].job = i
    <3>1. CASE i = j
      BY <1>1, <3>1
    <3>2. CASE i # j /\ Contains(queue, i)
      BY <1>1, <3>2
    <3>3. CASE i # j /\ ~Contains(queue, i)
      <4>1. PICK t \in Threads : thread[t].pc = "taken" /\ thread[t].job = i
        BY <1>2, <2>1, <3>3 DEF QInv, QueuedJobsAreKnown, At
      <4>. QED
        BY <1>4, <4>1 DEF Executing
    <3>. QED
      BY <3>1, <3>2, <3>3
  <2>. QED
    BY <2>1 DEF QueuedJobsAreKnown, At
<1>7. QueueHasWorker'
  <2>1. worker' # NoThread /\ thread'[worker'].pc # "none"
    <3>1. CASE Alive(worker)
      BY <3>1 DEF EnsureWorker, Alive
    <3>2. CASE ~Alive(worker)
      <4>1. PICK t \in Threads : worker' = t /\ thread' = [thread EXCEPT ![t] = Looping]
        BY <3>2 DEF EnsureWorker
      <4>2. Looping.pc # "none"
        BY DEF Looping, Gone
      <4>. QED
        BY <4>1, <4>2, RuntimeAssumption DEF IInv, Shapes
    <3>. QED
      BY <3>1, <3>2
  <2>. QED
    BY <2>1 DEF QueueHasWorker, Alive
<1>8. \A i \in JobIds : Contains(queue', i) => Contains(queue, i) \/ i \in Known(jobs')
  BY <1>1, <1>2 DEF Edits, Known
<1>. QED
  BY <1>1, <1>3, <1>5, <1>6, <1>7, <1>8, Frame

\* The kind of step in which no job becomes queued and no worker comes or goes.
LEMMA Steady ==
  ASSUME IInv, QInv, JobsMove, RunsMove, FileMoves, ThreadsMove, ClientsMove, UNCHANGED worker,
         queue' \in Seq(JobIds), \A i : Contains(queue', i) => Contains(queue, i),
         \A t \in Threads : thread[t].pc # "none" => thread'[t].pc # "none",
         \A i \in JobIds : jobs'[i].status = "queued" /\ ~jobs'[i].cancel =>
           /\ jobs[i].status = "queued" /\ ~jobs[i].cancel
           /\ Contains(queue, i) => \/ Contains(queue', i)
                                    \/ \E t \in Threads : thread'[t].pc = "taken" /\ thread'[t].job = i
           /\ \A t \in Threads : thread[t].pc = "taken" /\ thread[t].job = i =>
                                   thread'[t].pc = "taken" /\ thread'[t].job = i
  PROVE  QInv'
<1>1. QueuedJobsAreKnown'
  BY DEF QInv, QueuedJobsAreKnown, At
<1>2. QueueHasWorker'
  <2>1. SUFFICES ASSUME queue' # <<>> PROVE Alive(worker)'
    BY DEF QueueHasWorker
  <2>2. Contains(queue', Head(queue'))
    BY <2>1, TailElements
  <2>3. queue # <<>>
    <3>1. \A i : ~Contains(<<>>, i)
      BY DEF Contains
    <3>. QED
      BY <2>2, <3>1
  <2>. QED
    BY <2>3 DEF QInv, QueueHasWorker, Alive, IInv, Shapes
<1>. QED
  BY <1>1, <1>2, Frame

\* The same for a step that leaves the queue and the threads alone.
LEMMA Aside ==
  ASSUME IInv, QInv, JobsMove, RunsMove, FileMoves, ClientsMove,
         UNCHANGED <<queue, worker, thread>>,
         \A i \in JobIds : jobs'[i].status = "queued" =>
           jobs[i].status = "queued" /\ jobs'[i].cancel = jobs[i].cancel
  PROVE  QInv'
<1>1. ThreadsMove
  BY DEF ThreadsMove
<1>2. queue' \in Seq(JobIds)
  BY DEF QInv, Tables
<1>. QED
  BY <1>1, <1>2, Steady

\* The status of a job that exists is assigned, its flag too or not.
LEMMA RowEdited ==
  ASSUME IInv, QInv, NEW j \in Known(jobs), NEW status \in JobStatus, NEW cancel \in BOOLEAN,
         JobGets(j, status, cancel)
  PROVE  \E row : /\ Edits(j, row) /\ row.status = status /\ row.cancel = cancel
                 /\ row.run = jobs[j].run
<1>1. PICK row : /\ JobRow(row) /\ row.status = status /\ row.cancel = cancel
                 /\ row.run = jobs[j].run /\ jobs' = [jobs EXCEPT ![j] = row]
  BY JobRewritten
<1>2. /\ jobs[j].run \in Runs \cup {NoRun} /\ jobs[j].run \in Started(run) \cup {NoRun}
      /\ (j \in Runs => jobs[j].run = j) /\ j \in JobIds
  BY DEF QInv, Tables, JobsOK, RunsExist, Known, JobRecord
<1>3. row \in JobRecord /\ row.status # "absent"
  BY <1>1, <1>2 DEF JobRow, JobRecord, JobStatus
<1>. QED
  BY <1>1, <1>2, <1>3 DEF Edits

LEMMA EditsOne ==
  ASSUME QInv, NEW j, NEW row, Edits(j, row)
  PROVE  JobsMove /\ jobs'[j] = row /\ \A i \in JobIds : i # j => jobs'[i] = jobs[i]
BY DEF JobsMove, Edits, QInv, Tables, JobsOK

\* A request writes down where it goes on.
LEMMA ClientGoes ==
  ASSUME QInv, NEW c \in Clients, NEW row, client' = [client EXCEPT ![c] = row], Asks(row, jobs', run')
  PROVE  ClientsMove
BY DEF ClientsMove

LEMMA ClientRests ==
  ASSUME NEW c, client' = [client EXCEPT ![c] = Quiet]
  PROVE  ClientsMove
<1>1. Asks(Quiet, jobs', run')
  BY DEF Asks, Quiet
<1>. QED
  BY <1>1 DEF ClientsMove

LEMMA ClientRewritten ==
  ASSUME QInv, NEW c \in Clients, NEW pc, NEW r,
         \/ client' = [client EXCEPT ![c].pc = pc, ![c].run = r]
         \/ client' = [client EXCEPT ![c].pc = pc] /\ r = client[c].run
  PROVE  client' = [client EXCEPT ![c] = [pc |-> pc, job |-> client[c].job, run |-> r]]
BY DEF QInv, ClientsAsk, Asks

LEMMA FileKept ==
  ASSUME KeepFile, UNCHANGED jobs
  PROVE  FileMoves
BY DEF KeepFile, FileMoves

LEMMA FilePersisted ==
  ASSUME Persist
  PROVE  FileMoves
BY DEF Persist, FileMoves

------------------------------------------------------------------------------
(* Requests *)

LEMMA StartRunQueue ==
  ASSUME IInv, QInv, NEW c \in Clients, StartRun(c)
  PROVE  QInv'
<1>1. PICK j \in Jobs : /\ jobs' = [jobs EXCEPT ![j] = NewJob(NoRun)]
                        /\ queue' = Append(queue, j)
  BY DEF StartRun
<1>2. j \in JobIds /\ j \notin Runs
  BY RuntimeAssumption DEF JobIds
<1>3. Edits(j, NewJob(NoRun))
  BY <1>1, <1>2 DEF Edits, NewJob, JobRecord, JobStatus
<1>. QED
  BY <1>1, <1>2, <1>3, Queued DEF StartRun, ClientsMove

LEMMA CancelJobQueue ==
  ASSUME IInv, QInv, NEW c \in Clients, CancelJob(c)
  PROVE  QInv'
<1>1. PICK j \in JobIds :
        /\ jobs[j].status \in {"queued", "running", "cancel_requested"}
        /\ CASE jobs[j].status = "queued" ->
                  /\ jobs' = [jobs EXCEPT ![j].status = "cancelled", ![j].cancel = TRUE]
                  /\ queue' = Selected(queue, JobIds \ {j})
                  /\ Persist
             [] jobs[j].status = "running" ->
                  /\ jobs' = [jobs EXCEPT ![j].status = "cancel_requested", ![j].cancel = TRUE]
                  /\ UNCHANGED queue
                  /\ Persist
             [] OTHER -> UNCHANGED <<jobs, queue>> /\ KeepFile
        /\ client' = [client EXCEPT ![c] = [pc |-> "cancel_run", job |-> j, run |-> NoRun]]
  BY DEF CancelJob
<1>2. UNCHANGED <<worker, thread, run>> /\ RunsMove /\ ThreadsMove
  BY DEF CancelJob, RunsMove, ThreadsMove
<1>3. ClientsMove
  <2>1. Asks([pc |-> "cancel_run", job |-> j, run |-> NoRun], jobs', run')
    BY DEF Asks
  <2>. QED
    BY <1>1, <2>1, ClientGoes
<1>4. j \in Known(jobs)
  BY <1>1 DEF Known
<1>5. CASE jobs[j].status = "queued"
  <2>1. JobGets(j, "cancelled", TRUE) /\ Persist /\ queue' = Selected(queue, JobIds \ {j})
    BY <1>1, <1>5 DEF JobGets
  <2>2. PICK row : /\ Edits(j, row) /\ row.status = "cancelled" /\ row.cancel = TRUE
                   /\ row.run = jobs[j].run
    <3>1. "cancelled" \in JobStatus /\ TRUE \in BOOLEAN
      BY DEF JobStatus
    <3>. QED
      BY <1>4, <2>1, <3>1, RowEdited
  <2>3. /\ queue' \in Seq(JobIds)
        /\ \A i : Contains(queue', i) <=> Contains(queue, i) /\ i \in JobIds \ {j}
    BY <2>1, SelectedElements DEF QInv, Tables
  <2>4. JobsMove /\ jobs'[j] = row /\ \A i \in JobIds : i # j => jobs'[i] = jobs[i]
    BY <2>2, EditsOne
  <2>. QED
    BY <1>2, <1>3, <2>1, <2>2, <2>3, <2>4, FilePersisted, Steady
<1>6. CASE jobs[j].status = "running"
  <2>1. JobGets(j, "cancel_requested", TRUE) /\ Persist /\ UNCHANGED queue
    BY <1>1, <1>6 DEF JobGets
  <2>2. PICK row : /\ Edits(j, row) /\ row.status = "cancel_requested" /\ row.cancel = TRUE
                   /\ row.run = jobs[j].run
    <3>1. "cancel_requested" \in JobStatus /\ TRUE \in BOOLEAN
      BY DEF JobStatus
    <3>. QED
      BY <1>4, <2>1, <3>1, RowEdited
  <2>3. JobsMove /\ jobs'[j] = row /\ \A i \in JobIds : i # j => jobs'[i] = jobs[i]
    BY <2>2, EditsOne
  <2>. QED
    BY <1>2, <1>3, <2>1, <2>2, <2>3, FilePersisted, Aside
<1>7. CASE jobs[j].status = "cancel_requested"
  <2>1. UNCHANGED <<jobs, queue>> /\ KeepFile
    BY <1>1, <1>7
  <2>. QED
    BY <1>2, <1>3, <2>1, FileKept, Aside DEF JobsMove
<1>. QED
  BY <1>1, <1>5, <1>6, <1>7

\* The steps of a request that change nothing but its own row and a run.
LEMMA RequestQueue ==
  ASSUME IInv, QInv, NEW c \in Clients,
         \/ CancelRun(c) \/ OperateNode(c) \/ ReopenNode(c) \/ RefuseNode(c)
         \/ RetryJob(c) \/ PrepareRetry(c)
  PROVE  QInv'
<1>1. UNCHANGED <<jobs, queue, worker, thread>> /\ KeepFile
  BY DEF CancelRun, OperateNode, ReopenNode, RefuseNode, RetryJob, PrepareRetry
<1>2. RunsMove
  <2>1. CancelOutcome \subseteq RunStatus
    BY DEF CancelOutcome, RunStatus, JobStatus
  <2>2. UNCHANGED run \/ \E r : \E s \in CancelOutcome : run' = [run EXCEPT ![r] = s]
    BY DEF CancelRun, OperateNode, ReopenNode, RefuseNode, RetryJob, PrepareRetry
  <2>. QED
    BY <2>1, <2>2 DEF RunsMove
<1>3. Asks(client[c], jobs, run)
  BY DEF QInv, ClientsAsk
<1>4. ClientsMove
  <2>1. CASE CancelRun(c) \/ RefuseNode(c)
    BY <2>1, ClientRests DEF CancelRun, RefuseNode
  <2>2. CASE OperateNode(c)
    <3>1. PICK j \in JobIds :
            /\ jobs[j].run # NoRun
            /\ client' = [client EXCEPT ![c] = [pc |-> "operate", job |-> j, run |-> jobs[j].run]]
      BY <2>2 DEF OperateNode
    <3>2. j \in Known(jobs)
      BY <3>1 DEF QInv, Tables, JobsOK, Known, Absent
    <3>3. Asks([pc |-> "operate", job |-> j, run |-> jobs[j].run], jobs', run')
      BY <1>1, <3>2 DEF Asks
    <3>. QED
      BY <3>1, <3>3, ClientGoes
  <2>3. CASE ReopenNode(c)
    <3>1. client' = [client EXCEPT ![c] = [pc |-> "operated", job |-> client[c].job,
                                           run |-> client[c].run]]
      BY <2>3, ClientRewritten DEF ReopenNode
    <3>2. client[c].job \in Known(jobs)
      BY <1>3, <2>3 DEF ReopenNode, Asks
    <3>3. Asks([pc |-> "operated", job |-> client[c].job, run |-> client[c].run], jobs', run')
      BY <1>1, <3>2 DEF Asks
    <3>. QED
      BY <3>1, <3>3, ClientGoes
  <2>4. CASE RetryJob(c)
    <3>1. PICK j \in JobIds, new \in Jobs :
            client' = [client EXCEPT ![c] = [pc |-> "retry", job |-> new, run |-> jobs[j].run]]
      BY <2>4 DEF RetryJob
    <3>2. jobs[j].run \in Started(run') \cup {NoRun}
      BY <2>4 DEF RetryJob, QInv, Tables, RunsExist
    <3>3. Asks([pc |-> "retry", job |-> new, run |-> jobs[j].run], jobs', run')
      BY <3>2 DEF Asks
    <3>. QED
      BY <3>1, <3>3, ClientGoes
  <2>5. CASE PrepareRetry(c)
    <3>1. PICK r \in {client[c].run, NoRun} :
            client' = [client EXCEPT ![c].pc = "retried", ![c].run = r]
      BY <2>5 DEF PrepareRetry
    <3>2. client' = [client EXCEPT ![c] = [pc |-> "retried", job |-> client[c].job, run |-> r]]
      BY <3>1, ClientRewritten
    <3>3. client[c].job \in Jobs /\ r \in Started(run') \cup {NoRun}
      BY <1>3, <2>5, <3>1 DEF PrepareRetry, Asks
    <3>4. Asks([pc |-> "retried", job |-> client[c].job, run |-> r], jobs', run')
      BY <3>3 DEF Asks
    <3>. QED
      BY <3>2, <3>4, ClientGoes
  <2>. QED
    BY <2>1, <2>2, <2>3, <2>4, <2>5
<1>. QED
  BY <1>1, <1>2, <1>4, FileKept, Aside DEF JobsMove

LEMMA QueueOperatedQueue ==
  ASSUME IInv, QInv, NEW c \in Clients, QueueOperated(c)
  PROVE  QInv'
<1>1. client[c].job \in Known(jobs)
  BY DEF QueueOperated, QInv, ClientsAsk, Asks
<1>2. JobGets(client[c].job, "queued", FALSE)
  BY DEF QueueOperated, JobGets
<1>3. PICK row : Edits(client[c].job, row)
  BY <1>1, <1>2, RowEdited DEF JobStatus
<1>4. ClientsMove
  BY ClientRests DEF QueueOperated
<1>. QED
  BY <1>1, <1>3, <1>4, Queued DEF QueueOperated, Known

LEMMA QueueRetriedQueue ==
  ASSUME IInv, QInv, NEW c \in Clients, QueueRetried(c)
  PROVE  QInv'
<1>1. /\ client[c].job \in Jobs /\ client[c].run \in Runs \cup {NoRun}
      /\ client[c].run \in Started(run) \cup {NoRun}
  BY DEF QueueRetried, QInv, ClientsAsk, Asks, Started
<1>2. client[c].job \in JobIds /\ client[c].job \notin Runs
  BY <1>1, RuntimeAssumption DEF JobIds
<1>3. Edits(client[c].job, NewJob(client[c].run))
  BY <1>1, <1>2 DEF QueueRetried, Edits, NewJob, JobRecord, JobStatus
<1>4. ClientsMove
  BY ClientRests DEF QueueRetried
<1>. QED
  BY <1>2, <1>3, <1>4, Queued DEF QueueRetried

------------------------------------------------------------------------------
(* Timers *)

LEMMA RetryTimerQueue ==
  ASSUME IInv, QInv, NEW j \in JobIds, RetryTimer(j)
  PROVE  QInv'
<1>1. UNCHANGED <<client, run>> /\ ClientsMove /\ RunsMove
  BY DEF RetryTimer, ClientsMove, RunsMove
<1>2. CASE jobs[j].status = "retry_wait"
  <2>1. j \in Known(jobs) /\ jobs[j].cancel \in BOOLEAN
    BY <1>2 DEF Known, QInv, Tables, JobsOK, JobRecord
  <2>2. JobGets(j, "queued", jobs[j].cancel)
    BY <1>2 DEF RetryTimer, JobGets
  <2>3. PICK row : Edits(j, row)
    BY <2>1, <2>2, RowEdited DEF JobStatus
  <2>. QED
    BY <1>1, <1>2, <2>3, Queued DEF RetryTimer
<1>3. CASE jobs[j].status # "retry_wait"
  BY <1>1, <1>3, FileKept, Aside DEF RetryTimer, JobsMove
<1>. QED
  BY <1>2, <1>3

LEMMA CancelTimerQueue ==
  ASSUME IInv, QInv, NEW j \in JobIds, CancelTimer(j)
  PROVE  QInv'
<1>1. PICK s \in CancelOutcome \cup {"human_required"} :
        /\ run' = [run EXCEPT ![jobs[j].run] = s]
        /\ IF s # "cancel_requested" /\ jobs[j].status = "cancel_requested"
           THEN jobs' = [jobs EXCEPT ![j].status = "cancelled"] /\ Persist
           ELSE UNCHANGED jobs /\ KeepFile
  BY DEF CancelTimer
<1>2. RunsMove
  <2>1. s \in RunStatus
    BY DEF CancelOutcome, RunStatus, JobStatus
  <2>. QED
    BY <1>1, <2>1 DEF RunsMove
<1>3. UNCHANGED <<queue, worker, thread>> /\ ClientsMove
  BY DEF CancelTimer, ClientsMove
<1>4. CASE s # "cancel_requested" /\ jobs[j].status = "cancel_requested"
  <2>1. /\ j \in Known(jobs) /\ jobs[j].cancel \in BOOLEAN
        /\ "cancelled" \in JobStatus
    BY <1>4 DEF Known, QInv, Tables, JobsOK, JobRecord, JobStatus
  <2>2. JobGets(j, "cancelled", jobs[j].cancel) /\ Persist
    BY <1>1, <1>4 DEF JobGets
  <2>3. PICK row : /\ Edits(j, row) /\ row.status = "cancelled" /\ row.cancel = jobs[j].cancel
                   /\ row.run = jobs[j].run
    BY <2>1, <2>2, RowEdited
  <2>4. JobsMove /\ jobs'[j] = row /\ \A i \in JobIds : i # j => jobs'[i] = jobs[i]
    BY <2>3, EditsOne
  <2>. QED
    BY <1>2, <1>3, <2>2, <2>3, <2>4, FilePersisted, Aside
<1>5. CASE ~(s # "cancel_requested" /\ jobs[j].status = "cancel_requested")
  <2>1. UNCHANGED jobs /\ KeepFile
    BY <1>1, <1>5
  <2>. QED
    BY <1>2, <1>3, <2>1, FileKept, Aside DEF JobsMove
<1>. QED
  BY <1>4, <1>5

------------------------------------------------------------------------------
(* The worker thread *)

\* The kind of step in which a thread moves and takes nothing from the queue.
LEMMA Works ==
  ASSUME IInv, QInv, NEW t \in Threads, JobsMove, RunsMove, FileMoves,
         NEW row, Holds(row, jobs', run'), row.pc # "none", thread' = [thread EXCEPT ![t] = row],
         UNCHANGED <<queue, worker, client>>,
         thread[t].pc = "taken" => jobs'[thread[t].job].status # "queued",
         \A i \in JobIds : jobs'[i].status = "queued" =>
           jobs[i].status = "queued" /\ jobs'[i].cancel = jobs[i].cancel
  PROVE  QInv'
<1>1. \A u \in Threads : thread'[u] = IF u = t THEN row ELSE thread[u]
  BY DEF IInv, Shapes
<1>2. ThreadsMove /\ ClientsMove /\ queue' \in Seq(JobIds)
  BY <1>1 DEF ThreadsMove, ClientsMove, QInv, Tables
<1>3. \A u \in Threads : thread[u].pc # "none" => thread'[u].pc # "none"
  BY <1>1
<1>4. \A i \in JobIds : jobs'[i].status = "queued" =>
        \A u \in Threads : thread[u].pc = "taken" /\ thread[u].job = i => thread'[u] = thread[u]
  BY <1>1
<1>. QED
  BY <1>2, <1>3, <1>4, Steady

\* The worker thread puts a job at an end and goes on with its loop.
LEMMA Ends ==
  ASSUME IInv, QInv, NEW t \in Threads, thread[t].pc \notin {"none", "loop"},
         NEW status \in JobStatus \ {"queued"}, NEW cancel \in BOOLEAN,
         JobGets(thread[t].job, status, cancel), RunsMove, Loops(t),
         UNCHANGED <<queue, worker, client>>,
         \/ Persist
         \/ UNCHANGED <<file, stale>>
         \/ file' = [jobs |-> jobs', queue |-> queue] /\ stale' = FALSE
  PROVE  QInv'
<1>1. thread[t].job \in Known(jobs)
  BY DEF QInv, ThreadsHold, Holds
<1>2. PICK row : /\ Edits(thread[t].job, row) /\ row.status = status /\ row.cancel = cancel
                 /\ row.run = jobs[thread[t].job].run
  BY <1>1, RowEdited
<1>3. /\ JobsMove /\ jobs'[thread[t].job] = row
      /\ \A i \in JobIds : i # thread[t].job => jobs'[i] = jobs[i]
  BY <1>2, EditsOne
<1>4. \A i \in JobIds : jobs'[i].status = "queued" => jobs'[i] = jobs[i]
  BY <1>2, <1>3
<1>5. FileMoves
  BY <1>4 DEF FileMoves, Persist
<1>6. Holds(Looping, jobs', run') /\ Looping.pc # "none"
  BY DEF Holds, Looping, Gone
<1>. QED
  BY <1>2, <1>3, <1>4, <1>5, <1>6, Works DEF Loops

\* The worker thread goes on with its job, which may be told its run.
LEMMA GoesOn ==
  ASSUME IInv, QInv, NEW t \in Threads, thread[t].pc \notin {"none", "loop", "taken"},
         \/ UNCHANGED jobs
         \/ \E row : /\ Edits(thread[t].job, row) /\ row.status = jobs[thread[t].job].status
                    /\ row.cancel = jobs[thread[t].job].cancel,
         NEW pc, NEW r, ThreadGets(t, pc, r), pc # "none",
         RunsMove, Persist \/ (KeepFile /\ UNCHANGED jobs), UNCHANGED <<queue, worker, client>>,
         pc # "taken", pc \in {"pipeline", "returned"} =>
                         r \in Started(run') /\ (thread[t].job \in Runs => r = thread[t].job),
         pc = "report" => r \in RunStatus
  PROVE  QInv'
<1>1. thread[t].job \in Known(jobs)
  BY DEF QInv, ThreadsHold, Holds
<1>2. /\ JobsMove
      /\ \A i \in JobIds : jobs'[i].status = "queued" =>
           jobs[i].status = "queued" /\ jobs'[i].cancel = jobs[i].cancel
  <2>1. CASE UNCHANGED jobs
    BY <2>1 DEF JobsMove
  <2>2. CASE ~UNCHANGED jobs
    <3>1. PICK row : /\ Edits(thread[t].job, row) /\ row.status = jobs[thread[t].job].status
                     /\ row.cancel = jobs[thread[t].job].cancel
      BY <2>2
    <3>. QED
      BY <3>1, EditsOne
  <2>. QED
    BY <2>1, <2>2
<1>3. FileMoves
  BY FileKept, FilePersisted
<1>4. PICK row : /\ ThreadRow(row) /\ row.pc = pc /\ row.job = thread[t].job /\ row.run = r
                 /\ thread' = [thread EXCEPT ![t] = row]
  BY ThreadRewritten
<1>5. Holds(row, jobs', run')
  <2>1. thread[t].job \in Known(jobs')
    BY <1>1, <1>2, JobsMoved
  <2>. QED
    BY <1>4, <2>1 DEF Holds
<1>. QED
  BY <1>2, <1>3, <1>4, <1>5, Works

LEMMA TakeJobQueue ==
  ASSUME IInv, QInv, NEW t \in Threads, TakeJob(t)
  PROVE  QInv'
<1>1. /\ thread[t].pc = "loop" /\ UNCHANGED <<jobs, client, run>> /\ KeepFile
      /\ JobsMove /\ RunsMove /\ FileMoves /\ ClientsMove
  BY FileKept DEF TakeJob, At, JobsMove, RunsMove, ClientsMove
<1>2. queue \in Seq(JobIds)
  BY DEF QInv, Tables
<1>3. CASE queue = <<>>
  <2>1. UNCHANGED queue /\ thread' = [thread EXCEPT ![t] = Gone]
    BY <1>3 DEF TakeJob
  <2>2. Holds(Gone, jobs', run') /\ Gone.pc = "none"
    BY DEF Holds, Gone
  <2>3. \A u \in Threads : thread'[u] = IF u = t THEN Gone ELSE thread[u]
    BY <2>1 DEF IInv, Shapes
  <2>4. ThreadsMove
    BY <2>2, <2>3 DEF ThreadsMove
  <2>5. QueuedJobsAreKnown'
    <3>1. ASSUME NEW i \in JobIds, jobs'[i].status = "queued", ~jobs'[i].cancel
          PROVE  \/ Contains(queue', i)
                 \/ \E u \in Threads : thread'[u].pc = "taken" /\ thread'[u].job = i
      BY <1>1, <2>1, <2>3, <3>1 DEF QInv, QueuedJobsAreKnown, At
    <3>. QED
      BY <3>1 DEF QueuedJobsAreKnown, At
  <2>6. QueueHasWorker'
    BY <1>3, <2>1 DEF QueueHasWorker
  <2>. QED
    BY <1>1, <1>2, <2>1, <2>4, <2>5, <2>6, Frame
<1>4. CASE queue # <<>>
  <2>. DEFINE j == Head(queue)
  <2>1. /\ j \in JobIds /\ queue' = Tail(queue) /\ queue' \in Seq(JobIds) /\ Contains(queue, j)
        /\ \A i : Contains(queue', i) => Contains(queue, i)
        /\ \A i : Contains(queue, i) => i = j \/ Contains(queue', i)
    BY <1>2, <1>4, TailElements DEF TakeJob
  <2>2. UNCHANGED worker
    BY <1>4 DEF TakeJob
  <2>3. CASE jobs[j].status = "cancelled" \/ jobs[j].cancel
    <3>1. thread' = thread /\ ThreadsMove
      BY <1>4, <2>3 DEF TakeJob, ThreadsMove
    <3>. HIDE DEF j
    <3>2. \A i \in JobIds : jobs'[i].status = "queued" /\ ~jobs'[i].cancel => i # j
      BY <1>1, <2>3
    <3>. QED
      BY <1>1, <2>1, <2>2, <3>1, <3>2, Steady
  <2>4. CASE ~(jobs[j].status = "cancelled" \/ jobs[j].cancel)
    <3>1. thread' = [thread EXCEPT ![t].pc = "taken", ![t].job = j]
      BY <1>4, <2>4 DEF TakeJob
    <3>. HIDE DEF j
    <3>2. PICK row : /\ ThreadRow(row) /\ row.pc = "taken" /\ row.job = j
                     /\ thread' = [thread EXCEPT ![t] = row]
      BY <3>1, JobTaken
    <3>3. \A u \in Threads : thread'[u] = IF u = t THEN row ELSE thread[u]
      BY <3>2 DEF IInv, Shapes
    <3>4. Holds(row, jobs', run')
      BY <1>1, <2>1, <3>2 DEF Holds, QInv, QueuedExist
    <3>5. ThreadsMove
      BY <3>3, <3>4 DEF ThreadsMove
    <3>6. \A u \in Threads : thread[u].pc # "none" => thread'[u].pc # "none"
      BY <3>2, <3>3
    <3>7. \E u \in Threads : thread'[u].pc = "taken" /\ thread'[u].job = j
      BY <3>2, <3>3
    <3>8. \A u \in Threads : thread[u].pc = "taken" => thread'[u] = thread[u]
      BY <1>1, <3>3
    <3>. QED
      BY <1>1, <2>1, <2>2, <3>5, <3>6, <3>7, <3>8, Steady
  <2>. QED
    BY <2>3, <2>4
<1>. QED
  BY <1>3, <1>4

\* The flag of a job is a truth value.
LEMMA FlagType ==
  ASSUME QInv, NEW t \in Threads, thread[t].pc \notin {"none", "loop"}
  PROVE  /\ thread[t].job \in Known(jobs) /\ jobs[thread[t].job].cancel \in BOOLEAN
         /\ jobs[thread[t].job] \in JobRecord
BY DEF QInv, ThreadsHold, Holds, Known, Tables, JobsOK, JobRecord

LEMMA BeginJobQueue ==
  ASSUME IInv, QInv, NEW t \in Threads, BeginJob(t)
  PROVE  QInv'
<1>. DEFINE j == thread[t].job
<1>1. /\ thread[t].pc = "taken" /\ UNCHANGED <<queue, worker, client, run>> /\ RunsMove
      /\ j \in Known(jobs) /\ jobs[j].cancel \in BOOLEAN
  BY FlagType DEF BeginJob, At, RunsMove
<1>2. CASE jobs[j].cancel
  <2>1. /\ JobGets(j, "cancelled", jobs[j].cancel) /\ Loops(t) /\ UNCHANGED <<file, stale>>
        /\ "cancelled" \in JobStatus \ {"queued"}
    BY <1>2 DEF BeginJob, JobGets, KeepFile, JobStatus
  <2>. QED
    BY <1>1, <2>1, Ends
<1>3. CASE ~jobs[j].cancel
  <2>1. /\ JobGets(j, "running", jobs[j].cancel) /\ ThreadGets(t, "preflight", thread[t].run)
        /\ Persist /\ "running" \in JobStatus
    BY <1>3 DEF BeginJob, JobGets, ThreadGets, Goes, JobStatus
  <2>2. PICK row : /\ Edits(j, row) /\ row.status = "running" /\ row.cancel = jobs[j].cancel
                   /\ row.run = jobs[j].run
    BY <1>1, <2>1, RowEdited
  <2>3. /\ JobsMove /\ jobs'[j] = row
        /\ \A i \in JobIds : i # j => jobs'[i] = jobs[i]
    BY <2>2, EditsOne
  <2>4. PICK next : /\ ThreadRow(next) /\ next.pc = "preflight" /\ next.job = j
                    /\ next.run = thread[t].run /\ thread' = [thread EXCEPT ![t] = next]
    BY <2>1, ThreadRewritten
  <2>5. Holds(next, jobs', run')
    <3>1. j \in Known(jobs')
      BY <1>1, <2>3, JobsMoved
    <3>. QED
      BY <2>4, <3>1 DEF Holds
  <2>6. /\ \A i \in JobIds : jobs'[i].status = "queued" => jobs'[i] = jobs[i]
        /\ jobs'[j].status # "queued" /\ FileMoves
    BY <2>1, <2>2, <2>3, FilePersisted
  <2>. QED
    BY <1>1, <2>3, <2>4, <2>5, <2>6, Works
<1>. QED
  BY <1>2, <1>3

LEMMA EndJobQueue ==
  ASSUME IInv, QInv, NEW t \in Threads, thread[t].pc \notin {"none", "loop"}, NEW failed,
         EndJob(t, failed), RunsMove,
         Persist \/ (file' = [jobs |-> jobs', queue |-> queue] /\ stale' = FALSE)
  PROVE  QInv'
<1>1. PICK status : /\ status = IF failed /\ ~jobs[thread[t].job].cancel THEN "failed" ELSE "cancelled"
                    /\ jobs' = [jobs EXCEPT ![thread[t].job].status = status]
  BY DEF EndJob
<1>2. status \in JobStatus \ {"queued"}
  BY <1>1 DEF JobStatus
<1>3. JobGets(thread[t].job, status, jobs[thread[t].job].cancel)
  BY <1>1 DEF JobGets
<1>4. UNCHANGED <<queue, worker, client>> /\ Loops(t)
  BY DEF EndJob
<1>. QED
  BY <1>2, <1>3, <1>4, FlagType, Ends

\* A status the pipeline leaves its run in.
LEMMA RunStep ==
  ASSUME NEW r, NEW s \in RunStatus, run' = [run EXCEPT ![r] = s]
  PROVE  RunsMove
BY DEF RunsMove

LEMMA StartPipelineQueue ==
  ASSUME IInv, QInv, NEW t \in Threads, StartPipeline(t)
  PROVE  QInv'
<1>. DEFINE j == thread[t].job
<1>1. PICK r \in Runs : /\ IF jobs[j].run = NoRun THEN run[r] = "none" ELSE r = jobs[j].run
                        /\ run' = [run EXCEPT ![r] = "running"]
                        /\ thread' = [thread EXCEPT ![t].pc = "pipeline", ![t].run = r]
  BY DEF StartPipeline
<1>2. /\ thread[t].pc = "preflight" /\ UNCHANGED <<jobs, queue, worker, client>> /\ Persist
      /\ j \in Known(jobs)
  BY FlagType DEF StartPipeline, At
<1>3. "running" \in RunStatus /\ "running" # "none"
  BY DEF RunStatus, JobStatus
<1>4. RunsMove
  BY <1>1, <1>3, RunStep
<1>5. r \in Started(run')
  BY <1>1, <1>3 DEF Started, QInv, Tables
<1>6. j \in Runs => r = j
  BY <1>1, <1>2, RuntimeAssumption DEF QInv, Tables, JobsOK, Known
<1>7. ThreadGets(t, "pipeline", r)
  BY <1>1 DEF ThreadGets
<1>. QED
  BY <1>2, <1>4, <1>5, <1>6, <1>7, GoesOn

\* What a thread holds in and after the pipeline is a run that has been started.
LEMMA RunHeld ==
  ASSUME QInv, NEW t \in Threads, thread[t].pc \in {"pipeline", "returned"}
  PROVE  /\ thread[t].run \in Started(run)
         /\ thread[t].job \in Runs => thread[t].run = thread[t].job
BY DEF QInv, ThreadsHold, Holds

\* A job is told its run.
LEMMA RunTold ==
  ASSUME IInv, QInv, NEW t \in Threads, thread[t].pc = "pipeline",
         JobIsTold(thread[t].job, thread[t].run)
  PROVE  \E row : /\ Edits(thread[t].job, row) /\ row.status = jobs[thread[t].job].status
                 /\ row.cancel = jobs[thread[t].job].cancel
<1>. PICK j : j = thread[t].job
  OBVIOUS
<1>1. /\ j \in Known(jobs) /\ jobs[j] \in JobRecord
      /\ thread[t].run \in Started(run) /\ (j \in Runs => thread[t].run = j)
  BY FlagType, RunHeld
<1>2. PICK row : /\ JobRow(row) /\ row.status = jobs[j].status /\ row.cancel = jobs[j].cancel
                 /\ row.run = thread[t].run /\ jobs' = [jobs EXCEPT ![j] = row]
  <2>1. PICK r : r = thread[t].run
    OBVIOUS
  <2>2. JobIsTold(j, r)
    BY <2>1
  <2>3. PICK row : /\ JobRow(row) /\ row.status = jobs[j].status /\ row.cancel = jobs[j].cancel
                   /\ row.run = r /\ jobs' = [jobs EXCEPT ![j] = row]
    BY <2>2, RunRewritten
  <2>. QED
    BY <2>1, <2>3
<1>3. row \in JobRecord /\ row.status # "absent" /\ j \in JobIds
  BY <1>1, <1>2 DEF JobRow, JobRecord, Known, Started
<1>. QED
  BY <1>1, <1>2, <1>3 DEF Edits

LEMMA ProgressQueue ==
  ASSUME IInv, QInv, NEW t \in Threads, Progress(t)
  PROVE  QInv'
<1>. DEFINE j == thread[t].job
<1>1. /\ thread[t].pc = "pipeline" /\ jobs[j].status \in {"running", "cancel_requested"}
      /\ UNCHANGED <<queue, worker, thread, client, run>> /\ Persist
      /\ JobIsTold(j, thread[t].run)
  BY DEF Progress, At, JobIsTold
<1>2. PICK row : Edits(j, row) /\ row.status = jobs[j].status /\ row.cancel = jobs[j].cancel
  BY <1>1, RunTold
<1>3. JobsMove /\ jobs'[j] = row /\ \A i \in JobIds : i # j => jobs'[i] = jobs[i]
  BY <1>2, EditsOne
<1>4. \A i \in JobIds : jobs'[i].status = "queued" =>
        jobs[i].status = "queued" /\ jobs'[i].cancel = jobs[i].cancel
  BY <1>2, <1>3
<1>5. RunsMove /\ ClientsMove /\ FileMoves
  BY <1>1, FilePersisted DEF RunsMove, ClientsMove
<1>. QED
  BY <1>1, <1>3, <1>4, <1>5, Aside

LEMMA PipelineReturnsQueue ==
  ASSUME IInv, QInv, NEW t \in Threads, PipelineReturns(t)
  PROVE  QInv'
<1>. DEFINE j == thread[t].job
<1>1. /\ thread[t].pc = "pipeline" /\ Persist /\ RunsMove
      /\ j \in Known(jobs) /\ thread[t].run \in Started(run) /\ (j \in Runs => thread[t].run = j)
  BY FlagType, RunHeld DEF PipelineReturns, At, RunsMove
<1>2. CASE jobs[j].cancel
  BY <1>1, <1>2, EndJobQueue DEF PipelineReturns
<1>3. CASE ~jobs[j].cancel
  <2>1. /\ JobIsTold(j, thread[t].run) /\ Goes(t, "returned")
        /\ UNCHANGED <<queue, worker, client>>
    BY <1>3 DEF PipelineReturns, JobIsTold
  <2>2. PICK row : Edits(j, row) /\ row.status = jobs[j].status /\ row.cancel = jobs[j].cancel
    BY <1>1, <2>1, RunTold
  <2>3. ThreadGets(t, "returned", thread[t].run)
    BY <2>1 DEF ThreadGets, Goes
  <2>4. thread[t].run \in Started(run')
    BY <1>1, RunsMoved
  <2>. QED
    BY <1>1, <2>1, <2>2, <2>3, <2>4, GoesOn
<1>. QED
  BY <1>2, <1>3

LEMMA ReadStatusQueue ==
  ASSUME IInv, QInv, NEW t \in Threads, ReadStatus(t)
  PROVE  QInv'
<1>1. PICK s \in {run[thread[t].run], "success"} :
        thread' = [thread EXCEPT ![t].pc = "report", ![t].run = s]
  BY DEF ReadStatus
<1>2. /\ thread[t].pc = "returned" /\ UNCHANGED <<jobs, queue, worker, client>> /\ KeepFile
      /\ RunsMove /\ thread[t].run \in Started(run)
  BY RunHeld DEF ReadStatus, At, RunsMove
<1>3. s \in RunStatus
  <2>1. run[thread[t].run] \in RunStatus
    BY <1>2 DEF Started, QInv, Tables
  <2>. QED
    BY <1>1, <2>1 DEF RunStatus, JobStatus
<1>4. ThreadGets(t, "report", s)
  BY <1>1 DEF ThreadGets
<1>. QED
  BY <1>2, <1>3, <1>4, GoesOn

LEMMA ReportQueue ==
  ASSUME IInv, QInv, NEW t \in Threads, Report(t)
  PROVE  QInv'
<1>1. PICK s \in JobOutcome(thread[t].run) : jobs' = [jobs EXCEPT ![thread[t].job].status = s]
  BY DEF Report
<1>2. /\ thread[t].pc = "report" /\ UNCHANGED <<queue, worker, client>> /\ Persist
      /\ Loops(t) /\ RunsMove
  BY DEF Report, At, RunsMove
<1>3. thread[t].run \in RunStatus
  BY <1>2 DEF QInv, ThreadsHold, Holds
<1>4. s \in JobStatus \ {"queued"}
  BY <1>1, <1>3 DEF JobOutcome, RunStatus, JobStatus
<1>5. JobGets(thread[t].job, s, jobs[thread[t].job].cancel)
  BY <1>1 DEF JobGets
<1>6. jobs[thread[t].job].cancel \in BOOLEAN
  BY <1>2, FlagType
<1>. QED
  BY <1>2, <1>4, <1>5, <1>6, Ends

LEMMA ThreadQueue ==
  ASSUME IInv, QInv, NEW t \in Threads, Work(t) \/ PreflightFails(t) \/ Progress(t)
  PROVE  QInv'
<1>1. CASE CancelledBeforePipeline(t)
  BY <1>1, EndJobQueue DEF CancelledBeforePipeline, At, RunsMove
<1>2. CASE PipelineRaises(t)
  <2>1. RunsMove
    BY <1>2 DEF PipelineRaises, RunsMove
  <2>. QED
    BY <1>2, <2>1, EndJobQueue DEF PipelineRaises, At
<1>3. CASE PreflightFails(t)
  <2>1. RunsMove /\ file' = [jobs |-> jobs', queue |-> queue] /\ stale' = FALSE
    BY <1>3 DEF PreflightFails, RunsMove
  <2>. QED
    BY <1>3, <2>1, EndJobQueue DEF PreflightFails, At
<1>. QED
  BY <1>1, <1>2, <1>3, TakeJobQueue, BeginJobQueue, StartPipelineQueue, PipelineReturnsQueue,
     ReadStatusQueue, ReportQueue, ProgressQueue
  DEF Work

------------------------------------------------------------------------------
(* A restart *)

\* A job that is queued after a restart was in the file or belongs to an open run.
LEMMA RestartJobs ==
  ASSUME QInv, Restart
  PROVE  /\ JobsOK(jobs') /\ IsFiniteSet(Known(jobs'))
         /\ run' \in [Runs -> RunStatus \cup {"none"}] /\ IsFiniteSet(Started(run'))
         /\ RunsExist(jobs', run')
<1>1. /\ JobsOK(file.jobs) /\ RunsExist(file.jobs, run) /\ IsFiniteSet(Known(file.jobs)) /\ IsFiniteSet(Started(run))
      /\ run \in [Runs -> RunStatus \cup {"none"}]
  BY DEF QInv, Tables, FinitelyMany
<1>2. run' \in [Runs -> RunStatus \cup {"none"}] /\ Started(run') = Started(run)
  <2>1. /\ run' \in [Runs -> RunStatus \cup {"none"}]
        /\ \A r \in Runs : IF run[r] \in {"running", "cancel_requested", "retry_wait"}
                           THEN run'[r] # "none" ELSE run'[r] = run[r]
    BY DEF Restart
  <2>. QED
    BY <2>1 DEF Started
<1>3. /\ jobs' = [j \in JobIds |-> jobs'[j]]
      /\ \A j \in JobIds : jobs'[j] = IF j \in Runs /\ Missing(j) THEN RecoveredJob(j)
                                       ELSE Restored(file.jobs[j])
  BY DEF Restart
<1>4. ASSUME NEW r \in Runs, Missing(r)
      PROVE  /\ RecoveredJob(r) \in JobRecord /\ RecoveredJob(r).status # "absent"
             /\ RecoveredJob(r).run = r /\ r \in Started(run')
  <2>1. run'[r] # "none"
    BY <1>4 DEF Missing, OpenRun
  <2>. QED
    BY <2>1 DEF RecoveredJob, NewJob, JobRecord, JobStatus, Started
<1>5. ASSUME NEW j \in JobIds
      PROVE  /\ Restored(file.jobs[j]) \in JobRecord
             /\ Restored(file.jobs[j]).run = file.jobs[j].run
             /\ Restored(file.jobs[j]).status = "absent" => j \notin Known(file.jobs)
             /\ j \notin Known(file.jobs) => Restored(file.jobs[j]) = Absent
  <2>1. PICK job : job = file.jobs[j]
    OBVIOUS
  <2>2. job \in JobRecord /\ (job.status = "absent" => job = Absent)
    BY <1>1, <2>1 DEF JobsOK
  <2>3. job.run # NoRun => job.run \in Runs /\ run'[job.run] \in RunStatus
    BY <1>1, <1>2, <2>1 DEF RunsExist, Started
  <2>4. CASE job.status \notin {"running", "cancel_requested", "retry_wait"}
    BY <2>1, <2>2, <2>4 DEF Restored, Known
  <2>5. CASE job.status \in {"running", "cancel_requested", "retry_wait"} /\ job.run = NoRun
    BY <2>1, <2>2, <2>5 DEF Restored, Known, JobRecord, JobStatus
  <2>6. CASE job.status \in {"running", "cancel_requested", "retry_wait"} /\ job.run # NoRun
    <3>1. /\ job = [status |-> job.status, cancel |-> job.cancel, run |-> job.run]
          /\ job.cancel \in BOOLEAN /\ job.run \in Runs \cup {NoRun}
          /\ run'[job.run] \in JobStatus /\ run'[job.run] # "absent"
      BY <2>2, <2>3, <2>6 DEF JobRecord, RunStatus, JobStatus
    <3>2. CASE run'[job.run] \in {"running", "retry_wait"}
      BY <2>1, <2>6, <3>1, <3>2 DEF Restored, Known, JobRecord, JobStatus
    <3>3. CASE run'[job.run] \notin {"running", "retry_wait"}
      BY <2>1, <2>6, <3>1, <3>3 DEF Restored, Known, JobRecord, JobStatus
    <3>. QED
      BY <3>2, <3>3
  <2>. QED
    BY <2>4, <2>5, <2>6
<1>6. JobsOK(jobs')
  <2>1. \A j \in JobIds : jobs'[j] \in JobRecord
    BY <1>3, <1>4, <1>5
  <2>2. \A j \in JobIds : jobs'[j].status = "absent" => jobs'[j] = Absent
    BY <1>3, <1>4, <1>5
  <2>3. ASSUME NEW r \in Runs, jobs'[r].status # "absent" PROVE jobs'[r].run = r
    <3>1. r \in JobIds
      BY DEF JobIds
    <3>2. CASE Missing(r)
      BY <1>3, <1>4, <3>1, <3>2
    <3>3. CASE ~Missing(r)
      <4>1. jobs'[r] = Restored(file.jobs[r])
        BY <1>3, <3>1, <3>3
      <4>2. r \in Known(file.jobs)
        BY <1>5, <2>3, <3>1, <4>1 DEF Absent
      <4>. QED
        BY <1>1, <1>5, <3>1, <4>1, <4>2 DEF JobsOK, Known
    <3>. QED
      BY <3>2, <3>3
  <2>. QED
    BY <1>3, <2>1, <2>2, <2>3 DEF JobsOK
<1>7. RunsExist(jobs', run')
  BY <1>1, <1>2, <1>3, <1>4, <1>5 DEF RunsExist
<1>8. IsFiniteSet(Known(jobs'))
  <2>1. Known(jobs') \in SUBSET (Known(file.jobs) \cup Started(run'))
    <3>1. ASSUME NEW j \in JobIds, jobs'[j].status # "absent"
          PROVE  j \in Known(file.jobs) \cup Started(run')
      BY <1>3, <1>4, <1>5, <3>1 DEF Absent
    <3>. QED
      BY <3>1 DEF Known
  <2>2. IsFiniteSet(Known(file.jobs) \cup Started(run'))
    BY <1>1, <1>2, FS_Union
  <2>. QED
    BY <2>1, <2>2, FS_Subset
<1>. QED
  BY <1>1, <1>2, <1>6, <1>7, <1>8

\* The queue of the file, without the jobs that are not queued, and the other queued jobs.
LEMMA RestartQueue ==
  ASSUME QInv, Restart
  PROVE  /\ queue' \in Seq(JobIds)
         /\ \A j \in JobIds : jobs'[j].status = "queued" => Contains(queue', j)
         /\ \A j : Contains(queue', j) => j \in JobIds /\ jobs'[j].status = "queued"
<1>1. PICK queued, kept, rest :
        /\ queued = {j \in JobIds : jobs'[j].status = "queued"}
        /\ kept = Selected(file.queue, queued) /\ rest = SetToSeq(queued \ ToSet(kept))
        /\ queue' = kept \o rest
  BY DEF Restart
<1>2. kept \in Seq(JobIds) /\ \A e : Contains(kept, e) => e \in queued
  BY <1>1, SelectedElements DEF QInv, Tables
<1>3. IsFiniteSet(queued \ ToSet(kept))
  <2>1. queued \in SUBSET Known(jobs')
    BY <1>1 DEF Known
  <2>2. IsFiniteSet(Known(jobs'))
    BY RestartJobs
  <2>3. queued \ ToSet(kept) \in SUBSET Known(jobs')
    BY <2>1
  <2>. QED
    BY <2>2, <2>3, FS_Subset
<1>4. /\ rest \in Seq(queued \ ToSet(kept))
      /\ \A e \in queued \ ToSet(kept) : Contains(rest, e)
  BY <1>1, <1>3, ListedElements
<1>5. kept \in Seq(queued)
  BY <1>2 DEF Contains
<1>6. rest \in Seq(queued)
  BY <1>4
<1>7. queue' \in Seq(queued) /\ \A e : Contains(kept, e) \/ Contains(rest, e) => Contains(queue', e)
  BY <1>1, <1>5, <1>6, ConcatenatedElements
<1>8. \A e \in ToSet(kept) : Contains(kept, e)
  BY <1>2 DEF ToSet, Contains
<1>9. \A e \in queued : Contains(queue', e)
  BY <1>4, <1>7, <1>8
<1>10. \A e : Contains(queue', e) => e \in queued
  BY <1>7 DEF Contains
<1>11. queued \subseteq JobIds /\ \A j \in queued : jobs'[j].status = "queued"
  BY <1>1
<1>12. queue' \in Seq(JobIds)
  BY <1>7, <1>11
<1>13. \A j \in JobIds : jobs'[j].status = "queued" => j \in queued
  BY <1>1
<1>. QED
  BY <1>9, <1>10, <1>11, <1>12, <1>13

LEMMA RestartAll ==
  ASSUME IInv, QInv, Restart
  PROVE  QInv'
<1>1. /\ JobsOK(jobs') /\ IsFiniteSet(Known(jobs')) /\ RunsExist(jobs', run')
      /\ run' \in [Runs -> RunStatus \cup {"none"}] /\ IsFiniteSet(Started(run'))
  BY RestartJobs
<1>2. /\ queue' \in Seq(JobIds)
      /\ \A j \in JobIds : jobs'[j].status = "queued" => Contains(queue', j)
      /\ \A j : Contains(queue', j) => j \in JobIds /\ jobs'[j].status = "queued"
  BY RestartQueue
<1>3. file'.jobs = jobs' /\ file'.queue = queue'
  BY DEF Restart
<1>4. client' = [c \in Clients |-> Quiet] /\ Asks(Quiet, jobs', run')
  BY DEF Restart, Asks, Quiet
<1>5. PICK t \in Threads :
        IF queue' = <<>> THEN worker' = NoThread /\ thread' = [u \in Threads |-> Gone]
        ELSE worker' = t /\ thread' = [u \in Threads |-> IF u = t THEN Looping ELSE Gone]
  BY DEF Restart
<1>6. \A u \in Threads : Holds(thread'[u], jobs', run')
  BY <1>5 DEF Holds, Looping, Gone
<1>7. QueueHasWorker'
  <2>1. Looping.pc # "none"
    BY DEF Looping, Gone
  <2>. QED
    BY <1>5, <2>1, RuntimeAssumption DEF QueueHasWorker, Alive
<1>8. QueuedJobsAreKnown' /\ FileHasQueued' /\ QueuedExist'
  BY <1>2, <1>3 DEF QueuedJobsAreKnown, FileHasQueued, QueuedExist, Known
<1>9. ClientsAsk' /\ ThreadsHold'
  BY <1>4, <1>6 DEF ClientsAsk, ThreadsHold
<1>. QED
  BY <1>1, <1>2, <1>3, <1>7, <1>8, <1>9 DEF QInv, Tables, FinitelyMany

------------------------------------------------------------------------------
(* The theorems on types, the queue and restarts *)

LEMMA InitQueue == Init => QInv
<1>. SUFFICES ASSUME Init PROVE QInv
  OBVIOUS
<1>1. \A e : ~Contains(<<>>, e)
  BY DEF Contains
<1>2. /\ jobs = [j \in JobIds |-> Absent] /\ file.jobs = jobs
      /\ queue = <<>> /\ file.queue = <<>> /\ run = [r \in Runs |-> "none"]
  BY DEF Init
<1>3. Known(jobs) = {} /\ Started(run) = {}
  BY <1>2 DEF Known, Absent, Started
<1>4. Tables
  <2>1. Absent \in JobRecord /\ Absent.status = "absent" /\ Absent.run = NoRun
    BY DEF Absent, JobRecord
  <2>2. <<>> \in Seq(JobIds)
    OBVIOUS
  <2>3. JobsOK(jobs) /\ RunsExist(jobs, run)
    BY <1>2, <2>1 DEF JobsOK, RunsExist, JobIds
  <2>. QED
    BY <1>2, <2>2, <2>3 DEF Tables
<1>5. FinitelyMany
  BY <1>2, <1>3, FS_EmptySet DEF FinitelyMany
<1>6. ThreadsHold /\ ClientsAsk
  BY DEF Init, ThreadsHold, Holds, Gone, ClientsAsk, Asks, Quiet
<1>7. QueuedExist /\ FileHasQueued /\ QueuedJobsAreKnown /\ QueueHasWorker
  BY <1>1, <1>2 DEF QueuedExist, FileHasQueued, QueuedJobsAreKnown, QueueHasWorker, Absent
<1>. QED
  BY <1>4, <1>5, <1>6, <1>7 DEF QInv

LEMMA NextQueue == IInv /\ QInv /\ [Next]_vars => QInv'
<1>. SUFFICES ASSUME IInv, QInv, [Next]_vars PROVE QInv'
  OBVIOUS
<1>1. CASE UNCHANGED vars
  <2>1. UNCHANGED <<jobs, queue, worker, thread, client, run, file, stale>>
    BY <1>1 DEF vars
  <2>. QED
    BY <2>1, Aside DEF JobsMove, RunsMove, FileMoves, ClientsMove
<1>2. ASSUME NEW c \in Clients,
             \/ StartRun(c) \/ CancelJob(c) \/ CancelRun(c) \/ OperateNode(c) \/ ReopenNode(c)
             \/ RefuseNode(c) \/ QueueOperated(c) \/ RetryJob(c) \/ PrepareRetry(c) \/ QueueRetried(c)
      PROVE  QInv'
  BY <1>2, StartRunQueue, CancelJobQueue, RequestQueue, QueueOperatedQueue, QueueRetriedQueue
<1>. QED
  BY <1>1, <1>2, ThreadQueue, RetryTimerQueue, CancelTimerQueue, RestartAll DEF Next

LEMMA QueueInvariant == Spec => [](IInv /\ QInv)
<1>1. Init => IInv /\ QInv
  BY InitInv, InitQueue
<1>2. IInv /\ QInv /\ [Next]_vars => (IInv /\ QInv)'
  BY NextInv, NextQueue
<1>. QED
  BY <1>1, <1>2, PTL DEF Spec

\* Jobs, queue, threads and runs keep their types: a thread works on a job that
\* exists, and a pipeline on a run that has a row (AgentRuntime, _run_job).
THEOREM TypeCorrect == Spec => []TypeOK
<1>1. IInv /\ QInv => TypeOK
  <2>. SUFFICES ASSUME IInv, QInv PROVE TypeOK
    OBVIOUS
  <2>1. \A j \in JobIds : jobs[j] \in JobRecord
    BY DEF QInv, Tables, JobsOK
  <2>2. ToSet(queue) \subseteq JobIds
    BY DEF QInv, Tables, ToSet
  <2>3. \A t \in Threads : /\ (Executing(t) => jobs[thread[t].job].status # "absent")
                            /\ (At(t, "pipeline") => run[thread[t].run] # "none")
    BY DEF QInv, ThreadsHold, Holds, Executing, At, Known, Started
  <2>. QED
    BY <2>1, <2>2, <2>3 DEF TypeOK, JobRecord, QInv, Tables, IInv, Shapes
<1>. QED
  BY <1>1, QueueInvariant, PTL

\* A running job has a thread, a queued one that nobody has cancelled is in the
\* queue or has just been taken from it, and a queue that is not empty has a worker
\* that is alive (_ensure_worker_locked, _worker_loop, cancel_job, _load_jobs).  A
\* queued job with cancel_requested is left out, since it may be lost: it was
\* cancelled between the reading of its flag and its retry_wait, and the worker
\* drops it when it takes it from the queue (runner.py:233).
THEOREM UncancelledJobsAttended == Spec => []JobsAreAttended
<1>1. IInv /\ QInv => JobsAreAttended
  BY DEF IInv, QInv, JobsAreAttended
<1>. QED
  BY <1>1, QueueInvariant, PTL

\* A restart keeps what is queued queued, on the same run, unless the file is old
\* (_persist_jobs_locked, _load_jobs, _restore_missing_sqlite_jobs).
THEOREM QueueSurvivesRestart == Spec => RestartKeepsQueue
<1>1. ASSUME QInv, Restart, ~stale, NEW j \in JobIds, jobs[j].status = "queued"
      PROVE  /\ jobs'[j].status = "queued" /\ Contains(queue', j) /\ jobs'[j].run = jobs[j].run
  <2>1. file.jobs[j] = jobs[j]
    BY <1>1 DEF QInv, FileHasQueued
  <2>2. ~(j \in Runs /\ Missing(j))
    BY <1>1, <2>1 DEF QInv, Tables, JobsOK, Missing
  <2>3. jobs'[j] = Restored(file.jobs[j])
    BY <1>1, <2>2 DEF Restart
  <2>4. jobs'[j] = jobs[j]
    BY <1>1, <2>1, <2>3 DEF Restored
  <2>. QED
    BY <1>1, <2>4, RestartQueue
<1>2. QInv /\ [Next]_vars =>
        [Restart /\ ~stale => \A j \in JobIds :
           jobs[j].status = "queued" => /\ jobs'[j].status = "queued" /\ Contains(queue', j)
                                        /\ jobs'[j].run = jobs[j].run]_vars
  BY <1>1
<1>. QED
  BY <1>2, QueueInvariant, PTL DEF Spec, RestartKeepsQueue

\* A restart goes on with every open run, whatever the file had lost, unless the
\* file says that all its jobs are finished (_restore_missing_sqlite_jobs).
THEOREM OpenRunsResume == Spec => OpenRunsAreTakenUp
<1>1. ASSUME QInv, Restart, NEW r \in Runs, run'[r] \in OpenRun
      PROVE  \/ \E j \in JobIds : jobs'[j].run = r /\ jobs'[j].status \notin Finished
             \/ FinishedInFile(r) /\ \E j \in JobIds : file.jobs[j].run = r
  <2>1. \A j \in JobIds : jobs'[j] = IF j \in Runs /\ Missing(j) THEN RecoveredJob(j)
                                       ELSE Restored(file.jobs[j])
    BY <1>1 DEF Restart
  <2>2. CASE Missing(r)
    <3>1. r \in JobIds /\ jobs'[r] = RecoveredJob(r)
      BY <2>1, <2>2 DEF JobIds
    <3>2. RecoveredJob(r).run = r /\ RecoveredJob(r).status \notin Finished
      BY DEF RecoveredJob, NewJob, Finished
    <3>. QED
      BY <3>1, <3>2
  <2>3. CASE ~Missing(r) /\ ~FinishedInFile(r)
    <3>1. PICK j \in JobIds : file.jobs[j].run = r /\ file.jobs[j].status \notin Finished
      BY <2>3 DEF FinishedInFile
    <3>2. PICK job : job = file.jobs[j] /\ job \in JobRecord
      BY <1>1 DEF QInv, Tables, JobsOK
    <3>3. r # NoRun
      BY RuntimeAssumption
    <3>4. j \in Runs => j = r
      BY <1>1, <3>1, <3>3 DEF QInv, Tables, JobsOK, Absent
    <3>5. jobs'[j] = Restored(job)
      BY <2>1, <2>3, <3>2, <3>4
    <3>6. run'[r] \in {"running", "retry_wait"} \/ run'[r] \notin Finished
      BY <1>1 DEF OpenRun, Finished
    <3>7. /\ job = [status |-> job.status, cancel |-> job.cancel, run |-> r]
          /\ job.status \notin Finished
      BY <3>1, <3>2 DEF JobRecord
    <3>8. Restored(job).run = r /\ Restored(job).status \notin Finished
      BY <3>3, <3>6, <3>7 DEF Restored, Finished
    <3>. QED
      BY <3>5, <3>8
  <2>4. CASE ~Missing(r) /\ FinishedInFile(r)
    BY <1>1, <2>4 DEF Missing
  <2>. QED
    BY <2>2, <2>3, <2>4
<1>2. QInv /\ [Next]_vars =>
        [Restart => \A r \in Runs : run'[r] \in OpenRun =>
           \/ \E j \in JobIds : jobs'[j].run = r /\ jobs'[j].status \notin Finished
           \/ FinishedInFile(r) /\ \E j \in JobIds : file.jobs[j].run = r]_vars
  BY <1>1
<1>. QED
  BY <1>2, QueueInvariant, PTL DEF Spec, OpenRunsAreTakenUp
=============================================================================
