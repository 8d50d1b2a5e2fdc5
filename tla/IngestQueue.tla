---------------------------- MODULE IngestQueue ----------------------------
(***************************************************************************)
(* Background ingestion: RagEngine.schedule_ingest creates a PENDING       *)
(* record and submits the job to AsyncIngestWorkerQueue, whose worker      *)
(* tasks take the jobs, run the pipeline and write the outcome in the      *)
(* record.  shutdown cancels the workers.                                  *)
(*                                                                         *)
(* One asyncio event loop runs everything, so a step is what a coroutine   *)
(* does between two suspensions.  The in-memory status repository and a    *)
(* get on a non-empty queue do not suspend: a worker that ends a job takes *)
(* the next one in the same step, and create + put are one step unless the *)
(* queue is full.  asyncio.Queue is modelled by its contract: a put on a   *)
(* full queue waits, and any waiting put may go on when there is room.     *)
(***************************************************************************)
EXTENDS Integers, Sequences, FiniteSets, Functions

CONSTANTS
  Job,        \* job ids (uuid4 in the code: never reused)
  Worker,     \* the fixed set of worker tasks
  MaxSize,    \* capacity of the queue, 0 for unbounded
  Idle,       \* a worker waiting in queue.get()
  Stopped     \* a worker whose task has ended

ASSUME IngestQueueAssumption ==
  /\ MaxSize \in Nat
  /\ IsFiniteSet(Worker)
  /\ Idle \notin Job
  /\ Stopped \notin Job
  /\ Idle # Stopped

VARIABLES
  status,      \* the record of each job: "absent" before create
  submit,      \* the schedule_ingest call of each job
  queue,       \* the jobs in asyncio.Queue, oldest first
  task,        \* what each worker task is at: Idle, Stopped or the job it handles
  unfinished,  \* asyncio.Queue's count of puts without a task_done
  depth,       \* the queue depth metric
  closing,     \* shutdown has cancelled the workers
  accepted,    \* history: the jobs in the order they were put
  started      \* history: the jobs in the order they were taken

vars == <<status, submit, queue, task, unfinished, depth, closing, accepted,
          started>>

Outcome == {"completed", "failed"}
Status == {"absent", "pending", "running"} \cup Outcome
Submit == {"none", "blocked", "returned", "cancelled"}

\* The workers inside the handler, and the jobs they hold.
Busy == {w \in Worker : task[w] \in Job}
Held == {task[w] : w \in Busy}

Init ==
  /\ status = [j \in Job |-> "absent"]
  /\ submit = [j \in Job |-> "none"]
  /\ queue = <<>>
  /\ task = [w \in Worker |-> Idle]
  /\ unfinished = 0
  /\ depth = 0
  /\ closing = FALSE
  /\ accepted = <<>>
  /\ started = <<>>

Full == MaxSize > 0 /\ Len(queue) >= MaxSize

PutReporting(j, reported) ==
  /\ queue' = Append(queue, j)
  /\ accepted' = Append(accepted, j)
  /\ unfinished' = unfinished + 1
  /\ submit' = [submit EXCEPT ![j] = "returned"]
  /\ depth' = reported

\* Mutant: the metric is reported before the put.
PutReportedEarly(j) == PutReporting(j, Len(queue))

\* What queue.put does once there is room, and submit after it.
Put(j) == PutReporting(j, Len(queue) + 1)

\* schedule_ingest with room in the queue: record, put and return in one step.
Schedule(j) ==
  /\ status[j] = "absent"
  /\ ~Full
  /\ status' = [status EXCEPT ![j] = "pending"]
  /\ Put(j)
  /\ UNCHANGED <<task, closing, started>>

\* schedule_ingest on a full queue: the record exists, the put waits.
ScheduleBlocked(j) ==
  /\ status[j] = "absent"
  /\ Full
  /\ status' = [status EXCEPT ![j] = "pending"]
  /\ submit' = [submit EXCEPT ![j] = "blocked"]
  /\ UNCHANGED <<queue, task, unfinished, depth, closing, accepted, started>>

\* Mutant: a waiting put is woken by the get on a full queue only, and may miss it.
PutResumesIfAwake(j) ==
  /\ submit[j] = "blocked"
  /\ Len(queue) = MaxSize - 1
  /\ Put(j)
  /\ UNCHANGED <<status, task, closing, started>>

PutResumes(j) ==
  /\ submit[j] = "blocked"
  /\ ~Full
  /\ Put(j)
  /\ UNCHANGED <<status, task, closing, started>>

\* The RPC that waits in submit is cancelled: the record stays PENDING.
CancelSubmit(j) ==
  /\ submit[j] = "blocked"
  /\ submit' = [submit EXCEPT ![j] = "cancelled"]
  /\ UNCHANGED <<status, queue, task, unfinished, depth, closing, accepted,
                 started>>

TakeLeaving(w, board, job, rest) ==
  IF queue = <<>>
  THEN /\ task' = [task EXCEPT ![w] = Idle]
       /\ status' = board
       /\ UNCHANGED <<queue, started>>
  ELSE /\ task' = [task EXCEPT ![w] = job]
       /\ status' = [board EXCEPT ![job] = "running"]
       /\ queue' = rest
       /\ started' = Append(started, job)

\* Mutant: the job is looked at and not removed.
PeekNext(w, board) == TakeLeaving(w, board, Head(queue), queue)

\* Mutant: a LIFO queue.
TakeNewest(w, board) ==
  TakeLeaving(w, board, queue[Len(queue)], SubSeq(queue, 1, Len(queue) - 1))

\* The worker loop from queue.get() to the handler's first suspension, with the
\* records as they are when the loop gets there.
TakeNext(w, board) == TakeLeaving(w, board, Head(queue), Tail(queue))

Wake(w) ==
  /\ task[w] = Idle
  /\ ~closing
  /\ queue # <<>>
  /\ TakeNext(w, status)
  /\ UNCHANGED <<submit, unfinished, depth, closing, accepted>>

EndHandler(w, record, done) ==
  /\ task[w] \in Job
  /\ ~closing
  /\ unfinished' = unfinished - done
  /\ depth' = Len(queue)
  /\ TakeNext(w, [status EXCEPT ![task[w]] = record])
  /\ UNCHANGED <<submit, closing, accepted>>

\* Mutant: task_done in the handler as well as in the `finally`.
FinishTwiceDone(w, outcome) == EndHandler(w, outcome, 2)

\* Mutant: task_done outside a `finally`.
FinishNoFinally(w, outcome) ==
  EndHandler(w, outcome, IF outcome = "completed" THEN 1 ELSE 0)

\* Mutant: a failed job's record reset to PENDING, the job not queued again.
FinishReset(w, outcome) ==
  EndHandler(w, IF outcome = "failed" THEN "pending" ELSE outcome, 1)

\* Mutant: no `except Exception` in the handler: the exception ends the worker.
FinishRaises(w, outcome) ==
  IF outcome = "completed"
  THEN EndHandler(w, outcome, 1)
  ELSE /\ task[w] \in Job
       /\ ~closing
       /\ task' = [task EXCEPT ![w] = Stopped]
       /\ unfinished' = unfinished - 1
       /\ depth' = Len(queue)
       /\ UNCHANGED <<status, submit, queue, closing, accepted, started>>

\* The handler ends: the outcome is recorded (a cache invalidation that raises
\* turns COMPLETED into FAILED before anybody can read the record), the
\* `finally` counts the job as done and reports the depth, and the loop goes on.
Finish(w, outcome) == EndHandler(w, outcome, 1)

Shutdown ==
  /\ ~closing
  /\ closing' = TRUE
  /\ UNCHANGED <<status, submit, queue, task, unfinished, depth, accepted,
                 started>>

\* Mutant: the CancelledError of queue.get() is swallowed and the loop goes on.
StopIdleSwallowed(w) == closing /\ task[w] = Idle /\ UNCHANGED vars

StopIdle(w) ==
  /\ closing
  /\ task[w] = Idle
  /\ task' = [task EXCEPT ![w] = Stopped]
  /\ UNCHANGED <<status, submit, queue, unfinished, depth, closing, accepted,
                 started>>

\* CancelledError passes `except Exception`: the record stays RUNNING, the
\* `finally` runs, and the task ends.
StopBusy(w) ==
  /\ closing
  /\ task[w] \in Job
  /\ task' = [task EXCEPT ![w] = Stopped]
  /\ unfinished' = unfinished - 1
  /\ depth' = Len(queue)
  /\ UNCHANGED <<status, submit, queue, closing, accepted, started>>

Next ==
  \/ \E j \in Job :
       \/ Schedule(j)
       \/ ScheduleBlocked(j)
       \/ PutResumes(j)
       \/ CancelSubmit(j)
  \/ \E w \in Worker :
       \/ Wake(w)
       \/ \E outcome \in Outcome : Finish(w, outcome)
       \/ StopIdle(w)
       \/ StopBusy(w)
  \/ Shutdown

\* The event loop runs every ready coroutine, and every call a handler awaits
\* returns or raises.  Nobody has to submit, to cancel or to shut down.
Fairness ==
  /\ \A j \in Job : WF_vars(PutResumes(j))
  /\ \A w \in Worker :
       /\ WF_vars(Wake(w))
       /\ WF_vars(\E outcome \in Outcome : Finish(w, outcome))
       /\ WF_vars(StopIdle(w) \/ StopBusy(w))

Spec == Init /\ [][Next]_vars

FairSpec == Spec /\ Fairness

-----------------------------------------------------------------------------
TypeOK ==
  /\ status \in [Job -> Status]
  /\ submit \in [Job -> Submit]
  /\ queue \in Seq(Job)
  /\ task \in [Worker -> Job \cup {Idle, Stopped}]
  /\ unfinished \in Nat
  /\ depth \in Nat
  /\ closing \in BOOLEAN
  /\ accepted \in Seq(Job)
  /\ started \in Seq(Job)

\* Jobs start in the order their submissions were accepted, none is skipped and
\* none is taken twice, whatever the workers' interleaving (workers.py, the loop
\* of _worker_loop around asyncio.Queue).
FirstInFirstOut ==
  /\ accepted = started \o queue
  /\ IsInjective(accepted)

\* The record and the place of a job agree: a worker's job says RUNNING, a queued
\* or blocked one PENDING, and no two workers hold one job.
RecordsMatchPlaces ==
  /\ \A w \in Busy : status[task[w]] = "running"
  /\ \A v, w \in Busy : task[v] = task[w] => v = w
  /\ \A i \in DOMAIN queue :
       status[queue[i]] = "pending" /\ submit[queue[i]] = "returned"
  /\ \A j \in Job :
       /\ status[j] = "absent" <=> submit[j] = "none"
       /\ submit[j] \in {"blocked", "cancelled"} => status[j] = "pending"

\* A job whose submission returned is never lost while the queue is open: as long
\* as nobody called shutdown its record is final, or a worker has it, or it is
\* queued.  Only a cancelled submission leaves a PENDING record behind.
NoJobLost ==
  \A j \in Job :
    /\ status[j] = "pending" /\ submit[j] = "returned" =>
         j \in Range(queue)
    /\ status[j] = "running" /\ ~closing => j \in Held

\* join() counts right: it returns exactly when nothing is queued and no handler
\* runs, failed and cancelled handlers included.
JoinIsExact == unfinished = Len(queue) + Cardinality(Busy)

\* The queue depth metric is reported after a put and after a handler, not after a
\* get: it may run ahead of the queue by at most one per running handler.
DepthLag ==
  /\ Len(queue) <= depth
  /\ depth <= Len(queue) + Cardinality(Busy)

\* Both counters of the queue agree with the jobs in it and with the workers.
CountersAgree == JoinIsExact /\ DepthLag

\* The client's view: records only move forward, no job is begun twice, a job that
\* was interrupted by shutdown is never resumed.
Board == INSTANCE JobBoard WITH active <- Held
BoardSpec == Board!BoardSpec

\* Every accepted job is decided unless the service is shut down.
AcceptedIsDecided ==
  \A j \in Job :
    submit[j] = "returned" ~> (status[j] \in Outcome \/ closing)

\* Room is made for a blocked submission unless the service is shut down or its
\* caller goes away.
BlockedIsServed ==
  \A j \in Job : submit[j] = "blocked" ~> (submit[j] # "blocked" \/ closing)

\* shutdown() returns: every cancelled worker ends.
ShutdownReturns == closing ~> \A w \in Worker : task[w] = Stopped
=============================================================================
