----------------------------- MODULE WorkerPool -----------------------------
(***************************************************************************)
(* The worker pool that sends the SCNs (hms-base worker-pool.go,           *)
(* worker_jobs.go) and the goroutine that feeds it, handleSCNs() in        *)
(* doScn().  Queue() puts a job on the channel JobQueue and only then sets *)
(* its status; a dispatcher takes a job, then the channel of a worker that *)
(* announced itself on the channel Pool, and hands the job over; the       *)
(* worker runs it, sets its status and announces itself again.  In the     *)
(* fan-out sync mode (HMNFD_FANOUT_SYNC) doScn() polls the job's status    *)
(* before it goes on to the next job.                                      *)
(*                                                                         *)
(* A job's status is a word that three goroutines write without a lock.    *)
(* Nobody in hmnfd calls Stop() or Cancel(), and no job sets JSTAT_ERROR.  *)
(***************************************************************************)
EXTENDS Naturals, Sequences, FiniteSets

CONSTANTS
    Worker,       \* the workers (500 in the code)
    NoWorker,     \* the dispatcher holds none
    NumJobs,      \* bound: jobs that doScn() makes
    MaxJobQueue,  \* capacity of JobQueue (10000 in the code)
    SyncModes     \* values of fanoutSyncMode # 0

\* The jobs, in the order in which doScn() makes them.
Job == 1..NumJobs
NoJob == 0

ASSUME PoolAssumption ==
    /\ NumJobs \in Nat
    /\ MaxJobQueue \in Nat \ {0}
    /\ SyncModes \subseteq BOOLEAN
    /\ IsFiniteSet(Worker) /\ NoWorker \notin Worker

JobStatus == {"DEFAULT", "QUEUED", "PROCESSING", "COMPLETE"}

VARIABLES
    sync,       \* fanoutSyncMode # 0
    qpc,        \* where doScn() is: in Queue() before or after the send, or
                \* waiting for the job
    nextJob,    \* the job it works on
    JobQueue,   \* channel of jobs
    Pool,       \* channel of the workers that announced themselves
    dpc,        \* where the dispatcher is
    dJob,       \* the job it took
    dWorker,    \* the worker it took
    wpc,        \* where each worker is
    wJob,       \* the job it runs
    status,     \* each job's Status
    ran         \* history: jobs in the order in which workers took them

queueVars == <<qpc, nextJob>>
dispatchVars == <<dpc, dJob, dWorker>>
workerVars == <<wpc, wJob>>
vars == <<sync, queueVars, JobQueue, Pool, dispatchVars, workerVars, status,
          ran>>

Init ==
    /\ sync \in SyncModes
    /\ qpc = "send" /\ nextJob = 1
    /\ JobQueue = <<>> /\ Pool = <<>>
    /\ dpc = "job" /\ dJob = NoJob /\ dWorker = NoWorker
    /\ wpc = [w \in Worker |-> "announce"]
    /\ wJob = [w \in Worker |-> NoJob]
    /\ status = [j \in Job |-> "DEFAULT"]
    /\ ran = <<>>

-----------------------------------------------------------------------------
(* doScn() and WorkerPool.Queue() *)

\* Mutant of QueueSend: with the queue full, Queue() reports success.
QueueSendLossy ==
    /\ qpc = "send" /\ nextJob \in Job
    /\ JobQueue' = IF Len(JobQueue) < MaxJobQueue THEN Append(JobQueue, nextJob)
                                                  ELSE JobQueue
    /\ qpc' = "status"
    /\ UNCHANGED <<sync, nextJob, Pool, dispatchVars, workerVars, status, ran>>

\* Mutant of QueueSend: a queue without a limit.
QueueSendUnbounded ==
    /\ qpc = "send" /\ nextJob \in Job
    /\ JobQueue' = Append(JobQueue, nextJob)
    /\ qpc' = "status"
    /\ UNCHANGED <<sync, nextJob, Pool, dispatchVars, workerVars, status, ran>>

\* p.JobQueue <- job; while the queue is full Queue() returns 1, and doScn()
\* calls it again after half a second.
QueueSend ==
    /\ qpc = "send" /\ nextJob \in Job
    /\ Len(JobQueue) < MaxJobQueue
    /\ JobQueue' = Append(JobQueue, nextJob)
    /\ qpc' = "status"
    /\ UNCHANGED <<sync, nextJob, Pool, dispatchVars, workerVars, status, ran>>

\* SetStatus(JSTAT_QUEUED), after the job has left.
QueueStatus ==
    /\ qpc = "status"
    /\ status' = [status EXCEPT ![nextJob] = "QUEUED"]
    /\ \/ sync /\ qpc' = "wait" /\ UNCHANGED nextJob
       \/ ~sync /\ qpc' = "send" /\ nextJob' = nextJob + 1
    /\ UNCHANGED <<sync, JobQueue, Pool, dispatchVars, workerVars, ran>>

\* Mutant of SyncWait: a job that is being processed is taken for finished.
SyncWaitShort ==
    /\ qpc = "wait"
    /\ status[nextJob] \in {"PROCESSING", "COMPLETE"}
    /\ qpc' = "send"
    /\ nextJob' = nextJob + 1
    /\ UNCHANGED <<sync, JobQueue, Pool, dispatchVars, workerVars, status, ran>>

\* "wait for this SCN send to finish before doing the next one"
SyncWait ==
    /\ qpc = "wait"
    /\ status[nextJob] = "COMPLETE"
    /\ qpc' = "send"
    /\ nextJob' = nextJob + 1
    /\ UNCHANGED <<sync, JobQueue, Pool, dispatchVars, workerVars, status, ran>>

-----------------------------------------------------------------------------
(* WorkerPool.dispatch() *)

\* Mutant of TakeJob: the dispatcher serves one job and leaves.
TakeJobOnce ==
    /\ dpc = "job"
    /\ JobQueue # <<>> /\ ran = <<>>
    /\ dJob' = Head(JobQueue)
    /\ JobQueue' = Tail(JobQueue)
    /\ dpc' = "worker"
    /\ UNCHANGED <<sync, queueVars, Pool, dWorker, workerVars, status, ran>>

TakeJob ==
    /\ dpc = "job"
    /\ JobQueue # <<>>
    /\ dJob' = Head(JobQueue)
    /\ JobQueue' = Tail(JobQueue)
    /\ dpc' = "worker"
    /\ UNCHANGED <<sync, queueVars, Pool, dWorker, workerVars, status, ran>>

TakeWorker ==
    /\ dpc = "worker"
    /\ Pool # <<>>
    /\ dWorker' = Head(Pool)
    /\ Pool' = Tail(Pool)
    /\ dpc' = "status"
    /\ UNCHANGED <<sync, queueVars, JobQueue, dJob, workerVars, status, ran>>

\* The job was not cancelled: SetStatus(JSTAT_PROCESSING).
SetProcessing ==
    /\ dpc = "status"
    /\ status' = [status EXCEPT ![dJob] = "PROCESSING"]
    /\ dpc' = "hand"
    /\ UNCHANGED <<sync, queueVars, JobQueue, Pool, dJob, dWorker, workerVars,
                   ran>>

\* Mutant of HandOver: the worker is announced again as it gets its job.
HandOverAnnounced ==
    /\ dpc = "hand"
    /\ wpc[dWorker] = "idle"
    /\ wpc' = [wpc EXCEPT ![dWorker] = "run"]
    /\ wJob' = [wJob EXCEPT ![dWorker] = dJob]
    /\ ran' = Append(ran, dJob)
    /\ Pool' = Append(Pool, dWorker)
    /\ dpc' = "job" /\ dJob' = NoJob /\ dWorker' = NoWorker
    /\ UNCHANGED <<sync, queueVars, JobQueue, status>>

\* jobChannel <- job meets job := <-w.JobChannel: the channel has no buffer.
HandOver ==
    /\ dpc = "hand"
    /\ wpc[dWorker] = "idle"
    /\ wpc' = [wpc EXCEPT ![dWorker] = "run"]
    /\ wJob' = [wJob EXCEPT ![dWorker] = dJob]
    /\ ran' = Append(ran, dJob)
    /\ dpc' = "job" /\ dJob' = NoJob /\ dWorker' = NoWorker
    /\ UNCHANGED <<sync, queueVars, JobQueue, Pool, status>>

-----------------------------------------------------------------------------
(* Worker.Start() *)

\* w.WorkerPool <- w.JobChannel, which has room for every worker
Announce(w) ==
    /\ wpc[w] = "announce"
    /\ Len(Pool) < Cardinality(Worker)
    /\ Pool' = Append(Pool, w)
    /\ wpc' = [wpc EXCEPT ![w] = "idle"]
    /\ UNCHANGED <<sync, queueVars, JobQueue, dispatchVars, wJob, status, ran>>

\* job.Run() returns (sendSCNToSubscriber() gives up after its retries);
\* SetStatus(JSTAT_COMPLETE).
Complete(w) ==
    /\ wpc[w] = "run"
    /\ status' = [status EXCEPT ![wJob[w]] = "COMPLETE"]
    /\ wpc' = [wpc EXCEPT ![w] = "announce"]
    /\ wJob' = [wJob EXCEPT ![w] = NoJob]
    /\ UNCHANGED <<sync, queueVars, JobQueue, Pool, dispatchVars, ran>>

Queuer == QueueSend \/ QueueStatus \/ SyncWait
Dispatcher == TakeJob \/ TakeWorker \/ SetProcessing \/ HandOver

Next == \/ Queuer
        \/ Dispatcher
        \/ \E w \in Worker : Announce(w) \/ Complete(w)

SafetySpec == Init /\ [][Next]_vars

\* The Go scheduler runs every goroutine that can run.
Fairness == /\ WF_vars(Queuer)
            /\ WF_vars(Dispatcher)
            /\ \A w \in Worker : WF_vars(Announce(w) \/ Complete(w))

Spec == SafetySpec /\ Fairness

-----------------------------------------------------------------------------
(* Properties *)

\* How many jobs Queue() has accepted.
Queued == IF qpc = "send" THEN nextJob - 1 ELSE nextJob

\* The types of the pool's channels and of the goroutines' locals; JobQueue
\* stays within its capacity.
TypeOK ==
    /\ sync \in SyncModes
    /\ qpc \in {"send", "status", "wait"}
    /\ nextJob \in 1..(NumJobs + 1) /\ (qpc # "send" => nextJob \in Job)
    /\ JobQueue \in Seq(Job) /\ Len(JobQueue) <= MaxJobQueue
    /\ Pool \in Seq(Worker)
    /\ dpc \in {"job", "worker", "status", "hand"}
    /\ dJob \in Job \cup {NoJob} /\ (dpc # "job" => dJob \in Job)
    /\ dWorker \in Worker \cup {NoWorker}
    /\ (dpc \in {"status", "hand"}) <=> (dWorker \in Worker)
    /\ wpc \in [Worker -> {"announce", "idle", "run"}]
    /\ wJob \in [Worker -> Job \cup {NoJob}]
    /\ \A w \in Worker : wpc[w] = "run" => wJob[w] \in Job
    /\ status \in [Job -> JobStatus]
    /\ ran \in Seq(Job)

\* The dispatcher takes one job at a time and waits for the worker it chose,
\* without a buffer between them: it must never have chosen one that is not
\* listening, or every job behind it waits for that worker's send.  Each
\* listening worker is on Pool once or in the dispatcher's hand, and nobody
\* else is.
OnlyListenersOffered ==
    /\ \A n \in 1..Len(Pool) : wpc[Pool[n]] = "idle" /\ Pool[n] # dWorker
    /\ \A m, n \in 1..Len(Pool) : Pool[m] = Pool[n] => m = n
    /\ dWorker \in Worker => wpc[dWorker] = "idle"
    /\ \A w \in Worker : wpc[w] = "idle" =>
          w = dWorker \/ \E n \in 1..Len(Pool) : Pool[n] = w

\* In sync mode no job is queued before the one before it was sent, although
\* Queue() may set the status back to JSTAT_QUEUED after dispatcher and
\* worker have set theirs.
SyncIsSerial ==
    (sync /\ qpc = "send") => /\ JobQueue = <<>> /\ dpc = "job"
                              /\ \A w \in Worker : wpc[w] # "run"
                              /\ Len(ran) = nextJob - 1

\* Every job that Queue() accepted is run by some worker, and without sync
\* mode doScn() gets rid of all its jobs, however often the queue is full and
\* all workers are busy.
EveryJobRuns ==
    /\ \A j \in Job : (Queued >= j) ~> (Len(ran) >= j)
    /\ ~sync => <>(nextJob > NumJobs)

Relay == INSTANCE OrderedRelay WITH
    Element <- Job,
    accepted <- [j \in 1..Queued |-> j],
    delivered <- ran

\* The pool implements the ordered relay: whatever the interleaving of
\* Queue(), dispatcher and workers, the jobs are handed to workers in the
\* order in which Queue() accepted them, none lost and none run twice.
ImplementsRelay == Relay!RelaySafety
=============================================================================
