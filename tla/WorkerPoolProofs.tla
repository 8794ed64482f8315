-------------------------- MODULE WorkerPoolProofs --------------------------
(***************************************************************************)
(* Proofs about WorkerPool, for any number of workers and jobs and any     *)
(* length of the queue.                                                    *)
(***************************************************************************)
EXTENDS WorkerPool, SequenceTheorems, TLAPS

LEMMA JobFacts == NoJob \notin Job /\ NumJobs \in Nat /\ Job \subseteq Nat
  BY PoolAssumption DEF Job, NoJob

-----------------------------------------------------------------------------
(* Types *)

LEMMA TypeInit == Init => TypeOK
  <1> SUFFICES ASSUME Init PROVE TypeOK
    OBVIOUS
  <1>1. JobQueue \in Seq(Job) /\ Pool \in Seq(Worker) /\ ran \in Seq(Job)
          /\ Len(JobQueue) = 0
    BY DEF Init
  <1> QED
    BY <1>1, PoolAssumption DEF Init, TypeOK, JobStatus, NoJob, Job

LEMMA TypeStep ==
  ASSUME TypeOK, [Next]_vars
  PROVE  TypeOK'
<1> USE PoolAssumption, JobFacts DEF TypeOK
<1>1. CASE QueueSend
  <2>1. JobQueue' \in Seq(Job) /\ Len(JobQueue') = Len(JobQueue) + 1
    BY <1>1, AppendProperties DEF QueueSend
  <2> QED
    BY <1>1, <2>1 DEF QueueSend, dispatchVars, workerVars
<1>2. CASE QueueStatus
  <2>1. status' \in [Job -> JobStatus]
    BY <1>2 DEF QueueStatus, JobStatus
  <2> QED
    BY <1>2, <2>1 DEF QueueStatus, dispatchVars, workerVars, Job
<1>3. CASE SyncWait
  BY <1>3 DEF SyncWait, dispatchVars, workerVars, Job
<1>4. CASE TakeJob
  <2>1. Head(JobQueue) \in Job /\ Tail(JobQueue) \in Seq(Job)
          /\ Len(Tail(JobQueue)) = Len(JobQueue) - 1
    BY <1>4, HeadTailProperties DEF TakeJob
  <2> QED
    BY <1>4, <2>1 DEF TakeJob, queueVars, workerVars
<1>5. CASE TakeWorker
  <2>1. Head(Pool) \in Worker /\ Tail(Pool) \in Seq(Worker)
    BY <1>5, HeadTailProperties DEF TakeWorker
  <2> QED
    BY <1>5, <2>1 DEF TakeWorker, queueVars, workerVars
<1>6. CASE SetProcessing
  <2>1. status' \in [Job -> JobStatus]
    BY <1>6 DEF SetProcessing, JobStatus
  <2> QED
    BY <1>6, <2>1 DEF SetProcessing, queueVars, workerVars
<1>7. CASE HandOver
  <2>1. ran' \in Seq(Job)
    BY <1>7, AppendProperties DEF HandOver
  <2> QED
    BY <1>7, <2>1 DEF HandOver, queueVars
<1>8. ASSUME NEW w \in Worker, Announce(w)
      PROVE  TypeOK'
  <2>1. Pool' \in Seq(Worker)
    BY <1>8, AppendProperties DEF Announce
  <2> QED
    BY <1>8, <2>1 DEF Announce, queueVars, dispatchVars
<1>9. ASSUME NEW w \in Worker, Complete(w)
      PROVE  TypeOK'
  <2>1. status' \in [Job -> JobStatus]
    BY <1>9 DEF Complete, JobStatus
  <2> QED
    BY <1>9, <2>1 DEF Complete, queueVars, dispatchVars
<1>10. CASE UNCHANGED vars
  BY <1>10 DEF vars, queueVars, dispatchVars, workerVars
<1> QED
  BY <1>1, <1>2, <1>3, <1>4, <1>5, <1>6, <1>7, <1>8, <1>9, <1>10
     DEF Next, Queuer, Dispatcher

\* The types of the pool's channels and of its goroutines' locals, and the
\* capacity of JobQueue.
THEOREM TypeCorrect == SafetySpec => []TypeOK
<1> QED
  BY TypeInit, TypeStep, PTL DEF SafetySpec

-----------------------------------------------------------------------------
(* Who is on the channel Pool *)

LEMMA OfferedInit == Init => OnlyListenersOffered
  BY PoolAssumption DEF Init, OnlyListenersOffered

LEMMA OfferedStep ==
  ASSUME TypeOK, OnlyListenersOffered, [Next]_vars
  PROVE  OnlyListenersOffered'
<1> USE PoolAssumption DEF OnlyListenersOffered
<1>a. Pool \in Seq(Worker) /\ Len(Pool) \in Nat
        /\ \A n \in 1..Len(Pool) : Pool[n] \in Worker
  BY DEF TypeOK
<1>b. wpc \in [Worker -> {"announce", "idle", "run"}]
  BY DEF TypeOK
<1>1. CASE Queuer \/ TakeJob \/ SetProcessing \/ UNCHANGED vars
  <2>1. UNCHANGED <<Pool, wpc, dWorker>>
    BY <1>1 DEF Queuer, QueueSend, QueueStatus, SyncWait, TakeJob,
                SetProcessing, vars, dispatchVars, workerVars
  <2> QED
    BY <2>1
<1>2. CASE TakeWorker
  <2>1. /\ Pool # <<>> /\ dWorker' = Head(Pool) /\ Pool' = Tail(Pool)
        /\ wpc' = wpc /\ dWorker \notin Worker
    BY <1>2 DEF TakeWorker, TypeOK, workerVars
  <2>2. /\ Len(Pool) >= 1 /\ Head(Pool) = Pool[1]
        /\ Len(Pool') = Len(Pool) - 1
        /\ \A n \in 1..Len(Pool') : Pool'[n] = Pool[n + 1]
    BY <2>1, <1>a, HeadTailProperties
  <2>3. \A n \in 1..Len(Pool') : n + 1 \in 1..Len(Pool) /\ n + 1 # 1
    BY <2>2, <1>a
  <2>4. \A n \in 1..Len(Pool') : wpc'[Pool'[n]] = "idle" /\ Pool'[n] # dWorker'
    BY <2>1, <2>2, <2>3, <1>a
  <2>5. \A m, n \in 1..Len(Pool') : Pool'[m] = Pool'[n] => m = n
    BY <2>2, <2>3, <1>a
  <2>6. wpc'[dWorker'] = "idle"
    BY <2>1, <2>2, <1>a
  <2>7. ASSUME NEW w \in Worker, wpc'[w] = "idle"
        PROVE  w = dWorker' \/ \E n \in 1..Len(Pool') : Pool'[n] = w
    <3>1. PICK n \in 1..Len(Pool) : Pool[n] = w
      BY <2>7, <2>1
    <3>2. CASE n = 1
      BY <3>1, <3>2, <2>1, <2>2
    <3>3. CASE n # 1
      <4>1. n - 1 \in 1..Len(Pool') /\ (n - 1) + 1 = n
        BY <3>3, <2>2, <1>a
      <4> QED
        BY <4>1, <3>1, <2>2
    <3> QED
      BY <3>2, <3>3
  <2> QED
    BY <2>4, <2>5, <2>6, <2>7
<1>3. CASE HandOver
  <2>1. /\ dWorker \in Worker /\ dWorker' = NoWorker /\ Pool' = Pool
        /\ wpc' = [wpc EXCEPT ![dWorker] = "run"]
    BY <1>3 DEF HandOver, TypeOK
  <2>2. \A w \in Worker : w # dWorker => wpc'[w] = wpc[w]
    BY <2>1, <1>b
  <2>3. wpc'[dWorker] = "run"
    BY <2>1, <1>b
  <2>4. \A n \in 1..Len(Pool) : Pool[n] # NoWorker
    BY <1>a
  <2> QED
    BY <2>1, <2>2, <2>3, <2>4, <1>a
<1>4. ASSUME NEW w \in Worker, Announce(w)
      PROVE  OnlyListenersOffered'
  <2>1. /\ wpc[w] = "announce" /\ wpc' = [wpc EXCEPT ![w] = "idle"]
        /\ Pool' = Append(Pool, w) /\ dWorker' = dWorker
    BY <1>4 DEF Announce, dispatchVars
  <2>2. /\ Len(Pool') = Len(Pool) + 1
        /\ \A n \in 1..Len(Pool) : Pool'[n] = Pool[n]
        /\ Pool'[Len(Pool) + 1] = w
    BY <2>1, <1>a, AppendProperties
  <2>3. wpc'[w] = "idle" /\ \A v \in Worker : v # w => wpc'[v] = wpc[v]
    BY <2>1, <1>b
  <2>4. dWorker # w /\ \A n \in 1..Len(Pool) : Pool[n] # w
    BY <2>1
  <2>5. \A n \in 1..Len(Pool') : n \in 1..Len(Pool) \/ n = Len(Pool) + 1
    BY <2>2, <1>a
  <2>6. \A n \in 1..Len(Pool') : wpc'[Pool'[n]] = "idle" /\ Pool'[n] # dWorker'
    BY <2>1, <2>2, <2>3, <2>4, <2>5, <1>a
  <2>7. \A m, n \in 1..Len(Pool') : Pool'[m] = Pool'[n] => m = n
    BY <2>2, <2>4, <2>5, <1>a
  <2>8. dWorker' \in Worker => wpc'[dWorker'] = "idle"
    BY <2>1, <2>3, <2>4
  <2>9. ASSUME NEW v \in Worker, wpc'[v] = "idle"
        PROVE  v = dWorker' \/ \E n \in 1..Len(Pool') : Pool'[n] = v
    <3>1. Len(Pool) + 1 \in 1..Len(Pool') /\ 1..Len(Pool) \subseteq 1..Len(Pool')
      BY <2>2, <1>a
    <3> QED
      BY <3>1, <2>9, <2>1, <2>2, <2>3
  <2> QED
    BY <2>6, <2>7, <2>8, <2>9
<1>5. ASSUME NEW w \in Worker, Complete(w)
      PROVE  OnlyListenersOffered'
  <2>1. /\ wpc[w] = "run" /\ wpc' = [wpc EXCEPT ![w] = "announce"]
        /\ Pool' = Pool /\ dWorker' = dWorker
    BY <1>5 DEF Complete, dispatchVars
  <2>2. wpc'[w] = "announce" /\ \A v \in Worker : v # w => wpc'[v] = wpc[v]
    BY <2>1, <1>b
  <2>3. dWorker # w /\ \A n \in 1..Len(Pool) : Pool[n] # w
    BY <2>1
  <2> QED
    BY <2>1, <2>2, <2>3, <1>a
<1> QED
  BY <1>1, <1>2, <1>3, <1>4, <1>5 DEF Next, Dispatcher

\* The dispatcher chooses only workers that listen on their channel, so it
\* never waits for the send of another job to end.
THEOREM DispatcherNeverStuck == SafetySpec => []OnlyListenersOffered
<1>1. Init => TypeOK /\ OnlyListenersOffered
  BY TypeInit, OfferedInit
<1>2. TypeOK /\ OnlyListenersOffered /\ [Next]_vars
        => (TypeOK /\ OnlyListenersOffered)'
  BY TypeStep, OfferedStep
<1> QED
  BY <1>1, <1>2, PTL DEF SafetySpec

-----------------------------------------------------------------------------
(* Sync mode *)

NobodyRuns == \A w \in Worker : wpc[w] # "run"

\* Where the one job under way is: on JobQueue, with the dispatcher, with a
\* worker, or finished.
InQueue == /\ Len(JobQueue) = 1 /\ JobQueue[1] = nextJob
           /\ dpc = "job" /\ NobodyRuns /\ Len(ran) = nextJob - 1
InHand == /\ JobQueue = <<>> /\ dpc # "job" /\ dJob = nextJob
          /\ NobodyRuns /\ Len(ran) = nextJob - 1
Running == /\ JobQueue = <<>> /\ dpc = "job" /\ Len(ran) = nextJob
           /\ \E w \in Worker : /\ wpc[w] = "run" /\ wJob[w] = nextJob
                                /\ \A v \in Worker : wpc[v] = "run" => v = w
Finished == /\ JobQueue = <<>> /\ dpc = "job" /\ NobodyRuns
            /\ Len(ran) = nextJob

\* Jobs that Queue() has not seen have their first status, so a COMPLETE that
\* doScn() meets is that of the job it waits for.
Fresh == \A j \in Job : (j > nextJob \/ (j = nextJob /\ qpc = "send"))
                           => status[j] = "DEFAULT"

SyncInv == sync =>
    /\ Fresh
    /\ qpc = "send" => /\ JobQueue = <<>> /\ dpc = "job" /\ NobodyRuns
                       /\ Len(ran) = nextJob - 1
    /\ qpc # "send" => /\ InQueue \/ InHand \/ Running \/ Finished
                       /\ status[nextJob] = "COMPLETE" => Finished

LEMMA SyncInit == Init => SyncInv
  <1> SUFFICES ASSUME Init PROVE SyncInv
    OBVIOUS
  <1>1. Len(ran) = 0 /\ nextJob - 1 = 0
    BY DEF Init
  <1> QED
    BY <1>1 DEF Init, SyncInv, Fresh, NobodyRuns

LEMMA SyncStep ==
  ASSUME TypeOK, SyncInv, [Next]_vars
  PROVE  SyncInv'
<1> USE PoolAssumption, JobFacts
<1>a. /\ nextJob \in Nat /\ (qpc # "send" => nextJob \in Job)
      /\ JobQueue \in Seq(Job) /\ Len(ran) \in Nat
      /\ status \in [Job -> JobStatus]
      /\ wpc \in [Worker -> {"announce", "idle", "run"}]
      /\ wJob \in [Worker -> Job \cup {NoJob}]
  BY DEF TypeOK
<1>b. sync' = sync
  BY DEF Next, vars, Queuer, Dispatcher, QueueSend, QueueStatus, SyncWait,
         TakeJob, TakeWorker, SetProcessing, HandOver, Announce, Complete
<1> SUFFICES ASSUME sync
             PROVE  SyncInv'
  BY <1>b DEF SyncInv
<1>1. CASE QueueSend
  <2>1. /\ qpc = "send" /\ qpc' = "status" /\ nextJob \in Job
        /\ JobQueue' = Append(JobQueue, nextJob)
        /\ UNCHANGED <<nextJob, dpc, wpc, status, ran>>
    BY <1>1 DEF QueueSend, dispatchVars, workerVars
  <2>2. JobQueue = <<>> /\ dpc = "job" /\ NobodyRuns /\ Len(ran) = nextJob - 1
          /\ Fresh
    BY <2>1 DEF SyncInv
  <2>3. Len(JobQueue') = 1 /\ JobQueue'[1] = nextJob
    BY <2>1, <2>2
  <2>4. status'[nextJob] = "DEFAULT"
    BY <2>1, <2>2 DEF Fresh
  <2>5. InQueue'
    BY <2>1, <2>2, <2>3 DEF InQueue, NobodyRuns
  <2>6. Fresh'
    BY <2>1, <2>2 DEF Fresh
  <2> QED
    BY <2>1, <2>4, <2>5, <2>6 DEF SyncInv
<1>2. CASE QueueStatus
  <2>1. /\ qpc = "status" /\ qpc' = "wait" /\ nextJob' = nextJob
        /\ status' = [status EXCEPT ![nextJob] = "QUEUED"]
        /\ UNCHANGED <<JobQueue, dpc, dJob, wpc, wJob, ran>>
    BY <1>2 DEF QueueStatus, dispatchVars, workerVars
  <2>2. Fresh /\ (InQueue \/ InHand \/ Running \/ Finished)
    BY <2>1 DEF SyncInv
  <2>3. status'[nextJob] = "QUEUED"
    BY <2>1, <1>a
  <2>4. Fresh'
    BY <2>1, <2>2, <1>a DEF Fresh
  <2>5. (InQueue \/ InHand \/ Running \/ Finished)'
    BY <2>1, <2>2 DEF InQueue, InHand, Running, Finished, NobodyRuns
  <2> QED
    BY <2>1, <2>3, <2>4, <2>5 DEF SyncInv
<1>3. CASE SyncWait
  <2>1. /\ qpc = "wait" /\ qpc' = "send" /\ nextJob' = nextJob + 1
        /\ status[nextJob] = "COMPLETE"
        /\ UNCHANGED <<JobQueue, dpc, wpc, status, ran>>
    BY <1>3 DEF SyncWait, dispatchVars, workerVars
  <2>2. Fresh /\ Finished
    BY <2>1 DEF SyncInv
  <2>3. Fresh'
    BY <2>1, <2>2, <1>a DEF Fresh
  <2>4. Len(ran') = nextJob' - 1
    BY <2>1, <2>2, <1>a DEF Finished
  <2> QED
    BY <2>1, <2>2, <2>3, <2>4 DEF SyncInv, Finished, NobodyRuns
<1>4. CASE TakeJob
  <2>1. /\ JobQueue # <<>> /\ dpc = "job" /\ dpc' = "worker"
        /\ dJob' = Head(JobQueue) /\ JobQueue' = Tail(JobQueue)
        /\ UNCHANGED <<qpc, nextJob, wpc, status, ran>>
    BY <1>4 DEF TakeJob, queueVars, workerVars
  <2>2. qpc # "send" /\ InQueue /\ Fresh /\ status[nextJob] # "COMPLETE"
    BY <2>1 DEF SyncInv, InHand, Running, Finished
  <2>3. JobQueue' = <<>> /\ dJob' = nextJob
    <3>1. Len(JobQueue) = 1 /\ JobQueue[1] = nextJob
      BY <2>2 DEF InQueue
    <3>2. Tail(JobQueue) \in Seq(Job) /\ Len(Tail(JobQueue)) = 0
      BY <3>1, <2>1, <1>a, HeadTailProperties
    <3> QED
      BY <3>1, <3>2, <2>1, <1>a, EmptySeq
  <2>4. InHand'
    BY <2>1, <2>2, <2>3 DEF InHand, InQueue, NobodyRuns
  <2> QED
    BY <2>1, <2>2, <2>4 DEF SyncInv, Fresh
<1>5. CASE TakeWorker \/ SetProcessing
  <2>1. /\ dpc # "job" /\ dpc' # "job"
        /\ status' = status \/ status' = [status EXCEPT ![dJob] = "PROCESSING"]
        /\ UNCHANGED <<qpc, nextJob, JobQueue, dJob, wpc, ran>>
    BY <1>5 DEF TakeWorker, SetProcessing, queueVars, workerVars
  <2>2. qpc # "send" /\ InHand /\ Fresh /\ status[nextJob] # "COMPLETE"
    BY <2>1 DEF SyncInv, InQueue, Running, Finished
  <2>3. InHand'
    BY <2>1, <2>2 DEF InHand, NobodyRuns
  <2>4. Fresh' /\ status'[nextJob] # "COMPLETE"
    BY <2>1, <2>2, <1>a DEF Fresh, InHand
  <2> QED
    BY <2>1, <2>2, <2>3, <2>4 DEF SyncInv
<1>6. CASE HandOver
  <2>1. /\ dpc # "job" /\ dpc' = "job" /\ dWorker \in Worker
        /\ wpc' = [wpc EXCEPT ![dWorker] = "run"]
        /\ wJob' = [wJob EXCEPT ![dWorker] = dJob]
        /\ ran' = Append(ran, dJob)
        /\ UNCHANGED <<qpc, nextJob, JobQueue, status>>
    BY <1>6 DEF HandOver, queueVars, TypeOK
  <2>2. qpc # "send" /\ InHand /\ Fresh /\ status[nextJob] # "COMPLETE"
    BY <2>1 DEF SyncInv, InQueue, Running, Finished
  <2>3. Len(ran') = nextJob
    <3>1. Len(ran') = Len(ran) + 1
      BY <2>1 DEF TypeOK
    <3> QED
      BY <3>1, <2>2, <1>a DEF InHand
  <2>4. /\ wpc'[dWorker] = "run" /\ wJob'[dWorker] = nextJob
        /\ \A v \in Worker : wpc'[v] = "run" => v = dWorker
    BY <2>1, <2>2, <1>a DEF InHand, NobodyRuns
  <2>5. Running'
    BY <2>1, <2>2, <2>3, <2>4 DEF Running, InHand
  <2> QED
    BY <2>1, <2>2, <2>5 DEF SyncInv, Fresh
<1>7. ASSUME NEW w \in Worker, Announce(w)
      PROVE  SyncInv'
  <2>1. /\ wpc[w] = "announce" /\ wpc' = [wpc EXCEPT ![w] = "idle"]
        /\ UNCHANGED <<qpc, nextJob, JobQueue, dpc, dJob, wJob, status, ran>>
    BY <1>7 DEF Announce, queueVars, dispatchVars
  <2>2. \A v \in Worker : wpc'[v] = "run" <=> wpc[v] = "run"
    BY <2>1, <1>a
  <2>3. (InQueue => InQueue') /\ (InHand => InHand')
    BY <2>1, <2>2 DEF InQueue, InHand, NobodyRuns
  <2>4. (Running => Running') /\ (Finished => Finished')
    BY <2>1, <2>2 DEF Running, Finished, NobodyRuns
  <2> QED
    BY <2>1, <2>2, <2>3, <2>4 DEF SyncInv, Fresh, NobodyRuns
<1>8. ASSUME NEW w \in Worker, Complete(w)
      PROVE  SyncInv'
  <2>1. /\ wpc[w] = "run" /\ wpc' = [wpc EXCEPT ![w] = "announce"]
        /\ status' = [status EXCEPT ![wJob[w]] = "COMPLETE"]
        /\ UNCHANGED <<qpc, nextJob, JobQueue, dpc, ran>>
    BY <1>8 DEF Complete, queueVars, dispatchVars
  <2>2. qpc # "send" /\ Running /\ Fresh
    BY <2>1 DEF SyncInv, InQueue, InHand, Finished, NobodyRuns
  <2>3. wJob[w] = nextJob /\ \A v \in Worker : wpc[v] = "run" => v = w
    BY <2>1, <2>2 DEF Running
  <2>4. NobodyRuns'
    BY <2>1, <2>3, <1>a DEF NobodyRuns
  <2>5. Finished'
    BY <2>1, <2>2, <2>4 DEF Running, Finished
  <2>6. Fresh'
    BY <2>1, <2>2, <2>3, <1>a DEF Fresh
  <2> QED
    BY <2>1, <2>2, <2>5, <2>6 DEF SyncInv
<1>9. CASE UNCHANGED vars
  BY <1>9 DEF vars, queueVars, dispatchVars, workerVars, SyncInv, Fresh,
              NobodyRuns, InQueue, InHand, Running, Finished
<1> QED
  BY <1>1, <1>2, <1>3, <1>4, <1>5, <1>6, <1>7, <1>8, <1>9
     DEF Next, Queuer, Dispatcher

\* In sync mode doScn() queues a job only when the one before was sent,
\* however late Queue() sets that job's status.
THEOREM SyncSerial == SafetySpec => []SyncIsSerial
<1>1. Init => TypeOK /\ SyncInv
  BY TypeInit, SyncInit
<1>2. TypeOK /\ SyncInv /\ [Next]_vars => (TypeOK /\ SyncInv)'
  BY TypeStep, SyncStep
<1>3. SyncInv => SyncIsSerial
  BY DEF SyncInv, SyncIsSerial, NobodyRuns
<1> QED
  BY <1>1, <1>2, <1>3, PTL DEF SafetySpec

-----------------------------------------------------------------------------
(* The pool as an ordered relay *)

LEMMA PrefixIs ==
  ASSUME NEW T, NEW s \in Seq(T), NEW t \in Seq(T), Len(s) <= Len(t),
         \A n \in 1..Len(s) : s[n] = t[n]
  PROVE  Relay!IsPrefix(s, t)
<1>1. Len(s) \in Nat /\ Len(t) \in Nat
  BY LenProperties
<1>2. SubSeq(s, 1, Len(s)) = SubSeq(t, 1, Len(s))
  BY <1>1
<1> QED
  BY <1>2 DEF Relay!IsPrefix

\* How many jobs have left the queue.
Taken == IF dpc = "job" THEN Len(ran) ELSE Len(ran) + 1

\* The jobs are in one line, in the order of their numbers: those that ran,
\* the one in the dispatcher's hand, those on JobQueue, those still to make.
LineInv ==
    /\ \A n \in 1..Len(ran) : ran[n] = n
    /\ dpc # "job" => dJob = Len(ran) + 1
    /\ \A n \in 1..Len(JobQueue) : JobQueue[n] = Taken + n
    /\ Queued = Taken + Len(JobQueue)

LEMMA LineFacts ==
  ASSUME TypeOK
  PROVE  /\ Len(ran) \in Nat /\ Len(JobQueue) \in Nat
         /\ nextJob \in Nat /\ Queued \in Nat /\ Taken \in Nat
<1>1. Len(ran) \in Nat /\ Len(JobQueue) \in Nat
  BY LenProperties DEF TypeOK
<1>2. nextJob \in 1..(NumJobs + 1)
  BY DEF TypeOK
<1> QED
  BY <1>1, <1>2, PoolAssumption DEF Queued, Taken

\* What each step does to the line; most do nothing.
LEMMA LineStep ==
  ASSUME TypeOK, LineInv, [Next]_vars
  PROVE  /\ LineInv'
         /\ \/ QueueSend /\ Queued' = Queued + 1 /\ Queued' \in Job /\ ran' = ran
            \/ HandOver /\ Queued' = Queued /\ ran' = Append(ran, Len(ran) + 1)
                        /\ Len(ran) < Queued
            \/ Queued' = Queued /\ ran' = ran
<1>a. /\ Len(ran) \in Nat /\ Len(JobQueue) \in Nat
      /\ nextJob \in Nat /\ Queued \in Nat /\ Taken \in Nat
  BY LineFacts
<1>0. ASSUME UNCHANGED <<ran, JobQueue, dJob, Queued, Taken>>,
             dpc # "job" <=> dpc' # "job"
      PROVE  LineInv'
  BY <1>0 DEF LineInv
<1>1. CASE QueueSend
  <2>1. /\ qpc = "send" /\ qpc' = "status" /\ nextJob' = nextJob /\ nextJob \in Job
        /\ JobQueue' = Append(JobQueue, nextJob)
        /\ UNCHANGED <<ran, dpc, dJob>>
    BY <1>1 DEF QueueSend, dispatchVars
  <2>2. Queued' = Queued + 1 /\ Queued' = nextJob
    BY <2>1, <1>a DEF Queued
  <2>3. Taken' = Taken
    BY <2>1 DEF Taken
  <2>4. /\ Len(JobQueue') = Len(JobQueue) + 1
        /\ \A n \in 1..Len(JobQueue) : JobQueue'[n] = JobQueue[n]
        /\ JobQueue'[Len(JobQueue) + 1] = nextJob
    BY <2>1, AppendProperties DEF TypeOK
  <2>5. \A n \in 1..Len(JobQueue') : n \in 1..Len(JobQueue) \/ n = Len(JobQueue) + 1
    BY <2>4, <1>a
  <2>6. Queued = Taken + Len(JobQueue)
    BY DEF LineInv
  <2>7. Taken + (Len(JobQueue) + 1) = nextJob
    BY <2>2, <2>6, <1>a
  <2>8. \A n \in 1..Len(JobQueue') : JobQueue'[n] = Taken' + n
    BY <2>3, <2>4, <2>5, <2>7 DEF LineInv
  <2>9. Queued' = Taken' + Len(JobQueue')
    BY <2>2, <2>3, <2>4, <2>7
  <2>10. LineInv'
    BY <2>1, <2>8, <2>9 DEF LineInv
  <2> QED
    BY <1>1, <2>1, <2>2, <2>10
<1>2. CASE QueueStatus \/ SyncWait
  <2>1. UNCHANGED <<ran, JobQueue, dpc, dJob>> /\ Queued' = Queued
    BY <1>2, <1>a DEF QueueStatus, SyncWait, dispatchVars, Queued
  <2> QED
    BY <2>1, <1>0 DEF Taken
<1>3. CASE TakeJob
  <2>1. /\ dpc = "job" /\ dpc' = "worker" /\ JobQueue # <<>>
        /\ dJob' = Head(JobQueue) /\ JobQueue' = Tail(JobQueue)
        /\ UNCHANGED <<ran, qpc, nextJob>>
    BY <1>3 DEF TakeJob, queueVars
  <2>2. /\ Len(JobQueue) >= 1 /\ Head(JobQueue) = JobQueue[1]
        /\ Len(JobQueue') = Len(JobQueue) - 1
        /\ \A n \in 1..Len(JobQueue') : JobQueue'[n] = JobQueue[n + 1]
    BY <2>1, <1>a, HeadTailProperties DEF TypeOK
  <2>3. Taken = Len(ran) /\ Taken' = Len(ran) + 1 /\ Queued' = Queued
    BY <2>1 DEF Taken, Queued
  <2>4. dJob' = Len(ran) + 1
    BY <2>1, <2>2, <2>3, <1>a DEF LineInv
  <2>5. \A n \in 1..Len(JobQueue') : JobQueue'[n] = Taken' + n
    <3> TAKE n \in 1..Len(JobQueue')
    <3>1. n + 1 \in 1..Len(JobQueue) /\ Taken + (n + 1) = Taken' + n
      BY <2>2, <2>3, <1>a
    <3>2. JobQueue[n + 1] = Taken + (n + 1)
      BY <3>1 DEF LineInv
    <3> QED
      BY <2>2, <3>1, <3>2
  <2>6. Queued' = Taken' + Len(JobQueue')
    <3>1. Queued = Taken + Len(JobQueue)
      BY DEF LineInv
    <3> QED
      BY <2>2, <2>3, <3>1, <1>a
  <2>7. LineInv'
    BY <2>1, <2>4, <2>5, <2>6 DEF LineInv
  <2> QED
    BY <2>1, <2>3, <2>7
<1>4. CASE TakeWorker \/ SetProcessing
  <2>1. UNCHANGED <<ran, JobQueue, qpc, nextJob, dJob>> /\ dpc # "job" /\ dpc' # "job"
    BY <1>4 DEF TakeWorker, SetProcessing, queueVars
  <2> QED
    BY <2>1, <1>0 DEF Taken, Queued
<1>5. CASE HandOver
  <2>1. /\ dpc = "hand" /\ dpc' = "job" /\ ran' = Append(ran, dJob)
        /\ UNCHANGED <<JobQueue, qpc, nextJob>>
    BY <1>5 DEF HandOver, queueVars
  <2>2. dJob = Len(ran) + 1 /\ dJob \in Job
    BY <2>1 DEF LineInv, TypeOK
  <2>3. /\ Len(ran') = Len(ran) + 1 /\ ran'[Len(ran) + 1] = dJob
        /\ \A n \in 1..Len(ran) : ran'[n] = ran[n]
    BY <2>1, <2>2, AppendProperties DEF TypeOK
  <2>4. \A n \in 1..Len(ran') : n \in 1..Len(ran) \/ n = Len(ran) + 1
    BY <2>3, <1>a
  <2>5. Taken' = Taken /\ Taken = Len(ran) + 1 /\ Queued' = Queued
    BY <2>1, <2>3 DEF Taken, Queued
  <2>6. \A n \in 1..Len(ran') : ran'[n] = n
    BY <2>2, <2>3, <2>4 DEF LineInv
  <2>7. LineInv'
    BY <2>1, <2>5, <2>6 DEF LineInv
  <2>8. Len(ran) < Queued
    BY <2>5, <1>a DEF LineInv
  <2> QED
    BY <1>5, <2>1, <2>2, <2>5, <2>7, <2>8
<1>6. ASSUME NEW w \in Worker, Announce(w) \/ Complete(w)
      PROVE  LineInv' /\ Queued' = Queued /\ ran' = ran
  <2>1. UNCHANGED <<ran, JobQueue, qpc, nextJob, dpc, dJob>>
    BY <1>6 DEF Announce, Complete, queueVars, dispatchVars
  <2> QED
    BY <2>1, <1>0 DEF Taken, Queued
<1>7. CASE UNCHANGED vars
  <2>1. UNCHANGED <<ran, JobQueue, qpc, nextJob, dpc, dJob>>
    BY <1>7 DEF vars, queueVars, dispatchVars
  <2> QED
    BY <2>1, <1>0 DEF Taken, Queued
<1> QED
  BY <1>1, <1>2, <1>3, <1>4, <1>5, <1>6, <1>7 DEF Next, Queuer, Dispatcher

Line(n) == [j \in 1..n |-> j]

LEMMA LineIs ==
  ASSUME NEW n \in Nat
  PROVE  /\ Line(n) \in Seq(Nat) /\ Len(Line(n)) = n
         /\ \A j \in 1..n : Line(n)[j] = j
<1>1. Line(n) \in [1..n -> Nat]
  BY DEF Line
<1>2. Line(n) \in Seq(Nat)
  BY <1>1, SeqDef
<1> QED
  BY <1>1, <1>2, LenProperties DEF Line

\* doScn() queues the next job: Accept.
LEMMA AcceptStep ==
  ASSUME TypeOK, Queued' = Queued + 1, Queued' \in Job, ran' = ran
  PROVE  Relay!Accept
<1>1. Queued \in Nat /\ Queued' \in Nat
  BY LineFacts, JobFacts
<1>2. /\ Line(Queued) \in Seq(Nat) /\ Line(Queued') \in Seq(Nat)
      /\ Len(Line(Queued)) = Queued /\ Len(Line(Queued')) = Queued'
      /\ \A n \in 1..Queued : Line(Queued)[n] = n
      /\ \A n \in 1..Queued' : Line(Queued')[n] = n
  BY <1>1, LineIs
<1>3. Relay!IsPrefix(Line(Queued), Line(Queued'))
  <2>1. Queued <= Queued' /\ \A n \in 1..Queued : n \in 1..Queued'
    BY <1>1
  <2> QED
    BY <1>2, <2>1, PrefixIs
<1>4. Line(Queued) # Line(Queued')
  BY <1>1, <1>2
<1>5. Relay!Range(Line(Queued')) \subseteq Job
  <2>1. \A n \in 1..Queued' : n \in Job
    BY <1>1, PoolAssumption DEF Job
  <2> QED
    BY <2>1 DEF Relay!Range, Line
<1> QED
  BY <1>3, <1>4, <1>5 DEF Relay!Accept, Relay!IsStrictPrefix, Line

\* The dispatcher hands the next job to a worker: Deliver.
LEMMA DeliverStep ==
  ASSUME TypeOK, LineInv, LineInv', Queued' = Queued,
         ran' = Append(ran, Len(ran) + 1), Len(ran) < Queued
  PROVE  Relay!Deliver
<1>1. Queued \in Nat /\ Len(ran) \in Nat /\ ran \in Seq(Nat)
  <2>1. ran \in Seq(Job) /\ Job \subseteq Nat
    BY JobFacts DEF TypeOK
  <2>2. ran \in [1..Len(ran) -> Job] /\ Len(ran) \in Nat
    BY <2>1, LenProperties
  <2>3. ran \in [1..Len(ran) -> Nat]
    BY <2>1, <2>2
  <2>4. ran \in Seq(Nat)
    BY <2>2, <2>3, SeqDef
  <2> QED
    BY <2>4, LineFacts
<1>2. /\ ran' \in Seq(Nat) /\ Len(ran') = Len(ran) + 1
      /\ \A n \in 1..Len(ran) : ran'[n] = ran[n]
  BY <1>1, AppendProperties
<1>3. Relay!IsPrefix(ran, ran')
  <2>1. Len(ran) <= Len(ran')
    BY <1>1, <1>2
  <2>2. \A n \in 1..Len(ran) : ran[n] = ran'[n]
    BY <1>2
  <2> QED
    BY <1>1, <1>2, <2>1, <2>2, PrefixIs
<1>4. ran # ran'
  BY <1>1, <1>2
<1>5. /\ Line(Queued) \in Seq(Nat) /\ Len(Line(Queued)) = Queued
      /\ \A n \in 1..Queued : Line(Queued)[n] = n
  BY <1>1, LineIs
<1>6. Len(ran') <= Queued /\ \A n \in 1..Len(ran') : n \in 1..Queued
  BY <1>1, <1>2
<1>7. \A n \in 1..Len(ran') : ran'[n] = Line(Queued)[n]
  BY <1>5, <1>6 DEF LineInv
<1>8. Relay!IsPrefix(ran', Line(Queued))
  BY <1>2, <1>5, <1>6, <1>7, PrefixIs
<1>9. Line(Queued') = Line(Queued)
  OBVIOUS
<1> QED
  BY <1>3, <1>4, <1>8, <1>9 DEF Relay!Deliver, Relay!IsStrictPrefix, Line

\* For any number of workers and any length of the queue, the workers get
\* the jobs in the order of Queue(), each once, none lost.
THEOREM PoolImplementsRelay == SafetySpec => ImplementsRelay
<1>1. Init => TypeOK /\ LineInv
  <2> SUFFICES ASSUME Init PROVE LineInv
    BY TypeInit
  <2>1. Len(ran) = 0 /\ Len(JobQueue) = 0 /\ dpc = "job" /\ Queued = 0
    BY DEF Init, Queued
  <2> QED
    BY <2>1 DEF LineInv, Taken
<1>2. TypeOK /\ LineInv /\ [Next]_vars => (TypeOK /\ LineInv)'
  BY TypeStep, LineStep
<1>3. Init => Relay!RelayInit
  <2> SUFFICES ASSUME Init PROVE Relay!RelayInit
    OBVIOUS
  <2>1. Queued = 0 /\ ran = <<>>
    BY DEF Init, Queued
  <2>2. Line(0) = <<>>
    BY LineIs, EmptySeq
  <2> QED
    BY <2>1, <2>2 DEF Relay!RelayInit, Line
<1>4. TypeOK /\ LineInv /\ [Next]_vars => [Relay!RelayNext]_(Relay!relayVars)
  <2> SUFFICES ASSUME TypeOK, LineInv, [Next]_vars
               PROVE  [Relay!RelayNext]_(Relay!relayVars)
    OBVIOUS
  <2>1. CASE Queued' = Queued + 1 /\ Queued' \in Job /\ ran' = ran
    BY <2>1, AcceptStep DEF Relay!RelayNext
  <2>2. CASE Queued' = Queued /\ ran' = Append(ran, Len(ran) + 1)
               /\ Len(ran) < Queued
    BY <2>2, LineStep, DeliverStep DEF Relay!RelayNext
  <2>3. CASE Queued' = Queued /\ ran' = ran
    BY <2>3 DEF Relay!relayVars
  <2> QED
    BY <2>1, <2>2, <2>3, LineStep
<1> QED
  BY <1>1, <1>2, <1>3, <1>4, PTL
  DEF SafetySpec, ImplementsRelay, Relay!RelaySafety
=============================================================================
