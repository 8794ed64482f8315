---------------------------- MODULE HmnfdProofs -----------------------------
(***************************************************************************)
(* Proofs about Hmnfd, the subscription API, the pruner and the fan-out    *)
(* together, for any number of instances, workers, requests and batches:   *)
(* the types of the fan-out, that the composition implements Subscriptions,*)
(* that a subscriber that answered is not dropped, and that nothing is     *)
(* sent to a component the SCN says is down.                               *)
(***************************************************************************)
EXTENDS Hmnfd, SubscriptionsProofs, SequenceTheorems

-----------------------------------------------------------------------------
(* Types.  The steps of doScn() change one group of variables, those of    *)
(* the workers another; the pool's queue is between them.                  *)

DoTypes ==
    /\ scnQ \in [Instance -> Seq(Batch)]
    /\ fanPc \in [Instance -> {"idle", "list", "fan"}]
    /\ batch \in [Instance -> Batch]
    /\ pruneCopy \in [Instance -> SUBSET Name]
    /\ fanTodo \in [Instance -> SUBSET (Key \X SubData)]
    /\ arrived \in 0..MaxBatches

QueueTypes ==
    /\ workQ \in [Instance -> Seq(Job)]
    /\ \A i \in Instance : Len(workQ[i]) <= QCap

PoolTypes ==
    /\ wpc \in [Instance -> [Worker ->
                {"idle", "check", "send", "post", "exit", "mark"}]]
    /\ job \in [Instance -> [Worker -> Job \cup {NoJob}]]
    /\ retry \in [Instance -> [Worker -> Nat]]
    /\ answered \in [Instance -> [Worker -> BOOLEAN]]
    /\ lowered \in [Instance -> [Worker -> BOOLEAN]]
    /\ retries \in [Instance -> RetryValues]

\* Whoever is busy has a job, which the types alone do not say.
BusyInv == \A i \in Instance, w \in Worker :
               wpc[i][w] # "idle" => job[i][w] \in Job

NfdTypes == TypeOK /\ DoTypes /\ QueueTypes /\ PoolTypes /\ BusyInv

LEMMA TypesTogether == DoTypes /\ QueueTypes /\ PoolTypes <=> FanTypeOK
  BY DEF DoTypes, QueueTypes, PoolTypes, FanTypeOK

LEMMA NoBatchType == NoBatch \in Batch
  BY DEF NoBatch, Batch

\* intersect() only ever picks components of the batch.
LEMMA IntersectPicks ==
  ASSUME NEW nodes, NEW comps
  PROVE  intersect(nodes, comps) \subseteq comps
  BY DEF intersect

LEMMA FanTypesInit ==
  ASSUME NfdInit
  PROVE  NfdTypes
<1>1. TypeOK
  BY TypeInit DEF NfdInit
<1>2. DoTypes
  BY NoBatchType, FanAssumption DEF NfdInit, FanInit, DoTypes
<1>3. QueueTypes
  BY FanAssumption DEF NfdInit, FanInit, QueueTypes
<1>4. PoolTypes
  BY FanAssumption DEF NfdInit, FanInit, PoolTypes
<1>5. BusyInv
  BY DEF NfdInit, FanInit, BusyInv
<1> QED
  BY <1>1, <1>2, <1>3, <1>4, <1>5 DEF NfdTypes

-----------------------------------------------------------------------------
(* The steps of doScn() *)

\* What ScnTake, MarkSubscriber and the other steps do to the store: a
\* MarkDown step of Subscriptions, or nothing.
LEMMA MarkIsMarkDown ==
  ASSUME NEW i \in Instance, NEW X \in SUBSET XName,
         Mark(i, X \X {NoAgent}), downed' = downed \cup X,
         UNCHANGED <<kv, pruning, faults, subVars>>
  PROVE  Next
<1>1. X \in SUBSET Downable /\ MarkDown(i, X)
  BY NfdAssumption DEF MarkDown
<1> QED
  BY <1>1 DEF Next

LEMMA TakeStep ==
  ASSUME NfdTypes, NEW i \in Instance, ScnTake(i), UNCHANGED subVars
  PROVE  [Next]_vars /\ DoTypes'
<1>1. PICK b \in Batch : b = Head(scnQ[i]) /\ Tail(scnQ[i]) \in Seq(Batch)
  <2>1. scnQ[i] \in Seq(Batch) /\ scnQ[i] # <<>>
    BY DEF NfdTypes, DoTypes, ScnTake
  <2> QED
    BY <2>1, HeadTailProperties
<1>2. [Next]_vars
  <2> DEFINE gone == b.comps \cap XName
  <2>1. CASE isStateUnavailable(b)
    <3>1. /\ Mark(i, gone \X {NoAgent}) /\ downed' = downed \cup gone
          /\ UNCHANGED <<kv, pruning, faults>>
      BY <1>1, <2>1 DEF ScnTake
    <3> QED
      BY <3>1, MarkIsMarkDown
  <2>2. CASE ~isStateUnavailable(b)
    <3>1. UNCHANGED storeVars
      BY <1>1, <2>2 DEF ScnTake, storeVars
    <3> QED
      BY <3>1 DEF vars
  <2> QED
    BY <2>1, <2>2
<1>3. TypeOK'
  BY <1>2, TypeStep DEF NfdTypes
<1>4. pruneCopy' \in [Instance -> SUBSET Name]
  <2>1. prunemap'[i] \in SUBSET Name
    BY <1>3 DEF TypeOK
  <2> QED
    BY <2>1 DEF ScnTake, NfdTypes, DoTypes
<1>5. /\ batch' = [batch EXCEPT ![i] = b]
      /\ scnQ' = [scnQ EXCEPT ![i] = Tail(@)]
      /\ fanPc' = [fanPc EXCEPT ![i] = "list"]
      /\ UNCHANGED <<fanTodo, arrived>>
  BY <1>1 DEF ScnTake
<1>6. scnQ' \in [Instance -> Seq(Batch)]
  BY <1>1, <1>5 DEF NfdTypes, DoTypes
<1>7. batch' \in [Instance -> Batch]
  BY <1>5 DEF NfdTypes, DoTypes
<1> QED
  BY <1>2, <1>4, <1>5, <1>6, <1>7 DEF NfdTypes, DoTypes

LEMMA ArriveTypes ==
  ASSUME NfdTypes, NEW i \in Instance, ScnArrives(i)
  PROVE  DoTypes'
<1>1. PICK b \in Batch : scnQ' = [scnQ EXCEPT ![i] = Append(@, b)]
  BY FanAssumption DEF ScnArrives
<1>2. Append(scnQ[i], b) \in Seq(Batch)
  <2>1. scnQ[i] \in Seq(Batch)
    BY DEF NfdTypes, DoTypes
  <2> QED
    BY <2>1, AppendProperties
<1>3. scnQ' \in [Instance -> Seq(Batch)]
  BY <1>1, <1>2 DEF NfdTypes, DoTypes
<1>4. arrived' \in 0..MaxBatches
  BY FanAssumption DEF ScnArrives, NfdTypes, DoTypes
<1> QED
  BY <1>3, <1>4 DEF ScnArrives, NfdTypes, DoTypes

\* The records doScn() picks from what it read.
LEMMA ListTypes ==
  ASSUME NfdTypes, NEW i \in Instance, ScnList(i)
  PROVE  DoTypes'
<1> DEFINE picked == {k \in Stored : /\ attrMatch(batch[i], k)
                                     /\ ~ /\ isStateUnavailable(batch[i])
                                          /\ <<k.xname, NoAgent>> \in pruneCopy[i]}
           found == {<<k, kv[k]>> : k \in picked}
<1>1. found \in SUBSET (Key \X SubData)
  <2>1. \A k \in picked : k \in Key /\ kv[k] # None
    BY DEF Stored
  <2> HIDE DEF picked
  <2>2. \A k \in picked : kv[k] \in SubData
    BY <2>1 DEF NfdTypes, TypeOK
  <2> QED
    BY <2>1, <2>2
<1>2. \/ fanTodo' = [fanTodo EXCEPT ![i] = found]
      \/ fanTodo' = fanTodo
  BY DEF ScnList
<1> HIDE DEF found
<1>3. fanTodo' \in [Instance -> SUBSET (Key \X SubData)]
  BY <1>1, <1>2 DEF NfdTypes, DoTypes
<1>4. fanPc' \in [Instance -> {"idle", "list", "fan"}]
  BY DEF ScnList, NfdTypes, DoTypes
<1> QED
  BY <1>3, <1>4 DEF ScnList, NfdTypes, DoTypes

\* The job doScn() makes of record e.
NewJob(i, e) == [batch |-> batch[i], comps |-> intersect(e[2].nodes, batch[i].comps),
                 xname |-> e[1].xname, url |-> e[2].url, key |-> e[1]]

LEMMA NewJobType ==
  ASSUME NfdTypes, NEW i \in Instance, NEW e \in fanTodo[i]
  PROVE  NewJob(i, e) \in Job
<1>1. e \in Key \X SubData /\ batch[i] \in Batch
  BY DEF NfdTypes, DoTypes
<1>2. intersect(e[2].nodes, batch[i].comps) \in SUBSET Component
  BY <1>1, IntersectPicks DEF Batch
<1>3. e[1] \in Key /\ e[1].xname \in XName /\ e[2].url \in Url
  BY <1>1 DEF Key, SubData
<1> QED
  BY <1>1, <1>2, <1>3 DEF NewJob, Job

\* Either the queue stays as it is, or it gets one more job, for which it had
\* room.
LEMMA QueueStep ==
  ASSUME NfdTypes, NEW i \in Instance, ScnQueue(i)
  PROVE  \E e \in fanTodo[i] :
            /\ fanTodo' = [fanTodo EXCEPT ![i] = @ \ {e}]
            /\ \/ workQ' = workQ
               \/ /\ Len(workQ[i]) < QCap
                  /\ workQ' = [workQ EXCEPT ![i] = Append(@, NewJob(i, e))]
  BY DEF ScnQueue, NewJob

LEMMA QueuedTypes ==
  ASSUME NfdTypes, NEW i \in Instance, ScnQueue(i)
  PROVE  DoTypes' /\ QueueTypes'
<1>1. PICK e \in fanTodo[i] :
            /\ fanTodo' = [fanTodo EXCEPT ![i] = @ \ {e}]
            /\ \/ workQ' = workQ
               \/ /\ Len(workQ[i]) < QCap
                  /\ workQ' = [workQ EXCEPT ![i] = Append(@, NewJob(i, e))]
  BY QueueStep
<1>2. fanTodo' \in [Instance -> SUBSET (Key \X SubData)]
  BY <1>1 DEF NfdTypes, DoTypes
<1>3. DoTypes'
  BY <1>2 DEF ScnQueue, NfdTypes, DoTypes
<1>4. QueueTypes'
  <2>1. CASE workQ' = workQ
    BY <2>1 DEF NfdTypes, QueueTypes
  <2>2. CASE /\ Len(workQ[i]) < QCap
             /\ workQ' = [workQ EXCEPT ![i] = Append(@, NewJob(i, e))]
    <3>1. workQ[i] \in Seq(Job) /\ NewJob(i, e) \in Job
      BY NewJobType DEF NfdTypes, QueueTypes
    <3>2. /\ Append(workQ[i], NewJob(i, e)) \in Seq(Job)
          /\ Len(Append(workQ[i], NewJob(i, e))) = Len(workQ[i]) + 1
          /\ Len(workQ[i]) \in Nat
      BY <3>1, AppendProperties, LenProperties
    <3>3. Len(Append(workQ[i], NewJob(i, e))) <= QCap
      BY <2>2, <3>2, FanAssumption
    <3> QED
      BY <2>2, <3>2, <3>3 DEF NfdTypes, QueueTypes
  <2> QED
    BY <1>1, <2>1, <2>2
<1> QED
  BY <1>3, <1>4

LEMMA DoneTypes ==
  ASSUME NfdTypes, NEW i \in Instance, ScnDone(i)
  PROVE  DoTypes'
  BY NoBatchType DEF ScnDone, NfdTypes, DoTypes

-----------------------------------------------------------------------------
(* The steps of the workers *)

\* What a worker's step changes, apart from the store, the queue and retries.
Worked(i, w, p, j, n, a, l) ==
    /\ wpc' = [wpc EXCEPT ![i][w] = p]
    /\ job' = [job EXCEPT ![i][w] = j]
    /\ retry' = [retry EXCEPT ![i][w] = n]
    /\ answered' = [answered EXCEPT ![i][w] = a]
    /\ lowered' = [lowered EXCEPT ![i][w] = l]

LEMMA WorkedTypes ==
  ASSUME NfdTypes, NEW i \in Instance, NEW w \in Worker,
         NEW p \in {"idle", "check", "send", "post", "exit", "mark"},
         NEW j \in Job \cup {NoJob}, p # "idle" => j \in Job,
         NEW n \in Nat, NEW a \in BOOLEAN, NEW l \in BOOLEAN,
         Worked(i, w, p, j, n, a, l), retries' = retries
  PROVE  PoolTypes' /\ BusyInv'
<1>1. PoolTypes'
  BY DEF NfdTypes, PoolTypes, Worked
<1>2. BusyInv'
  <2> SUFFICES ASSUME NEW k \in Instance, NEW v \in Worker, wpc'[k][v] # "idle"
               PROVE  job'[k][v] \in Job
    BY DEF BusyInv
  <2>1. CASE k = i /\ v = w
    BY <2>1 DEF NfdTypes, PoolTypes, Worked
  <2>2. CASE ~(k = i /\ v = w)
    BY <2>2 DEF NfdTypes, PoolTypes, Worked, BusyInv
  <2> QED
    BY <2>1, <2>2
<1> QED
  BY <1>1, <1>2

\* Every step of a worker but the first and the last ...
SendingStep(i, w) ==
    \/ CheckPruned(i, w) \/ SendStart(i, w) \/ SendGivesUp(i, w)
    \/ SendOk(i, w) \/ SendFails(i, w) \/ SendRefused(i, w) \/ LoopExit(i, w)

\* ... is a Worked step.
LEMMA SendWorked ==
  ASSUME NfdTypes, NEW i \in Instance, NEW w \in Worker, SendingStep(i, w)
  PROVE  /\ UNCHANGED <<storeVars, doVars, workQ, retries>>
         /\ wpc[i][w] # "idle"
         /\ \/ Worked(i, w, "idle", NoJob, 0, FALSE, FALSE)
            \/ \E p \in {"send", "post", "exit", "mark"}, n \in Nat,
                  a \in BOOLEAN, l \in BOOLEAN :
                  Worked(i, w, p, job[i][w], n, a, l)
<1> USE DEF NfdTypes, PoolTypes
<1>0. /\ retry[i][w] \in Nat /\ retry[i][w] + 1 \in Nat
      /\ answered[i][w] \in BOOLEAN /\ lowered[i][w] \in BOOLEAN
  OBVIOUS
<1>a. ASSUME UNCHANGED job PROVE job' = [job EXCEPT ![i][w] = job[i][w]]
  BY <1>a
<1>b. ASSUME UNCHANGED retry PROVE retry' = [retry EXCEPT ![i][w] = retry[i][w]]
  BY <1>b
<1>c. ASSUME UNCHANGED answered
      PROVE  answered' = [answered EXCEPT ![i][w] = answered[i][w]]
  BY <1>c
<1>d. ASSUME UNCHANGED lowered
      PROVE  lowered' = [lowered EXCEPT ![i][w] = lowered[i][w]]
  BY <1>d
<1>1. CASE CheckPruned(i, w)
  BY <1>0, <1>1, <1>a, <1>b, <1>c, <1>d DEF CheckPruned, Retire, Moves, Worked
<1>2. CASE SendOk(i, w)
  BY <1>0, <1>2, <1>a, <1>b, <1>d DEF SendOk, Moves, Worked
<1>3. CASE SendFails(i, w)
  BY <1>0, <1>3, <1>a, <1>c DEF SendFails, Moves, Worked
<1>4. CASE SendRefused(i, w)
  BY <1>0, <1>4, <1>a, <1>b, <1>c, <1>d DEF SendRefused, Moves, Worked
<1>5. CASE SendGivesUp(i, w)
  BY <1>0, <1>5, <1>a, <1>b, <1>c, <1>d DEF SendGivesUp, Moves, Worked
<1>6. CASE LoopExit(i, w)
  BY <1>0, <1>6, <1>a, <1>b, <1>c, <1>d DEF LoopExit, Retire, Moves, Worked
<1>7. CASE SendStart(i, w)
  BY <1>0, <1>7, <1>a, <1>b, <1>c, <1>d DEF SendStart, Moves, Worked
<1> QED
  BY <1>1, <1>2, <1>3, <1>4, <1>5, <1>6, <1>7 DEF SendingStep

LEMMA SendTypes ==
  ASSUME NfdTypes, NEW i \in Instance, NEW w \in Worker, SendingStep(i, w)
  PROVE  PoolTypes' /\ BusyInv'
<1>1. /\ retries' = retries /\ job[i][w] \in Job
      /\ \/ Worked(i, w, "idle", NoJob, 0, FALSE, FALSE)
         \/ \E p \in {"send", "post", "exit", "mark"}, n \in Nat,
               a \in BOOLEAN, l \in BOOLEAN :
               Worked(i, w, p, job[i][w], n, a, l)
  BY SendWorked DEF NfdTypes, BusyInv
<1>2. CASE Worked(i, w, "idle", NoJob, 0, FALSE, FALSE)
  BY <1>1, <1>2, WorkedTypes
<1>3. ASSUME NEW p \in {"send", "post", "exit", "mark"}, NEW n \in Nat,
             NEW a \in BOOLEAN, NEW l \in BOOLEAN,
             Worked(i, w, p, job[i][w], n, a, l)
      PROVE  PoolTypes' /\ BusyInv'
  <2>1. job[i][w] \in Job \cup {NoJob} /\ retries' = retries
    BY <1>1
  <2>2. p \in {"idle", "check", "send", "post", "exit", "mark"}
    BY <1>3
  <2> QED
    BY <1>1, <1>3, <2>1, <2>2, WorkedTypes
<1> QED
  BY <1>1, <1>2, <1>3

LEMMA TakeJobTypes ==
  ASSUME NfdTypes, NEW i \in Instance, NEW w \in Worker, TakeJob(i, w)
  PROVE  QueueTypes' /\ PoolTypes' /\ BusyInv'
<1>1. workQ[i] \in Seq(Job) /\ workQ[i] # <<>> /\ Len(workQ[i]) <= QCap
  BY DEF TakeJob, NfdTypes, QueueTypes
<1>2. /\ Head(workQ[i]) \in Job /\ Tail(workQ[i]) \in Seq(Job)
      /\ Len(Tail(workQ[i])) = Len(workQ[i]) - 1 /\ Len(workQ[i]) \in Nat
  BY <1>1, HeadTailProperties, LenProperties
<1>3. Len(Tail(workQ[i])) <= QCap
  BY <1>1, <1>2, FanAssumption
<1>4. QueueTypes'
  BY <1>2, <1>3 DEF TakeJob, NfdTypes, QueueTypes
<1>5. Worked(i, w, "check", Head(workQ[i]), 1, answered[i][w],
                  lowered[i][w])
  BY DEF TakeJob, Moves, Worked, NfdTypes, PoolTypes
<1>6. /\ retries' = retries
      /\ answered[i][w] \in BOOLEAN /\ lowered[i][w] \in BOOLEAN
  BY DEF TakeJob, NfdTypes, PoolTypes
<1> QED
  BY <1>2, <1>4, <1>5, <1>6, WorkedTypes

LEMMA MarkTypes ==
  ASSUME NfdTypes, NEW i \in Instance, NEW w \in Worker, MarkSubscriber(i, w),
         UNCHANGED subVars
  PROVE  [Next]_vars /\ PoolTypes' /\ BusyInv'
<1>1. job[i][w] \in Job
  BY DEF MarkSubscriber, NfdTypes, BusyInv
<1>2. PICK x \in XName : x = job[i][w].xname
  BY <1>1 DEF Job
<1>3. {<<x, NoAgent>>} = {x} \X {NoAgent}
  OBVIOUS
<1>4. Mark(i, {x} \X {NoAgent}) /\ downed' = downed \cup {x}
        /\ UNCHANGED <<kv, pruning, faults>>
  BY <1>2, <1>3 DEF MarkSubscriber
<1>5. Next
  BY <1>4, MarkIsMarkDown
<1>6. Worked(i, w, "idle", NoJob, 0, FALSE, FALSE) /\ retries' = retries
  BY DEF MarkSubscriber, Retire, Worked
<1> QED
  BY <1>5, <1>6, WorkedTypes

\* Which workers a PATCH of Scn_retries to n cuts short.
CutShort(i, n) ==
    [w \in Worker |-> lowered[i][w] \/ (wpc[i][w] \in {"post", "exit"}
                                          /\ retry[i][w] > n)]

LEMMA PatchRetriesTypes ==
  ASSUME NfdTypes, NEW i \in Instance, PatchRetries(i)
  PROVE  PoolTypes' /\ BusyInv'
<1>1. PICK n \in RetryValues :
        /\ retries' = [retries EXCEPT ![i] = n]
        /\ lowered' = [lowered EXCEPT ![i] = CutShort(i, n)]
  BY DEF PatchRetries, CutShort, NfdTypes, PoolTypes
<1>2. CutShort(i, n) \in [Worker -> BOOLEAN]
  BY DEF CutShort
<1>3. lowered' \in [Instance -> [Worker -> BOOLEAN]]
  BY <1>1, <1>2 DEF NfdTypes, PoolTypes
<1>4. retries' \in [Instance -> RetryValues]
  BY <1>1 DEF NfdTypes, PoolTypes
<1> QED
  BY <1>3, <1>4 DEF PatchRetries, NfdTypes, PoolTypes, BusyInv

LEMMA CrashTypes ==
  ASSUME NfdTypes, NEW i \in Instance, NfdCrash(i)
  PROVE  NfdTypes'
<1> USE DEF NfdTypes, NfdCrash
<1>1. TypeOK'
  BY TypeCrash
<1>2. DoTypes'
  BY NoBatchType DEF FanCrash, DoTypes
<1>3. QueueTypes'
  <2>1. workQ' = [workQ EXCEPT ![i] = <<>>]
    BY DEF FanCrash
  <2>2. <<>> \in Seq(Job) /\ Len(<<>>) <= QCap
    BY FanAssumption
  <2> QED
    BY <2>1, <2>2 DEF QueueTypes
<1>4. PICK n \in RetryValues : retries' = [retries EXCEPT ![i] = n]
  BY DEF FanCrash
<1>5. PoolTypes'
  BY <1>4 DEF FanCrash, PoolTypes
<1>6. BusyInv'
  BY DEF FanCrash, PoolTypes, BusyInv
<1> QED
  BY <1>1, <1>2, <1>3, <1>5, <1>6

-----------------------------------------------------------------------------
(* Types and refinement together: which MarkDown steps the fan-out makes   *)
(* depends on the types, and the store's types on those steps.             *)

\* A step of the fan-out is a step of Subscriptions, or none.
LEMMA FanStepStep ==
  ASSUME NfdTypes, NEW i \in Instance, FanStep(i), UNCHANGED subVars
  PROVE  [Next]_vars /\ NfdTypes'
<1>0. ASSUME UNCHANGED storeVars PROVE UNCHANGED vars
  BY <1>0 DEF vars
<1>1. CASE ScnArrives(i)
  <2>1. DoTypes' /\ UNCHANGED <<storeVars, workQ, poolVars, retries>>
    BY <1>1, ArriveTypes DEF ScnArrives
  <2> QED
    BY <2>1, <1>0, TypeStep DEF NfdTypes, QueueTypes, PoolTypes, BusyInv, poolVars
<1>2. CASE ScnTake(i)
  <2>1. DoTypes' /\ [Next]_vars /\ UNCHANGED <<workQ, poolVars, retries>>
    BY <1>2, TakeStep DEF ScnTake
  <2> QED
    BY <2>1, TypeStep DEF NfdTypes, QueueTypes, PoolTypes, BusyInv, poolVars
<1>3. CASE ScnList(i) \/ ScnDone(i)
  <2>1. DoTypes' /\ UNCHANGED <<storeVars, workQ, poolVars, retries>>
    BY <1>3, ListTypes, DoneTypes DEF ScnList, ScnDone
  <2> QED
    BY <2>1, <1>0, TypeStep DEF NfdTypes, QueueTypes, PoolTypes, BusyInv, poolVars
<1>4. CASE ScnQueue(i)
  <2>1. DoTypes' /\ QueueTypes' /\ UNCHANGED <<storeVars, poolVars, retries>>
    BY <1>4, QueuedTypes DEF ScnQueue
  <2> QED
    BY <2>1, <1>0, TypeStep DEF NfdTypes, PoolTypes, BusyInv, poolVars
<1>5. CASE PatchRetries(i)
  <2>1. PoolTypes' /\ BusyInv' /\ UNCHANGED <<storeVars, doVars, workQ>>
    BY <1>5, PatchRetriesTypes DEF PatchRetries
  <2> QED
    BY <2>1, <1>0, TypeStep DEF NfdTypes, DoTypes, QueueTypes, doVars
<1>6. ASSUME NEW w \in Worker, TakeJob(i, w) PROVE [Next]_vars /\ NfdTypes'
  <2>1. /\ QueueTypes' /\ PoolTypes' /\ BusyInv'
        /\ UNCHANGED <<storeVars, doVars>>
    BY <1>6, TakeJobTypes DEF TakeJob
  <2> QED
    BY <2>1, <1>0, TypeStep DEF NfdTypes, DoTypes, doVars
<1>7. ASSUME NEW w \in Worker, SendingStep(i, w)
      PROVE  [Next]_vars /\ NfdTypes'
  <2>1. /\ PoolTypes' /\ BusyInv' /\ UNCHANGED <<storeVars, doVars, workQ>>
    BY <1>7, SendTypes, SendWorked
  <2> QED
    BY <2>1, <1>0, TypeStep DEF NfdTypes, DoTypes, QueueTypes, doVars
<1>8. ASSUME NEW w \in Worker, MarkSubscriber(i, w)
      PROVE  [Next]_vars /\ NfdTypes'
  <2>1. /\ [Next]_vars /\ PoolTypes' /\ BusyInv' /\ UNCHANGED <<doVars, workQ>>
    BY <1>8, MarkTypes DEF MarkSubscriber
  <2> QED
    BY <2>1, TypeStep DEF NfdTypes, DoTypes, QueueTypes, doVars
<1> QED
  BY <1>1, <1>2, <1>3, <1>4, <1>5, <1>6, <1>7, <1>8
  DEF FanStep, doScn, JobSCNSend, SendingStep

LEMMA NfdTypesStep ==
  ASSUME NfdTypes, [NfdNext]_nfdVars
  PROVE  NfdTypes'
<1>1. CASE ApiStep /\ UNCHANGED fanVars
  <2>1. TypeOK'
    BY <1>1, TypeStep DEF ApiStep, Next, NfdTypes
  <2> QED
    BY <1>1, <2>1 DEF NfdTypes, DoTypes, QueueTypes, PoolTypes, BusyInv, fanVars,
                      doVars, poolVars
<1>2. ASSUME NEW i \in Instance, FanStep(i), UNCHANGED subVars PROVE NfdTypes'
  BY <1>2, FanStepStep
<1>3. ASSUME NEW i \in Instance, NfdCrash(i) PROVE NfdTypes'
  BY <1>3, CrashTypes
<1>4. CASE UNCHANGED nfdVars
  <2>1. UNCHANGED vars /\ UNCHANGED fanVars
    BY <1>4 DEF nfdVars, vars
  <2>2. TypeOK'
    BY <2>1, TypeStep DEF NfdTypes
  <2> QED
    BY <2>1, <2>2 DEF NfdTypes, DoTypes, QueueTypes, PoolTypes, BusyInv, fanVars,
                      doVars, poolVars
<1> QED
  BY <1>1, <1>2, <1>3, <1>4, SubAssumption DEF NfdNext, NfdPanic

LEMMA NfdTypesHold == NfdSafety => []NfdTypes
<1>1. NfdInit => NfdTypes
  BY FanTypesInit
<1>2. NfdTypes /\ [NfdNext]_nfdVars => NfdTypes'
  BY NfdTypesStep
<1> QED
  BY <1>1, <1>2, PTL DEF NfdSafety

\* The locals of doScn() and of the workers keep their types, and the queue
\* between them its capacity, whatever the API, the pruner and crashes do to
\* the store meanwhile.
THEOREM FanTypesCorrect == NfdSafety => []FanTypeOK
<1>1. NfdTypes => FanTypeOK
  BY TypesTogether DEF NfdTypes
<1> QED
  BY <1>1, NfdTypesHold, PTL

\* Towards the subscription records the whole service behaves as the module
\* Subscriptions says, of which AckedPostStands and PatchedStays are proved:
\* whatever doScn() and the workers do is one of its MarkDown steps.  Since
\* handleSCNs() may panic, every instance must be one that may crash.
THEOREM NfdImplements ==
  ASSUME MayCrash = Instance
  PROVE  NfdSafety => ImplementsSubscriptions
<1>1. NfdInit => Init
  BY DEF NfdInit
<1>2. NfdTypes /\ [NfdNext]_nfdVars => [Next]_vars
  <2> SUFFICES ASSUME NfdTypes, [NfdNext]_nfdVars PROVE [Next]_vars
    OBVIOUS
  <2>1. CASE ApiStep
    BY <2>1 DEF ApiStep, Next
  <2>2. ASSUME NEW i \in Instance, FanStep(i), UNCHANGED subVars
        PROVE  [Next]_vars
    BY <2>2, FanStepStep
  <2>3. ASSUME NEW i \in Instance, NfdCrash(i) PROVE Next
    BY <2>3 DEF NfdCrash, Next
  <2>4. CASE UNCHANGED nfdVars
    BY <2>4 DEF nfdVars, vars
  <2> QED
    BY <2>1, <2>2, <2>3, <2>4 DEF NfdNext, NfdPanic
<1> QED
  BY <1>1, <1>2, NfdTypesHold, PTL
  DEF NfdSafety, SafetySpec, ImplementsSubscriptions

\* What Subscriptions promises therefore holds next to the fan-out: a POST
\* that was answered ok stands, and PATCHes replace.
THEOREM NfdKeepsSubscriptions ==
  ASSUME MayCrash = Instance
  PROVE  NfdSafety => [](AckedPostStands /\ PatchedStays)
  BY NfdImplements, AckedPostsStand, PatchesReplace, PTL
  DEF ImplementsSubscriptions

-----------------------------------------------------------------------------
(* A subscriber that answered is not dropped                               *)

\* For a worker at p in round n, its histories a and l, and Scn_retries m: as
\* long as Scn_retries was not set below the round, the round is within it from
\* the loop's test to the check after the loop.
AnswerOk(p, n, a, l, m) ==
    /\ a => p \in {"exit", "mark"}
    /\ p = "post" \/ (p = "exit" /\ a) => n <= m \/ l
    /\ p = "mark" /\ a => l

AnswerInv == \A i \in Instance, w \in Worker :
    AnswerOk(wpc[i][w], retry[i][w], answered[i][w], lowered[i][w], retries[i])

\* The other workers are left alone.
LEMMA WorkedAnswer ==
  ASSUME NfdTypes, AnswerInv, NEW i \in Instance, NEW w \in Worker,
         NEW p, NEW j, NEW n, NEW a, NEW l,
         Worked(i, w, p, j, n, a, l), retries' = retries,
         AnswerOk(p, n, a, l, retries[i])
  PROVE  AnswerInv'
<1> SUFFICES ASSUME NEW k \in Instance, NEW v \in Worker
             PROVE  AnswerOk(wpc'[k][v], retry'[k][v], answered'[k][v],
                             lowered'[k][v], retries'[k])
  BY DEF AnswerInv, AnswerOk
<1>1. CASE k = i /\ v = w
  <2>1. /\ wpc'[k][v] = p /\ retry'[k][v] = n
        /\ answered'[k][v] = a /\ lowered'[k][v] = l
    BY <1>1 DEF NfdTypes, PoolTypes, Worked
  <2> QED
    BY <1>1, <2>1
<1>2. CASE ~(k = i /\ v = w)
  <2>1. /\ wpc'[k][v] = wpc[k][v] /\ retry'[k][v] = retry[k][v]
        /\ answered'[k][v] = answered[k][v] /\ lowered'[k][v] = lowered[k][v]
    BY <1>2 DEF NfdTypes, PoolTypes, Worked
  <2> QED
    BY <2>1 DEF AnswerInv
<1> QED
  BY <1>1, <1>2

LEMMA JobAnswer ==
  ASSUME NfdTypes, AnswerInv, NEW i \in Instance, NEW w \in Worker,
         JobSCNSend(i, w)
  PROVE  AnswerInv'
<1> DEFINE p == wpc[i][w]
           j == job[i][w]
           r == retry[i][w]
           a == answered[i][w]
           l == lowered[i][w]
           m == retries[i]
<1>0. r \in Nat /\ m \in Nat
  BY FanAssumption DEF NfdTypes, PoolTypes
<1>a. AnswerOk(p, r, a, l, m)
  BY DEF AnswerInv
<1>b. p \notin {"exit", "mark"} => ~a
  BY <1>a DEF AnswerOk
<1>c. retries' = retries
  BY DEF JobSCNSend, TakeJob, CheckPruned, SendStart, SendGivesUp, SendOk,
         SendFails, SendRefused, LoopExit, MarkSubscriber
<1>1. CASE TakeJob(i, w)
  <2>1. Worked(i, w, "check", Head(workQ[i]), 1, a, l) /\ ~a
    BY <1>1, <1>b DEF TakeJob, Moves, Worked, NfdTypes, PoolTypes
  <2> QED
    BY <2>1, <1>c, WorkedAnswer DEF AnswerOk
<1>2. CASE Retire(i, w)
  <2>1. Worked(i, w, "idle", NoJob, 0, FALSE, FALSE)
    BY <1>2 DEF Retire, Worked
  <2> QED
    BY <2>1, <1>c, WorkedAnswer DEF AnswerOk
<1>3. CASE (CheckPruned(i, w) /\ ~Retire(i, w)) \/ SendRefused(i, w)
  <2>1. ~a /\ \E q \in {"send", "mark"} : Worked(i, w, q, j, r, a, l)
    BY <1>3, <1>b
    DEF CheckPruned, SendRefused, Moves, Worked, NfdTypes, PoolTypes
  <2> QED
    BY <2>1, <1>c, WorkedAnswer DEF AnswerOk
<1>4. CASE SendStart(i, w)
  <2>1. Worked(i, w, "post", j, r, a, l) /\ ~a /\ r <= m
    BY <1>4, <1>b DEF SendStart, Moves, Worked, NfdTypes, PoolTypes
  <2> QED
    BY <2>1, <1>c, WorkedAnswer DEF AnswerOk
<1>5. CASE SendGivesUp(i, w)
  <2>1. Worked(i, w, "exit", j, r, a, l) /\ ~a
    BY <1>5, <1>b DEF SendGivesUp, Moves, Worked, NfdTypes, PoolTypes
  <2> QED
    BY <2>1, <1>c, WorkedAnswer DEF AnswerOk
<1>6. CASE SendOk(i, w)
  <2>1. Worked(i, w, "exit", j, r, TRUE, l) /\ p = "post"
    BY <1>6 DEF SendOk, Moves, Worked, NfdTypes, PoolTypes
  <2>2. AnswerOk("exit", r, TRUE, l, m)
    BY <2>1, <1>a DEF AnswerOk
  <2> QED
    BY <2>1, <2>2, <1>c, WorkedAnswer
<1>7. CASE SendFails(i, w)
  <2>1. Worked(i, w, "send", j, r + 1, a, FALSE) /\ ~a
    BY <1>7, <1>b DEF SendFails, Moves, Worked, NfdTypes, PoolTypes
  <2>2. AnswerOk("send", r + 1, a, FALSE, m)
    BY <2>1 DEF AnswerOk
  <2> QED
    BY <2>1, <2>2, <1>c, WorkedAnswer
<1>8. CASE LoopExit(i, w) /\ ~Retire(i, w)
  <2>1. Worked(i, w, "mark", j, r, a, l) /\ p = "exit" /\ r > m
    BY <1>8 DEF LoopExit, Moves, Worked, NfdTypes, PoolTypes
  <2>2. ~(r <= m)
    BY <1>0, <2>1
  <2>3. AnswerOk("mark", r, a, l, m)
    BY <2>1, <2>2, <1>a DEF AnswerOk
  <2> QED
    BY <2>1, <2>3, <1>c, WorkedAnswer
<1>9. MarkSubscriber(i, w) => Retire(i, w)
  BY DEF MarkSubscriber
<1> QED
  BY <1>1, <1>2, <1>3, <1>4, <1>5, <1>6, <1>7, <1>8, <1>9 DEF JobSCNSend

LEMMA PatchAnswer ==
  ASSUME NfdTypes, AnswerInv, NEW i \in Instance, PatchRetries(i)
  PROVE  AnswerInv'
<1> SUFFICES ASSUME NEW k \in Instance, NEW v \in Worker
             PROVE  AnswerOk(wpc'[k][v], retry'[k][v], answered'[k][v],
                             lowered'[k][v], retries'[k])
  BY DEF AnswerInv, AnswerOk
<1>0. AnswerOk(wpc[k][v], retry[k][v], answered[k][v], lowered[k][v], retries[k])
  BY DEF AnswerInv
<1>1. PICK n \in RetryValues :
        /\ retries' = [retries EXCEPT ![i] = n]
        /\ lowered' = [lowered EXCEPT ![i] = CutShort(i, n)]
  BY DEF PatchRetries, CutShort, NfdTypes, PoolTypes
<1>2. wpc' = wpc /\ retry' = retry /\ answered' = answered
  BY DEF PatchRetries
<1>3. CASE k = i
  <2>1. /\ lowered'[k][v] = (lowered[k][v] \/ (wpc[k][v] \in {"post", "exit"}
                                                /\ retry[k][v] > n))
        /\ retries'[k] = n
    BY <1>1, <1>3 DEF CutShort, NfdTypes, PoolTypes
  <2>2. retry[k][v] \in Nat /\ n \in Nat
    BY FanAssumption DEF NfdTypes, PoolTypes
  <2>3. retry[k][v] <= n \/ retry[k][v] > n
    BY <2>2
  <2> QED
    BY <1>0, <1>2, <2>1, <2>3 DEF AnswerOk
<1>4. CASE k # i
  <2>1. lowered'[k][v] = lowered[k][v] /\ retries'[k] = retries[k]
    BY <1>1, <1>4 DEF NfdTypes, PoolTypes
  <2> QED
    BY <1>0, <1>2, <2>1
<1> QED
  BY <1>3, <1>4

LEMMA CrashAnswer ==
  ASSUME NfdTypes, AnswerInv, NEW i \in Instance, FanCrash(i)
  PROVE  AnswerInv'
<1> SUFFICES ASSUME NEW k \in Instance, NEW v \in Worker
             PROVE  AnswerOk(wpc'[k][v], retry'[k][v], answered'[k][v],
                             lowered'[k][v], retries'[k])
  BY DEF AnswerInv, AnswerOk
<1>1. CASE k = i
  <2>1. wpc'[k][v] = "idle" /\ answered'[k][v] = FALSE
    BY <1>1 DEF FanCrash, NfdTypes, PoolTypes
  <2> QED
    BY <2>1 DEF AnswerOk
<1>2. CASE k # i
  <2>1. /\ wpc'[k][v] = wpc[k][v] /\ retry'[k][v] = retry[k][v]
        /\ answered'[k][v] = answered[k][v] /\ lowered'[k][v] = lowered[k][v]
    BY <1>2 DEF FanCrash, NfdTypes, PoolTypes
  <2>2. retries'[k] = retries[k]
    BY <1>2 DEF FanCrash, NfdTypes, PoolTypes
  <2> QED
    BY <2>1, <2>2 DEF AnswerInv
<1> QED
  BY <1>1, <1>2

LEMMA AnswerStep ==
  ASSUME NfdTypes, AnswerInv, [NfdNext]_nfdVars
  PROVE  AnswerInv'
<1>0. ASSUME UNCHANGED <<poolVars, retries>> PROVE AnswerInv'
  BY <1>0 DEF AnswerInv, AnswerOk, poolVars
<1>1. CASE UNCHANGED fanVars
  BY <1>0, <1>1 DEF fanVars
<1>2. ASSUME NEW i \in Instance, FanStep(i) PROVE AnswerInv'
  <2>1. CASE ScnArrives(i) \/ doScn(i)
    <3>1. UNCHANGED <<poolVars, retries>>
      BY <2>1 DEF ScnArrives, doScn, ScnTake, ScnList, ScnQueue, ScnDone
    <3> QED
      BY <3>1, <1>0
  <2> QED
    BY <1>2, <2>1, PatchAnswer, JobAnswer DEF FanStep
<1>3. ASSUME NEW i \in Instance, NfdCrash(i) PROVE AnswerInv'
  BY <1>3, CrashAnswer DEF NfdCrash
<1> QED
  BY <1>1, <1>2, <1>3, SubAssumption DEF NfdNext, NfdPanic, nfdVars

\* Whatever the subscribers answer and however often Scn_retries is PATCHed
\* under the workers' feet, sendSCNToSubscriber() marks nobody who answered,
\* unless such a PATCH set it below the round of a POST that was in flight, or
\* answered and not yet checked.
THEOREM AnsweredNotDroppedCorrect == NfdSafety => []AnsweredNotDropped
<1>1. NfdInit => AnswerInv
  BY DEF NfdInit, FanInit, AnswerInv, AnswerOk
<1>2. NfdTypes /\ AnswerInv /\ [NfdNext]_nfdVars => AnswerInv'
  BY AnswerStep
<1>3. AnswerInv => AnsweredNotDropped
  BY DEF AnswerInv, AnswerOk, AnsweredNotDropped
<1> QED
  BY <1>1, <1>2, <1>3, NfdTypesHold, PTL DEF NfdSafety

-----------------------------------------------------------------------------
(* Nothing is sent to a component that the SCN says is down                *)

DownJob(j) == isStateUnavailable(j.batch) => j.xname \notin j.batch.comps

\* The copy of the prune map holds every subscriber among the components of
\* the batch, so that none of the records picked with it is one of theirs.
\* The map itself would not do: the pruner may have emptied it meanwhile.
CopyInv ==
    \A i \in Instance : isStateUnavailable(batch[i]) =>
        /\ fanPc[i] = "list" => \A x \in batch[i].comps \cap XName :
                                    <<x, NoAgent>> \in pruneCopy[i]
        /\ fanPc[i] = "fan" => \A e \in fanTodo[i] :
                                    e[1].xname \notin batch[i].comps

QueuedDown == \A i \in Instance : \A n \in 1..Len(workQ[i]) : DownJob(workQ[i][n])

HeldDown == \A i \in Instance, w \in Worker :
                wpc[i][w] # "idle" => DownJob(job[i][w])

DownInv == CopyInv /\ QueuedDown /\ HeldDown

LEMMA TakeCopy ==
  ASSUME NfdTypes, CopyInv, NEW i \in Instance, ScnTake(i)
  PROVE  CopyInv'
<1> SUFFICES ASSUME NEW k \in Instance, isStateUnavailable(batch'[k])
             PROVE  /\ fanPc'[k] = "list" => \A x \in batch'[k].comps \cap XName :
                                                <<x, NoAgent>> \in pruneCopy'[k]
                    /\ fanPc'[k] = "fan" => \A e \in fanTodo'[k] :
                                                e[1].xname \notin batch'[k].comps
  BY DEF CopyInv, isStateUnavailable
<1>0. fanTodo' = fanTodo
  BY DEF ScnTake
<1>1. CASE k = i
  <2> DEFINE b == Head(scnQ[i])
  <2>1. batch'[i] = b /\ fanPc'[i] = "list"
    BY DEF ScnTake, NfdTypes, DoTypes
  <2>2. isStateUnavailable(b)
    BY <1>1, <2>1
  <2>3. /\ prunemap' = [prunemap EXCEPT ![i] = @ \cup ((b.comps \cap XName) \X {NoAgent})]
        /\ pruneCopy' = [pruneCopy EXCEPT ![i] = prunemap'[i]]
    BY <2>2 DEF ScnTake, Mark
  <2> HIDE DEF b
  <2>4. pruneCopy'[i] = prunemap[i] \cup ((b.comps \cap XName) \X {NoAgent})
    BY <2>3 DEF NfdTypes, DoTypes, TypeOK
  <2> QED
    BY <1>1, <2>1, <2>4
<1>2. CASE k # i
  <2>1. batch'[k] = batch[k] /\ fanPc'[k] = fanPc[k] /\ pruneCopy'[k] = pruneCopy[k]
    BY <1>2 DEF ScnTake, NfdTypes, DoTypes
  <2> QED
    BY <1>0, <2>1 DEF CopyInv
<1> QED
  BY <1>1, <1>2

LEMMA ListCopy ==
  ASSUME NfdTypes, CopyInv, NEW i \in Instance, ScnList(i)
  PROVE  CopyInv'
<1>0. UNCHANGED <<batch, pruneCopy>>
  BY DEF ScnList
<1> SUFFICES ASSUME NEW k \in Instance, isStateUnavailable(batch[k])
             PROVE  /\ fanPc'[k] = "list" => \A x \in batch[k].comps \cap XName :
                                                <<x, NoAgent>> \in pruneCopy[k]
                    /\ fanPc'[k] = "fan" => \A e \in fanTodo'[k] :
                                                e[1].xname \notin batch[k].comps
  BY <1>0 DEF CopyInv, isStateUnavailable
<1>1. CASE k = i
  <2>1. CASE fanPc' = [fanPc EXCEPT ![i] = "idle"]
    BY <1>1, <2>1 DEF NfdTypes, DoTypes
  <2>2. CASE /\ fanPc' = [fanPc EXCEPT ![i] = "fan"]
             /\ fanTodo' = [fanTodo EXCEPT ![i] =
                  {<<m, kv[m]>> : m \in {m \in Stored :
                      /\ attrMatch(batch[i], m)
                      /\ ~ /\ isStateUnavailable(batch[i])
                           /\ <<m.xname, NoAgent>> \in pruneCopy[i]}}]
    <3>1. \A x \in batch[i].comps \cap XName : <<x, NoAgent>> \in pruneCopy[i]
      BY <1>1 DEF CopyInv, ScnList
    <3>2. \A e \in fanTodo'[i] : \E m \in Stored :
             e = <<m, kv[m]>> /\ <<m.xname, NoAgent>> \notin pruneCopy[i]
      BY <1>1, <2>2 DEF NfdTypes, DoTypes
    <3>3. \A m \in Stored : m.xname \in XName
      BY DEF Stored, Key
    <3>4. ASSUME NEW e \in fanTodo'[i] PROVE e[1].xname \notin batch[i].comps
      <4>1. PICK m \in Stored :
               e = <<m, kv[m]>> /\ <<m.xname, NoAgent>> \notin pruneCopy[i]
        BY <3>2, <3>4
      <4>2. e[1] = m
        BY <4>1
      <4> QED
        BY <3>1, <3>3, <4>1, <4>2
    <3>5. fanPc'[i] = "fan"
      BY <2>2 DEF NfdTypes, DoTypes
    <3> QED
      BY <1>1, <3>4, <3>5
  <2> QED
    BY <2>1, <2>2 DEF ScnList
<1>2. CASE k # i
  <2>1. fanPc'[k] = fanPc[k] /\ fanTodo'[k] = fanTodo[k]
    BY <1>2 DEF ScnList, NfdTypes, DoTypes
  <2> QED
    BY <2>1 DEF CopyInv
<1> QED
  BY <1>1, <1>2

LEMMA QueueCopy ==
  ASSUME NfdTypes, CopyInv, NEW i \in Instance, ScnQueue(i)
  PROVE  CopyInv'
<1>1. PICK e \in fanTodo[i] : fanTodo' = [fanTodo EXCEPT ![i] = @ \ {e}]
  BY QueueStep
<1>2. \A k \in Instance : fanTodo'[k] \subseteq fanTodo[k]
  BY <1>1 DEF NfdTypes, DoTypes
<1>3. UNCHANGED <<batch, pruneCopy, fanPc>>
  BY DEF ScnQueue
<1> QED
  BY <1>2, <1>3 DEF CopyInv, isStateUnavailable

\* doScn() is idle in instance i: nothing to say about it.
LEMMA IdleCopy ==
  ASSUME NfdTypes, CopyInv, NEW i \in Instance, ScnDone(i) \/ FanCrash(i)
  PROVE  CopyInv'
<1>1. fanPc'[i] = "idle"
  BY DEF ScnDone, FanCrash, NfdTypes, DoTypes
<1>2. \A k \in Instance \ {i} :
        /\ batch'[k] = batch[k] /\ fanPc'[k] = fanPc[k]
        /\ pruneCopy'[k] = pruneCopy[k] /\ fanTodo'[k] = fanTodo[k]
  BY DEF ScnDone, FanCrash, NfdTypes, DoTypes
<1> QED
  BY <1>1, <1>2 DEF CopyInv, isStateUnavailable

LEMMA CopyKept ==
  ASSUME CopyInv, UNCHANGED <<batch, fanPc, pruneCopy, fanTodo>>
  PROVE  CopyInv'
  BY DEF CopyInv, isStateUnavailable

LEMMA QueuedKept ==
  ASSUME QueuedDown, UNCHANGED workQ
  PROVE  QueuedDown'
  BY DEF QueuedDown, DownJob, isStateUnavailable

LEMMA HeldKept ==
  ASSUME HeldDown, UNCHANGED <<wpc, job>>
  PROVE  HeldDown'
  BY DEF HeldDown, DownJob, isStateUnavailable

\* A new job goes to a record that was picked.
LEMMA QueueDown ==
  ASSUME NfdTypes, DownInv, NEW i \in Instance, ScnQueue(i)
  PROVE  QueuedDown'
<1>1. PICK e \in fanTodo[i] :
            \/ workQ' = workQ
            \/ workQ' = [workQ EXCEPT ![i] = Append(@, NewJob(i, e))]
  BY QueueStep
<1>2. CASE workQ' = workQ
  BY <1>2, QueuedKept DEF DownInv
<1>3. CASE workQ' = [workQ EXCEPT ![i] = Append(@, NewJob(i, e))]
  <2>1. fanPc[i] = "fan"
    BY DEF ScnQueue
  <2>2. DownJob(NewJob(i, e))
    BY <2>1 DEF DownJob, NewJob, DownInv, CopyInv
  <2>3. workQ[i] \in Seq(Job) /\ NewJob(i, e) \in Job
    BY NewJobType DEF NfdTypes, QueueTypes
  <2> DEFINE q == Append(workQ[i], NewJob(i, e))
  <2>4. /\ Len(q) = Len(workQ[i]) + 1 /\ Len(workQ[i]) \in Nat
        /\ \A n \in 1..Len(workQ[i]) : q[n] = workQ[i][n]
        /\ q[Len(workQ[i]) + 1] = NewJob(i, e)
    BY <2>3, AppendProperties, LenProperties
  <2>5. workQ'[i] = q /\ \A k \in Instance \ {i} : workQ'[k] = workQ[k]
    BY <1>3 DEF NfdTypes, QueueTypes
  <2> HIDE DEF q
  <2>6. \A n \in 1..Len(q) : DownJob(q[n])
    BY <2>2, <2>4 DEF DownInv, QueuedDown
  <2>7. \A k \in Instance : \A n \in 1..Len(workQ'[k]) : DownJob(workQ'[k][n])
    BY <2>5, <2>6 DEF DownInv, QueuedDown
  <2> QED
    BY <2>7 DEF QueuedDown, DownJob, isStateUnavailable
<1> QED
  BY <1>1, <1>2, <1>3

LEMMA WorkedDown ==
  ASSUME NfdTypes, HeldDown, NEW i \in Instance, NEW w \in Worker,
         NEW p, NEW j, NEW n, NEW a, NEW l, Worked(i, w, p, j, n, a, l),
         p = "idle" \/ DownJob(j)
  PROVE  HeldDown'
<1> SUFFICES ASSUME NEW k \in Instance, NEW v \in Worker, wpc'[k][v] # "idle"
             PROVE  DownJob(job'[k][v])
  BY DEF HeldDown, DownJob, isStateUnavailable
<1>1. CASE k = i /\ v = w
  BY <1>1 DEF NfdTypes, PoolTypes, Worked
<1>2. CASE ~(k = i /\ v = w)
  <2>1. wpc'[k][v] = wpc[k][v] /\ job'[k][v] = job[k][v]
    BY <1>2 DEF NfdTypes, PoolTypes, Worked
  <2> QED
    BY <2>1 DEF HeldDown
<1> QED
  BY <1>1, <1>2

LEMMA TakeJobDown ==
  ASSUME NfdTypes, DownInv, NEW i \in Instance, NEW w \in Worker, TakeJob(i, w)
  PROVE  QueuedDown' /\ HeldDown'
<1>1. workQ[i] \in Seq(Job) /\ workQ[i] # <<>>
  BY DEF TakeJob, NfdTypes, QueueTypes
<1> DEFINE q == Tail(workQ[i])
<1>2. /\ Head(workQ[i]) = workQ[i][1] /\ Len(workQ[i]) \in Nat \ {0}
      /\ Len(q) = Len(workQ[i]) - 1
      /\ \A n \in 1..Len(q) : q[n] = workQ[i][n + 1]
  BY <1>1, HeadTailProperties, LenProperties, EmptySeq
<1>3. workQ'[i] = q /\ \A k \in Instance \ {i} : workQ'[k] = workQ[k]
  BY DEF TakeJob, NfdTypes, QueueTypes
<1> HIDE DEF q
<1>4. \A n \in 1..Len(q) : DownJob(q[n])
  BY <1>2 DEF DownInv, QueuedDown
<1>5. \A k \in Instance : \A n \in 1..Len(workQ'[k]) : DownJob(workQ'[k][n])
  BY <1>3, <1>4 DEF DownInv, QueuedDown
<1>6. DownJob(Head(workQ[i]))
  BY <1>2 DEF DownInv, QueuedDown
<1>7. Worked(i, w, "check", Head(workQ[i]), 1, answered[i][w],
                  lowered[i][w])
  BY DEF TakeJob, Moves, Worked, NfdTypes, PoolTypes
<1>8. HeldDown'
  BY <1>6, <1>7, WorkedDown DEF DownInv
<1> QED
  BY <1>5, <1>8 DEF QueuedDown, DownJob, isStateUnavailable

LEMMA CrashDown ==
  ASSUME NfdTypes, DownInv, NEW i \in Instance, FanCrash(i)
  PROVE  DownInv'
<1>1. CopyInv'
  BY IdleCopy DEF DownInv
<1>2. QueuedDown'
  <2>1. workQ'[i] = <<>> /\ \A k \in Instance \ {i} : workQ'[k] = workQ[k]
    BY DEF FanCrash, NfdTypes, QueueTypes
  <2>2. \A k \in Instance : \A n \in 1..Len(workQ'[k]) : DownJob(workQ'[k][n])
    BY <2>1 DEF DownInv, QueuedDown
  <2> QED
    BY <2>2 DEF QueuedDown, DownJob, isStateUnavailable
<1>3. HeldDown'
  <2>1. \A w \in Worker : wpc'[i][w] = "idle"
    BY DEF FanCrash, NfdTypes, PoolTypes
  <2>2. \A k \in Instance \ {i} : wpc'[k] = wpc[k] /\ job'[k] = job[k]
    BY DEF FanCrash, NfdTypes, PoolTypes
  <2> QED
    BY <2>1, <2>2 DEF DownInv, HeldDown, DownJob, isStateUnavailable
<1> QED
  BY <1>1, <1>2, <1>3 DEF DownInv

LEMMA FanDown ==
  ASSUME NfdTypes, DownInv, NEW i \in Instance, FanStep(i)
  PROVE  DownInv'
<1> USE DEF DownInv
<1>1. CASE ScnArrives(i)
  <2>1. UNCHANGED <<batch, fanPc, pruneCopy, fanTodo, workQ, wpc, job>>
    BY <1>1 DEF ScnArrives, poolVars
  <2> QED
    BY <2>1, CopyKept, QueuedKept, HeldKept
<1>2. CASE ScnTake(i) \/ ScnList(i) \/ ScnDone(i)
  <2>1. UNCHANGED <<workQ, wpc, job>>
    BY <1>2 DEF ScnTake, ScnList, ScnDone, poolVars
  <2> QED
    BY <1>2, <2>1, TakeCopy, ListCopy, IdleCopy, QueuedKept, HeldKept
<1>3. CASE ScnQueue(i)
  <2>1. UNCHANGED <<wpc, job>>
    BY <1>3 DEF ScnQueue, poolVars
  <2> QED
    BY <1>3, <2>1, QueueCopy, QueueDown, HeldKept
<1>4. CASE PatchRetries(i)
  <2>1. UNCHANGED <<batch, fanPc, pruneCopy, fanTodo, workQ, wpc, job>>
    BY <1>4 DEF PatchRetries, doVars
  <2> QED
    BY <2>1, CopyKept, QueuedKept, HeldKept
<1>5. ASSUME NEW w \in Worker, TakeJob(i, w) PROVE DownInv'
  <2>1. UNCHANGED <<batch, fanPc, pruneCopy, fanTodo>>
    BY <1>5 DEF TakeJob, doVars
  <2> QED
    BY <1>5, <2>1, CopyKept, TakeJobDown
<1>6. ASSUME NEW w \in Worker, SendingStep(i, w)
      PROVE  DownInv'
  <2>1. /\ UNCHANGED <<doVars, workQ>> /\ wpc[i][w] # "idle"
        /\ \/ Worked(i, w, "idle", NoJob, 0, FALSE, FALSE)
           \/ \E p \in {"send", "post", "exit", "mark"}, n \in Nat,
                 a \in BOOLEAN, l \in BOOLEAN :
                 Worked(i, w, p, job[i][w], n, a, l)
    BY <1>6, SendWorked
  <2>2. UNCHANGED <<batch, fanPc, pruneCopy, fanTodo>>
    BY <2>1 DEF doVars
  <2>3. DownJob(job[i][w])
    BY <2>1 DEF HeldDown
  <2>4. HeldDown'
    BY <2>1, <2>3, WorkedDown
  <2> QED
    BY <2>1, <2>2, <2>4, CopyKept, QueuedKept
<1>7. ASSUME NEW w \in Worker, MarkSubscriber(i, w) PROVE DownInv'
  <2>1. UNCHANGED <<batch, fanPc, pruneCopy, fanTodo, workQ>>
    BY <1>7 DEF MarkSubscriber, doVars
  <2>2. Worked(i, w, "idle", NoJob, 0, FALSE, FALSE)
    BY <1>7 DEF MarkSubscriber, Retire, Worked
  <2> QED
    BY <2>1, <2>2, CopyKept, QueuedKept, WorkedDown
<1> QED
  BY <1>1, <1>2, <1>3, <1>4, <1>5, <1>6, <1>7 DEF FanStep, doScn, JobSCNSend, SendingStep

LEMMA DownStep ==
  ASSUME NfdTypes, DownInv, [NfdNext]_nfdVars
  PROVE  DownInv'
<1>1. CASE UNCHANGED fanVars
  <2>1. UNCHANGED <<batch, fanPc, pruneCopy, fanTodo, workQ, wpc, job>>
    BY <1>1 DEF fanVars, doVars, poolVars
  <2> QED
    BY <2>1, CopyKept, QueuedKept, HeldKept DEF DownInv
<1>2. ASSUME NEW i \in Instance, NfdCrash(i) PROVE DownInv'
  BY <1>2, CrashDown DEF NfdCrash
<1> QED
  BY <1>1, <1>2, FanDown, SubAssumption DEF NfdNext, NfdPanic, nfdVars

\* "No sense sending anything to a down node", for any interleaving of
\* doScn(), its workers, the pruner that empties the prune map under them,
\* the handlers that store new records, and crashes.
THEOREM NoSendToDownCorrect == NfdSafety => []NoSendToDown
<1>1. NfdInit => DownInv
  BY DEF NfdInit, FanInit, DownInv, CopyInv, QueuedDown, HeldDown
<1>2. NfdTypes /\ DownInv /\ [NfdNext]_nfdVars => DownInv'
  BY DownStep
<1>3. DownInv => NoSendToDown
  BY DEF DownInv, QueuedDown, HeldDown, DownJob, NoSendToDown, Jobs
<1> QED
  BY <1>1, <1>2, <1>3, NfdTypesHold, PTL DEF NfdSafety
=============================================================================
