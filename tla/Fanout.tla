------------------------------- MODULE Fanout -------------------------------
(***************************************************************************)
(* The fan-out of SCN batches to subscribers (api.go doScn(), fanout.go    *)
(* sendSCNToSubscriber(), worker_jobs.go).  In each instance one goroutine,*)
(* handleSCNs(), takes a batch, marks its components in the prune map when *)
(* the batch says they are gone, reads all subscriptions and queues a job  *)
(* for every one that matches; the workers of the pool send the SCN with   *)
(* retries and mark a subscriber that refuses or keeps failing.            *)
(*                                                                         *)
(* A batch is its attributes (state, software status, role, sub-role), its *)
(* Enabled flag and its set of components.  Texts are replaced by the      *)
(* relation Occurs.                                                        *)
(***************************************************************************)
EXTENDS SubStore, Sequences

CONSTANTS
    Component,   \* components SCNs are about; subscribers are components too
    NodeComp,    \* those that are nodes
    WcAll,       \* "all" in a subscription's component list
    WcAllNodes,  \* "allnodes"
    Gone,        \* the states Empty, Off and Halt
    Batches,     \* SCN batches that may come out of the batching stage
    Occurs,      \* pairs <<a, t>>: the text of attribute a occurs in that of t
    Worker,      \* the workers of one instance's pool (500 in the code)
    QCap,        \* capacity of the pool's queue (10000 in the code)
    RetryValues, \* values of Scn_retries
    NoJob,       \* an idle worker's job
    MaxBatches   \* bound: batches that arrive

Batch == [attrs : SUBSET Attr, enabled : {"nil", "false", "true"},
          comps : SUBSET Component]

\* key is carried for the properties only: the code's job has no key.
Job == [batch : Batch, comps : SUBSET Component, xname : XName, url : Url,
        key : Key]

ASSUME FanAssumption ==
    /\ NodeComp \subseteq Component /\ XName \subseteq Component
    /\ Gone \subseteq Attr
    /\ Batches \subseteq Batch
    /\ QCap \in Nat \ {0}
    /\ RetryValues \subseteq Nat
    /\ NoJob \notin Job
    /\ Nodes \subseteq Seq(Component \cup {WcAll, WcAllNodes})
    /\ MaxBatches \in Nat

VARIABLES
    scnQ,      \* per instance: batches waiting
    fanPc,     \* per instance: where doScn() is
    batch,     \* per instance: the batch it works on
    pruneCopy, \* per instance: prunemap_copy
    fanTodo,   \* per instance: matching records it has still to queue
    workQ,     \* per instance: the pool's job queue
    wpc,       \* per instance and worker: where the job is
    job,       \* the job itself
    retry,     \* its retry counter
    answered,  \* history: the subscriber answered 200 to this job
    lowered,   \* history: Scn_retries was set below its counter while the
               \* last POST was in flight or after its answer
    retries,   \* per instance: app_params.Scn_retries
    arrived    \* batches that arrived so far

doVars == <<scnQ, fanPc, batch, pruneCopy, fanTodo, arrived>>
poolVars == <<wpc, job, retry, answered, lowered>>
fanVars == <<doVars, workQ, poolVars, retries>>

NoBatch == [attrs |-> {}, enabled |-> "nil", comps |-> {}]

FanInit ==
    /\ scnQ = [i \in Instance |-> <<>>]
    /\ fanPc = [i \in Instance |-> "idle"]
    /\ batch = [i \in Instance |-> NoBatch]
    /\ pruneCopy = [i \in Instance |-> {}]
    /\ fanTodo = [i \in Instance |-> {}]
    /\ workQ = [i \in Instance |-> <<>>]
    /\ wpc = [i \in Instance |-> [w \in Worker |-> "idle"]]
    /\ job = [i \in Instance |-> [w \in Worker |-> NoJob]]
    /\ retry = [i \in Instance |-> [w \in Worker |-> 0]]
    /\ answered = [i \in Instance |-> [w \in Worker |-> FALSE]]
    /\ lowered = [i \in Instance |-> [w \in Worker |-> FALSE]]
    /\ retries \in [Instance -> RetryValues]
    /\ arrived = 0

-----------------------------------------------------------------------------
\* The batch says that its components cannot be reached any more.
isStateUnavailable(b) == b.attrs \cap Gone # {} \/ b.enabled = "false"

\* What the batch is matched by; Enabled counts when present, true or false.
getSCNAttrs(b) == b.attrs \cup (IF b.enabled = "nil" THEN {} ELSE {Enbl})

\* strings.Contains(sub.Key, attr), over the parts of the key
attrMatch(b, k) == \E a \in getSCNAttrs(b) :
                      \E t \in k.attrs \cup {k.xname, k.agent} :
                          <<a, t>> \in Occurs

\* intersect(): a wildcard counts when it is the first entry of the list.
intersect(nodes, comps) ==
    IF nodes[1] = WcAll THEN comps
    ELSE IF nodes[1] = WcAllNodes THEN comps \cap NodeComp
    ELSE comps \cap {nodes[n] : n \in 1..Len(nodes)}

\* A batch comes out of the batching stage (module ScnCache).
ScnArrives(i) ==
    /\ arrived < MaxBatches
    /\ arrived' = arrived + 1
    /\ \E b \in Batches : scnQ' = [scnQ EXCEPT ![i] = Append(@, b)]
    /\ UNCHANGED <<storeVars, fanPc, batch, pruneCopy, fanTodo, workQ,
                   poolVars, retries>>

\* Components a batch declares unavailable go into the prune map, and a copy
\* of the whole map is kept.  (Only names of subscribers matter there.)
ScnTake(i) ==
    /\ fanPc[i] = "idle"
    /\ scnQ[i] # <<>>
    /\ LET b == Head(scnQ[i])
           gone == b.comps \cap XName
       IN /\ batch' = [batch EXCEPT ![i] = b]
          /\ \/ /\ isStateUnavailable(b)
                /\ Mark(i, gone \X {NoAgent})
                /\ downed' = downed \cup gone
                /\ pruneCopy' = [pruneCopy EXCEPT ![i] = prunemap'[i]]
             \/ /\ ~isStateUnavailable(b)
                /\ pruneCopy' = [pruneCopy EXCEPT ![i] = {}]
                /\ UNCHANGED <<prunemap, downed>>
    /\ scnQ' = [scnQ EXCEPT ![i] = Tail(@)]
    /\ fanPc' = [fanPc EXCEPT ![i] = "list"]
    /\ UNCHANGED <<kv, pruning, faults, fanTodo, arrived, workQ, poolVars,
                   retries>>

\* Mutant of ScnList: the prune map itself is asked, not the copy.
ScnListNoCopy(i) ==
    /\ fanPc[i] = "list"
    /\ fanTodo' = [fanTodo EXCEPT ![i] =
          {<<k, kv[k]>> : k \in {k \in Stored :
              /\ attrMatch(batch[i], k)
              /\ <<k.xname, NoAgent>> \notin prunemap[i]}}]
    /\ fanPc' = [fanPc EXCEPT ![i] = "fan"]
    /\ UNCHANGED <<storeVars, scnQ, batch, pruneCopy, arrived,
                   workQ, poolVars, retries>>

\* GetRange of all subscriptions; if it fails, which needs no bound here, the
\* batch is dropped.
ScnList(i) ==
    /\ fanPc[i] = "list"
    /\ \/ /\ fanTodo' = [fanTodo EXCEPT ![i] =
                {<<k, kv[k]>> : k \in {k \in Stored :
                    /\ attrMatch(batch[i], k)
                    /\ ~ /\ isStateUnavailable(batch[i])
                         /\ <<k.xname, NoAgent>> \in pruneCopy[i]}}]
          /\ fanPc' = [fanPc EXCEPT ![i] = "fan"]
       \/ /\ fanPc' = [fanPc EXCEPT ![i] = "idle"]
          /\ UNCHANGED fanTodo
    /\ UNCHANGED <<storeVars, scnQ, batch, pruneCopy, arrived,
                   workQ, poolVars, retries>>

\* Mutant of ScnQueue: a job queue without a limit.
ScnQueueUnbounded(i) ==
    /\ fanPc[i] = "fan"
    /\ \E e \in fanTodo[i] :
          LET comps == intersect(e[2].nodes, batch[i].comps)
          IN /\ e[2].nodes # <<>>
             /\ fanTodo' = [fanTodo EXCEPT ![i] = @ \ {e}]
             /\ \/ comps = {} /\ UNCHANGED workQ
                \/ /\ comps # {}
                   /\ workQ' = [workQ EXCEPT ![i] = Append(@,
                         [batch |-> batch[i], comps |-> comps,
                          xname |-> e[1].xname, url |-> e[2].url,
                          key |-> e[1]])]
    /\ UNCHANGED <<storeVars, scnQ, fanPc, batch, pruneCopy, arrived,
                   poolVars, retries>>

\* A job for the next record, if the batch names any component it asks for;
\* while the pool's queue is full doScn() keeps trying.
ScnQueue(i) ==
    /\ fanPc[i] = "fan"
    /\ \E e \in fanTodo[i] :
          LET k == e[1]
              comps == intersect(e[2].nodes, batch[i].comps)
          IN /\ e[2].nodes # <<>>
             /\ fanTodo' = [fanTodo EXCEPT ![i] = @ \ {e}]
             /\ \/ comps = {} /\ UNCHANGED workQ
                \/ /\ comps # {}
                   /\ Len(workQ[i]) < QCap
                   /\ workQ' = [workQ EXCEPT ![i] = Append(@,
                         [batch |-> batch[i], comps |-> comps,
                          xname |-> k.xname, url |-> e[2].url, key |-> k])]
    /\ UNCHANGED <<storeVars, scnQ, fanPc, batch, pruneCopy, arrived,
                   poolVars, retries>>

ScnDone(i) ==
    /\ fanPc[i] = "fan"
    /\ fanTodo[i] = {}
    /\ fanPc' = [fanPc EXCEPT ![i] = "idle"]
    /\ batch' = [batch EXCEPT ![i] = NoBatch]
    /\ pruneCopy' = [pruneCopy EXCEPT ![i] = {}]
    /\ UNCHANGED <<storeVars, scnQ, fanTodo, arrived, workQ, poolVars,
                   retries>>

\* intersect() reads the first entry of the list: without one, handleSCNs()
\* panics and takes the process with it.
ScnPanics(i) == fanPc[i] = "fan" /\ \E e \in fanTodo[i] : e[2].nodes = <<>>

-----------------------------------------------------------------------------
(* sendSCNToSubscriber(), run by worker w of instance i *)

Moves(i, w, from, to) ==
    /\ wpc[i][w] = from
    /\ wpc' = [wpc EXCEPT ![i][w] = to]

\* The job is over; its locals are gone.
Retire(i, w) ==
    /\ wpc' = [wpc EXCEPT ![i][w] = "idle"]
    /\ job' = [job EXCEPT ![i][w] = NoJob]
    /\ retry' = [retry EXCEPT ![i][w] = 0]
    /\ answered' = [answered EXCEPT ![i][w] = FALSE]
    /\ lowered' = [lowered EXCEPT ![i][w] = FALSE]

TakeJob(i, w) ==
    /\ Moves(i, w, "idle", "check")
    /\ workQ[i] # <<>>
    /\ job' = [job EXCEPT ![i][w] = Head(workQ[i])]
    /\ workQ' = [workQ EXCEPT ![i] = Tail(@)]
    /\ retry' = [retry EXCEPT ![i][w] = 1]
    /\ UNCHANGED <<storeVars, doVars, answered, lowered, retries>>

\* Without a URL the job ends here; then, "Don't send if we've been pruned":
\* the map is asked for the xname.
CheckPruned(i, w) ==
    /\ wpc[i][w] = "check"
    /\ \/ /\ job[i][w].url = NoUrl
          /\ Retire(i, w)
       \/ /\ job[i][w].url # NoUrl
          /\ ~pruning[i]
          /\ <<job[i][w].xname, NoAgent>> \in prunemap[i]
          /\ Retire(i, w)
       \/ /\ job[i][w].url # NoUrl
          /\ ~pruning[i]
          /\ <<job[i][w].xname, NoAgent>> \notin prunemap[i]
          /\ Moves(i, w, "check", "send")
          /\ UNCHANGED <<job, retry, answered, lowered>>
    /\ UNCHANGED <<storeVars, doVars, workQ, retries>>

\* The loop tests its counter against Scn_retries, which a PATCH may change at
\* any time, also while the POST that follows is in flight.
SendStart(i, w) ==
    /\ Moves(i, w, "send", "post")
    /\ retry[i][w] <= retries[i]
    /\ UNCHANGED <<storeVars, doVars, workQ, job, retry, answered, lowered,
                   retries>>

SendGivesUp(i, w) ==
    /\ Moves(i, w, "send", "exit")
    /\ retry[i][w] > retries[i]
    /\ UNCHANGED <<storeVars, doVars, workQ, job, retry, answered, lowered,
                   retries>>

\* The subscriber answers 200, answers something else or not at all, or
\* refuses the connection.
SendOk(i, w) ==
    /\ Moves(i, w, "post", "exit")
    /\ answered' = [answered EXCEPT ![i][w] = TRUE]
    /\ UNCHANGED <<storeVars, doVars, workQ, job, retry, lowered, retries>>

SendFails(i, w) ==
    /\ Moves(i, w, "post", "send")
    /\ retry' = [retry EXCEPT ![i][w] = @ + 1]
    /\ lowered' = [lowered EXCEPT ![i][w] = FALSE]
    /\ UNCHANGED <<storeVars, doVars, workQ, job, answered, retries>>

SendRefused(i, w) ==
    /\ Moves(i, w, "post", "mark")
    /\ UNCHANGED <<storeVars, doVars, workQ, job, retry, answered, lowered,
                   retries>>

\* Mutant of LoopExit: off by one.
LoopExitEarly(i, w) ==
    /\ wpc[i][w] = "exit"
    /\ \/ /\ retry[i][w] >= retries[i]
          /\ Moves(i, w, "exit", "mark")
          /\ UNCHANGED <<job, retry, answered, lowered>>
       \/ /\ retry[i][w] < retries[i]
          /\ Retire(i, w)
    /\ UNCHANGED <<storeVars, doVars, workQ, retries>>

\* After the loop the counter is compared with Scn_retries once more.
LoopExit(i, w) ==
    /\ wpc[i][w] = "exit"
    /\ \/ /\ retry[i][w] > retries[i]
          /\ Moves(i, w, "exit", "mark")
          /\ UNCHANGED <<job, retry, answered, lowered>>
       \/ /\ retry[i][w] <= retries[i]
          /\ Retire(i, w)
    /\ UNCHANGED <<storeVars, doVars, workQ, retries>>

\* Mutant of MarkSubscriber: the map is written without the lock.
MarkUnlocked(i, w) ==
    /\ wpc[i][w] = "mark"
    /\ Retire(i, w)
    /\ prunemap' = [prunemap EXCEPT ![i] = @ \cup {<<job[i][w].xname, NoAgent>>}]
    /\ downed' = downed \cup {job[i][w].xname}
    /\ UNCHANGED <<kv, pruning, faults, doVars, workQ, retries>>

\* The subscriber is pruned, by its xname.
MarkSubscriber(i, w) ==
    /\ wpc[i][w] = "mark"
    /\ Retire(i, w)
    /\ Mark(i, {<<job[i][w].xname, NoAgent>>})
    /\ downed' = downed \cup {job[i][w].xname}
    /\ UNCHANGED <<kv, pruning, faults, doVars, workQ, retries>>

\* A PATCH of /params changes Scn_retries, without a lock.
PatchRetries(i) ==
    /\ \E n \in RetryValues :
          /\ n # retries[i]
          /\ retries' = [retries EXCEPT ![i] = n]
          /\ lowered' = [lowered EXCEPT ![i] =
                [w \in Worker |-> @[w] \/ (wpc[i][w] \in {"post", "exit"}
                                           /\ retry[i][w] > n)]]
    /\ UNCHANGED <<storeVars, doVars, workQ, wpc, job, retry, answered>>

\* What a crash of instance i does to its fan-out; restarted, it has the
\* Scn_retries of its command line.
FanCrash(i) ==
    /\ scnQ' = [scnQ EXCEPT ![i] = <<>>]
    /\ fanPc' = [fanPc EXCEPT ![i] = "idle"]
    /\ pruneCopy' = [pruneCopy EXCEPT ![i] = {}]
    /\ fanTodo' = [fanTodo EXCEPT ![i] = {}]
    /\ workQ' = [workQ EXCEPT ![i] = <<>>]
    /\ wpc' = [wpc EXCEPT ![i] = [w \in Worker |-> "idle"]]
    /\ job' = [job EXCEPT ![i] = [w \in Worker |-> NoJob]]
    /\ retry' = [retry EXCEPT ![i] = [w \in Worker |-> 0]]
    /\ answered' = [answered EXCEPT ![i] = [w \in Worker |-> FALSE]]
    /\ lowered' = [lowered EXCEPT ![i] = [w \in Worker |-> FALSE]]
    /\ batch' = [batch EXCEPT ![i] = NoBatch]
    /\ \E n \in RetryValues : retries' = [retries EXCEPT ![i] = n]
    /\ UNCHANGED arrived

doScn(i) == ScnTake(i) \/ ScnList(i) \/ ScnQueue(i) \/ ScnDone(i)

JobSCNSend(i, w) ==
    \/ TakeJob(i, w) \/ CheckPruned(i, w)
    \/ SendStart(i, w) \/ SendGivesUp(i, w)
    \/ SendOk(i, w) \/ SendFails(i, w) \/ SendRefused(i, w)
    \/ LoopExit(i, w) \/ MarkSubscriber(i, w)

FanStep(i) == \/ ScnArrives(i) \/ doScn(i) \/ PatchRetries(i)
              \/ \E w \in Worker : JobSCNSend(i, w)

-----------------------------------------------------------------------------
(* Properties *)

\* The types of doScn's and the workers' locals; the pool's queue stays
\* within its capacity.
FanTypeOK ==
    /\ scnQ \in [Instance -> Seq(Batch)]
    /\ fanPc \in [Instance -> {"idle", "list", "fan"}]
    /\ batch \in [Instance -> Batch]
    /\ pruneCopy \in [Instance -> SUBSET Name]
    /\ fanTodo \in [Instance -> SUBSET (Key \X SubData)]
    /\ workQ \in [Instance -> Seq(Job)]
    /\ \A i \in Instance : Len(workQ[i]) <= QCap
    /\ wpc \in [Instance -> [Worker ->
                {"idle", "check", "send", "post", "exit", "mark"}]]
    /\ job \in [Instance -> [Worker -> Job \cup {NoJob}]]
    /\ retry \in [Instance -> [Worker -> Nat]]
    /\ answered \in [Instance -> [Worker -> BOOLEAN]]
    /\ lowered \in [Instance -> [Worker -> BOOLEAN]]
    /\ retries \in [Instance -> RetryValues]
    /\ arrived \in 0..MaxBatches

\* The jobs that exist, queued or in the hands of a busy worker.
Jobs(i) == {workQ[i][n] : n \in 1..Len(workQ[i])}
             \cup {job[i][w] : w \in {w \in Worker : wpc[i][w] # "idle"}}

\* "No sense sending anything to a down node": no job of a batch that says
\* its components are gone goes to one of them, even when the pruner empties
\* the prune map between doScn's marking and its reading of ETCD, which is
\* what prunemap_copy is for.
NoSendToDown ==
    \A i \in Instance : \A j \in Jobs(i) :
        isStateUnavailable(j.batch) => j.xname \notin j.batch.comps

\* A subscriber is dropped for failing only when it did fail: a worker whose
\* POST was answered 200 never marks the subscriber, however often Scn_retries
\* is PATCHed meanwhile, unless it was set below the rounds already made while
\* that POST was in flight or between its answer and the check after the loop
\* (which takes the lower limit for exhausted retries).
AnsweredNotDropped ==
    \A i \in Instance, w \in Worker :
        wpc[i][w] = "mark" /\ answered[i][w] => lowered[i][w]
=============================================================================
