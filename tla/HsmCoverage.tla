----------------------------- MODULE HsmCoverage ----------------------------
(***************************************************************************)
(* One instance's subscription handlers and its HSM subscriber together:   *)
(* a handler writes the record in ETCD and then sends the request on       *)
(* hsmsub_chan, which subscribeToHsmScn() reads.  hmnfd can only notify    *)
(* the subscriber of what HSM tells it, so what is stored must also be     *)
(* asked for.                                                              *)
(***************************************************************************)
EXTENDS HsmSubscriber

CONSTANTS Self, XName, Agent, NoAgent, Enbl, Url, NoUrl, Nodes, None, Req,
          Ops,
          MaxKvFaults   \* bound: ETCD calls of handlers and pruner that fail

VARIABLES
    kv, prunemap, pruning, downed, kvFaults,
    reqPc, op, at, cur, todo, resp, earlier, pruneTodo,
    nosmSeen      \* history: Nosm was set at some time

S == INSTANCE Subscriptions WITH
        Instance <- {Self}, MayCrash <- {Self}, Downable <- {},
        StartQueue <- <<Mandatory>>, MaxFaults <- MaxKvFaults,
        pc <- reqPc, faults <- kvFaults,
        hsmsub_chan <- [i \in {Self} |-> hsmsub_chan]

\* What the POST handlers may put on the channel is what the POSTs ask for.
ASSUME CovAssumption ==
    /\ Ops \subseteq S!Op /\ Ops # {}
    /\ \A o \in Ops : o.kind = "post" =>
           [attrs |-> o.attrs, enabled |-> o.enabled] \in Requests

apiVars == <<kv, prunemap, pruning, downed, kvFaults,
             reqPc, op, at, cur, todo, resp, earlier, pruneTodo>>
covVars == <<vars, apiVars, nosmSeen>>

CovInit ==
    /\ Init
    /\ kv = [k \in S!Key |-> None]
    /\ prunemap = [i \in {Self} |-> {}]
    /\ pruning = [i \in {Self} |-> FALSE]
    /\ downed = {}
    /\ kvFaults = 0
    /\ reqPc = [r \in Req |-> "new"]
    /\ op = [r \in Req |-> S!AnyOp]
    /\ at = [r \in Req |-> Self]
    /\ cur = [r \in Req |-> S!AnyKey]
    /\ todo = [r \in Req |-> {}]
    /\ resp = [r \in Req |-> "none"]
    /\ earlier = [r \in Req |-> {}]
    /\ pruneTodo = [i \in {Self} |-> {}]
    /\ nosmSeen = nosm

-----------------------------------------------------------------------------
\* The steps of handlers and pruner that leave the channel alone.
HandlerStep(r) ==
    /\ UNCHANGED vars
    /\ \/ S!PostGet(r) \/ S!PostStore(r)
       \/ S!PatchList(r) \/ S!PatchDelete(r) \/ S!PatchStore(r)
       \/ S!DeleteList(r) \/ S!DeleteKey(r) \/ S!DeleteMark(r)

ArriveStep(r) == UNCHANGED vars /\ (S!Arrive(r) \/ S!Reject(r))

PrunerStep == UNCHANGED vars /\ S!Pruner(Self)

\* A handler sends on the channel, and the goroutine receives from it.
SendRequest(r) == Notify /\ S!PostNotify(r)
ReceiveRequest == Receive /\ S!DrainHsm(Self)

\* The goroutine's steps that handlers do not see: also the one that puts a
\* request back on the channel.
SubscriberStep ==
    /\ SendOk \/ SendFail \/ Requeue \/ Commit \/ Store1 \/ Store2
    /\ UNCHANGED apiVars

ParamStep == PatchNosm /\ UNCHANGED apiVars

RestartAll == Restart /\ S!Crash(Self)

ApiStep == \/ \E r \in Req : ArriveStep(r) \/ HandlerStep(r)
           \/ PrunerStep

\* Every step remembers whether Nosm is set.
SeenStep == nosmSeen' = (nosmSeen \/ nosm')

CovNext ==
    /\ \/ ApiStep \/ (\E r \in Req : SendRequest(r)) \/ ReceiveRequest
       \/ SubscriberStep \/ ParamStep \/ RestartAll
    /\ SeenStep

\* The subscriber's goroutine runs whenever it can, and so does one of the
\* others that can, a handler's or the pruner's (the scheduler promises each
\* of them its turn; for finitely many requests this is enough).  Nobody need
\* send a request.
CovFairness ==
    /\ WF_covVars((ReceiveRequest \/ SubscriberStep) /\ SeenStep)
    /\ WF_covVars(/\ \/ PrunerStep
                     \/ \E r \in Req : HandlerStep(r) \/ SendRequest(r)
                  /\ SeenStep)

CovSpec == CovInit /\ [][CovNext]_covVars /\ CovFairness

-----------------------------------------------------------------------------
\* What the goroutine has in hand or will still receive.
Waiting == UNION ({hsmsub_chan[i].attrs : i \in 1..Len(hsmsub_chan)}
                  \cup {IF pc = "send" THEN sub.attrs ELSE {}})

\* Requests that have written, or are about to write, the record of key k.
WrittenBy(k) == {r \in Req : /\ S!Begun(r)
                             /\ op[r].kind \in {"post", "patchV1", "patchV2"}
                             /\ S!makeSubscriptionKey(op[r]) = k}

\* Every attribute of a stored record has been asked for at HSM or is on its
\* way there, whatever POSTs, DELETEs and prunings of other records overlap,
\* however the attributes of two POSTs overlap and whoever the POST was
\* refused to.  Until its handler has sent the request, a POST's record is
\* excepted; so are the ones a PATCH wrote (no PATCH handler sends anything),
\* and all of them after a failed call, a restart or with Nosm set.
StoredIsAsked ==
    \/ faults > 0 \/ kvFaults > 0 \/ restarts > 0 \/ nosmSeen
    \/ \A k \in S!Stored :
          \/ k.attrs \ {Enbl} \subseteq hsm.attrs \cup Waiting
          \/ \E r \in WrittenBy(k) : \/ op[r].kind # "post"
                                     \/ reqPc[r] = "notify"

\* Every request that reached a handler is answered or dies with the process,
\* although a POST waits for room on hsmsub_chan while subscribeToHsmScn() is
\* at HSM or at ETCD and a DELETE for prunemap_mutex while prune() is, unless
\* a failed POST to HSM left the only reader of a full channel waiting for
\* room on it.
AnsweredUnlessStuck ==
    \A r \in Req : S!Begun(r) ~> (reqPc[r] \in {"done", "dead"} \/ Stuck)
=============================================================================
