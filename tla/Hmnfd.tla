------------------------------- MODULE Hmnfd --------------------------------
(***************************************************************************)
(* hmnfd's subscription API, pruner and fan-out together: the two sides    *)
(* share the ETCD records and each instance's prune map.  What is an       *)
(* arbitrary MarkDown step to the module Subscriptions is here a batch of  *)
(* gone components or a subscriber that does not answer.                   *)
(***************************************************************************)
EXTENDS Subscriptions, Fanout

\* Any subscriber may go away.
ASSUME NfdAssumption == XName \subseteq Downable

nfdVars == <<storeVars, subVars, fanVars>>

NfdInit == Init /\ FanInit

\* An instance dies, killed from outside ...
NfdCrash(i) == Crash(i) /\ FanCrash(i)

\* ... or by a panic of handleSCNs().
NfdPanic(i) == ScnPanics(i) /\ NfdCrash(i)

ApiStep == \/ \E r \in Req : Arrive(r) \/ Reject(r) \/ Handler(r)
           \/ \E i \in Instance : Pruner(i) \/ DrainHsm(i) \/ RequeueHsm(i)

NfdNext == \/ ApiStep /\ UNCHANGED fanVars
           \/ \E i \in Instance : FanStep(i) /\ UNCHANGED subVars
           \/ \E i \in MayCrash : NfdCrash(i)
           \/ \E i \in Instance : NfdPanic(i)

NfdSafety == NfdInit /\ [][NfdNext]_nfdVars

\* Goroutines that can run do run, and a lock that is released again and
\* again is obtained (sync.Mutex); subscribers answer or the POST times out;
\* nobody need send a request or an SCN, and no handler is said to finish (a
\* POST may wait for the HSM subscriber for ever: see HsmCoverage).
NfdFairness ==
    \A i \in Instance :
        /\ WF_nfdVars(Pruner(i) /\ UNCHANGED fanVars)
        /\ SF_nfdVars(doScn(i) /\ UNCHANGED subVars)
        /\ WF_nfdVars(NfdPanic(i))
        /\ \A w \in Worker :
              SF_nfdVars(JobSCNSend(i, w) /\ UNCHANGED subVars)

NfdSpec == NfdSafety /\ NfdFairness

-----------------------------------------------------------------------------
\* The composed system behaves, towards the subscription records, as the
\* module Subscriptions says: every step of doScn() and of the workers is
\* one of its MarkDown steps or leaves its variables alone.
ImplementsSubscriptions == SafetySpec

\* "Put this in the pruning map to prevent stuff in the Q destined for this
\* node from getting sent": a job for a record whose subscriber is in the
\* prune map is not started.
DeletedNotSent ==
    [][\A i \in Instance, w \in Worker :
          wpc[i][w] = "check" /\ wpc'[i][w] = "send"
              => ~Pruned(prunemap[i], job[i][w].key)]_nfdVars

\* The fan-out never gets stuck: batches are taken, the pool's queue empties
\* and every worker finishes, although doScn(), the workers, the handlers and
\* the pruner wait for the same prunemap_mutex and doScn() waits for room in
\* the workers' queue, unless a panic has ended them all.
FanoutDrains ==
    \A i \in Instance :
        (scnQ[i] # <<>>) ~> /\ scnQ[i] = <<>> /\ fanPc[i] = "idle"
                            /\ workQ[i] = <<>>
                            /\ \A w \in Worker : wpc[i][w] = "idle"
=============================================================================
