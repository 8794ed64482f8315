--------------------------- MODULE DeadWoodProofs ---------------------------
(***************************************************************************)
(* Proofs about DeadWood, for any number of instances, nodes, requests and *)
(* restarts: pruneDeadWood() implements the MarkDown steps of the module   *)
(* Subscriptions, and costs only nodes that were gone their subscriptions. *)
(***************************************************************************)
EXTENDS DeadWood, SubscriptionsProofs

\* Nodes HSM has counted as gone at some time.
Outage == {x \in XName : node[x] # "up"}

\* The goroutine's locals hold only such nodes, and so does downed.
WoodInv ==
    /\ badMap \in [Instance -> SUBSET Outage]
    /\ dwTodo \in [Instance -> SUBSET {k \in Key : k.xname \in Outage}]
    /\ node \in [XName -> {"up", "dead", "back"}]
    /\ downed \subseteq Outage

\* What a step of pruneDeadWood() marks must be downable: HSM's nodes that go
\* away are.
NodeInv == Outage \subseteq Downable

\* Every step of the composed system is a step of Subscriptions or leaves its
\* variables alone.
LEMMA WoodStep ==
  ASSUME WoodInv, NodeInv, [WoodNext]_woodVars
  PROVE  [Next]_vars
<1>1. CASE NewRequest \/ ApiStep
  <2>1. Unused \subseteq Req
    BY DEF Unused
  <2> QED
    BY <1>1, <2>1 DEF NewRequest, ApiStep, Next
<1>2. CASE NodeChange
  BY <1>2 DEF NodeChange, vars
<1>3. ASSUME NEW i \in Instance, DwGet(i) \/ DwList(i) PROVE UNCHANGED vars
  BY <1>3 DEF DwGet, DwList, vars
<1>4. ASSUME NEW i \in Instance, DwMark(i) PROVE Next
  <2>1. PICK k \in dwTodo[i] : MarkDown(i, {k.xname})
    BY <1>4 DEF DwMark
  <2>2. {k.xname} \in SUBSET Downable
    BY <2>1 DEF WoodInv, NodeInv
  <2> QED
    BY <2>1, <2>2 DEF Next
<1>5. ASSUME NEW i \in MayCrash, DwCrash(i) PROVE Next
  BY <1>5 DEF DwCrash, Next
<1>6. CASE UNCHANGED woodVars
  BY <1>6 DEF woodVars, vars
<1> QED
  BY <1>1, <1>2, <1>3, <1>4, <1>5, <1>6 DEF WoodNext, pruneDeadWood

LEMMA WoodInvInit == WoodInit => WoodInv /\ NodeInv
  BY DEF WoodInit, Init, StoreInit, WoodInv, NodeInv, Outage

\* Neither handlers nor pruner add to downed.
LEMMA ApiDowned ==
  ASSUME NewRequest \/ ApiStep
  PROVE  downed' = downed
<1>1. ASSUME NEW r, Arrive(r) \/ Reject(r) \/ Handler(r)
      PROVE  downed' = downed
  BY <1>1 DEF Arrive, Reject, Handler, PostGet, PostStore, PostNotify,
     PatchList, PatchDelete, PatchStore, DeleteList, DeleteKey, DeleteMark,
     storeVars
<1>2. ASSUME NEW i \in Instance, Pruner(i) \/ DrainHsm(i) \/ RequeueHsm(i)
      PROVE  downed' = downed
  BY <1>2 DEF Pruner, PruneStart, PruneDelete, PruneFinish, DrainHsm, RequeueHsm,
     storeVars
<1> QED
  BY <1>1, <1>2 DEF NewRequest, ApiStep

LEMMA WoodInvStep ==
  ASSUME WoodInv, NodeInv, [WoodNext]_woodVars
  PROVE  WoodInv' /\ NodeInv'
<1>1. CASE NodeChange
  <2>1. PICK x \in Downable :
          \/ node[x] = "up" /\ node' = [node EXCEPT ![x] = "dead"]
          \/ node[x] = "dead" /\ node' = [node EXCEPT ![x] = "back"]
    BY <1>1 DEF NodeChange
  <2>2. UNCHANGED <<badMap, dwTodo, downed>>
    BY <1>1 DEF NodeChange, dwVars, storeVars
  <2>3. node' \in [XName -> {"up", "dead", "back"}]
    BY <2>1 DEF WoodInv
  <2>4. Outage \subseteq Outage' /\ Outage' \subseteq Outage \cup {x}
    BY <2>1 DEF WoodInv, Outage
  <2> QED
    BY <2>2, <2>3, <2>4 DEF WoodInv, NodeInv
<1>2. ASSUME NEW i \in Instance, DwGet(i) PROVE WoodInv' /\ NodeInv'
  <2>1. Dead \subseteq Outage
    BY DEF Dead, Outage
  <2>2. UNCHANGED <<node, dwTodo, downed>> /\ Outage' = Outage
    BY <1>2 DEF DwGet, hsmVars, storeVars, Outage
  <2>3. badMap' \in [Instance -> SUBSET Outage]
    BY <1>2, <2>1 DEF DwGet, WoodInv
  <2> QED
    BY <2>2, <2>3 DEF WoodInv, NodeInv
<1>3. ASSUME NEW i \in Instance, DwList(i) PROVE WoodInv' /\ NodeInv'
  <2>1. UNCHANGED <<node, downed>> /\ Outage' = Outage
    BY <1>3 DEF DwList, hsmVars, storeVars, Outage
  <2>2. {k \in Stored : k.xname \in badMap[i]}
           \subseteq {k \in Key : k.xname \in Outage}
    BY DEF WoodInv, Stored
  <2>3. dwTodo' \in [Instance -> SUBSET {k \in Key : k.xname \in Outage}]
    BY <1>3, <2>2 DEF DwList, WoodInv
  <2>4. badMap' \in [Instance -> SUBSET Outage]
    BY <1>3 DEF DwList, WoodInv
  <2> QED
    BY <2>1, <2>3, <2>4 DEF WoodInv, NodeInv
<1>4. ASSUME NEW i \in Instance, DwMark(i) PROVE WoodInv' /\ NodeInv'
  <2>1. PICK k \in dwTodo[i] : /\ MarkDown(i, {k.xname})
                               /\ dwTodo' = [dwTodo EXCEPT ![i] = @ \ {k}]
    BY <1>4 DEF DwMark
  <2>2. UNCHANGED <<node, badMap>> /\ Outage' = Outage
    BY <1>4 DEF DwMark, hsmVars, Outage
  <2>3. downed' \subseteq Outage
    BY <2>1 DEF MarkDown, WoodInv
  <2>4. dwTodo' \in [Instance -> SUBSET {j \in Key : j.xname \in Outage}]
    BY <2>1 DEF WoodInv
  <2> QED
    BY <2>2, <2>3, <2>4 DEF WoodInv, NodeInv
<1>5. ASSUME NEW i \in MayCrash, DwCrash(i) PROVE WoodInv' /\ NodeInv'
  <2>1. UNCHANGED <<node, downed>> /\ Outage' = Outage
    BY <1>5 DEF DwCrash, Crash, hsmVars, Outage
  <2>2. /\ badMap' = [badMap EXCEPT ![i] = {}]
        /\ dwTodo' = [dwTodo EXCEPT ![i] = {}]
    BY <1>5 DEF DwCrash
  <2> QED
    BY <2>1, <2>2 DEF WoodInv, NodeInv
<1>6. ASSUME UNCHANGED <<badMap, dwTodo, node, downed>> PROVE WoodInv' /\ NodeInv'
  BY <1>6 DEF WoodInv, NodeInv, Outage
<1>7. CASE NewRequest \/ ApiStep
  <2>1. downed' = downed
    BY <1>7, ApiDowned
  <2> QED
    BY <1>6, <1>7, <2>1 DEF NewRequest, ApiStep, dwVars, hsmVars
<1>8. CASE UNCHANGED woodVars
  BY <1>6, <1>8 DEF woodVars, dwVars, hsmVars, storeVars
<1> QED
  BY <1>1, <1>2, <1>3, <1>4, <1>5, <1>7, <1>8 DEF WoodNext, pruneDeadWood

\* The service with pruneDeadWood() is, towards the records, the service of
\* the module Subscriptions, of which AckedPostStands and PatchedStays are
\* proved.
THEOREM WoodImplements == WoodSpec => ImplementsMarkDown
<1>1. WoodInit => Init
  BY DEF WoodInit
<1>2. WoodInv /\ NodeInv /\ [WoodNext]_woodVars => [Next]_vars
  BY WoodStep
<1>3. WoodInv /\ NodeInv /\ [WoodNext]_woodVars => WoodInv' /\ NodeInv'
  BY WoodInvStep
<1> QED
  BY <1>1, <1>2, <1>3, WoodInvInit, PTL
  DEF WoodSpec, SafetySpec, ImplementsMarkDown

\* A node HSM never counted as gone loses no acknowledged subscription to
\* pruneDeadWood(), on any number of instances and restarts.
THEOREM OnlyDeadWoodGoes == WoodSpec => []LiveIsKept
<1>1. WoodInv /\ IInv => LiveIsKept
  <2> SUFFICES ASSUME WoodInv, IInv, NEW r \in Req, AckedPost(r)
               PROVE  LET k == makeSubscriptionKey(op[r])
                      IN \/ kv[k] # None
                         \/ node[k.xname] # "up"
                         \/ \E q \in Req : Begun(q) /\ Reaches(op[q], k)
    BY DEF LiveIsKept
  <2> DEFINE k == makeSubscriptionKey(op[r])
  <2>1. kv[k] # None \/ Targeted(k)
    BY DEF IInv, PostInv
  <2> QED
    BY <2>1 DEF Targeted, WoodInv, Outage
<1>2. WoodInit => Init
  BY DEF WoodInit
<1>3. WoodInv /\ NodeInv /\ [WoodNext]_woodVars => [Next]_vars
  BY WoodStep
<1>4. WoodInv /\ NodeInv /\ [WoodNext]_woodVars => WoodInv' /\ NodeInv'
  BY WoodInvStep
<1> QED
  BY <1>1, <1>2, <1>3, <1>4, WoodInvInit, IInvInit, IInvStep, PTL DEF WoodSpec
=============================================================================
