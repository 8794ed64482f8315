------------------------ MODULE SubscriptionsProofs -------------------------
(***************************************************************************)
(* Proofs about Subscriptions, for any number of instances, requests,      *)
(* components, agents and failed ETCD calls: the type invariant, and that  *)
(* an acknowledged subscription is removed only by someone who may.        *)
(***************************************************************************)
EXTENDS Subscriptions, TLAPS

\* The key and the value that a handler computes from a request.
LEMMA KeyType ==
  ASSUME NEW o \in Op
  PROVE  /\ makeSubscriptionKey(o) \in Key
         /\ makeSubscriptionKey(o).xname = o.xname
         /\ makeSubscriptionKey(o).agent = o.agent
  BY DEF makeSubscriptionKey, Key, Op

LEMMA EntryType ==
  ASSUME NEW o \in Op
  PROVE  Entry(o) \in SubData /\ Entry(o) # None
  BY StoreAssumption DEF Entry, SubData, Op

LEMMA NameType ==
  ASSUME NEW k \in Key
  PROVE  NameOf(k) \in Name
  BY DEF NameOf, Name, Key

LEMMA FirstType ==
  ASSUME NEW o \in Op
  PROVE  First(o) \in {"get", "patchList", "deleteList"}
  BY DEF First

\* The dummies of Init exist.
LEMMA AnyType == AnyOp \in Ops /\ AnyKey \in Key /\ AnyInstance \in Instance
<1>1. Ops # {} /\ Instance # {}
  BY SubAssumption
<1>2. Key # {}
  <2>1. PICK x \in XName : TRUE
    BY SubAssumption
  <2>2. [xname |-> x, agent |-> NoAgent, attrs |-> {}] \in Key
    BY DEF Key, AnyAgent
  <2> QED
    BY <2>2
<1> QED
  BY <1>1, <1>2 DEF AnyOp, AnyKey, AnyInstance

LEMMA TypeInit == Init => TypeOK
<1> SUFFICES ASSUME Init PROVE TypeOK
  OBVIOUS
<1> USE AnyType, StoreAssumption
<1>1. /\ kv \in [Key -> SubData \cup {None}]
      /\ prunemap \in [Instance -> SUBSET Name]
      /\ pruning \in [Instance -> BOOLEAN]
      /\ downed \subseteq XName
      /\ faults \in 0..MaxFaults
  BY DEF Init, StoreInit
<1>2. /\ pc \in [Req -> {"new"}]
      /\ op \in [Req -> Ops]
      /\ at \in [Req -> Instance]
      /\ cur \in [Req -> Key]
      /\ todo \in [Req -> SUBSET Key]
      /\ resp \in [Req -> {"none"}]
      /\ earlier \in [Req -> SUBSET Req]
  BY DEF Init
<1>3. /\ pruneTodo \in [Instance -> SUBSET Key]
      /\ \A i \in Instance : pruneTodo[i] # {} => pruning[i]
  BY DEF Init
<1>4. /\ hsmsub_chan \in [Instance -> Seq(HsmRequest)]
      /\ \A i \in Instance : Len(hsmsub_chan[i]) <= ChanCap
  BY SubAssumption DEF Init
<1> QED
  BY <1>1, <1>2, <1>3, <1>4 DEF TypeOK, Pc

\* The effects of the ETCD calls on the store and the fault counter.
StoreType == kv \in [Key -> SubData \cup {None}] /\ faults \in 0..MaxFaults

LEMMA EtcdType ==
  ASSUME StoreType, NEW k \in Key, NEW v \in SubData
  PROVE  /\ StoreOk(k, v) => StoreType'
         /\ StoreFails(k, v) => StoreType'
         /\ DeleteOk(k) => StoreType'
         /\ DeleteFails(k) => StoreType'
  BY StoreAssumption
  DEF StoreType, StoreOk, StoreFails, DeleteOk, DeleteFails, Fault

LEMMA ReadType ==
  ASSUME StoreType, ReadFails \/ UNCHANGED <<kv, faults>>
  PROVE  StoreType'
  BY StoreAssumption DEF StoreType, ReadFails, Fault

\* A handler goes on or answers.
LEMMA PcType ==
  ASSUME TypeOK, NEW r \in Req,
         \/ \E n \in Pc : Goto(r, n)
         \/ \E a \in {"ok", "refused", "error"} : Answer(r, a)
  PROVE  /\ pc' \in [Req -> Pc]
         /\ resp' \in [Req -> {"none", "ok", "refused", "error"}]
<1>1. "done" \in Pc
  BY DEF Pc
<1>2. CASE \E n \in Pc : Goto(r, n)
  <2>1. PICK n \in Pc : Goto(r, n)
    BY <1>2
  <2> QED
    BY <2>1 DEF TypeOK, Goto
<1>3. CASE \E a \in {"ok", "refused", "error"} : Answer(r, a)
  <2>1. PICK a \in {"ok", "refused", "error"} : Answer(r, a)
    BY <1>3
  <2> QED
    BY <1>1, <2>1 DEF TypeOK, Answer
<1> QED
  BY <1>2, <1>3

\* A crash leaves the channel main() fills, and everything else in its type.
LEMMA TypeCrash ==
  ASSUME TypeOK, NEW i \in Instance, Crash(i)
  PROVE  TypeOK'
<1>1. /\ hsmsub_chan' \in [Instance -> Seq(HsmRequest)]
      /\ \A j \in Instance : Len(hsmsub_chan'[j]) <= ChanCap
  <2>1. /\ hsmsub_chan \in [Instance -> Seq(HsmRequest)]
        /\ \A j \in Instance : Len(hsmsub_chan[j]) <= ChanCap
    BY DEF TypeOK
  <2>2. hsmsub_chan' = [hsmsub_chan EXCEPT ![i] = StartQueue]
    BY DEF Crash
  <2>3. StartQueue \in Seq(HsmRequest) /\ Len(StartQueue) <= ChanCap
    BY SubAssumption
  <2> QED
    BY <2>1, <2>2, <2>3
<1> QED
  BY <1>1 DEF Crash, Pc, TypeOK

\* The type invariant is preserved by every step.
LEMMA TypeStep == TypeOK /\ [Next]_vars => TypeOK'
<1> SUFFICES ASSUME TypeOK, [Next]_vars PROVE TypeOK'
  OBVIOUS
<1>a. StoreType
  BY DEF TypeOK, StoreType
<1>b. \A r \in Req : op[r] \in Op
  BY SubAssumption DEF TypeOK
<1>1. ASSUME NEW r \in Req, Arrive(r) PROVE TypeOK'
  <2>1. PICK o \in Ops, i \in Instance :
          /\ op' = [op EXCEPT ![r] = o]
          /\ at' = [at EXCEPT ![r] = i]
          /\ Goto(r, First(o))
    BY <1>1 DEF Arrive
  <2>2. First(o) \in {"get", "patchList", "deleteList"}
    BY FirstType, SubAssumption
  <2> QED
    BY <1>1, <2>1, <2>2 DEF Arrive, Goto, Pc, TypeOK, storeVars
<1>2. ASSUME NEW r \in Req, Reject(r) PROVE TypeOK'
  BY <1>2 DEF Reject, Pc, TypeOK, storeVars
<1>3. ASSUME NEW r \in Req, PostGet(r) PROVE TypeOK'
  <2>1. StoreType'
    BY <1>3, <1>a, ReadType DEF PostGet
  <2> QED
    BY <1>3, <2>1 DEF PostGet, Goto, Answer, Pc, TypeOK, StoreType
<1>4. ASSUME NEW r \in Req, PostStore(r) PROVE TypeOK'
  <2>1. StoreType'
    BY <1>4, <1>a, <1>b, EtcdType, KeyType, EntryType DEF PostStore
  <2> QED
    BY <1>4, <2>1 DEF PostStore, Goto, Answer, Pc, TypeOK, StoreType
<1>5. ASSUME NEW r \in Req, PostNotify(r) PROVE TypeOK'
  <2> DEFINE e == [attrs |-> op[r].attrs, enabled |-> op[r].enabled]
  <2>1. e \in HsmRequest
    BY <1>b DEF Op, HsmRequest
  <2>2. /\ hsmsub_chan' = [hsmsub_chan EXCEPT ![at[r]] = Append(@, e)]
        /\ Len(hsmsub_chan[at[r]]) < ChanCap
        /\ hsmsub_chan \in [Instance -> Seq(HsmRequest)]
        /\ \A i \in Instance : Len(hsmsub_chan[i]) <= ChanCap
    BY <1>5 DEF PostNotify, TypeOK
  <2> HIDE DEF e
  <2>3. /\ hsmsub_chan' \in [Instance -> Seq(HsmRequest)]
        /\ \A i \in Instance : Len(hsmsub_chan'[i]) <= ChanCap
    BY <2>1, <2>2, SubAssumption DEF TypeOK
  <2> QED
    BY <1>5, <2>3 DEF PostNotify, Answer, Pc, TypeOK, storeVars
<1>6. ASSUME NEW r \in Req, PatchList(r) PROVE TypeOK'
  <2>1. StoreType'
    BY <1>6, <1>a, ReadType DEF PatchList
  <2> QED
    <3>1. cur' \in [Req -> Key]
      BY <1>6 DEF PatchList, TypeOK, Stored
    <3>2. /\ pc' \in [Req -> Pc]
          /\ resp' \in [Req -> {"none", "ok", "refused", "error"}]
      <4>1. {"patchStore", "patchDelete"} \subseteq Pc
        BY DEF Pc
      <4>2. \/ \E n \in {"patchStore", "patchDelete"} : Goto(r, n)
            \/ \E a \in {"ok", "error"} : Answer(r, a)
        BY <1>6 DEF PatchList
      <4> QED
        BY <4>1, <4>2, PcType
    <3> QED
      BY <1>6, <2>1, <3>1, <3>2 DEF PatchList, TypeOK, StoreType
<1>7. ASSUME NEW r \in Req, PatchDelete(r) PROVE TypeOK'
  <2>1. StoreType'
    BY <1>7, <1>a, EtcdType, <1>b, EntryType DEF PatchDelete, TypeOK
  <2> QED
    BY <1>7, <2>1 DEF PatchDelete, Goto, Answer, Pc, TypeOK, StoreType
<1>8. ASSUME NEW r \in Req, PatchStore(r) PROVE TypeOK'
  <2>1. StoreType'
    BY <1>8, <1>a, <1>b, EtcdType, KeyType, EntryType DEF PatchStore
  <2> QED
    BY <1>8, <2>1 DEF PatchStore, Answer, Pc, TypeOK, StoreType
<1>9. ASSUME NEW r \in Req, DeleteList(r) PROVE TypeOK'
  <2>1. StoreType'
    BY <1>9, <1>a, ReadType DEF DeleteList
  <2> QED
    <3>1. todo' \in [Req -> SUBSET Key]
      <4>1. {k \in Stored : Matches(op[r], k)} \in SUBSET Key
        BY DEF Stored
      <4>2. \/ todo' = todo
            \/ todo' = [todo EXCEPT ![r] = {k \in Stored : Matches(op[r], k)}]
        BY <1>9 DEF DeleteList
      <4> QED
        BY <4>1, <4>2 DEF TypeOK
    <3>2. /\ pc' \in [Req -> Pc]
          /\ resp' \in [Req -> {"none", "ok", "refused", "error"}]
      <4>1. "deleteKey" \in Pc
        BY DEF Pc
      <4>2. \/ Goto(r, "deleteKey")
            \/ \E a \in {"ok", "refused", "error"} : Answer(r, a)
        BY <1>9 DEF DeleteList, DeleteAnswer
      <4> QED
        BY <4>1, <4>2, PcType
    <3> QED
      BY <1>9, <2>1, <3>1, <3>2 DEF DeleteList, TypeOK, StoreType
<1>10. ASSUME NEW r \in Req, DeleteKey(r) PROVE TypeOK'
  <2>1. StoreType'
    BY <1>10, <1>a, EtcdType, <1>b, EntryType DEF DeleteKey, TypeOK
  <2> QED
    <3>1. PICK k \in todo[r] :
            /\ cur' = [cur EXCEPT ![r] = k]
            /\ \/ DeleteOk(k) /\ Goto(r, "deleteMark") /\ UNCHANGED todo
               \/ DeleteFails(k) /\ Visited(r, k)
      BY <1>10, Zenon DEF DeleteKey
    <3>2. cur' \in [Req -> Key] /\ todo' \in [Req -> SUBSET Key]
      <4>1. k \in Key /\ todo[r] \ {k} \in SUBSET Key
        BY <3>1 DEF TypeOK
      <4>2. todo' = todo \/ todo' = [todo EXCEPT ![r] = todo[r] \ {k}]
        BY <3>1 DEF Visited
      <4>3. cur' = [cur EXCEPT ![r] = k]
        BY <3>1
      <4> QED
        BY <4>1, <4>2, <4>3 DEF TypeOK
    <3>3. /\ pc' \in [Req -> Pc]
          /\ resp' \in [Req -> {"none", "ok", "refused", "error"}]
      BY <3>1 DEF Visited, DeleteAnswer, Goto, Answer, Pc, TypeOK
    <3> QED
      BY <1>10, <2>1, <3>2, <3>3 DEF DeleteKey, TypeOK, StoreType
<1>11. ASSUME NEW r \in Req, DeleteMark(r) PROVE TypeOK'
  <2>1. NameOf(cur[r]) \in Name
    BY NameType DEF TypeOK
  <2> QED
    BY <1>11, <2>1
    DEF DeleteMark, Mark, Visited, DeleteAnswer, Goto, Answer, Pc, TypeOK
<1>12. ASSUME NEW i \in Instance, PruneStart(i) PROVE TypeOK'
  <2>1. StoreType'
    BY <1>12, <1>a, ReadType DEF PruneStart
  <2> QED
    <3>1. pruneTodo' \in [Instance -> SUBSET Key]
      <4>1. {k \in Stored : Pruned(prunemap[i], k)} \in SUBSET Key
        BY DEF Stored
      <4>2. \/ pruneTodo' = pruneTodo
            \/ pruneTodo' = [pruneTodo EXCEPT ![i] =
                                {k \in Stored : Pruned(prunemap[i], k)}]
        BY <1>12 DEF PruneStart
      <4> QED
        BY <4>1, <4>2 DEF TypeOK
    <3>2. \A j \in Instance : pruneTodo'[j] # {} => pruning'[j]
      BY <1>12 DEF PruneStart, TypeOK
    <3> QED
      BY <1>12, <2>1, <3>1, <3>2 DEF PruneStart, TypeOK, StoreType, reqVars
<1>13. ASSUME NEW i \in Instance, PruneDelete(i) PROVE TypeOK'
  <2>1. StoreType'
    <3>1. PICK k \in pruneTodo[i] : DeleteOk(k) \/ DeleteFails(k)
      BY <1>13 DEF PruneDelete
    <3>2. k \in Key
      BY <3>1 DEF TypeOK
    <3> QED
      BY <3>1, <3>2, <1>a, StoreAssumption
      DEF DeleteOk, DeleteFails, Fault, StoreType
  <2> QED
    BY <1>13, <2>1 DEF PruneDelete, TypeOK, StoreType, reqVars
<1>14. ASSUME NEW i \in Instance, PruneFinish(i) PROVE TypeOK'
  BY <1>14 DEF PruneFinish, TypeOK, reqVars
<1>15. ASSUME NEW i \in Instance, DrainHsm(i) PROVE TypeOK'
  <2>1. /\ hsmsub_chan \in [Instance -> Seq(HsmRequest)]
        /\ \A j \in Instance : Len(hsmsub_chan[j]) <= ChanCap
        /\ hsmsub_chan[i] # <<>>
        /\ hsmsub_chan' = [hsmsub_chan EXCEPT ![i] = Tail(@)]
    BY <1>15 DEF DrainHsm, TypeOK
  <2>2. /\ hsmsub_chan' \in [Instance -> Seq(HsmRequest)]
        /\ \A j \in Instance : Len(hsmsub_chan'[j]) <= ChanCap
    BY <2>1, SubAssumption
  <2> QED
    BY <1>15, <2>2 DEF DrainHsm, TypeOK, storeVars, reqVars
<1>20. ASSUME NEW i \in Instance, RequeueHsm(i) PROVE TypeOK'
  <2>1. /\ hsmsub_chan \in [Instance -> Seq(HsmRequest)]
        /\ \A j \in Instance : Len(hsmsub_chan[j]) <= ChanCap
        /\ hsmsub_chan[i] # <<>>
        /\ hsmsub_chan' = [hsmsub_chan EXCEPT ![i] = Append(Tail(@), Head(@))]
    BY <1>20 DEF RequeueHsm, TypeOK
  <2>2. /\ hsmsub_chan' \in [Instance -> Seq(HsmRequest)]
        /\ \A j \in Instance : Len(hsmsub_chan'[j]) <= ChanCap
    BY <2>1, SubAssumption
  <2> QED
    BY <1>20, <2>2 DEF RequeueHsm, TypeOK, storeVars, reqVars
<1>16. ASSUME NEW i \in Instance, Crash(i) PROVE TypeOK'
  BY <1>16, TypeCrash
<1>17. ASSUME NEW i \in Instance, NEW X \in SUBSET Downable, MarkDown(i, X)
       PROVE  TypeOK'
  <2>1. X \X {NoAgent} \subseteq Name
    BY SubAssumption DEF Name, AnyAgent
  <2> QED
    BY <1>17, <2>1, SubAssumption DEF MarkDown, Mark, TypeOK, subVars
<1>18. CASE UNCHANGED vars
  BY <1>18 DEF vars, storeVars, subVars, TypeOK
<1>19. \A i \in MayCrash : i \in Instance
  BY SubAssumption
<1> QED
  BY <1>1, <1>2, <1>3, <1>4, <1>5, <1>6, <1>7, <1>8, <1>9, <1>10, <1>11,
     <1>12, <1>13, <1>14, <1>15, <1>16, <1>17, <1>18, <1>19, <1>20
  DEF Next, Handler, Pruner

\* The types hold throughout, and hsmsub_chan never overflows.
THEOREM TypeCorrect == SafetySpec => []TypeOK
  BY TypeInit, TypeStep, PTL DEF SafetySpec

-----------------------------------------------------------------------------
(* The inductive invariant *)

\* Key k has the name request o is about.
Matched(o, k) == /\ k.xname = o.xname
                 /\ k.agent = o.agent \/ o.kind = "deleteXName"

\* A handler is at a step of its own method, and works on keys of the name it
\* was asked for.
HandlerInv(r) ==
    /\ pc[r] \in {"get", "store", "notify"} => op[r].kind = "post"
    /\ pc[r] \in {"patchList", "patchDelete", "patchStore"}
          => op[r].kind \in PatchKind
    /\ pc[r] \in {"deleteList", "deleteKey", "deleteMark"}
          => op[r].kind \in DeleteKind
    /\ pc[r] \in {"patchDelete", "deleteMark"} => Matched(op[r], cur[r])
    /\ pc[r] \in {"deleteKey", "deleteMark"}
          => \A k \in todo[r] : Matched(op[r], k)
    /\ pc[r] = "new" => resp[r] = "none"

\* Whatever the prune maps and the pruners are after may be removed, and not
\* on account of a PATCH.
PruneInv == \A i \in Instance, k \in Key :
                Pruned(prunemap[i], k) \/ k \in pruneTodo[i] => Doomed(k)

\* From the moment a POST has stored its record, the record is there or
\* someone was entitled to remove it.
PostInv == \A r \in Req : pc[r] = "notify" \/ AckedPost(r) =>
               LET k == makeSubscriptionKey(op[r])
               IN kv[k] # None \/ Targeted(k)

IInv == TypeOK /\ (\A r \in Req : HandlerInv(r)) /\ PruneInv /\ PostInv

\* What a handler's match on names gives: the records a marked name takes with
\* it are within the reach of the request.
LEMMA MatchedReaches ==
  ASSUME NEW o \in Op, NEW k \in Key, NEW k2 \in Key,
         o.kind \in DeleteKind, Matched(o, k), Pruned({NameOf(k)}, k2)
  PROVE  Reaches(o, k2)
  BY DEF Matched, Pruned, NameOf, Reaches, DeleteKind

LEMMA MatchesMatched ==
  ASSUME NEW o \in Op, NEW k \in Key, o.kind # "post", Matches(o, k)
  PROVE  Matched(o, k)
<1>1. o.kind \in OpKind
  BY DEF Op
<1> QED
  BY <1>1 DEF Matches, Matched, NameOf, OpKind

\* No step takes back what makes a record a target.
LEMMA TargetStep ==
  ASSUME TypeOK, [Next]_vars
  PROVE  /\ downed \subseteq downed'
         /\ \A r \in Req : Begun(r) => Begun(r)' /\ op'[r] = op[r]
<1> USE DEF Begun
<1>1. ASSUME NEW r \in Req, Arrive(r) \/ Reject(r)
      PROVE  /\ downed \subseteq downed'
             /\ \A q \in Req : Begun(q) => Begun(q)' /\ op'[q] = op[q]
  BY <1>1 DEF Arrive, Reject, Goto, TypeOK, storeVars
<1>2. ASSUME NEW r \in Req, Handler(r)
      PROVE  /\ downed \subseteq downed'
             /\ \A q \in Req : Begun(q) => Begun(q)' /\ op'[q] = op[q]
  <2>1. op' = op /\ downed' = downed
    BY <1>2 DEF Handler, PostGet, PostStore, PostNotify, PatchList,
       PatchDelete, PatchStore, DeleteList, DeleteKey, DeleteMark, storeVars
  <2>2. \E n \in Pc \ {"new", "rejected"} : pc' = [pc EXCEPT ![r] = n]
    <3>1. \A n \in Pc \ {"new", "rejected"} : Goto(r, n) =>
             \E m \in Pc \ {"new", "rejected"} : pc' = [pc EXCEPT ![r] = m]
      BY DEF Goto
    <3>2. "done" \in Pc \ {"new", "rejected"}
      BY DEF Pc
    <3>3. \A a : Answer(r, a) =>
             \E m \in Pc \ {"new", "rejected"} : pc' = [pc EXCEPT ![r] = m]
      BY <3>2 DEF Answer
    <3>4. {"store", "notify", "patchStore", "patchDelete", "deleteKey",
           "deleteMark"} \subseteq Pc \ {"new", "rejected"}
      BY DEF Pc
    <3>5. \/ \E n \in {"store", "notify", "patchStore", "patchDelete",
                       "deleteKey", "deleteMark"} : Goto(r, n)
          \/ \E a \in {"ok", "refused", "error"} : Answer(r, a)
      <4>1. CASE PostGet(r)
        BY <4>1 DEF PostGet
      <4>2. CASE PostStore(r)
        BY <4>2 DEF PostStore
      <4>3. CASE PostNotify(r)
        BY <4>3 DEF PostNotify
      <4>4. CASE PatchList(r)
        BY <4>4 DEF PatchList
      <4>5. CASE PatchDelete(r)
        BY <4>5 DEF PatchDelete
      <4>6. CASE PatchStore(r)
        BY <4>6 DEF PatchStore
      <4>7. CASE DeleteList(r)
        BY <4>7 DEF DeleteList, DeleteAnswer
      <4>8. CASE DeleteKey(r)
        BY <4>8 DEF DeleteKey, Visited, DeleteAnswer
      <4>9. CASE DeleteMark(r)
        BY <4>9 DEF DeleteMark, Visited, DeleteAnswer
      <4> QED
        BY <1>2, <4>1, <4>2, <4>3, <4>4, <4>5, <4>6, <4>7, <4>8, <4>9
        DEF Handler
    <3> QED
      BY <3>1, <3>3, <3>4, <3>5
  <2> QED
    BY <2>1, <2>2 DEF TypeOK
<1>3. ASSUME NEW i \in Instance, Pruner(i) \/ DrainHsm(i) \/ RequeueHsm(i)
      PROVE  UNCHANGED <<downed, pc, op>>
  BY <1>3 DEF Pruner, PruneStart, PruneDelete, PruneFinish, DrainHsm, RequeueHsm,
     reqVars, storeVars
<1>4. ASSUME NEW i \in Instance, Crash(i)
      PROVE  /\ downed \subseteq downed'
             /\ \A q \in Req : Begun(q) => Begun(q)' /\ op'[q] = op[q]
  BY <1>4 DEF Crash
<1>5. ASSUME NEW i \in Instance, NEW X \in SUBSET Downable, MarkDown(i, X)
      PROVE  /\ downed \subseteq downed'
             /\ \A q \in Req : Begun(q) => Begun(q)' /\ op'[q] = op[q]
  BY <1>5 DEF MarkDown, subVars
<1>6. CASE UNCHANGED vars
  BY <1>6 DEF vars, storeVars, subVars
<1>7. \A i \in MayCrash : i \in Instance
  BY SubAssumption
<1> QED
  BY <1>1, <1>2, <1>3, <1>4, <1>5, <1>6, <1>7 DEF Next

LEMMA TargetedKept ==
  ASSUME TypeOK, [Next]_vars, NEW k \in Key, Targeted(k)
  PROVE  Targeted(k)'
  BY TargetStep DEF Targeted

LEMMA DoomedKept ==
  ASSUME TypeOK, [Next]_vars, NEW k \in Key, Doomed(k)
  PROVE  Doomed(k)'
  BY TargetStep DEF Doomed

LEMMA DoomedTargeted ==
  ASSUME NEW k \in Key, Doomed(k)
  PROVE  Targeted(k)
  BY DEF Doomed, Targeted

\* The other requests' handlers are where they were.
Others(r) == \A q \in Req \ {r} :
    /\ pc'[q] = pc[q] /\ op'[q] = op[q] /\ cur'[q] = cur[q]
    /\ todo'[q] = todo[q] /\ resp'[q] = resp[q]

LEMMA OthersKeep ==
  ASSUME NEW r \in Req, Others(r), \A q \in Req : HandlerInv(q),
         HandlerInv(r)'
  PROVE  \A q \in Req : HandlerInv(q)'
  BY DEF Others, HandlerInv

\* Every handler stays within its method and its name.
LEMMA HandlerStep ==
  ASSUME TypeOK, \A r \in Req : HandlerInv(r), [Next]_vars
  PROVE  \A r \in Req : HandlerInv(r)'
<1>a. \A r \in Req : op[r] \in Op
  BY SubAssumption DEF TypeOK
<1>1. ASSUME NEW r \in Req, Arrive(r) PROVE \A q \in Req : HandlerInv(q)'
  <2>1. PICK o \in Ops : /\ op' = [op EXCEPT ![r] = o]
                         /\ Goto(r, First(o))
    BY <1>1 DEF Arrive
  <2>2. o.kind \in OpKind
    BY SubAssumption DEF Op
  <2>3. /\ pc'[r] = First(o) /\ op'[r] = o
        /\ First(o) = IF o.kind = "post" THEN "get"
                      ELSE IF o.kind \in PatchKind THEN "patchList"
                      ELSE "deleteList"
    BY <2>1, <2>2 DEF Goto, TypeOK, First, PatchKind, OpKind
  <2>4. HandlerInv(r)'
    BY <2>2, <2>3 DEF HandlerInv, OpKind, PatchKind, DeleteKind
  <2>5. Others(r)
    BY <1>1, <2>1 DEF Arrive, Goto, Others, TypeOK
  <2> QED
    BY <2>4, <2>5, OthersKeep
<1>2. ASSUME NEW r \in Req, Reject(r) PROVE \A q \in Req : HandlerInv(q)'
  <2>1. Others(r) /\ HandlerInv(r)'
    BY <1>2 DEF Reject, Others, HandlerInv, TypeOK
  <2> QED
    BY <2>1, OthersKeep
<1>3. ASSUME NEW r \in Req, PostGet(r) \/ PostStore(r) \/ PostNotify(r)
      PROVE  \A q \in Req : HandlerInv(q)'
  <2>1. /\ op' = op /\ cur' = cur /\ todo' = todo
        /\ pc[r] \in {"get", "store", "notify"}
        /\ \/ Goto(r, "store") \/ Goto(r, "notify")
           \/ \E a \in {"ok", "refused", "error"} : Answer(r, a)
    BY <1>3 DEF PostGet, PostStore, PostNotify
  <2>2. Others(r) /\ HandlerInv(r)'
    BY <2>1 DEF Goto, Answer, Others, HandlerInv, TypeOK
  <2> QED
    BY <2>2, OthersKeep
<1>4. ASSUME NEW r \in Req, PatchList(r) PROVE \A q \in Req : HandlerInv(q)'
  <2>1. CASE \E k \in Stored :
             /\ Matches(op[r], k)
             /\ cur' = [cur EXCEPT ![r] = k]
             /\ \/ Goto(r, "patchStore") \/ Goto(r, "patchDelete")
    <3>1. PICK k \in Stored :
             /\ Matches(op[r], k)
             /\ cur' = [cur EXCEPT ![r] = k]
             /\ \/ Goto(r, "patchStore") \/ Goto(r, "patchDelete")
      BY <2>1
    <3>2. op[r].kind \in PatchKind
      BY <1>4 DEF PatchList, HandlerInv
    <3>3. Matched(op[r], k)
      BY <1>a, <3>1, <3>2, MatchesMatched DEF Stored, PatchKind
    <3>4. op' = op /\ todo' = todo /\ cur'[r] = k
      BY <1>4, <3>1 DEF PatchList, TypeOK
    <3>5. HandlerInv(r)'
      BY <3>1, <3>2, <3>3, <3>4 DEF Goto, HandlerInv, TypeOK
    <3>6. Others(r)
      BY <3>1, <3>4 DEF Goto, Others, TypeOK
    <3> QED
      BY <3>5, <3>6, OthersKeep
  <2>2. CASE \E a \in {"ok", "error"} : Answer(r, a) /\ cur' = cur
    <3>1. op' = op /\ todo' = todo
      BY <1>4 DEF PatchList
    <3>2. Others(r) /\ HandlerInv(r)'
      BY <2>2, <3>1 DEF Answer, Others, HandlerInv, TypeOK
    <3> QED
      BY <3>2, OthersKeep
  <2> QED
    BY <1>4, <2>1, <2>2 DEF PatchList
<1>5. ASSUME NEW r \in Req, PatchDelete(r) \/ PatchStore(r)
      PROVE  \A q \in Req : HandlerInv(q)'
  <2>1. /\ op' = op /\ cur' = cur /\ todo' = todo
        /\ pc[r] \in {"patchDelete", "patchStore"}
        /\ \/ Goto(r, "patchStore")
           \/ \E a \in {"ok", "refused", "error"} : Answer(r, a)
    BY <1>5 DEF PatchDelete, PatchStore
  <2>2. Others(r) /\ HandlerInv(r)'
    BY <2>1 DEF Goto, Answer, Others, HandlerInv, TypeOK
  <2> QED
    BY <2>2, OthersKeep
<1>6. ASSUME NEW r \in Req, DeleteList(r) PROVE \A q \in Req : HandlerInv(q)'
  <2> DEFINE found == {k \in Stored : Matches(op[r], k)}
  <2>1. op[r].kind \in DeleteKind /\ op' = op /\ cur' = cur
    BY <1>6 DEF DeleteList, HandlerInv
  <2>2. \A k \in found : Matched(op[r], k)
    BY <1>a, <2>1, MatchesMatched DEF Stored, DeleteKind
  <2>3. \/ todo' = [todo EXCEPT ![r] = found] /\ Goto(r, "deleteKey")
        \/ /\ \E a \in {"ok", "refused", "error"} : Answer(r, a)
           /\ todo' = [todo EXCEPT ![r] = found] \/ todo' = todo
    BY <1>6 DEF DeleteList, DeleteAnswer
  <2> HIDE DEF found
  <2>4. HandlerInv(r)'
    BY <2>1, <2>2, <2>3 DEF Goto, Answer, HandlerInv, TypeOK
  <2>5. Others(r)
    BY <2>1, <2>3 DEF Goto, Answer, Others, TypeOK
  <2> QED
    BY <2>4, <2>5, OthersKeep
<1>7. ASSUME NEW r \in Req, DeleteKey(r) PROVE \A q \in Req : HandlerInv(q)'
  <2>1. PICK k \in todo[r] :
          /\ cur' = [cur EXCEPT ![r] = k]
          /\ \/ DeleteOk(k) /\ Goto(r, "deleteMark") /\ UNCHANGED todo
             \/ DeleteFails(k) /\ Visited(r, k)
    BY <1>7, Zenon DEF DeleteKey
  <2>2. /\ op[r].kind \in DeleteKind /\ op' = op /\ cur'[r] = k
        /\ \A j \in todo[r] : Matched(op[r], j)
    BY <1>7, <2>1 DEF DeleteKey, HandlerInv, TypeOK
  <2>3. CASE DeleteOk(k) /\ Goto(r, "deleteMark") /\ UNCHANGED todo
    <3>1. HandlerInv(r)' /\ Others(r)
      BY <2>1, <2>2, <2>3 DEF Goto, HandlerInv, Others, TypeOK
    <3> QED
      BY <3>1, OthersKeep
  <2>4. CASE DeleteFails(k) /\ Visited(r, k)
    <3>1. /\ todo'[r] = todo[r] \ {k}
          /\ \A q \in Req \ {r} : todo'[q] = todo[q] /\ cur'[q] = cur[q]
          /\ (\E a \in {"ok", "refused"} : Answer(r, a)) \/ Goto(r, "deleteKey")
      BY <2>1, <2>4 DEF Visited, DeleteAnswer, TypeOK
    <3>2. HandlerInv(r)'
      BY <2>2, <3>1 DEF Answer, Goto, HandlerInv, TypeOK
    <3>3. Others(r)
      BY <2>2, <3>1 DEF Answer, Goto, Others, TypeOK
    <3> QED
      BY <3>2, <3>3, OthersKeep
  <2> QED
    BY <2>1, <2>3, <2>4
<1>8. ASSUME NEW r \in Req, DeleteMark(r) PROVE \A q \in Req : HandlerInv(q)'
  <2>1. /\ op[r].kind \in DeleteKind /\ op' = op /\ cur' = cur
        /\ \A j \in todo[r] : Matched(op[r], j)
    BY <1>8 DEF DeleteMark, HandlerInv, TypeOK
  <2>2. /\ todo'[r] = todo[r] \ {cur[r]}
        /\ \A q \in Req \ {r} : todo'[q] = todo[q]
        /\ (\E a \in {"ok", "refused"} : Answer(r, a)) \/ Goto(r, "deleteKey")
    BY <1>8 DEF DeleteMark, Visited, DeleteAnswer, TypeOK
  <2>3. HandlerInv(r)'
    BY <2>1, <2>2 DEF Answer, Goto, HandlerInv, TypeOK
  <2>4. Others(r)
    BY <2>1, <2>2 DEF Answer, Goto, Others, TypeOK
  <2> QED
    BY <2>3, <2>4, OthersKeep
<1>9. ASSUME NEW i \in Instance, Crash(i) PROVE \A q \in Req : HandlerInv(q)'
  BY <1>9 DEF Crash, HandlerInv
<1>10. ASSUME UNCHANGED reqVars PROVE \A q \in Req : HandlerInv(q)'
  BY <1>10 DEF reqVars, HandlerInv
<1>11. ASSUME NEW i \in Instance, Pruner(i) \/ DrainHsm(i) \/ RequeueHsm(i)
       PROVE  UNCHANGED reqVars
  BY <1>11 DEF Pruner, PruneStart, PruneDelete, PruneFinish, DrainHsm, RequeueHsm
<1>12. ASSUME NEW i \in Instance, NEW X \in SUBSET Downable, MarkDown(i, X)
       PROVE  UNCHANGED reqVars
  BY <1>12 DEF MarkDown, subVars, reqVars
<1>13. CASE UNCHANGED vars
  BY <1>10, <1>13 DEF vars, subVars, reqVars
<1>14. \A i \in MayCrash : i \in Instance
  BY SubAssumption
<1> QED
  BY <1>1, <1>2, <1>3, <1>4, <1>5, <1>6, <1>7, <1>8, <1>9, <1>10, <1>11,
     <1>12, <1>13, <1>14
  DEF Next, Handler

\* An entry more in a prune map takes only targets with it.
LEMMA PrunedUnion ==
  ASSUME NEW m, NEW n, NEW k
  PROVE  Pruned(m \cup n, k) => Pruned(m, k) \/ Pruned(n, k)
  BY DEF Pruned

\* What the prune maps and the pruners are after stays within what may be
\* removed.
LEMMA PruneStep ==
  ASSUME TypeOK, \A r \in Req : HandlerInv(r), PruneInv, [Next]_vars
  PROVE  PruneInv'
<1>a. \A k \in Key : Doomed(k) => Doomed(k)'
  BY DoomedKept
<1>b. \A r \in Req : op[r] \in Op
  BY SubAssumption DEF TypeOK
<1>1. ASSUME UNCHANGED <<prunemap, pruneTodo>> PROVE PruneInv'
  BY <1>1, <1>a DEF PruneInv
<1>2. ASSUME NEW r \in Req, DeleteMark(r) PROVE PruneInv'
  <2>1. /\ op[r].kind \in DeleteKind /\ Matched(op[r], cur[r])
        /\ cur[r] \in Key /\ Begun(r)
    BY <1>2 DEF DeleteMark, HandlerInv, TypeOK, Begun
  <2>2. \A k \in Key : Pruned({NameOf(cur[r])}, k) => Doomed(k)
    BY <1>b, <2>1, MatchedReaches DEF Doomed
  <2>3. /\ pruneTodo' = pruneTodo
        /\ \A j \in Instance : prunemap'[j] = prunemap[j]
              \/ prunemap'[j] = prunemap[j] \cup {NameOf(cur[r])}
    BY <1>2 DEF DeleteMark, Mark, TypeOK
  <2> QED
    BY <1>a, <2>2, <2>3, PrunedUnion DEF PruneInv
<1>3. ASSUME NEW i \in Instance, PruneStart(i) PROVE PruneInv'
  <2>1. \A k \in Key : k \in {j \in Stored : Pruned(prunemap[i], j)}
                          => Doomed(k)
    BY DEF PruneInv
  <2>2. /\ prunemap' = prunemap
        /\ \A j \in Instance : pruneTodo'[j] = pruneTodo[j]
              \/ pruneTodo'[j] = {k \in Stored : Pruned(prunemap[i], k)}
    BY <1>3 DEF PruneStart, TypeOK
  <2> QED
    BY <1>a, <2>1, <2>2 DEF PruneInv
<1>4. ASSUME NEW i \in Instance, PruneDelete(i) PROVE PruneInv'
  <2>1. /\ prunemap' = prunemap
        /\ \A j \in Instance : pruneTodo'[j] \subseteq pruneTodo[j]
    BY <1>4 DEF PruneDelete, TypeOK
  <2> QED
    BY <1>a, <2>1 DEF PruneInv
<1>5. ASSUME NEW i \in Instance, PruneFinish(i) \/ Crash(i) PROVE PruneInv'
  <2>1. /\ \A j \in Instance : prunemap'[j] = prunemap[j] \/ prunemap'[j] = {}
        /\ \A j \in Instance : pruneTodo'[j] \subseteq pruneTodo[j]
    BY <1>5 DEF PruneFinish, Crash, TypeOK
  <2> QED
    BY <1>a, <2>1 DEF PruneInv, Pruned
<1>6. ASSUME NEW i \in Instance, NEW X \in SUBSET Downable, MarkDown(i, X)
      PROVE  PruneInv'
  <2>1. \A k \in Key : Pruned(X \X {NoAgent}, k) => Doomed(k)'
    BY <1>6 DEF MarkDown, Pruned, NameOf, Doomed
  <2>2. /\ pruneTodo' = pruneTodo
        /\ \A j \in Instance : prunemap'[j] = prunemap[j]
              \/ prunemap'[j] = prunemap[j] \cup (X \X {NoAgent})
    BY <1>6 DEF MarkDown, Mark, TypeOK, subVars
  <2> QED
    BY <1>a, <2>1, <2>2, PrunedUnion DEF PruneInv
<1>7. ASSUME NEW r \in Req,
             \/ Arrive(r) \/ Reject(r) \/ PostGet(r) \/ PostStore(r)
             \/ PostNotify(r) \/ PatchList(r) \/ PatchDelete(r)
             \/ PatchStore(r) \/ DeleteList(r) \/ DeleteKey(r)
      PROVE  UNCHANGED <<prunemap, pruneTodo>>
  BY <1>7 DEF Arrive, Reject, PostGet, PostStore, PostNotify, PatchList,
     PatchDelete, PatchStore, DeleteList, DeleteKey, storeVars
<1>8. ASSUME NEW i \in Instance, DrainHsm(i) \/ RequeueHsm(i)
      PROVE  UNCHANGED <<prunemap, pruneTodo>>
  BY <1>8 DEF DrainHsm, RequeueHsm, storeVars
<1>9. CASE UNCHANGED vars
  BY <1>1, <1>9 DEF vars, storeVars, subVars
<1>10. \A i \in MayCrash : i \in Instance
  BY SubAssumption
<1> QED
  BY <1>1, <1>2, <1>3, <1>4, <1>5, <1>6, <1>7, <1>8, <1>9, <1>10
  DEF Next, Handler, Pruner

\* Only a target is ever removed.
LEMMA Removal ==
  ASSUME TypeOK, \A r \in Req : HandlerInv(r), PruneInv, [Next]_vars,
         NEW k \in Key, kv[k] # None
  PROVE  kv'[k] # None \/ Targeted(k)
<1>a. \A r \in Req : op[r] \in Op
  BY SubAssumption DEF TypeOK
<1>1. ASSUME NEW r \in Req, PostStore(r) \/ PatchStore(r)
      PROVE  kv'[k] # None
  <2>1. Entry(op[r]) # None
    BY <1>a, EntryType
  <2> QED
    BY <1>1, <2>1
    DEF PostStore, PatchStore, StoreOk, StoreFails, Fault, TypeOK
<1>2. ASSUME NEW r \in Req, PatchDelete(r)
      PROVE  kv'[k] # None \/ Targeted(k)
  <2>1. kv'[k] = kv[k] \/ k = cur[r]
    BY <1>2 DEF PatchDelete, DeleteOk, DeleteFails, Fault, TypeOK
  <2>2. Begun(r) /\ Reaches(op[r], cur[r])
    BY <1>2 DEF PatchDelete, HandlerInv, Matched, Reaches, PatchKind, Begun
  <2> QED
    BY <2>1, <2>2 DEF Targeted
<1>3. ASSUME NEW r \in Req, DeleteKey(r)
      PROVE  kv'[k] # None \/ Targeted(k)
  <2>1. kv'[k] = kv[k] \/ k \in todo[r]
    BY <1>3 DEF DeleteKey, DeleteOk, DeleteFails, Fault, TypeOK
  <2>2. Begun(r) /\ \A j \in todo[r] : Reaches(op[r], j)
    BY <1>3 DEF DeleteKey, HandlerInv, Matched, Reaches, DeleteKind, Begun
  <2> QED
    BY <2>1, <2>2 DEF Targeted
<1>4. ASSUME NEW i \in Instance, PruneDelete(i)
      PROVE  kv'[k] # None \/ Targeted(k)
  <2>1. kv'[k] = kv[k] \/ k \in pruneTodo[i]
    BY <1>4 DEF PruneDelete, DeleteOk, DeleteFails, Fault, TypeOK
  <2> QED
    BY <2>1, DoomedTargeted DEF PruneInv
<1>5. ASSUME NEW r \in Req,
             \/ Arrive(r) \/ Reject(r) \/ PostGet(r) \/ PostNotify(r)
             \/ PatchList(r) \/ DeleteList(r) \/ DeleteMark(r)
      PROVE  kv' = kv
  BY <1>5 DEF Arrive, Reject, PostGet, PostNotify, PatchList, DeleteList,
     DeleteMark, ReadFails, storeVars
<1>6. ASSUME NEW i \in Instance,
             \/ PruneStart(i) \/ PruneFinish(i)
             \/ DrainHsm(i) \/ RequeueHsm(i) \/ Crash(i)
      PROVE  kv' = kv
  BY <1>6 DEF PruneStart, PruneFinish, DrainHsm, RequeueHsm,
     Crash, ReadFails,
     storeVars
<1>7. ASSUME NEW i \in Instance, NEW X \in SUBSET Downable, MarkDown(i, X)
      PROVE  kv' = kv
  BY <1>7 DEF MarkDown
<1>8. CASE UNCHANGED vars
  BY <1>8 DEF vars, storeVars
<1>9. \A i \in MayCrash : i \in Instance
  BY SubAssumption
<1> QED
  BY <1>1, <1>2, <1>3, <1>4, <1>5, <1>6, <1>7, <1>8, <1>9
  DEF Next, Handler, Pruner

\* A POST becomes one whose record must stand only by storing it.
Posted(r) == pc[r] = "notify" \/ AckedPost(r)

LEMMA NewlyPosted ==
  ASSUME TypeOK, \A r \in Req : HandlerInv(r), [Next]_vars,
         NEW q \in Req, Posted(q)'
  PROVE  /\ op'[q] = op[q]
         /\ Posted(q) \/ kv'[makeSubscriptionKey(op[q])] # None
<1> DEFINE Goal == /\ op'[q] = op[q]
                   /\ Posted(q) \/ kv'[makeSubscriptionKey(op[q])] # None
<1> USE DEF Posted, AckedPost
<1>1. ASSUME NEW r \in Req, Arrive(r) PROVE Goal
  <2>1. PICK o \in Ops : /\ op' = [op EXCEPT ![r] = o]
                         /\ Goto(r, First(o))
    BY <1>1 DEF Arrive
  <2>2. First(o) # "notify" /\ resp[r] = "none"
    BY <1>1, FirstType, SubAssumption DEF Arrive, HandlerInv
  <2> QED
    BY <2>1, <2>2 DEF Goto, TypeOK
<1>2. ASSUME NEW r \in Req, Reject(r) PROVE Goal
  BY <1>2 DEF Reject, TypeOK
<1>3. ASSUME NEW r \in Req, PostGet(r) PROVE Goal
  BY <1>3 DEF PostGet, Goto, Answer, TypeOK
<1>4. ASSUME NEW r \in Req, PostStore(r) PROVE Goal
  <2>1. op' = op
    BY <1>4 DEF PostStore
  <2>2. makeSubscriptionKey(op[r]) \in Key /\ Entry(op[r]) # None
    BY KeyType, EntryType, SubAssumption DEF TypeOK
  <2>3. \/ kv'[makeSubscriptionKey(op[r])] # None /\ Goto(r, "notify")
        \/ Answer(r, "error")
    BY <1>4, <2>2 DEF PostStore, StoreOk, TypeOK
  <2> QED
    BY <2>1, <2>3 DEF Goto, Answer, TypeOK
<1>5. ASSUME NEW r \in Req, PostNotify(r) PROVE Goal
  BY <1>5 DEF PostNotify, Answer, TypeOK
<1>6. ASSUME NEW r \in Req,
             \/ PatchList(r) \/ PatchDelete(r) \/ PatchStore(r)
             \/ DeleteList(r) \/ DeleteKey(r) \/ DeleteMark(r)
      PROVE  Goal
  <2>1. op' = op /\ op[r].kind # "post"
    BY <1>6 DEF PatchList, PatchDelete, PatchStore, DeleteList, DeleteKey,
       DeleteMark, HandlerInv, PatchKind, DeleteKind
  <2>2. \/ \E n \in {"patchStore", "patchDelete", "deleteKey", "deleteMark"} :
              Goto(r, n)
        \/ \E a \in {"ok", "refused", "error"} : Answer(r, a)
    BY <1>6 DEF PatchList, PatchDelete, PatchStore, DeleteList, DeleteKey,
       DeleteMark, Visited, DeleteAnswer
  <2> QED
    BY <2>1, <2>2 DEF Goto, Answer, TypeOK
<1>7. ASSUME NEW i \in Instance, Crash(i) PROVE Goal
  BY <1>7 DEF Crash
<1>8. ASSUME NEW i \in Instance, Pruner(i) \/ DrainHsm(i) \/ RequeueHsm(i)
      PROVE  Goal
  BY <1>8 DEF Pruner, PruneStart, PruneDelete, PruneFinish, DrainHsm, RequeueHsm,
     reqVars
<1>9. ASSUME NEW i \in Instance, NEW X \in SUBSET Downable, MarkDown(i, X)
      PROVE  Goal
  BY <1>9 DEF MarkDown, subVars
<1>10. CASE UNCHANGED vars
  BY <1>10 DEF vars, subVars
<1>11. \A i \in MayCrash : i \in Instance
  BY SubAssumption
<1> QED
  BY <1>1, <1>2, <1>3, <1>4, <1>5, <1>6, <1>7, <1>8, <1>9, <1>10, <1>11
  DEF Next, Handler

\* Init and every step establish the whole invariant.
LEMMA IInvInit == Init => IInv
<1> SUFFICES ASSUME Init PROVE IInv
  OBVIOUS
<1>1. TypeOK
  BY TypeInit
<1>2. \A r \in Req : HandlerInv(r)
  BY DEF Init, HandlerInv
<1>3. PruneInv
  BY DEF Init, StoreInit, PruneInv, Pruned
<1>4. PostInv
  BY DEF Init, PostInv, AckedPost
<1> QED
  BY <1>1, <1>2, <1>3, <1>4 DEF IInv

LEMMA IInvStep == IInv /\ [Next]_vars => IInv'
<1> SUFFICES ASSUME IInv, [Next]_vars PROVE IInv'
  OBVIOUS
<1> USE DEF IInv
<1>1. TypeOK'
  BY TypeStep
<1>2. \A r \in Req : HandlerInv(r)'
  BY HandlerStep
<1>3. PruneInv'
  BY PruneStep
<1>4. PostInv'
  <2> SUFFICES ASSUME NEW r \in Req, Posted(r)'
               PROVE  (LET k == makeSubscriptionKey(op[r])
                       IN kv[k] # None \/ Targeted(k))'
    BY DEF PostInv, Posted
  <2>1. PICK k \in Key : k = makeSubscriptionKey(op[r])
    BY KeyType, SubAssumption DEF TypeOK
  <2>2. op'[r] = op[r] /\ (Posted(r) \/ kv'[k] # None)
    BY <2>1, NewlyPosted
  <2>3. Posted(r) => kv[k] # None \/ Targeted(k)
    BY <2>1 DEF PostInv, Posted
  <2>4. kv'[k] # None \/ Targeted(k)
    BY <2>2, <2>3, Removal
  <2>5. Targeted(k) => Targeted(k)'
    BY TargetedKept
  <2>6. k = makeSubscriptionKey(op[r])'
    BY <2>1, <2>2 DEF makeSubscriptionKey
  <2> QED
    BY <2>4, <2>5, <2>6 DEF Targeted
<1> QED
  BY <1>1, <1>2, <1>3, <1>4

\* Whatever the handlers, the pruners of any number of instances, crashes and
\* failing ETCD calls do: a subscription whose POST was answered ok stands
\* until someone is entitled to remove it.
THEOREM AckedPostsStand == SafetySpec => []AckedPostStands
<1>1. IInv => AckedPostStands
  BY DEF IInv, PostInv, AckedPostStands
<1> QED
  BY <1>1, IInvInit, IInvStep, PTL DEF SafetySpec

-----------------------------------------------------------------------------
(* PATCHes do not cost a subscriber its subscription *)

\* A PATCH of name n has deleted a record and not yet stored its own.
Replacing(n) == \E q \in Req : pc[q] \in {"patchStore", "dead"} /\ PatchOf(q, n)

\* Name n has a record, or one is about to be written.
Held(n) == (\E m \in Stored : NameOf(m) = n) \/ Replacing(n) \/ faults > 0

HeldInv == \A r \in Req : Posted(r) =>
               LET k == makeSubscriptionKey(op[r])
               IN Held(NameOf(k)) \/ Doomed(k)

\* Failures are only counted up.
LEMMA FaultsGrow ==
  ASSUME TypeOK, [Next]_vars
  PROVE  faults' >= faults
<1>a. faults \in Nat
  BY StoreAssumption DEF TypeOK
<1> USE <1>a DEF Fault, ReadFails, StoreOk, StoreFails, DeleteOk, DeleteFails
<1>1. ASSUME NEW r \in Req, Arrive(r) \/ Reject(r) \/ PostNotify(r) \/ DeleteMark(r)
      PROVE  faults' = faults
  BY <1>1 DEF Arrive, Reject, PostNotify, DeleteMark, storeVars
<1>2. ASSUME NEW r \in Req,
             \/ PostGet(r) \/ PostStore(r) \/ PatchList(r) \/ PatchDelete(r)
             \/ PatchStore(r) \/ DeleteList(r) \/ DeleteKey(r)
      PROVE  faults' >= faults
  BY <1>2 DEF PostGet, PostStore, PatchList, PatchDelete, PatchStore,
     DeleteList, DeleteKey
<1>3. ASSUME NEW i \in Instance,
             Pruner(i) \/ DrainHsm(i) \/ RequeueHsm(i) \/ Crash(i)
      PROVE  faults' >= faults
  BY <1>3 DEF Pruner, PruneStart, PruneDelete, PruneFinish, DrainHsm, RequeueHsm,
     Crash,
     storeVars
<1>4. ASSUME NEW i \in Instance, NEW X \in SUBSET Downable, MarkDown(i, X)
      PROVE  faults' = faults
  BY <1>4 DEF MarkDown
<1>5. CASE UNCHANGED vars
  BY <1>5 DEF vars, storeVars
<1>6. \A i \in MayCrash : i \in Instance
  BY SubAssumption
<1> QED
  BY <1>1, <1>2, <1>3, <1>4, <1>5, <1>6 DEF Next, Handler

\* A record goes because it is doomed, or because a PATCH of its name will
\* store another one.
LEMMA Replacement ==
  ASSUME TypeOK, \A r \in Req : HandlerInv(r), PruneInv, [Next]_vars,
         NEW m \in Key, kv[m] # None
  PROVE  \/ kv'[m] # None \/ Doomed(m) \/ Replacing(NameOf(m))' \/ faults' > 0
<1>a. \A r \in Req : op[r] \in Op
  BY SubAssumption DEF TypeOK
<1>b. faults \in Nat
  BY StoreAssumption DEF TypeOK
<1>1. ASSUME NEW r \in Req, PostStore(r) \/ PatchStore(r)
      PROVE  kv'[m] # None
  <2>1. Entry(op[r]) # None
    BY <1>a, EntryType
  <2> QED
    BY <1>1, <2>1
    DEF PostStore, PatchStore, StoreOk, StoreFails, Fault, TypeOK
<1>2. ASSUME NEW r \in Req, PatchDelete(r)
      PROVE  kv'[m] # None \/ Replacing(NameOf(m))' \/ faults' > 0
  <2>1. CASE DeleteOk(cur[r]) /\ Goto(r, "patchStore")
    <3>1. kv'[m] = kv[m] \/ m = cur[r]
      BY <2>1 DEF DeleteOk, TypeOK
    <3>2. /\ op[r].kind \in PatchKind /\ Matched(op[r], cur[r])
          /\ op' = op /\ pc'[r] = "patchStore"
      BY <1>2, <2>1 DEF PatchDelete, HandlerInv, Goto, TypeOK
    <3>3. PatchOf(r, NameOf(cur[r]))'
      BY <3>2, <1>2 DEF PatchDelete, PatchOf, Matched, NameOf, PatchKind
    <3>4. cur' = cur
      BY <1>2 DEF PatchDelete
    <3> QED
      BY <3>1, <3>2, <3>3, <3>4 DEF Replacing, PatchOf, NameOf
  <2>2. CASE DeleteFails(cur[r])
    BY <2>2, <1>b DEF DeleteFails, Fault
  <2> QED
    BY <1>2, <2>1, <2>2 DEF PatchDelete
<1>3. ASSUME NEW r \in Req, DeleteKey(r)
      PROVE  kv'[m] # None \/ Doomed(m)
  <2>1. kv'[m] = kv[m] \/ m \in todo[r]
    BY <1>3 DEF DeleteKey, DeleteOk, DeleteFails, Fault, TypeOK
  <2>2. /\ Begun(r) /\ op[r].kind \in DeleteKind
        /\ \A j \in todo[r] : Reaches(op[r], j)
    BY <1>3 DEF DeleteKey, HandlerInv, Matched, Reaches, DeleteKind, Begun
  <2> QED
    BY <2>1, <2>2 DEF Doomed
<1>4. ASSUME NEW i \in Instance, PruneDelete(i)
      PROVE  kv'[m] # None \/ Doomed(m)
  <2>1. kv'[m] = kv[m] \/ m \in pruneTodo[i]
    BY <1>4 DEF PruneDelete, DeleteOk, DeleteFails, Fault, TypeOK
  <2> QED
    BY <2>1 DEF PruneInv
<1>5. ASSUME NEW r \in Req,
             \/ Arrive(r) \/ Reject(r) \/ PostGet(r) \/ PostNotify(r)
             \/ PatchList(r) \/ DeleteList(r) \/ DeleteMark(r)
      PROVE  kv' = kv
  BY <1>5 DEF Arrive, Reject, PostGet, PostNotify, PatchList, DeleteList,
     DeleteMark, ReadFails, storeVars
<1>6. ASSUME NEW i \in Instance,
             \/ PruneStart(i) \/ PruneFinish(i)
             \/ DrainHsm(i) \/ RequeueHsm(i) \/ Crash(i)
      PROVE  kv' = kv
  BY <1>6 DEF PruneStart, PruneFinish, DrainHsm, RequeueHsm,
     Crash, ReadFails,
     storeVars
<1>7. ASSUME NEW i \in Instance, NEW X \in SUBSET Downable, MarkDown(i, X)
      PROVE  kv' = kv
  BY <1>7 DEF MarkDown
<1>8. CASE UNCHANGED vars
  BY <1>8 DEF vars, storeVars
<1>9. \A i \in MayCrash : i \in Instance
  BY SubAssumption
<1> QED
  BY <1>1, <1>2, <1>3, <1>4, <1>5, <1>6, <1>7, <1>8, <1>9
  DEF Next, Handler, Pruner

\* A PATCH that has deleted stays where it is until it stores, under the name
\* it was asked for.
LEMMA ReplacingStep ==
  ASSUME TypeOK, \A r \in Req : HandlerInv(r), [Next]_vars,
         NEW n, Replacing(n)
  PROVE  Held(n)'
<1>a. PICK q \in Req : pc[q] \in {"patchStore", "dead"} /\ PatchOf(q, n)
  BY DEF Replacing
<1>b. faults \in Nat
  BY StoreAssumption DEF TypeOK
<1>c. op'[q] = op[q]
  BY <1>a, TargetStep DEF Begun
<1>d. pc'[q] \in {"patchStore", "dead"} => Replacing(n)'
  BY <1>a, <1>c DEF Replacing, PatchOf
<1>1. ASSUME NEW r \in Req, PatchStore(r), r = q PROVE Held(n)'
  <2> DEFINE k == makeSubscriptionKey(op[q])
  <2>1. k \in Key /\ Entry(op[q]) # None /\ NameOf(k) = n
    BY <1>a, KeyType, EntryType, SubAssumption
    DEF TypeOK, NameOf, makeSubscriptionKey, PatchOf
  <2>2. CASE StoreOk(k, Entry(op[q]))
    <3>1. kv'[k] # None
      BY <2>1, <2>2 DEF StoreOk, TypeOK
    <3> QED
      BY <2>1, <3>1 DEF Held, Stored
  <2>3. CASE StoreFails(k, Entry(op[q]))
    BY <2>3, <1>b DEF StoreFails, Fault, Held
  <2> QED
    BY <1>1, <2>2, <2>3 DEF PatchStore
<1>2. ASSUME NEW r \in Req,
             \/ Arrive(r) \/ Reject(r) \/ PostGet(r) \/ PostStore(r)
             \/ PostNotify(r) \/ PatchList(r) \/ PatchDelete(r)
             \/ DeleteList(r) \/ DeleteKey(r) \/ DeleteMark(r)
      PROVE  pc'[q] = pc[q]
  <2>1. pc[r] \notin {"patchStore", "dead"}
    BY <1>2 DEF Arrive, Reject, PostGet, PostStore, PostNotify, PatchList,
       PatchDelete, DeleteList, DeleteKey, DeleteMark
  <2>2. \E p : pc' = [pc EXCEPT ![r] = p]
    BY <1>2 DEF Arrive, Reject, PostGet, PostStore, PostNotify, PatchList,
       PatchDelete, DeleteList, DeleteKey, DeleteMark, Visited, Goto, Answer
  <2> QED
    BY <1>a, <2>1, <2>2 DEF TypeOK
<1>3. ASSUME NEW r \in Req, PatchStore(r), r # q PROVE pc'[q] = pc[q]
  BY <1>3 DEF PatchStore, Answer, TypeOK
<1>4. ASSUME NEW i \in Instance, Crash(i) PROVE pc'[q] \in {pc[q], "dead"}
  BY <1>4 DEF Crash
<1>5. ASSUME NEW i \in Instance, Pruner(i) \/ DrainHsm(i) \/ RequeueHsm(i)
      PROVE  pc' = pc
  BY <1>5 DEF Pruner, PruneStart, PruneDelete, PruneFinish, DrainHsm, RequeueHsm,
     reqVars
<1>6. ASSUME NEW i \in Instance, NEW X \in SUBSET Downable, MarkDown(i, X)
      PROVE  pc' = pc
  BY <1>6 DEF MarkDown, subVars
<1>7. CASE UNCHANGED vars
  BY <1>a, <1>d, <1>7 DEF vars, subVars, Held
<1>8. \A i \in MayCrash : i \in Instance
  BY SubAssumption
<1>9. pc'[q] \in {pc[q], "dead"} => Held(n)'
  BY <1>a, <1>d DEF Held
<1> QED
  BY <1>1, <1>2, <1>3, <1>4, <1>5, <1>6, <1>7, <1>8, <1>9 DEF Next, Handler

LEMMA HeldStep ==
  ASSUME IInv, HeldInv, [Next]_vars
  PROVE  HeldInv'
<1> USE DEF IInv
<1> SUFFICES ASSUME NEW r \in Req, Posted(r)'
             PROVE  (LET k == makeSubscriptionKey(op[r])
                     IN Held(NameOf(k)) \/ Doomed(k))'
  BY DEF HeldInv
<1>1. PICK k \in Key : k = makeSubscriptionKey(op[r])
  BY KeyType, SubAssumption DEF TypeOK
<1>2. op'[r] = op[r] /\ (Posted(r) \/ kv'[k] # None)
  BY <1>1, NewlyPosted
<1>3. Posted(r) => Held(NameOf(k)) \/ Doomed(k)
  BY <1>1 DEF HeldInv
<1>4. (makeSubscriptionKey(op[r]))' = k
  BY <1>1, <1>2 DEF makeSubscriptionKey
<1> SUFFICES Held(NameOf(k))' \/ Doomed(k)'
  BY <1>4 DEF Held, Doomed, Reaches, NameOf, Replacing, PatchOf
<1>5. CASE kv'[k] # None
  BY <1>5 DEF Held, Stored
<1>6. CASE Doomed(k)
  BY <1>6, DoomedKept
<1>7. CASE Replacing(NameOf(k))
  BY <1>7, ReplacingStep
<1>8. CASE faults > 0
  BY <1>8, FaultsGrow, StoreAssumption, TypeStep DEF Held, TypeOK
<1>9. ASSUME NEW m \in Stored, NameOf(m) = NameOf(k)
      PROVE  Held(NameOf(k))' \/ Doomed(k)'
  <2>1. m \in Key /\ kv[m] # None
    BY <1>9 DEF Stored
  <2>2. \/ kv'[m] # None \/ Doomed(m) \/ Replacing(NameOf(m))' \/ faults' > 0
    BY <2>1, Replacement
  <2>3. Doomed(m) => Doomed(k)
    BY <1>9 DEF Doomed, Reaches, NameOf
  <2>4. Doomed(k) => Doomed(k)'
    BY DoomedKept
  <2>5. kv'[m] # None => Held(NameOf(k))'
    BY <1>9, <2>1 DEF Held, Stored
  <2> QED
    BY <1>9, <2>2, <2>3, <2>4, <2>5 DEF Held
<1> QED
  BY <1>2, <1>3, <1>5, <1>6, <1>7, <1>8, <1>9 DEF Held

\* With any number of PATCHes of one name at once, on any number of instances:
\* the subscriber keeps a record, or gets one, until a failure, a DELETE, a
\* crash half-way or the component's end.
THEOREM PatchesReplace == SafetySpec => []PatchedStays
<1>1. Init => HeldInv
  BY DEF Init, HeldInv, Posted, AckedPost
<1>2. HeldInv => PatchedStays
  BY DEF HeldInv, PatchedStays, Posted, Held, Replacing
<1> QED
  BY <1>1, <1>2, IInvInit, IInvStep, HeldStep, PTL DEF SafetySpec
=============================================================================
