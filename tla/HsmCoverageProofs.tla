------------------------- MODULE HsmCoverageProofs --------------------------
(***************************************************************************)
(* Proofs about HsmCoverage, for any requests, attributes, channel size    *)
(* and number of failures: the goroutine behaves among the handlers as     *)
(* HsmSubscriber says, and what is stored has been asked for at HSM.       *)
(***************************************************************************)
EXTENDS HsmCoverage, HsmSubscriberProofs, SequenceTheorems

-----------------------------------------------------------------------------
(* The composition implements HsmSubscriber.                               *)

LEMMA CovIsNext == [CovNext]_covVars => [Next]_vars
<1> SUFFICES ASSUME [CovNext]_covVars PROVE [Next]_vars
  OBVIOUS
<1>1. CASE ApiStep
  BY <1>1 DEF ApiStep, ArriveStep, HandlerStep, PrunerStep
<1>2. CASE \E r \in Req : SendRequest(r)
  BY <1>2 DEF SendRequest, Next
<1>3. CASE ReceiveRequest
  BY <1>3 DEF ReceiveRequest, Next, Loop
<1>4. CASE SubscriberStep
  BY <1>4 DEF SubscriberStep, Next, Loop
<1>5. CASE ParamStep
  BY <1>5 DEF ParamStep, Next
<1>6. CASE RestartAll
  BY <1>6 DEF RestartAll, Next
<1>7. CASE UNCHANGED covVars
  BY <1>7 DEF covVars
<1> QED
  BY <1>1, <1>2, <1>3, <1>4, <1>5, <1>6, <1>7 DEF CovNext

\* Whatever the handlers and the pruner do, subscribeToHsmScn() behaves as it
\* does with a handler that may send any request at any time.
THEOREM CoverageImplementsSubscriber == CovSpec => SafetySpec
<1>1. CovInit => Init
  BY DEF CovInit
<1> QED
  BY <1>1, CovIsNext, PTL DEF CovSpec, SafetySpec

\* So what is proved of the goroutine alone holds of it here.
THEOREM SubscriberSafeHere ==
    CovSpec => [](TypeOK /\ NoRedundantPost /\ AckedTracked)
  BY CoverageImplementsSubscriber, TypeCorrect, NeverRedundant,
     AcknowledgedIsTracked, PTL

-----------------------------------------------------------------------------
(* The inductive invariant *)

\* Nothing has happened that may lose a request.
Clean == faults = 0 /\ kvFaults = 0 /\ restarts = 0 /\ ~nosmSeen

ApiTypes ==
    /\ kv \in [S!Key -> S!SubData \cup {None}]
    /\ reqPc \in [Req -> S!Pc]
    /\ op \in [Req -> S!Op]
    /\ at \in [Req -> {Self}]
    /\ kvFaults \in Nat
    /\ nosmSeen \in BOOLEAN /\ (nosm => nosmSeen)

\* Which handler is where.
KindInv ==
    \A r \in Req :
        /\ reqPc[r] \in {"get", "store", "notify"} => op[r].kind = "post"
        /\ reqPc[r] \in {"patchList", "patchDelete", "patchStore"}
              => op[r].kind \in {"patchV1", "patchV2"}

InHand == IF pc = "send" THEN sub.attrs ELSE {}

\* The tracker holds nothing that HSM does not have or is just being sent:
\* a request dropped because the tracker covers it has been asked for.
TrackedAsked == Clean => tracker.attrs \subseteq hsm.attrs \cup InHand

Asked == hsm.attrs \cup Waiting

\* The record of key k may be there without having been asked for.
Excepted(k) == \E r \in WrittenBy(k) : \/ op[r].kind # "post"
                                       \/ reqPc[r] = "notify"

StoredAsked ==
    Clean => \A k \in S!Stored : k.attrs \ {Enbl} \subseteq Asked \/ Excepted(k)

CovInv == TypeOK /\ ApiTypes /\ KindInv /\ TrackedAsked /\ StoredAsked

LEMMA CovInvImplies == CovInv => StoredIsAsked
<1> SUFFICES ASSUME CovInv, Clean PROVE StoredIsAsked
  BY DEF CovInv, StoredIsAsked, Clean, TypeOK, ApiTypes
<1> QED
  BY DEF CovInv, StoredAsked, StoredIsAsked, Asked, Excepted

\* What is waiting, before and after a step: on the channel or in hand.
LEMMA WaitingIs ==
  ASSUME NEW a
  PROVE  /\ a \in Waiting <=>
              \/ \E i \in 1..Len(hsmsub_chan) : a \in hsmsub_chan[i].attrs
              \/ a \in InHand
         /\ a \in Waiting' <=>
              \/ \E i \in 1..Len(hsmsub_chan') : a \in hsmsub_chan'[i].attrs
              \/ a \in InHand'
  BY DEF Waiting, InHand

-----------------------------------------------------------------------------
(* The goroutine's steps *)

\* Without a failure, nothing that has been asked for, or is on its way, is
\* lost between the channel, the goroutine and HSM.
LEMMA AskedGrows ==
  ASSUME TypeOK, TrackedAsked, Clean, Clean', [Next]_vars, (nosm => nosmSeen)
  PROVE  Asked \subseteq Asked' /\ TrackedAsked'
<1> SUFFICES /\ \A a \in Asked : a \in Asked'
             /\ TrackedAsked'
  OBVIOUS
<1>0. /\ hsmsub_chan \in Seq(Request) /\ Len(hsmsub_chan) \in Nat
      /\ tracker.attrs \subseteq hsm.attrs \cup InHand
      /\ ~nosm
  BY DEF TypeOK, TrackedAsked, Clean
<1>1. CASE Notify
  <2>1. PICK q \in Requests : hsmsub_chan' = Append(hsmsub_chan, q)
    BY <1>1 DEF Notify
  <2>2. /\ Len(hsmsub_chan') = Len(hsmsub_chan) + 1
        /\ \A i \in 1..Len(hsmsub_chan) : hsmsub_chan'[i] = hsmsub_chan[i]
    BY <1>0, <2>1, AppendProperties, HsmAssumption
  <2>3. hsm' = hsm /\ InHand' = InHand /\ tracker' = tracker
    BY <1>1 DEF Notify, InHand
  <2>4. \A i \in 1..Len(hsmsub_chan) : i \in 1..Len(hsmsub_chan')
    BY <1>0, <2>2
  <2> QED
    BY <1>0, <2>2, <2>3, <2>4, WaitingIs DEF Asked, TrackedAsked
<1>2. CASE Receive
  <2> DEFINE q == Head(hsmsub_chan)
  <2>1. /\ hsmsub_chan # <<>> /\ hsmsub_chan' = Tail(hsmsub_chan)
        /\ sub' = q /\ hsm' = hsm /\ pc = "receive"
        /\ tracker' = [tracker EXCEPT !.attrs = @ \cup q.attrs]
        /\ (pc' = "receive" /\ Covers(tracker, q)) \/ pc' = "send"
    BY <1>0, <1>2 DEF Receive, needHSMSubs
  <2>2. tracker'.attrs = tracker.attrs \cup q.attrs
    BY <2>1 DEF TypeOK, Info
  <2>3. q = hsmsub_chan[1] /\ Len(hsmsub_chan') = Len(hsmsub_chan) - 1
        /\ \A i \in 1..Len(hsmsub_chan') : hsmsub_chan'[i] = hsmsub_chan[i + 1]
    BY <1>0, <2>1, HeadTailProperties
  <2> HIDE DEF q
  <2>4. InHand = {} /\ tracker.attrs \subseteq hsm.attrs
    BY <1>0, <2>1 DEF InHand
  <2>5. q.attrs \subseteq hsm'.attrs \cup InHand'
    BY <2>1, <2>4 DEF Covers, InHand
  <2>6. TrackedAsked'
    BY <2>1, <2>2, <2>4, <2>5 DEF TrackedAsked
  <2>7. \A i \in 1..Len(hsmsub_chan) :
           \/ hsmsub_chan[i] = q
           \/ \E j \in 1..Len(hsmsub_chan') : hsmsub_chan'[j] = hsmsub_chan[i]
    <3> TAKE i \in 1..Len(hsmsub_chan)
    <3>1. CASE i = 1
      BY <2>3, <3>1
    <3>2. CASE i # 1
      <4>1. i - 1 \in 1..Len(hsmsub_chan') /\ (i - 1) + 1 = i
        BY <1>0, <2>3, <3>2
      <4> QED
        BY <2>3, <4>1
    <3> QED
      BY <3>1, <3>2
  <2>8. \A a \in Asked : a \in Asked'
    <3> TAKE a \in Asked
    <3>1. \/ a \in hsm.attrs
          \/ \E i \in 1..Len(hsmsub_chan) : a \in hsmsub_chan[i].attrs
      BY <2>4, WaitingIs DEF Asked
    <3>2. \/ a \in hsm'.attrs \/ a \in q.attrs
          \/ \E j \in 1..Len(hsmsub_chan') : a \in hsmsub_chan'[j].attrs
      BY <2>1, <2>7, <3>1
    <3>3. a \in hsm'.attrs \/ a \in Waiting'
      BY <2>5, <3>2, WaitingIs
    <3> QED
      BY <3>3 DEF Asked
  <2> QED
    BY <2>6, <2>8
<1>3. CASE SendOk
  <2>1. /\ hsmsub_chan' = hsmsub_chan /\ tracker' = tracker
        /\ hsm'.attrs = hsm.attrs \cup sub.attrs
    BY <1>0, <1>3 DEF SendOk, Add
  <2>2. InHand = sub.attrs
    BY <1>3 DEF SendOk, InHand
  <2> QED
    BY <1>0, <2>1, <2>2, WaitingIs DEF Asked, TrackedAsked
<1>4. CASE SendFail
  BY <1>4 DEF SendFail, Clean
<1>5. CASE Requeue
  <2>1. /\ hsmsub_chan' = Append(hsmsub_chan, sub) /\ sub \in Request
        /\ hsm' = hsm /\ tracker' = tracker /\ InHand = {} /\ InHand' = {}
    BY <1>5 DEF Requeue, InHand, TypeOK
  <2>2. /\ Len(hsmsub_chan') = Len(hsmsub_chan) + 1
        /\ \A i \in 1..Len(hsmsub_chan) : hsmsub_chan'[i] = hsmsub_chan[i]
    BY <1>0, <2>1, AppendProperties
  <2>3. \A i \in 1..Len(hsmsub_chan) : i \in 1..Len(hsmsub_chan')
    BY <1>0, <2>2
  <2> QED
    BY <1>0, <2>1, <2>2, <2>3, WaitingIs DEF Asked, TrackedAsked
<1>6. CASE Commit
  <2>1. /\ tracker'.attrs = tracker.attrs /\ hsm' = hsm
        /\ hsmsub_chan' = hsmsub_chan /\ InHand' = {} /\ InHand = {}
    BY <1>6 DEF Commit, TypeOK, Info, InHand
  <2> QED
    BY <1>0, <2>1, WaitingIs DEF Asked, TrackedAsked
<1>7. CASE Store1 \/ Store2
  <2>1. UNCHANGED <<hsmsub_chan, hsm, tracker>> /\ InHand = {} /\ InHand' = {}
    BY <1>7 DEF Store1, Store2, StoreSubs, InHand
  <2> QED
    BY <1>0, <2>1, WaitingIs DEF Asked, TrackedAsked
<1>8. CASE PatchNosm \/ UNCHANGED vars
  <2>1. UNCHANGED <<hsmsub_chan, hsm, tracker, pc, sub>>
    BY <1>8 DEF PatchNosm, vars
  <2>2. InHand' = InHand
    BY <2>1 DEF InHand
  <2> QED
    BY <1>0, <2>1, <2>2, WaitingIs DEF Asked, TrackedAsked
<1>9. CASE Restart
  BY <1>9 DEF Restart, Clean, TypeOK
<1> QED
  BY <1>1, <1>2, <1>3, <1>4, <1>5, <1>6, <1>7, <1>8, <1>9 DEF Next, Loop

-----------------------------------------------------------------------------
(* The handlers' steps *)

Values == S!SubData \cup {None}

LEMMA EntryType ==
  ASSUME NEW o \in S!Op
  PROVE  S!Entry(o) \in Values
  BY DEF S!Entry, S!SubData, S!Op, Values

\* No record is written.
Shrinks == /\ kv' \in [S!Key -> Values]
           /\ \A k \in S!Key : kv'[k] # None => kv[k] # None

\* Request r writes the record it asks for.
Writes(r) == kv' = [kv EXCEPT ![S!makeSubscriptionKey(op[r])] = S!Entry(op[r])]

\* The calls of ETCD, by their outcome.
LEMMA EtcdCalls ==
  ASSUME ApiTypes, NEW k
  PROVE  /\ S!DeleteOk(k) => Shrinks /\ kvFaults' = kvFaults
         /\ S!DeleteFails(k) => Shrinks /\ kvFaults' = kvFaults + 1
         /\ S!ReadFails => Shrinks /\ kvFaults' = kvFaults + 1
         /\ UNCHANGED <<kv, kvFaults>> => Shrinks /\ kvFaults' = kvFaults
  BY DEF ApiTypes, Shrinks, Values, S!DeleteOk, S!DeleteFails, S!ReadFails, S!Fault

\* How far a handler goes in one step; it gets to the next stage from an
\* earlier one of the same handler only.
Follows(from, to) ==
    /\ from \notin {"new", "rejected", "notify"}
    /\ to \in S!Pc \ {"new", "rejected", "get", "patchList", "deleteList"}
    /\ to \in {"store", "notify"} => from \in {"get", "store"}
    /\ to \in {"patchDelete", "patchStore"} => from \in {"patchList", "patchDelete"}

\* What one step of request r's handler does, once it has begun.
Works(r, to) ==
    /\ reqPc' = [reqPc EXCEPT ![r] = to] /\ Follows(reqPc[r], to)
    /\ op' = op /\ at' = at
    /\ \/ Shrinks /\ kvFaults' = kvFaults
       \/ /\ Writes(r) /\ kvFaults' = kvFaults
          /\ reqPc[r] = "patchStore" \/ to = "notify"
       \/ kv' \in [S!Key -> Values] /\ kvFaults' = kvFaults + 1

LEMMA PostWorks ==
  ASSUME ApiTypes, NEW r \in Req, S!PostGet(r) \/ S!PostStore(r)
  PROVE  \E to \in S!Pc : Works(r, to)
<1>1. CASE S!PostGet(r)
  <2>1. PICK to \in {"store", "done"} : reqPc' = [reqPc EXCEPT ![r] = to]
    BY <1>1 DEF S!PostGet, S!Goto, S!Answer
  <2>2. Shrinks /\ (kvFaults' = kvFaults \/ kvFaults' = kvFaults + 1)
    BY <1>1, EtcdCalls DEF S!PostGet
  <2>3. reqPc[r] = "get" /\ op' = op /\ at' = at
    BY <1>1 DEF S!PostGet
  <2>4. Follows(reqPc[r], to) /\ to \in S!Pc
    BY <2>1, <2>3 DEF Follows, S!Pc
  <2> QED
    BY <2>1, <2>2, <2>3, <2>4 DEF Works, Shrinks
<1>2. CASE S!PostStore(r)
  <2>1. reqPc[r] = "store" /\ op' = op /\ at' = at
    BY <1>2 DEF S!PostStore
  <2>2. Follows("store", "notify") /\ Follows("store", "done")
          /\ "notify" \in S!Pc /\ "done" \in S!Pc
    BY DEF Follows, S!Pc
  <2>3. S!Entry(op[r]) \in Values
    BY EntryType DEF ApiTypes
  <2>4. CASE kvFaults' = kvFaults /\ Writes(r) /\ reqPc' = [reqPc EXCEPT ![r] = "notify"]
    BY <2>1, <2>2, <2>4 DEF Works
  <2>5. CASE kvFaults' = kvFaults + 1 /\ (kv' = kv \/ Writes(r))
             /\ reqPc' = [reqPc EXCEPT ![r] = "done"]
    <3>1. kv' \in [S!Key -> Values]
      BY <2>3, <2>5 DEF ApiTypes, Values, Writes
    <3> QED
      BY <2>1, <2>2, <2>5, <3>1 DEF Works
  <2> QED
    BY <1>2, <2>4, <2>5
    DEF S!PostStore, S!StoreOk, S!StoreFails, S!Fault, S!Goto, S!Answer, Writes
<1> QED
  BY <1>1, <1>2

LEMMA PatchWorks ==
  ASSUME ApiTypes, NEW r \in Req,
         S!PatchList(r) \/ S!PatchDelete(r) \/ S!PatchStore(r)
  PROVE  \E to \in S!Pc : Works(r, to)
<1>1. CASE S!PatchList(r)
  <2>1. PICK to \in {"patchStore", "patchDelete", "done"} :
           reqPc' = [reqPc EXCEPT ![r] = to]
    BY <1>1 DEF S!PatchList, S!Goto, S!Answer
  <2>2. Shrinks /\ (kvFaults' = kvFaults \/ kvFaults' = kvFaults + 1)
    BY <1>1, EtcdCalls DEF S!PatchList
  <2>3. reqPc[r] = "patchList" /\ op' = op /\ at' = at
    BY <1>1 DEF S!PatchList
  <2>4. Follows(reqPc[r], to) /\ to \in S!Pc
    BY <2>1, <2>3 DEF Follows, S!Pc
  <2> QED
    BY <2>1, <2>2, <2>3, <2>4 DEF Works, Shrinks
<1>2. CASE S!PatchDelete(r)
  <2>1. PICK to \in {"patchStore", "done"} : reqPc' = [reqPc EXCEPT ![r] = to]
    BY <1>2 DEF S!PatchDelete, S!Goto, S!Answer
  <2>2. Shrinks /\ (kvFaults' = kvFaults \/ kvFaults' = kvFaults + 1)
    BY <1>2, EtcdCalls DEF S!PatchDelete
  <2>3. reqPc[r] = "patchDelete" /\ op' = op /\ at' = at
    BY <1>2 DEF S!PatchDelete
  <2>4. Follows(reqPc[r], to) /\ to \in S!Pc
    BY <2>1, <2>3 DEF Follows, S!Pc
  <2> QED
    BY <2>1, <2>2, <2>3, <2>4 DEF Works, Shrinks
<1>3. CASE S!PatchStore(r)
  <2>1. /\ reqPc[r] = "patchStore" /\ op' = op /\ at' = at
        /\ reqPc' = [reqPc EXCEPT ![r] = "done"]
    BY <1>3 DEF S!PatchStore, S!Answer
  <2>2. Follows("patchStore", "done") /\ "done" \in S!Pc
    BY DEF Follows, S!Pc
  <2>3. S!Entry(op[r]) \in Values
    BY EntryType DEF ApiTypes
  <2>4. CASE kvFaults' = kvFaults /\ Writes(r)
    BY <2>1, <2>2, <2>4 DEF Works
  <2>5. CASE kvFaults' = kvFaults + 1 /\ (kv' = kv \/ Writes(r))
    <3>1. kv' \in [S!Key -> Values]
      BY <2>3, <2>5 DEF ApiTypes, Values, Writes
    <3> QED
      BY <2>1, <2>2, <2>5, <3>1 DEF Works
  <2> QED
    BY <1>3, <2>4, <2>5
    DEF S!PatchStore, S!StoreOk, S!StoreFails, S!Fault, Writes
<1> QED
  BY <1>1, <1>2, <1>3

LEMMA DeleteWorks ==
  ASSUME ApiTypes, NEW r \in Req,
         S!DeleteList(r) \/ S!DeleteKey(r) \/ S!DeleteMark(r)
  PROVE  \E to \in S!Pc : Works(r, to)
<1>1. PICK to \in {"deleteKey", "deleteMark", "done"} :
         reqPc' = [reqPc EXCEPT ![r] = to]
  BY DEF S!DeleteList, S!DeleteKey, S!DeleteMark, S!Visited, S!Goto, S!Answer
<1>2. Shrinks /\ (kvFaults' = kvFaults \/ kvFaults' = kvFaults + 1)
  BY EtcdCalls DEF S!DeleteList, S!DeleteKey, S!DeleteMark
<1>3. /\ reqPc[r] \in {"deleteList", "deleteKey", "deleteMark"}
      /\ op' = op /\ at' = at
  BY DEF S!DeleteList, S!DeleteKey, S!DeleteMark
<1>4. Follows(reqPc[r], to) /\ to \in S!Pc
  BY <1>1, <1>3 DEF Follows, S!Pc
<1> QED
  BY <1>1, <1>2, <1>3, <1>4 DEF Works, Shrinks

\* Request q goes on with what it asks for, and does not send its request to
\* the goroutine in this step.
Keeps(q) ==
    S!Begun(q) => /\ reqPc'[q] \notin {"new", "rejected"} /\ op'[q] = op[q]
                  /\ reqPc[q] = "notify" => reqPc'[q] = "notify"

LEMMA ExceptedKept ==
  ASSUME \A q \in Req : Keeps(q), NEW k, Excepted(k)
  PROVE  Excepted(k)'
  BY DEF Keeps, Excepted, WrittenBy, S!Begun, S!makeSubscriptionKey

\* A request that is not under way arrives, with something to ask for.
LEMMA ArriveTyped ==
  ASSUME ApiTypes, KindInv, NEW r \in Req, S!Arrive(r)
  PROVE  /\ UNCHANGED <<kv, kvFaults>> /\ \A q \in Req : Keeps(q)
         /\ op' \in [Req -> S!Op] /\ reqPc' \in [Req -> S!Pc]
         /\ at' \in [Req -> {Self}] /\ KindInv'
<1>1. PICK o \in Ops, i \in {Self} : /\ op' = [op EXCEPT ![r] = o]
                                     /\ at' = [at EXCEPT ![r] = i]
                                     /\ reqPc' = [reqPc EXCEPT ![r] = S!First(o)]
  BY DEF S!Arrive, S!Goto
<1>2. reqPc[r] = "new" /\ UNCHANGED <<kv, kvFaults>>
  BY DEF S!Arrive, S!storeVars
<1>3. o \in S!Op
  BY CovAssumption
<1>4. /\ S!First(o) \in {"get", "patchList", "deleteList"}
      /\ S!First(o) = "get" => o.kind = "post"
      /\ S!First(o) = "patchList" => o.kind \in {"patchV1", "patchV2"}
  BY DEF S!First
<1>5. S!First(o) \in S!Pc
  BY <1>4 DEF S!Pc
<1>6. KindInv'
  BY <1>1, <1>4 DEF ApiTypes, KindInv
<1>7. \A q \in Req : Keeps(q)
  BY <1>1, <1>2 DEF ApiTypes, Keeps, S!Begun
<1> QED
  BY <1>1, <1>2, <1>3, <1>5, <1>6, <1>7 DEF ApiTypes

LEMMA RejectTyped ==
  ASSUME ApiTypes, KindInv, NEW r \in Req, S!Reject(r)
  PROVE  /\ UNCHANGED <<kv, kvFaults>> /\ \A q \in Req : Keeps(q)
         /\ op' \in [Req -> S!Op] /\ reqPc' \in [Req -> S!Pc]
         /\ at' \in [Req -> {Self}] /\ KindInv'
<1>1. /\ reqPc[r] = "new" /\ reqPc' = [reqPc EXCEPT ![r] = "rejected"]
      /\ UNCHANGED <<kv, kvFaults, op, at>>
  BY DEF S!Reject, S!storeVars
<1>2. "rejected" \in S!Pc
  BY DEF S!Pc
<1>3. KindInv'
  BY <1>1 DEF ApiTypes, KindInv
<1>4. \A q \in Req : Keeps(q)
  BY <1>1 DEF ApiTypes, Keeps, S!Begun
<1> QED
  BY <1>1, <1>2, <1>3, <1>4 DEF ApiTypes

\* A handler at work: everything but what it writes.
LEMMA WorkStep ==
  ASSUME ApiTypes, KindInv, NEW r \in Req, NEW to \in S!Pc, Works(r, to)
  PROVE  /\ kv' \in [S!Key -> Values] /\ kvFaults' \in Nat
         /\ kvFaults' >= kvFaults
         /\ \A q \in Req : Keeps(q)
         /\ op' \in [Req -> S!Op] /\ reqPc' \in [Req -> S!Pc]
         /\ at' \in [Req -> {Self}] /\ KindInv'
<1>1. /\ reqPc' = [reqPc EXCEPT ![r] = to] /\ Follows(reqPc[r], to)
      /\ op' = op /\ at' = at
  BY DEF Works
<1>2. kv' \in [S!Key -> Values]
  <2>1. S!Entry(op[r]) \in Values
    BY EntryType DEF ApiTypes
  <2> QED
    BY <2>1 DEF Works, Writes, Shrinks, ApiTypes, Values
<1>3. kvFaults' \in Nat /\ kvFaults' >= kvFaults
  BY DEF Works, ApiTypes
<1>4. KindInv'
  BY <1>1 DEF ApiTypes, KindInv, Follows
<1>5. \A q \in Req : Keeps(q)
  BY <1>1 DEF ApiTypes, Keeps, S!Begun, Follows
<1> QED
  BY <1>1, <1>2, <1>3, <1>4, <1>5 DEF ApiTypes

\* If the call of ETCD does not fail, a record that is new is the one that a
\* PATCH, or a POST that has still to notify the goroutine, asked for.
LEMMA WorkStored ==
  ASSUME ApiTypes, KindInv, NEW r \in Req, NEW to \in S!Pc, Works(r, to),
         kvFaults' = kvFaults, NEW k \in S!Stored'
  PROVE  k \in S!Stored \/ Excepted(k)'
<1>1. k \in S!Key /\ kv'[k] # None
  BY DEF S!Stored
<1>2. CASE Shrinks
  BY <1>1, <1>2 DEF Shrinks, S!Stored
<1>3. CASE Writes(r) /\ (reqPc[r] = "patchStore" \/ to = "notify")
  <2>1. CASE k = S!makeSubscriptionKey(op[r])
    <3>1. /\ reqPc'[r] = to /\ op' = op /\ Follows(reqPc[r], to)
      BY DEF Works, ApiTypes
    <3>2. \/ op[r].kind \in {"patchV1", "patchV2"}
          \/ op[r].kind = "post" /\ to = "notify"
      BY <1>3, <3>1 DEF KindInv, Follows
    <3>3. r \in WrittenBy(k)'
      BY <2>1, <3>1, <3>2 DEF WrittenBy, S!Begun, Follows, S!makeSubscriptionKey
    <3> QED
      BY <3>1, <3>2, <3>3 DEF Excepted
  <2>2. CASE k # S!makeSubscriptionKey(op[r])
    BY <1>1, <1>3, <2>2 DEF Writes, ApiTypes, S!Stored
  <2> QED
    BY <2>1, <2>2
<1> QED
  BY <1>2, <1>3 DEF Works, ApiTypes

\* The pruner only deletes.
LEMMA PrunerShrinks ==
  ASSUME ApiTypes, KindInv, S!Pruner(Self)
  PROVE  /\ Shrinks /\ kvFaults' \in Nat /\ kvFaults' >= kvFaults
         /\ UNCHANGED <<reqPc, op, at>>
<1>1. Shrinks /\ (kvFaults' = kvFaults \/ kvFaults' = kvFaults + 1)
  BY EtcdCalls DEF S!Pruner, S!PruneStart, S!PruneDelete, S!PruneFinish
<1>2. UNCHANGED <<reqPc, op, at>>
  BY DEF S!Pruner, S!PruneStart, S!PruneDelete, S!PruneFinish, S!reqVars
<1> QED
  BY <1>1, <1>2 DEF ApiTypes

-----------------------------------------------------------------------------
(* The steps of the composition *)

\* Failures, restarts and a Nosm that was set are not forgotten.
LEMMA CleanBefore ==
  ASSUME TypeOK, ApiTypes, [Next]_vars, SeenStep,
         kvFaults' \in Nat, kvFaults' >= kvFaults, Clean'
  PROVE  Clean /\ kvFaults' = kvFaults
<1>1. /\ faults' \in Nat /\ faults' >= faults
      /\ restarts' \in Nat /\ restarts' >= restarts
  BY DEF Next, Loop, Notify, Receive, SendOk, SendFail, Requeue, Commit,
         Store1, Store2, StoreSubs, PatchNosm, Restart, vars, TypeOK
<1> QED
  BY <1>1 DEF Clean, SeenStep, TypeOK, ApiTypes

\* What is left to show of a step, once the types are settled.
LEMMA CovInvKept ==
  ASSUME CovInv, [Next]_vars, SeenStep,
         kv' \in [S!Key -> Values], kvFaults' \in Nat, kvFaults' >= kvFaults,
         op' \in [Req -> S!Op], reqPc' \in [Req -> S!Pc], at' \in [Req -> {Self}],
         KindInv',
         \A k \in S!Stored' : Clean /\ Clean' /\ kvFaults' = kvFaults =>
             \/ k.attrs \ {Enbl} \subseteq Asked' \/ Excepted(k)'
             \/ k \in S!Stored /\ (Excepted(k) => Excepted(k)')
  PROVE  CovInv'
<1>1. TypeOK'
  BY TypeStep DEF CovInv
<1>2. nosmSeen' \in BOOLEAN /\ (nosm' => nosmSeen')
  BY <1>1, HsmAssumption DEF SeenStep, CovInv, ApiTypes, TypeOK
<1>3. ApiTypes'
  BY <1>2 DEF ApiTypes, Values
<1>4. ASSUME Clean'
      PROVE  Clean /\ kvFaults' = kvFaults /\ Asked \subseteq Asked' /\ TrackedAsked'
  <2>1. Clean /\ kvFaults' = kvFaults
    BY <1>4, CleanBefore DEF CovInv
  <2> QED
    BY <1>4, <2>1, AskedGrows DEF CovInv, ApiTypes
<1>5. TrackedAsked'
  BY <1>4 DEF TrackedAsked
<1>6. StoredAsked'
  <2> SUFFICES ASSUME Clean', NEW k \in S!Stored'
               PROVE  k.attrs \ {Enbl} \subseteq Asked' \/ Excepted(k)'
    BY DEF StoredAsked
  <2>1. Clean /\ kvFaults' = kvFaults /\ Asked \subseteq Asked'
    BY <1>4
  <2>2. k \in S!Stored => k.attrs \ {Enbl} \subseteq Asked \/ Excepted(k)
    BY <2>1 DEF CovInv, StoredAsked
  <2> QED
    BY <2>1, <2>2
<1> QED
  BY <1>1, <1>3, <1>5, <1>6 DEF CovInv

LEMMA ApiStepKeeps ==
  ASSUME CovInv, ApiStep, SeenStep
  PROVE  CovInv'
<1>0. [Next]_vars /\ ApiTypes /\ KindInv
  BY DEF ApiStep, ArriveStep, HandlerStep, PrunerStep, CovInv
<1>1. ASSUME NEW r \in Req, ArriveStep(r) \/ HandlerStep(r)
      PROVE  CovInv'
  <2>1. CASE S!Arrive(r) \/ S!Reject(r)
    <3>1. /\ UNCHANGED <<kv, kvFaults>> /\ \A q \in Req : Keeps(q)
          /\ op' \in [Req -> S!Op] /\ reqPc' \in [Req -> S!Pc]
          /\ at' \in [Req -> {Self}] /\ KindInv'
      BY <1>0, <2>1, ArriveTyped, RejectTyped
    <3>2. S!Stored' = S!Stored
      BY <3>1 DEF S!Stored
    <3>3. kv' \in [S!Key -> Values] /\ kvFaults' \in Nat /\ kvFaults' >= kvFaults
      BY <1>0, <3>1 DEF ApiTypes, Values
    <3> QED
      BY <1>0, <3>1, <3>2, <3>3, CovInvKept, ExceptedKept
  <2>2. CASE \E to \in S!Pc : Works(r, to)
    <3>1. PICK to \in S!Pc : Works(r, to)
      BY <2>2
    <3>2. \A q \in Req : Keeps(q)
      BY <1>0, <3>1, WorkStep
    <3>3. \A k \in S!Stored' : kvFaults' = kvFaults =>
             \/ Excepted(k)'
             \/ k \in S!Stored /\ (Excepted(k) => Excepted(k)')
      BY <1>0, <3>1, <3>2, WorkStored, ExceptedKept
    <3>4. /\ kv' \in [S!Key -> Values] /\ kvFaults' \in Nat
          /\ kvFaults' >= kvFaults
          /\ op' \in [Req -> S!Op] /\ reqPc' \in [Req -> S!Pc]
          /\ at' \in [Req -> {Self}] /\ KindInv'
      BY <1>0, <3>1, WorkStep
    <3> QED
      BY <1>0, <3>3, <3>4, CovInvKept
  <2> QED
    BY <1>0, <1>1, <2>1, <2>2, PostWorks, PatchWorks, DeleteWorks
      DEF ArriveStep, HandlerStep
<1>2. CASE S!Pruner(Self)
  <2>1. /\ Shrinks /\ kvFaults' \in Nat /\ kvFaults' >= kvFaults
        /\ UNCHANGED <<reqPc, op, at>>
    BY <1>0, <1>2, PrunerShrinks
  <2>2. \A q \in Req : Keeps(q)
    BY <2>1 DEF Keeps, S!Begun
  <2>3. \A k \in S!Stored' : k \in S!Stored /\ (Excepted(k) => Excepted(k)')
    BY <2>1, <2>2, ExceptedKept DEF Shrinks, S!Stored
  <2>4. KindInv' /\ kv' \in [S!Key -> Values]
    BY <1>0, <2>1 DEF KindInv, Shrinks
  <2>5. op' \in [Req -> S!Op] /\ reqPc' \in [Req -> S!Pc] /\ at' \in [Req -> {Self}]
    BY <1>0, <2>1 DEF ApiTypes
  <2> QED
    BY <1>0, <2>1, <2>3, <2>4, <2>5, CovInvKept
<1> QED
  BY <1>1, <1>2 DEF ApiStep, PrunerStep

\* A POST sends its request: from now on that is on the channel.
LEMMA SendRequestKeeps ==
  ASSUME CovInv, NEW r \in Req, SendRequest(r), SeenStep
  PROVE  CovInv'
<1>0. [Next]_vars /\ ApiTypes /\ KindInv
  BY DEF SendRequest, CovInv, Next
<1>1. S!PostNotify(r)
  BY DEF SendRequest
<1>2. /\ reqPc[r] = "notify" /\ reqPc' = [reqPc EXCEPT ![r] = "done"]
      /\ UNCHANGED <<kv, kvFaults, op, at>>
  BY <1>1 DEF S!PostNotify, S!Answer, S!storeVars
<1>3. hsmsub_chan' = Append(hsmsub_chan, [attrs |-> op[r].attrs,
                                          enabled |-> op[r].enabled])
  <2>1. at[r] = Self
    BY <1>0 DEF ApiTypes
  <2>2. [i \in {Self} |-> hsmsub_chan'] =
           [[i \in {Self} |-> hsmsub_chan] EXCEPT ![Self] =
               Append(@, [attrs |-> op[r].attrs, enabled |-> op[r].enabled])]
    BY <1>1, <2>1 DEF S!PostNotify
  <2>3. [i \in {Self} |-> hsmsub_chan'][Self] =
           Append(hsmsub_chan, [attrs |-> op[r].attrs, enabled |-> op[r].enabled])
    BY <2>2
  <2> QED
    BY <2>3
<1>4. op[r].attrs \subseteq Asked'
  <2> DEFINE q == [attrs |-> op[r].attrs, enabled |-> op[r].enabled]
  <2>1. hsmsub_chan \in Seq(Request) /\ q \in Request
    BY <1>0 DEF CovInv, TypeOK, ApiTypes, S!Op, Request
  <2>2. /\ Len(hsmsub_chan) \in Nat /\ Len(hsmsub_chan') = Len(hsmsub_chan) + 1
        /\ hsmsub_chan'[Len(hsmsub_chan) + 1] = q
    BY <1>3, <2>1, AppendProperties
  <2>3. Len(hsmsub_chan) + 1 \in 1..Len(hsmsub_chan')
    BY <2>2
  <2>4. hsmsub_chan'[Len(hsmsub_chan) + 1].attrs = op[r].attrs
    BY <2>2
  <2> QED
    BY <2>3, <2>4, WaitingIs DEF Asked
<1>5. ASSUME NEW k, Excepted(k)
      PROVE  k.attrs \ {Enbl} \subseteq Asked' \/ Excepted(k)'
  <2>1. PICK q \in WrittenBy(k) : op[q].kind # "post" \/ reqPc[q] = "notify"
    BY <1>5 DEF Excepted
  <2>2. CASE q = r /\ op[q].kind = "post"
    BY <1>4, <2>1, <2>2 DEF WrittenBy, S!makeSubscriptionKey
  <2>3. CASE q # r \/ op[q].kind # "post"
    <3>1. q \in WrittenBy(k)'
      BY <1>0, <1>2, <2>1 DEF WrittenBy, S!Begun, S!makeSubscriptionKey, ApiTypes
    <3>2. op'[q].kind # "post" \/ reqPc'[q] = "notify"
      BY <1>0, <1>2, <2>1, <2>3 DEF ApiTypes, WrittenBy
    <3> QED
      BY <3>1, <3>2 DEF Excepted
  <2> QED
    BY <2>2, <2>3
<1>6. S!Stored' = S!Stored
  BY <1>2 DEF S!Stored
<1>7. \A k \in S!Stored' : \/ k.attrs \ {Enbl} \subseteq Asked' \/ Excepted(k)'
                           \/ k \in S!Stored /\ (Excepted(k) => Excepted(k)')
  BY <1>5, <1>6
<1>8. "done" \in S!Pc
  BY DEF S!Pc
<1>9. /\ kv' \in [S!Key -> Values] /\ kvFaults' \in Nat /\ kvFaults' >= kvFaults
      /\ op' \in [Req -> S!Op] /\ reqPc' \in [Req -> S!Pc] /\ at' \in [Req -> {Self}]
  BY <1>0, <1>2, <1>8 DEF ApiTypes, Values
<1>10. KindInv'
  BY <1>0, <1>2 DEF KindInv, ApiTypes
<1> QED
  BY <1>0, <1>7, <1>9, <1>10, CovInvKept

\* The goroutine's steps, and a PATCH of Nosm, leave the handlers alone.
LEMMA OtherStepKeeps ==
  ASSUME CovInv, SeenStep, [Next]_vars, UNCHANGED <<kv, kvFaults, reqPc, op, at>>
  PROVE  CovInv'
<1>1. \A q \in Req : Keeps(q)
  BY DEF Keeps, S!Begun
<1>2. \A k \in S!Stored' : k \in S!Stored /\ (Excepted(k) => Excepted(k)')
  BY <1>1, ExceptedKept DEF S!Stored
<1>3. KindInv'
  BY DEF CovInv, KindInv
<1>4. /\ kv' \in [S!Key -> Values] /\ kvFaults' \in Nat /\ kvFaults' >= kvFaults
      /\ op' \in [Req -> S!Op] /\ reqPc' \in [Req -> S!Pc] /\ at' \in [Req -> {Self}]
  BY DEF CovInv, ApiTypes, Values
<1> QED
  BY <1>2, <1>3, <1>4, CovInvKept

\* After a restart nothing is claimed any more.
LEMMA RestartKeeps ==
  ASSUME CovInv, RestartAll, SeenStep
  PROVE  CovInv'
<1>0. [Next]_vars /\ ApiTypes /\ KindInv
  BY DEF RestartAll, CovInv, Next
<1>1. /\ reqPc' = [r \in Req |-> IF at[r] = Self /\ reqPc[r] \notin
                                    {"new", "rejected", "done"}
                                 THEN "dead" ELSE reqPc[r]]
      /\ UNCHANGED <<kv, kvFaults, op, at>>
  BY DEF RestartAll, S!Crash
<1>2. "dead" \in S!Pc
  BY DEF S!Pc
<1>3. /\ kv' \in [S!Key -> Values] /\ kvFaults' \in Nat /\ kvFaults' >= kvFaults
      /\ op' \in [Req -> S!Op] /\ reqPc' \in [Req -> S!Pc] /\ at' \in [Req -> {Self}]
  BY <1>0, <1>1, <1>2 DEF ApiTypes, Values
<1>4. KindInv'
  BY <1>0, <1>1 DEF KindInv, ApiTypes
<1>5. ~Clean'
  BY DEF RestartAll, Restart, Clean, CovInv, TypeOK
<1> QED
  BY <1>0, <1>3, <1>4, <1>5, CovInvKept

LEMMA CovInvStep == CovInv /\ [CovNext]_covVars => CovInv'
<1> SUFFICES ASSUME CovInv, [CovNext]_covVars PROVE CovInv'
  OBVIOUS
<1>0. [Next]_vars
  BY CovIsNext
<1>1. CASE ApiStep /\ SeenStep
  BY <1>1, ApiStepKeeps
<1>2. CASE (\E r \in Req : SendRequest(r)) /\ SeenStep
  BY <1>2, SendRequestKeeps
<1>3. CASE RestartAll /\ SeenStep
  BY <1>3, RestartKeeps
<1>4. CASE (ReceiveRequest \/ SubscriberStep \/ ParamStep) /\ SeenStep
  <2>1. UNCHANGED <<kv, kvFaults, reqPc, op, at>>
    BY <1>4 DEF ReceiveRequest, SubscriberStep, ParamStep, apiVars,
                S!DrainHsm, S!storeVars, S!reqVars
  <2> QED
    BY <1>0, <1>4, <2>1, OtherStepKeeps
<1>5. CASE UNCHANGED covVars
  <2>1. UNCHANGED <<kv, kvFaults, reqPc, op, at, nosmSeen, nosm>>
    BY <1>5 DEF covVars, apiVars, vars
  <2>2. SeenStep
    BY <2>1 DEF SeenStep, CovInv, ApiTypes
  <2> QED
    BY <1>0, <2>1, <2>2, OtherStepKeeps
<1> QED
  BY <1>1, <1>2, <1>3, <1>4, <1>5 DEF CovNext, SeenStep

LEMMA CovInvInit == CovInit => CovInv
<1> SUFFICES ASSUME CovInit PROVE CovInv
  OBVIOUS
<1>1. TypeOK
  BY TypeInit DEF CovInit
<1>2. S!AnyOp \in S!Op
  BY CovAssumption DEF S!AnyOp
<1>3. "new" \in S!Pc
  BY DEF S!Pc
<1>4. ApiTypes
  BY <1>1, <1>2, <1>3, HsmAssumption DEF CovInit, ApiTypes, TypeOK
<1>5. KindInv
  BY DEF CovInit, KindInv
<1>6. TrackedAsked
  BY DEF CovInit, Init, TrackedAsked, Nothing
<1>7. StoredAsked
  BY DEF CovInit, StoredAsked, S!Stored
<1> QED
  BY <1>1, <1>4, <1>5, <1>6, <1>7 DEF CovInv

\* Whatever POSTs, PATCHes, DELETEs and prunings overlap: without a failure, a
\* restart or Nosm, every attribute of a stored record has been asked for at
\* HSM or is on its way there.
THEOREM StoredAreAsked == CovSpec => []StoredIsAsked
  BY CovInvInit, CovInvStep, CovInvImplies, PTL DEF CovSpec
=============================================================================
