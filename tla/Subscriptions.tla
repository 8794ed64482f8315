--------------------------- MODULE Subscriptions ----------------------------
(***************************************************************************)
(* The subscription API (api.go, api_v2.go) and the pruning goroutine.     *)
(*                                                                         *)
(* Every request runs a handler in a goroutine of its own; a handler is a  *)
(* sequence of ETCD calls with nothing to hold them together, so handlers, *)
(* the pruner and other instances interleave between any two of them.      *)
(* prune() deletes, under prunemap_mutex, the records of the names in the  *)
(* prune map, and then empties the map.                                    *)
(***************************************************************************)
EXTENDS SubStore, Sequences

CONSTANTS
    Req,         \* the requests, one goroutine each
    Ops,         \* what a request may ask for
    Downable,    \* xnames that may go away
    ChanCap,     \* capacity of hsmsub_chan (50000 in the code)
    StartQueue,  \* what main() has put on hsmsub_chan before any handler runs
    MayCrash     \* instances that may die at any time and be restarted

\* POST and PATCH carry a subscription, the v1 DELETE a URL.  inRange: the
\* Subscriber of a v2 PATCH body, absent or of this xname, selects a range of
\* keys that holds those of the xname in the path.
OpKind == {"post", "patchV1", "patchV2", "deleteV1", "deleteAgent",
           "deleteXName"}
Op == [kind : OpKind, xname : XName, agent : AnyAgent,
       attrs : SUBSET Attr, enabled : {"nil", "false", "true"},
       url : Url, nodes : Nodes, inRange : BOOLEAN]

\* What a handler sends on hsmsub_chan: the attributes and Enabled.
HsmRequest == [attrs : SUBSET Attr, enabled : {"nil", "false", "true"}]

ASSUME SubAssumption ==
    /\ Ops \subseteq Op /\ Ops # {}
    /\ XName # {} /\ Instance # {}
    /\ ChanCap \in Nat \ {0}
    /\ StartQueue \in Seq(HsmRequest) /\ Len(StartQueue) <= ChanCap
    /\ MayCrash \subseteq Instance
    /\ Downable \subseteq XName

VARIABLES
    pc,           \* where each request's handler is
    op,           \* what it asks for
    at,           \* the instance it went to
    cur,          \* the key the handler works on
    todo,         \* keys a DELETE handler has still to visit
    resp,         \* the answer: none yet, ok, refused (4xx), error (5xx)
    earlier,      \* history: requests already over when this one arrived
    pruneTodo,    \* per instance: keys the pruner has still to delete
    hsmsub_chan   \* per instance: requests for the HSM subscriber

reqVars == <<pc, op, at, cur, todo, resp, earlier>>
subVars == <<pc, op, at, cur, todo, resp, earlier, pruneTodo, hsmsub_chan>>
vars == <<storeVars, subVars>>

AnyOp == CHOOSE o \in Ops : TRUE
AnyKey == CHOOSE k \in Key : TRUE
AnyInstance == CHOOSE i \in Instance : TRUE

Init ==
    /\ StoreInit
    /\ pc = [r \in Req |-> "new"]
    /\ op = [r \in Req |-> AnyOp]
    /\ at = [r \in Req |-> AnyInstance]
    /\ cur = [r \in Req |-> AnyKey]
    /\ todo = [r \in Req |-> {}]
    /\ resp = [r \in Req |-> "none"]
    /\ earlier = [r \in Req |-> {}]
    /\ pruneTodo = [i \in Instance |-> {}]
    /\ hsmsub_chan = [i \in Instance |-> StartQueue]

-----------------------------------------------------------------------------
\* makeSubscriptionKey_V1/V2(): Enabled counts when present, true or false.
makeSubscriptionKey(o) ==
    [xname |-> o.xname, agent |-> o.agent,
     attrs |-> o.attrs \cup (IF o.enabled = "nil" THEN {} ELSE {Enbl})]

\* makeSubscriptionEntry()
Entry(o) == [url |-> o.url, nodes |-> o.nodes]

\* The keys a handler picks out of the ones it read.
Matches(o, k) ==
    CASE o.kind = "patchV1"     -> /\ NameOf(k) = <<o.xname, o.agent>>
                                   /\ kv[k].url = o.url
      [] o.kind = "patchV2"     -> /\ NameOf(k) = <<o.xname, o.agent>>
                                   /\ o.inRange
      [] o.kind = "deleteV1"    -> /\ NameOf(k) = <<o.xname, o.agent>>
                                   /\ kv[k].url = o.url
      [] o.kind = "deleteAgent" -> NameOf(k) = <<o.xname, o.agent>>
      [] o.kind = "deleteXName" -> k.xname = o.xname
      [] OTHER                  -> FALSE

Goto(r, next) == pc' = [pc EXCEPT ![r] = next] /\ UNCHANGED resp

Answer(r, a) == /\ pc' = [pc EXCEPT ![r] = "done"]
                /\ resp' = [resp EXCEPT ![r] = a]

\* checkSubscription_v1/v2(), asked by POSTs and the v1 PATCH: there are a URL
\* and components, and some attribute or Enabled.
checkSubscription(o) ==
    /\ o.url # NoUrl /\ o.nodes # <<>>
    /\ o.attrs # {} \/ o.enabled # "nil"

First(o) == CASE o.kind = "post" -> "get"
              [] o.kind \in {"patchV1", "patchV2"} -> "patchList"
              [] OTHER -> "deleteList"

\* A request arrives at some instance and passes the checks of its fields ...
Arrive(r) ==
    /\ pc[r] = "new"
    /\ \E o \in Ops, i \in Instance :
          /\ o.kind \in {"post", "patchV1"} => checkSubscription(o)
          /\ op' = [op EXCEPT ![r] = o]
          /\ at' = [at EXCEPT ![r] = i]
          /\ Goto(r, First(o))
    /\ earlier' = [earlier EXCEPT ![r] = {q \in Req : pc[q] = "done"}]
    /\ UNCHANGED <<storeVars, cur, todo, pruneTodo, hsmsub_chan>>

\* ... or fails them: bad JSON, a missing field, an invalid xname.  (A v1
\* DELETE without a URL is told so and goes on: see DeleteAnswer.)
Reject(r) ==
    /\ pc[r] = "new"
    /\ pc' = [pc EXCEPT ![r] = "rejected"]
    /\ resp' = [resp EXCEPT ![r] = "refused"]
    /\ UNCHANGED <<storeVars, op, at, cur, todo, earlier, pruneTodo, hsmsub_chan>>

-----------------------------------------------------------------------------
(* doSubscribePost(), subscriptionsAgentPostHandler() *)

\* Is the key there?  Then the POST is refused.
PostGet(r) ==
    /\ pc[r] = "get"
    /\ \/ /\ kv[makeSubscriptionKey(op[r])] = None
          /\ Goto(r, "store")
          /\ UNCHANGED <<kv, faults>>
       \/ /\ kv[makeSubscriptionKey(op[r])] # None
          /\ Answer(r, "refused")
          /\ UNCHANGED <<kv, faults>>
       \/ /\ ReadFails
          /\ Answer(r, "error")
    /\ UNCHANGED <<prunemap, pruning, downed, op, at, cur, todo, earlier,
                   pruneTodo, hsmsub_chan>>

\* Mutant of PostStore: the error of makeSubscriptionEntry() is ignored.
PostStoreUnchecked(r) ==
    /\ pc[r] = "store"
    /\ LET k == makeSubscriptionKey(op[r])
           v == Entry(op[r])
       IN StoreOk(k, v) \/ StoreFails(k, v)
    /\ Goto(r, "notify")
    /\ UNCHANGED <<prunemap, pruning, downed, op, at, cur, todo, earlier,
                   pruneTodo, hsmsub_chan>>

\* makeSubscriptionEntry() of a POST, whose error is reported
PostStore(r) ==
    /\ pc[r] = "store"
    /\ LET k == makeSubscriptionKey(op[r])
           v == Entry(op[r])
       IN \/ StoreOk(k, v) /\ Goto(r, "notify")
          \/ StoreFails(k, v) /\ Answer(r, "error")
    /\ UNCHANGED <<prunemap, pruning, downed, op, at, cur, todo, earlier,
                   pruneTodo, hsmsub_chan>>

\* Mutant of PostNotify: a channel without a limit.
PostNotifyUnbounded(r) ==
    /\ pc[r] = "notify"
    /\ hsmsub_chan' = [hsmsub_chan EXCEPT ![at[r]] =
          Append(@, [attrs |-> op[r].attrs, enabled |-> op[r].enabled])]
    /\ Answer(r, "ok")
    /\ UNCHANGED <<storeVars, op, at, cur, todo, earlier, pruneTodo>>

\* hsmsub_chan <- jdata blocks while the channel is full.
PostNotify(r) ==
    /\ pc[r] = "notify"
    /\ Len(hsmsub_chan[at[r]]) < ChanCap
    /\ hsmsub_chan' = [hsmsub_chan EXCEPT ![at[r]] =
          Append(@, [attrs |-> op[r].attrs, enabled |-> op[r].enabled])]
    /\ Answer(r, "ok")
    /\ UNCHANGED <<storeVars, op, at, cur, todo, earlier, pruneTodo>>

\* subscribeToHsmScn() takes a request, and after a failed POST to HSM puts it
\* back.  What comes between is in the module HsmSubscriber, also that a
\* reader which finds the channel full then never takes anything again: so
\* neither of the two steps is ever said to happen in the end.
DrainHsm(i) ==
    /\ hsmsub_chan[i] # <<>>
    /\ hsmsub_chan' = [hsmsub_chan EXCEPT ![i] = Tail(@)]
    /\ UNCHANGED <<storeVars, reqVars, pruneTodo>>

RequeueHsm(i) ==
    /\ hsmsub_chan[i] # <<>>
    /\ hsmsub_chan' = [hsmsub_chan EXCEPT ![i] = Append(Tail(@), Head(@))]
    /\ UNCHANGED <<storeVars, reqVars, pruneTodo>>

-----------------------------------------------------------------------------
(* doSubscribePatch(), subscriptionsAgentPatchHandler() *)

\* The first record that matches is replaced, in whatever order ETCD returns
\* them; without a match nothing happens and the answer is still ok.
PatchList(r) ==
    /\ pc[r] = "patchList"
    /\ \/ \E k \in Stored :
             /\ Matches(op[r], k)
             /\ cur' = [cur EXCEPT ![r] = k]
             /\ Goto(r, IF k = makeSubscriptionKey(op[r]) THEN "patchStore"
                                                          ELSE "patchDelete")
             /\ UNCHANGED <<kv, faults>>
       \/ /\ \A k \in Stored : ~Matches(op[r], k)
          /\ Answer(r, "ok")
          /\ UNCHANGED <<kv, faults, cur>>
       \/ /\ ReadFails
          /\ Answer(r, "error")
          /\ UNCHANGED cur
    /\ UNCHANGED <<prunemap, pruning, downed, op, at, todo, earlier,
                   pruneTodo, hsmsub_chan>>

PatchDelete(r) ==
    /\ pc[r] = "patchDelete"
    /\ \/ DeleteOk(cur[r]) /\ Goto(r, "patchStore")
       \/ DeleteFails(cur[r]) /\ Answer(r, "error")
    /\ UNCHANGED <<prunemap, pruning, downed, op, at, cur, todo, earlier,
                   pruneTodo, hsmsub_chan>>

\* Mutant of PatchStore: the record must still be there.
PatchStoreGuarded(r) ==
    /\ pc[r] = "patchStore"
    /\ LET k == makeSubscriptionKey(op[r])
           v == Entry(op[r])
       IN \/ cur[r] \in Stored /\ StoreOk(k, v)
          \/ cur[r] \notin Stored /\ UNCHANGED <<kv, faults>>
    /\ Answer(r, "ok")
    /\ UNCHANGED <<prunemap, pruning, downed, op, at, cur, todo, earlier,
                   pruneTodo, hsmsub_chan>>

\* The result of makeSubscriptionEntry() is not looked at.
PatchStore(r) ==
    /\ pc[r] = "patchStore"
    /\ LET k == makeSubscriptionKey(op[r])
           v == Entry(op[r])
       IN StoreOk(k, v) \/ StoreFails(k, v)
    /\ Answer(r, "ok")
    /\ UNCHANGED <<prunemap, pruning, downed, op, at, cur, todo, earlier,
                   pruneTodo, hsmsub_chan>>

-----------------------------------------------------------------------------
(* doSubscribeDelete(), subscriptionsAgentDeleteHandler(),                 *)
(* subscriptionsXNameDeleteHandler()                                       *)

\* A v1 DELETE without a URL has been refused already when it gets here (the
\* handler does not return), and can still find the records without one.
DeleteAnswer(o, a) == IF o.kind = "deleteV1" /\ o.url = NoUrl THEN "refused" ELSE a

\* Only the v2 DELETE of an agent minds finding nothing to delete.
DeleteList(r) ==
    /\ pc[r] = "deleteList"
    /\ \/ LET found == {k \in Stored : Matches(op[r], k)} IN
             /\ todo' = [todo EXCEPT ![r] = found]
             /\ \/ found # {} /\ Goto(r, "deleteKey")
                \/ found = {} /\ Answer(r, IF op[r].kind = "deleteAgent"
                                            THEN "refused"
                                            ELSE DeleteAnswer(op[r], "ok"))
             /\ UNCHANGED <<kv, faults>>
       \/ /\ ReadFails
          /\ Answer(r, DeleteAnswer(op[r], "error"))
          /\ UNCHANGED todo
    /\ UNCHANGED <<prunemap, pruning, downed, op, at, cur, earlier,
                   pruneTodo, hsmsub_chan>>

\* The loop goes on to the next key, or the handler answers.
Visited(r, k) ==
    /\ todo' = [todo EXCEPT ![r] = @ \ {k}]
    /\ IF todo[r] = {k} THEN Answer(r, DeleteAnswer(op[r], "ok"))
                        ELSE Goto(r, "deleteKey")

\* A key that cannot be deleted is skipped, and not marked.
DeleteKey(r) ==
    /\ pc[r] = "deleteKey"
    /\ \E k \in todo[r] :
          /\ cur' = [cur EXCEPT ![r] = k]
          /\ \/ DeleteOk(k) /\ Goto(r, "deleteMark") /\ UNCHANGED todo
             \/ DeleteFails(k) /\ Visited(r, k)
    /\ UNCHANGED <<prunemap, pruning, downed, op, at, earlier,
                   pruneTodo, hsmsub_chan>>

\* "Put this in the pruning map to prevent stuff in the Q destined for this
\* node from getting sent."
DeleteMark(r) ==
    /\ pc[r] = "deleteMark"
    /\ Mark(at[r], {NameOf(cur[r])})
    /\ Visited(r, cur[r])
    /\ UNCHANGED <<kv, pruning, downed, faults, op, at, cur, earlier,
                   pruneTodo, hsmsub_chan>>

-----------------------------------------------------------------------------
(* prune(): every 10 seconds, for ever *)

\* Mutant of PruneStart: only entries that name the agent count.
PruneStartExact(i) ==
    /\ ~pruning[i]
    /\ prunemap[i] # {}
    /\ pruning' = [pruning EXCEPT ![i] = TRUE]
    /\ pruneTodo' = [pruneTodo EXCEPT ![i] =
                         {k \in Stored : NameOf(k) \in prunemap[i]}]
    /\ UNCHANGED <<kv, faults, prunemap, downed, reqVars, hsmsub_chan>>

\* prunemap_mutex.Lock() and subPrune()'s GetRange
PruneStart(i) ==
    /\ ~pruning[i]
    /\ prunemap[i] # {}
    /\ pruning' = [pruning EXCEPT ![i] = TRUE]
    /\ \/ /\ pruneTodo' = [pruneTodo EXCEPT ![i] =
                               {k \in Stored : Pruned(prunemap[i], k)}]
          /\ UNCHANGED <<kv, faults>>
       \/ ReadFails /\ UNCHANGED pruneTodo
    /\ UNCHANGED <<prunemap, downed, reqVars, hsmsub_chan>>

\* A failed delete is logged and otherwise ignored.
PruneDelete(i) ==
    /\ pruning[i]
    /\ \E k \in pruneTodo[i] :
          /\ DeleteOk(k) \/ DeleteFails(k)
          /\ pruneTodo' = [pruneTodo EXCEPT ![i] = @ \ {k}]
    /\ UNCHANGED <<prunemap, pruning, downed, reqVars, hsmsub_chan>>

\* Mutant of PruneFinish: no Unlock().
PruneFinishLocked(i) ==
    /\ pruning[i]
    /\ pruneTodo[i] = {}
    /\ prunemap' = [prunemap EXCEPT ![i] = {}]
    /\ UNCHANGED <<kv, pruning, downed, faults, reqVars, pruneTodo, hsmsub_chan>>

\* The whole map is emptied, whatever subPrune() achieved.
PruneFinish(i) ==
    /\ pruning[i]
    /\ pruneTodo[i] = {}
    /\ prunemap' = [prunemap EXCEPT ![i] = {}]
    /\ pruning' = [pruning EXCEPT ![i] = FALSE]
    /\ UNCHANGED <<kv, downed, faults, reqVars, pruneTodo, hsmsub_chan>>

-----------------------------------------------------------------------------
\* The fan-out side (doScn, sendSCNToSubscriber, pruneDeadWood) marks
\* components that went away or cannot be reached.
MarkDown(i, X) ==
    /\ Mark(i, X \X {NoAgent})
    /\ downed' = downed \cup X
    /\ UNCHANGED <<kv, pruning, faults, subVars>>

\* An instance dies: its requests get no answer, its prune map and channel
\* are gone; ETCD stays.  main() fills the channel again.
Crash(i) ==
    /\ pc' = [r \in Req |-> IF at[r] = i /\ pc[r] \notin
                               {"new", "rejected", "done"}
                            THEN "dead" ELSE pc[r]]
    /\ prunemap' = [prunemap EXCEPT ![i] = {}]
    /\ pruning' = [pruning EXCEPT ![i] = FALSE]
    /\ pruneTodo' = [pruneTodo EXCEPT ![i] = {}]
    /\ hsmsub_chan' = [hsmsub_chan EXCEPT ![i] = StartQueue]
    /\ UNCHANGED <<kv, downed, faults, op, at, cur, todo, resp, earlier>>

Handler(r) == \/ PostGet(r) \/ PostStore(r) \/ PostNotify(r)
              \/ PatchList(r) \/ PatchDelete(r) \/ PatchStore(r)
              \/ DeleteList(r) \/ DeleteKey(r) \/ DeleteMark(r)

Pruner(i) == PruneStart(i) \/ PruneDelete(i) \/ PruneFinish(i)

Next == \/ \E r \in Req : Arrive(r) \/ Reject(r) \/ Handler(r)
        \/ \E i \in Instance : Pruner(i) \/ DrainHsm(i) \/ RequeueHsm(i)
        \/ \E i \in MayCrash : Crash(i)
        \/ \E i \in Instance, X \in SUBSET Downable : MarkDown(i, X)

SafetySpec == Init /\ [][Next]_vars

-----------------------------------------------------------------------------
(* Properties *)

Pc == {"new", "rejected", "get", "store", "notify", "patchList", "patchDelete",
       "patchStore", "deleteList", "deleteKey", "deleteMark", "done", "dead"}

\* The types of the store, of the handlers' locals and of the channel; a
\* handler never overfills hsmsub_chan, and only a pruner that holds the
\* lock has keys left to delete.
TypeOK ==
    /\ kv \in [Key -> SubData \cup {None}]
    /\ prunemap \in [Instance -> SUBSET Name]
    /\ pruning \in [Instance -> BOOLEAN]
    /\ downed \subseteq XName
    /\ faults \in 0..MaxFaults
    /\ pc \in [Req -> Pc]
    /\ op \in [Req -> Ops]
    /\ at \in [Req -> Instance]
    /\ cur \in [Req -> Key]
    /\ todo \in [Req -> SUBSET Key]
    /\ resp \in [Req -> {"none", "ok", "refused", "error"}]
    /\ earlier \in [Req -> SUBSET Req]
    /\ pruneTodo \in [Instance -> SUBSET Key]
    /\ \A i \in Instance : pruneTodo[i] # {} => pruning[i]
    /\ hsmsub_chan \in [Instance -> Seq(HsmRequest)]
    /\ \A i \in Instance : Len(hsmsub_chan[i]) <= ChanCap

Begun(r) == pc[r] \notin {"new", "rejected"}

PatchKind == {"patchV1", "patchV2"}
DeleteKind == {"deleteV1", "deleteAgent", "deleteXName"}

\* The records request o may remove, at once or through the prune map.  A
\* DELETE without an agent puts the plain xname there, and subPrune() then
\* takes every agent's records.
Reaches(o, k) ==
    /\ o.kind # "post"
    /\ k.xname = o.xname
    /\ \/ k.agent = o.agent
       \/ o.kind = "deleteXName"
       \/ o.kind \in DeleteKind /\ o.agent = NoAgent

Targeted(k) == \/ k.xname \in downed
               \/ \E r \in Req : Begun(r) /\ Reaches(op[r], k)

AckedPost(r) == op[r].kind = "post" /\ resp[r] = "ok"

\* A subscription whose POST was answered ok is in ETCD for as long as nobody
\* DELETEs or PATCHes a subscription of the same xname and agent and its
\* component is not marked as gone: no interleaving of handlers, of pruners
\* of any instance, of failed ETCD calls and crashes removes anyone else's.
AckedPostStands ==
    \A r \in Req : AckedPost(r) =>
        LET k == makeSubscriptionKey(op[r])
        IN kv[k] # None \/ Targeted(k)

\* Request r is a PATCH of name n.
PatchOf(r, n) == op[r].kind \in PatchKind /\ <<op[r].xname, op[r].agent>> = n

\* Record k may go for good: its component is gone or a DELETE reaches it.
Doomed(k) == \/ k.xname \in downed
             \/ \E r \in Req : /\ Begun(r) /\ op[r].kind \in DeleteKind
                               /\ Reaches(op[r], k)

\* PATCHes alone never cost a subscriber its subscription, although each is a
\* Delete and then a Store, and two of them may replace each other's records:
\* after an acknowledged POST the name has some record, or a PATCH is about to
\* write one, unless an ETCD call failed (a PATCH ignores that of its Store),
\* a PATCH died with its process, a DELETE came or the component went away.
PatchedStays ==
    \A r \in Req : AckedPost(r) =>
        LET k == makeSubscriptionKey(op[r])
        IN \/ \E m \in Stored : NameOf(m) = NameOf(k)
           \/ \E q \in Req : pc[q] \in {"patchStore", "dead"} /\ PatchOf(q, NameOf(k))
           \/ faults > 0
           \/ Doomed(k)

\* As AckedPostStands, counting only requests that were not over when the POST arrived:
\* a DELETE answered before the POST was sent must not take the new record.
NewPostStands ==
    \A r \in Req : AckedPost(r) =>
        LET k == makeSubscriptionKey(op[r])
        IN \/ kv[k] # None
           \/ k.xname \in downed
           \/ \E q \in Req \ earlier[r] : Begun(q) /\ Reaches(op[q], k)

\* A DELETE of one agent's (or of the plain xname's) subscriptions leaves
\* those of the others on that xname alone, through the prune map too.
ExactService ==
    \A r \in Req : AckedPost(r) =>
        LET k == makeSubscriptionKey(op[r])
        IN \/ kv[k] # None
           \/ k.xname \in downed
           \/ \E q \in Req : /\ Begun(q)
                             /\ Reaches(op[q], k)
                             /\ \/ op[q].kind = "deleteXName"
                                \/ op[q].agent = k.agent

\* The keys that requests write.
Writable == {makeSubscriptionKey(o) : o \in {o \in Ops : o.kind \notin DeleteKind}}

\* A record whose name is in the prune map before a pass of prune() begins is
\* deleted in the end, unless an ETCD call fails: then, although the comment in
\* subPrune() says "play it safe and don't delete the prunemap entry", prune()
\* empties the map all the same and nobody tries again.  (One
\* that a POST stores while a pass is under way is not seen by its GetRange
\* and may outlive the entry; with the process the map is lost.)
MarkedIsPruned ==
    \A i \in Instance, k \in Writable :
        (k \in Stored /\ Pruned(prunemap[i], k) /\ ~pruning[i])
            ~> (k \notin Stored \/ faults > 0)
=============================================================================
