------------------------------ MODULE DeadWood ------------------------------
(***************************************************************************)
(* pruneDeadWood() (fanout.go), a goroutine main() starts beside the       *)
(* pruner and the HTTP server: it asks HSM which nodes are off, empty or   *)
(* halted and marks the subscribers among them, one by one, in the prune   *)
(* map.  A node that went away while no hmnfd ran is found this way only.  *)
(* The handlers, the pruner and HSM go on meanwhile.                       *)
(***************************************************************************)
EXTENDS Subscriptions

CONSTANTS
    Starts       \* what --nosm gives Nosm, with the bounds of that case: how
                 \* many requests, outages of nodes and restarts may come

Budget == [requests : Nat, outages : Nat, crashes : Nat]

ASSUME DeadWoodAssumption ==
    Starts \subseteq [nosm : BOOLEAN, budget : Budget]

VARIABLES
    nosm,      \* app_params.Nosm # 0 when a process starts
    dwPc,      \* per instance: where pruneDeadWood() is
    badMap,    \* its map of nodes that are gone
    dwTodo,    \* the keys of theirs it has still to mark
    node,      \* HSM's view of each node: up, dead, or back from an outage
    dwFailed,  \* history: one of its calls failed (bound: the first one)
    budget     \* what may still come

dwVars == <<dwPc, badMap, dwTodo, dwFailed>>
hsmVars == <<nosm, node>>
woodVars == <<storeVars, subVars, dwVars, hsmVars, budget>>

\* With Nosm set pruneDeadWood() returns at once.
DwStart == IF nosm THEN "done" ELSE "get"

WoodInit ==
    /\ Init
    /\ \E s \in Starts : nosm = s.nosm /\ budget = s.budget
    /\ dwPc = [i \in Instance |-> DwStart]
    /\ badMap = [i \in Instance |-> {}]
    /\ dwTodo = [i \in Instance |-> {}]
    /\ dwFailed = FALSE
    /\ node = [x \in XName |-> "up"]

-----------------------------------------------------------------------------
Dead == {x \in XName : node[x] = "dead"}

\* A node of HSM goes away and comes back (bound: one outage of each).
NodeChange ==
    /\ \E x \in Downable :
          \/ /\ node[x] = "up" /\ budget.outages > 0
             /\ node' = [node EXCEPT ![x] = "dead"]
             /\ budget' = [budget EXCEPT !.outages = @ - 1]
          \/ /\ node[x] = "dead"
             /\ node' = [node EXCEPT ![x] = "back"]
             /\ UNCHANGED budget
    /\ UNCHANGED <<storeVars, subVars, dwVars, nosm>>

DwFails == ~dwFailed /\ dwFailed' = TRUE

\* Mutant of DwGet: the request is given up when HSM does not answer.
DwGetOnce(i) ==
    /\ dwPc[i] = "get"
    /\ \/ badMap' = [badMap EXCEPT ![i] = Dead] /\ dwPc' = [dwPc EXCEPT ![i] = "list"]
       \/ dwPc' = [dwPc EXCEPT ![i] = "done"] /\ UNCHANGED badMap
    /\ UNCHANGED <<storeVars, subVars, dwTodo, dwFailed, hsmVars, budget>>

\* The GET is repeated until HSM sends JSON.  The status is not looked at: an
\* error answer in JSON names no components and passes for an empty list.
DwGet(i) ==
    /\ dwPc[i] = "get"
    /\ \/ badMap' = [badMap EXCEPT ![i] = Dead] /\ UNCHANGED dwFailed
       \/ DwFails /\ UNCHANGED badMap
    /\ dwPc' = [dwPc EXCEPT ![i] = "list"]
    /\ UNCHANGED <<storeVars, subVars, dwTodo, hsmVars, budget>>

\* Mutant of DwList: every subscriber is taken for gone.
DwListAll(i) ==
    /\ dwPc[i] = "list"
    /\ dwTodo' = [dwTodo EXCEPT ![i] = Stored]
    /\ dwPc' = [dwPc EXCEPT ![i] = IF dwTodo'[i] = {} THEN "done" ELSE "mark"]
    /\ badMap' = [badMap EXCEPT ![i] = {}]
    /\ UNCHANGED <<storeVars, subVars, dwFailed, hsmVars, budget>>

\* GetRange() of the subscriptions, and which of them match badMap; when it
\* fails nothing is marked.
DwList(i) ==
    /\ dwPc[i] = "list"
    /\ \/ /\ dwTodo' = [dwTodo EXCEPT ![i] =
                            {k \in Stored : k.xname \in badMap[i]}]
          /\ UNCHANGED dwFailed
       \/ DwFails /\ UNCHANGED dwTodo
    /\ dwPc' = [dwPc EXCEPT ![i] = IF dwTodo'[i] = {} THEN "done" ELSE "mark"]
    /\ badMap' = [badMap EXCEPT ![i] = {}]
    /\ UNCHANGED <<storeVars, subVars, hsmVars, budget>>

\* Mutant of DwMark: the lock is not asked for.
DwMarkUnlocked(i) ==
    /\ dwPc[i] = "mark"
    /\ \E k \in dwTodo[i] :
          /\ prunemap' = [prunemap EXCEPT ![i] = @ \cup {<<k.xname, NoAgent>>}]
          /\ downed' = downed \cup {k.xname}
          /\ dwTodo' = [dwTodo EXCEPT ![i] = @ \ {k}]
    /\ dwPc' = [dwPc EXCEPT ![i] = IF dwTodo'[i] = {} THEN "done" ELSE "mark"]
    /\ UNCHANGED <<kv, pruning, faults, subVars, badMap, dwFailed, hsmVars, budget>>

\* prunemap[xname] = true, under the lock, once for each of its keys
DwMark(i) ==
    /\ dwPc[i] = "mark"
    /\ \E k \in dwTodo[i] :
          /\ MarkDown(i, {k.xname})
          /\ dwTodo' = [dwTodo EXCEPT ![i] = @ \ {k}]
    /\ dwPc' = [dwPc EXCEPT ![i] = IF dwTodo'[i] = {} THEN "done" ELSE "mark"]
    /\ UNCHANGED <<badMap, dwFailed, hsmVars, budget>>

pruneDeadWood(i) == DwGet(i) \/ DwList(i) \/ DwMark(i)

\* The service is restarted and pruneDeadWood() starts over.
DwCrash(i) ==
    /\ budget.crashes > 0
    /\ budget' = [budget EXCEPT !.crashes = @ - 1]
    /\ Crash(i)
    /\ dwPc' = [dwPc EXCEPT ![i] = DwStart]
    /\ badMap' = [badMap EXCEPT ![i] = {}]
    /\ dwTodo' = [dwTodo EXCEPT ![i] = {}]
    /\ UNCHANGED <<dwFailed, hsmVars>>

\* The requests are interchangeable until they arrive: the next unused one does.
Unused == {r \in Req : pc[r] = "new"}

NewRequest ==
    /\ budget.requests > 0 /\ Unused # {}
    /\ LET r == CHOOSE r \in Unused : TRUE IN Arrive(r) \/ Reject(r)
    /\ budget' = [budget EXCEPT !.requests = @ - 1]
    /\ UNCHANGED <<dwVars, hsmVars>>

ApiStep == /\ \/ \E r \in Req : Handler(r)
              \/ \E i \in Instance : Pruner(i) \/ DrainHsm(i) \/ RequeueHsm(i)
           /\ UNCHANGED <<dwVars, hsmVars, budget>>

WoodNext == \/ NewRequest \/ ApiStep \/ NodeChange
            \/ \E i \in Instance : pruneDeadWood(i)
            \/ \E i \in MayCrash : DwCrash(i)

\* prune() and pruneDeadWood() run whenever they can, HSM answers in the end,
\* and a lock that is released again and again is obtained.
WoodSpec ==
    /\ WoodInit /\ [][WoodNext]_woodVars
    /\ \A i \in Instance :
          /\ WF_woodVars(Pruner(i) /\ UNCHANGED <<dwVars, hsmVars, budget>>)
          /\ SF_woodVars(pruneDeadWood(i))

-----------------------------------------------------------------------------
(* Properties *)

\* pruneDeadWood() costs only the dead their subscriptions: an acknowledged
\* one is still there unless a request was aimed at it or HSM has counted the
\* node as gone at some time, whatever node comes back between the GET and
\* the mark, and however a crash or a failed GetRange cuts the work short.
LiveIsKept ==
    \A r \in Req : AckedPost(r) =>
        LET k == makeSubscriptionKey(op[r])
        IN \/ kv[k] # None
           \/ node[k.xname] # "up"
           \/ \E q \in Req : Begun(q) /\ Reaches(op[q], k)

\* "Any HSM components in an unavailable state will have their subscriptions
\* pruned": a record that is there when pruneDeadWood() starts, of a node that
\* is gone and stays so, is deleted in the end, unless a call failed.
DeadWoodGoes ==
    \A i \in Instance, k \in {m \in Writable : m.xname \in Downable} :
        (dwPc[i] = "get" /\ k \in Stored /\ k.xname \in Dead)
            ~> (k \notin Stored \/ k.xname \notin Dead
                \/ faults > 0 \/ dwFailed)

\* Towards the subscription records pruneDeadWood() is one of the MarkDown
\* steps of the module Subscriptions: it waits for prunemap_mutex and changes
\* nothing but the prune map.
ImplementsMarkDown == SafetySpec
=============================================================================
